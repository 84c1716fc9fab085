---------------------------- MODULE WagerDomain ----------------------------
(***************************************************************************)
(* The domain layer of the wagering service: transaction kinds and states, *)
(* wallet arithmetic, ledger and journal entries, domain events, and the   *)
(* pure part of the decisions that settle an operation.  There is no state *)
(* here; module Wagering runs these operators inside database              *)
(* transactions.                                                           *)
(*                                                                         *)
(* Data.  A request body is the record of the ten fields the payload hash  *)
(* covers (the game id, which only the hash reads, is folded into round).  *)
(* Amounts are minor units; MaxMoney stands for the largest int64.  NULL   *)
(* columns and empty strings are None, a NULL balance is NoBalance.        *)
(***************************************************************************)
EXTENDS Integers, Sequences

CONSTANT MaxMoney            \* the largest representable amount, 2^63-1 in the code

ASSUME MaxMoneyAssumption == MaxMoney \in Nat

None      == "NONE"
NoBalance == -1

Kinds    == {"OPENING", "BET", "WIN", "LOSS", "REFUND", "ROLLBACK"}
Statuses == {"PENDING", "PENDING_REFERENCE", "PROCESSED", "REJECTED", "FAILED"}
FailureCodes ==
    {"INSUFFICIENT_BALANCE", "INSUFFICIENT_BALANCE_FOR_REVERSAL",
     "REFERENCE_NOT_FOUND", "REFERENCE_MISMATCH", "REFERENCE_NOT_SUCCESSFUL",
     "DUPLICATE_REVERSAL", "CURRENCY_MISMATCH", "INFRASTRUCTURE_FAILURE"}

IsTerminal(status)      == status \in {"PROCESSED", "REJECTED", "FAILED"}
RequiresReference(kind) == kind \in {"REFUND", "ROLLBACK"}
AllowsReference(kind)   == kind = "WIN" \/ RequiresReference(kind)

-----------------------------------------------------------------------------
(* The transaction entity.                                                 *)

\* A transaction row; "ABSENT" is the status of an id no row has yet.
NoBody == [provider |-> None, ext |-> None, player |-> None, wallet |-> None,
           round |-> None, kind |-> "LOSS", amount |-> 0, currency |-> None,
           ref |-> None]
NoTx   == [key |-> None, body |-> NoBody, status |-> "ABSENT",
           failure |-> None, result |-> NoBalance, refId |-> None]

\* What NewExternal accepts: a kind a provider may send, an amount that suits
\* the kind, and a reference exactly where the kind wants one.
ValidExternal(b) ==
    /\ b.kind \in Kinds \ {"OPENING"}
    /\ IF b.kind = "LOSS" THEN b.amount = 0 ELSE b.amount > 0
    /\ RequiresReference(b.kind) => b.ref # None
    /\ b.ref # None => AllowsReference(b.kind)

NewExternal(key, b) ==
    [key |-> key, body |-> b, status |-> "PENDING",
     failure |-> None, result |-> NoBalance, refId |-> None]

allowedTransitions ==
    { <<"PENDING", s>> : s \in Statuses \ {"PENDING"} }
        \cup { <<"PENDING_REFERENCE", s>> : s \in {"PROCESSED", "REJECTED", "FAILED"} }

MayBecome(row, status) == <<row.status, status>> \in allowedTransitions

MarkProcessed(row, balance) == [row EXCEPT !.status = "PROCESSED", !.result = balance]
MarkRejected(row, code)     == [row EXCEPT !.status = "REJECTED", !.failure = code]
MarkFailed(row, code)       == [row EXCEPT !.status = "FAILED", !.failure = code]
MarkPendingReference(row)   == [row EXCEPT !.status = "PENDING_REFERENCE"]

-----------------------------------------------------------------------------
(* The wallet, its ledger and the double-entry journal.                    *)

NoWallet == [open |-> FALSE, balance |-> 0, version |-> 0]

NewWallet(initial) == [open |-> TRUE, balance |-> initial, version |-> 1]

\* Mutant: one unit may be overdrawn.
Insufficient_OffByOne(w, dir, amount) == dir = "DEBIT" /\ w.balance + 1 < amount

\* Whether Wallet.Debit / Wallet.Credit succeeds, and the wallet it leaves.
Insufficient(w, dir, amount) == dir = "DEBIT" /\ w.balance < amount
Overflows(w, dir, amount)    == dir = "CREDIT" /\ w.balance + amount > MaxMoney
applyMovement(w, dir, amount) ==
    [w EXCEPT !.balance = IF dir = "DEBIT" THEN @ - amount ELSE @ + amount,
              !.version = @ + 1]

NewWalletLedgerEntry(id, dir, amount, before) ==
    [tx |-> id, dir |-> dir, amount |-> amount, before |-> before,
     after |-> IF dir = "DEBIT" THEN before - amount ELSE before + amount]

\* The two legs of a movement, one per account.
PlatformFunding == <<"platform", "funding">>
WalletAccount(w)   == <<"wallet", w>>
ProviderAccount(p) == <<"provider", p>>
NewMovement(id, from, to, amount) ==
    { [tx |-> id, account |-> from, dir |-> "DEBIT",  amount |-> amount],
      [tx |-> id, account |-> to,   dir |-> "CREDIT", amount |-> amount] }

\* Mutant: the accounts are not swapped for a debit.
recordDoubleEntry_NotSwapped(id, b, dir) ==
    NewMovement(id, ProviderAccount(b.provider), WalletAccount(b.wallet), b.amount)

recordDoubleEntry(id, b, dir) ==
    IF dir = "DEBIT"
    THEN NewMovement(id, WalletAccount(b.wallet), ProviderAccount(b.provider), b.amount)
    ELSE NewMovement(id, ProviderAccount(b.provider), WalletAccount(b.wallet), b.amount)

-----------------------------------------------------------------------------
(* Domain events, by what the properties tell apart: the type, the         *)
(* transaction, and for a balance change the wallet version it announces.  *)

Event(type, id)            == [type |-> type, tx |-> id, version |-> 0]
BalanceChanged(id, version) ==
    [type |-> "WalletBalanceChanged", tx |-> id, version |-> version]

-----------------------------------------------------------------------------
(* Decisions.                                                              *)

Process(dir) == [kind |-> "PROCESS", dir |-> dir, failure |-> None]
Reject(code) == [kind |-> "REJECT", dir |-> None, failure |-> code]
Park         == [kind |-> "PENDING_REFERENCE", dir |-> None, failure |-> None]

\* Mutant: every ROLLBACK debits.
reversalDirection_RollbackDebits(kind, refKind) ==
    CASE kind = "REFUND" /\ refKind = "BET"                         -> "CREDIT"
      [] kind = "ROLLBACK" /\ refKind \in {"BET", "WIN", "REFUND"}  -> "DEBIT"
      [] OTHER                                                      -> None

\* The money direction that undoes refKind, or None when kind may not undo it.
reversalDirection(kind, refKind) ==
    CASE refKind = "BET"                                      -> "CREDIT"
      [] kind = "ROLLBACK" /\ refKind \in {"WIN", "REFUND"}   -> "DEBIT"
      [] OTHER                                                -> None

SameOperation(b, r) ==
    /\ r.player = b.player
    /\ r.wallet = b.wallet
    /\ r.round = b.round
    /\ r.currency = b.currency
    /\ r.amount = b.amount

\* decideReversal up to its second statement: what the referenced row (NoTx when
\* the lookup found none) allows the reversal b to do.
ReferenceVerdict(b, ref) ==
    IF ref.status \in {"ABSENT", "PENDING", "PENDING_REFERENCE"} THEN Park
    ELSE IF ref.status \in {"REJECTED", "FAILED"} THEN Reject("REFERENCE_NOT_SUCCESSFUL")
    ELSE IF ~SameOperation(b, ref.body) THEN Reject("REFERENCE_MISMATCH")
    ELSE IF reversalDirection(b.kind, ref.body.kind) = None THEN Reject("REFERENCE_MISMATCH")
    ELSE Process(reversalDirection(b.kind, ref.body.kind))

-----------------------------------------------------------------------------
(* What one unit of work has written and not yet committed: the row of the *)
(* transaction, the wallet row, ledger entries, journal legs, events.      *)

NoWrites == [row |-> NoTx, wallet |-> NoWallet, moved |-> FALSE,
             entries |-> <<>>, legs |-> {}, events |-> {}]

Rejection(id, row, code) ==
    [NoWrites EXCEPT !.row = MarkRejected(row, code),
                     !.events = {Event("WagerTransactionRejected", id)}]

\* Mutant: the balance before the movement is read after it was applied.
Movement_LateBefore(id, row, w, dir) ==
    LET after == applyMovement(w, dir, row.body.amount)
    IN  [row     |-> MarkProcessed(row, after.balance),
         wallet  |-> after,
         moved   |-> TRUE,
         entries |-> <<NewWalletLedgerEntry(id, dir, row.body.amount, after.balance)>>,
         legs    |-> recordDoubleEntry(id, row.body, dir),
         events  |-> {Event("WagerTransactionProcessed", id),
                      BalanceChanged(id, after.version)}]

\* settle on a movement of funds that the wallet can bear.
Movement(id, row, w, dir) ==
    LET after == applyMovement(w, dir, row.body.amount)
    IN  [row     |-> MarkProcessed(row, after.balance),
         wallet  |-> after,
         moved   |-> TRUE,
         entries |-> <<NewWalletLedgerEntry(id, dir, row.body.amount, w.balance)>>,
         legs    |-> recordDoubleEntry(id, row.body, dir),
         events  |-> {Event("WagerTransactionProcessed", id),
                      BalanceChanged(id, after.version)}]

\* settle: everything a decision d makes the unit of work write for the
\* transaction id, whose row is row, on the locked wallet w.
Settlement(id, row, w, d) ==
    CASE d.kind = "PENDING_REFERENCE" ->
            [NoWrites EXCEPT !.row = MarkPendingReference(row),
                             !.events = {Event("WagerTransactionPendingReference", id)}]
      [] d.kind = "REJECT" -> Rejection(id, row, d.failure)
      [] d.kind = "PROCESS" /\ d.dir = None ->
            [NoWrites EXCEPT !.row = MarkProcessed(row, w.balance),
                             !.events = {Event("WagerTransactionProcessed", id)}]
      [] d.kind = "PROCESS" /\ d.dir # None /\ Insufficient(w, d.dir, row.body.amount) ->
            Rejection(id, row, IF RequiresReference(row.body.kind)
                               THEN "INSUFFICIENT_BALANCE_FOR_REVERSAL"
                               ELSE "INSUFFICIENT_BALANCE")
      [] OTHER -> Movement(id, row, w, d.dir)

\* NewOpening, with the NULL columns a provider would fill.
OpeningBody(w, account) ==
    [NoBody EXCEPT !.player = account.player, !.wallet = w, !.kind = "OPENING",
                   !.amount = account.initial, !.currency = account.currency]
NewOpening(w, account) ==
    [key |-> None, body |-> OpeningBody(w, account), status |-> "PROCESSED",
     failure |-> None, result |-> account.initial, refId |-> None]

\* OpenWallet's recordOpeningCredit: the OPENING transaction (named after its
\* wallet), its ledger entry from zero, its legs against the platform's funding
\* account, and both events.  A zero opening writes the wallet row alone.
OpeningWrites(w, account) ==
    IF account.initial = 0
    THEN [NoWrites EXCEPT !.wallet = NewWallet(0), !.moved = TRUE]
    ELSE [row     |-> NewOpening(w, account),
          wallet  |-> NewWallet(account.initial),
          moved   |-> TRUE,
          entries |-> <<NewWalletLedgerEntry(w, "CREDIT", account.initial, 0)>>,
          legs    |-> NewMovement(w, PlatformFunding, WalletAccount(w), account.initial),
          events  |-> {Event("WagerTransactionProcessed", w), BalanceChanged(w, 1)}]
=============================================================================
