-------------------------- MODULE RefinementProofs --------------------------
(***************************************************************************)
(* Wagering implements AtomicWagering, for any number of workers, wallets, *)
(* requests and faults.  Steps other than a commit leave the three tables  *)
(* alone.  A commit is the atomic operation that its plan stands for: the  *)
(* plan is a choice of the atomic service when it is made (Decide,         *)
(* CheckReversal, DecideParked), and stays one while others commit,        *)
(* because they do not hold the wallet's lock (PlanStands).                *)
(***************************************************************************)
EXTENDS WageringRefinement, CommitProofs

-----------------------------------------------------------------------------
(* Both modules use one domain.                                            *)

\* The values of the domain, as the atomic service names them.
LEMMA SameValues ==
  /\ Atomic!None = None /\ Atomic!NoTx = NoTx /\ Atomic!Park = Park /\ Atomic!NoWallet = NoWallet
  /\ Atomic!NoBody = NoBody
  /\ \A d : Atomic!Process(d) = Process(d)
  /\ \A c : Atomic!Reject(c) = Reject(c)
  /\ \A k : Atomic!RequiresReference(k) <=> RequiresReference(k)
  /\ \A b : Atomic!ValidExternal(b) <=> ValidExternal(b)
  /\ \A k, b : Atomic!NewExternal(k, b) = NewExternal(k, b)
  /\ \A n : Atomic!NewWallet(n) = NewWallet(n)
  /\ \A w, a : Atomic!NewOpening(w, a) = NewOpening(w, a)
  /\ \A w, d, n : Atomic!Overflows(w, d, n) <=> Overflows(w, d, n)
  /\ Atomic!Ids = AllIds
  <1>1. Atomic!None = None /\ Atomic!NoBody = NoBody /\ Atomic!NoBalance = NoBalance
    BY DEF Atomic!None, None, Atomic!NoBody, NoBody, Atomic!NoBalance, NoBalance
  <1>2. Atomic!NoTx = NoTx /\ Atomic!Park = Park /\ Atomic!NoWallet = NoWallet
    BY <1>1 DEF Atomic!NoTx, NoTx, Atomic!Park, Park, Atomic!NoWallet, NoWallet
  <1>3. /\ \A d : Atomic!Process(d) = Process(d)
        /\ \A c : Atomic!Reject(c) = Reject(c)
        /\ \A k : Atomic!RequiresReference(k) <=> RequiresReference(k)
    BY <1>1 DEF Atomic!Process, Process, Atomic!Reject, Reject, Atomic!RequiresReference, RequiresReference
  <1>4. \A b : Atomic!ValidExternal(b) <=> ValidExternal(b)
    BY <1>1 DEF Atomic!ValidExternal, ValidExternal, Atomic!Kinds, Kinds, Atomic!RequiresReference,
                RequiresReference, Atomic!AllowsReference, AllowsReference
  <1>5. /\ \A k, b : Atomic!NewExternal(k, b) = NewExternal(k, b)
        /\ \A n : Atomic!NewWallet(n) = NewWallet(n)
    BY <1>1 DEF Atomic!NewExternal, NewExternal, Atomic!NewWallet, NewWallet
  <1>6. \A w, a : Atomic!OpeningBody(w, a) = OpeningBody(w, a)
    BY <1>1 DEF Atomic!OpeningBody, OpeningBody
  <1>7. \A w, a : Atomic!NewOpening(w, a) = NewOpening(w, a)
    BY <1>1, <1>6 DEF Atomic!NewOpening, NewOpening
  <1>8. /\ \A w, d, n : Atomic!Overflows(w, d, n) <=> Overflows(w, d, n)
        /\ Atomic!Ids = AllIds
    BY DEF Atomic!Overflows, Overflows, Atomic!Ids, AllIds
  <1> QED BY <1>1, <1>2, <1>3, <1>4, <1>5, <1>7, <1>8

\* The verdict on a reference.
LEMMA SameVerdict ==
  ASSUME NEW b, NEW ref
  PROVE  Atomic!ReferenceVerdict(b, ref) = ReferenceVerdict(b, ref)
  <1>1. Atomic!SameOperation(b, ref.body) <=> SameOperation(b, ref.body)
    BY DEF Atomic!SameOperation, SameOperation
  <1>2. Atomic!reversalDirection(b.kind, ref.body.kind) = reversalDirection(b.kind, ref.body.kind)
    BY SameValues DEF Atomic!reversalDirection, reversalDirection
  <1> QED BY <1>1, <1>2, SameValues DEF Atomic!ReferenceVerdict, ReferenceVerdict

\* What a settlement writes.
LEMMA SameSettlement ==
  ASSUME NEW id, NEW row, NEW w, NEW d
  PROVE  Atomic!Settlement(id, row, w, d) = Settlement(id, row, w, d)
  <1>1. Atomic!NoWrites = NoWrites
    BY SameValues DEF Atomic!NoWrites, NoWrites
  <1>2. /\ \A t : Atomic!Event(t, id) = Event(t, id)
        /\ \A v : Atomic!BalanceChanged(id, v) = BalanceChanged(id, v)
    BY DEF Atomic!Event, Event, Atomic!BalanceChanged, BalanceChanged
  <1>3. /\ \A n : Atomic!MarkProcessed(row, n) = MarkProcessed(row, n)
        /\ \A c : Atomic!MarkRejected(row, c) = MarkRejected(row, c)
        /\ Atomic!MarkPendingReference(row) = MarkPendingReference(row)
    BY DEF Atomic!MarkProcessed, MarkProcessed, Atomic!MarkRejected, MarkRejected,
           Atomic!MarkPendingReference, MarkPendingReference
  <1>4. \A c : Atomic!Rejection(id, row, c) = Rejection(id, row, c)
    BY <1>1, <1>2, <1>3 DEF Atomic!Rejection, Rejection
  <1>5. \A dir : Atomic!recordDoubleEntry(id, row.body, dir) = recordDoubleEntry(id, row.body, dir)
    BY DEF Atomic!recordDoubleEntry, recordDoubleEntry, Atomic!NewMovement, NewMovement,
           Atomic!WalletAccount, WalletAccount, Atomic!ProviderAccount, ProviderAccount
  <1>6. /\ \A dir, n : Atomic!applyMovement(w, dir, n) = applyMovement(w, dir, n)
        /\ \A dir, n : Atomic!Insufficient(w, dir, n) <=> Insufficient(w, dir, n)
    BY DEF Atomic!applyMovement, applyMovement, Atomic!Insufficient, Insufficient
  <1>13. \A dir, n, m : Atomic!NewWalletLedgerEntry(id, dir, n, m) = NewWalletLedgerEntry(id, dir, n, m)
    BY DEF Atomic!NewWalletLedgerEntry, NewWalletLedgerEntry
  <1>7. ASSUME NEW dir PROVE Atomic!Movement(id, row, w, dir) = Movement(id, row, w, dir)
    <2> DEFINE after == applyMovement(w, dir, row.body.amount)
    <2>1. Atomic!applyMovement(w, dir, row.body.amount) = after
      BY <1>6
    <2> HIDE DEF after
    <2>2. /\ Atomic!MarkProcessed(row, after.balance) = MarkProcessed(row, after.balance)
          /\ Atomic!NewWalletLedgerEntry(id, dir, row.body.amount, w.balance)
               = NewWalletLedgerEntry(id, dir, row.body.amount, w.balance)
          /\ Atomic!recordDoubleEntry(id, row.body, dir) = recordDoubleEntry(id, row.body, dir)
          /\ Atomic!Event("WagerTransactionProcessed", id) = Event("WagerTransactionProcessed", id)
          /\ Atomic!BalanceChanged(id, after.version) = BalanceChanged(id, after.version)
      BY <1>2, <1>3, <1>5, <1>13
    <2> QED BY <2>1, <2>2, Zenon DEF Atomic!Movement, Movement, after
  <1>8. CASE d.kind = "PENDING_REFERENCE"
    BY <1>1, <1>2, <1>3, <1>8 DEF Atomic!Settlement, Settlement
  <1>9. CASE d.kind = "REJECT"
    BY <1>4, <1>9 DEF Atomic!Settlement, Settlement
  <1>10. CASE d.kind = "PROCESS" /\ d.dir = None
    BY <1>1, <1>2, <1>3, <1>10, SameValues DEF Atomic!Settlement, Settlement
  <1>11. CASE d.kind = "PROCESS" /\ d.dir # None /\ Insufficient(w, d.dir, row.body.amount)
    BY <1>4, <1>6, <1>11, SameValues DEF Atomic!Settlement, Settlement
  <1>12. CASE /\ d.kind \notin {"PENDING_REFERENCE", "REJECT"}
              /\ ~(d.kind = "PROCESS" /\ d.dir = None)
              /\ ~(d.kind = "PROCESS" /\ d.dir # None /\ Insufficient(w, d.dir, row.body.amount))
    BY <1>6, <1>7, <1>12, SameValues DEF Atomic!Settlement, Settlement
  <1> QED BY <1>8, <1>9, <1>10, <1>11, <1>12

-----------------------------------------------------------------------------
(* What the atomic service may choose, by what it reads: the row that b    *)
(* refers to (ref, NoTx where it is None) and whether it has been reversed. *)

Evades(b, ref, row) == ref # None /\ (row.body.wallet # b.wallet \/ row.status = "FAILED")

Reverses(b, ref, row, reversed, d, link) ==
    LET v == ReferenceVerdict(b, row)
    IN  \/ v.kind = "PROCESS" /\ reversed /\ d = Reject("DUPLICATE_REVERSAL") /\ link = None
        \/ v.kind = "PROCESS" /\ ~reversed /\ d = v /\ link = ref
        \/ v.kind # "PROCESS" /\ d = v /\ link = None
        \/ Evades(b, ref, row) /\ d = Park /\ link = None

Allowed(b, ref, row, reversed, d, link) ==
    IF b.currency # Accounts[b.wallet].currency THEN d = Reject("CURRENCY_MISMATCH") /\ link = None
    ELSE IF b.kind = "BET"  THEN d = Process("DEBIT") /\ link = None
    ELSE IF b.kind = "LOSS" THEN d = Process(None) /\ link = None
    ELSE IF b.kind = "WIN"
    THEN d = Process("CREDIT") /\ (link = ref \/ (Evades(b, ref, row) /\ link = None))
    ELSE Reverses(b, ref, row, reversed, d, link)

\* Choices, spelled out.
LEMMA ChoicesNow ==
  ASSUME NEW b, NEW d, NEW link
  PROVE  LET ref == Atomic!Referred(b)
         IN  Atomic!Choice(d, link) \in Atomic!Choices(b)
               <=> Allowed(b, ref, RowOf(ref), HasSuccessfulReversal(ref), d, link)
  <1> DEFINE ref == Atomic!Referred(b)
             row == RowOf(ref)
             v   == ReferenceVerdict(b, row)
  <1>1. \A e, l : Atomic!Choice(d, link) = Atomic!Choice(e, l) <=> d = e /\ link = l
    BY DEF Atomic!Choice
  <1>2. Atomic!Elusive(b, ref) <=> Evades(b, ref, row)
    BY SameValues DEF Atomic!Elusive, Evades, RowOf
  <1>3. Atomic!Reversed(ref) <=> HasSuccessfulReversal(ref)
    BY SameValues DEF Atomic!Reversed, HasSuccessfulReversal
  <1>4. Atomic!ReferenceVerdict(b, IF ref = Atomic!None THEN Atomic!NoTx ELSE txs[ref]) = v
    BY SameValues, SameVerdict DEF RowOf
  <1>5. Atomic!Choice(d, link) \in Atomic!ReversalChoices(b)
          <=> Reverses(b, ref, row, HasSuccessfulReversal(ref), d, link)
    <2> HIDE DEF ref, row, v
    <2> QED BY <1>1, <1>2, <1>3, <1>4, SameValues DEF Atomic!ReversalChoices, Reverses, v, ref
  <1> HIDE DEF ref, row, v
  <1> QED BY <1>1, <1>2, <1>5, SameValues DEF Atomic!Choices, Allowed, ref, row

\* And the same after a step.
LEMMA ChoicesNext ==
  ASSUME NEW b, NEW d, NEW link
  PROVE  (Atomic!Choice(d, link) \in Atomic!Choices(b))'
           <=> Allowed(b, Atomic!Referred(b)', RowOf(Atomic!Referred(b))',
                       HasSuccessfulReversal(Atomic!Referred(b))', d, link)
  <1>1. PICK ref : ref = Atomic!Referred(b)'
    OBVIOUS
  <1> DEFINE row == IF ref = None THEN NoTx ELSE txs'[ref]
             v   == ReferenceVerdict(b, row)
  <1>2. RowOf(Atomic!Referred(b))' = row
    BY <1>1 DEF RowOf
  <1>3. \A e, l : Atomic!Choice(d, link) = Atomic!Choice(e, l) <=> d = e /\ link = l
    BY DEF Atomic!Choice
  <1>4. Atomic!Elusive(b, Atomic!Referred(b))' <=> Evades(b, ref, row)
    BY <1>1, SameValues DEF Atomic!Elusive, Evades
  <1>5. Atomic!Reversed(Atomic!Referred(b))' <=> HasSuccessfulReversal(Atomic!Referred(b))'
    BY <1>1, SameValues DEF Atomic!Reversed, HasSuccessfulReversal
  <1>6. Atomic!ReferenceVerdict(b, IF ref = Atomic!None THEN Atomic!NoTx ELSE txs'[ref]) = v
    BY SameValues, SameVerdict
  <1>7. (Atomic!Choice(d, link) \in Atomic!ReversalChoices(b))'
          <=> Reverses(b, ref, row, HasSuccessfulReversal(Atomic!Referred(b))', d, link)
    <2> HIDE DEF row, v
    <2> QED BY <1>1, <1>3, <1>4, <1>5, <1>6, SameValues DEF Atomic!ReversalChoices, Reverses, v
  <1> HIDE DEF row, v
  <1> QED BY <1>1, <1>2, <1>3, <1>4, <1>7, SameValues DEF Atomic!Choices, Allowed

-----------------------------------------------------------------------------
(* The row a body refers to.                                               *)

\* Row i of the table T has the provider's identity that b refers to.
Names(b, T, i) ==
    b.ref # None /\ T[i].status # "ABSENT" /\ T[i].body.provider = b.provider /\ T[i].body.ext = b.ref

\* At most one row is referred to: identities are unique, and openings have none.
LEMMA OneReference ==
  ASSUME RowTables, NEW b, b.provider # None, NEW i \in AllIds, NEW k \in AllIds,
         Names(b, txs, i), Names(b, txs, k)
  PROVE  i = k
  <1>1. ASSUME NEW w \in Wallets, txs[w].status # "ABSENT" PROVE txs[w].body.provider = None
    <2>1. RowKept(w) /\ Stored(w)
      BY <1>1 DEF RowTables, AllIds, Stored
    <2> QED BY <2>1, OpeningKind DEF RowKept
  <1>2. i \in TxIds /\ k \in TxIds
    BY <1>1 DEF AllIds, Names
  <1> QED BY <1>2 DEF RowTables, UniqueRows, Collides, Stored, Names

\* What a lookup finds.
LEMMA ReferredNow ==
  ASSUME NEW b
  PROVE  LET ref == Atomic!Referred(b)
         IN  /\ ref = None \/ (ref \in AllIds /\ Names(b, txs, ref))
             /\ ref = None => \A i \in AllIds : ~Names(b, txs, i)
  <1> DEFINE P(i) == Atomic!Stored(i) /\ txs[i].body.provider = b.provider /\ txs[i].body.ext = b.ref
  <1>1. Atomic!Referred(b) = IF b.ref # None /\ (\E i \in AllIds : P(i))
                             THEN CHOOSE i \in AllIds : P(i) ELSE None
    BY SameValues DEF Atomic!Referred
  <1>2. \A i : Names(b, txs, i) <=> b.ref # None /\ P(i)
    BY DEF Names, Atomic!Stored
  <1> HIDE DEF P
  <1>3. CASE b.ref # None /\ \E i \in AllIds : P(i)
    <2>1. (CHOOSE i \in AllIds : P(i)) \in AllIds /\ P(CHOOSE i \in AllIds : P(i))
      BY <1>3
    <2>2. None \notin AllIds
      BY WageringAssumption
    <2> QED BY <1>1, <1>2, <1>3, <2>1, <2>2
  <1>4. CASE ~(b.ref # None /\ \E i \in AllIds : P(i))
    BY <1>1, <1>2, <1>4
  <1> QED BY <1>3, <1>4

\* And after a step.
LEMMA ReferredNext ==
  ASSUME NEW b
  PROVE  /\ \/ Atomic!Referred(b)' = None
            \/ Atomic!Referred(b)' \in AllIds /\ Names(b, txs', Atomic!Referred(b)')
         /\ Atomic!Referred(b)' = None => \A i \in AllIds : ~Names(b, txs', i)
  <1> DEFINE P(i) == /\ txs'[i].status # "ABSENT" /\ txs'[i].body.provider = b.provider
                     /\ txs'[i].body.ext = b.ref
  <1>1. Atomic!Referred(b)' = IF b.ref # None /\ (\E i \in AllIds : P(i))
                              THEN CHOOSE i \in AllIds : P(i) ELSE None
    BY SameValues DEF Atomic!Referred, Atomic!Stored
  <1>2. \A i : Names(b, txs', i) <=> b.ref # None /\ P(i)
    BY DEF Names
  <1> HIDE DEF P
  <1>3. CASE b.ref # None /\ \E i \in AllIds : P(i)
    <2>1. (CHOOSE i \in AllIds : P(i)) \in AllIds /\ P(CHOOSE i \in AllIds : P(i))
      BY <1>3
    <2>2. None \notin AllIds
      BY WageringAssumption
    <2> QED BY <1>1, <1>2, <1>3, <2>1, <2>2
  <1>4. CASE ~(b.ref # None /\ \E i \in AllIds : P(i))
    BY <1>1, <1>2, <1>4
  <1> QED BY <1>3, <1>4

\* At most one row of a table is referred to.
LEMMA OneNamed ==
  ASSUME NEW T, NEW b, b.provider # None, NEW i \in AllIds, NEW k \in AllIds,
         Names(b, T, i), Names(b, T, k),
         \A w \in Wallets : T[w].status # "ABSENT" => T[w].body.provider = None,
         \A m, n \in TxIds : /\ T[m].status # "ABSENT" /\ T[n].status # "ABSENT"
                             /\ T[m].body.provider = T[n].body.provider /\ T[m].body.ext = T[n].body.ext
                             => m = n
  PROVE  i = k
  <1>1. i \in TxIds /\ k \in TxIds
    BY DEF AllIds, Names
  <1> QED BY <1>1 DEF Names

\* The lookup of the code is the one of the atomic service.
LEMMA SameReference ==
  ASSUME RowInv, NEW b, b.provider # None
  PROVE  Atomic!Referred(b) = ReferenceId(b)
  <1> DEFINE ref == Atomic!Referred(b)
             id  == ReferenceId(b)
  <1>1. None \notin AllIds /\ RowTables
    BY WageringAssumption DEF RowInv
  <1>2. /\ ref = None \/ (ref \in AllIds /\ Names(b, txs, ref))
        /\ ref = None => \A i \in AllIds : ~Names(b, txs, i)
    BY ReferredNow
  <1>3. /\ id = None => \A i \in AllIds : ~Names(b, txs, i)
        /\ id # None => id \in AllIds /\ Names(b, txs, id)
    <2>1. CASE b.ref = None
      BY <2>1 DEF ReferenceId, Names
    <2>2. CASE b.ref # None
      <3>1. id = GetByProviderExternalID(b.provider, b.ref)
        BY <2>2 DEF ReferenceId
      <3> HIDE DEF id
      <3> QED BY <2>2, <3>1, IdentityLookup DEF Names, Stored, AllIds
    <2> QED BY <2>1, <2>2
  <1>4. SUFFICES ref = id
    OBVIOUS
  <1> HIDE DEF ref, id
  <1>5. CASE ref = None \/ id = None
    BY <1>1, <1>2, <1>3, <1>5
  <1>6. CASE ref # None /\ id # None
    BY <1>1, <1>2, <1>3, <1>6, OneReference
  <1> QED BY <1>5, <1>6

\* A reference that was found stays found, whatever is committed; a settled one stays
\* as it is.  What is found afterwards and not before has just been written.
LEMMA ReferredStays ==
  ASSUME IInv, RowInv, NEW x \in Workers, pc[x] = "commit", ApplyWrites(x), NEW b, b.provider # None
  PROVE  LET old == Atomic!Referred(b)
             new == Atomic!Referred(b)'
         IN  /\ old # None => new = old
             /\ new # None /\ txs'[new] = txs[new] => old = new
  <1> DEFINE old == Atomic!Referred(b)
  <1>0. PICK new : new = Atomic!Referred(b)'
    OBVIOUS
  <1>1. /\ old = None \/ (old \in AllIds /\ Names(b, txs, old))
        /\ old = None => \A i \in AllIds : ~Names(b, txs, i)
    BY ReferredNow
  <1>2. /\ new = None \/ (new \in AllIds /\ Names(b, txs', new))
        /\ new = None => \A i \in AllIds : ~Names(b, txs', i)
    BY <1>0, ReferredNext
  <1> HIDE DEF old
  <1>3. RowTables /\ RowTables'
    BY CommitTables DEF RowInv
  <1>4. old # None => Names(b, txs', old)
    BY <1>1, Grows DEF Names, Stored
  <1>5. /\ \A w \in Wallets : txs'[w].status # "ABSENT" => txs'[w].body.provider = None
        /\ \A m, n \in TxIds : /\ txs'[m].status # "ABSENT" /\ txs'[n].status # "ABSENT"
                               /\ txs'[m].body.provider = txs'[n].body.provider
                               /\ txs'[m].body.ext = txs'[n].body.ext
                               => m = n
    <2>1. ASSUME NEW w \in Wallets, txs'[w].status # "ABSENT" PROVE txs'[w].body.provider = None
      <3>1. RowKept(w)'
        BY <1>3 DEF RowTables, AllIds
      <3>2. txs'[w] = NewOpening(w, Accounts[w])
        BY <2>1, <3>1 DEF RowKept, Stored
      <3> QED BY <3>2, OpeningKind
    <2>2. UniqueRows'
      BY <1>3 DEF RowTables
    <2> QED BY <2>1, <2>2 DEF UniqueRows, Collides, Stored
  <1>6. old # None => new = old
    <2> SUFFICES ASSUME old # None PROVE new = old
      OBVIOUS
    <2>1. old \in AllIds /\ Names(b, txs', old) /\ new \in AllIds /\ Names(b, txs', new)
      BY <1>1, <1>2, <1>4
    <2> QED BY <1>5, <2>1, OneNamed
  <1>7. new # None /\ txs'[new] = txs[new] => old = new
    <2> SUFFICES ASSUME new # None, txs'[new] = txs[new] PROVE old = new
      OBVIOUS
    <2>1. new \in AllIds /\ Names(b, txs, new)
      BY <1>2 DEF Names
    <2> QED BY <1>1, <1>6, <2>1
  <1> QED BY <1>0, <1>6, <1>7 DEF old

-----------------------------------------------------------------------------
(* Whoever carries out a plan is not disturbed by the commits of others.   *)

\* Worker y is carrying out a plan.
Carries(y) == Settles(y) /\ pc[y] \in {"reversal", "save"} \cup AfterSave

\* The body of the row in its hands names a provider and suits its kind.
LEMMA CarriedBody ==
  ASSUME IInv, RowInv, NEW y \in Workers, Settles(y), pc[y] \in DecisionPCs \cup AfterSave
  PROVE  job[y].row.body.provider # None /\ ValidExternal(job[y].row.body)
  <1>1. job[y].mode \in {"insert", "update"} /\ ~Opens(y) /\ ~job[y].failing
    BY DEF Settles
  <1>2. CASE y \in Handlers
    <2>1. job[y].cmd \in Commands /\ job[y].row.body = job[y].cmd.body
      BY <1>1, <1>2, Deciding, Inserting, Updating
    <2>2. job[y].mode = "insert" /\ About(y)
      BY <1>1, <1>2 DEF RowInv, RowWorker, About, None
    <2> QED BY <1>1, <1>2, <2>1, <2>2, WageringAssumption DEF About
  <1>3. CASE y \in Resolvers
    <2>1. About(y) /\ job[y].mode # None
      BY <1>1 DEF RowInv, RowWorker, None
    <2>2. job[y].id \in TxIds /\ job[y].row.body = txs[job[y].id].body
      BY <1>3, <2>1 DEF About
    <2>3. job[y].mode = "update"
      <3>1. job[y].mode # "insert"
        BY <1>3, <2>1 DEF About, None
      <3> QED BY <1>1, <3>1
    <2>4. Stored(job[y].id)
      BY <2>3 DEF IInv, WorkerInv, Shape
    <2>5. RowKept(job[y].id)
      BY <2>2 DEF RowInv, RowTables, AllIds
    <2> QED BY <2>2, <2>4, <2>5 DEF RowKept
  <1> QED BY <1>2, <1>3 DEF Workers

\* A row that another worker writes is on another wallet, or failed.
LEMMA EvasiveWrites ==
  ASSUME IInv, RowInv, NEW x \in Workers, pc[x] = "commit", ApplyWrites(x),
         NEW y \in Workers \ {x}, Carries(y),
         NEW i \in AllIds, txs'[i] # txs[i], txs'[i].body.provider # None
  PROVE  txs'[i].body.wallet # job[y].row.body.wallet \/ txs'[i].status = "FAILED"
  <1>1. pc[x] \in AfterSave
    BY DEF AfterSave
  <1>2. i = job[x].id /\ job[x].mode \in {"insert", "update"} /\ txs'[i] = job[x].writes.row
    BY Grows
  <1>3. ~Opens(x)
    <2> SUFFICES ASSUME Opens(x) PROVE FALSE
      OBVIOUS
    <2>1. job[x].writes.row = NewOpening(job[x].wid, Accounts[job[x].wid])
      BY <1>2, OpeningCommit DEF None
    <2> QED BY <1>2, <2>1, OpeningKind
  <1>4. CASE job[x].failing
    <2>1. job[x].mode = "update"
      BY <1>1, <1>2, <1>3, <1>4, Inserting
    <2> QED BY <1>1, <1>2, <1>4, <2>1, Updating
  <1>5. CASE ~job[x].failing
    <2>1. Settles(x)
      BY <1>2, <1>3, <1>5 DEF Settles
    <2>2. job[x].wid = job[x].row.body.wallet /\ holder[job[x].wid] = x
      BY <1>1, <2>1, SettlingHolds
    <2>3. job[y].wid = job[y].row.body.wallet /\ holder[job[y].wid] = y
      BY SettlingHolds DEF Carries
    <2>4. txs'[i].body = job[x].row.body
      BY <1>1, <1>2, <1>3, Updating, Inserting
    <2> QED BY <2>2, <2>3, <2>4
  <1> QED BY <1>4, <1>5

\* Nor does another worker reverse a row of that wallet.
LEMMA ReversedStays ==
  ASSUME IInv, RowInv, NEW x \in Workers, pc[x] = "commit", ApplyWrites(x),
         NEW y \in Workers \ {x}, Carries(y),
         NEW i \in AllIds, txs[i].body.wallet = job[y].row.body.wallet
  PROVE  HasSuccessfulReversal(i)' <=> HasSuccessfulReversal(i)
  <1>1. ASSUME NEW t \in AllIds, txs[t].status = "PROCESSED" PROVE txs'[t] = txs[t]
    BY <1>1, Grows DEF IsTerminal
  <1>2. ASSUME NEW t \in AllIds, txs'[t].refId = i, RequiresReference(txs'[t].body.kind),
               txs'[t].status = "PROCESSED"
        PROVE  txs'[t] = txs[t]
    <2> SUFFICES ASSUME txs'[t] # txs[t] PROVE FALSE
      OBVIOUS
    <2>1. /\ job[x].wid = job[x].row.body.wallet /\ holder[job[x].wid] = x
          /\ SameOperation(job[x].row.body, txs[i].body)
      BY <1>2, NewReversal
    <2>2. job[y].wid = job[y].row.body.wallet /\ holder[job[y].wid] = y
      BY SettlingHolds DEF Carries
    <2> QED BY <2>1, <2>2 DEF SameOperation
  <1>3. HasSuccessfulReversal(i) => HasSuccessfulReversal(i)'
    BY <1>1 DEF HasSuccessfulReversal
  <1>4. HasSuccessfulReversal(i)' => HasSuccessfulReversal(i)
    BY <1>2 DEF HasSuccessfulReversal
  <1> QED BY <1>3, <1>4

\* What the atomic service may choose for a row in y's hands, it may choose after the
\* commit of another worker as well.
LEMMA ChoiceStays ==
  ASSUME IInv, RowInv, NEW x \in Workers, pc[x] = "commit", ApplyWrites(x),
         NEW y \in Workers \ {x}, Carries(y), NEW d, NEW link, NEW b, b = job[y].row.body,
         Atomic!Choice(d, link) \in Atomic!Choices(b)
  PROVE  (Atomic!Choice(d, link) \in Atomic!Choices(b))'
  <1>1. b.provider # None
    BY CarriedBody DEF Carries, DecisionPCs
  <1>2. PICK old : old = Atomic!Referred(b)
    OBVIOUS
  <1>3. PICK new : new = Atomic!Referred(b)'
    OBVIOUS
  <1> DEFINE row1 == IF old = None THEN NoTx ELSE txs[old]
             row2 == IF new = None THEN NoTx ELSE txs'[new]
             rev1 == HasSuccessfulReversal(old)
             rev2 == HasSuccessfulReversal(new)'
  <1>4. Allowed(b, old, row1, rev1, d, link)
    BY <1>2, ChoicesNow DEF RowOf
  <1>5. SUFFICES Allowed(b, new, row2, rev2, d, link)
    <2>1. RowOf(Atomic!Referred(b))' = row2
      BY <1>3 DEF RowOf
    <2>2. HasSuccessfulReversal(Atomic!Referred(b))' <=> rev2
      BY <1>3 DEF HasSuccessfulReversal
    <2> QED BY <1>3, <1>5, <2>1, <2>2, ChoicesNext
  <1>6. /\ old # None => new = old
        /\ new # None /\ txs'[new] = txs[new] => old = new
    BY <1>1, <1>2, <1>3, ReferredStays
  <1>7. /\ new = None \/ (new \in AllIds /\ txs'[new].body.provider = b.provider)
        /\ old = None \/ old \in AllIds
    BY <1>2, <1>3, ReferredNow, ReferredNext DEF Names
  <1>8. NoTx.status = "ABSENT"
    BY DEF NoTx
  <1>9. CASE new = None
    <2>1. old = None /\ row1 = row2 /\ ReferenceVerdict(b, row2).kind = "PENDING_REFERENCE"
      BY <1>6, <1>8, <1>9, VerdictSays
    <2> HIDE DEF row1, row2, rev1, rev2
    <2> QED BY <1>4, <1>9, <2>1 DEF Allowed, Reverses, Evades
  <1>10. CASE new # None /\ txs'[new] = txs[new]
    <2>1. old = new /\ row1 = row2 /\ new \in AllIds /\ row2 = txs[new]
      BY <1>6, <1>7, <1>10
    <2>2. ReferenceVerdict(b, row2).kind = "PROCESS" => (rev1 <=> rev2)
      <3>1. SUFFICES ASSUME ReferenceVerdict(b, row2).kind = "PROCESS" PROVE rev1 <=> rev2
        OBVIOUS
      <3>2. txs[new].body.wallet = b.wallet
        BY <2>1, <3>1, VerdictSays DEF SameOperation
      <3> QED BY <2>1, <3>2, ReversedStays
    <2> HIDE DEF row1, row2, rev1, rev2
    <2> QED BY <1>4, <2>1, <2>2 DEF Allowed, Reverses, Evades
  <1>11. CASE new # None /\ txs'[new] # txs[new]
    <2>1. Evades(b, new, row2)
      BY <1>1, <1>7, <1>11, EvasiveWrites DEF Evades
    <2>2. old \in {None, new}
      BY <1>6
    <2>3. row1.status \in {"ABSENT", "PENDING", "PENDING_REFERENCE"}
      <3>1. CASE old = None
        BY <1>8, <3>1
      <3>2. CASE old # None
        <4>1. old = new /\ new \in AllIds /\ ~IsTerminal(txs[new].status)
          BY <1>6, <1>7, <1>11, <3>2, Grows
        <4>2. txs[new].status \in Statuses \cup {"ABSENT"}
          BY <4>1, RowStatus DEF IInv
        <4> QED BY <3>2, <4>1, <4>2 DEF Statuses, IsTerminal
      <3> QED BY <3>1, <3>2
    <2>4. ReferenceVerdict(b, row1) = Park /\ Park.kind = "PENDING_REFERENCE"
      BY <2>3, VerdictSays DEF Park
    <2> HIDE DEF row1, row2, rev1, rev2
    <2> QED BY <1>4, <2>1, <2>2, <2>4 DEF Allowed, Reverses
  <1> QED BY <1>9, <1>10, <1>11

\* So a plan stands until it is carried out.
LEMMA PlanUndisturbed ==
  ASSUME IInv, RowInv, NEW x \in Workers, Commits(x), NEW y \in Workers \ {x}, PlanStands(y)
  PROVE  PlanStands(y)'
  <1>1. pc[x] = "commit" /\ ApplyWrites(x) /\ pc'[y] = pc[y] /\ job'[y] = job[y]
        /\ (Settles(y)' <=> Settles(y))
    BY DEF Commits, Settles, Opens
  <1>2. PICK b : b = job[y].row.body
    OBVIOUS
  <1>3. PICK d, link : d = job[y].plan /\ link = job[y].row.refId
    OBVIOUS
  <1>4. CASE ~Settles(y)
    BY <1>1, <1>4 DEF PlanStands
  <1>5. CASE Settles(y) /\ pc[y] = "reversal"
    <2>1. Carries(y) /\ Planned(y) /\ pc[y] \notin {"save"} \cup AfterSave
      BY <1>5 DEF Carries, RowInv, RowWorker, AfterSave
    <2>2. link = Atomic!Referred(b) /\ b.currency = Accounts[b.wallet].currency
      BY <1>2, <1>3, <1>5 DEF PlanStands
    <2>3. link # None /\ b.provider # None
      <3>1. link \in AllIds
        BY <1>2, <1>3, <1>5, <2>1 DEF Planned
      <3> QED BY <1>2, <1>5, <3>1, CarriedBody, WageringAssumption DEF DecisionPCs
    <2>4. link = Atomic!Referred(b)'
      BY <1>1, <2>2, <2>3, ReferredStays
    <2> QED BY <1>1, <1>2, <1>3, <1>5, <2>1, <2>2, <2>4 DEF PlanStands
  <1>6. CASE Settles(y) /\ pc[y] \in {"save"} \cup AfterSave
    <2>1. Carries(y) /\ pc[y] # "reversal"
      BY <1>6 DEF Carries, AfterSave
    <2>2. \/ Atomic!Choice(d, link) \in Atomic!Choices(b)
          \/ /\ y \in Resolvers /\ link = None /\ d = Reject("REFERENCE_NOT_FOUND")
             /\ Atomic!Choice(Park, None) \in Atomic!Choices(b)
      BY <1>2, <1>3, <1>6 DEF PlanStands
    <2>3. \/ (Atomic!Choice(d, link) \in Atomic!Choices(b))'
          \/ /\ y \in Resolvers /\ link = None /\ d = Reject("REFERENCE_NOT_FOUND")
             /\ (Atomic!Choice(Park, None) \in Atomic!Choices(b))'
      BY <1>1, <1>2, <2>1, <2>2, ChoiceStays
    <2> QED BY <1>1, <1>2, <1>3, <2>1, <2>3 DEF PlanStands
  <1>7. CASE Settles(y) /\ pc[y] \notin {"reversal", "save"} \cup AfterSave
    BY <1>1, <1>7 DEF PlanStands
  <1> QED BY <1>4, <1>5, <1>6, <1>7

-----------------------------------------------------------------------------
(* The steps that make a plan, and those that carry it on.                 *)

\* Choices depend on the rows alone.
LEMMA ChoicesQuiet ==
  ASSUME txs' = txs, NEW b
  PROVE  /\ Atomic!Referred(b)' = Atomic!Referred(b)
         /\ \A d, link : (Atomic!Choice(d, link) \in Atomic!Choices(b))'
                           <=> Atomic!Choice(d, link) \in Atomic!Choices(b)
  <1>1. Atomic!Referred(b)' = Atomic!Referred(b)
    BY DEF Atomic!Referred, Atomic!Stored
  <1>2. ASSUME NEW d, NEW link
        PROVE  (Atomic!Choice(d, link) \in Atomic!Choices(b))'
                 <=> Atomic!Choice(d, link) \in Atomic!Choices(b)
    <2>1. PICK ref : ref = Atomic!Referred(b)
      OBVIOUS
    <2>2. RowOf(Atomic!Referred(b))' = RowOf(ref)
      BY <1>1, <2>1 DEF RowOf
    <2>3. HasSuccessfulReversal(Atomic!Referred(b))' <=> HasSuccessfulReversal(ref)
      BY <1>1, <2>1 DEF HasSuccessfulReversal
    <2>4. Atomic!Choice(d, link) \in Atomic!Choices(b)
            <=> Allowed(b, ref, RowOf(ref), HasSuccessfulReversal(ref), d, link)
      BY <2>1, ChoicesNow
    <2>5. (Atomic!Choice(d, link) \in Atomic!Choices(b))'
            <=> Allowed(b, ref, RowOf(ref), HasSuccessfulReversal(Atomic!Referred(b))', d, link)
      BY <1>1, <2>1, <2>2, ChoicesNext
    <2>6. Allowed(b, ref, RowOf(ref), HasSuccessfulReversal(Atomic!Referred(b))', d, link)
            <=> Allowed(b, ref, RowOf(ref), HasSuccessfulReversal(ref), d, link)
      BY <2>3 DEF Allowed, Reverses
    <2> QED BY <2>4, <2>5, <2>6
  <1> QED BY <1>1, <1>2

\* The plan that worker x makes is a choice of the atomic service.
LEMMA PlanMade ==
  ASSUME NEW x \in Workers, txs' = txs, NEW b, b = job'[x].row.body,
         pc'[x] \in {"reversal", "save"},
         NEW d, d = job'[x].plan, NEW link, link = job'[x].row.refId,
         pc'[x] = "reversal" => b.currency = Accounts[b.wallet].currency /\ link = Atomic!Referred(b),
         pc'[x] = "save" =>
            \/ Atomic!Choice(d, link) \in Atomic!Choices(b)
            \/ /\ x \in Resolvers /\ link = None /\ d = Reject("REFERENCE_NOT_FOUND")
               /\ Atomic!Choice(Park, None) \in Atomic!Choices(b)
  PROVE  PlanStands(x)'
  <1>1. Atomic!Referred(b)' = Atomic!Referred(b)
    BY ChoicesQuiet
  <1>2. pc'[x] = "save" =>
            \/ (Atomic!Choice(d, link) \in Atomic!Choices(b))'
            \/ /\ x \in Resolvers /\ link = None /\ d = Reject("REFERENCE_NOT_FOUND")
               /\ (Atomic!Choice(Park, None) \in Atomic!Choices(b))'
    BY ChoicesQuiet
  <1>3. pc'[x] \notin AfterSave
    BY DEF AfterSave
  <1> QED BY <1>1, <1>2, <1>3 DEF PlanStands

\* A worker that keeps its plan, and tables that keep their rows, keep PlanStands.
LEMMA PlanKept ==
  ASSUME NEW x \in Workers, txs' = txs, PlanStands(x), Settles(x)' => Settles(x),
         Settles(x)' => job'[x].row = job[x].row /\ job'[x].plan = job[x].plan,
         pc'[x] = "reversal" => pc[x] = "reversal",
         pc'[x] \in {"save"} \cup AfterSave => pc[x] \in {"save"} \cup AfterSave
  PROVE  PlanStands(x)'
  <1>1. SUFFICES ASSUME Settles(x)' PROVE PlanStands(x)'
    BY DEF PlanStands
  <1>2. PICK b, d, link : b = job[x].row.body /\ d = job[x].plan /\ link = job[x].row.refId
    OBVIOUS
  <1>3. Atomic!Referred(b)' = Atomic!Referred(b)
    BY ChoicesQuiet
  <1>4. /\ (Atomic!Choice(d, link) \in Atomic!Choices(b))' <=> Atomic!Choice(d, link) \in Atomic!Choices(b)
        /\ (Atomic!Choice(Park, None) \in Atomic!Choices(b))' <=> Atomic!Choice(Park, None) \in Atomic!Choices(b)
    BY ChoicesQuiet
  <1> QED BY <1>1, <1>2, <1>3, <1>4 DEF PlanStands

\* Nothing is asked of a worker that carries out nothing.
LEMMA NoPlan ==
  ASSUME NEW x \in Workers, ~Settles(x)' \/ pc'[x] \notin {"reversal", "save"} \cup AfterSave
  PROVE  PlanStands(x)'
  BY DEF PlanStands

\* The others stand still while the tables do.
LEMMA OthersStand ==
  ASSUME NEW x \in Workers, txs' = txs, PlansStand, PlanStands(x)',
         \A y \in Workers \ {x} : pc'[y] = pc[y] /\ job'[y] = job[y]
  PROVE  PlansStand'
  <1> SUFFICES ASSUME NEW y \in Workers \ {x} PROVE PlanStands(y)'
    BY DEF PlansStand
  <1>1. (Settles(y)' <=> Settles(y)) /\ PlanStands(y)
    BY DEF Settles, Opens, PlansStand
  <1> QED BY <1>1, PlanKept

\* What a worker has in hand after it has made its plan.
LEMMA PlanInHand ==
  ASSUME IInv, NEW x \in Workers, job[x].row \in Rows, NEW d, NEW ref, NEW l,
         job' = [job EXCEPT ![x] = [job[x] EXCEPT !.plan = d,
                                       !.row = [job[x].row EXCEPT !.refId = ref]]],
         pc' = [pc EXCEPT ![x] = l]
  PROVE  /\ job'[x].plan = d /\ job'[x].row.body = job[x].row.body /\ job'[x].row.refId = ref
         /\ pc'[x] = l /\ \A y \in Workers \ {x} : pc'[y] = pc[y] /\ job'[y] = job[y]
  <1> DEFINE row == [job[x].row EXCEPT !.refId = ref]
             j == [job[x] EXCEPT !.plan = d, !.row = row]
  <1>1. job \in [Workers -> Jobs] /\ pc \in [Workers -> PCs]
    BY DEF IInv, TypeOK
  <1>2. row.body = job[x].row.body /\ row.refId = ref
    BY DEF Rows
  <1> HIDE DEF row
  <1>3. j.plan = d /\ j.row = row
    BY <1>1 DEF Jobs
  <1>4. job' = [job EXCEPT ![x] = j]
    BY DEF row
  <1> HIDE DEF j
  <1> QED BY <1>1, <1>2, <1>3, <1>4

\* A verdict on the reference, as it is now, is a choice.
LEMMA VerdictChosen ==
  ASSUME IInv, RowInv, NEW b, b.provider # None, b.currency = Accounts[b.wallet].currency,
         RequiresReference(b.kind), NEW d, d = ReferenceVerdict(b, RowOf(ReferenceId(b))),
         d.kind # "PROCESS"
  PROVE  Atomic!Choice(d, None) \in Atomic!Choices(b)
  <1>1. PICK ref : ref = Atomic!Referred(b) /\ ref = ReferenceId(b)
    BY SameReference
  <1>2. b.kind \notin {"BET", "WIN", "LOSS"}
    BY DEF RequiresReference
  <1>3. Allowed(b, ref, RowOf(ref), HasSuccessfulReversal(ref), d, None)
    BY <1>1, <1>2 DEF Allowed, Reverses
  <1> QED BY <1>1, <1>3, ChoicesNow

\* decide, for a handler.
LEMMA DecideStands ==
  ASSUME IInv, RowInv, PlansStand, NEW h \in Handlers, Decide(h)
  PROVE  PlansStand'
  <1> DEFINE b == job[h].row.body
             d == decide(job[h].row, job[h].wid)
             ref == IF d.kind = "PROCESS" THEN ReferenceId(b) ELSE None
             l == IF d.kind = "PROCESS" /\ RequiresReference(b.kind) THEN "reversal" ELSE "save"
  <1>1. h \in Workers /\ pc[h] = "decide" /\ pc[h] \in DecisionPCs /\ txs' = txs
    BY DEF Workers, Decide, DecisionPCs, tables
  <1>2. job[h].row \in Rows /\ job[h].wid = b.wallet /\ Settles(h)
    BY <1>1, Deciding
  <1>3. b.provider # None /\ ValidExternal(b)
    BY <1>1, <1>2, CarriedBody
  <1>4. /\ job' = [job EXCEPT ![h] = [job[h] EXCEPT !.plan = d,
                                        !.row = [job[h].row EXCEPT !.refId = ref]]]
        /\ pc' = [pc EXCEPT ![h] = l]
    BY DEF Decide, Goto
  <1>5. Atomic!Referred(b) = ReferenceId(b)
    BY <1>3, SameReference
  <1>6. l = "reversal" => b.currency = Accounts[b.wallet].currency /\ ref = Atomic!Referred(b)
    BY <1>2, <1>5 DEF decide, Reject
  <1>7. l # "reversal" => Atomic!Choice(d, ref) \in Atomic!Choices(b)
    <2> SUFFICES ASSUME l # "reversal" PROVE Atomic!Choice(d, ref) \in Atomic!Choices(b)
      OBVIOUS
    <2> DEFINE at == Atomic!Referred(b)
    <2>1. SUFFICES Allowed(b, at, RowOf(at), HasSuccessfulReversal(at), d, ref)
      BY ChoicesNow
    <2>2. CASE b.currency # Accounts[b.wallet].currency
      BY <1>2, <2>2 DEF Allowed, decide, Reject
    <2>3. CASE b.currency = Accounts[b.wallet].currency /\ b.kind \in {"BET", "LOSS"}
      <3>1. b.ref = None
        BY <1>3, <2>3 DEF ValidExternal, AllowsReference, RequiresReference
      <3>2. ref = None
        BY <3>1 DEF ReferenceId
      <3> HIDE DEF ref, at
      <3> QED BY <1>2, <2>3, <3>2 DEF Allowed, decide
    <2>4. CASE b.currency = Accounts[b.wallet].currency /\ b.kind = "WIN"
      <3>1. d = Process("CREDIT") /\ ref = at
        BY <1>2, <1>5, <2>4 DEF decide, Process
      <3> HIDE DEF d, ref, at
      <3> QED BY <2>4, <3>1 DEF Allowed
    <2>5. CASE b.currency = Accounts[b.wallet].currency /\ b.kind \notin {"BET", "LOSS", "WIN"}
      <3>1. RequiresReference(b.kind)
        BY <1>3, <2>5 DEF ValidExternal, Kinds, RequiresReference
      <3>2. d = ReferenceVerdict(b, RowOf(at)) /\ d.kind # "PROCESS" /\ ref = None
        BY <1>2, <1>5, <2>5, <3>1 DEF decide
      <3> HIDE DEF d, ref, at
      <3> QED BY <2>5, <3>2 DEF Allowed, Reverses
    <2> QED BY <2>2, <2>3, <2>4, <2>5
  <1>8. l \in {"reversal", "save"}
    OBVIOUS
  <1> HIDE DEF d, ref, l
  <1>9. /\ job'[h].plan = d /\ job'[h].row.body = b /\ job'[h].row.refId = ref
        /\ pc'[h] = l /\ \A y \in Workers \ {h} : pc'[y] = pc[y] /\ job'[y] = job[y]
    BY <1>1, <1>2, <1>4, PlanInHand
  <1>10. PlanStands(h)'
    BY <1>1, <1>6, <1>7, <1>8, <1>9, PlanMade
  <1> QED BY <1>1, <1>9, <1>10, OthersStand

\* decide, for the reference worker: a verdict, the end of its patience, or a retry.
LEMMA DecideParkedStands ==
  ASSUME IInv, RowInv, PlansStand, NEW r \in Resolvers, DecideParked(r)
  PROVE  PlansStand'
  <1> DEFINE b == job[r].row.body
             d == ReferenceVerdict(b, RowOf(ReferenceId(b)))
             ref == IF d.kind = "PROCESS" THEN ReferenceId(b) ELSE None
  <1>1. r \in Workers /\ pc[r] = "decide" /\ pc[r] \in DecisionPCs /\ txs' = txs
    BY DEF Workers, DecideParked, DecisionPCs, tables
  <1>2. /\ job[r] \in Jobs /\ job[r].row \in Rows /\ RequiresReference(b.kind)
        /\ b.currency = Accounts[b.wallet].currency /\ Settles(r) /\ job[r].mode = "update"
    BY <1>1, Deciding
  <1>3. job[r].row.refId = None
    <2>1. About(r) /\ "update" # None
      BY <1>1 DEF RowInv, RowWorker, None
    <2> QED BY <1>1, <1>2, <2>1 DEF About
  <1>4. b.provider # None
    BY <1>1, <1>2, CarriedBody
  <1>5. Atomic!Referred(b) = ReferenceId(b)
    BY <1>4, SameReference
  <1>6. d.kind # "PROCESS" => Atomic!Choice(d, None) \in Atomic!Choices(b)
    BY <1>2, <1>4, VerdictChosen
  <1>7. CASE d # Park
    <2> DEFINE l == IF d.kind = "PROCESS" THEN "reversal" ELSE "save"
    <2>1. job' = [job EXCEPT ![r].plan = d, ![r].row.refId = ref] /\ Goto(r, l)
      BY <1>7, Zenon DEF DecideParked
    <2>2. /\ job' = [job EXCEPT ![r] = [job[r] EXCEPT !.plan = d,
                                          !.row = [job[r].row EXCEPT !.refId = ref]]]
          /\ pc' = [pc EXCEPT ![r] = l]
      BY <2>1 DEF Goto
    <2>3. l \in {"reversal", "save"} /\ (l = "reversal" <=> d.kind = "PROCESS")
      OBVIOUS
    <2>4. (d.kind = "PROCESS" => ref = Atomic!Referred(b)) /\ (d.kind # "PROCESS" => ref = None)
      BY <1>5
    <2> HIDE DEF d, ref, l
    <2>5. /\ job'[r].plan = d /\ job'[r].row.body = b /\ job'[r].row.refId = ref
          /\ pc'[r] = l /\ \A y \in Workers \ {r} : pc'[y] = pc[y] /\ job'[y] = job[y]
      BY <1>1, <1>2, <2>2, PlanInHand
    <2>6. PlanStands(r)'
      BY <1>1, <1>2, <1>6, <2>3, <2>4, <2>5, PlanMade
    <2> QED BY <1>1, <2>5, <2>6, OthersStand
  <1>8. CASE d = Park /\ Exhausted(job[r].rec, job[r].late)
    <2> DEFINE p == Reject("REFERENCE_NOT_FOUND")
    <2>1. job' = [job EXCEPT ![r] = [job[r] EXCEPT !.plan = p]] /\ pc' = [pc EXCEPT ![r] = "save"]
      BY <1>8 DEF DecideParked, Goto
    <2> HIDE DEF p
    <2>2. /\ job'[r].plan = p /\ job'[r].row = job[r].row
          /\ pc'[r] = "save" /\ \A y \in Workers \ {r} : pc'[y] = pc[y] /\ job'[y] = job[y]
      BY <1>1, <1>2, <2>1 DEF IInv, TypeOK, Jobs
    <2>3. Atomic!Choice(Park, None) \in Atomic!Choices(b)
      BY <1>6, <1>8 DEF Park
    <2>4. PlanStands(r)'
      BY <1>1, <1>3, <2>2, <2>3, PlanMade DEF p
    <2> QED BY <1>1, <2>2, <2>4, OthersStand
  <1>9. CASE d = Park /\ ~Exhausted(job[r].rec, job[r].late)
    <2>1. job' = [job EXCEPT ![r] = [job[r] EXCEPT !.mode = "attempt"]] /\ pc' = [pc EXCEPT ![r] = "save"]
      BY <1>9 DEF DecideParked, Goto
    <2>2. job'[r].mode = "attempt" /\ \A y \in Workers \ {r} : pc'[y] = pc[y] /\ job'[y] = job[y]
      BY <1>1, <1>2, <2>1 DEF IInv, TypeOK, Jobs
    <2>3. PlanStands(r)'
      BY <1>1, <2>2, NoPlan DEF Settles
    <2> QED BY <1>1, <2>2, <2>3, OthersStand
  <1> QED BY <1>7, <1>8, <1>9

\* The second lookup of a reversal.
LEMMA CheckReversalStands ==
  ASSUME IInv, RowInv, PlansStand, NEW x \in Workers, CheckReversal(x)
  PROVE  PlansStand'
  <1> DEFINE b == job[x].row.body
             ref == job[x].row.refId
             v == job[x].plan
  <1>1. pc[x] = "reversal" /\ pc[x] \in DecisionPCs /\ pc' = [pc EXCEPT ![x] = "save"] /\ txs' = txs
    BY DEF CheckReversal, DecisionPCs, Goto, tables
  <1>2. job[x] \in Jobs /\ job[x].row \in Rows /\ Settles(x)
    BY <1>1, Deciding
  <1>3. /\ v.kind = "PROCESS" /\ RequiresReference(b.kind)
        /\ ref \in AllIds /\ v = ReferenceVerdict(b, txs[ref])
    BY <1>1, <1>2 DEF RowInv, RowWorker, Planned
  <1>4. b.currency = Accounts[b.wallet].currency /\ ref = Atomic!Referred(b)
    BY <1>1, <1>2 DEF PlansStand, PlanStands
  <1>5. RowOf(ref) = txs[ref] /\ b.kind \notin {"BET", "WIN", "LOSS"}
    BY <1>3, WageringAssumption DEF RowOf, RequiresReference
  <1>6. \A d, link :
           Atomic!Choice(d, link) \in Atomic!Choices(b)
             <=> Allowed(b, ref, txs[ref], HasSuccessfulReversal(ref), d, link)
    BY <1>4, <1>5, ChoicesNow
  <1>7. CASE HasSuccessfulReversal(ref)
    <2> DEFINE d == Reject("DUPLICATE_REVERSAL")
    <2>1. job' = [job EXCEPT ![x].plan = Reject("DUPLICATE_REVERSAL"), ![x].row.refId = None]
      BY <1>7, Zenon DEF CheckReversal
    <2>2. job' = [job EXCEPT ![x] = [job[x] EXCEPT !.plan = d,
                                        !.row = [job[x].row EXCEPT !.refId = None]]]
      BY <2>1
    <2>3. Allowed(b, ref, txs[ref], HasSuccessfulReversal(ref), d, None)
      BY <1>3, <1>4, <1>5, <1>7 DEF Allowed, Reverses
    <2> HIDE DEF d
    <2>4. /\ job'[x].plan = d /\ job'[x].row.body = b /\ job'[x].row.refId = None
          /\ pc'[x] = "save" /\ \A y \in Workers \ {x} : pc'[y] = pc[y] /\ job'[y] = job[y]
      BY <1>1, <1>2, <2>2, PlanInHand
    <2>5. PlanStands(x)'
      BY <1>1, <1>6, <2>3, <2>4, PlanMade
    <2> QED BY <1>1, <2>4, <2>5, OthersStand
  <1>8. CASE ~HasSuccessfulReversal(ref)
    <2>1. job' = job
      BY <1>8 DEF CheckReversal
    <2>2. Allowed(b, ref, txs[ref], HasSuccessfulReversal(ref), v, ref)
      BY <1>3, <1>4, <1>5, <1>8 DEF Allowed, Reverses
    <2>3. pc'[x] = "save" /\ \A y \in Workers \ {x} : pc'[y] = pc[y] /\ job'[y] = job[y]
      BY <1>1, <2>1 DEF IInv, TypeOK
    <2>4. PlanStands(x)'
      BY <1>1, <1>6, <2>1, <2>2, <2>3, PlanMade
    <2> QED BY <1>1, <2>3, <2>4, OthersStand
  <1> QED BY <1>7, <1>8

\* A worker that carries out nothing leaves every plan as it is.
LEMMA NothingStands ==
  ASSUME PlansStand, NEW x \in Workers, UNCHANGED tables,
         \A y \in Workers \ {x} : pc'[y] = pc[y] /\ job'[y] = job[y],
         ~Settles(x)' \/ pc'[x] \notin {"reversal", "save"} \cup AfterSave
  PROVE  PlansStand'
  <1>1. txs' = txs
    BY DEF tables
  <1> QED BY <1>1, NoPlan, OthersStand

\* So does one that comes to rest.
LEMMA EmptyStands ==
  ASSUME PlansStand, NEW x \in Workers, UNCHANGED tables, Empty(x),
         \A y \in Workers \ {x} : pc'[y] = pc[y] /\ job'[y] = job[y]
  PROVE  PlansStand'
  <1>1. ~Settles(x)'
    BY DEF Settles, Empty, None
  <1> QED BY <1>1, NothingStands

LEMMA AbandonStands ==
  ASSUME IInv, PlansStand, NEW x \in Workers, NEW code, Abandon(x, code), UNCHANGED tables
  PROVE  PlansStand'
  BY AbandonLeaves, EmptyStands

LEMMA RepliedStands ==
  ASSUME IInv, PlansStand, NEW h \in Handlers, NEW a, AnswerWith(h, a), UNCHANGED tables
  PROVE  PlansStand'
  <1>1. h \in Workers
    BY DEF Workers
  <1> QED BY <1>1, AnswerLeaves, EmptyStands

\* A step to a position at which nothing is carried out yet.
LEMMA EarlierStands ==
  ASSUME IInv, PlansStand, NEW x \in Workers, NEW l, NEW j, pc' = [pc EXCEPT ![x] = l],
         job' = [job EXCEPT ![x] = j], UNCHANGED tables, l \notin {"reversal", "save"} \cup AfterSave
  PROVE  PlansStand'
  <1>1. job \in [Workers -> Jobs] /\ pc \in [Workers -> PCs]
    BY DEF IInv, TypeOK
  <1>2. pc'[x] = l /\ \A y \in Workers \ {x} : pc'[y] = pc[y] /\ job'[y] = job[y]
    BY <1>1
  <1> QED BY <1>2, NothingStands

\* The same with the job untouched.
LEMMA GotoStands ==
  ASSUME IInv, PlansStand, NEW x \in Workers, NEW l, Goto(x, l), UNCHANGED <<tables, job>>,
         l \notin {"reversal", "save"} \cup AfterSave
  PROVE  PlansStand'
  <1>1. pc \in [Workers -> PCs]
    BY DEF IInv, TypeOK
  <1>2. pc'[x] = l /\ \A y \in Workers \ {x} : pc'[y] = pc[y] /\ job'[y] = job[y]
    BY <1>1 DEF Goto
  <1> QED BY <1>2, NothingStands

\* A repeat is answered without a plan.
LEMMA ReplayNothing ==
  ASSUME IInv, RowInv, PlansStand, NEW h \in Handlers, pc[h] \in EarlyPCs, NEW id, NEW record,
         Replay(h, id, record), UNCHANGED tables
  PROVE  PlansStand'
  <1> DEFINE a == replayResult(id)
             l == IF record /\ job[h].cmd.msg # None THEN "recordInbox" ELSE "commit"
  <1>1. h \in Workers /\ job[h].mode = None /\ job[h] \in Jobs
    BY Early
  <1>2. job' = [job EXCEPT ![h].ans = a] /\ pc' = [pc EXCEPT ![h] = l]
    BY DEF Replay, Goto
  <1> HIDE DEF a, l
  <1>3. job'[h].mode = None /\ \A y \in Workers \ {h} : pc'[y] = pc[y] /\ job'[y] = job[y]
    BY <1>1, <1>2 DEF IInv, TypeOK, Jobs
  <1>4. ~Settles(h)'
    BY <1>3 DEF Settles, None
  <1> QED BY <1>1, <1>3, <1>4, NothingStands

\* The lookups of a handler make no plan.
LEMMA LookupStands ==
  ASSUME IInv, RowInv, PlansStand, NEW h \in Handlers,
         FastReplay(h) \/ GetForUpdate(h) \/ ReadInbox(h) \/ ReadKey(h) \/ ReadIdentity(h)
  PROVE  PlansStand'
  <1>0. h \in Workers /\ UNCHANGED tables
    BY DEF Workers, FastReplay, GetForUpdate, ReadInbox, ReadKey, ReadIdentity
  <1>1. CASE FastReplay(h)
    <2>1. \/ \E a : AnswerWith(h, a)
          \/ Goto(h, "lock") /\ UNCHANGED job
      BY <1>1 DEF FastReplay
    <2>2. "lock" \notin {"reversal", "save"} \cup AfterSave
      BY DEF AfterSave
    <2> QED BY <1>0, <2>1, <2>2, RepliedStands, GotoStands
  <1>2. CASE GetForUpdate(h)
    <2> DEFINE l == IF job[h].cmd.msg = None THEN "key" ELSE "inbox"
               j == [job[h] EXCEPT !.seen = wallets[job[h].wid]]
    <2>1. \/ \E a : AnswerWith(h, a)
          \/ job' = [job EXCEPT ![h] = j] /\ pc' = [pc EXCEPT ![h] = l]
      BY <1>2 DEF GetForUpdate, Goto
    <2>2. l \notin {"reversal", "save"} \cup AfterSave
      BY DEF AfterSave
    <2> HIDE DEF l, j
    <2> QED BY <1>0, <2>1, <2>2, RepliedStands, EarlierStands
  <1>3. CASE ReadInbox(h) \/ ReadKey(h)
    <2>1. \/ \E code : Abandon(h, code)
          \/ Goto(h, "key") /\ UNCHANGED job
          \/ Goto(h, "identity") /\ UNCHANGED job
          \/ \E id, record : Replay(h, id, record)
      BY <1>3 DEF ReadInbox, ReadKey
    <2>2. {"key", "identity"} \cap ({"reversal", "save"} \cup AfterSave) = {} /\ pc[h] \in EarlyPCs
      BY <1>3 DEF AfterSave, EarlyPCs, ReadInbox, ReadKey
    <2> QED BY <1>0, <2>1, <2>2, AbandonStands, GotoStands, ReplayNothing
  <1>4. CASE ReadIdentity(h)
    <2> DEFINE c == job[h].cmd
               j == [job[h] EXCEPT !.row = NewExternal(c.key, c.body), !.mode = "insert"]
    <2>1. \/ \E code : Abandon(h, code)
          \/ job' = [job EXCEPT ![h] = j] /\ pc' = [pc EXCEPT ![h] = "decide"]
          \/ \E id, record : Replay(h, id, record)
      BY <1>4 DEF ReadIdentity, Goto
    <2>2. "decide" \notin {"reversal", "save"} \cup AfterSave /\ pc[h] \in EarlyPCs
      BY <1>4 DEF AfterSave, EarlyPCs, ReadIdentity
    <2> HIDE DEF j
    <2> QED BY <1>0, <2>1, <2>2, AbandonStands, EarlierStands, ReplayNothing
  <1> QED BY <1>1, <1>2, <1>3, <1>4

\* settle, the balance and the message carry out the plan that was made.
LEMMA CarryStands ==
  ASSUME IInv, RowInv, PlansStand, NEW x \in Workers,
         Settle(x) \/ UpdateBalance(x) \/ (x \in Handlers /\ RecordInbox(x))
  PROVE  PlansStand'
  <1>0. /\ UNCHANGED tables /\ txs' = txs /\ job[x] \in Jobs /\ PlanStands(x)
        /\ pc[x] \in {"save"} \cup AfterSave
        /\ job \in [Workers -> Jobs] /\ pc \in [Workers -> PCs]
    BY DEF Settle, UpdateBalance, RecordInbox, IInv, TypeOK, PlansStand, tables, AfterSave
  <1>1. ASSUME NEW j, NEW l, job' = [job EXCEPT ![x] = j], pc' = [pc EXCEPT ![x] = l], l # "reversal",
               j.row = job[x].row, j.plan = job[x].plan, j.mode = job[x].mode, j.cmd = job[x].cmd,
               j.failing = job[x].failing
        PROVE  PlansStand'
    <2>1. job'[x] = j /\ pc'[x] = l /\ \A y \in Workers \ {x} : pc'[y] = pc[y] /\ job'[y] = job[y]
      BY <1>0, <1>1
    <2>2. Settles(x)' => Settles(x)
      BY <1>1, <2>1 DEF Settles, Opens
    <2>3. PlanStands(x)'
      BY <1>0, <1>1, <2>1, <2>2, PlanKept
    <2> QED BY <1>0, <2>1, <2>3, OthersStand
  <1>2. CASE Settle(x)
    <2> DEFINE j  == job[x]
               id == IF j.mode = "insert" THEN CHOOSE i \in FreeIds : TRUE ELSE j.id
               s  == Settlement(id, j.row, j.seen, j.plan)
               a  == [out |-> "RESULT", id |-> id, status |-> s.row.status,
                      balance |-> IF s.moved THEN s.wallet.balance ELSE j.seen.balance,
                      replay |-> FALSE]
               l  == IF s.moved THEN "post"
                     ELSE IF j.cmd.msg # None THEN "recordInbox" ELSE "commit"
               k  == [j EXCEPT !.id = id, !.writes = s, !.ans = a]
    <2>1. \/ \E code : Abandon(x, code)
          \/ job' = [job EXCEPT ![x].id = id, ![x].writes = s, ![x].ans = a] /\ Goto(x, l)
      BY <1>2 DEF Settle
    <2>2. l # "reversal"
      OBVIOUS
    <2> HIDE DEF id, s, a, l
    <2>3. CASE \E code : Abandon(x, code)
      BY <1>0, <2>3, AbandonStands
    <2>4. CASE job' = [job EXCEPT ![x].id = id, ![x].writes = s, ![x].ans = a] /\ Goto(x, l)
      <3>1. job' = [job EXCEPT ![x] = k] /\ pc' = [pc EXCEPT ![x] = l]
        BY <2>4 DEF Goto
      <3>2. k.row = j.row /\ k.plan = j.plan /\ k.mode = j.mode /\ k.cmd = j.cmd /\ k.failing = j.failing
        BY <1>0 DEF Jobs
      <3> HIDE DEF k
      <3> QED BY <1>1, <2>2, <3>1, <3>2
    <2> QED BY <2>1, <2>3, <2>4
  <1>3. CASE UpdateBalance(x)
    <2> DEFINE l == IF job[x].cmd.msg # None THEN "recordInbox" ELSE "commit"
    <2>1. \/ \E code : Abandon(x, code)
          \/ UNCHANGED job /\ Goto(x, l)
      BY <1>3 DEF UpdateBalance
    <2>2. job = [job EXCEPT ![x] = job[x]] /\ l # "reversal"
      BY <1>0
    <2> HIDE DEF l
    <2> QED BY <1>0, <1>1, <2>1, <2>2, AbandonStands DEF Goto
  <1>4. CASE x \in Handlers /\ RecordInbox(x)
    <2> DEFINE k == [job[x] EXCEPT !.inboxed = TRUE]
    <2>1. \/ \E code : Abandon(x, code)
          \/ job' = [job EXCEPT ![x] = k] /\ pc' = [pc EXCEPT ![x] = "commit"]
      BY <1>4 DEF RecordInbox, Goto
    <2>2. k.row = job[x].row /\ k.plan = job[x].plan /\ k.mode = job[x].mode /\ k.cmd = job[x].cmd
          /\ k.failing = job[x].failing
      BY <1>0 DEF Jobs
    <2> HIDE DEF k
    <2> QED BY <1>0, <1>1, <2>1, <2>2, AbandonStands
  <1> QED BY <1>2, <1>3, <1>4

\* Requests, answers and openings.
LEMMA DoorStands ==
  ASSUME IInv, RowInv, PlansStand, NEW h \in Handlers,
         Arrival(h) \/ Respond(h) \/ ExistsForPlayerCurrency(h) \/ InsertWallet(h)
  PROVE  PlansStand'
  <1>0. /\ h \in Workers /\ UNCHANGED tables /\ job \in [Workers -> Jobs] /\ pc \in [Workers -> PCs]
        /\ {"fast", "exists", "idle", "insertWallet"} \cap ({"reversal", "save"} \cup AfterSave) = {}
    BY DEF Workers, Arrival, Submit, RequestOpening, Respond, ExistsForPlayerCurrency, InsertWallet,
           IInv, TypeOK, AfterSave
  <1>1. CASE Arrival(h) \/ Respond(h)
    <2>1. \E j, l : /\ l \in {"fast", "exists", "idle"}
                    /\ job' = [job EXCEPT ![h] = j] /\ pc' = [pc EXCEPT ![h] = l]
      BY <1>1 DEF Arrival, Submit, RequestOpening, Respond, Goto
    <2> QED BY <1>0, <2>1, EarlierStands
  <1>2. CASE ExistsForPlayerCurrency(h)
    <2>1. \/ \E code : Abandon(h, code)
          \/ Goto(h, "insertWallet") /\ UNCHANGED job
      BY <1>2 DEF ExistsForPlayerCurrency
    <2> QED BY <1>0, <2>1, AbandonStands, GotoStands
  <1>3. CASE InsertWallet(h)
    <2> DEFINE w == job[h].wid
               s == OpeningWrites(w, Accounts[w])
               mode == IF Accounts[w].initial = 0 THEN None ELSE "insert"
               a == [NoAns EXCEPT !.out = "CREATED", !.balance = Accounts[w].initial]
               j == [job[h] EXCEPT !.writes = s, !.id = w, !.mode = mode, !.ans = a]
    <2>1. job[h].cmd = NoCmd /\ job[h] \in Jobs
      BY <1>3, OpeningHands DEF InsertWallet
    <2>2. \/ \E code : Abandon(h, code)
          \/ job' = [job EXCEPT ![h].writes = s, ![h].id = w, ![h].mode = mode, ![h].ans = a]
             /\ Goto(h, "commit")
      BY <1>3 DEF InsertWallet
    <2> HIDE DEF s, mode, a
    <2>3. CASE \E code : Abandon(h, code)
      BY <1>0, <2>3, AbandonStands
    <2>4. CASE job' = [job EXCEPT ![h].writes = s, ![h].id = w, ![h].mode = mode, ![h].ans = a]
               /\ Goto(h, "commit")
      <3>1. job' = [job EXCEPT ![h] = j] /\ pc' = [pc EXCEPT ![h] = "commit"]
        BY <2>4 DEF Goto
      <3>2. j.cmd = NoCmd
        BY <2>1 DEF Jobs
      <3> HIDE DEF j
      <3>3. job'[h].cmd = NoCmd /\ \A y \in Workers \ {h} : pc'[y] = pc[y] /\ job'[y] = job[y]
        BY <1>0, <3>1, <3>2
      <3>4. ~Settles(h)'
        BY <3>3 DEF Settles, Opens
      <3> QED BY <1>0, <3>3, <3>4, NothingStands
    <2> QED BY <2>2, <2>3, <2>4
  <1> QED BY <1>1, <1>2, <1>3

\* The steps of a reference worker that make no plan and carry none out.
LEMMA ResolverStands ==
  ASSUME IInv, RowInv, PlansStand, NEW r \in Resolvers,
         \/ Claim(r) \/ (\E rec \in job[r].batch : LoadPending(r, rec)) \/ EndPass(r)
         \/ GetForUpdateParked(r) \/ RecordReferenceAttempt(r) \/ LoadFailing(r) \/ SaveFailed(r)
  PROVE  PlansStand'
  <1>0. /\ r \in Workers /\ UNCHANGED tables /\ job \in [Workers -> Jobs] /\ pc \in [Workers -> PCs]
        /\ {"next", "idle", "lock", "decide", "failSave"} \cap ({"reversal", "save"} \cup AfterSave) = {}
        /\ job = [job EXCEPT ![r] = job[r]] /\ pc = [pc EXCEPT ![r] = pc[r]]
    BY DEF Workers, Claim, LoadPending, EndPass, GetForUpdateParked, RecordReferenceAttempt,
           LoadFailing, SaveFailed, IInv, TypeOK, AfterSave
  <1>1. CASE Claim(r)
    <2>1. PICK batch : job' = [job EXCEPT ![r].batch = batch]
      BY <1>1 DEF Claim
    <2>2. job' = [job EXCEPT ![r] = [job[r] EXCEPT !.batch = batch]] /\ pc' = [pc EXCEPT ![r] = "next"]
      BY <1>1, <2>1 DEF Claim, Goto
    <2> QED BY <1>0, <2>2, EarlierStands
  <1>2. ASSUME NEW rec \in job[r].batch, LoadPending(r, rec) PROVE PlansStand'
    <2>1. \/ job' = [job EXCEPT ![r] = [job[r] EXCEPT !.batch = job[r].batch \ {rec}]] /\ UNCHANGED pc
          \/ \E j : job' = [job EXCEPT ![r] = j] /\ pc' = [pc EXCEPT ![r] = "lock"]
      BY <1>2 DEF LoadPending, Goto
    <2>2. pc[r] = "next"
      BY <1>2 DEF LoadPending
    <2> QED BY <1>0, <2>1, <2>2, EarlierStands
  <1>3. CASE EndPass(r)
    BY <1>0, <1>3, GotoStands DEF EndPass
  <1>4. CASE GetForUpdateParked(r)
    <2>1. \/ \E code : Abandon(r, code)
          \/ \E j : job' = [job EXCEPT ![r] = j] /\ pc' = [pc EXCEPT ![r] = "decide"]
      BY <1>4 DEF GetForUpdateParked, Goto
    <2> QED BY <1>0, <2>1, AbandonStands, EarlierStands
  <1>5. CASE RecordReferenceAttempt(r)
    <2>1. job[r].mode = "attempt" /\ pc' = [pc EXCEPT ![r] = "commit"]
      BY <1>5 DEF RecordReferenceAttempt, Goto
    <2>2. \/ job' = job
          \/ job' = [job EXCEPT ![r].mode = None]
      BY <1>5 DEF RecordReferenceAttempt
    <2>3. job'[r].mode \in {None, "attempt"} /\ \A y \in Workers \ {r} : pc'[y] = pc[y] /\ job'[y] = job[y]
      BY <1>0, <2>1, <2>2 DEF Jobs
    <2>4. ~Settles(r)'
      BY <2>3 DEF Settles, None
    <2> QED BY <1>0, <2>3, <2>4, NothingStands
  <1>6. CASE LoadFailing(r)
    <2>1. CASE NextRecord(r)
      BY <1>0, <2>1, NextRecordLeaves, EmptyStands
    <2>2. CASE ~NextRecord(r)
      <3>1. \E j : job' = [job EXCEPT ![r] = j] /\ pc' = [pc EXCEPT ![r] = "failSave"]
        BY <1>6, <2>2 DEF LoadFailing, Goto
      <3> QED BY <1>0, <3>1, EarlierStands
    <2> QED BY <2>1, <2>2
  <1>7. CASE SaveFailed(r)
    <2>1. pc[r] = "failSave"
      BY <1>7 DEF SaveFailed
    <2>2. job[r].failing = TRUE
      BY <2>1, ParkedHands
    <2>3. \/ \E code : Abandon(r, code)
          \/ \E s : job' = [job EXCEPT ![r].writes = s] /\ pc' = [pc EXCEPT ![r] = "commit"]
      BY <1>7 DEF SaveFailed, Goto
    <2>4. CASE \E code : Abandon(r, code)
      BY <1>0, <2>4, AbandonStands
    <2>5. ASSUME NEW s, job' = [job EXCEPT ![r].writes = s], pc' = [pc EXCEPT ![r] = "commit"]
          PROVE  PlansStand'
      <3>1. job'[r].failing = TRUE /\ \A y \in Workers \ {r} : pc'[y] = pc[y] /\ job'[y] = job[y]
        BY <1>0, <2>2, <2>5 DEF Jobs
      <3>2. ~Settles(r)'
        BY <3>1 DEF Settles
      <3> QED BY <1>0, <3>1, <3>2, NothingStands
    <2> QED BY <2>3, <2>4, <2>5
  <1> QED BY <1>1, <1>2, <1>3, <1>4, <1>5, <1>6, <1>7

\* Who commits, and what is left of its unit of work.
LEMMA CommitLeaves ==
  ASSUME IInv, NEW x \in Workers, Commit(x) \/ CommitUnacknowledged(x)
  PROVE  Commits(x) /\ Empty(x)
  <1>1. pc[x] = "commit" /\ ApplyWrites(x)
    BY DEF Commit, CommitUnacknowledged
  <1>2. Empty(x) /\ \A y \in Workers \ {x} : pc'[y] = pc[y] /\ job'[y] = job[y]
    <2>1. CASE CommitUnacknowledged(x)
      BY <2>1, AbandonLeaves DEF CommitUnacknowledged
    <2>2. CASE Commit(x) /\ x \in Handlers
      BY <2>2, AnswerLeaves DEF Commit
    <2>3. CASE Commit(x) /\ x \notin Handlers
      BY <2>3, NextRecordLeaves DEF Commit, Workers
    <2> QED BY <2>1, <2>2, <2>3
  <1> QED BY <1>1, <1>2 DEF Commits

\* A commit ends its own plan and disturbs no other.
LEMMA CommitStands ==
  ASSUME IInv, RowInv, PlansStand, NEW x \in Workers, Commit(x) \/ CommitUnacknowledged(x)
  PROVE  PlansStand'
  <1>1. Commits(x) /\ Empty(x)
    BY CommitLeaves
  <1>2. ~Settles(x)'
    BY <1>1 DEF Settles, Empty, None
  <1>3. PlanStands(x)'
    BY <1>2, NoPlan
  <1>4. ASSUME NEW y \in Workers \ {x} PROVE PlanStands(y)'
    BY <1>1, <1>4, PlanUndisturbed DEF PlansStand
  <1> QED BY <1>3, <1>4 DEF PlansStand

\* A failed statement and a crash drop the plan.
LEMMA FailureStands ==
  ASSUME IInv, RowInv, PlansStand, NEW x \in Workers, StatementFails(x) \/ Crash(x)
  PROVE  PlansStand'
  <1>1. CASE StatementFails(x)
    BY <1>1, AbandonStands DEF StatementFails
  <1>2. CASE Crash(x)
    <2>1. job' = [job EXCEPT ![x] = IdleJob] /\ pc' = [pc EXCEPT ![x] = "idle"] /\ UNCHANGED tables
      BY <1>2 DEF Crash, Goto
    <2>2. "idle" \notin {"reversal", "save"} \cup AfterSave
      BY DEF AfterSave
    <2> QED BY <2>1, <2>2, EarlierStands
  <1> QED BY <1>1, <1>2

\* Time and stuttering touch nothing that a plan reads.
LEMMA StillStands ==
  ASSUME PlansStand, UNCHANGED <<txs, pc, job>>
  PROVE  PlansStand'
  <1> SUFFICES ASSUME NEW x \in Workers PROVE PlanStands(x)'
    BY DEF PlansStand
  <1>1. PlanStands(x) /\ txs' = txs /\ (Settles(x)' <=> Settles(x))
    BY DEF PlansStand, Settles, Opens
  <1> QED BY <1>1, PlanKept

\* Every action keeps the plans standing.
LEMMA NextStands == IInv /\ RowInv /\ PlansStand /\ [Next]_vars => PlansStand'
  <1> SUFFICES ASSUME IInv, RowInv, PlansStand, [Next]_vars PROVE PlansStand'
    OBVIOUS
  <1>1. ASSUME NEW h \in Handlers, Arrival(h) \/ HandlerStep(h) PROVE PlansStand'
    <2>1. h \in Workers
      BY DEF Workers
    <2> QED BY <1>1, <2>1, DoorStands, LookupStands, DecideStands, CheckReversalStands, CarryStands,
               CommitStands DEF HandlerStep
  <1>2. ASSUME NEW r \in Resolvers, ResolverStep(r) PROVE PlansStand'
    <2>1. r \in Workers
      BY DEF Workers
    <2> QED BY <1>2, <2>1, ResolverStands, DecideParkedStands, CheckReversalStands, CarryStands,
               CommitStands DEF ResolverStep
  <1>3. ASSUME NEW x \in Workers, Failure(x) PROVE PlansStand'
    BY <1>3, CommitStands, FailureStands DEF Failure
  <1>4. ASSUME NEW id \in TxIds, Time(id) PROVE PlansStand'
    BY <1>4, StillStands DEF Time, BackoffElapses, TTLElapses
  <1>5. CASE UNCHANGED vars
    BY <1>5, StillStands DEF vars, tables
  <1> QED BY <1>1, <1>2, <1>3, <1>4, <1>5 DEF Next, Quiescent

\* At first nobody has a plan.
LEMMA InitStands == Init => PlansStand
  <1> SUFFICES ASSUME Init, NEW x \in Workers PROVE PlanStands(x)
    BY DEF PlansStand
  <1>1. job[x] = IdleJob
    BY DEF Init
  <1>2. ~Settles(x)
    BY <1>1 DEF Settles, IdleJob, None
  <1> QED BY <1>2 DEF PlanStands

\* In every reachable state, for any number of workers, wallets, requests and faults,
\* each plan under way is one the atomic service might choose at that moment.
THEOREM RefinementInvariance == Spec => []RefinementInv
  <1>1. Init => RefinementInv
    BY InitHolds, InitRows, InitMoney, InitRequests, InitStands DEF RefinementInv, CoreInv
  <1>2. RefinementInv /\ [Next]_vars => RefinementInv'
    BY NextKeeps, NextRows, NextMoney, NextRequests, NextStands DEF RefinementInv, CoreInv
  <1> QED BY <1>1, <1>2, PTL DEF Spec

-----------------------------------------------------------------------------
(* A commit is an operation of the atomic service.                         *)

\* What the three tables become.
LEMMA CommitWrites ==
  ASSUME IInv, RowInv, NEW x \in Workers, pc[x] = "commit", ApplyWrites(x)
  PROVE  LET j == job[x]
         IN  /\ wallets' = IF j.writes.moved THEN [wallets EXCEPT ![j.wid] = j.writes.wallet] ELSE wallets
             /\ j.mode \in {None, "attempt"} => txs' = txs
             /\ j.mode \in {"insert", "update"} => txs' = [txs EXCEPT ![j.id] = j.writes.row]
             /\ inbox' = IF j.inboxed THEN [inbox EXCEPT ![j.cmd.msg] = [id |-> j.ans.id, body |-> j.cmd.body]]
                         ELSE inbox
  <1>1. /\ wallets' = IF job[x].writes.moved THEN [wallets EXCEPT ![job[x].wid] = job[x].writes.wallet]
                      ELSE wallets
        /\ inbox' = IF job[x].inboxed THEN [inbox EXCEPT ![job[x].cmd.msg] =
                                              [id |-> job[x].ans.id, body |-> job[x].cmd.body]]
                    ELSE inbox
    BY DEF ApplyWrites
  <1> QED BY <1>1, CommitRow

\* What Apply asks for, with the domain's own operators.
LEMMA Applies ==
  ASSUME NEW id, NEW row, NEW d, NEW link, NEW linked, linked = [row EXCEPT !.refId = link],
         NEW w, w = row.body.wallet, NEW s, s = Settlement(id, linked, wallets[w], d),
         d.kind = "PROCESS" => ~Overflows(wallets[w], d.dir, row.body.amount),
         txs' = [txs EXCEPT ![id] = s.row],
         wallets' = IF s.moved THEN [wallets EXCEPT ![w] = s.wallet] ELSE wallets
  PROVE  Atomic!Apply(id, row, Atomic!Choice(d, link))
  <1>1. Atomic!Choice(d, link).d = d /\ Atomic!Choice(d, link).link = link
    BY DEF Atomic!Choice
  <1>2. Atomic!Settlement(id, linked, wallets[w], d) = s
    BY SameSettlement
  <1>3. ~Atomic!TooMuch(row.body, Atomic!Choice(d, link))
    BY <1>1, SameValues DEF Atomic!TooMuch
  <1> QED BY <1>1, <1>2, <1>3 DEF Atomic!Apply

\* A wallet is opened.
LEMMA CommitOpens ==
  ASSUME IInv, RowInv, NEW x \in Workers, pc[x] = "commit", ApplyWrites(x), Opens(x)
  PROVE  \E w \in Wallets : Atomic!Open(w)
  <1> DEFINE w == job[x].wid
             s == OpeningWrites(w, Accounts[w])
             n == Accounts[w].initial
  <1>1. /\ job[x].inboxed = FALSE /\ w \in Wallets /\ job[x].id = w
        /\ job[x].writes = s /\ s.moved = TRUE
        /\ job[x].mode = IF n = 0 THEN None ELSE "insert"
        /\ job[x].mode = "insert" => s.row = NewOpening(w, Accounts[w])
        /\ \A v \in Wallets : wallets[v].open => ~SameSlot(v, w)
    BY OpeningCommit
  <1>2. s.wallet = NewWallet(n)
    BY DEF OpeningWrites, NoWrites
  <1> HIDE DEF s
  <1>3. wallets' = [wallets EXCEPT ![w] = NewWallet(n)] /\ inbox' = inbox
    BY <1>1, <1>2, CommitWrites
  <1>4. txs' = IF n = 0 THEN txs ELSE [txs EXCEPT ![w] = NewOpening(w, Accounts[w])]
    BY <1>1, CommitWrites DEF None
  <1>5. Atomic!Open(w)
    BY <1>1, <1>3, <1>4, SameValues DEF Atomic!Open, SameSlot
  <1> QED BY <1>1, <1>5

\* A repeat is recorded, or nothing is written at all.
LEMMA CommitRepeats ==
  ASSUME IInv, RowInv, RequestInv, NEW x \in Workers, pc[x] = "commit", ApplyWrites(x), ~Opens(x),
         job[x].mode \in {None, "attempt"}
  PROVE  UNCHANGED Atomic!service \/ \E c \in Commands, id \in TxIds : Atomic!Repeat(c, id)
  <1> DEFINE j == job[x]
  <1>1. Shape(x) /\ About(x) /\ Owns(x) /\ Buffers(x) /\ Answered(x) /\ pc[x] \in AfterSave
    BY DEF RowInv, RowWorker, IInv, WorkerInv, AfterSave
  <1>2. j.writes.moved = FALSE
    BY <1>1 DEF Buffers, NoWrites
  <1>3. wallets' = wallets /\ txs' = txs
    BY <1>2, CommitWrites
  <1>4. CASE ~j.inboxed
    <2>1. inbox' = inbox
      BY <1>4, CommitWrites
    <2> QED BY <1>3, <2>1 DEF Atomic!service
  <1>5. CASE j.inboxed
    <2>1. j.cmd.msg \in Messages /\ j.cmd \in Commands /\ inbox[j.cmd.msg].id = None
      BY <1>1, <1>5 DEF Shape, Owns
    <2>2. x \in Handlers
      BY <1>1, <2>1, NoCmdIsNone DEF Shape, Workers
    <2>3. j.mode = None
      BY <1>1, <2>2 DEF About
    <2>4. j.ans.id \in TxIds /\ Stored(j.ans.id) /\ txs[j.ans.id].key = j.cmd.key
      BY <1>1, <1>5, <2>2, <2>3 DEF Answered, Stands
    <2>5. inbox' = [inbox EXCEPT ![j.cmd.msg] = [id |-> j.ans.id, body |-> j.cmd.body]]
      BY <1>5, CommitWrites
    <2>6. j.cmd.msg # None
      BY <2>1, WageringAssumption
    <2>7. Atomic!Twins(j.cmd.body, txs[j.ans.id].body) \/ txs[j.ans.id].body = j.cmd.body
      <3>1. ~Opens(x) /\ j.ans.out = "RESULT" /\ Matches(x)
        BY <1>1, <2>2, <2>3 DEF Answered, RequestInv
      <3>2. Tells(j.ans.id, j.cmd.body)
        BY <1>1, <2>3, <3>1 DEF Matches
      <3> QED BY <3>2 DEF Tells, Twins, Atomic!Twins
    <2>8. Atomic!Repeat(j.cmd, j.ans.id)
      BY <1>3, <2>1, <2>4, <2>5, <2>6, <2>7, SameValues
         DEF Atomic!Repeat, Atomic!Recorded, Atomic!Stored, Atomic!RecordMessage, Stored
    <2> QED BY <2>1, <2>4, <2>8
  <1> QED BY <1>4, <1>5

\* A new operation is settled or parked, and its message recorded with it.
LEMMA CommitAccepts ==
  ASSUME IInv, RowInv, PlansStand, NEW x \in Workers, pc[x] = "commit", ApplyWrites(x), ~Opens(x),
         job[x].mode = "insert"
  PROVE  \E c \in Commands, id \in TxIds : Atomic!Accept(c, id)
  <1> DEFINE j == job[x]
             c == j.cmd
             id == j.id
             b == j.row.body
             w == j.wid
  <1>1. Shape(x) /\ About(x) /\ Owns(x) /\ Buffers(x) /\ Answered(x) /\ pc[x] \in AfterSave
        /\ PlanStands(x) /\ RowTables
    BY DEF RowInv, RowWorker, IInv, WorkerInv, AfterSave, PlansStand
  <1>2. /\ x \in Handlers /\ x \notin Resolvers /\ Settles(x) /\ j.row \in Rows /\ c \in Commands
        /\ j.row.key = c.key /\ b = c.body /\ ValidExternal(c.body) /\ id \in TxIds
    BY <1>1, Inserting
  <1>3. w = b.wallet /\ w \in Wallets /\ wallets[w].open /\ j.seen = wallets[w]
    BY <1>1, <1>2, SettlingHolds
  <1>4. Accounts[w].player = c.body.player
    BY <1>1, <1>2 DEF About, LockedPCs
  <1>5. Atomic!Fits(c)
    BY <1>2, <1>3, <1>4, SameValues DEF Atomic!Fits
  <1>6. ~Stored(id) /\ \A i \in TxIds : Stored(i) => ~Collides(txs[i], j.row)
    BY <1>1, <1>2 DEF Owns
  <1>7. Atomic!Related(c) = {}
    <2>1. c.key # None /\ c.body.provider # None
      BY <1>2, WageringAssumption
    <2>2. ASSUME NEW i \in AllIds, Stored(i), txs[i].key = c.key
                 \/ (txs[i].body.provider = c.body.provider /\ txs[i].body.ext = c.body.ext)
          PROVE  FALSE
      <3>1. i \in TxIds
        BY <2>1, <2>2, OpeningRows DEF AllIds
      <3> QED BY <1>2, <1>6, <2>2, <3>1 DEF Collides
    <2> QED BY <2>2, SameValues DEF Atomic!Related, Atomic!Stored, Stored
  <1>8. /\ c.msg # None => j.inboxed
        /\ j.inboxed => c.msg # None /\ inbox[c.msg].id = None
    <2>1. j.ans.id = id
      BY <1>1, <1>2 DEF Answered
    <2>2. ASSUME c.msg # None, ~j.inboxed PROVE FALSE
      <3>1. inbox[c.msg].id = id
        BY <1>1, <1>2, <2>1, <2>2 DEF Answered
      <3>2. c.msg \in Messages /\ id # None
        BY <1>2, <2>2, WageringAssumption DEF AllIds
      <3> QED BY <1>1, <1>6, <3>1, <3>2 DEF RowTables
    <2>3. j.inboxed => c.msg \in Messages /\ inbox[c.msg].id = None
      BY <1>1 DEF Shape, Owns
    <2> QED BY <2>2, <2>3, WageringAssumption
  <1>9. Atomic!RecordMessage(c, id)
    <2>1. j.ans.id = id
      BY <1>1, <1>2 DEF Answered
    <2> QED BY <1>8, <2>1, CommitWrites, SameValues DEF Atomic!RecordMessage
  <1>10. Atomic!Choice(j.plan, j.row.refId) \in Atomic!Choices(c.body)
    BY <1>1, <1>2 DEF PlanStands
  <1>11. j.row = [NewExternal(c.key, c.body) EXCEPT !.refId = j.row.refId]
    <2>1. j.row.status = "PENDING" /\ j.row.failure = None /\ j.row.result = NoBalance
      BY <1>1, <1>2, Inserting
    <2> QED BY <1>2, <2>1 DEF NewExternal, Rows
  <1>12. /\ j.writes = Settlement(id, j.row, wallets[w], j.plan)
         /\ j.plan.kind = "PROCESS" => ~Overflows(wallets[w], j.plan.dir, b.amount)
    BY <1>1, <1>2, <1>3 DEF Buffers
  <1>13. /\ txs' = [txs EXCEPT ![id] = j.writes.row]
         /\ wallets' = IF j.writes.moved THEN [wallets EXCEPT ![w] = j.writes.wallet] ELSE wallets
    BY CommitWrites
  <1>14. NewExternal(c.key, c.body).body = c.body
    BY DEF NewExternal
  <1>15. Atomic!Apply(id, NewExternal(c.key, c.body), Atomic!Choice(j.plan, j.row.refId))
    <2>1. PICK row, d, link, linked, v, s :
             /\ row = NewExternal(c.key, c.body) /\ d = j.plan /\ link = j.row.refId
             /\ linked = j.row /\ v = w /\ s = j.writes
      OBVIOUS
    <2>2. linked = [row EXCEPT !.refId = link]
      BY <1>11, <2>1
    <2>3. v = row.body.wallet /\ s = Settlement(id, linked, wallets[v], d)
      BY <1>2, <1>3, <1>12, <1>14, <2>1
    <2>4. d.kind = "PROCESS" => ~Overflows(wallets[v], d.dir, row.body.amount)
      BY <1>2, <1>12, <1>14, <2>1
    <2>5. /\ txs' = [txs EXCEPT ![id] = s.row]
          /\ wallets' = IF s.moved THEN [wallets EXCEPT ![v] = s.wallet] ELSE wallets
      BY <1>13, <2>1
    <2>6. Atomic!Apply(id, row, Atomic!Choice(d, link))
      BY ONLY <2>2, <2>3, <2>4, <2>5, Applies
    <2> QED BY <2>1, <2>6
  <1>16. Atomic!Accept(c, id)
    <2>1. ~Atomic!Stored(id) /\ (c.msg # None => ~Atomic!Recorded(c.msg))
      BY <1>6, <1>8, SameValues DEF Atomic!Stored, Stored, Atomic!Recorded
    <2>2. Atomic!Apply(id, Atomic!NewExternal(c.key, c.body), Atomic!Choice(j.plan, j.row.refId))
      BY <1>15, SameValues
    <2> QED BY <1>5, <1>7, <1>9, <1>10, <2>1, <2>2, SameValues DEF Atomic!Accept
  <1> QED BY <1>2, <1>16

\* A parked reversal is settled, given up or written off.
LEMMA CommitResolves ==
  ASSUME IInv, RowInv, PlansStand, NEW x \in Workers, pc[x] = "commit", ApplyWrites(x),
         job[x].mode = "update"
  PROVE  \E id \in TxIds : Atomic!Resolve(id)
  <1> DEFINE j == job[x]
             id == j.id
             w == j.wid
  <1>1. Buffers(x) /\ About(x) /\ pc[x] \in AfterSave /\ PlanStands(x)
    BY DEF RowInv, RowWorker, AfterSave, PlansStand
  <1>2. /\ x \in Resolvers /\ ~Opens(x) /\ j.inboxed = FALSE /\ j.row \in Rows /\ id \in TxIds
        /\ Parked(id) /\ txs[id] \in Rows /\ Waiting(Unlinked(j.row))
        /\ j.row.key = txs[id].key /\ j.row.body = txs[id].body
    BY <1>1, Updating
  <1>3. j.row = [txs[id] EXCEPT !.refId = j.row.refId] /\ txs[id].refId = None
    <2>1. Waiting(txs[id])
      BY <1>2 DEF RowInv, RowTables, RowKept, AllIds
    <2>2. /\ j.row.status = txs[id].status /\ j.row.failure = txs[id].failure
          /\ j.row.result = txs[id].result /\ txs[id].refId = None
      BY <1>2, <2>1, ParkedRow DEF Waiting
    <2> QED BY <1>2, <2>2 DEF Rows
  <1>4. inbox' = inbox /\ txs' = [txs EXCEPT ![id] = j.writes.row]
        /\ wallets' = IF j.writes.moved THEN [wallets EXCEPT ![w] = j.writes.wallet] ELSE wallets
    BY <1>2, CommitWrites
  <1>5. CASE j.failing
    <2>1. j.row.refId = None
      BY <1>1, <1>2, <1>5 DEF About, None
    <2>2. j.row = txs[id]
      BY <1>2, <1>3, <2>1 DEF Rows
    <2>3. j.writes.row = MarkFailed(txs[id], "INFRASTRUCTURE_FAILURE") /\ j.writes.moved = FALSE
      <3>1. j.writes = [NoWrites EXCEPT !.row = MarkFailed(j.row, "INFRASTRUCTURE_FAILURE"),
                                        !.events = {Event("WagerTransactionRejected", id)}]
        BY <1>1, <1>5 DEF Buffers
      <3> QED BY <2>2, <3>1 DEF NoWrites
    <2>4. txs' = [txs EXCEPT ![id] = Atomic!MarkFailed(txs[id], "INFRASTRUCTURE_FAILURE")] /\ wallets' = wallets
      BY <1>4, <2>3 DEF Atomic!MarkFailed, MarkFailed
    <2>5. Atomic!Resolve(id)
      BY <1>2, <1>4, <2>4 DEF Atomic!Resolve, Parked
    <2> QED BY <1>2, <2>5
  <1>6. CASE ~j.failing
    <2>1. Settles(x)
      BY <1>1, <1>6, Updating
    <2>2. w = j.row.body.wallet /\ j.seen = wallets[w]
      BY <1>1, <2>1, SettlingHolds
    <2>3. /\ j.writes = Settlement(id, j.row, wallets[w], j.plan)
          /\ j.plan.kind = "PROCESS" => ~Overflows(wallets[w], j.plan.dir, txs[id].body.amount)
          /\ j.plan.kind # "PENDING_REFERENCE"
      BY <1>1, <1>2, <2>1, <2>2 DEF Buffers
    <2>4. Atomic!Apply(id, txs[id], Atomic!Choice(j.plan, j.row.refId))
      <3>1. PICK row, d, link, linked, v, s :
               /\ row = txs[id] /\ d = j.plan /\ link = j.row.refId
               /\ linked = j.row /\ v = w /\ s = j.writes
        OBVIOUS
      <3>2. linked = [row EXCEPT !.refId = link]
        BY <1>3, <3>1
      <3>3. v = row.body.wallet /\ s = Settlement(id, linked, wallets[v], d)
        BY <1>2, <2>2, <2>3, <3>1
      <3>4. d.kind = "PROCESS" => ~Overflows(wallets[v], d.dir, row.body.amount)
        BY <2>3, <3>1
      <3>5. /\ txs' = [txs EXCEPT ![id] = s.row]
            /\ wallets' = IF s.moved THEN [wallets EXCEPT ![v] = s.wallet] ELSE wallets
        BY <1>4, <3>1
      <3>6. Atomic!Apply(id, row, Atomic!Choice(d, link))
        BY ONLY <3>2, <3>3, <3>4, <3>5, Applies
      <3> QED BY <3>1, <3>6
    <2>5. \/ Atomic!Choice(j.plan, j.row.refId) \in Atomic!Choices(txs[id].body)
          \/ /\ j.row.refId = None /\ j.plan = Reject("REFERENCE_NOT_FOUND")
             /\ Atomic!Choice(Park, None) \in Atomic!Choices(txs[id].body)
      BY <1>1, <1>2, <2>1 DEF PlanStands
    <2>6. j.plan # Park /\ Atomic!Choice(j.plan, j.row.refId).d = j.plan
      BY <2>3 DEF Park, Atomic!Choice
    <2>7. Atomic!Resolve(id)
      BY <1>2, <1>4, <2>4, <2>5, <2>6, SameValues DEF Atomic!Resolve, Parked
    <2> QED BY <1>2, <2>7
  <1> QED BY <1>5, <1>6

\* A commit is an operation of the atomic service, or changes none of its tables.
LEMMA CommitRefines ==
  ASSUME IInv, RowInv, RequestInv, PlansStand, NEW x \in Workers, Commit(x) \/ CommitUnacknowledged(x)
  PROVE  [Atomic!Next]_(Atomic!service)
  <1>1. pc[x] = "commit" /\ ApplyWrites(x)
    BY DEF Commit, CommitUnacknowledged
  <1>2. job[x].mode \in {None, "insert", "attempt", "update"}
    BY DEF IInv, TypeOK, Jobs
  <1>3. \/ UNCHANGED Atomic!service
        \/ \E c \in Commands, id \in TxIds : Atomic!Accept(c, id) \/ Atomic!Repeat(c, id)
        \/ \E id \in TxIds : Atomic!Resolve(id)
        \/ \E w \in Wallets : Atomic!Open(w)
    BY <1>1, <1>2, CommitOpens, CommitRepeats, CommitAccepts, CommitResolves
  <1> QED BY <1>3 DEF Atomic!Next

\* No other step touches the tables of the atomic service.
LEMMA NextRefines ==
  IInv /\ RowInv /\ RequestInv /\ PlansStand /\ [Next]_vars => [Atomic!Next]_(Atomic!service)
  <1> SUFFICES ASSUME IInv, RowInv, RequestInv, PlansStand, [Next]_vars PROVE [Atomic!Next]_(Atomic!service)
    OBVIOUS
  <1>1. ASSUME NEW x \in Workers, Commit(x) \/ CommitUnacknowledged(x)
        PROVE  [Atomic!Next]_(Atomic!service)
    BY <1>1, CommitRefines
  <1>2. CASE UNCHANGED <<wallets, txs, inbox>>
    BY <1>2 DEF Atomic!service
  <1>3. ASSUME NEW h \in Handlers, Arrival(h) \/ HandlerStep(h)
        PROVE  [Atomic!Next]_(Atomic!service)
    <2>1. h \in Workers
      BY DEF Workers
    <2>2. Commit(h) \/ UNCHANGED <<wallets, txs, inbox>>
      BY <1>3 DEF Arrival, Submit, RequestOpening, HandlerStep, FastReplay, GetForUpdate,
                  ReadInbox, ReadKey, ReadIdentity, Decide, CheckReversal, Settle, UpdateBalance,
                  RecordInbox, Respond, ExistsForPlayerCurrency, InsertWallet, tables
    <2> QED BY <1>1, <1>2, <2>1, <2>2
  <1>4. ASSUME NEW r \in Resolvers, ResolverStep(r) PROVE [Atomic!Next]_(Atomic!service)
    <2>1. r \in Workers
      BY DEF Workers
    <2>2. Commit(r) \/ UNCHANGED <<wallets, txs, inbox>>
      BY <1>4 DEF ResolverStep, Claim, LoadPending, EndPass, GetForUpdateParked, DecideParked,
                  CheckReversal, Settle, RecordReferenceAttempt, UpdateBalance, LoadFailing,
                  SaveFailed, tables
    <2> QED BY <1>1, <1>2, <2>1, <2>2
  <1>5. ASSUME NEW x \in Workers, Failure(x) PROVE [Atomic!Next]_(Atomic!service)
    <2>1. CommitUnacknowledged(x) \/ UNCHANGED <<wallets, txs, inbox>>
      BY <1>5 DEF Failure, StatementFails, Crash, tables
    <2> QED BY <1>1, <1>2, <1>5, <2>1
  <1>6. CASE (\E id \in TxIds : Time(id)) \/ Quiescent \/ UNCHANGED vars
    BY <1>2, <1>6 DEF Time, BackoffElapses, TTLElapses, Quiescent, vars, tables
  <1> QED BY <1>3, <1>4, <1>5, <1>6 DEF Next

\* The seeded wallets are the ones the atomic service starts with.
LEMMA InitRefines == Init => Atomic!Init
  <1> SUFFICES ASSUME Init PROVE Atomic!Init
    OBVIOUS
  <1>1. ASSUME NEW w \in Wallets
        PROVE  /\ SeedWrites(w).wallet = IF w \in Seeded THEN NewWallet(Accounts[w].initial) ELSE NoWallet
               /\ SeedWrites(w).row = IF w \in Seeded /\ Accounts[w].initial > 0
                                      THEN NewOpening(w, Accounts[w]) ELSE NoTx
    <2>1. Accounts[w].initial \in Nat
      BY WageringAssumption
    <2>2. Accounts[w].initial > 0 <=> Accounts[w].initial # 0
      BY <2>1
    <2> QED BY <2>2 DEF SeedWrites, OpeningWrites, NoWrites
  <1>2. ASSUME NEW id \in AllIds, id \notin Wallets PROVE id \notin Seeded
    BY <1>2, WageringAssumption
  <1>3. wallets = [w \in Wallets |-> IF w \in Seeded THEN NewWallet(Accounts[w].initial) ELSE NoWallet]
    BY <1>1 DEF Init
  <1>4. txs = [id \in AllIds |-> IF id \in Seeded /\ Accounts[id].initial > 0
                                 THEN NewOpening(id, Accounts[id]) ELSE NoTx]
    BY <1>1, <1>2 DEF Init
  <1>5. inbox = [m \in Messages |-> [id |-> None, body |-> NoBody]]
    BY DEF Init
  <1> QED BY <1>3, <1>4, <1>5, SameValues DEF Atomic!Init

\* Whatever handlers, messages and reference workers interleave, crash, repeat and lose,
\* what becomes of wallets, transactions and the inbox is what a service does that
\* handles one operation at a time: every commit of processWager.Execute, OpenWallet
\* and ResolveReferences is one operation of it, on the tables of that moment.
THEOREM Implements == Spec => ImplementsAtomic
  <1>1. RefinementInv /\ [Next]_vars => [Atomic!Next]_(Atomic!service)
    BY NextRefines DEF RefinementInv, CoreInv
  <1> QED BY <1>1, InitRefines, RefinementInvariance, PTL DEF Spec, ImplementsAtomic, Atomic!Spec

=============================================================================
