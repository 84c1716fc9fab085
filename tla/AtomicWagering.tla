--------------------------- MODULE AtomicWagering ---------------------------
(***************************************************************************)
(* What the wagering core promises, without statements, locks, workers or  *)
(* failures: each operation is decided and applied in one step, on the     *)
(* state of that moment.  Module Wagering implements this specification:   *)
(* each commit is one of these steps, everything before it is invisible.   *)
(* Module Consumer uses it as the service behind the queue.                *)
(*                                                                         *)
(* Two weaknesses of the code are part of the promise.  The wallet lock    *)
(* orders the operations of one wallet only.  So what a decision reads of  *)
(* another wallet's transactions, or of a row marked FAILED without the    *)
(* lock, may be older than the step (Elusive); and a request whose key and *)
(* identity were used for another wallet meanwhile may be taken for a      *)
(* repeat (Twins).                                                         *)
(***************************************************************************)
EXTENDS WagerDomain

CONSTANTS Wallets, Accounts, Seeded, Commands, Messages, TxIds

VARIABLES wallets, txs, inbox

service == <<wallets, txs, inbox>>

Ids == TxIds \cup Wallets

Stored(id) == txs[id].status # "ABSENT"

\* The row a body refers to, None when it names none or none is stored.
Referred(b) ==
    IF b.ref # None /\ \E id \in Ids : /\ Stored(id) /\ txs[id].body.provider = b.provider
                                       /\ txs[id].body.ext = b.ref
    THEN CHOOSE id \in Ids : /\ Stored(id) /\ txs[id].body.provider = b.provider
                             /\ txs[id].body.ext = b.ref
    ELSE None

Reversed(id) == \E t \in Ids : /\ txs[t].refId = id /\ txs[t].status = "PROCESSED"
                               /\ RequiresReference(txs[t].body.kind)

\* A stored row that may have been read before it was settled, or not at all.
Elusive(b, id) == id # None /\ (txs[id].body.wallet # b.wallet \/ txs[id].status = "FAILED")

Choice(d, link) == [d |-> d, link |-> link]

\* What a reversal b may become now: the reference must be settled, match, and not
\* be reversed yet.
ReversalChoices(b) ==
    LET id == Referred(b)
        v  == ReferenceVerdict(b, IF id = None THEN NoTx ELSE txs[id])
    IN  { CASE v.kind = "PROCESS" /\ Reversed(id) -> Choice(Reject("DUPLICATE_REVERSAL"), None)
            [] v.kind = "PROCESS" /\ ~Reversed(id) -> Choice(v, id)
            [] OTHER -> Choice(v, None) }
        \cup (IF Elusive(b, id) THEN {Choice(Park, None)} ELSE {})

Choices(b) ==
    IF b.currency # Accounts[b.wallet].currency
    THEN {Choice(Reject("CURRENCY_MISMATCH"), None)}
    ELSE CASE b.kind = "BET"  -> {Choice(Process("DEBIT"), None)}
           [] b.kind = "LOSS" -> {Choice(Process(None), None)}
           [] b.kind = "WIN"  -> { Choice(Process("CREDIT"), link) :
                 link \in {Referred(b)} \cup (IF Elusive(b, Referred(b)) THEN {None} ELSE {}) }
           [] OTHER -> ReversalChoices(b)

\* A choice that cannot be carried out: the credit exceeds what a balance can hold.
TooMuch(b, c) == c.d.kind = "PROCESS" /\ Overflows(wallets[b.wallet], c.d.dir, b.amount)

\* The row id, in the state row, becomes what the choice c makes of it, and the
\* wallet moves with it.
Apply(id, row, c) ==
    LET w == row.body.wallet
        s == Settlement(id, [row EXCEPT !.refId = c.link], wallets[w], c.d)
    IN  /\ ~TooMuch(row.body, c)
        /\ txs' = [txs EXCEPT ![id] = s.row]
        /\ wallets' = IF s.moved THEN [wallets EXCEPT ![w] = s.wallet] ELSE wallets

\* A stored row that has the request's key or its provider identity.
Related(c) == { id \in Ids : /\ Stored(id)
                             /\ \/ txs[id].key = c.key
                                \/ /\ txs[id].body.provider = c.body.provider
                                   /\ txs[id].body.ext = c.body.ext }

Fits(c) == /\ wallets[c.body.wallet].open
           /\ Accounts[c.body.wallet].player = c.body.player
           /\ ValidExternal(c.body)

Recorded(m) == inbox[m].id # None

RecordMessage(c, id) ==
    inbox' = IF c.msg = None THEN inbox
             ELSE [inbox EXCEPT ![c.msg] = [id |-> id, body |-> c.body]]

\* A new operation is settled or parked.
Accept(c, id) ==
    /\ Fits(c) /\ ~Stored(id) /\ Related(c) = {}
    /\ c.msg # None => ~Recorded(c.msg)
    /\ \E choice \in Choices(c.body) : Apply(id, NewExternal(c.key, c.body), choice)
    /\ RecordMessage(c, id)

\* Payloads of one provider operation for two wallets, which the lookup by identity
\* does not tell apart.
Twins(b, d) == b.provider = d.provider /\ b.ext = d.ext /\ b.wallet # d.wallet

\* A message repeats an operation that is known under its key, and is recorded: the
\* payload is the same, or that of a twin the lookup by key came too early to see.
Repeat(c, id) ==
    /\ c.msg # None /\ ~Recorded(c.msg)
    /\ Stored(id) /\ txs[id].key = c.key
    /\ Twins(c.body, txs[id].body) \/ txs[id].body = c.body
    /\ RecordMessage(c, id)
    /\ UNCHANGED <<wallets, txs>>

\* A parked reversal is settled, given up because its reference did not come, or
\* written off as FAILED.
Resolve(id) ==
    /\ txs[id].status = "PENDING_REFERENCE"
    /\ LET choices == Choices(txs[id].body)
       IN  \/ \E c \in choices : c.d # Park /\ Apply(id, txs[id], c)
           \/ /\ Choice(Park, None) \in choices
              /\ Apply(id, txs[id], Choice(Reject("REFERENCE_NOT_FOUND"), None))
           \/ /\ txs' = [txs EXCEPT ![id] = MarkFailed(@, "INFRASTRUCTURE_FAILURE")]
              /\ UNCHANGED wallets
    /\ UNCHANGED inbox

\* A wallet is opened where its player has none in that currency.
Open(w) ==
    /\ \A v \in Wallets : wallets[v].open => \/ Accounts[v].player # Accounts[w].player
                                             \/ Accounts[v].currency # Accounts[w].currency
    /\ wallets' = [wallets EXCEPT ![w] = NewWallet(Accounts[w].initial)]
    /\ txs' = IF Accounts[w].initial = 0 THEN txs
              ELSE [txs EXCEPT ![w] = NewOpening(w, Accounts[w])]
    /\ UNCHANGED inbox

Init ==
    /\ wallets = [w \in Wallets |-> IF w \in Seeded THEN NewWallet(Accounts[w].initial)
                                    ELSE NoWallet]
    /\ txs = [id \in Ids |-> IF id \in Seeded /\ Accounts[id].initial > 0
                             THEN NewOpening(id, Accounts[id]) ELSE NoTx]
    /\ inbox = [m \in Messages |-> [id |-> None, body |-> NoBody]]

\* Each operation changes something.  That is said first because TLC looks for the
\* operation behind a step, and most steps of an implementation change nothing here.
Next ==
    /\ service' # service
    /\ \/ \E c \in Commands, id \in TxIds : Accept(c, id) \/ Repeat(c, id)
       \/ \E id \in TxIds : Resolve(id)
       \/ \E w \in Wallets : Open(w)

Spec == Init /\ [][Next]_service
=============================================================================
