---------------------------- MODULE WageringInv -----------------------------
(***************************************************************************)
(* The inductive invariants of Wagering: what each position of each worker *)
(* guarantees about its locals, its locks and the writes it has buffered.  *)
(* IInv is about wallets and ledgers (LedgerChain, CASNeverFails), RowInv  *)
(* about transaction rows, messages and answers.                           *)
(***************************************************************************)
EXTENDS Wagering

\* A handler without a command is opening a wallet.
Opens(x) == x \in Handlers /\ job[x].cmd = NoCmd

\* Positions from GetForUpdate to Commit; recordPermanentFailure runs without it.
LockedPCs == {"inbox", "key", "identity", "decide", "reversal", "save", "post",
              "recordInbox", "commit"}
Holding(x) == pc[x] \in LockedPCs /\ ~Opens(x) /\ ~job[x].failing

HandlerPCs  == {"idle", "reply", "exists", "insertWallet", "fast", "lock", "inbox", "key",
                "identity", "decide", "reversal", "save", "post", "recordInbox", "commit"}
ResolverPCs == {"idle", "next", "lock", "decide", "reversal", "save", "post", "commit",
                "failLoad", "failSave"}

\* Which locals a position may rely on.
Shape(x) ==
    LET j == job[x]
    IN  /\ x \in Handlers  => pc[x] \in HandlerPCs /\ ~j.failing
        /\ x \in Resolvers => pc[x] \in ResolverPCs /\ j.cmd = NoCmd
        /\ pc[x] \in LockedPCs \cup {"fast", "lock"} /\ ~j.failing => j.wid \in Wallets
        /\ x \in Handlers /\ pc[x] \notin {"idle", "reply", "exists", "insertWallet", "commit"}
              => j.cmd \in Commands
        /\ pc[x] \in {"exists", "insertWallet"} => j.cmd = NoCmd
        /\ x \in Handlers /\ pc[x] \in {"fast", "lock", "inbox", "key", "identity"} => j.mode = None
        /\ pc[x] \in {"inbox", "recordInbox"} \/ j.inboxed => j.cmd.msg \in Messages /\ j.cmd \in Commands
        /\ pc[x] \in {"decide", "reversal", "save", "failSave"} => j.row \in Rows
        /\ x \in Resolvers /\ pc[x] \in {"lock", "decide", "reversal", "failSave"}
              => j.mode = "update" /\ j.row \in Rows
        /\ j.mode \in {"update", "attempt"} => j.id \in AllIds /\ Stored(j.id)
        /\ pc[x] \in AfterSave /\ j.mode \in {"insert", "update"}
              => j.id \in AllIds /\ j.writes.row \in Rows
        /\ x \in Resolvers /\ pc[x] \notin {"idle", "next"} => j.rec \in Records
        /\ pc[x] \in {"failLoad", "failSave"} => j.failing
        /\ j.failing => pc[x] \in {"failLoad", "failSave", "commit"} /\ ~j.writes.moved
        /\ pc[x] \notin AfterSave => ~j.writes.moved

\* Whoever is between its lock and its commit owns the row lock, and the wallet it
\* read under that lock is still the committed one.
Locked(x) ==
    Holding(x) => LET w == job[x].wid
                  IN  holder[w] = x /\ wallets[w].open /\ job[x].seen = wallets[w]

\* A buffered movement continues the ledger from the balance that was read.
Continues(x) ==
    Holding(x) /\ job[x].writes.moved =>
        \E e \in LedgerEntries :
            /\ job[x].writes.entries = <<e>>
            /\ e.before = job[x].seen.balance
            /\ e.after = job[x].writes.wallet.balance
            /\ e.after = IF e.dir = "DEBIT" THEN e.before - e.amount ELSE e.before + e.amount
            /\ job[x].writes.wallet.open

\* An opening works on an id nobody else has.
OpeningPCs == {"exists", "insertWallet", "commit"}
Unborn(x) ==
    Opens(x) /\ pc[x] \in OpeningPCs =>
        /\ job[x].wid \in Wallets /\ ~wallets[job[x].wid].open
        /\ pc[x] = "commit" => job[x].writes = OpeningWrites(job[x].wid, Accounts[job[x].wid])
        /\ \A y \in Handlers \ {x} : Opens(y) /\ pc[y] \in OpeningPCs => job[y].wid # job[x].wid

WorkerInv(x) == Shape(x) /\ Locked(x) /\ Continues(x) /\ Unborn(x)

NoLedgerBeforeOpening == \A w \in Wallets : ~wallets[w].open => ledger[w] = <<>>

\* LedgerChain is not inductive: whether a commit extends the chain depends on the
\* writes it buffered earlier, and those on the lock it has held since.
IInv == TypeOK /\ (\A x \in Workers : WorkerInv(x)) /\ NoLedgerBeforeOpening /\ LedgerChain

-----------------------------------------------------------------------------
(* The rows.  RowInv says who may write which row of wager_transaction,    *)
(* inbox and wallet: a unit of work that has saved its row is the only one *)
(* that has, and what it buffered is the settlement of exactly that row.   *)

Unlinked(row) == [row EXCEPT !.refId = None]

\* A row that was parked and not yet settled.
Waiting(row) ==
    /\ row.status = "PENDING_REFERENCE" /\ RequiresReference(row.body.kind)
    /\ row.failure = None /\ row.result = NoBalance /\ row.refId = None
    /\ row.body.currency = Accounts[row.body.wallet].currency

\* What the columns of a stored row say together.
RowKept(id) ==
    LET row == txs[id]
        b   == row.body
    IN  /\ row.status # "PENDING"
        /\ Parked(id) => Waiting(row)
        /\ Stored(id) /\ id \in Wallets => row = NewOpening(id, Accounts[id]) /\ wallets[id].open
        /\ Stored(id) /\ id \in TxIds =>
              /\ row.key # None /\ b.provider # None /\ ValidExternal(b)
              /\ wallets[b.wallet].open /\ Accounts[b.wallet].player = b.player
        /\ row.status = "PROCESSED" /\ RequiresReference(b.kind) =>
              row.refId \in AllIds /\ ReferenceVerdict(b, txs[row.refId]).kind = "PROCESS"

IsReversal(t) == txs[t].status = "PROCESSED" /\ RequiresReference(txs[t].body.kind)

\* The unique indexes on the key and on the provider's identity of an operation.
UniqueRows == \A i, k \in TxIds : Stored(i) /\ Stored(k) /\ Collides(txs[i], txs[k]) => i = k

\* Settling a transaction, as opposed to opening a wallet or recording a failure.
Settles(x) == ~Opens(x) /\ ~job[x].failing /\ job[x].mode \in {"insert", "update"}

\* The row in a worker's hands is the one its request or its claim is about.
About(x) ==
    LET j == job[x]
    IN  /\ x \in Handlers =>
              /\ j.mode \in {None, "insert"}
              /\ pc[x] \in {"decide", "reversal", "save", "post"} => j.mode = "insert"
        /\ x \in Handlers /\ ~Opens(x) =>
              /\ pc[x] # "reply" => j.wid = j.cmd.body.wallet
              /\ pc[x] \in LockedPCs => Accounts[j.wid].player = j.cmd.body.player
              /\ j.mode = "insert" =>
                    ValidExternal(j.cmd.body) /\ Unlinked(j.row) = NewExternal(j.cmd.key, j.cmd.body)
        /\ Opens(x) /\ pc[x] = "commit" =>
              j.id = j.wid /\ j.mode = IF Accounts[j.wid].initial = 0 THEN None ELSE "insert"
        /\ x \in Resolvers =>
              /\ j.mode \in {None, "update", "attempt"}
              /\ pc[x] \in {"save", "post"} \/ (j.failing /\ pc[x] = "commit") => j.mode # None
              /\ pc[x] = "post" \/ j.failing => j.mode # "attempt"
        /\ x \in Resolvers /\ j.mode # None =>
              /\ j.id \in TxIds /\ Waiting(Unlinked(j.row))
              /\ j.row.key = txs[j.id].key /\ j.row.body = txs[j.id].body
              /\ ~j.failing => j.wid = j.row.body.wallet
              /\ pc[x] \in {"lock", "decide"} \/ j.failing => j.row.refId = None

\* An insert has an id of its own, an update a row that is still parked.
Owns(x) ==
    LET j == job[x]
    IN  /\ j.id \in Wallets => Opens(x) /\ pc[x] = "commit"
        /\ pc[x] \in AfterSave /\ j.mode = "insert" => ~Stored(j.id) /\ j.id \in AllIds
        /\ pc[x] \in AfterSave /\ j.mode \in {"update", "attempt"} => Parked(j.id)
        /\ pc[x] \in AfterSave /\ j.mode = "insert" /\ ~Opens(x) =>
              \A i \in TxIds : Stored(i) => ~Collides(txs[i], j.row)
        /\ j.inboxed => pc[x] = "commit" /\ inbox[j.cmd.msg].id = None
        /\ Opens(x) /\ pc[x] = "commit" =>
              \A v \in Wallets : wallets[v].open => ~SameSlot(v, j.wid)

\* What is buffered is the settlement that was decided, and nothing else.
Buffers(x) ==
    LET j == job[x]
    IN  /\ pc[x] \notin AfterSave \/ (~Opens(x) /\ j.mode \in {None, "attempt"}) => j.writes = NoWrites
        /\ pc[x] \in AfterSave /\ Settles(x) =>
              /\ j.writes = Settlement(j.id, j.row, j.seen, j.plan)
              /\ j.plan.kind = "PROCESS" => ~Overflows(j.seen, j.plan.dir, j.row.body.amount)
              /\ j.mode = "update" => j.plan.kind # "PENDING_REFERENCE"
        /\ pc[x] = "post" => j.writes.moved
        /\ pc[x] = "commit" /\ j.failing =>
              j.writes = [NoWrites EXCEPT !.row = MarkFailed(j.row, "INFRASTRUCTURE_FAILURE"),
                                          !.events = {Event("WagerTransactionRejected", j.id)}]

\* The direction in which an operation that refers to nothing moves money.
OwnDirection(kind) == CASE kind = "BET" -> "DEBIT" [] kind = "WIN" -> "CREDIT" [] OTHER -> None

\* The decision still stands when it is carried out: a reversal goes ahead only while
\* its reference is settled as it was read, and has not been reversed since.
Planned(x) ==
    LET j == job[x]
        b == j.row.body
    IN  Settles(x) /\ pc[x] \in {"reversal", "save"} \cup AfterSave =>
        /\ pc[x] = "reversal" => j.plan.kind = "PROCESS" /\ RequiresReference(b.kind)
        /\ j.plan.kind # "PROCESS" => j.row.refId = None
        /\ j.plan.kind = "PENDING_REFERENCE" =>
              RequiresReference(b.kind) /\ b.currency = Accounts[b.wallet].currency
        /\ j.plan.kind = "PROCESS" /\ ~RequiresReference(b.kind) => j.plan = Process(OwnDirection(b.kind))
        /\ j.plan.kind = "PROCESS" /\ RequiresReference(b.kind) =>
              /\ j.row.refId \in AllIds /\ j.plan = ReferenceVerdict(b, txs[j.row.refId])
              /\ pc[x] # "reversal" => ~HasSuccessfulReversal(j.row.refId)

\* The tables say what the answer of h says.
Stands(h) ==
    LET a == job[h].ans
        c == job[h].cmd
    IN  /\ a.id \in TxIds /\ Stored(a.id)
        /\ txs[a.id].key = c.key \/ (c.msg # None /\ inbox[c.msg].id = a.id)
        /\ IsTerminal(a.status) => txs[a.id].status = a.status
        /\ a.status = "PROCESSED" => txs[a.id].result = a.balance

\* The answer of a handler follows from what it has found and from what it commits.
Answered(h) ==
    LET j == job[h]
        recorded == j.cmd.msg # None =>
                        inbox[j.cmd.msg].id = j.ans.id /\ inbox[j.cmd.msg].body = j.cmd.body
    IN  h \in Handlers /\ ~Opens(h) =>
        /\ pc[h] \in {"identity", "decide", "reversal", "save"} =>
              \A i \in TxIds : Stored(i) /\ txs[i].key = j.cmd.key => txs[i].body.wallet # j.wid
        /\ pc[h] \in AfterSave => j.ans.out = "RESULT"
        /\ pc[h] \in AfterSave /\ j.mode = "insert" =>
              /\ j.ans.id = j.id /\ j.ans.status = j.writes.row.status
              /\ j.ans.status = "PROCESSED" => j.ans.balance = j.writes.row.result
        /\ pc[h] \in AfterSave /\ j.mode = None => Stands(h)
        /\ j.mode = None /\ (pc[h] = "recordInbox" \/ j.inboxed) => txs[j.ans.id].key = j.cmd.key
        /\ pc[h] = "commit" => j.inboxed \/ recorded
        /\ pc[h] = "reply" /\ j.ans.out = "RESULT" => Stands(h) /\ recorded
        /\ pc[h] = "reply" /\ j.ans.out \in {"IDEMPOTENCY_CONFLICT", "OPERATION_IDENTITY_CONFLICT"} =>
              Contradicted(j.cmd)

\* Opening a wallet is answered with CREATED or an error of its own.
OpeningAnswers ==
    \A h \in Handlers :
        Opens(h) => job[h].ans.out \notin {"RESULT", "IDEMPOTENCY_CONFLICT",
                                           "OPERATION_IDENTITY_CONFLICT"}

\* Payloads of one provider operation for two wallets.
Twins(b, d) == b.provider = d.provider /\ b.ext = d.ext /\ b.wallet # d.wallet

\* Requests that have key and provider identity in common are about one wallet.
NoTwins == \A c, d \in Commands : c.key = d.key => ~Twins(c.body, d.body)

\* The row id answers a request with payload b, or a twin of it under the same key.
Tells(id, b) ==
    \/ txs[id].body = b
    \/ Twins(b, txs[id].body) /\ \E c \in Commands : c.key = txs[id].key /\ c.body = b

\* What a handler repeats is the answer to its own request, or to a twin of it.
Matches(h) ==
    LET j == job[h]
    IN  /\ pc[h] = "reply" \/ (pc[h] \in AfterSave /\ j.mode = None)
        /\ ~Opens(h) /\ j.ans.out = "RESULT"
        => Tells(j.ans.id, j.cmd.body)

\* AnswersTheRequest depends on where the rows come from, and on a message being
\* recorded with the payload of the transaction it stands for, twins apart.
RequestInv ==
    /\ \A i \in TxIds : Stored(i) => \E c \in Commands : txs[i].key = c.key /\ txs[i].body = c.body
    /\ \A m \in Messages : inbox[m].id # None => Tells(inbox[m].id, inbox[m].body)
    /\ \A h \in Handlers : Matches(h)

\* Two units of work never write the same row, key, identity, message or slot.
Apart(x, y) ==
    LET j == job[x]
        k == job[y]
        saved == pc[x] \in AfterSave /\ pc[y] \in AfterSave
    IN  /\ pc[x] \in AfterSave /\ j.mode = "insert" => k.id # j.id
        /\ saved /\ j.mode \in {"update", "attempt"} /\ k.mode \in {"update", "attempt"} => k.id # j.id
        /\ saved /\ j.mode = "insert" /\ k.mode = "insert" /\ ~Opens(x) /\ ~Opens(y)
              => ~Collides(k.row, j.row)
        /\ j.inboxed /\ k.inboxed => k.cmd.msg # j.cmd.msg
        /\ Opens(x) /\ Opens(y) /\ pc[x] = "commit" /\ pc[y] = "commit" => ~SameSlot(k.wid, j.wid)

RowTables ==
    /\ \A id \in AllIds : RowKept(id)
    /\ \A m \in Messages : inbox[m].id # None => inbox[m].id \in TxIds /\ Stored(inbox[m].id)
    /\ \A t, u \in AllIds : IsReversal(t) /\ IsReversal(u) /\ txs[t].refId = txs[u].refId => t = u
    /\ UniqueRows /\ OneWalletPerSlot

RowWorker(x) == About(x) /\ Owns(x) /\ Buffers(x) /\ Planned(x) /\ Answered(x)

\* None of the properties of rows, reversals and answers is inductive by itself:
\* what a commit may do to a row depends on what its worker has read since it took
\* the wallet's lock, and on what every other worker may have written meanwhile.
RowInv ==
    /\ RowTables
    /\ \A x \in Workers : RowWorker(x)
    /\ \A x, y \in Workers : x # y => Apart(x, y)

-----------------------------------------------------------------------------
(* The money.  Ledger, journal and outbox change only when a unit of work  *)
(* commits, together with the row they are about.                          *)

\* The direction in which a transaction that moved money moved it.
MovedTo(row) ==
    IF RequiresReference(row.body.kind) THEN ReferenceVerdict(row.body, txs[row.refId]).dir
    ELSE IF row.body.kind = "OPENING" THEN "CREDIT" ELSE OwnDirection(row.body.kind)

DirectionsKept == \A id \in AllIds : \A p \in Entries(id) : EntryAt(p).dir = MovedTo(txs[id])

\* Balance events are about transactions that moved money.
ChangesHaveEntries == \A e \in outbox : e.version > 0 => Entries(e.tx) # {}

\* ReversalUndoes needs to know which way each transaction moved money, and
\* EventsTellState that no event announces a movement that is still to come.
MoneyInv ==
    /\ MoneyMovedOnce /\ JournalMirrorsLedger /\ EventsTellState /\ ReversalUndoes
    /\ DirectionsKept /\ ChangesHaveEntries

\* What every reachable state satisfies and every step preserves; the properties of
\* rows, answers and money follow from it.
CoreInv == IInv /\ RowInv /\ MoneyInv

=============================================================================
