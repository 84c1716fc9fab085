------------------------------ MODULE Wagering ------------------------------
(***************************************************************************)
(* The wagering core: ProcessWager (from HTTP and from SQS), OpenWallet    *)
(* and ResolveReferences, running concurrently in any number of instances  *)
(* against one PostgreSQL database at READ COMMITTED.                      *)
(*                                                                         *)
(* Every SQL statement that reads or may wait is a step of its own and     *)
(* sees what is committed when it runs.  A unit of work (Within) buffers   *)
(* what it wrote in job[x].writes until Commit, which applies the buffer   *)
(* in one step; an error or a crash before it drops the buffer and frees   *)
(* the locks.  A row lock on a wallet is holder[w]; the lock of a written  *)
(* transaction row, and the claim an uncommitted insert has on a unique    *)
(* index, follow from the jobs between their save and their commit.        *)
(*                                                                         *)
(* Time is two flags per parked reversal: due (its next attempt time has   *)
(* come) and expired (its TTL has passed).                                 *)
(***************************************************************************)
EXTENDS WagerDomain, FiniteSets

CONSTANTS Handlers,          \* goroutines serving HTTP requests or SQS messages
          Resolvers,         \* reference workers, one per running instance
          Wallets,           \* wallet ids that OpenWallet may ever draw
          Accounts,          \* the OpenWallet request that draws each wallet id
          Seeded,            \* wallets already opened in the initial state
          Commands,          \* requests: [key, msg, body], msg = None over HTTP
          Messages,          \* SQS message ids
          TxIds,             \* ids for external transactions
          MaxAttempts,       \* ReferencePolicy.MaxAttempts
          BatchSize,         \* rows one claim may take
          MaxSends,          \* bound: requests submitted
          MaxFaults          \* bound: failed statements, lost answers, crashes

Workers == Handlers \cup Resolvers
AllIds  == TxIds \cup Wallets          \* an OPENING transaction is named by its wallet
NoOne   == "NO_ONE"

ASSUME WageringAssumption ==
    /\ Handlers \cap Resolvers = {} /\ NoOne \notin Workers
    /\ TxIds \cap Wallets = {} /\ None \notin AllIds
    /\ None \notin Messages
    /\ Seeded \subseteq Wallets
    /\ MaxAttempts \in Nat \ {0} /\ BatchSize \in Nat \ {0}
    /\ MaxSends \in Nat /\ MaxFaults \in Nat
    /\ \A w \in Wallets : Accounts[w].initial \in 0..MaxMoney
    /\ \A v, w \in Seeded : /\ Accounts[v].player = Accounts[w].player
                            /\ Accounts[v].currency = Accounts[w].currency
                            => v = w
    /\ \A c \in Commands : /\ c.msg \in Messages \cup {None}
                           /\ c.key # None /\ c.body.provider # None
                           /\ c.body.wallet \in Wallets
                           /\ c.body.amount \in 0..MaxMoney

VARIABLES wallets,   \* table wallet: [Wallets -> row], NoWallet when not inserted
          txs,       \* table wager_transaction: [AllIds -> row], NoTx when absent
          retry,     \* its reference_* columns: [AllIds -> [attempts, due, expired]]
          ledger,    \* table wallet_ledger_entry: [Wallets -> Seq(entry)]
          journal,   \* table journal_entry: a set of legs
          inbox,     \* table inbox: [Messages -> [id, body]], id = None when absent
          outbox,    \* table outbox: the set of events ever inserted
          holder,    \* row locks on wallet: [Wallets -> Workers or NoOne]
          pc, job,   \* each worker's position and local variables
          sent, faults

tables  == <<wallets, txs, retry, ledger, journal, inbox, outbox>>
vars    == <<tables, holder, pc, job, sent, faults>>

-----------------------------------------------------------------------------
(* Local variables of a worker.                                            *)

NoAns  == [out |-> None, id |-> None, status |-> None, balance |-> NoBalance,
           replay |-> FALSE]
NoCmd  == [key |-> None, msg |-> None, body |-> NoBody]
NoRec  == [id |-> None, attempts |-> 0]

\* mode says what the unit of work does to the transaction row: nothing, INSERT,
\* UPDATE, or RecordReferenceAttempt.
IdleJob == [cmd |-> NoCmd, wid |-> None, id |-> None, row |-> NoTx, plan |-> Park,
            seen |-> NoWallet, mode |-> None, writes |-> NoWrites,
            inboxed |-> FALSE, ans |-> NoAns,
            batch |-> {}, rec |-> NoRec, late |-> FALSE, failing |-> FALSE]

AfterSave == {"post", "recordInbox", "commit"}

-----------------------------------------------------------------------------
(* Statements.                                                             *)

Stored(id) == txs[id].status # "ABSENT"

GetByIdempotencyKey(key) ==
    IF \E id \in AllIds : Stored(id) /\ txs[id].key = key
    THEN CHOOSE id \in AllIds : Stored(id) /\ txs[id].key = key
    ELSE None

GetByProviderExternalID(provider, ext) ==
    IF \E id \in AllIds : /\ Stored(id) /\ txs[id].body.provider = provider
                          /\ txs[id].body.ext = ext
    THEN CHOOSE id \in AllIds : /\ Stored(id) /\ txs[id].body.provider = provider
                                /\ txs[id].body.ext = ext
    ELSE None

\* Mutant: the query forgets that a ROLLBACK is a reversal too.
HasSuccessfulReversal_RefundOnly(id) ==
    \E t \in AllIds : /\ txs[t].refId = id
                      /\ txs[t].body.kind = "REFUND"
                      /\ txs[t].status = "PROCESSED"

HasSuccessfulReversal(id) ==
    \E t \in AllIds : /\ txs[t].refId = id
                      /\ RequiresReference(txs[t].body.kind)
                      /\ txs[t].status = "PROCESSED"

\* The hash is taken to be injective: two requests hash alike when their bodies agree.
SameHash(row, cmd) == row.body = cmd.body

\* Another unit of work has inserted, and not yet committed, a row that collides
\* with row on a unique index: the INSERT waits for its outcome.
Collides(r, row) ==
    \/ r.key = row.key
    \/ r.body.provider = row.body.provider /\ r.body.ext = row.body.ext
InsertWaits(x, row) ==
    \E y \in Workers \ {x} : /\ pc[y] \in AfterSave /\ job[y].mode = "insert"
                             /\ Collides(job[y].writes.row, row)

\* The unique indexes of wager_transaction, as the error Insert reports.
UniqueViolations(row) ==
    { code \in {"OPERATION_IDENTITY_CONFLICT", "IDEMPOTENCY_CONFLICT"} :
        \E i \in TxIds : /\ Stored(i)
                         /\ IF code = "IDEMPOTENCY_CONFLICT" THEN txs[i].key = row.key
                            ELSE /\ txs[i].body.provider = row.body.provider
                                 /\ txs[i].body.ext = row.body.ext }

\* Another unit of work has updated this row and not yet committed.
RowLocked(x, id) ==
    \E y \in Workers \ {x} : /\ pc[y] \in AfterSave
                             /\ job[y].mode \in {"update", "attempt"}
                             /\ job[y].id = id

\* Mutant: the trigger is missing.
ForbidTerminalUpdate_Off(id) == FALSE

\* The trigger wager_transaction_terminal_guard on the latest committed row.
ForbidTerminalUpdate(id) == IsTerminal(txs[id].status)

FreeIds == { id \in TxIds : /\ ~Stored(id)
                            /\ \A y \in Workers : job[y].id # id }

-----------------------------------------------------------------------------
(* How a unit of work ends.                                                *)

Released(x) == [w \in Wallets |-> IF holder[w] = x THEN NoOne ELSE holder[w]]

Error(code) == [NoAns EXCEPT !.out = code]

\* Mutant: a replay reports the wallet's present balance.
replayResult_CurrentBalance(id) ==
    [out |-> "RESULT", id |-> id, status |-> txs[id].status,
     balance |-> wallets[txs[id].body.wallet].balance, replay |-> TRUE]

replayResult(id) ==
    [out |-> "RESULT", id |-> id, status |-> txs[id].status,
     balance |-> txs[id].result, replay |-> TRUE]

\* The caller gets ans; what the job was about stays visible until it is sent.
AnswerWith(h, ans) ==
    /\ pc' = [pc EXCEPT ![h] = "reply"]
    /\ job' = [job EXCEPT ![h] = [IdleJob EXCEPT !.cmd = job[h].cmd, !.ans = ans]]

\* RunOnce moves on to its next record.
NextRecord(r) ==
    /\ pc' = [pc EXCEPT ![r] = "next"]
    /\ job' = [job EXCEPT ![r] = [IdleJob EXCEPT !.batch = job[r].batch]]

\* An error leaves Within: the transaction is rolled back.  A handler reports
\* it.  The reference worker gives the record to recordPermanentFailure, which
\* acts only on the last attempt, and whose own errors are only logged.
Abandon(x, code) ==
    /\ holder' = Released(x)
    /\ IF x \in Handlers
       THEN AnswerWith(x, Error(code))
       ELSE IF job[x].failing \/ job[x].rec.attempts + 1 < MaxAttempts
       THEN NextRecord(x)
       ELSE /\ pc' = [pc EXCEPT ![x] = "failLoad"]
            /\ job' = [job EXCEPT ![x] = [IdleJob EXCEPT !.batch = job[x].batch,
                                                         !.rec = job[x].rec,
                                                         !.failing = TRUE]]

Goto(x, label) == pc' = [pc EXCEPT ![x] = label]

-----------------------------------------------------------------------------
(* ProcessWager.Execute, steps of a handler.                               *)

\* A request arrives over HTTP, or a message is received or redelivered.
Submit(h, c) ==
    /\ pc[h] = "idle" /\ sent < MaxSends
    /\ sent' = sent + 1
    /\ Goto(h, "fast")
    /\ job' = [job EXCEPT ![h] = [IdleJob EXCEPT !.cmd = c, !.wid = c.body.wallet]]
    /\ UNCHANGED <<tables, holder, faults>>

\* fastReplay, outside any unit of work: it only answers a settled repeat that
\* needs no inbox row.
FastReplay(h) ==
    /\ pc[h] = "fast"
    /\ LET id == GetByIdempotencyKey(job[h].cmd.key)
       IN  IF id = None
           THEN Goto(h, "lock") /\ UNCHANGED job
           ELSE IF ~SameHash(txs[id], job[h].cmd)
           THEN AnswerWith(h, Error("IDEMPOTENCY_CONFLICT"))
           ELSE IF IsTerminal(txs[id].status) /\ job[h].cmd.msg = None
           THEN AnswerWith(h, replayResult(id))
           ELSE Goto(h, "lock") /\ UNCHANGED job
    /\ UNCHANGED <<tables, holder, sent, faults>>

\* Mutant: a plain SELECT, which neither waits for the row lock nor takes it.
GetForUpdate_PlainRead(h) ==
    LET w == job[h].wid
    IN  /\ pc[h] = "lock" /\ h \in Handlers
        /\ IF ~wallets[w].open
           THEN AnswerWith(h, Error("NOT_FOUND"))
           ELSE IF Accounts[w].player # job[h].cmd.body.player
           THEN AnswerWith(h, Error("WALLET_MISMATCH"))
           ELSE /\ job' = [job EXCEPT ![h].seen = wallets[w]]
                /\ Goto(h, IF job[h].cmd.msg = None THEN "key" ELSE "inbox")
        /\ UNCHANGED <<tables, holder, sent, faults>>

\* GetForUpdate: waits for the row lock, then reads the latest committed wallet.
GetForUpdate(h) ==
    LET w == job[h].wid
    IN  /\ pc[h] = "lock" /\ h \in Handlers
        /\ wallets[w].open => holder[w] = NoOne
        /\ IF ~wallets[w].open
           THEN AnswerWith(h, Error("NOT_FOUND")) /\ UNCHANGED holder
           ELSE IF Accounts[w].player # job[h].cmd.body.player
           THEN AnswerWith(h, Error("WALLET_MISMATCH")) /\ UNCHANGED holder
           ELSE /\ holder' = [holder EXCEPT ![w] = h]
                /\ job' = [job EXCEPT ![h].seen = wallets[w]]
                /\ Goto(h, IF job[h].cmd.msg = None THEN "key" ELSE "inbox")
        /\ UNCHANGED <<tables, sent, faults>>

\* Mutant: a replay never records the message.
Replay_SkipsInbox(h, id, record) ==
    /\ job' = [job EXCEPT ![h].ans = replayResult(id)]
    /\ Goto(h, "commit")
    /\ UNCHANGED holder

\* A repeat found inside the unit of work: its answer is ready, and recordInbox
\* still runs when record is TRUE and the request is a message.
Replay(h, id, record) ==
    /\ job' = [job EXCEPT ![h].ans = replayResult(id)]
    /\ Goto(h, IF record /\ job[h].cmd.msg # None THEN "recordInbox" ELSE "commit")
    /\ UNCHANGED holder

ReadInbox(h) ==
    /\ pc[h] = "inbox"
    /\ LET rec == inbox[job[h].cmd.msg]
       IN  IF rec.id = None
           THEN Goto(h, "key") /\ UNCHANGED <<job, holder>>
           ELSE IF rec.body # job[h].cmd.body
           THEN Abandon(h, "IDEMPOTENCY_CONFLICT")
           ELSE Replay(h, rec.id, FALSE)
    /\ UNCHANGED <<tables, sent, faults>>

\* Mutant: the key lookup inside the unit of work does not compare payloads.
ReadKey_NoHash(h) ==
    /\ pc[h] = "key"
    /\ LET id == GetByIdempotencyKey(job[h].cmd.key)
       IN  IF id = None
           THEN Goto(h, "identity") /\ UNCHANGED <<job, holder>>
           ELSE Replay(h, id, TRUE)
    /\ UNCHANGED <<tables, sent, faults>>

ReadKey(h) ==
    /\ pc[h] = "key"
    /\ LET id == GetByIdempotencyKey(job[h].cmd.key)
       IN  IF id = None
           THEN Goto(h, "identity") /\ UNCHANGED <<job, holder>>
           ELSE IF ~SameHash(txs[id], job[h].cmd)
           THEN Abandon(h, "IDEMPOTENCY_CONFLICT")
           ELSE Replay(h, id, TRUE)
    /\ UNCHANGED <<tables, sent, faults>>

\* The identity lookup compares keys only: a row under the same key is replayed
\* whatever its payload.  Without one, NewExternal builds the transaction.
ReadIdentity(h) ==
    LET c  == job[h].cmd
        id == GetByProviderExternalID(c.body.provider, c.body.ext)
    IN  /\ pc[h] = "identity"
        /\ IF id = None
           THEN IF ValidExternal(c.body)
                THEN /\ job' = [job EXCEPT ![h].row = NewExternal(c.key, c.body),
                                           ![h].mode = "insert"]
                     /\ Goto(h, "decide") /\ UNCHANGED holder
                ELSE Abandon(h, "INVALID")
           ELSE IF txs[id].key # c.key
           THEN Abandon(h, "OPERATION_IDENTITY_CONFLICT")
           ELSE Replay(h, id, TRUE)
        /\ UNCHANGED <<tables, sent, faults>>

\* The row a reversal or a WIN refers to, NoTx when there is none.
ReferenceId(b) == IF b.ref = None THEN None ELSE GetByProviderExternalID(b.provider, b.ref)
RowOf(id)      == IF id = None THEN NoTx ELSE txs[id]

\* decide: one reference lookup at most.
decide(row, w) ==
    IF row.body.currency # Accounts[w].currency
    THEN Reject("CURRENCY_MISMATCH")
    ELSE CASE row.body.kind = "BET"  -> Process("DEBIT")
           [] row.body.kind = "WIN"  -> Process("CREDIT")
           [] row.body.kind = "LOSS" -> Process(None)
           [] OTHER -> ReferenceVerdict(row.body, RowOf(ReferenceId(row.body)))

Decide(h) ==
    LET j == job[h]
        d == decide(j.row, j.wid)
    IN  /\ pc[h] = "decide" /\ h \in Handlers
        /\ job' = [job EXCEPT ![h].plan = d,
                              ![h].row.refId = IF d.kind = "PROCESS"
                                               THEN ReferenceId(j.row.body) ELSE None]
        /\ Goto(h, IF d.kind = "PROCESS" /\ RequiresReference(j.row.body.kind)
                   THEN "reversal" ELSE "save")
        /\ UNCHANGED <<tables, holder, sent, faults>>

\* The second statement of decideReversal, for handlers and resolvers alike.
CheckReversal(x) ==
    /\ pc[x] = "reversal"
    /\ IF HasSuccessfulReversal(job[x].row.refId)
       THEN job' = [job EXCEPT ![x].plan = Reject("DUPLICATE_REVERSAL"), ![x].row.refId = None]
       ELSE UNCHANGED job
    /\ Goto(x, "save")
    /\ UNCHANGED <<tables, holder, sent, faults>>

\* settle, up to its save: the movement is computed, the row is marked and written.
\* INSERT waits for colliding uncommitted rows and fails on committed ones.
Settle(x) ==
    LET j  == job[x]
        id == IF j.mode = "insert" THEN CHOOSE i \in FreeIds : TRUE ELSE j.id
        s  == Settlement(id, j.row, j.seen, j.plan)
        moves == j.plan.kind = "PROCESS" /\ j.plan.dir # None
        saved == /\ job' = [job EXCEPT ![x].id = id, ![x].writes = s,
                                ![x].ans = [out |-> "RESULT", id |-> id,
                                            status |-> s.row.status,
                                            balance |-> IF s.moved THEN s.wallet.balance
                                                        ELSE j.seen.balance,
                                            replay |-> FALSE]]
                 /\ Goto(x, IF s.moved THEN "post"
                            ELSE IF j.cmd.msg # None THEN "recordInbox" ELSE "commit")
                 /\ UNCHANGED holder
    IN  /\ pc[x] = "save" /\ j.mode \in {"insert", "update"}
        /\ j.mode = "insert" => FreeIds # {}
        /\ IF moves /\ Overflows(j.seen, j.plan.dir, j.row.body.amount)
           THEN Abandon(x, "OVERFLOW")
           ELSE IF j.mode = "insert"
           THEN /\ ~InsertWaits(x, s.row)
                /\ IF UniqueViolations(s.row) # {}
                   THEN \E code \in UniqueViolations(s.row) : Abandon(x, code)
                   ELSE saved
           ELSE /\ ~RowLocked(x, id)
                /\ IF ForbidTerminalUpdate(id) \/ ~MayBecome(j.row, s.row.status)
                   THEN Abandon(x, "INTERNAL")
                   ELSE saved
        /\ UNCHANGED <<tables, sent, faults>>

\* UpdateBalance with its version check, then the ledger entry, the two journal
\* legs and the two events, which nothing outside the unit of work can disturb.
UpdateBalance(x) ==
    LET j == job[x]
    IN  /\ pc[x] = "post"
        /\ holder[j.wid] \in {NoOne, x}
        /\ IF wallets[j.wid].version = j.seen.version
           THEN /\ holder' = [holder EXCEPT ![j.wid] = x]
                /\ Goto(x, IF j.cmd.msg # None THEN "recordInbox" ELSE "commit")
                /\ UNCHANGED job
           ELSE Abandon(x, "CONCURRENCY_CONFLICT")
        /\ UNCHANGED <<tables, sent, faults>>

\* recordInbox: the primary key makes a colliding insert wait, then fail.
RecordInbox(h) ==
    LET m == job[h].cmd.msg
    IN  /\ pc[h] = "recordInbox"
        /\ \A y \in Workers \ {h} : ~(job[y].inboxed /\ job[y].cmd.msg = m)
        /\ IF inbox[m].id # None
           THEN Abandon(h, "INTERNAL")
           ELSE /\ job' = [job EXCEPT ![h].inboxed = TRUE]
                /\ Goto(h, "commit") /\ UNCHANGED holder
        /\ UNCHANGED <<tables, sent, faults>>

\* The answer reaches the client, or the consumer's disposition of the message.
Respond(h) ==
    /\ pc[h] = "reply"
    /\ Goto(h, "idle")
    /\ job' = [job EXCEPT ![h] = IdleJob]
    /\ UNCHANGED <<tables, holder, sent, faults>>

-----------------------------------------------------------------------------
(* OpenWallet.Execute, steps of a handler.  uuid.New() draws each wallet id *)
(* once, so no two requests ever insert the same id.                       *)

SameSlot(v, w) == /\ Accounts[v].player = Accounts[w].player
                  /\ Accounts[v].currency = Accounts[w].currency

RequestOpening(h, w) ==
    /\ pc[h] = "idle" /\ sent < MaxSends
    /\ ~wallets[w].open /\ \A y \in Handlers : job[y].cmd = NoCmd => job[y].wid # w
    /\ sent' = sent + 1
    /\ Goto(h, "exists")
    /\ job' = [job EXCEPT ![h] = [IdleJob EXCEPT !.wid = w]]
    /\ UNCHANGED <<tables, holder, faults>>

ExistsForPlayerCurrency(h) ==
    /\ pc[h] = "exists"
    /\ IF \E v \in Wallets : wallets[v].open /\ SameSlot(v, job[h].wid)
       THEN Abandon(h, "WALLET_ALREADY_EXISTS")
       ELSE Goto(h, "insertWallet") /\ UNCHANGED <<job, holder>>
    /\ UNCHANGED <<tables, sent, faults>>

\* Mutant: no unique constraint on (player, currency).
InsertWallet_NoUnique(h) ==
    /\ pc[h] = "insertWallet"
    /\ job' = [job EXCEPT ![h].writes = OpeningWrites(job[h].wid, Accounts[job[h].wid]),
                          ![h].id = job[h].wid, ![h].mode = "insert"]
    /\ Goto(h, "commit")
    /\ UNCHANGED <<tables, holder, sent, faults>>

\* The INSERT of the wallet waits for a colliding uncommitted one, fails on a
\* committed one, and is followed by recordOpeningCredit.
InsertWallet(h) ==
    LET w == job[h].wid
    IN  /\ pc[h] = "insertWallet"
        /\ \A y \in Handlers \ {h} :
               ~(pc[y] = "commit" /\ job[y].cmd = NoCmd /\ SameSlot(job[y].wid, w))
        /\ IF \E v \in Wallets : wallets[v].open /\ SameSlot(v, w)
           THEN Abandon(h, "WALLET_ALREADY_EXISTS")
           ELSE /\ job' = [job EXCEPT
                        ![h].writes = OpeningWrites(w, Accounts[w]),
                        ![h].id = w,
                        ![h].mode = IF Accounts[w].initial = 0 THEN None ELSE "insert",
                        ![h].ans = [NoAns EXCEPT !.out = "CREATED",
                                                 !.balance = Accounts[w].initial]]
                /\ Goto(h, "commit") /\ UNCHANGED holder
        /\ UNCHANGED <<tables, sent, faults>>

-----------------------------------------------------------------------------
(* ResolveReferences.RunOnce, steps of a resolver.                         *)

\* Mutant: a freshly parked row has no next-attempt time, so no claim ever sees it.
DueRows_NotFresh(r) ==
    { id \in TxIds : /\ txs[id].status = "PENDING_REFERENCE" /\ retry[id].due
                    /\ retry[id].attempts > 0 /\ ~RowLocked(r, id) }

\* ClaimPendingReference, in a unit of work that commits at once: the rows are
\* copied, and unlocked again before any of them is settled.
DueRows(r) ==
    { id \in TxIds : /\ txs[id].status = "PENDING_REFERENCE" /\ retry[id].due
                    /\ ~RowLocked(r, id) }
Claim(r) ==
    /\ pc[r] = "idle" /\ DueRows(r) # {}
    /\ \E rows \in SUBSET DueRows(r) :
          /\ \/ Cardinality(rows) = BatchSize
             \/ rows = DueRows(r) /\ Cardinality(rows) < BatchSize
          /\ job' = [job EXCEPT ![r].batch =
                        { [id |-> id, attempts |-> retry[id].attempts] : id \in rows }]
    /\ Goto(r, "next")
    /\ UNCHANGED <<tables, holder, sent, faults>>

\* settleOne reads the clock and the transaction, before it has any lock.
LoadPending(r, rec) ==
    /\ pc[r] = "next" /\ rec \in job[r].batch
    /\ LET rest == job[r].batch \ {rec}
       IN  IF txs[rec.id].status # "PENDING_REFERENCE"
           THEN /\ job' = [job EXCEPT ![r].batch = rest]
                /\ UNCHANGED pc
           ELSE /\ job' = [job EXCEPT ![r] =
                        [IdleJob EXCEPT !.batch = rest, !.rec = rec, !.id = rec.id,
                                        !.row = txs[rec.id], !.mode = "update",
                                        !.wid = txs[rec.id].body.wallet,
                                        !.late = retry[rec.id].expired]]
                /\ Goto(r, "lock")
    /\ UNCHANGED <<tables, holder, sent, faults>>

EndPass(r) ==
    /\ pc[r] = "next" /\ job[r].batch = {}
    /\ Goto(r, "idle")
    /\ UNCHANGED <<tables, holder, job, sent, faults>>

GetForUpdateParked(r) ==
    LET w == job[r].wid
    IN  /\ pc[r] = "lock" /\ r \in Resolvers
        /\ wallets[w].open => holder[w] = NoOne
        /\ IF ~wallets[w].open
           THEN Abandon(r, "NOT_FOUND")
           ELSE /\ holder' = [holder EXCEPT ![w] = r]
                /\ job' = [job EXCEPT ![r].seen = wallets[w]]
                /\ Goto(r, "decide")
        /\ UNCHANGED <<tables, sent, faults>>

\* Either budget ends the wait: attempts or TTL.
Exhausted(rec, late) == rec.attempts + 1 >= MaxAttempts \/ late

\* Mutant: a row whose budget is used up is given up without a look at the reference.
DecideParked_BudgetFirst(r) ==
    LET j == job[r]
        d == ReferenceVerdict(j.row.body, RowOf(ReferenceId(j.row.body)))
    IN  /\ pc[r] = "decide" /\ r \in Resolvers
        /\ IF d # Park /\ ~Exhausted(j.rec, j.late)
           THEN /\ job' = [job EXCEPT ![r].plan = d,
                              ![r].row.refId = IF d.kind = "PROCESS"
                                               THEN ReferenceId(j.row.body) ELSE None]
                /\ Goto(r, IF d.kind = "PROCESS" THEN "reversal" ELSE "save")
           ELSE /\ job' = IF Exhausted(j.rec, j.late)
                          THEN [job EXCEPT ![r].plan = Reject("REFERENCE_NOT_FOUND")]
                          ELSE [job EXCEPT ![r].mode = "attempt"]
                /\ Goto(r, "save")
        /\ UNCHANGED <<tables, holder, sent, faults>>

DecideParked(r) ==
    LET j == job[r]
        d == ReferenceVerdict(j.row.body, RowOf(ReferenceId(j.row.body)))
    IN  /\ pc[r] = "decide" /\ r \in Resolvers
        /\ IF d # Park
           THEN /\ job' = [job EXCEPT ![r].plan = d,
                              ![r].row.refId = IF d.kind = "PROCESS"
                                               THEN ReferenceId(j.row.body) ELSE None]
                /\ Goto(r, IF d.kind = "PROCESS" THEN "reversal" ELSE "save")
           ELSE /\ job' = IF Exhausted(j.rec, j.late)
                          THEN [job EXCEPT ![r].plan = Reject("REFERENCE_NOT_FOUND")]
                          ELSE [job EXCEPT ![r].mode = "attempt"]
                /\ Goto(r, "save")
        /\ UNCHANGED <<tables, holder, sent, faults>>

\* The UPDATE only touches a row that is still parked.
RecordReferenceAttempt(r) ==
    LET j == job[r]
    IN  /\ pc[r] = "save" /\ j.mode = "attempt"
        /\ ~RowLocked(r, j.id)
        /\ IF txs[j.id].status = "PENDING_REFERENCE"
           THEN UNCHANGED job
           ELSE job' = [job EXCEPT ![r].mode = None]
        /\ Goto(r, "commit")
        /\ UNCHANGED <<tables, holder, sent, faults>>

\* recordPermanentFailure: reload without the wallet lock, then mark FAILED.
LoadFailing(r) ==
    /\ pc[r] = "failLoad"
    /\ LET rec == job[r].rec
       IN  IF txs[rec.id].status # "PENDING_REFERENCE"
           THEN NextRecord(r)
           ELSE /\ job' = [job EXCEPT ![r].row = txs[rec.id], ![r].id = rec.id,
                                      ![r].mode = "update"]
                /\ Goto(r, "failSave")
    /\ UNCHANGED <<tables, holder, sent, faults>>

\* Mutant: FAILED is stored and no event is emitted.
SaveFailed_NoEvent(r) ==
    LET j == job[r]
    IN  /\ pc[r] = "failSave"
        /\ ~RowLocked(r, j.id) /\ ~ForbidTerminalUpdate(j.id)
        /\ job' = [job EXCEPT ![r].writes =
                     [NoWrites EXCEPT !.row = MarkFailed(j.row, "INFRASTRUCTURE_FAILURE")]]
        /\ Goto(r, "commit")
        /\ UNCHANGED <<tables, holder, sent, faults>>

SaveFailed(r) ==
    LET j == job[r]
    IN  /\ pc[r] = "failSave"
        /\ ~RowLocked(r, j.id)
        /\ IF ForbidTerminalUpdate(j.id)
           THEN Abandon(r, "INTERNAL")
           ELSE /\ job' = [job EXCEPT ![r].writes =
                        [NoWrites EXCEPT
                            !.row = MarkFailed(j.row, "INFRASTRUCTURE_FAILURE"),
                            !.events = {Event("WagerTransactionRejected", j.id)}]]
                /\ Goto(r, "commit") /\ UNCHANGED holder
        /\ UNCHANGED <<tables, sent, faults>>

-----------------------------------------------------------------------------
(* Commit, failures, time.                                                 *)

\* Everything the unit of work wrote becomes visible in one step.
ApplyWrites(x) ==
    LET j == job[x]
        s == j.writes
    IN  /\ wallets' = IF s.moved THEN [wallets EXCEPT ![j.wid] = s.wallet] ELSE wallets
        /\ ledger'  = IF s.moved THEN [ledger EXCEPT ![j.wid] = @ \o s.entries] ELSE ledger
        /\ txs' = CASE j.mode = "insert" -> [txs EXCEPT ![j.id] = s.row]
                    [] j.mode = "update" ->
                         [txs EXCEPT ![j.id].status = s.row.status,
                                     ![j.id].failure = s.row.failure,
                                     ![j.id].result = s.row.result,
                                     ![j.id].refId = s.row.refId]
                    [] OTHER -> txs
        /\ retry' = IF j.mode = "attempt"
                    THEN [retry EXCEPT ![j.id].attempts = j.rec.attempts + 1,
                                       ![j.id].due = FALSE]
                    ELSE retry
        /\ journal' = journal \cup s.legs
        /\ outbox'  = outbox \cup s.events
        /\ inbox'   = IF j.inboxed
                      THEN [inbox EXCEPT ![j.cmd.msg] =
                                [id |-> j.ans.id, body |-> j.cmd.body]]
                      ELSE inbox

Commit(x) ==
    /\ pc[x] = "commit"
    /\ ApplyWrites(x)
    /\ holder' = Released(x)
    /\ IF x \in Handlers THEN AnswerWith(x, job[x].ans) ELSE NextRecord(x)
    /\ UNCHANGED <<sent, faults>>

Fault == faults < MaxFaults /\ faults' = faults + 1

\* The commit took effect and its acknowledgement was lost: the code sees an error.
CommitUnacknowledged(x) ==
    /\ pc[x] = "commit" /\ Fault
    /\ ApplyWrites(x)
    /\ Abandon(x, "UNAVAILABLE")
    /\ UNCHANGED sent

\* A statement fails: connection lost, deadline passed, server restarted.
StatementFails(x) ==
    /\ pc[x] \notin {"idle", "reply", "next"} /\ Fault
    /\ Abandon(x, "UNAVAILABLE")
    /\ UNCHANGED <<tables, sent>>

\* The process dies: its transaction is rolled back and its memory is gone.
Crash(x) ==
    /\ pc[x] # "idle" /\ Fault
    /\ holder' = Released(x)
    /\ Goto(x, "idle")
    /\ job' = [job EXCEPT ![x] = IdleJob]
    /\ UNCHANGED <<tables, sent>>

Parked(id) == txs[id].status = "PENDING_REFERENCE"

BackoffElapses(id) ==
    /\ Parked(id) /\ ~retry[id].due
    /\ retry' = [retry EXCEPT ![id].due = TRUE]
    /\ UNCHANGED <<wallets, txs, ledger, journal, inbox, outbox, holder, pc, job, sent, faults>>

TTLElapses(id) ==
    /\ Parked(id) /\ ~retry[id].expired
    /\ retry' = [retry EXCEPT ![id].expired = TRUE]
    /\ UNCHANGED <<wallets, txs, ledger, journal, inbox, outbox, holder, pc, job, sent, faults>>

\* Every worker is at rest between two polls: the system may stay so.  A state in
\* which some worker waits and nothing can move is a deadlock.
Quiescent ==
    /\ \A x \in Workers : pc[x] = "idle"
    /\ UNCHANGED vars

-----------------------------------------------------------------------------
(* The specification.                                                      *)

SeedWrites(w) == IF w \in Seeded THEN OpeningWrites(w, Accounts[w]) ELSE NoWrites

\* The wallets in Seeded have been opened; nothing else has happened yet.
Init ==
    /\ wallets = [w \in Wallets |-> SeedWrites(w).wallet]
    /\ txs     = [id \in AllIds |-> IF id \in Wallets THEN SeedWrites(id).row ELSE NoTx]
    /\ retry   = [id \in AllIds |-> [attempts |-> 0, due |-> TRUE, expired |-> FALSE]]
    /\ ledger  = [w \in Wallets |-> SeedWrites(w).entries]
    /\ journal = UNION { SeedWrites(w).legs : w \in Wallets }
    /\ outbox  = UNION { SeedWrites(w).events : w \in Wallets }
    /\ inbox   = [m \in Messages |-> [id |-> None, body |-> NoBody]]
    /\ holder  = [w \in Wallets |-> NoOne]
    /\ pc      = [x \in Workers |-> "idle"]
    /\ job     = [x \in Workers |-> IdleJob]
    /\ sent = 0 /\ faults = 0

HandlerStep(h) ==
    \/ FastReplay(h) \/ GetForUpdate(h) \/ ReadInbox(h) \/ ReadKey(h)
    \/ ReadIdentity(h) \/ Decide(h) \/ CheckReversal(h) \/ Settle(h)
    \/ UpdateBalance(h) \/ RecordInbox(h) \/ Commit(h) \/ Respond(h)
    \/ ExistsForPlayerCurrency(h) \/ InsertWallet(h)

ResolverStep(r) ==
    \/ Claim(r) \/ (\E rec \in job[r].batch : LoadPending(r, rec)) \/ EndPass(r)
    \/ GetForUpdateParked(r) \/ DecideParked(r) \/ CheckReversal(r) \/ Settle(r)
    \/ RecordReferenceAttempt(r) \/ UpdateBalance(r) \/ Commit(r)
    \/ LoadFailing(r) \/ SaveFailed(r)

Arrival(h) == \/ \E c \in Commands : Submit(h, c)
              \/ \E w \in Wallets : RequestOpening(h, w)

Failure(x) == CommitUnacknowledged(x) \/ StatementFails(x) \/ Crash(x)

Time(id) == BackoffElapses(id) \/ TTLElapses(id)

Next == \/ \E h \in Handlers : Arrival(h) \/ HandlerStep(h)
        \/ \E r \in Resolvers : ResolverStep(r)
        \/ \E x \in Workers : Failure(x)
        \/ \E id \in TxIds : Time(id)
        \/ Quiescent

Spec == Init /\ [][Next]_vars

\* Goroutines run and timers fire; PostgreSQL grants a contended row lock in
\* arrival order, so no waiter is passed over for ever.  Nothing is assumed of
\* the clients, and faults are finite.
Fairness ==
    /\ \A h \in Handlers : WF_vars(HandlerStep(h)) /\ SF_vars(GetForUpdate(h))
    /\ \A r \in Resolvers : WF_vars(ResolverStep(r)) /\ SF_vars(GetForUpdateParked(r))
    /\ \A id \in TxIds : WF_vars(BackoffElapses(id)) /\ WF_vars(TTLElapses(id))

FairSpec == Spec /\ Fairness

-----------------------------------------------------------------------------
(* Properties.                                                             *)

PCs == {"idle", "reply", "next", "fast", "lock", "inbox", "key", "identity", "decide",
        "reversal", "save", "post", "recordInbox", "commit", "exists", "insertWallet",
        "failLoad", "failSave"}
Ids        == AllIds \cup {None}
Bodies     == { c.body : c \in Commands } \cup { OpeningBody(w, Accounts[w]) : w \in Wallets }
Keys       == { c.key : c \in Commands } \cup {None}
Amounts    == 0..MaxMoney
Directions == {"DEBIT", "CREDIT"}
WalletRows == [open : BOOLEAN, balance : Amounts, version : Nat]
Rows       == [key : Keys, body : Bodies, status : Statuses,
               failure : FailureCodes \cup {None}, result : Amounts \cup {NoBalance},
               refId : Ids]
LedgerEntries == [tx : AllIds, dir : Directions, amount : Amounts,
                  before : Amounts, after : Amounts]
Books      == {PlatformFunding} \cup { WalletAccount(w) : w \in Wallets }
                \cup { ProviderAccount(b.provider) : b \in Bodies }
Legs       == [tx : AllIds, account : Books, dir : Directions, amount : Amounts]
Events     == [type : {"WagerTransactionProcessed", "WagerTransactionRejected",
                       "WagerTransactionPendingReference", "WalletBalanceChanged"},
               tx : AllIds, version : Nat]
Plans      == [kind : {"PROCESS", "REJECT", "PENDING_REFERENCE"},
               dir : Directions \cup {None}, failure : FailureCodes \cup {None}]
Writes     == [row : Rows \cup {NoTx}, wallet : WalletRows, moved : BOOLEAN,
               entries : Seq(LedgerEntries), legs : SUBSET Legs, events : SUBSET Events]
Outcomes   == {None, "RESULT", "CREATED", "NOT_FOUND", "WALLET_MISMATCH", "INVALID",
               "IDEMPOTENCY_CONFLICT", "OPERATION_IDENTITY_CONFLICT", "OVERFLOW",
               "CONCURRENCY_CONFLICT", "WALLET_ALREADY_EXISTS", "INTERNAL", "UNAVAILABLE"}
Answers    == [out : Outcomes, id : Ids, status : Statuses \cup {None, "ABSENT"},
               balance : Amounts \cup {NoBalance}, replay : BOOLEAN]
Records    == [id : TxIds, attempts : Nat]
Jobs       == [cmd : Commands \cup {NoCmd}, wid : Wallets \cup {None}, id : Ids,
               row : Rows \cup {NoTx}, plan : Plans, seen : WalletRows,
               mode : {None, "insert", "update", "attempt"}, writes : Writes,
               inboxed : BOOLEAN, ans : Answers, batch : SUBSET Records,
               rec : Records \cup {NoRec}, late : BOOLEAN, failing : BOOLEAN]

\* Every table and every worker's locals keep their types; in particular no
\* balance, stored or still buffered, leaves 0..MaxMoney.
TypeOK ==
    /\ wallets \in [Wallets -> WalletRows]
    /\ txs \in [AllIds -> Rows \cup {NoTx}]
    /\ retry \in [AllIds -> [attempts : Nat, due : BOOLEAN, expired : BOOLEAN]]
    /\ ledger \in [Wallets -> Seq(LedgerEntries)]
    /\ journal \subseteq Legs /\ outbox \subseteq Events
    /\ inbox \in [Messages -> [id : Ids, body : Bodies \cup {NoBody}]]
    /\ holder \in [Wallets -> Workers \cup {NoOne}]
    /\ pc \in [Workers -> PCs] /\ job \in [Workers -> Jobs]
    /\ sent \in 0..MaxSends /\ faults \in 0..MaxFaults

\* The ledger of a wallet is a gapless chain from zero: each entry starts at the
\* balance the one before it left, and the stored balance is where the chain
\* ends.  Settling reads the balance, computes on a copy and writes both.
LedgerChain ==
    \A w \in Wallets :
        LET L == ledger[w]
        IN  /\ \A i \in 1..Len(L) :
                  /\ L[i].before = IF i = 1 THEN 0 ELSE L[i - 1].after
                  /\ L[i].after = IF L[i].dir = "DEBIT" THEN L[i].before - L[i].amount
                                                       ELSE L[i].before + L[i].amount
            /\ wallets[w].balance = IF L = <<>> THEN 0 ELSE L[Len(L)].after

\* The version check of UpdateBalance is a second barrier that never trips: when
\* a unit of work posts a movement, its wallet is still the one it read and locked.
CASNeverFails ==
    \A x \in Workers : pc[x] = "post" => /\ wallets[job[x].wid] = job[x].seen
                                        /\ holder[job[x].wid] = x

Reversals(id) == { t \in AllIds : /\ txs[t].refId = id
                                  /\ RequiresReference(txs[t].body.kind)
                                  /\ txs[t].status = "PROCESSED" }

\* However REFUND, ROLLBACK and the reference worker interleave, one transaction
\* is reversed successfully at most once.
AtMostOneReversal == \A id \in AllIds : Cardinality(Reversals(id)) <= 1

\* Where the ledger mentions a transaction, as <<wallet, position>>.
Entries(id) ==
    UNION { {w} \X { i \in DOMAIN ledger[w] : ledger[w][i].tx = id } : w \in Wallets }
EntryAt(p) == ledger[p[1]][p[2]]

\* A successful reversal undoes a successful transaction of the same wallet and
\* round, later, for the same amount and in the other direction.
ReversalUndoes ==
    \A id \in AllIds : \A t \in Reversals(id) :
        /\ txs[id].status = "PROCESSED"
        /\ txs[t].body.round = txs[id].body.round
        /\ \A p \in Entries(id), q \in Entries(t) :
              /\ p[1] = q[1] /\ p[2] < q[2]
              /\ EntryAt(p).amount = EntryAt(q).amount
              /\ EntryAt(p).dir # EntryAt(q).dir

\* Money moves once per PROCESSED operation and never for any other: exactly one
\* ledger entry, on the transaction's own wallet, for its amount, ending at the
\* balance the transaction reports; none for LOSS, parked, rejected or failed.
MoneyMovedOnce ==
    \A id \in AllIds :
        IF txs[id].status = "PROCESSED" /\ txs[id].body.kind # "LOSS"
        THEN \E k \in DOMAIN ledger[txs[id].body.wallet] :
                /\ Entries(id) = {<<txs[id].body.wallet, k>>}
                /\ ledger[txs[id].body.wallet][k].amount = txs[id].body.amount
                /\ ledger[txs[id].body.wallet][k].after = txs[id].result
        ELSE Entries(id) = {}

\* Every ledger entry has its two journal legs, equal and opposite, the wallet's
\* leg in the ledger's direction; and no leg exists without its ledger entry.
JournalMirrorsLedger ==
    \A id \in AllIds :
        LET legs == { l \in journal : l.tx = id }
        IN  IF Entries(id) = {} THEN legs = {}
            ELSE \A p \in Entries(id) : \E mine, other \in legs :
                    /\ legs = {mine, other}
                    /\ mine.account = WalletAccount(p[1]) /\ other.account # mine.account
                    /\ mine.dir = EntryAt(p).dir /\ other.dir # mine.dir
                    /\ mine.amount = EntryAt(p).amount /\ other.amount = mine.amount

\* What the outbox says of a transaction: its outcome, and the wallet versions that
\* its movement is announced with.
Told(id)      == { e.type : e \in { f \in outbox : f.tx = id /\ f.version = 0 } }
                    \ {"WagerTransactionPendingReference"}
Announced(id) == { e.version : e \in { f \in outbox : f.tx = id /\ f.version > 0 } }
Outcome(status) == CASE status = "PROCESSED" -> {"WagerTransactionProcessed"}
                     [] status \in {"REJECTED", "FAILED"} -> {"WagerTransactionRejected"}
                     [] OTHER -> {}

OutcomesTold  == \A id \in AllIds : Told(id) = Outcome(txs[id].status)
ParkingTold   == \A id \in AllIds : Parked(id) => Event("WagerTransactionPendingReference", id) \in outbox
MovementsTold ==
    \A w \in Wallets : \A i \in 1..Len(ledger[w]) :
        Announced(ledger[w][i].tx) = {i + (wallets[w].version - Len(ledger[w]))}

\* The outbox tells exactly what happened: one outcome event per settled
\* transaction, none for an unsettled one, and for each wallet one balance event
\* per version after which a movement left it.
EventsTellState == OutcomesTold /\ ParkingTold /\ MovementsTold

\* An answer with a result is the committed truth: the row exists under the
\* request's key or is the one its message was recorded with, and a settled status
\* or balance it reports is the stored one, for a first answer and a replay alike.
AnswerStands ==
    \A h \in Handlers :
        pc[h] = "reply" /\ job[h].ans.out = "RESULT" =>
            LET a == job[h].ans
                c == job[h].cmd
            IN  /\ txs[a.id].key = c.key \/ (c.msg # None /\ inbox[c.msg].id = a.id)
                /\ IsTerminal(a.status) => txs[a.id].status = a.status
                /\ a.status = "PROCESSED" => txs[a.id].result = a.balance
                /\ a.status = "PENDING_REFERENCE" => txs[a.id].status # "ABSENT"

\* A result answers the request that was made: a key reused for another payload
\* never gets the stored result of the first one.
AnswersTheRequest ==
    \A h \in Handlers :
        pc[h] = "reply" /\ job[h].ans.out = "RESULT" =>
            txs[job[h].ans.id].body = job[h].cmd.body

\* Some stored row or recorded message contradicts the command c.
Contradicted(c) ==
    \/ \E id \in TxIds : /\ Stored(id) /\ Collides(txs[id], [key |-> c.key, body |-> c.body])
                         /\ (txs[id].body # c.body \/ txs[id].key # c.key)
    \/ c.msg # None /\ inbox[c.msg].id # None /\ inbox[c.msg].body # c.body

\* A repeat of a recorded request is a clean replay: a conflict is only ever
\* reported when a stored row or a recorded message really disagrees with it.
NoFalseConflict ==
    \A h \in Handlers :
        pc[h] = "reply" /\ job[h].ans.out \in {"IDEMPOTENCY_CONFLICT",
                                             "OPERATION_IDENTITY_CONFLICT"} =>
            Contradicted(job[h].cmd)

\* A message whose handling succeeded is in the inbox, under the transaction it
\* was answered with: only then may the consumer delete it.
HandledMessagesAreRecorded ==
    \A h \in Handlers :
        pc[h] = "reply" /\ job[h].ans.out = "RESULT" /\ job[h].cmd.msg # None =>
            /\ inbox[job[h].cmd.msg].id = job[h].ans.id
            /\ inbox[job[h].cmd.msg].body = job[h].cmd.body

\* Two openings racing for one player and currency leave one wallet.
OneWalletPerSlot ==
    \A v, w \in Wallets : wallets[v].open /\ wallets[w].open /\ SameSlot(v, w) => v = w

\* A settled transaction is never written again, although the reference worker
\* loads it before it has any lock and recordPermanentFailure never takes one.
TerminalFrozen ==
    [][\A id \in AllIds : IsTerminal(txs[id].status) => txs'[id] = txs[id]]_vars

\* Every parked reversal is settled in the end: the reference arrives, or one of
\* the two budgets runs out.
ParkedEventuallySettle ==
    \A id \in TxIds : Parked(id) ~> IsTerminal(txs[id].status)
=============================================================================
