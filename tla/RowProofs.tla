----------------------------- MODULE RowProofs ------------------------------
(***************************************************************************)
(* RowInv is an invariant of Wagering, and with it: no settled transaction *)
(* is written again, no transaction is reversed twice, no slot gets two    *)
(* wallets, and what an answer says is what the tables hold.               *)
(*                                                                         *)
(* IInv is known before and after every step (NextKeeps), so only RowInv   *)
(* has to be shown.  A step that commits nothing disturbs nobody else      *)
(* (Quiet), and one lemma per action shows what it does to its own worker. *)
(* Commits, which settle one row nobody else is writing, are the subject   *)
(* of CommitProofs, and so are the theorems.                               *)
(***************************************************************************)
EXTENDS WageringProofs, FiniteSetTheorems

-----------------------------------------------------------------------------
(* The frame.                                                              *)

\* A step of x that touches no table and no other worker.
Quiet(x) ==
    /\ \A y \in Workers \ {x} : pc'[y] = pc[y] /\ job'[y] = job[y]
    /\ wallets' = wallets /\ txs' = txs /\ inbox' = inbox

\* What RowInv says of the tables reads nothing else.
LEMMA TablesQuiet ==
  ASSUME RowInv, wallets' = wallets, txs' = txs, inbox' = inbox
  PROVE  RowTables'
  <1>1. RowTables
    BY DEF RowInv
  <1>2. \A id \in AllIds : RowKept(id)'
    BY <1>1 DEF RowTables, RowKept, Stored, Parked
  <1>3. UniqueRows' /\ OneWalletPerSlot'
    BY <1>1 DEF RowTables, UniqueRows, OneWalletPerSlot, Stored
  <1> QED BY <1>1, <1>2, <1>3 DEF RowTables, IsReversal, Stored

\* A worker whose locals and tables stay the same keeps what RowInv says of it.
LEMMA WorkerQuiet ==
  ASSUME NEW y \in Workers, RowWorker(y), pc'[y] = pc[y], job'[y] = job[y],
         wallets' = wallets, txs' = txs, inbox' = inbox
  PROVE  RowWorker(y)'
  <1>1. About(y)'
    BY DEF RowWorker, About, Opens
  <1>2. Owns(y)'
    BY DEF RowWorker, Owns, Opens, Stored, Parked
  <1>3. Buffers(y)'
    BY DEF RowWorker, Buffers, Opens, Settles
  <1>4. Planned(y)'
    BY DEF RowWorker, Planned, Opens, Settles, HasSuccessfulReversal
  <1>5. Answered(y)'
    BY DEF RowWorker, Answered, Opens, Stands, Contradicted, Stored
  <1> QED BY <1>1, <1>2, <1>3, <1>4, <1>5 DEF RowWorker

\* A quiet step of x: its own new state, and how it stands to the others, are all
\* there is to check.
LEMMA QuietKeeps ==
  ASSUME RowInv, NEW x \in Workers, Quiet(x), RowWorker(x)',
         \A y \in Workers \ {x} : Apart(x, y)' /\ Apart(y, x)'
  PROVE  RowInv'
  <1>1. RowTables'
    BY TablesQuiet DEF Quiet
  <1>2. \A y \in Workers : RowWorker(y)'
    BY WorkerQuiet DEF Quiet, RowInv
  <1>3. ASSUME NEW y \in Workers, NEW z \in Workers, y # z PROVE Apart(y, z)'
    <2>1. CASE y = x \/ z = x
      BY <1>3, <2>1
    <2>2. CASE y # x /\ z # x
      <3>1. Apart(y, z) /\ pc'[y] = pc[y] /\ job'[y] = job[y] /\ pc'[z] = pc[z] /\ job'[z] = job[z]
        BY <1>3, <2>2 DEF RowInv, Quiet
      <3> QED BY <3>1 DEF Apart, Opens
    <2> QED BY <2>1, <2>2
  <1> QED BY <1>1, <1>2, <1>3 DEF RowInv

\* A worker that has saved no row and no message is apart from everyone, unless it
\* takes the id of an insert under way.
LEMMA UnsavedApart ==
  ASSUME RowInv, NEW x \in Workers, Quiet(x),
         pc'[x] \notin AfterSave \/ job'[x].mode = None, ~job'[x].inboxed,
         ~(Opens(x)' /\ pc'[x] = "commit"),
         \A y \in Workers \ {x} : pc[y] \in AfterSave /\ job[y].mode = "insert" => job'[x].id # job[y].id
  PROVE  \A y \in Workers \ {x} : Apart(x, y)' /\ Apart(y, x)'
  BY DEF Quiet, Apart, AfterSave, None

\* A worker keeps its id, and nobody who inserts a row has that id.
LEMMA IdKept ==
  ASSUME RowInv, NEW x \in Workers, job'[x].id = job[x].id
  PROVE  \A y \in Workers \ {x} : pc[y] \in AfterSave /\ job[y].mode = "insert" => job'[x].id # job[y].id
  BY DEF RowInv, Apart

-----------------------------------------------------------------------------
(* How a unit of work ends.                                                *)

\* Worker x has nothing in hand any more.
Empty(x) ==
    /\ job'[x].writes = NoWrites /\ job'[x].inboxed = FALSE
    /\ job'[x].mode = None /\ job'[x].id = None
    /\ pc'[x] \in RestPCs

\* A worker with nothing in hand promises nothing but its answer.
LEMMA EmptyWorker ==
  ASSUME NEW x \in Workers, Empty(x), x \in Handlers => pc'[x] \in {"idle", "reply"},
         pc'[x] = "idle" => job'[x].cmd = NoCmd, Answered(x)'
  PROVE  RowWorker(x)'
  <1> USE DEF Empty, RestPCs, AfterSave, LockedPCs
  <1>1. None \notin {"insert", "update", "attempt"} /\ None \notin Wallets
    BY WageringAssumption DEF None, AllIds
  <1>2. About(x)'
    BY <1>1 DEF About, Opens
  <1>3. Owns(x)'
    BY <1>1 DEF Owns
  <1>4. Buffers(x)'
    BY DEF Buffers
  <1>5. Planned(x)'
    BY DEF Planned
  <1> QED BY <1>2, <1>3, <1>4, <1>5 DEF RowWorker

\* It is apart from everyone.
LEMMA EmptyApart ==
  ASSUME RowInv, NEW x \in Workers, Quiet(x), Empty(x)
  PROVE  \A y \in Workers \ {x} : Apart(x, y)' /\ Apart(y, x)'
  <1>1. \A y \in Workers \ {x} : pc[y] \in AfterSave /\ job[y].mode = "insert" => job'[x].id # job[y].id
    BY WageringAssumption DEF RowInv, RowWorker, Owns, Empty
  <1> QED BY <1>1, UnsavedApart DEF Empty, RestPCs, AfterSave

\* Coming to rest without a commit keeps RowInv if the answer is right.
LEMMA EmptyKeeps ==
  ASSUME RowInv, NEW x \in Workers, Quiet(x), Empty(x),
         x \in Handlers => pc'[x] \in {"idle", "reply"},
         pc'[x] = "idle" => job'[x].cmd = NoCmd, Answered(x)'
  PROVE  RowInv'
  BY EmptyWorker, EmptyApart, QuietKeeps

\* Only a result or a conflict says anything about the tables.
LEMMA OtherAnswers ==
  ASSUME NEW x \in Workers, Empty(x),
         x \in Handlers => \/ pc'[x] = "idle"
                           \/ job'[x].ans.out \notin {"RESULT", "IDEMPOTENCY_CONFLICT",
                                                      "OPERATION_IDENTITY_CONFLICT"}
  PROVE  Answered(x)'
  BY DEF Answered, Empty, RestPCs, AfterSave, None

\* What AnswerWith leaves.
LEMMA AnswerLeaves ==
  ASSUME IInv, NEW h \in Handlers, NEW a, AnswerWith(h, a)
  PROVE  /\ Empty(h) /\ pc'[h] = "reply" /\ job'[h].cmd = job[h].cmd /\ job'[h].ans = a
         /\ \A y \in Workers \ {h} : pc'[y] = pc[y] /\ job'[y] = job[y]
  <1> DEFINE j == [IdleJob EXCEPT !.cmd = job[h].cmd, !.ans = a]
  <1>1. /\ j.writes = NoWrites /\ j.inboxed = FALSE /\ j.mode = None /\ j.id = None
        /\ j.cmd = job[h].cmd /\ j.ans = a
    BY DEF IdleJob
  <1>2. h \in Workers /\ job \in [Workers -> Jobs] /\ pc \in [Workers -> PCs]
    BY DEF Workers, IInv, TypeOK
  <1>3. job' = [job EXCEPT ![h] = j] /\ pc' = [pc EXCEPT ![h] = "reply"]
    BY DEF AnswerWith
  <1> HIDE DEF j
  <1>4. job'[h] = j /\ pc'[h] = "reply" /\ \A y \in Workers \ {h} : pc'[y] = pc[y] /\ job'[y] = job[y]
    BY <1>2, <1>3
  <1> QED BY <1>1, <1>4 DEF Empty, RestPCs

\* What NextRecord leaves.
LEMMA NextRecordLeaves ==
  ASSUME IInv, NEW r \in Resolvers, NextRecord(r)
  PROVE  /\ Empty(r) /\ pc'[r] = "next"
         /\ \A y \in Workers \ {r} : pc'[y] = pc[y] /\ job'[y] = job[y]
  <1> DEFINE j == [IdleJob EXCEPT !.batch = job[r].batch]
  <1>1. j.writes = NoWrites /\ j.inboxed = FALSE /\ j.mode = None /\ j.id = None
    BY DEF IdleJob
  <1>2. r \in Workers /\ job \in [Workers -> Jobs] /\ pc \in [Workers -> PCs]
    BY DEF Workers, IInv, TypeOK
  <1>3. job' = [job EXCEPT ![r] = j] /\ pc' = [pc EXCEPT ![r] = "next"]
    BY DEF NextRecord
  <1> HIDE DEF j
  <1>4. job'[r] = j /\ pc'[r] = "next" /\ \A y \in Workers \ {r} : pc'[y] = pc[y] /\ job'[y] = job[y]
    BY <1>2, <1>3
  <1> QED BY <1>1, <1>4 DEF Empty, RestPCs

\* What an error leaves.
LEMMA AbandonLeaves ==
  ASSUME IInv, NEW x \in Workers, NEW code, Abandon(x, code)
  PROVE  /\ Empty(x) /\ pc'[x] # "idle"
         /\ \A y \in Workers \ {x} : pc'[y] = pc[y] /\ job'[y] = job[y]
         /\ x \in Handlers => /\ pc'[x] = "reply" /\ job'[x].ans.out = code
                              /\ job'[x].cmd = job[x].cmd
  <1>1. CASE x \in Handlers
    <2>1. AnswerWith(x, Error(code))
      BY <1>1 DEF Abandon
    <2>2. Error(code).out = code
      BY DEF Error, NoAns
    <2> QED BY <1>1, <2>1, <2>2, AnswerLeaves
  <1>2. CASE x \in Resolvers /\ NextRecord(x)
    BY <1>2, NextRecordLeaves, WageringAssumption
  <1>3. CASE x \in Resolvers /\ ~NextRecord(x)
    <2> DEFINE j == [IdleJob EXCEPT !.batch = job[x].batch, !.rec = job[x].rec, !.failing = TRUE]
    <2>1. j.writes = NoWrites /\ j.inboxed = FALSE /\ j.mode = None /\ j.id = None
      BY DEF IdleJob
    <2>2. x \notin Handlers /\ job \in [Workers -> Jobs] /\ pc \in [Workers -> PCs]
      BY <1>3, WageringAssumption DEF IInv, TypeOK
    <2>3. job' = [job EXCEPT ![x] = j] /\ pc' = [pc EXCEPT ![x] = "failLoad"]
      BY <1>3, <2>2 DEF Abandon
    <2> HIDE DEF j
    <2>4. job'[x] = j /\ pc'[x] = "failLoad"
          /\ \A y \in Workers \ {x} : pc'[y] = pc[y] /\ job'[y] = job[y]
      BY <2>2, <2>3
    <2> QED BY <2>1, <2>2, <2>4 DEF Empty, RestPCs
  <1> QED BY <1>1, <1>2, <1>3 DEF Workers

\* An error other than a conflict keeps RowInv.
LEMMA AbandonKeeps ==
  ASSUME IInv, RowInv, NEW x \in Workers, NEW code, Abandon(x, code), UNCHANGED tables,
         code \notin {"RESULT", "IDEMPOTENCY_CONFLICT", "OPERATION_IDENTITY_CONFLICT"}
  PROVE  RowInv'
  <1>1. Quiet(x) /\ Empty(x) /\ pc'[x] # "idle" /\ (x \in Handlers => pc'[x] = "reply")
    BY AbandonLeaves DEF Quiet, tables
  <1>2. Answered(x)'
    BY <1>1, AbandonLeaves, OtherAnswers
  <1> QED BY <1>1, <1>2, EmptyKeeps

\* An answer that says nothing about the tables keeps RowInv.
LEMMA AnswerKeeps ==
  ASSUME IInv, RowInv, NEW h \in Handlers, NEW a, AnswerWith(h, a), UNCHANGED tables,
         Answered(h)'
  PROVE  RowInv'
  <1>1. h \in Workers
    BY DEF Workers
  <1>2. Quiet(h) /\ Empty(h) /\ pc'[h] = "reply"
    BY AnswerLeaves DEF Quiet, tables
  <1> QED BY <1>1, <1>2, EmptyKeeps

\* Moving on to the next record keeps RowInv.
LEMMA NextRecordKeeps ==
  ASSUME IInv, RowInv, NEW r \in Resolvers, NextRecord(r), UNCHANGED tables
  PROVE  RowInv'
  <1>1. r \in Workers /\ r \notin Handlers
    BY WageringAssumption DEF Workers
  <1>2. Quiet(r) /\ Empty(r) /\ pc'[r] # "idle"
    BY NextRecordLeaves DEF Quiet, tables
  <1>3. Answered(r)'
    BY <1>1 DEF Answered
  <1> QED BY <1>1, <1>2, <1>3, EmptyKeeps

-----------------------------------------------------------------------------
(* A handler up to its decision.                                           *)

EarlyPCs == {"fast", "lock", "inbox", "key", "identity"}

\* Before it decides, a handler has a command and nothing in hand.
LEMMA Early ==
  ASSUME IInv, RowInv, NEW h \in Handlers, pc[h] \in EarlyPCs
  PROVE  /\ h \in Workers /\ h \notin Resolvers /\ job[h] \in Jobs /\ job[h].cmd \in Commands
         /\ ~Opens(h) /\ job[h].wid = job[h].cmd.body.wallet /\ job[h].mode = None
         /\ job[h].writes = NoWrites /\ job[h].inboxed = FALSE /\ job[h].id \notin Wallets
         /\ job[h].failing = FALSE
         /\ pc[h] \in LockedPCs => Accounts[job[h].wid].player = job[h].cmd.body.player
  <1>1. h \in Workers /\ h \notin Resolvers
    BY WageringAssumption DEF Workers
  <1>2. Shape(h) /\ About(h) /\ Owns(h) /\ Buffers(h) /\ job[h] \in Jobs
    BY <1>1 DEF IInv, TypeOK, WorkerInv, RowInv, RowWorker
  <1>3. job[h].cmd \in Commands /\ job[h].mode = None /\ ~job[h].failing
    BY <1>2 DEF Shape, EarlyPCs
  <1>4. ~Opens(h)
    BY <1>3, NoCmdIsNone DEF Opens
  <1>5. job[h].writes = NoWrites
    BY <1>2 DEF Buffers, EarlyPCs, AfterSave
  <1>6. ~job[h].inboxed /\ job[h].id \notin Wallets
    BY <1>2, <1>4 DEF Owns, EarlyPCs
  <1>7. job[h].inboxed = FALSE /\ job[h].failing = FALSE
    BY <1>2, <1>3, <1>6 DEF Jobs
  <1> QED BY <1>1, <1>2, <1>3, <1>4, <1>5, <1>6, <1>7 DEF About, EarlyPCs

\* A step that leaves a handler in that position keeps RowInv.
LEMMA EarlyKeeps ==
  ASSUME RowInv, NEW h \in Handlers, Quiet(h), pc'[h] \in EarlyPCs,
         job'[h].cmd \in Commands, job'[h].wid = job'[h].cmd.body.wallet,
         job'[h].mode = None, job'[h].writes = NoWrites, job'[h].inboxed = FALSE,
         job'[h].failing = FALSE, job'[h].id \notin Wallets, job'[h].id \in {None, job[h].id},
         pc'[h] \in LockedPCs => Accounts[job'[h].wid].player = job'[h].cmd.body.player,
         pc'[h] = "identity" =>
            \A i \in TxIds : Stored(i) /\ txs[i].key = job'[h].cmd.key => txs[i].body.wallet # job'[h].wid
  PROVE  RowInv'
  <1>1. h \in Workers /\ h \notin Resolvers /\ ~Opens(h)' /\ pc'[h] \notin AfterSave
    BY WageringAssumption, NoCmdIsNone DEF Workers, Opens, EarlyPCs, AfterSave
  <1>2. None \notin {"insert", "update", "attempt"} /\ None \notin AllIds
    BY WageringAssumption DEF None
  <1>3. About(h)'
    BY <1>1, <1>2 DEF About, EarlyPCs
  <1>4. Owns(h)'
    BY <1>1, <1>2 DEF Owns
  <1>5. Buffers(h)'
    BY <1>1, <1>2 DEF Buffers, AfterSave
  <1>6. Planned(h)'
    BY <1>1, <1>2 DEF Planned, Settles
  <1>7. Answered(h)'
    BY <1>1, <1>2 DEF Answered, EarlyPCs, Quiet, Stored, AfterSave
  <1>8. \A y \in Workers \ {h} : Apart(h, y)' /\ Apart(y, h)'
    <2>1. \A y \in Workers \ {h} : pc[y] \in AfterSave /\ job[y].mode = "insert" => job'[h].id # job[y].id
      BY <1>1, <1>2 DEF RowInv, Apart, RowWorker, Owns
    <2> QED BY <1>1, <2>1, UnsavedApart
  <1> QED BY <1>1, <1>3, <1>4, <1>5, <1>6, <1>7, <1>8, QuietKeeps DEF RowWorker

\* The row of an opening has neither a key nor a provider.
LEMMA OpeningRows ==
  ASSUME RowInv, NEW w \in Wallets, Stored(w)
  PROVE  txs[w] = NewOpening(w, Accounts[w]) /\ txs[w].key = None /\ txs[w].body.provider = None
  <1>1. txs[w] = NewOpening(w, Accounts[w])
    BY DEF RowInv, RowTables, RowKept, AllIds
  <1>2. NewOpening(w, Accounts[w]).key = None
    BY DEF NewOpening
  <1>3. NewOpening(w, Accounts[w]).body.provider = None
    BY DEF NewOpening, OpeningBody, NoBody
  <1> QED BY <1>1, <1>2, <1>3

\* What the lookup by key finds is a provider's transaction with that key.
LEMMA KeyLookup ==
  ASSUME RowInv, NEW key, key # None
  PROVE  LET id == GetByIdempotencyKey(key)
         IN  /\ id = None => \A i \in AllIds : Stored(i) => txs[i].key # key
             /\ id # None => id \in TxIds /\ Stored(id) /\ txs[id].key = key
  <1>1. \A w \in Wallets : Stored(w) => txs[w].key = None
    BY OpeningRows
  <1>2. CASE \E i \in AllIds : Stored(i) /\ txs[i].key = key
    BY <1>1, <1>2, WageringAssumption DEF GetByIdempotencyKey, AllIds
  <1>3. CASE ~ \E i \in AllIds : Stored(i) /\ txs[i].key = key
    BY <1>3 DEF GetByIdempotencyKey
  <1> QED BY <1>2, <1>3

\* What the lookup by identity finds is a provider's transaction with that identity.
LEMMA IdentityLookup ==
  ASSUME RowInv, NEW p, NEW e, p # None
  PROVE  LET id == GetByProviderExternalID(p, e)
         IN  /\ id = None => \A i \in AllIds : Stored(i) => ~(txs[i].body.provider = p /\ txs[i].body.ext = e)
             /\ id # None => id \in TxIds /\ Stored(id) /\ txs[id].body.provider = p /\ txs[id].body.ext = e
  <1>1. \A w \in Wallets : Stored(w) => txs[w].body.provider = None
    BY OpeningRows
  <1>2. CASE \E i \in AllIds : Stored(i) /\ txs[i].body.provider = p /\ txs[i].body.ext = e
    BY <1>1, <1>2, WageringAssumption DEF GetByProviderExternalID, AllIds
  <1>3. CASE ~ \E i \in AllIds : Stored(i) /\ txs[i].body.provider = p /\ txs[i].body.ext = e
    BY <1>3 DEF GetByProviderExternalID
  <1> QED BY <1>2, <1>3

\* A request arrives.
LEMMA SubmitRows ==
  ASSUME IInv, RowInv, NEW h \in Handlers, NEW c \in Commands, Submit(h, c)
  PROVE  RowInv'
  <1> DEFINE j == [IdleJob EXCEPT !.cmd = c, !.wid = c.body.wallet]
  <1>1. j.cmd = c /\ j.wid = c.body.wallet /\ j.mode = None /\ j.writes = NoWrites
        /\ j.inboxed = FALSE /\ j.failing = FALSE /\ j.id = None
    BY DEF IdleJob
  <1>2. h \in Workers /\ job \in [Workers -> Jobs] /\ pc \in [Workers -> PCs]
    BY DEF Workers, IInv, TypeOK
  <1>3. job' = [job EXCEPT ![h] = j] /\ pc' = [pc EXCEPT ![h] = "fast"] /\ UNCHANGED tables
    BY DEF Submit, Goto
  <1> HIDE DEF j
  <1>4. job'[h] = j /\ pc'[h] = "fast" /\ Quiet(h)
    BY <1>2, <1>3 DEF Quiet, tables
  <1>5. None \notin Wallets
    BY WageringAssumption DEF AllIds
  <1> QED BY <1>1, <1>4, <1>5, EarlyKeeps DEF EarlyPCs, LockedPCs

\* An early step that only moves the handler on.
LEMMA MoveOnRows ==
  ASSUME IInv, RowInv, NEW h \in Handlers, pc[h] \in EarlyPCs, NEW l \in EarlyPCs,
         Goto(h, l), UNCHANGED <<tables, job>>,
         l \in LockedPCs => pc[h] \in LockedPCs,
         l = "identity" =>
            \A i \in TxIds : Stored(i) /\ txs[i].key = job[h].cmd.key => txs[i].body.wallet # job[h].wid
  PROVE  RowInv'
  <1>1. job'[h] = job[h] /\ pc'[h] = l /\ Quiet(h)
    BY Early DEF Goto, Quiet, tables, IInv, TypeOK
  <1> QED BY <1>1, Early, EarlyKeeps

\* A conflict is reported against a row that has the key or the identity.
LEMMA ConflictRows ==
  ASSUME IInv, RowInv, NEW h \in Handlers, Contradicted(job[h].cmd), UNCHANGED tables,
         Quiet(h), Empty(h), pc'[h] = "reply", job'[h].cmd = job[h].cmd,
         job'[h].ans.out # "RESULT"
  PROVE  RowInv'
  <1>1. h \in Workers
    BY DEF Workers
  <1>2. Contradicted(job[h].cmd)'
    BY DEF Contradicted, Stored, tables
  <1>3. Answered(h)'
    BY <1>2 DEF Answered, Empty, AfterSave, None
  <1> QED BY <1>1, <1>3, EmptyKeeps

\* A row with the key and another payload contradicts the command.
LEMMA KeyConflict ==
  ASSUME RowInv, NEW c \in Commands,
         LET id == GetByIdempotencyKey(c.key) IN id # None /\ ~SameHash(txs[id], c)
  PROVE  Contradicted(c)
  <1>1. c.key # None
    BY WageringAssumption
  <1> QED BY <1>1, KeyLookup DEF Contradicted, Collides, SameHash

\* The answer of a replay is the row as it is stored.
LEMMA ReplayStands ==
  ASSUME NEW id
  PROVE  LET a == replayResult(id)
         IN  a.out = "RESULT" /\ a.id = id /\ a.status = txs[id].status /\ a.balance = txs[id].result
  BY DEF replayResult

\* fastReplay: a settled repeat, a conflict, or nothing yet.
LEMMA FastReplayRows ==
  ASSUME IInv, RowInv, NEW h \in Handlers, FastReplay(h)
  PROVE  RowInv'
  <1> DEFINE c  == job[h].cmd
             id == GetByIdempotencyKey(c.key)
  <1>1. pc[h] = "fast" /\ UNCHANGED tables
    BY DEF FastReplay
  <1>2. h \in Workers /\ c \in Commands /\ c.key # None /\ ~Opens(h)
    BY <1>1, Early, WageringAssumption DEF EarlyPCs
  <1>3. CASE Goto(h, "lock") /\ UNCHANGED job
    BY <1>1, <1>3, MoveOnRows DEF EarlyPCs, LockedPCs
  <1>4. CASE id # None /\ ~SameHash(txs[id], c) /\ AnswerWith(h, Error("IDEMPOTENCY_CONFLICT"))
    <2>1. Contradicted(c)
      BY <1>2, <1>4, KeyConflict
    <2>2. Error("IDEMPOTENCY_CONFLICT").out # "RESULT"
      BY DEF Error, NoAns
    <2>3. Quiet(h) /\ Empty(h) /\ pc'[h] = "reply" /\ job'[h].cmd = c
          /\ job'[h].ans = Error("IDEMPOTENCY_CONFLICT")
      BY <1>1, <1>4, AnswerLeaves DEF Quiet, tables
    <2> QED BY <1>1, <2>1, <2>2, <2>3, ConflictRows
  <1>5. CASE id # None /\ c.msg = None /\ AnswerWith(h, replayResult(id))
    <2>1. id \in TxIds /\ Stored(id) /\ txs[id].key = c.key
      BY <1>2, <1>5, KeyLookup
    <2>2. Empty(h) /\ pc'[h] = "reply" /\ job'[h].cmd = c /\ job'[h].ans = replayResult(id)
      BY <1>5, AnswerLeaves
    <2>3. Stands(h)'
      BY <1>1, <2>1, <2>2, ReplayStands DEF Stands, Stored, tables
    <2>4. Answered(h)'
      BY <1>5, <2>2, <2>3, ReplayStands DEF Answered, AfterSave, None, Empty
    <2> QED BY <1>1, <1>5, <2>4, AnswerKeeps
  <1> QED BY <1>3, <1>4, <1>5 DEF FastReplay

\* GetForUpdate: an error, or the wallet of the command's player.
LEMMA GetForUpdateRows ==
  ASSUME IInv, RowInv, NEW h \in Handlers, GetForUpdate(h)
  PROVE  RowInv'
  <1> DEFINE w == job[h].wid
             l == IF job[h].cmd.msg = None THEN "key" ELSE "inbox"
  <1>1. pc[h] = "lock" /\ UNCHANGED tables /\ pc[h] \in EarlyPCs
    BY DEF GetForUpdate, EarlyPCs
  <1>2. ASSUME NEW code \in {"NOT_FOUND", "WALLET_MISMATCH"}, AnswerWith(h, Error(code)) PROVE RowInv'
    <2>1. Empty(h) /\ job'[h].ans = Error(code)
      BY <1>2, AnswerLeaves
    <2>2. Error(code).out = code
      BY DEF Error, NoAns
    <2>3. Answered(h)'
      BY <1>2, <2>1, <2>2, OtherAnswers DEF Workers
    <2> QED BY <1>1, <1>2, <2>3, AnswerKeeps
  <1>3. CASE /\ Accounts[w].player = job[h].cmd.body.player
             /\ job' = [job EXCEPT ![h].seen = wallets[w]] /\ Goto(h, l)
    <2> DEFINE j == [job[h] EXCEPT !.seen = wallets[w]]
    <2>1. job[h] \in Jobs /\ h \in Workers
      BY <1>1, Early
    <2>2. j.cmd = job[h].cmd /\ j.wid = w /\ j.mode = job[h].mode /\ j.writes = job[h].writes
          /\ j.inboxed = job[h].inboxed /\ j.failing = job[h].failing /\ j.id = job[h].id
      BY <2>1 DEF Jobs
    <2>3. job' = [job EXCEPT ![h] = j] /\ pc' = [pc EXCEPT ![h] = l]
      BY <1>3 DEF Goto
    <2> HIDE DEF j
    <2>4. job'[h] = j /\ pc'[h] = l /\ Quiet(h)
      BY <1>1, <2>1, <2>3 DEF Quiet, tables, IInv, TypeOK
    <2> QED BY <1>1, <1>3, <2>2, <2>4, Early, EarlyKeeps DEF EarlyPCs
  <1> QED BY <1>2, <1>3 DEF GetForUpdate

\* A repeat found inside the unit of work: the row it reports is stored, and its
\* message is recorded, or will be under the row of its own key.
LEMMA ReplayRows ==
  ASSUME IInv, RowInv, NEW h \in Handlers, pc[h] \in {"inbox", "key", "identity"},
         NEW id \in TxIds, Stored(id), NEW record \in BOOLEAN, Replay(h, id, record),
         UNCHANGED tables,
         IF record THEN txs[id].key = job[h].cmd.key
         ELSE /\ job[h].cmd.msg # None /\ inbox[job[h].cmd.msg].id = id
              /\ inbox[job[h].cmd.msg].body = job[h].cmd.body
  PROVE  RowInv'
  <1> DEFINE c == job[h].cmd
             j == [job[h] EXCEPT !.ans = replayResult(id)]
             l == IF record /\ c.msg # None THEN "recordInbox" ELSE "commit"
  <1>1. pc[h] \in EarlyPCs /\ pc[h] \in LockedPCs /\ l \in {"recordInbox", "commit"}
    BY DEF EarlyPCs, LockedPCs
  <1>2. job[h] \in Jobs /\ h \in Workers /\ h \notin Resolvers /\ ~Opens(h)
    BY <1>1, Early
  <1>3. /\ j.cmd = c /\ j.wid = job[h].wid /\ j.mode = None /\ j.writes = NoWrites
        /\ j.inboxed = FALSE /\ j.failing = FALSE /\ j.id = job[h].id /\ j.ans = replayResult(id)
    BY <1>1, <1>2, Early DEF Jobs
  <1>4. job' = [job EXCEPT ![h] = j] /\ pc' = [pc EXCEPT ![h] = l]
    BY DEF Replay, Goto
  <1> HIDE DEF j
  <1>5. job'[h] = j /\ pc'[h] = l /\ Quiet(h)
    BY <1>2, <1>4 DEF Quiet, tables, IInv, TypeOK
  <1>6. ~Opens(h)' /\ None \notin {"insert", "update", "attempt"}
    BY <1>2, <1>3, <1>5 DEF Opens, None
  <1>7. About(h)'
    BY <1>1, <1>2, <1>3, <1>5, <1>6, Early DEF About, LockedPCs
  <1>8. Owns(h)'
    BY <1>1, <1>3, <1>5, <1>6, Early DEF Owns
  <1>9. Buffers(h)' /\ Planned(h)'
    BY <1>1, <1>3, <1>5, <1>6 DEF Buffers, Planned, Settles
  <1>10. Answered(h)'
    <2>1. Stands(h)'
      BY <1>3, <1>5, ReplayStands DEF Stands, Stored, tables
    <2>2. replayResult(id).out = "RESULT" /\ replayResult(id).id = id
      BY ReplayStands
    <2> QED BY <1>1, <1>3, <1>5, <1>6, <2>1, <2>2 DEF Answered, AfterSave, tables
  <1>11. \A y \in Workers \ {h} : Apart(h, y)' /\ Apart(y, h)'
    BY <1>2, <1>3, <1>5, <1>6, IdKept, UnsavedApart
  <1> QED BY <1>2, <1>5, <1>7, <1>8, <1>9, <1>10, <1>11, QuietKeeps DEF RowWorker

\* The inbox lookup.
LEMMA ReadInboxRows ==
  ASSUME IInv, RowInv, NEW h \in Handlers, ReadInbox(h)
  PROVE  RowInv'
  <1> DEFINE c   == job[h].cmd
             rec == inbox[c.msg]
  <1>1. pc[h] = "inbox" /\ UNCHANGED tables /\ pc[h] \in EarlyPCs
    BY DEF ReadInbox, EarlyPCs
  <1>2. c \in Commands /\ h \in Workers /\ c.msg \in Messages /\ c.msg # None
    <2>1. Shape(h) /\ h \in Workers
      BY DEF Workers, IInv, WorkerInv
    <2> QED BY <1>1, <2>1, Early, WageringAssumption DEF Shape
  <1>3. CASE Goto(h, "key") /\ UNCHANGED job
    BY <1>1, <1>3, MoveOnRows DEF EarlyPCs, LockedPCs
  <1>4. CASE rec.id # None /\ rec.body # c.body /\ Abandon(h, "IDEMPOTENCY_CONFLICT")
    <2>1. Contradicted(c)
      BY <1>2, <1>4 DEF Contradicted
    <2>2. Quiet(h) /\ Empty(h) /\ pc'[h] = "reply" /\ job'[h].cmd = c
          /\ job'[h].ans.out = "IDEMPOTENCY_CONFLICT"
      BY <1>1, <1>2, <1>4, AbandonLeaves DEF Quiet, tables
    <2> QED BY <1>1, <2>1, <2>2, ConflictRows
  <1>5. CASE rec.id # None /\ rec.body = c.body /\ Replay(h, rec.id, FALSE)
    <2>1. rec.id \in TxIds /\ Stored(rec.id)
      BY <1>2, <1>5 DEF RowInv, RowTables
    <2> QED BY <1>1, <1>2, <1>5, <2>1, ReplayRows
  <1> QED BY <1>3, <1>4, <1>5 DEF ReadInbox

\* The key lookup inside the unit of work.
LEMMA ReadKeyRows ==
  ASSUME IInv, RowInv, NEW h \in Handlers, ReadKey(h)
  PROVE  RowInv'
  <1> DEFINE c  == job[h].cmd
             id == GetByIdempotencyKey(c.key)
  <1>1. pc[h] = "key" /\ UNCHANGED tables /\ pc[h] \in EarlyPCs
    BY DEF ReadKey, EarlyPCs
  <1>2. c \in Commands /\ h \in Workers /\ c.key # None
    BY <1>1, Early, WageringAssumption
  <1>3. CASE id = None /\ Goto(h, "identity") /\ UNCHANGED job
    <2>1. \A i \in TxIds : ~(Stored(i) /\ txs[i].key = c.key)
      BY <1>2, <1>3, KeyLookup DEF AllIds
    <2> QED BY <1>1, <1>3, <2>1, MoveOnRows DEF EarlyPCs, LockedPCs
  <1>4. CASE id # None /\ ~SameHash(txs[id], c) /\ Abandon(h, "IDEMPOTENCY_CONFLICT")
    <2>1. Contradicted(c)
      BY <1>2, <1>4, KeyConflict
    <2>2. Quiet(h) /\ Empty(h) /\ pc'[h] = "reply" /\ job'[h].cmd = c
          /\ job'[h].ans.out = "IDEMPOTENCY_CONFLICT"
      BY <1>1, <1>2, <1>4, AbandonLeaves DEF Quiet, tables
    <2> QED BY <1>1, <2>1, <2>2, ConflictRows
  <1>5. CASE id # None /\ Replay(h, id, TRUE)
    <2>1. id \in TxIds /\ Stored(id) /\ txs[id].key = c.key
      BY <1>2, <1>5, KeyLookup
    <2> QED BY <1>1, <1>5, <2>1, ReplayRows
  <1> QED BY <1>3, <1>4, <1>5 DEF ReadKey

-----------------------------------------------------------------------------
(* From the decision to the save.                                          *)

\* A row is a request's, or a parked one, whatever it is linked to.
LEMMA Relinked ==
  ASSUME NEW row \in Rows, NEW ref \in Ids
  PROVE  LET r == [row EXCEPT !.refId = ref]
         IN  /\ r \in Rows /\ Unlinked(r) = Unlinked(row) /\ r.refId = ref
             /\ r.key = row.key /\ r.body = row.body /\ r.status = row.status
             /\ r.failure = row.failure /\ r.result = row.result
  BY DEF Rows, Unlinked

\* What the row of a request says.
LEMMA RequestRow ==
  ASSUME NEW row \in Rows, NEW k, NEW b, Unlinked(row) = NewExternal(k, b)
  PROVE  row.key = k /\ row.body = b /\ row.status = "PENDING" /\ row.failure = None
         /\ row.result = NoBalance
  <1>1. /\ row.key = Unlinked(row).key /\ row.body = Unlinked(row).body
        /\ row.status = Unlinked(row).status /\ row.failure = Unlinked(row).failure
        /\ row.result = Unlinked(row).result
    BY DEF Unlinked, Rows
  <1> QED BY <1>1 DEF NewExternal

\* What the row of a claim says.
LEMMA ParkedRow ==
  ASSUME NEW row \in Rows, Waiting(Unlinked(row))
  PROVE  /\ row.status = "PENDING_REFERENCE" /\ RequiresReference(row.body.kind)
         /\ row.failure = None /\ row.result = NoBalance
         /\ row.body.currency = Accounts[row.body.wallet].currency
  <1>1. /\ row.key = Unlinked(row).key /\ row.body = Unlinked(row).body
        /\ row.status = Unlinked(row).status /\ row.failure = Unlinked(row).failure
        /\ row.result = Unlinked(row).result
    BY DEF Unlinked, Rows
  <1> QED BY <1>1 DEF Waiting

\* A step before the save: what the worker plans and has found is all to check.
LEMMA UnsavedKeeps ==
  ASSUME RowInv, NEW x \in Workers, Quiet(x), pc'[x] \notin AfterSave,
         job'[x].writes = NoWrites, job'[x].inboxed = FALSE, job'[x].id \notin Wallets,
         \A y \in Workers \ {x} : pc[y] \in AfterSave /\ job[y].mode = "insert" => job'[x].id # job[y].id,
         About(x)', Planned(x)', Answered(x)'
  PROVE  RowInv'
  <1>1. Owns(x)'
    BY DEF Owns, AfterSave
  <1>2. Buffers(x)'
    BY DEF Buffers, AfterSave
  <1>3. \A y \in Workers \ {x} : Apart(x, y)' /\ Apart(y, x)'
    BY UnsavedApart DEF AfterSave
  <1> QED BY <1>1, <1>2, <1>3, QuietKeeps DEF RowWorker

DecisionPCs == {"decide", "reversal", "save"}

\* Between the lookups and the save a worker has its row, its wallet, and no writes.
LEMMA Deciding ==
  ASSUME IInv, RowInv, NEW x \in Workers, pc[x] \in DecisionPCs
  PROVE  /\ job[x] \in Jobs /\ job[x].row \in Rows /\ ~Opens(x) /\ job[x].failing = FALSE
         /\ job[x].writes = NoWrites /\ job[x].inboxed = FALSE /\ job[x].id \notin Wallets
         /\ job[x].mode \in {"insert", "update", "attempt"} /\ job[x].wid = job[x].row.body.wallet
         /\ pc[x] # "save" => job[x].mode # "attempt" /\ Settles(x)
         /\ x \in Handlers => /\ job[x].mode = "insert" /\ job[x].cmd \in Commands
                              /\ job[x].row.body = job[x].cmd.body /\ job[x].row.key = job[x].cmd.key
                              /\ job[x].row.status = "PENDING"
         /\ x \in Resolvers => /\ job[x].mode # "insert" /\ job[x].id \in TxIds
                               /\ job[x].cmd = NoCmd
                               /\ job[x].row.status = "PENDING_REFERENCE"
                               /\ RequiresReference(job[x].row.body.kind)
                               /\ job[x].row.body = txs[job[x].id].body
                               /\ job[x].row.body.currency = Accounts[job[x].wid].currency
  <1>1. pc[x] \in LockedPCs \ {"commit"} /\ pc[x] \notin AfterSave
    BY DEF DecisionPCs, LockedPCs, AfterSave
  <1>2. job[x] \in Jobs /\ Shape(x) /\ ~Opens(x) /\ ~job[x].failing
    BY <1>1, Busy
  <1>3. About(x) /\ Owns(x) /\ Buffers(x)
    BY DEF RowInv, RowWorker
  <1>4. job[x].row \in Rows /\ job[x].writes = NoWrites /\ job[x].id \notin Wallets
    BY <1>1, <1>2, <1>3 DEF Shape, DecisionPCs, Buffers, Owns
  <1>5. job[x].inboxed = FALSE /\ job[x].failing = FALSE
    BY <1>1, <1>2, <1>3 DEF Owns, Jobs, AfterSave
  <1>6. CASE x \in Handlers
    <2>1. x \notin Resolvers /\ job[x].cmd \in Commands
      BY <1>1, <1>6, WageringAssumption, Busy
    <2>2. job[x].mode = "insert" /\ job[x].wid = job[x].cmd.body.wallet
          /\ Unlinked(job[x].row) = NewExternal(job[x].cmd.key, job[x].cmd.body)
      BY <1>2, <1>3, <1>6 DEF About, DecisionPCs
    <2>3. job[x].row.body = job[x].cmd.body /\ job[x].row.key = job[x].cmd.key
          /\ job[x].row.status = "PENDING"
      BY <1>4, <2>2, RequestRow
    <2> QED BY <1>2, <1>4, <1>5, <1>6, <2>1, <2>2, <2>3 DEF Settles
  <1>7. CASE x \in Resolvers
    <2>1. x \notin Handlers /\ job[x].cmd = NoCmd
      BY <1>1, <1>7, WageringAssumption, Busy
    <2>2. job[x].mode \in {"update", "attempt"} /\ (pc[x] # "save" => job[x].mode = "update")
      BY <1>2, <1>3, <1>7 DEF About, Shape, DecisionPCs, None
    <2>3. job[x].mode # None
      BY <2>2 DEF None
    <2>4. job[x].id \in TxIds /\ Waiting(Unlinked(job[x].row)) /\ job[x].row.body = txs[job[x].id].body
          /\ job[x].wid = job[x].row.body.wallet
      BY <1>2, <1>3, <1>7, <2>3 DEF About
    <2> QED BY <1>2, <1>4, <1>5, <1>7, <2>1, <2>2, <2>4, ParkedRow DEF Settles
  <1> QED BY <1>6, <1>7 DEF Workers

\* A step that plans: the plan must follow from the row and its reference.
LEMMA PlanRows ==
  ASSUME IInv, RowInv, NEW x \in Workers, pc[x] \in {"decide", "reversal"},
         NEW plan \in Plans, NEW ref \in Ids, NEW l \in {"reversal", "save"},
         job' = [job EXCEPT ![x] = [job[x] EXCEPT !.plan = plan,
                                        !.row = [job[x].row EXCEPT !.refId = ref]]],
         pc' = [pc EXCEPT ![x] = l], UNCHANGED tables,
         l = "reversal" => plan.kind = "PROCESS" /\ RequiresReference(job[x].row.body.kind),
         plan.kind # "PROCESS" => ref = None,
         plan.kind = "PENDING_REFERENCE" =>
            /\ RequiresReference(job[x].row.body.kind)
            /\ job[x].row.body.currency = Accounts[job[x].row.body.wallet].currency,
         plan.kind = "PROCESS" /\ ~RequiresReference(job[x].row.body.kind) =>
            plan = Process(OwnDirection(job[x].row.body.kind)),
         plan.kind = "PROCESS" /\ RequiresReference(job[x].row.body.kind) =>
            /\ ref \in AllIds /\ plan = ReferenceVerdict(job[x].row.body, txs[ref])
            /\ l # "reversal" => ~HasSuccessfulReversal(ref)
  PROVE  RowInv'
  <1> DEFINE row == [job[x].row EXCEPT !.refId = ref]
             j == [job[x] EXCEPT !.plan = plan, !.row = row]
  <1>1. pc[x] \in DecisionPCs /\ pc[x] \in LockedPCs /\ pc[x] \notin AfterSave
        /\ l \in LockedPCs /\ l \notin AfterSave
    BY DEF DecisionPCs, LockedPCs, AfterSave
  <1>2. job[x] \in Jobs /\ job[x].row \in Rows /\ ~Opens(x) /\ job[x].failing = FALSE /\ Settles(x)
        /\ job[x].writes = NoWrites /\ job[x].inboxed = FALSE /\ job[x].id \notin Wallets
    BY <1>1, Deciding
  <1>3. /\ row \in Rows /\ Unlinked(row) = Unlinked(job[x].row) /\ row.refId = ref
        /\ row.key = job[x].row.key /\ row.body = job[x].row.body
    BY <1>2, Relinked
  <1>4. job' = [job EXCEPT ![x] = j]
    OBVIOUS
  <1> HIDE DEF row
  <1>5. /\ j.wid = job[x].wid /\ j.cmd = job[x].cmd /\ j.writes = job[x].writes
        /\ j.failing = job[x].failing /\ j.id = job[x].id /\ j.mode = job[x].mode
        /\ j.inboxed = job[x].inboxed /\ j.row = row /\ j.plan = plan
    BY <1>2 DEF Jobs
  <1> HIDE DEF j
  <1>6. job'[x] = j /\ pc'[x] = l /\ Quiet(x)
    BY <1>4 DEF Quiet, tables, IInv, TypeOK
  <1>7. ~Opens(x)' /\ Settles(x)'
    BY <1>2, <1>5, <1>6 DEF Opens, Settles
  <1>8. About(x) /\ Answered(x)
    BY DEF RowInv, RowWorker
  <1>9. About(x)'
    <2>1. job[x].mode \in {"insert", "update"} /\ None \notin {"insert", "update", "attempt"}
          /\ txs' = txs
      BY <1>2, <1>6 DEF Settles, None, Quiet
    <2>2. CASE x \in Handlers
      <3>1. x \notin Resolvers /\ job[x].mode = "insert"
        BY <1>1, <2>2, WageringAssumption, Deciding
      <3>2. job[x].wid = job[x].cmd.body.wallet /\ Accounts[job[x].wid].player = job[x].cmd.body.player
            /\ ValidExternal(job[x].cmd.body)
            /\ Unlinked(job[x].row) = NewExternal(job[x].cmd.key, job[x].cmd.body)
        BY <1>1, <1>2, <1>8, <2>2, <3>1 DEF About, DecisionPCs
      <3>3. ValidExternal(job[x].cmd.body)'
        BY <1>5, <1>6, <3>2
      <3>4. (Unlinked(job[x].row) = NewExternal(job[x].cmd.key, job[x].cmd.body))'
        BY <1>3, <1>5, <1>6, <3>2
      <3> QED BY <1>1, <1>5, <1>6, <1>7, <2>2, <3>1, <3>2, <3>3, <3>4 DEF About, AfterSave
    <2>3. CASE x \in Resolvers
      <3>1. x \notin Handlers /\ job[x].mode = "update"
        BY <1>1, <2>1, <2>3, WageringAssumption, Deciding
      <3>2. job[x].id \in TxIds /\ Waiting(Unlinked(job[x].row)) /\ job[x].wid = job[x].row.body.wallet
            /\ job[x].row.key = txs[job[x].id].key /\ job[x].row.body = txs[job[x].id].body
        BY <1>2, <1>8, <2>1, <2>3, <3>1 DEF About
      <3>3. Waiting(Unlinked(job[x].row))'
        BY <1>3, <1>5, <1>6, <3>2
      <3>4. job'[x].mode = "update" /\ job'[x].failing = FALSE
        BY <1>2, <1>5, <1>6, <3>1
      <3> QED BY <1>3, <1>5, <1>6, <2>1, <2>3, <3>1, <3>2, <3>3, <3>4 DEF About, Opens
    <2> QED BY <2>2, <2>3 DEF Workers
  <1>10. Planned(x)'
    <2>1. HasSuccessfulReversal(ref)' = HasSuccessfulReversal(ref) /\ txs' = txs
      BY DEF HasSuccessfulReversal, tables
    <2> QED BY <1>1, <1>3, <1>5, <1>6, <2>1 DEF Planned
  <1>11. Answered(x)'
    BY <1>1, <1>2, <1>5, <1>6, <1>7, <1>8 DEF Answered, Quiet, AfterSave, Settles, Stored
  <1>12. \A y \in Workers \ {x} : pc[y] \in AfterSave /\ job[y].mode = "insert" => job'[x].id # job[y].id
    BY <1>5, <1>6, IdKept
  <1> QED BY <1>1, <1>2, <1>5, <1>6, <1>9, <1>10, <1>11, <1>12, UnsavedKeeps

\* What a reference lookup finds.
LEMMA ReferenceFound ==
  ASSUME RowInv, NEW b
  PROVE  LET id == ReferenceId(b)
         IN  /\ RowOf(id) = IF id = None THEN NoTx ELSE txs[id]
             /\ id # None => id \in AllIds /\ Stored(id) /\ txs[id].body.provider = b.provider
                                          /\ txs[id].body.ext = b.ref
  <1>1. CASE b.ref = None
    BY <1>1 DEF RowOf, ReferenceId
  <1>2. CASE b.ref # None /\ \E i \in AllIds : Stored(i) /\ txs[i].body.provider = b.provider
                                              /\ txs[i].body.ext = b.ref
    BY <1>2 DEF RowOf, ReferenceId, GetByProviderExternalID
  <1>3. CASE b.ref # None /\ ~ \E i \in AllIds : Stored(i) /\ txs[i].body.provider = b.provider
                                                /\ txs[i].body.ext = b.ref
    BY <1>3 DEF RowOf, ReferenceId, GetByProviderExternalID
  <1> QED BY <1>1, <1>2, <1>3

\* Only a successful reference of the same operation lets a reversal go ahead.
LEMMA VerdictSays ==
  ASSUME NEW b, NEW ref
  PROVE  LET d == ReferenceVerdict(b, ref)
         IN  /\ d.kind = "PROCESS" =>
                  /\ ref.status = "PROCESSED" \/ ref.status \notin Statuses \cup {"ABSENT"}
                  /\ SameOperation(b, ref.body) /\ d = Process(reversalDirection(b.kind, ref.body.kind))
                  /\ d.dir # None
             /\ d.kind = "PENDING_REFERENCE" => d = Park
             /\ d.kind = "PENDING_REFERENCE" <=> ref.status \in {"ABSENT", "PENDING", "PENDING_REFERENCE"}
             /\ d.kind = "REJECT" => d.failure \in {"REFERENCE_NOT_SUCCESSFUL", "REFERENCE_MISMATCH"}
  <1>1. Park.kind = "PENDING_REFERENCE" /\ \A c : Reject(c).kind = "REJECT" /\ Reject(c).failure = c
    BY DEF Park, Reject
  <1>2. \A dir : Process(dir).kind = "PROCESS" /\ Process(dir).dir = dir
    BY DEF Process
  <1>3. CASE ref.status \in {"ABSENT", "PENDING", "PENDING_REFERENCE"}
    <2>1. ReferenceVerdict(b, ref) = Park
      BY <1>3 DEF ReferenceVerdict
    <2> QED BY <1>1, <1>3, <2>1
  <1>4. CASE ref.status \in {"REJECTED", "FAILED"}
    <2>1. ReferenceVerdict(b, ref) = Reject("REFERENCE_NOT_SUCCESSFUL")
      BY <1>4 DEF ReferenceVerdict
    <2> QED BY <1>1, <1>4, <2>1
  <1>5. CASE ref.status \notin {"ABSENT", "PENDING", "PENDING_REFERENCE", "REJECTED", "FAILED"}
    <2>1. CASE ~SameOperation(b, ref.body) \/ reversalDirection(b.kind, ref.body.kind) = None
      <3>1. ReferenceVerdict(b, ref) = Reject("REFERENCE_MISMATCH")
        BY <1>5, <2>1 DEF ReferenceVerdict
      <3> QED BY <1>1, <1>5, <3>1
    <2>2. CASE SameOperation(b, ref.body) /\ reversalDirection(b.kind, ref.body.kind) # None
      <3>1. ReferenceVerdict(b, ref) = Process(reversalDirection(b.kind, ref.body.kind))
        BY <1>5, <2>2 DEF ReferenceVerdict
      <3> QED BY <1>2, <1>5, <2>2, <3>1 DEF Statuses
    <2> QED BY <2>1, <2>2
  <1> QED BY <1>3, <1>4, <1>5

\* A reversal that may go ahead has a reference that exists.
LEMMA ReferenceExists ==
  ASSUME RowInv, NEW b, ReferenceVerdict(b, RowOf(ReferenceId(b))).kind = "PROCESS"
  PROVE  ReferenceId(b) \in AllIds /\ RowOf(ReferenceId(b)) = txs[ReferenceId(b)]
  <1>1. NoTx.status = "ABSENT"
    BY DEF NoTx
  <1>2. RowOf(ReferenceId(b)).status # "ABSENT"
    BY VerdictSays
  <1> QED BY <1>1, <1>2, ReferenceFound

\* decide, for a handler.
LEMMA DecideRows ==
  ASSUME IInv, RowInv, NEW h \in Handlers, Decide(h)
  PROVE  RowInv'
  <1> DEFINE b == job[h].row.body
             d == decide(job[h].row, job[h].wid)
             ref == IF d.kind = "PROCESS" THEN ReferenceId(b) ELSE None
             l == IF d.kind = "PROCESS" /\ RequiresReference(b.kind) THEN "reversal" ELSE "save"
  <1>1. h \in Workers /\ pc[h] = "decide" /\ pc[h] \in DecisionPCs /\ UNCHANGED tables
    BY DEF Workers, Decide, DecisionPCs
  <1>2. job[h] \in Jobs /\ job[h].row \in Rows /\ job[h].wid = b.wallet /\ b = job[h].cmd.body
        /\ b \in Bodies
    BY <1>1, Deciding DEF Rows
  <1>3. d \in Plans
    BY PlansTyped DEF decide, Directions, FailureCodes
  <1>4. ref \in Ids
    BY <1>2, LookupTyped DEF IInv, Ids
  <1>5. /\ job' = [job EXCEPT ![h] = [job[h] EXCEPT !.plan = d,
                                        !.row = [job[h].row EXCEPT !.refId = ref]]]
        /\ pc' = [pc EXCEPT ![h] = l]
    BY DEF Decide, Goto
  <1>6. b.kind \in {"BET", "WIN", "LOSS", "REFUND", "ROLLBACK"}
    <2>1. About(h) /\ job[h].mode = "insert" /\ ~Opens(h)
      BY <1>1, Deciding DEF RowInv, RowWorker
    <2> QED BY <1>2, <2>1 DEF About, ValidExternal, Kinds
  <1>7. \/ d.kind = "REJECT"
        \/ ~RequiresReference(b.kind) /\ d = Process(OwnDirection(b.kind))
        \/ /\ RequiresReference(b.kind) /\ b.currency = Accounts[b.wallet].currency
           /\ d = ReferenceVerdict(b, RowOf(ReferenceId(b)))
    <2>1. CASE b.currency # Accounts[b.wallet].currency
      BY <1>2, <2>1 DEF decide, Reject
    <2>2. CASE b.currency = Accounts[b.wallet].currency
      BY <1>2, <1>6, <2>2 DEF decide, RequiresReference, OwnDirection
    <2> QED BY <2>1, <2>2
  <1>8. \A dir : Process(dir).kind = "PROCESS"
    BY DEF Process
  <1>9. l \in {"reversal", "save"} /\ (l = "reversal" <=> d.kind = "PROCESS" /\ RequiresReference(b.kind))
    OBVIOUS
  <1>10. d.kind = "PROCESS" /\ RequiresReference(b.kind) => ref \in AllIds /\ d = ReferenceVerdict(b, txs[ref])
    BY <1>7, <1>8, ReferenceExists
  <1>11. (d.kind # "PROCESS" => ref = None) /\ (d.kind = "PROCESS" \/ d.kind = "REJECT" \/
           (RequiresReference(b.kind) /\ b.currency = Accounts[b.wallet].currency))
    BY <1>7, <1>8
  <1>12. d.kind = "PROCESS" /\ ~RequiresReference(b.kind) => d = Process(OwnDirection(b.kind))
    BY <1>7
  <1> HIDE DEF d, ref, l
  <1> QED BY <1>1, <1>3, <1>4, <1>5, <1>9, <1>10, <1>11, <1>12, PlanRows

\* A conflict on a command is on a row with its key or its identity.
LEMMA IdentityConflict ==
  ASSUME RowInv, NEW c \in Commands,
         LET id == GetByProviderExternalID(c.body.provider, c.body.ext)
         IN  id # None /\ txs[id].key # c.key
  PROVE  Contradicted(c)
  <1>1. c.body.provider # None
    BY WageringAssumption
  <1> QED BY <1>1, IdentityLookup DEF Contradicted, Collides

\* An error that reports a real conflict keeps RowInv.
LEMMA AbandonConflict ==
  ASSUME IInv, RowInv, NEW h \in Handlers, NEW code, Abandon(h, code), UNCHANGED tables,
         code # "RESULT", Contradicted(job[h].cmd)
  PROVE  RowInv'
  <1>1. h \in Workers
    BY DEF Workers
  <1>2. Quiet(h) /\ Empty(h) /\ pc'[h] = "reply" /\ job'[h].cmd = job[h].cmd /\ job'[h].ans.out = code
    BY <1>1, AbandonLeaves DEF Quiet, tables
  <1> QED BY <1>2, ConflictRows

\* The lookup by identity: a conflict, a replay, or a new transaction.
LEMMA ReadIdentityRows ==
  ASSUME IInv, RowInv, NEW h \in Handlers, ReadIdentity(h)
  PROVE  RowInv'
  <1> DEFINE c  == job[h].cmd
             id == GetByProviderExternalID(c.body.provider, c.body.ext)
  <1>1. pc[h] = "identity" /\ UNCHANGED tables /\ pc[h] \in EarlyPCs /\ pc[h] \in LockedPCs
    BY DEF ReadIdentity, EarlyPCs, LockedPCs
  <1>2. c \in Commands /\ h \in Workers /\ h \notin Resolvers /\ c.body.provider # None
        /\ job[h] \in Jobs /\ ~Opens(h)
    BY <1>1, Early, WageringAssumption
  <1>3. CASE Abandon(h, "INVALID")
    BY <1>1, <1>2, <1>3, AbandonKeeps
  <1>4. CASE id # None /\ txs[id].key # c.key /\ Abandon(h, "OPERATION_IDENTITY_CONFLICT")
    <2>1. Contradicted(c)
      BY <1>2, <1>4, IdentityConflict
    <2> QED BY <1>1, <1>4, <2>1, AbandonConflict
  <1>5. CASE id # None /\ txs[id].key = c.key /\ Replay(h, id, TRUE)
    <2>1. id \in TxIds /\ Stored(id)
      BY <1>2, <1>5, IdentityLookup
    <2> QED BY <1>1, <1>5, <2>1, ReplayRows
  <1>6. CASE /\ ValidExternal(c.body) /\ Goto(h, "decide")
             /\ job' = [job EXCEPT ![h].row = NewExternal(c.key, c.body), ![h].mode = "insert"]
    <2> DEFINE row == NewExternal(c.key, c.body)
               j == [job[h] EXCEPT !.row = row, !.mode = "insert"]
    <2>1. Unlinked(row) = row
      BY DEF NewExternal, Unlinked
    <2>2. job' = [job EXCEPT ![h] = j] /\ pc' = [pc EXCEPT ![h] = "decide"]
      BY <1>6, Zenon DEF Goto
    <2> HIDE DEF row
    <2>3. /\ j.cmd = c /\ j.wid = job[h].wid /\ j.mode = "insert" /\ j.writes = NoWrites
          /\ j.inboxed = FALSE /\ j.failing = FALSE /\ j.id = job[h].id /\ j.row = row
      BY <1>1, <1>2, Early DEF Jobs
    <2> HIDE DEF j
    <2>4. job'[h] = j /\ pc'[h] = "decide" /\ Quiet(h)
      BY <1>1, <1>2, <2>2 DEF Quiet, tables, IInv, TypeOK
    <2>5. ~Opens(h)' /\ "insert" # None
      BY <1>2, <2>3, <2>4 DEF Opens, None
    <2>6. About(h)'
      <3>1. job[h].wid = c.body.wallet /\ Accounts[job[h].wid].player = c.body.player
        BY <1>1, Early
      <3>2. (Unlinked(job[h].row) = NewExternal(job[h].cmd.key, job[h].cmd.body))'
        BY <2>1, <2>3, <2>4 DEF row
      <3>3. ValidExternal(job[h].cmd.body)'
        BY <1>6, <2>3, <2>4
      <3> QED BY <1>2, <2>3, <2>4, <2>5, <3>1, <3>2, <3>3 DEF About
    <2>7. Planned(h)'
      BY <2>4 DEF Planned, AfterSave
    <2>8. Answered(h)'
      <3>1. Answered(h)
        BY <1>2 DEF RowInv, RowWorker
      <3> QED BY <1>1, <1>2, <2>3, <2>4, <2>5, <3>1 DEF Answered, Quiet, AfterSave, Stored
    <2>9. \A y \in Workers \ {h} : pc[y] \in AfterSave /\ job[y].mode = "insert" => job'[h].id # job[y].id
      BY <1>2, <2>3, <2>4, IdKept
    <2>10. job'[h].id \notin Wallets
      BY <1>1, <2>3, <2>4, Early
    <2> QED BY <1>2, <2>3, <2>4, <2>6, <2>7, <2>8, <2>9, <2>10, UnsavedKeeps DEF AfterSave
  <1> QED BY <1>3, <1>4, <1>5, <1>6 DEF ReadIdentity

\* The duplicate check: a reversal that passes it has no successful rival yet.
LEMMA CheckReversalRows ==
  ASSUME IInv, RowInv, NEW x \in Workers, CheckReversal(x)
  PROVE  RowInv'
  <1> DEFINE b == job[x].row.body
             r == job[x].row.refId
  <1>1. pc[x] = "reversal" /\ pc[x] \in DecisionPCs /\ pc' = [pc EXCEPT ![x] = "save"]
        /\ UNCHANGED tables
    BY DEF CheckReversal, DecisionPCs, Goto
  <1>2. job[x] \in Jobs /\ job[x].row \in Rows /\ job[x].plan \in Plans /\ Settles(x)
    BY <1>1, Deciding DEF Jobs
  <1>3. Planned(x)
    BY DEF RowInv, RowWorker
  <1>4. /\ job[x].plan.kind = "PROCESS" /\ RequiresReference(b.kind)
        /\ r \in AllIds /\ job[x].plan = ReferenceVerdict(b, txs[r])
    BY <1>1, <1>2, <1>3 DEF Planned
  <1>5. CASE HasSuccessfulReversal(r)
    <2> DEFINE d == Reject("DUPLICATE_REVERSAL")
    <2>1. job' = [job EXCEPT ![x] = [job[x] EXCEPT !.plan = d,
                                        !.row = [job[x].row EXCEPT !.refId = None]]]
      <3>1. job' = [job EXCEPT ![x].plan = Reject("DUPLICATE_REVERSAL"), ![x].row.refId = None]
        BY <1>5, Zenon DEF CheckReversal
      <3> QED BY <3>1
    <2>2. d \in Plans /\ None \in Ids /\ d.kind = "REJECT"
      BY PlansTyped DEF FailureCodes, Ids, Reject
    <2> HIDE DEF d
    <2> QED BY <1>1, <2>1, <2>2, PlanRows
  <1>6. CASE ~HasSuccessfulReversal(r)
    <2>1. job[x] = [job[x] EXCEPT !.plan = job[x].plan, !.row = [job[x].row EXCEPT !.refId = r]]
      BY <1>2 DEF Jobs, Rows
    <2>2. job' = job
      BY <1>6 DEF CheckReversal
    <2>3. job' = [job EXCEPT ![x] = [job[x] EXCEPT !.plan = job[x].plan,
                                        !.row = [job[x].row EXCEPT !.refId = r]]]
      BY <2>1, <2>2 DEF IInv, TypeOK
    <2>4. r \in Ids
      BY <1>4 DEF Ids
    <2> QED BY <1>1, <1>2, <1>4, <1>6, <2>3, <2>4, PlanRows
  <1> QED BY <1>5, <1>6

\* A worker that saves is apart from the others when nobody has its id, its row, or
\* a row that collides with it.
LEMMA SavedApart ==
  ASSUME RowInv, NEW x \in Workers, Quiet(x), ~Opens(x)', ~job'[x].inboxed,
         \A y \in Workers \ {x} :
            /\ job'[x].mode = "insert" => job[y].id # job'[x].id
            /\ pc[y] \in AfterSave /\ job[y].mode = "insert" => job'[x].id # job[y].id
            /\ job'[x].mode \in {"update", "attempt"} /\ pc[y] \in AfterSave
                  /\ job[y].mode \in {"update", "attempt"} => job[y].id # job'[x].id
            /\ job'[x].mode = "insert" /\ pc[y] \in AfterSave /\ job[y].mode = "insert" /\ ~Opens(y)
                  => ~Collides(job[y].row, job'[x].row)
  PROVE  \A y \in Workers \ {x} : Apart(x, y)' /\ Apart(y, x)'
  <1> TAKE y \in Workers \ {x}
  <1>1. pc'[y] = pc[y] /\ job'[y] = job[y] /\ (Opens(y)' <=> Opens(y))
    BY DEF Quiet, Opens
  <1>2. job'[x].mode = "insert" /\ pc[y] \in AfterSave /\ job[y].mode = "insert" /\ ~Opens(y)
           => ~Collides(job[y].row, job[x].row)' /\ ~Collides(job[x].row, job[y].row)'
    BY <1>1 DEF Collides
  <1>3. Apart(x, y)'
    BY <1>1, <1>2 DEF Apart
  <1>4. Apart(y, x)'
    BY <1>1, <1>2 DEF Apart
  <1> QED BY <1>3, <1>4

\* A step of a resolver with a parked row in hand that has not saved.
LEMMA ResolverKeeps ==
  ASSUME IInv, RowInv, NEW r \in Resolvers, Quiet(r), pc'[r] \in {"lock", "decide", "save", "failSave"},
         NEW row \in Rows, Waiting(Unlinked(row)), pc'[r] # "save" => row.refId = None,
         job'[r].row = row, job'[r].writes = NoWrites, job'[r].inboxed = FALSE,
         job'[r].id \in TxIds, Stored(job'[r].id), row.key = txs[job'[r].id].key,
         row.body = txs[job'[r].id].body,
         job'[r].failing \/ job'[r].wid = row.body.wallet,
         pc'[r] = "failSave" <=> job'[r].failing, job'[r].cmd = NoCmd,
         job'[r].mode \in {"update", "attempt"}, job'[r].mode = "update" \/ pc'[r] = "save",
         Planned(r)'
  PROVE  RowInv'
  <1>1. r \in Workers /\ r \notin Handlers /\ txs' = txs /\ ~Opens(r)' /\ pc'[r] \notin AfterSave
        /\ None \notin {"insert", "update", "attempt"} /\ job'[r].id \notin Wallets
    BY WageringAssumption DEF Workers, Quiet, Opens, AfterSave, None
  <1>2. Waiting(Unlinked(job[r].row))'
    OBVIOUS
  <1>3. About(r)'
    BY <1>1, <1>2 DEF About
  <1>4. Answered(r)'
    BY <1>1 DEF Answered
  <1>5. \A y \in Workers \ {r} : pc[y] \in AfterSave /\ job[y].mode = "insert" => job'[r].id # job[y].id
    BY DEF RowInv, RowWorker, Owns
  <1> QED BY <1>1, <1>3, <1>4, <1>5, UnsavedKeeps

\* decide, for the reference worker.
LEMMA DecideParkedRows ==
  ASSUME IInv, RowInv, NEW r \in Resolvers, DecideParked(r)
  PROVE  RowInv'
  <1> DEFINE b == job[r].row.body
             d == ReferenceVerdict(b, RowOf(ReferenceId(b)))
             ref == IF d.kind = "PROCESS" THEN ReferenceId(b) ELSE None
  <1>1. r \in Workers /\ r \notin Handlers /\ pc[r] = "decide" /\ pc[r] \in DecisionPCs
        /\ pc[r] \in LockedPCs \ {"commit"} /\ UNCHANGED tables
    BY WageringAssumption DEF Workers, DecideParked, DecisionPCs, LockedPCs
  <1>2. /\ job[r] \in Jobs /\ job[r].row \in Rows /\ b \in Bodies /\ RequiresReference(b.kind)
        /\ b.currency = Accounts[b.wallet].currency /\ job[r].failing = FALSE
        /\ job[r].writes = NoWrites /\ job[r].inboxed = FALSE /\ job[r].mode = "update"
        /\ job[r].wid = b.wallet /\ job[r].id \in TxIds /\ job[r].cmd = NoCmd
    BY <1>1, Deciding DEF Rows
  <1>3. /\ job[r].row.refId = None /\ Waiting(Unlinked(job[r].row))
        /\ job[r].row.key = txs[job[r].id].key /\ b = txs[job[r].id].body /\ Stored(job[r].id)
    <2>1. About(r) /\ Shape(r) /\ "update" # None
      BY <1>1 DEF RowInv, RowWorker, None, IInv, WorkerInv
    <2> QED BY <1>1, <1>2, <2>1 DEF About, Shape
  <1>4. CASE d # Park
    <2> DEFINE l == IF d.kind = "PROCESS" THEN "reversal" ELSE "save"
    <2>1. d \in Plans
      BY PlansTyped
    <2>2. ref \in Ids
      BY <1>2, LookupTyped DEF IInv, Ids
    <2>3. /\ job' = [job EXCEPT ![r] = [job[r] EXCEPT !.plan = d,
                                          !.row = [job[r].row EXCEPT !.refId = ref]]]
          /\ pc' = [pc EXCEPT ![r] = l]
      <3>1. job' = [job EXCEPT ![r].plan = d, ![r].row.refId = ref] /\ Goto(r, l)
        BY <1>4, Zenon DEF DecideParked
      <3> QED BY <3>1 DEF Goto
    <2>4. l \in {"reversal", "save"} /\ (l = "reversal" <=> d.kind = "PROCESS")
      OBVIOUS
    <2>5. d.kind = "PROCESS" => ref \in AllIds /\ d = ReferenceVerdict(b, txs[ref])
      BY ReferenceExists
    <2>6. d.kind # "PROCESS" => ref = None
      OBVIOUS
    <2> HIDE DEF d, ref, l
    <2> QED BY <1>1, <1>2, <2>1, <2>2, <2>3, <2>4, <2>5, <2>6, PlanRows
  <1>5. CASE d = Park /\ Exhausted(job[r].rec, job[r].late)
    <2> DEFINE p == Reject("REFERENCE_NOT_FOUND")
    <2>1. p \in Plans /\ p.kind = "REJECT"
      BY PlansTyped DEF FailureCodes, Reject
    <2>2. job' = [job EXCEPT ![r] = [job[r] EXCEPT !.plan = p]] /\ pc' = [pc EXCEPT ![r] = "save"]
      BY <1>5 DEF DecideParked, Goto
    <2> HIDE DEF p
    <2>3. [job[r].row EXCEPT !.refId = None] = job[r].row
      BY <1>2, <1>3 DEF Rows
    <2>4. [job[r] EXCEPT !.plan = p] = [job[r] EXCEPT !.plan = p, !.row = job[r].row]
      BY <1>2 DEF Jobs
    <2>5. job' = [job EXCEPT ![r] = [job[r] EXCEPT !.plan = p,
                              !.row = [job[r].row EXCEPT !.refId = None]]]
      BY <2>2, <2>3, <2>4
    <2>6. None \in Ids
      BY DEF Ids
    <2> QED BY <1>1, <1>2, <2>1, <2>2, <2>5, <2>6, PlanRows
  <1>6. CASE d = Park /\ ~Exhausted(job[r].rec, job[r].late)
    <2> DEFINE j == [job[r] EXCEPT !.mode = "attempt"]
    <2>1. job' = [job EXCEPT ![r] = j] /\ pc' = [pc EXCEPT ![r] = "save"]
      BY <1>6 DEF DecideParked, Goto
    <2>2. /\ j.wid = job[r].wid /\ j.cmd = job[r].cmd /\ j.writes = job[r].writes
          /\ j.failing = job[r].failing /\ j.id = job[r].id /\ j.mode = "attempt"
          /\ j.row = job[r].row /\ j.inboxed = job[r].inboxed
      BY <1>2 DEF Jobs
    <2> HIDE DEF j
    <2>3. job'[r] = j /\ pc'[r] = "save" /\ Quiet(r)
      BY <1>1, <2>1 DEF Quiet, tables, IInv, TypeOK
    <2>4. Planned(r)'
      BY <2>2, <2>3 DEF Planned, Settles
    <2> QED BY <1>1, <1>2, <1>3, <2>2, <2>3, <2>4, ResolverKeeps
  <1> QED BY <1>4, <1>5, <1>6

\* RecordReferenceAttempt: the row is still parked, and nobody else is writing it.
LEMMA RecordAttemptRows ==
  ASSUME IInv, RowInv, NEW r \in Resolvers, RecordReferenceAttempt(r)
  PROVE  RowInv'
  <1> DEFINE mode == IF txs[job[r].id].status = "PENDING_REFERENCE" THEN job[r].mode ELSE None
             j == [job[r] EXCEPT !.mode = mode]
  <1>1. r \in Workers /\ r \notin Handlers /\ pc[r] = "save" /\ pc[r] \in DecisionPCs
        /\ UNCHANGED tables /\ job[r].mode = "attempt" /\ ~RowLocked(r, job[r].id)
    BY WageringAssumption DEF Workers, RecordReferenceAttempt, DecisionPCs
  <1>2. job[r] \in Jobs /\ job[r].failing = FALSE /\ job[r].writes = NoWrites /\ job[r].cmd = NoCmd
        /\ job[r].inboxed = FALSE /\ job[r].id \notin Wallets
    BY <1>1, Deciding
  <1>3. /\ mode \in {None, "attempt"} /\ mode \notin {"insert", "update"}
        /\ mode = "attempt" => Parked(job[r].id)
    BY <1>1 DEF None, Parked
  <1>4. job' = [job EXCEPT ![r] = j] /\ pc' = [pc EXCEPT ![r] = "commit"]
    <2>1. [job[r] EXCEPT !.mode = job[r].mode] = job[r]
      BY <1>2 DEF Jobs
    <2> QED BY <1>1, <2>1 DEF RecordReferenceAttempt, Goto, IInv, TypeOK
  <1> HIDE DEF mode
  <1>5. /\ j.wid = job[r].wid /\ j.cmd = job[r].cmd /\ j.writes = job[r].writes
        /\ j.failing = job[r].failing /\ j.id = job[r].id /\ j.mode = mode
        /\ j.row = job[r].row /\ j.inboxed = job[r].inboxed
    BY <1>2 DEF Jobs
  <1> HIDE DEF j
  <1>6. job'[r] = j /\ pc'[r] = "commit" /\ Quiet(r)
    BY <1>1, <1>4 DEF Quiet, tables, IInv, TypeOK
  <1>7. ~Opens(r)' /\ txs' = txs
    BY <1>1, <1>6 DEF Opens, Quiet
  <1>8. About(r)'
    <2>1. About(r) /\ "attempt" # None
      BY <1>1 DEF RowInv, RowWorker, None
    <2>2. /\ job[r].id \in TxIds /\ Waiting(Unlinked(job[r].row)) /\ job[r].wid = job[r].row.body.wallet
          /\ job[r].row.key = txs[job[r].id].key /\ job[r].row.body = txs[job[r].id].body
      BY <1>1, <1>2, <2>1 DEF About
    <2>3. Waiting(Unlinked(job[r].row))'
      BY <1>5, <1>6, <2>2
    <2> QED BY <1>1, <1>2, <1>3, <1>5, <1>6, <1>7, <2>2, <2>3 DEF About
  <1>9. Owns(r)'
    BY <1>2, <1>3, <1>5, <1>6, <1>7 DEF Owns, Parked
  <1>10. Buffers(r)' /\ Planned(r)' /\ Answered(r)'
    BY <1>1, <1>2, <1>3, <1>5, <1>6, <1>7 DEF Buffers, Planned, Settles, Answered
  <1>11. \A y \in Workers \ {r} : Apart(r, y)' /\ Apart(y, r)'
    <2>1. \A y \in Workers \ {r} : pc[y] \in AfterSave /\ job[y].mode = "insert" => job'[r].id # job[y].id
      BY <1>1, <1>5, <1>6, IdKept
    <2>2. \A y \in Workers \ {r} : pc[y] \in AfterSave /\ job[y].mode \in {"update", "attempt"}
                                      => job[y].id # job'[r].id
      BY <1>1, <1>5, <1>6 DEF RowLocked
    <2> QED BY <1>1, <1>2, <1>3, <1>5, <1>6, <1>7, <2>1, <2>2, SavedApart
  <1> QED BY <1>1, <1>6, <1>8, <1>9, <1>10, <1>11, QuietKeeps DEF RowWorker

\* Marking a row changes its status, and nothing that identifies it.
LEMMA Marked ==
  ASSUME NEW row \in Rows \cup {NoTx}, NEW v
  PROVE  /\ LET p == MarkProcessed(row, v)
            IN  /\ p.key = row.key /\ p.body = row.body /\ p.refId = row.refId /\ p.failure = row.failure
                /\ p.status = "PROCESSED" /\ p.result = v
         /\ LET p == MarkRejected(row, v)
            IN  /\ p.key = row.key /\ p.body = row.body /\ p.refId = row.refId /\ p.result = row.result
                /\ p.status = "REJECTED"
         /\ LET p == MarkFailed(row, v)
            IN  /\ p.key = row.key /\ p.body = row.body /\ p.refId = row.refId /\ p.result = row.result
                /\ p.status = "FAILED"
         /\ LET p == MarkPendingReference(row)
            IN  /\ p.key = row.key /\ p.body = row.body /\ p.refId = row.refId /\ p.failure = row.failure
                /\ p.result = row.result /\ p.status = "PENDING_REFERENCE"
  <1>1. CASE row \in Rows
    BY <1>1 DEF MarkProcessed, MarkRejected, MarkFailed, MarkPendingReference, Rows
  <1>2. CASE row = NoTx
    BY <1>2 DEF MarkProcessed, MarkRejected, MarkFailed, MarkPendingReference, NoTx
  <1> QED BY <1>1, <1>2

\* What a settlement writes into the row, and the balance it reports.
LEMMA SettledRow ==
  ASSUME NEW id, NEW row \in Rows \cup {NoTx}, NEW w, NEW d \in Plans
  PROVE  LET s == Settlement(id, row, w, d)
         IN  /\ s.row.key = row.key /\ s.row.body = row.body /\ s.row.refId = row.refId
             /\ s.row.status \in {"PENDING_REFERENCE", "REJECTED", "PROCESSED"}
             /\ s.row.status = "PENDING_REFERENCE" <=> d.kind = "PENDING_REFERENCE"
             /\ d.kind = "PENDING_REFERENCE" => s.row.failure = row.failure /\ s.row.result = row.result
             /\ s.row.status = "PROCESSED" =>
                  d.kind = "PROCESS" /\ s.row.result = IF s.moved THEN s.wallet.balance ELSE w.balance
             /\ s.moved => d.kind = "PROCESS" /\ d.dir # None /\ s.row.status = "PROCESSED"
             /\ s.moved => s.wallet = applyMovement(w, d.dir, row.body.amount)
             /\ ~s.moved => s.wallet = NoWallet
  <1> DEFINE s == Settlement(id, row, w, d)
  <1>1. ASSUME NEW r, NEW ev, s = [NoWrites EXCEPT !.row = r, !.events = ev]
        PROVE  s.row = r /\ ~s.moved /\ s.wallet = NoWallet
    BY <1>1 DEF NoWrites
  <1>2. CASE d.kind = "PENDING_REFERENCE"
    <2>1. s.row = MarkPendingReference(row) /\ ~s.moved /\ s.wallet = NoWallet
      BY <1>1, <1>2 DEF Settlement
    <2> QED BY <1>2, <2>1, Marked
  <1>3. CASE d.kind = "REJECT"
    <2>1. s.row = MarkRejected(row, d.failure) /\ ~s.moved /\ s.wallet = NoWallet
      BY <1>1, <1>3 DEF Settlement, Rejection
    <2> QED BY <1>3, <2>1, Marked
  <1>4. CASE d.kind = "PROCESS" /\ d.dir = None
    <2>1. s.row = MarkProcessed(row, w.balance) /\ ~s.moved /\ s.wallet = NoWallet
      BY <1>1, <1>4 DEF Settlement
    <2> QED BY <1>4, <2>1, Marked
  <1>5. CASE d.kind = "PROCESS" /\ d.dir # None /\ Insufficient(w, d.dir, row.body.amount)
    <2>1. PICK code : s = Rejection(id, row, code)
      BY <1>5 DEF Settlement
    <2>2. s.row = MarkRejected(row, code) /\ ~s.moved /\ s.wallet = NoWallet
      BY <1>1, <2>1 DEF Rejection
    <2> QED BY <1>5, <2>2, Marked
  <1>6. CASE d.kind = "PROCESS" /\ d.dir # None /\ ~Insufficient(w, d.dir, row.body.amount)
    <2> DEFINE after == applyMovement(w, d.dir, row.body.amount)
    <2>1. s = Movement(id, row, w, d.dir)
      BY <1>6 DEF Settlement
    <2>2. s.row = MarkProcessed(row, after.balance) /\ s.moved = TRUE /\ s.wallet = after
      BY <2>1 DEF Movement
    <2> HIDE DEF after, s
    <2>3. s.row.key = row.key /\ s.row.body = row.body /\ s.row.refId = row.refId
          /\ s.row.status = "PROCESSED" /\ s.row.result = after.balance
      BY <2>2, Marked
    <2> QED BY <1>6, <2>2, <2>3 DEF s, after
  <1> QED BY <1>2, <1>3, <1>4, <1>5, <1>6 DEF Plans

\* What a request knows when its insert collides: the row is not its own.
LEMMA InsertConflict ==
  ASSUME IInv, RowInv, NEW h \in Handlers, pc[h] = "save", NEW row, row.key = job[h].cmd.key,
         row.body = job[h].cmd.body, UniqueViolations(row) # {}
  PROVE  Contradicted(job[h].cmd)
  <1>1. h \in Workers /\ pc[h] \in DecisionPCs
    BY DEF Workers, DecisionPCs
  <1>2. job[h].mode = "insert" /\ ~Opens(h) /\ job[h].wid = job[h].cmd.body.wallet /\ Answered(h)
    BY <1>1, Deciding DEF RowInv, RowWorker
  <1>3. \A i \in TxIds : Stored(i) /\ txs[i].key = job[h].cmd.key => txs[i].body.wallet # job[h].wid
    BY <1>2 DEF Answered, AfterSave
  <1>4. PICK i \in TxIds : Stored(i) /\ (\/ txs[i].key = row.key
                                        \/ /\ txs[i].body.provider = row.body.provider
                                           /\ txs[i].body.ext = row.body.ext)
    BY DEF UniqueViolations
  <1> QED BY <1>2, <1>3, <1>4 DEF Contradicted, Collides

\* An insert under way is the insert of a request's row.
LEMMA Inserting ==
  ASSUME IInv, RowInv, NEW y \in Workers, pc[y] \in AfterSave, job[y].mode = "insert", ~Opens(y)
  PROVE  /\ y \in Handlers /\ y \notin Resolvers /\ Settles(y) /\ job[y].failing = FALSE
         /\ job[y].row \in Rows /\ job[y].cmd \in Commands
         /\ job[y].writes.row.key = job[y].row.key /\ job[y].writes.row.body = job[y].row.body
         /\ job[y].row.key = job[y].cmd.key /\ job[y].row.body = job[y].cmd.body
         /\ job[y].row.status = "PENDING" /\ job[y].row.failure = None
         /\ job[y].row.result = NoBalance /\ ValidExternal(job[y].cmd.body)
         /\ job[y].id \in TxIds
  <1>1. job[y] \in Jobs /\ Shape(y) /\ About(y) /\ Buffers(y) /\ Owns(y)
    BY DEF RowInv, RowWorker, IInv, TypeOK, WorkerInv
  <1>2. "insert" \notin {None, "update", "attempt"}
    BY DEF None
  <1>3. y \in Handlers /\ y \notin Resolvers /\ job[y].failing = FALSE
    <2>1. y \notin Resolvers
      BY <1>1, <1>2 DEF About
    <2> QED BY <1>1, <2>1 DEF Workers, Shape, Jobs
  <1>4. Settles(y) /\ job[y].cmd \in Commands
    BY <1>1, <1>3 DEF Settles, Opens, Jobs
  <1>5. Unlinked(job[y].row) = NewExternal(job[y].cmd.key, job[y].cmd.body) /\ ValidExternal(job[y].cmd.body)
    BY <1>1, <1>3 DEF About
  <1>6. job[y].row \in Rows \cup {NoTx} /\ job[y].plan \in Plans
    BY <1>1 DEF Jobs
  <1>7. job[y].row \in Rows
    <2>1. Unlinked(NoTx).status = "ABSENT"
      BY DEF Unlinked, NoTx
    <2>2. NewExternal(job[y].cmd.key, job[y].cmd.body).status = "PENDING"
      BY DEF NewExternal
    <2> QED BY <1>5, <1>6, <2>1, <2>2
  <1>8. /\ job[y].row.key = job[y].cmd.key /\ job[y].row.body = job[y].cmd.body
        /\ job[y].row.status = "PENDING" /\ job[y].row.failure = None
        /\ job[y].row.result = NoBalance
    BY <1>5, <1>7, RequestRow
  <1>9. job[y].writes = Settlement(job[y].id, job[y].row, job[y].seen, job[y].plan)
    BY <1>1, <1>4 DEF Buffers
  <1>10. job[y].writes.row.key = job[y].row.key /\ job[y].writes.row.body = job[y].row.body
    BY <1>6, <1>9, SettledRow
  <1>11. job[y].id \in TxIds
    BY <1>1 DEF Owns, AllIds
  <1> QED BY <1>3, <1>4, <1>5, <1>7, <1>8, <1>10, <1>11

\* settle and save: what is buffered is the settlement of a row nobody else is writing.
LEMMA SettleRows ==
  ASSUME IInv, RowInv, NEW x \in Workers, Settle(x)
  PROVE  RowInv'
  <1> DEFINE j  == job[x]
             id == IF j.mode = "insert" THEN CHOOSE i \in FreeIds : TRUE ELSE j.id
             s  == Settlement(id, j.row, j.seen, j.plan)
             moves == j.plan.kind = "PROCESS" /\ j.plan.dir # None
             balance == IF s.moved THEN s.wallet.balance ELSE j.seen.balance
             a  == [out |-> "RESULT", id |-> id, status |-> s.row.status,
                    balance |-> balance, replay |-> FALSE]
             k  == [j EXCEPT !.id = id, !.writes = s, !.ans = a]
             l  == IF s.moved THEN "post"
                   ELSE IF j.cmd.msg # None THEN "recordInbox" ELSE "commit"
  <1>1. pc[x] = "save" /\ pc[x] \in DecisionPCs /\ j.mode \in {"insert", "update"}
        /\ UNCHANGED tables /\ (j.mode = "insert" => FreeIds # {})
    BY DEF Settle, DecisionPCs
  <1>2. /\ j \in Jobs /\ j.row \in Rows /\ ~Opens(x) /\ j.failing = FALSE /\ j.writes = NoWrites
        /\ j.inboxed = FALSE /\ j.id \notin Wallets /\ j.wid = j.row.body.wallet
        /\ j.plan \in Plans /\ Shape(x) /\ Settles(x)
    BY <1>1, Deciding DEF Jobs, IInv, WorkerInv, Settles
  <1>3. /\ j.mode = "insert" => x \in Handlers /\ x \notin Resolvers
        /\ j.mode = "update" => x \in Resolvers /\ x \notin Handlers
        /\ x \in Handlers => j.row.key = j.cmd.key /\ j.row.body = j.cmd.body
        /\ x \in Resolvers => j.row.status = "PENDING_REFERENCE" /\ j.cmd = NoCmd
    BY <1>1, Deciding, WageringAssumption DEF Workers
  <1>4. /\ s.row.key = j.row.key /\ s.row.body = j.row.body
        /\ s.row.status = "PENDING_REFERENCE" <=> j.plan.kind = "PENDING_REFERENCE"
        /\ s.row.status = "PROCESSED" => s.row.result = balance
    BY <1>2, SettledRow
  <1>5. CASE Abandon(x, "OVERFLOW") \/ Abandon(x, "INTERNAL")
    BY <1>1, <1>5, AbandonKeeps
  <1>6. ASSUME j.mode = "insert", NEW code \in UniqueViolations(s.row), Abandon(x, code) PROVE RowInv'
    <2>1. code # "RESULT" /\ x \in Handlers
      BY <1>3, <1>6 DEF UniqueViolations
    <2>2. Contradicted(j.cmd)
      BY <1>1, <1>3, <1>4, <1>6, <2>1, InsertConflict
    <2> QED BY <1>1, <1>6, <2>1, <2>2, AbandonConflict
  <1>7. CASE /\ ~(moves /\ Overflows(j.seen, j.plan.dir, j.row.body.amount))
             /\ j.mode = "insert" => ~InsertWaits(x, s.row) /\ UniqueViolations(s.row) = {}
             /\ j.mode = "update" => /\ ~RowLocked(x, id) /\ ~ForbidTerminalUpdate(id)
                                     /\ MayBecome(j.row, s.row.status)
             /\ job' = [job EXCEPT ![x].id = id, ![x].writes = s, ![x].ans = a]
             /\ Goto(x, l)
    <2>1. j.mode = "insert" => id \in TxIds /\ ~Stored(id) /\ \A y \in Workers : job[y].id # id
      BY <1>1 DEF FreeIds
    <2>2. j.mode = "update" => id = j.id /\ id \in AllIds /\ Stored(id)
      BY <1>2 DEF Shape
    <2>3. id \notin Wallets /\ id \in AllIds
      BY <1>1, <1>2, <2>1, <2>2, WageringAssumption DEF AllIds
    <2>4. a.out = "RESULT" /\ a.id = id /\ a.status = s.row.status /\ a.balance = balance
      OBVIOUS
    <2>6. l \in AfterSave /\ (l = "post" => s.moved) /\ (l = "commit" => j.cmd.msg = None)
          /\ (l = "recordInbox" => j.cmd.msg # None)
      BY DEF AfterSave
    <2>7. s = Settlement(id, j.row, j.seen, j.plan)
      OBVIOUS
    <2> HIDE DEF id, s, a, l
    <2>5. job' = [job EXCEPT ![x] = k] /\ pc' = [pc EXCEPT ![x] = l]
      BY <1>7 DEF Goto
    <2>8. /\ k.wid = j.wid /\ k.seen = j.seen /\ k.cmd = j.cmd /\ k.writes = s /\ k.id = id
          /\ k.failing = FALSE /\ k.mode = j.mode /\ k.inboxed = FALSE /\ k.row = j.row
          /\ k.plan = j.plan /\ k.ans = a
      BY <1>2 DEF Jobs
    <2> HIDE DEF k
    <2>9. job'[x] = k /\ pc'[x] = l /\ Quiet(x)
      BY <1>1, <2>5 DEF Quiet, tables, IInv, TypeOK
    <2>10. ~Opens(x)' /\ Settles(x)' /\ txs' = txs /\ None \notin {"insert", "update", "attempt"}
      BY <1>1, <1>2, <2>8, <2>9 DEF Opens, Settles, Quiet, None
    <2>11. About(x)'
      <3>1. About(x)
        BY DEF RowInv, RowWorker
      <3>2. CASE j.mode = "insert"
        <4>1. j.wid = j.cmd.body.wallet /\ Accounts[j.wid].player = j.cmd.body.player
              /\ ValidExternal(j.cmd.body) /\ Unlinked(j.row) = NewExternal(j.cmd.key, j.cmd.body)
          BY <1>1, <1>2, <1>3, <3>1, <3>2 DEF About, LockedPCs
        <4>2. ValidExternal(job[x].cmd.body)'
          BY <2>8, <2>9, <4>1
        <4>3. (Unlinked(job[x].row) = NewExternal(job[x].cmd.key, job[x].cmd.body))'
          BY <2>8, <2>9, <4>1
        <4> QED BY <1>3, <2>6, <2>8, <2>9, <2>10, <3>2, <4>1, <4>2, <4>3 DEF About, AfterSave
      <3>3. CASE j.mode = "update"
        <4>1. j.id \in TxIds /\ Waiting(Unlinked(j.row)) /\ j.wid = j.row.body.wallet
              /\ j.row.key = txs[j.id].key /\ j.row.body = txs[j.id].body
          BY <1>2, <1>3, <2>10, <3>1, <3>3 DEF About
        <4>2. Waiting(Unlinked(job[x].row))'
          BY <2>8, <2>9, <4>1
        <4> QED BY <1>3, <2>2, <2>6, <2>8, <2>9, <2>10, <3>3, <4>1, <4>2 DEF About, AfterSave
      <3> QED BY <1>1, <3>2, <3>3
    <2>12. Owns(x)'
      <3>1. j.mode = "update" => Parked(id)
        <4>1. RowKept(id)
          BY <2>3 DEF RowInv, RowTables
        <4>2. txs[id].status \in Statuses \cup {"ABSENT"}
          BY <2>3 DEF IInv, TypeOK, Rows, NoTx
        <4> QED BY <1>7, <2>2, <4>1, <4>2
                DEF RowKept, ForbidTerminalUpdate, IsTerminal, Parked, Stored, Statuses
      <3>2. j.mode = "insert" => \A i \in TxIds : Stored(i) => ~Collides(txs[i], j.row)
        BY <1>4, <1>7 DEF UniqueViolations, Collides
      <3>3. (\A i \in TxIds : Stored(i) => ~Collides(txs[i], j.row)) =>
               (\A i \in TxIds : Stored(i) => ~Collides(txs[i], job[x].row))'
        BY <2>8, <2>9, <2>10 DEF Collides, Stored
      <3>4. /\ j.mode = "insert" => txs'[id].status = "ABSENT"
            /\ j.mode = "update" => txs'[id].status = "PENDING_REFERENCE"
        BY <2>1, <2>10, <3>1 DEF Stored, Parked
      <3>5. /\ job'[x].mode = "insert" => ~Stored(job[x].id)'
            /\ job'[x].mode \in {"update", "attempt"} => Parked(job[x].id)'
        BY <1>1, <2>8, <2>9, <3>4 DEF Stored, Parked
      <3> QED BY <2>3, <2>8, <2>9, <2>10, <3>2, <3>3, <3>5 DEF Owns
    <2>13. Buffers(x)'
      <3>1. j.plan.kind = "PROCESS" => ~Overflows(j.seen, j.plan.dir, j.row.body.amount)
        BY <1>7 DEF Overflows, None
      <3>2. j.mode = "update" => j.plan.kind # "PENDING_REFERENCE"
        BY <1>3, <1>4, <1>7 DEF MayBecome, allowedTransitions
      <3>3. (job[x].writes = Settlement(job[x].id, job[x].row, job[x].seen, job[x].plan))'
        BY <2>7, <2>8, <2>9
      <3>4. (job[x].plan.kind = "PROCESS" => ~Overflows(job[x].seen, job[x].plan.dir, job[x].row.body.amount))'
        BY <2>8, <2>9, <3>1
      <3> QED BY <1>1, <2>6, <2>8, <2>9, <2>10, <3>2, <3>3, <3>4 DEF Buffers
    <2>14. Planned(x)'
      <3>1. Planned(x)
        BY DEF RowInv, RowWorker
      <3>2. \A i : HasSuccessfulReversal(i)' = HasSuccessfulReversal(i)
        BY <2>10 DEF HasSuccessfulReversal
      <3> QED BY <1>1, <1>2, <2>6, <2>8, <2>9, <2>10, <3>1, <3>2 DEF Planned, AfterSave
    <2>15. Answered(x)'
      <3>1. CASE x \notin Handlers
        BY <3>1 DEF Answered
      <3>2. CASE x \in Handlers
        <4>1. job'[x].mode = "insert" /\ job'[x].ans = a /\ job'[x].id = id /\ job'[x].cmd = j.cmd
              /\ job'[x].writes = s
          BY <1>1, <1>3, <2>8, <2>9, <3>2
        <4>2. a.status = "PROCESSED" => a.balance = s.row.result
          BY <1>4, <2>4
        <4> HIDE DEF balance
        <4> QED BY <2>4, <2>6, <2>9, <2>10, <4>1, <4>2 DEF Answered, AfterSave
      <3> QED BY <3>1, <3>2
    <2>16. \A y \in Workers \ {x} : Apart(x, y)' /\ Apart(y, x)'
      <3>1. ASSUME NEW y \in Workers \ {x}, pc[y] \in AfterSave, job[y].mode = "insert"
            PROVE  id # job[y].id
        BY <1>1, <2>1, <2>2, <3>1 DEF RowInv, Apart
      <3>2. ASSUME j.mode = "insert", NEW y \in Workers \ {x}, pc[y] \in AfterSave,
                   job[y].mode = "insert", ~Opens(y)
            PROVE  ~Collides(job[y].row, j.row)
        BY <1>4, <1>7, <3>2, Inserting DEF InsertWaits, Collides
      <3>3. ASSUME j.mode = "update", NEW y \in Workers \ {x}, pc[y] \in AfterSave,
                   job[y].mode \in {"update", "attempt"}
            PROVE  job[y].id # id
        BY <1>7, <3>3 DEF RowLocked
      <3>4. \A y \in Workers \ {x} :
               /\ job'[x].mode = "insert" => job[y].id # job'[x].id
               /\ pc[y] \in AfterSave /\ job[y].mode = "insert" => job'[x].id # job[y].id
               /\ job'[x].mode \in {"update", "attempt"} /\ pc[y] \in AfterSave
                     /\ job[y].mode \in {"update", "attempt"} => job[y].id # job'[x].id
               /\ job'[x].mode = "insert" /\ pc[y] \in AfterSave /\ job[y].mode = "insert" /\ ~Opens(y)
                     => ~Collides(job[y].row, job'[x].row)
        BY <1>1, <2>1, <2>8, <2>9, <3>1, <3>2, <3>3
      <3> QED BY <2>8, <2>9, <2>10, <3>4, SavedApart
    <2> QED BY <2>9, <2>11, <2>12, <2>13, <2>14, <2>15, <2>16, QuietKeeps DEF RowWorker
  <1> QED BY <1>1, <1>5, <1>6, <1>7 DEF Settle

-----------------------------------------------------------------------------
(* From the save to the commit.                                            *)

\* Moving on after the save with everything kept keeps RowInv.
LEMMA SavedStep ==
  ASSUME IInv, RowInv, NEW x \in Workers, pc[x] \in {"post", "recordInbox"},
         NEW l \in {"recordInbox", "commit"}, NEW j,
         j.cmd = job[x].cmd, j.wid = job[x].wid, j.id = job[x].id, j.row = job[x].row,
         j.plan = job[x].plan, j.seen = job[x].seen, j.mode = job[x].mode,
         j.writes = job[x].writes, j.ans = job[x].ans, j.failing = job[x].failing,
         job'[x] = j, pc'[x] = l, Quiet(x),
         l = "recordInbox" => pc[x] = "post" /\ j.inboxed = FALSE,
         j.inboxed => /\ l = "commit" /\ inbox[j.cmd.msg].id = None
                      /\ \A y \in Workers \ {x} : ~(job[y].inboxed /\ job[y].cmd.msg = j.cmd.msg),
         l = "commit" /\ ~j.inboxed => j.cmd.msg = None
  PROVE  RowInv'
  <1>1. job[x] \in Jobs /\ Shape(x) /\ ~Opens(x) /\ job[x].failing = FALSE
        /\ (x \in Handlers => job[x].cmd \in Commands)
    BY Busy DEF LockedPCs, Jobs
  <1>2. pc[x] \in AfterSave /\ l \in AfterSave /\ pc[x] \in LockedPCs /\ l \in LockedPCs /\ l # "post"
    BY DEF AfterSave, LockedPCs
  <1>3. About(x) /\ Owns(x) /\ Buffers(x) /\ Planned(x) /\ Answered(x)
    BY DEF RowInv, RowWorker
  <1>4. ~Opens(x)' /\ (Settles(x)' <=> Settles(x)) /\ txs' = txs /\ inbox' = inbox /\ wallets' = wallets
    BY <1>1 DEF Opens, Settles, Quiet
  <1>5. pc[x] = "post" => job[x].mode # None
    BY <1>3 DEF About, None, Workers
  <1>6. About(x)'
    <2>1. x \in Handlers /\ job[x].mode = "insert" =>
             (ValidExternal(job[x].cmd.body) /\ Unlinked(job[x].row) = NewExternal(job[x].cmd.key, job[x].cmd.body))'
      BY <1>1, <1>3 DEF About
    <2>2. x \in Resolvers /\ job[x].mode # None => Waiting(Unlinked(job[x].row))'
      BY <1>3 DEF About
    <2> QED BY <1>1, <1>2, <1>3, <1>4, <2>1, <2>2 DEF About, AfterSave
  <1>7. Owns(x)'
    <2>1. (\A i \in TxIds : Stored(i) => ~Collides(txs[i], job[x].row)) =>
             (\A i \in TxIds : Stored(i) => ~Collides(txs[i], job[x].row))'
      BY <1>4 DEF Collides, Stored
    <2>2. (Stored(job[x].id)' <=> Stored(job[x].id)) /\ (Parked(job[x].id)' <=> Parked(job[x].id))
      BY <1>4 DEF Stored, Parked
    <2> QED BY <1>1, <1>2, <1>3, <1>4, <2>1, <2>2 DEF Owns
  <1>8. Buffers(x)'
    <2>1. (job[x].writes = Settlement(job[x].id, job[x].row, job[x].seen, job[x].plan)) =>
             (job[x].writes = Settlement(job[x].id, job[x].row, job[x].seen, job[x].plan))'
      OBVIOUS
    <2>2. ~Overflows(job[x].seen, job[x].plan.dir, job[x].row.body.amount) =>
             ~Overflows(job[x].seen, job[x].plan.dir, job[x].row.body.amount)'
      OBVIOUS
    <2> QED BY <1>1, <1>2, <1>3, <1>4, <2>1, <2>2 DEF Buffers
  <1>9. Planned(x)'
    <2>1. \A i : HasSuccessfulReversal(i)' = HasSuccessfulReversal(i)
      BY <1>4 DEF HasSuccessfulReversal
    <2> QED BY <1>2, <1>3, <1>4, <2>1 DEF Planned
  <1>10. Answered(x)'
    <2>1. Stands(x)' <=> Stands(x)
      BY <1>4 DEF Stands, Stored
    <2> QED BY <1>1, <1>2, <1>3, <1>4, <1>5, <2>1 DEF Answered, AfterSave
  <1>11. \A y \in Workers \ {x} : Apart(x, y)' /\ Apart(y, x)'
    <2> TAKE y \in Workers \ {x}
    <2>1. pc'[y] = pc[y] /\ job'[y] = job[y] /\ (Opens(y)' <=> Opens(y)) /\ Apart(x, y) /\ Apart(y, x)
      BY DEF Quiet, Opens, RowInv
    <2>2. (Collides(job[y].row, job[x].row)' <=> Collides(job[y].row, job[x].row))
          /\ (Collides(job[x].row, job[y].row)' <=> Collides(job[x].row, job[y].row))
      BY <2>1 DEF Collides
    <2>3. job'[x].inboxed => ~(job[y].inboxed /\ job[y].cmd.msg = job'[x].cmd.msg)
      OBVIOUS
    <2>4. Apart(x, y)'
      BY <1>1, <1>2, <1>4, <2>1, <2>2, <2>3 DEF Apart
    <2>5. Apart(y, x)'
      BY <1>1, <1>2, <1>4, <2>1, <2>2, <2>3 DEF Apart
    <2> QED BY <2>4, <2>5
  <1> QED BY <1>6, <1>7, <1>8, <1>9, <1>10, <1>11, QuietKeeps DEF RowWorker

\* UpdateBalance.
LEMMA UpdateBalanceRows ==
  ASSUME IInv, RowInv, NEW x \in Workers, UpdateBalance(x)
  PROVE  RowInv'
  <1> DEFINE j == job[x]
             l == IF j.cmd.msg # None THEN "recordInbox" ELSE "commit"
  <1>1. pc[x] = "post" /\ UNCHANGED tables
    BY DEF UpdateBalance
  <1>2. CASE Abandon(x, "CONCURRENCY_CONFLICT")
    BY <1>1, <1>2, AbandonKeeps
  <1>3. CASE Goto(x, l) /\ UNCHANGED job
    <2>1. job'[x] = j /\ pc'[x] = l /\ Quiet(x)
      BY <1>1, <1>3 DEF IInv, TypeOK, Goto, Quiet, tables
    <2>2. j.inboxed = FALSE
      <3>1. Owns(x) /\ j \in Jobs
        BY DEF RowInv, RowWorker, IInv, TypeOK
      <3> QED BY <1>1, <3>1 DEF Owns, Jobs
    <2>3. l \in {"recordInbox", "commit"} /\ (l = "commit" => j.cmd.msg = None)
      OBVIOUS
    <2> HIDE DEF l
    <2> QED BY <1>1, <2>1, <2>2, <2>3, SavedStep
  <1> QED BY <1>2, <1>3 DEF UpdateBalance

\* recordInbox: the message is not recorded yet, and nobody else records it.
LEMMA RecordInboxRows ==
  ASSUME IInv, RowInv, NEW h \in Handlers, RecordInbox(h)
  PROVE  RowInv'
  <1> DEFINE j == [job[h] EXCEPT !.inboxed = TRUE]
             m == job[h].cmd.msg
  <1>1. h \in Workers /\ pc[h] = "recordInbox" /\ UNCHANGED tables /\ job[h] \in Jobs
        /\ \A y \in Workers \ {h} : ~(job[y].inboxed /\ job[y].cmd.msg = m)
    BY DEF Workers, RecordInbox, IInv, TypeOK
  <1>2. CASE Abandon(h, "INTERNAL")
    BY <1>1, <1>2, AbandonKeeps
  <1>3. CASE inbox[m].id = None /\ job' = [job EXCEPT ![h].inboxed = TRUE] /\ Goto(h, "commit")
    <2>1. job' = [job EXCEPT ![h] = j] /\ pc' = [pc EXCEPT ![h] = "commit"]
      BY <1>3 DEF Goto
    <2>2. /\ j.cmd = job[h].cmd /\ j.wid = job[h].wid /\ j.id = job[h].id /\ j.row = job[h].row
          /\ j.plan = job[h].plan /\ j.seen = job[h].seen /\ j.mode = job[h].mode
          /\ j.writes = job[h].writes /\ j.ans = job[h].ans /\ j.failing = job[h].failing
          /\ j.inboxed = TRUE
      BY <1>1 DEF Jobs
    <2> HIDE DEF j
    <2>3. job'[h] = j /\ pc'[h] = "commit" /\ Quiet(h)
      BY <1>1, <2>1 DEF IInv, TypeOK, Quiet, tables
    <2> QED BY <1>1, <1>3, <2>2, <2>3, SavedStep
  <1> QED BY <1>2, <1>3 DEF RecordInbox

-----------------------------------------------------------------------------
(* Answers, crashes and openings.                                          *)

\* A worker whose locals are reset is at rest.
LEMMA ResetKeeps ==
  ASSUME IInv, RowInv, NEW x \in Workers, UNCHANGED tables,
         job' = [job EXCEPT ![x] = IdleJob], pc' = [pc EXCEPT ![x] = "idle"]
  PROVE  RowInv'
  <1>1. IdleJob.writes = NoWrites /\ IdleJob.inboxed = FALSE /\ IdleJob.mode = None
        /\ IdleJob.id = None /\ IdleJob.cmd = NoCmd
    BY DEF IdleJob
  <1>2. job'[x] = IdleJob /\ pc'[x] = "idle" /\ Quiet(x)
    BY DEF IInv, TypeOK, Quiet, tables
  <1>3. Empty(x) /\ job'[x].cmd = NoCmd
    BY <1>1, <1>2 DEF Empty, RestPCs
  <1>4. Answered(x)'
    BY <1>2, <1>3, OtherAnswers
  <1> QED BY <1>2, <1>3, <1>4, EmptyKeeps

\* A handler that opens a wallet and has not inserted it yet has nothing in hand.
LEMMA OpeningStep ==
  ASSUME RowInv, NEW h \in Handlers, Quiet(h), pc'[h] \in {"exists", "insertWallet"},
         job'[h].cmd = NoCmd, job'[h].mode \in {None, "insert"}, job'[h].writes = NoWrites,
         job'[h].inboxed = FALSE, job'[h].id \notin Wallets, job'[h].id \in {None, job[h].id}
  PROVE  RowInv'
  <1>1. h \in Workers /\ h \notin Resolvers /\ Opens(h)' /\ pc'[h] \notin AfterSave
    BY WageringAssumption DEF Workers, Opens, AfterSave
  <1>2. None \notin {"insert", "update", "attempt"} /\ None \notin AllIds
    BY WageringAssumption DEF None
  <1>3. About(h)'
    BY <1>1, <1>2 DEF About
  <1>4. Planned(h)' /\ Answered(h)'
    BY <1>1 DEF Planned, Settles, Answered
  <1>5. \A y \in Workers \ {h} : pc[y] \in AfterSave /\ job[y].mode = "insert" => job'[h].id # job[y].id
    BY <1>1, <1>2 DEF RowInv, Apart, RowWorker, Owns
  <1> QED BY <1>1, <1>3, <1>4, <1>5, UnsavedKeeps

\* A request to open a wallet.
LEMMA RequestOpeningRows ==
  ASSUME IInv, RowInv, NEW h \in Handlers, NEW w \in Wallets, RequestOpening(h, w)
  PROVE  RowInv'
  <1> DEFINE j == [IdleJob EXCEPT !.wid = w]
  <1>1. j.cmd = NoCmd /\ j.mode = None /\ j.writes = NoWrites /\ j.inboxed = FALSE /\ j.id = None
    BY DEF IdleJob
  <1>2. h \in Workers /\ job \in [Workers -> Jobs] /\ pc \in [Workers -> PCs]
    BY DEF Workers, IInv, TypeOK
  <1>3. job' = [job EXCEPT ![h] = j] /\ pc' = [pc EXCEPT ![h] = "exists"] /\ UNCHANGED tables
    BY DEF RequestOpening, Goto
  <1> HIDE DEF j
  <1>4. job'[h] = j /\ pc'[h] = "exists" /\ Quiet(h)
    BY <1>2, <1>3 DEF Quiet, tables
  <1>5. None \notin Wallets
    BY WageringAssumption DEF AllIds
  <1> QED BY <1>1, <1>4, <1>5, OpeningStep

\* What an opening has in hand before its insert.
LEMMA OpeningHands ==
  ASSUME IInv, RowInv, NEW h \in Handlers, pc[h] \in {"exists", "insertWallet"}
  PROVE  /\ h \in Workers /\ h \notin Resolvers /\ job[h] \in Jobs /\ job[h].cmd = NoCmd
         /\ job[h].writes = NoWrites /\ job[h].inboxed = FALSE /\ job[h].id \notin Wallets
         /\ job[h].failing = FALSE /\ job[h].wid \in Wallets /\ ~wallets[job[h].wid].open
         /\ Opens(h)
  <1>1. /\ h \in Workers /\ h \notin Resolvers /\ job[h] \in Jobs
        /\ Shape(h) /\ Unborn(h) /\ job[h].failing = FALSE
    BY Opening DEF Jobs
  <1>2. job[h].cmd = NoCmd /\ Opens(h) /\ job[h].wid \in Wallets /\ ~wallets[job[h].wid].open
    BY <1>1 DEF Shape, Opens, Unborn, OpeningPCs
  <1>3. Owns(h) /\ Buffers(h)
    BY <1>1 DEF RowInv, RowWorker
  <1>4. job[h].writes = NoWrites /\ job[h].inboxed = FALSE /\ job[h].id \notin Wallets
    BY <1>1, <1>3 DEF Owns, Buffers, AfterSave, Jobs
  <1> QED BY <1>1, <1>2, <1>4

\* ExistsForPlayerCurrency.
LEMMA ExistsRows ==
  ASSUME IInv, RowInv, NEW h \in Handlers, ExistsForPlayerCurrency(h)
  PROVE  RowInv'
  <1>1. pc[h] = "exists" /\ UNCHANGED tables
    BY DEF ExistsForPlayerCurrency
  <1>2. h \in Workers /\ job[h].cmd = NoCmd /\ job[h].writes = NoWrites /\ job[h].inboxed = FALSE
        /\ job[h].id \notin Wallets
    BY <1>1, OpeningHands
  <1>3. CASE Abandon(h, "WALLET_ALREADY_EXISTS")
    BY <1>1, <1>2, <1>3, AbandonKeeps
  <1>4. CASE Goto(h, "insertWallet") /\ UNCHANGED job
    <2>1. job'[h] = job[h] /\ pc'[h] = "insertWallet" /\ Quiet(h)
      BY <1>1, <1>2, <1>4 DEF IInv, TypeOK, Goto, Quiet, tables
    <2>2. job[h].mode \in {None, "insert"}
      BY <1>2 DEF RowInv, RowWorker, About
    <2> QED BY <1>2, <2>1, <2>2, OpeningStep
  <1> QED BY <1>3, <1>4 DEF ExistsForPlayerCurrency

\* InsertWallet: nobody else has the slot, committed or about to be.
LEMMA InsertWalletRows ==
  ASSUME IInv, RowInv, NEW h \in Handlers, InsertWallet(h)
  PROVE  RowInv'
  <1> DEFINE w == job[h].wid
             s == OpeningWrites(w, Accounts[w])
             mode == IF Accounts[w].initial = 0 THEN None ELSE "insert"
             a == [NoAns EXCEPT !.out = "CREATED", !.balance = Accounts[w].initial]
             j == [job[h] EXCEPT !.writes = s, !.id = w, !.mode = mode, !.ans = a]
  <1>1. pc[h] = "insertWallet" /\ UNCHANGED tables
    BY DEF InsertWallet
  <1>2. /\ h \in Workers /\ h \notin Resolvers /\ job[h] \in Jobs /\ job[h].cmd = NoCmd
        /\ job[h].failing = FALSE /\ w \in Wallets /\ ~wallets[w].open /\ job[h].inboxed = FALSE
        /\ Opens(h)
    BY <1>1, OpeningHands
  <1>3. CASE Abandon(h, "WALLET_ALREADY_EXISTS")
    BY <1>1, <1>2, <1>3, AbandonKeeps
  <1>4. CASE /\ \A y \in Handlers \ {h} :
                  ~(pc[y] = "commit" /\ job[y].cmd = NoCmd /\ SameSlot(job[y].wid, w))
             /\ ~ \E v \in Wallets : wallets[v].open /\ SameSlot(v, w)
             /\ job' = [job EXCEPT ![h].writes = s, ![h].id = w, ![h].mode = mode, ![h].ans = a]
             /\ Goto(h, "commit")
    <2>1. mode \in {None, "insert"} /\ None \notin {"insert", "update", "attempt"}
      BY DEF None
    <2>2. mode = IF Accounts[w].initial = 0 THEN None ELSE "insert"
      OBVIOUS
    <2> HIDE DEF s, a, mode
    <2>3. job' = [job EXCEPT ![h] = j] /\ pc' = [pc EXCEPT ![h] = "commit"]
      BY <1>4 DEF Goto
    <2>4. /\ j.wid = w /\ j.cmd = NoCmd /\ j.writes = s /\ j.failing = FALSE /\ j.id = w
          /\ j.mode = mode /\ j.inboxed = FALSE
      BY <1>2 DEF Jobs
    <2> HIDE DEF j
    <2>5. job'[h] = j /\ pc'[h] = "commit" /\ Quiet(h)
      BY <1>1, <1>2, <2>3 DEF IInv, TypeOK, Quiet, tables
    <2>6. Opens(h)' /\ txs' = txs /\ wallets' = wallets
      BY <2>4, <2>5 DEF Opens, Quiet
    <2>7. About(h)'
      BY <1>2, <2>1, <2>2, <2>4, <2>5, <2>6 DEF About
    <2>8. ~Stored(w)
      <3>1. RowKept(w)
        BY <1>2 DEF RowInv, RowTables, AllIds
      <3> QED BY <1>2, <3>1 DEF RowKept
    <2>9. Owns(h)'
      <3>1. ~Stored(job[h].id)' /\ job'[h].id \in AllIds
        BY <1>2, <2>4, <2>5, <2>6, <2>8 DEF Stored, AllIds
      <3>2. (\A v \in Wallets : wallets[v].open => ~SameSlot(v, job[h].wid))'
        BY <1>4, <2>4, <2>5, <2>6 DEF SameSlot
      <3> QED BY <1>2, <2>1, <2>4, <2>5, <2>6, <3>1, <3>2 DEF Owns
    <2>10. Buffers(h)' /\ Planned(h)' /\ Answered(h)'
      BY <2>4, <2>5, <2>6 DEF Buffers, Planned, Settles, Answered, AfterSave
    <2>11. ASSUME NEW y \in Workers \ {h} PROVE Apart(h, y)' /\ Apart(y, h)'
      <3>1. pc'[y] = pc[y] /\ job'[y] = job[y] /\ (Opens(y)' <=> Opens(y))
        BY <2>5, <2>11 DEF Quiet, Opens
      <3>2. job[y].id # w
        <4>1. SUFFICES ASSUME job[y].id = w PROVE FALSE
          OBVIOUS
        <4>2. Opens(y) /\ pc[y] = "commit" /\ job[y].wid = w
          BY <1>2, <2>11, <4>1 DEF RowInv, RowWorker, Owns, About
        <4>3. Unborn(h) /\ y \in Handlers \ {h}
          BY <1>2, <2>11, <4>2 DEF IInv, WorkerInv, Opens
        <4> QED BY <1>1, <1>2, <4>2, <4>3 DEF Unborn, OpeningPCs
      <3>3. Opens(y) /\ pc[y] = "commit" => ~SameSlot(job[y].wid, w) /\ ~SameSlot(w, job[y].wid)
        BY <1>4, <2>11 DEF Opens, SameSlot
      <3>4. Opens(y) /\ pc[y] = "commit" =>
              ~SameSlot(job[y].wid, job[h].wid)' /\ ~SameSlot(job[h].wid, job[y].wid)'
        BY <2>4, <2>5, <3>1, <3>3
      <3>5. Apart(h, y)'
        BY <2>1, <2>4, <2>5, <2>6, <3>1, <3>2, <3>4 DEF Apart
      <3>6. Apart(y, h)'
        BY <2>1, <2>4, <2>5, <2>6, <3>1, <3>2, <3>4 DEF Apart
      <3> QED BY <3>5, <3>6
    <2> QED BY <1>2, <2>5, <2>7, <2>9, <2>10, <2>11, QuietKeeps DEF RowWorker
  <1> QED BY <1>3, <1>4 DEF InsertWallet

-----------------------------------------------------------------------------
(* ResolveReferences.                                                      *)

\* A claim, a pass over the batch and its end only change the batch.
LEMMA BatchRows ==
  ASSUME IInv, RowInv, NEW r \in Resolvers, pc[r] \in {"idle", "next"}, NEW l \in {"idle", "next"},
         NEW batch, job' = [job EXCEPT ![r] = [job[r] EXCEPT !.batch = batch]],
         pc' = [pc EXCEPT ![r] = l], UNCHANGED tables
  PROVE  RowInv'
  <1> DEFINE j == [job[r] EXCEPT !.batch = batch]
  <1>1. r \in Workers /\ r \notin Handlers /\ job[r] \in Jobs
    BY WageringAssumption DEF Workers, IInv, TypeOK
  <1>2. /\ j.wid = job[r].wid /\ j.cmd = job[r].cmd /\ j.row = job[r].row
        /\ j.writes = job[r].writes /\ j.failing = job[r].failing /\ j.id = job[r].id
        /\ j.mode = job[r].mode /\ j.inboxed = job[r].inboxed
    BY <1>1 DEF Jobs
  <1>3. job' = [job EXCEPT ![r] = j]
    OBVIOUS
  <1> HIDE DEF j
  <1>4. job'[r] = j /\ pc'[r] = l /\ Quiet(r)
    BY <1>1, <1>3 DEF IInv, TypeOK, Quiet, tables
  <1>5. About(r) /\ Owns(r) /\ Buffers(r) /\ pc[r] \notin AfterSave /\ l \notin AfterSave
    BY <1>1 DEF RowInv, RowWorker, AfterSave
  <1>6. job[r].writes = NoWrites /\ job[r].inboxed = FALSE /\ job[r].id \notin Wallets
    BY <1>1, <1>5 DEF Buffers, Owns, Opens, Jobs, AfterSave
  <1>7. About(r)'
    <2>1. job[r].mode # None => Waiting(Unlinked(job[r].row))'
      BY <1>2, <1>4, <1>5 DEF About
    <2> QED BY <1>1, <1>2, <1>4, <1>5, <2>1 DEF About, Opens, Quiet
  <1>8. Planned(r)' /\ Answered(r)'
    BY <1>1, <1>4, <1>5 DEF Planned, Answered, AfterSave
  <1>9. \A y \in Workers \ {r} : pc[y] \in AfterSave /\ job[y].mode = "insert" => job'[r].id # job[y].id
    BY <1>1, <1>2, <1>4, IdKept
  <1> QED BY <1>1, <1>2, <1>4, <1>5, <1>6, <1>7, <1>8, <1>9, UnsavedKeeps

\* ClaimPendingReference.
LEMMA ClaimRows ==
  ASSUME IInv, RowInv, NEW r \in Resolvers, Claim(r)
  PROVE  RowInv'
  <1>1. PICK rows \in SUBSET DueRows(r) :
          job' = [job EXCEPT ![r].batch = { [id |-> id, attempts |-> retry[id].attempts] : id \in rows }]
    BY DEF Claim
  <1> DEFINE batch == { [id |-> id, attempts |-> retry[id].attempts] : id \in rows }
  <1>2. /\ job' = [job EXCEPT ![r] = [job[r] EXCEPT !.batch = batch]]
        /\ pc[r] \in {"idle", "next"} /\ pc' = [pc EXCEPT ![r] = "next"] /\ UNCHANGED tables
    BY <1>1 DEF Claim, Goto
  <1> HIDE DEF batch
  <1> QED BY <1>2, BatchRows

\* The end of a pass.
LEMMA EndPassRows ==
  ASSUME IInv, RowInv, NEW r \in Resolvers, EndPass(r)
  PROVE  RowInv'
  <1>1. job[r] \in Jobs /\ r \in Workers
    BY DEF Workers, IInv, TypeOK
  <1>2. [job[r] EXCEPT !.batch = job[r].batch] = job[r]
    BY <1>1 DEF Jobs
  <1>3. job' = [job EXCEPT ![r] = [job[r] EXCEPT !.batch = job[r].batch]]
    BY <1>1, <1>2 DEF EndPass, IInv, TypeOK
  <1>4. pc[r] \in {"idle", "next"} /\ pc' = [pc EXCEPT ![r] = "idle"] /\ UNCHANGED tables
    BY DEF EndPass, Goto
  <1> QED BY <1>3, <1>4, BatchRows

\* A row, stored or not, has a status.
LEMMA RowStatus ==
  ASSUME TypeOK, NEW id \in AllIds
  PROVE  txs[id].status \in Statuses \cup {"ABSENT"}
  BY DEF TypeOK, Rows, NoTx

\* A parked row as it is stored.
LEMMA ParkedStored ==
  ASSUME IInv, RowInv, NEW id \in TxIds, Parked(id)
  PROVE  /\ txs[id] \in Rows /\ Stored(id) /\ Waiting(Unlinked(txs[id])) /\ txs[id].refId = None
         /\ Unlinked(txs[id]) = txs[id]
  <1>1. id \in AllIds /\ Stored(id)
    BY DEF AllIds, Parked, Stored
  <1>2. txs[id] \in Rows
    BY <1>1, LookupTyped DEF IInv
  <1>3. RowKept(id)
    BY <1>1 DEF RowInv, RowTables
  <1>4. Waiting(txs[id])
    BY <1>3 DEF RowKept
  <1>5. txs[id].refId = None
    BY <1>4 DEF Waiting
  <1>6. Unlinked(txs[id]) = txs[id]
    BY <1>2, <1>5 DEF Unlinked, Rows
  <1> QED BY <1>1, <1>2, <1>4, <1>5, <1>6

\* settleOne loads a row that is parked.
LEMMA LoadPendingRows ==
  ASSUME IInv, RowInv, NEW r \in Resolvers, NEW rec \in job[r].batch, LoadPending(r, rec)
  PROVE  RowInv'
  <1> DEFINE rest == job[r].batch \ {rec}
             row == txs[rec.id]
             j == [IdleJob EXCEPT !.batch = rest, !.rec = rec, !.id = rec.id,
                                  !.row = row, !.mode = "update",
                                  !.wid = row.body.wallet,
                                  !.late = retry[rec.id].expired]
  <1>1. r \in Workers /\ r \notin Handlers /\ job[r] \in Jobs
    BY WageringAssumption DEF Workers, IInv, TypeOK
  <1>2. rec.id \in TxIds /\ pc[r] = "next" /\ UNCHANGED tables
    BY <1>1 DEF Jobs, Records, LoadPending
  <1>3. CASE row.status # "PENDING_REFERENCE"
    <2>1. job' = [job EXCEPT ![r] = [job[r] EXCEPT !.batch = rest]]
      BY <1>3 DEF LoadPending
    <2>2. pc' = [pc EXCEPT ![r] = "next"]
      BY <1>1, <1>2, <1>3 DEF LoadPending, IInv, TypeOK
    <2> HIDE DEF rest
    <2> QED BY <1>2, <2>1, <2>2, BatchRows
  <1>4. CASE row.status = "PENDING_REFERENCE"
    <2>1. row \in Rows /\ Stored(rec.id) /\ Waiting(Unlinked(row)) /\ row.refId = None
      BY <1>2, <1>4, ParkedStored DEF Parked
    <2>2. job' = [job EXCEPT ![r] = j] /\ pc' = [pc EXCEPT ![r] = "lock"]
      BY <1>4 DEF LoadPending, Goto
    <2>3. /\ j.wid = row.body.wallet /\ j.cmd = NoCmd /\ j.writes = NoWrites /\ j.failing = FALSE
          /\ j.id = rec.id /\ j.row = row /\ j.mode = "update" /\ j.inboxed = FALSE
      BY DEF IdleJob
    <2> HIDE DEF j
    <2>4. job'[r] = j /\ pc'[r] = "lock" /\ Quiet(r)
      BY <1>1, <1>2, <2>2 DEF IInv, TypeOK, Quiet, tables
    <2>5. Planned(r)'
      BY <2>4 DEF Planned, AfterSave
    <2> QED BY <1>2, <2>1, <2>3, <2>4, <2>5, ResolverKeeps
  <1> QED BY <1>3, <1>4

\* What a resolver has in hand before its decision, or before it records a failure.
LEMMA ParkedHands ==
  ASSUME IInv, RowInv, NEW r \in Resolvers, pc[r] \in {"lock", "failSave"}
  PROVE  /\ r \in Workers /\ r \notin Handlers /\ job[r] \in Jobs /\ job[r].row \in Rows
         /\ Waiting(Unlinked(job[r].row)) /\ job[r].row.refId = None
         /\ job[r].writes = NoWrites /\ job[r].inboxed = FALSE
         /\ job[r].id \in TxIds /\ Stored(job[r].id) /\ job[r].row.key = txs[job[r].id].key
         /\ job[r].row.body = txs[job[r].id].body
         /\ job[r].failing = (pc[r] = "failSave") /\ (pc[r] = "lock" => job[r].wid = job[r].row.body.wallet)
         /\ job[r].cmd = NoCmd /\ job[r].mode = "update"
  <1>1. r \in Workers /\ r \notin Handlers
    BY WageringAssumption DEF Workers
  <1>2. job[r] \in Jobs /\ Shape(r) /\ About(r) /\ Owns(r) /\ Buffers(r)
    BY <1>1 DEF IInv, TypeOK, WorkerInv, RowInv, RowWorker
  <1>3. job[r].mode = "update" /\ job[r].row \in Rows /\ job[r].cmd = NoCmd /\ Stored(job[r].id)
        /\ job[r].failing = (pc[r] = "failSave")
    BY <1>1, <1>2 DEF Shape, Jobs
  <1>4. "update" # None
    BY DEF None
  <1>5. /\ job[r].id \in TxIds /\ Waiting(Unlinked(job[r].row)) /\ job[r].row.refId = None
        /\ job[r].row.key = txs[job[r].id].key /\ job[r].row.body = txs[job[r].id].body
        /\ pc[r] = "lock" => job[r].wid = job[r].row.body.wallet
    BY <1>2, <1>3, <1>4 DEF About
  <1>6. job[r].writes = NoWrites /\ job[r].inboxed = FALSE
    BY <1>2 DEF Owns, Buffers, AfterSave, Jobs
  <1> QED BY <1>1, <1>2, <1>3, <1>5, <1>6

\* The reference worker locks the wallet.
LEMMA GetForUpdateParkedRows ==
  ASSUME IInv, RowInv, NEW r \in Resolvers, GetForUpdateParked(r)
  PROVE  RowInv'
  <1> DEFINE j == [job[r] EXCEPT !.seen = wallets[job[r].wid]]
  <1>1. pc[r] = "lock" /\ UNCHANGED tables /\ r \in Workers /\ job[r] \in Jobs
    BY DEF GetForUpdateParked, Workers, IInv, TypeOK
  <1>2. CASE Abandon(r, "NOT_FOUND")
    BY <1>1, <1>2, AbandonKeeps
  <1>3. CASE job' = [job EXCEPT ![r].seen = wallets[job[r].wid]] /\ Goto(r, "decide")
    <2>1. job' = [job EXCEPT ![r] = j] /\ pc' = [pc EXCEPT ![r] = "decide"]
      BY <1>3 DEF Goto
    <2>2. /\ j.wid = job[r].wid /\ j.cmd = job[r].cmd /\ j.writes = job[r].writes
          /\ j.failing = job[r].failing /\ j.id = job[r].id /\ j.row = job[r].row
          /\ j.mode = job[r].mode /\ j.inboxed = job[r].inboxed
      BY <1>1 DEF Jobs
    <2> HIDE DEF j
    <2>3. job'[r] = j /\ pc'[r] = "decide" /\ Quiet(r)
      BY <1>1, <2>1 DEF IInv, TypeOK, Quiet, tables
    <2>4. Planned(r)'
      BY <2>3 DEF Planned, AfterSave
    <2>5. /\ job[r].row \in Rows /\ Waiting(Unlinked(job[r].row)) /\ job[r].row.refId = None
          /\ job[r].writes = NoWrites /\ job[r].inboxed = FALSE
          /\ job[r].id \in TxIds /\ Stored(job[r].id) /\ job[r].row.key = txs[job[r].id].key
          /\ job[r].row.body = txs[job[r].id].body
          /\ job[r].failing = FALSE /\ job[r].wid = job[r].row.body.wallet
          /\ job[r].cmd = NoCmd /\ job[r].mode = "update"
      BY <1>1, ParkedHands
    <2> QED BY <2>2, <2>3, <2>4, <2>5, ResolverKeeps
  <1> QED BY <1>2, <1>3 DEF GetForUpdateParked

\* recordPermanentFailure reloads the row.
LEMMA LoadFailingRows ==
  ASSUME IInv, RowInv, NEW r \in Resolvers, LoadFailing(r)
  PROVE  RowInv'
  <1> DEFINE rec == job[r].rec
             row == txs[rec.id]
             j == [job[r] EXCEPT !.row = row, !.id = rec.id, !.mode = "update"]
  <1>1. r \in Workers /\ r \notin Handlers /\ job[r] \in Jobs /\ Shape(r) /\ pc[r] = "failLoad"
        /\ UNCHANGED tables
    BY WageringAssumption DEF Workers, IInv, TypeOK, WorkerInv, LoadFailing
  <1>2. rec.id \in TxIds /\ job[r].failing = TRUE /\ job[r].cmd = NoCmd
    BY <1>1 DEF Shape, Records, Jobs
  <1>3. CASE NextRecord(r)
    BY <1>1, <1>3, NextRecordKeeps
  <1>4. CASE row.status = "PENDING_REFERENCE"
    <2>1. row \in Rows /\ Stored(rec.id) /\ Waiting(Unlinked(row)) /\ row.refId = None
      BY <1>2, <1>4, ParkedStored DEF Parked
    <2>2. job' = [job EXCEPT ![r] = j] /\ pc' = [pc EXCEPT ![r] = "failSave"]
      BY <1>4 DEF LoadFailing, Goto
    <2>3. job[r].writes = NoWrites /\ job[r].inboxed = FALSE
      <3>1. Owns(r) /\ Buffers(r)
        BY <1>1 DEF RowInv, RowWorker
      <3> QED BY <1>1, <3>1 DEF Owns, Buffers, AfterSave, Jobs
    <2> HIDE DEF row
    <2>4. /\ j.cmd = NoCmd /\ j.writes = NoWrites /\ j.failing = TRUE
          /\ j.id = rec.id /\ j.row = row /\ j.mode = "update" /\ j.inboxed = FALSE
      BY <1>1, <1>2, <2>3 DEF Jobs
    <2> HIDE DEF j
    <2>5. job'[r] = j /\ pc'[r] = "failSave" /\ Quiet(r)
      BY <1>1, <2>2 DEF IInv, TypeOK, Quiet, tables
    <2>6. Planned(r)'
      BY <2>5 DEF Planned, AfterSave
    <2>7. row.key = txs[rec.id].key /\ row.body = txs[rec.id].body
      BY DEF row
    <2> QED BY <1>2, <2>1, <2>4, <2>5, <2>6, <2>7, ResolverKeeps
  <1> QED BY <1>3, <1>4 DEF LoadFailing

\* recordPermanentFailure saves FAILED, on a row that is still parked.
LEMMA SaveFailedRows ==
  ASSUME IInv, RowInv, NEW r \in Resolvers, SaveFailed(r)
  PROVE  RowInv'
  <1> DEFINE s == [NoWrites EXCEPT
                     !.row = MarkFailed(job[r].row, "INFRASTRUCTURE_FAILURE"),
                     !.events = {Event("WagerTransactionRejected", job[r].id)}]
             j == [job[r] EXCEPT !.writes = s]
  <1>1. pc[r] = "failSave" /\ UNCHANGED tables /\ ~RowLocked(r, job[r].id)
    BY DEF SaveFailed
  <1>2. /\ r \in Workers /\ r \notin Handlers /\ job[r] \in Jobs /\ job[r].row \in Rows
        /\ Waiting(Unlinked(job[r].row)) /\ job[r].row.refId = None
        /\ job[r].writes = NoWrites /\ job[r].inboxed = FALSE
        /\ job[r].id \in TxIds /\ Stored(job[r].id) /\ job[r].row.key = txs[job[r].id].key
        /\ job[r].row.body = txs[job[r].id].body
        /\ job[r].failing = TRUE /\ job[r].cmd = NoCmd /\ job[r].mode = "update"
    BY <1>1, ParkedHands
  <1>3. CASE Abandon(r, "INTERNAL")
    BY <1>1, <1>2, <1>3, AbandonKeeps
  <1>4. CASE ~ForbidTerminalUpdate(job[r].id) /\ job' = [job EXCEPT ![r].writes = s] /\ Goto(r, "commit")
    <2>1. s = [NoWrites EXCEPT !.row = MarkFailed(job[r].row, "INFRASTRUCTURE_FAILURE"),
                               !.events = {Event("WagerTransactionRejected", job[r].id)}]
      OBVIOUS
    <2> HIDE DEF s
    <2>2. job' = [job EXCEPT ![r] = j] /\ pc' = [pc EXCEPT ![r] = "commit"]
      BY <1>4 DEF Goto
    <2>3. /\ j.wid = job[r].wid /\ j.cmd = NoCmd /\ j.writes = s /\ j.failing = TRUE
          /\ j.id = job[r].id /\ j.row = job[r].row /\ j.mode = "update" /\ j.inboxed = FALSE
      BY <1>2 DEF Jobs
    <2> HIDE DEF j
    <2>4. job'[r] = j /\ pc'[r] = "commit" /\ Quiet(r)
      BY <1>1, <1>2, <2>2 DEF IInv, TypeOK, Quiet, tables
    <2>5. ~Opens(r)' /\ ~Settles(r)' /\ txs' = txs /\ None \notin {"insert", "update", "attempt"}
      BY <1>2, <2>3, <2>4 DEF Opens, Settles, Quiet, None
    <2>6. Parked(job[r].id)
      <3>1. RowKept(job[r].id) /\ job[r].id \in AllIds
        BY <1>2 DEF RowInv, RowTables, AllIds
      <3>2. txs[job[r].id].status \in Statuses \cup {"ABSENT"}
        BY <3>1, RowStatus DEF IInv
      <3> QED BY <1>2, <1>4, <3>1, <3>2
              DEF RowKept, ForbidTerminalUpdate, IsTerminal, Parked, Stored, Statuses
    <2>7. About(r)'
      <3>1. Waiting(Unlinked(job[r].row))'
        BY <1>2, <2>3, <2>4
      <3> QED BY <1>2, <2>3, <2>4, <2>5, <3>1 DEF About
    <2>8. Owns(r)'
      <3>1. Parked(job[r].id)' /\ job'[r].id \notin Wallets
        BY <1>2, <2>3, <2>4, <2>5, <2>6, WageringAssumption DEF Parked
      <3> QED BY <2>3, <2>4, <2>5, <3>1 DEF Owns
    <2>9. Buffers(r)'
      <3>1. (job[r].writes = [NoWrites EXCEPT !.row = MarkFailed(job[r].row, "INFRASTRUCTURE_FAILURE"),
                                              !.events = {Event("WagerTransactionRejected", job[r].id)}])'
        BY <2>1, <2>3, <2>4
      <3> QED BY <2>3, <2>4, <2>5, <3>1 DEF Buffers, AfterSave
    <2>10. Planned(r)' /\ Answered(r)'
      BY <1>2, <2>5 DEF Planned, Answered
    <2>11. \A y \in Workers \ {r} : Apart(r, y)' /\ Apart(y, r)'
      <3>1. \A y \in Workers \ {r} : pc[y] \in AfterSave /\ job[y].mode = "insert" => job'[r].id # job[y].id
        BY <1>2, <2>3, <2>4, IdKept
      <3>2. \A y \in Workers \ {r} : pc[y] \in AfterSave /\ job[y].mode \in {"update", "attempt"}
                                        => job[y].id # job'[r].id
        BY <1>1, <2>3, <2>4 DEF RowLocked
      <3> QED BY <1>2, <2>3, <2>4, <2>5, <3>1, <3>2, SavedApart
    <2> QED BY <1>2, <2>4, <2>7, <2>8, <2>9, <2>10, <2>11, QuietKeeps DEF RowWorker
  <1> QED BY <1>3, <1>4 DEF SaveFailed

-----------------------------------------------------------------------------
(* The commit.                                                             *)

\* An update under way is the update of a row that is still parked.
LEMMA Updating ==
  ASSUME IInv, RowInv, NEW y \in Workers, pc[y] \in AfterSave, job[y].mode = "update"
  PROVE  /\ y \in Resolvers /\ y \notin Handlers /\ ~Opens(y) /\ job[y].inboxed = FALSE
         /\ job[y].row \in Rows /\ job[y].id \in TxIds /\ Parked(job[y].id)
         /\ txs[job[y].id] \in Rows /\ Waiting(Unlinked(job[y].row))
         /\ job[y].row.key = txs[job[y].id].key /\ job[y].row.body = txs[job[y].id].body
         /\ job[y].writes.row.key = job[y].row.key /\ job[y].writes.row.body = job[y].row.body
         /\ job[y].writes.row \in Rows
         /\ job[y].writes.row.status \in {"PROCESSED", "REJECTED", "FAILED"}
         /\ job[y].failing => job[y].writes.row.status = "FAILED" /\ ~job[y].writes.moved
         /\ ~job[y].failing => /\ Settles(y) /\ job[y].wid = job[y].row.body.wallet
                               /\ job[y].writes = Settlement(job[y].id, job[y].row, job[y].seen, job[y].plan)
                               /\ job[y].writes.row.refId = job[y].row.refId
  <1>1. job[y] \in Jobs /\ Shape(y) /\ About(y) /\ Buffers(y) /\ Owns(y)
    BY DEF RowInv, RowWorker, IInv, TypeOK, WorkerInv
  <1>2. "update" \notin {None, "insert", "attempt"}
    BY DEF None
  <1>3. y \in Resolvers /\ y \notin Handlers /\ ~Opens(y) /\ job[y].cmd = NoCmd
    BY <1>1, <1>2 DEF About, Workers, Opens, Shape
  <1>4. /\ job[y].id \in TxIds /\ Waiting(Unlinked(job[y].row))
        /\ job[y].row.key = txs[job[y].id].key /\ job[y].row.body = txs[job[y].id].body
        /\ ~job[y].failing => job[y].wid = job[y].row.body.wallet
    BY <1>1, <1>2, <1>3 DEF About
  <1>5. job[y].row \in Rows \cup {NoTx} /\ job[y].plan \in Plans
    BY <1>1 DEF Jobs
  <1>6. job[y].row \in Rows
    <2>1. ~Waiting(Unlinked(NoTx))
      BY DEF Unlinked, NoTx, Waiting
    <2> QED BY <1>4, <1>5, <2>1
  <1>7. job[y].inboxed = FALSE
    <2>1. NoCmd \notin Commands
      BY NoCmdIsNone
    <2> QED BY <1>1, <1>3, <2>1 DEF Shape, Jobs
  <1>8. Parked(job[y].id) /\ txs[job[y].id] \in Rows
    BY <1>1, <1>4, ParkedStored DEF Owns
  <1>9. job[y].writes.row \in Rows
    BY <1>1 DEF Shape
  <1>10. CASE job[y].failing
    <2>1. pc[y] = "commit"
      BY <1>1, <1>10 DEF Shape, AfterSave
    <2>2. job[y].writes = [NoWrites EXCEPT !.row = MarkFailed(job[y].row, "INFRASTRUCTURE_FAILURE"),
                              !.events = {Event("WagerTransactionRejected", job[y].id)}]
      BY <1>1, <1>10, <2>1 DEF Buffers
    <2>3. job[y].writes.row = MarkFailed(job[y].row, "INFRASTRUCTURE_FAILURE") /\ ~job[y].writes.moved
      BY <2>2 DEF NoWrites
    <2> QED BY <1>3, <1>4, <1>5, <1>6, <1>7, <1>8, <1>9, <1>10, <2>3, Marked
  <1>11. CASE ~job[y].failing
    <2>1. Settles(y)
      BY <1>3, <1>11 DEF Settles
    <2>2. job[y].writes = Settlement(job[y].id, job[y].row, job[y].seen, job[y].plan)
          /\ job[y].plan.kind # "PENDING_REFERENCE"
      BY <1>1, <2>1 DEF Buffers
    <2>3. /\ job[y].writes.row.key = job[y].row.key /\ job[y].writes.row.body = job[y].row.body
          /\ job[y].writes.row.refId = job[y].row.refId
          /\ job[y].writes.row.status \in {"PROCESSED", "REJECTED"}
      BY <1>5, <2>2, SettledRow
    <2> QED BY <1>3, <1>4, <1>6, <1>7, <1>8, <1>9, <1>11, <2>1, <2>2, <2>3
  <1> QED BY <1>10, <1>11

\* An opening that commits has a wallet and a slot nobody else has.
LEMMA OpeningCommit ==
  ASSUME IInv, RowInv, NEW x \in Workers, pc[x] = "commit", Opens(x)
  PROVE  LET w == job[x].wid
             s == OpeningWrites(w, Accounts[w])
         IN  /\ x \in Handlers /\ x \notin Resolvers /\ job[x].inboxed = FALSE
             /\ w \in Wallets /\ ~wallets[w].open /\ ~Stored(w) /\ job[x].id = w
             /\ job[x].writes = s /\ s.moved = TRUE /\ s.wallet.open = TRUE
             /\ job[x].mode = IF Accounts[w].initial = 0 THEN None ELSE "insert"
             /\ job[x].mode = "insert" => s.row = NewOpening(w, Accounts[w])
             /\ \A v \in Wallets : wallets[v].open => ~SameSlot(v, w)
  <1> DEFINE w == job[x].wid
  <1>1. job[x] \in Jobs /\ Shape(x) /\ Unborn(x) /\ About(x) /\ Owns(x)
    BY DEF RowInv, RowWorker, IInv, TypeOK, WorkerInv
  <1>2. x \in Handlers /\ x \notin Resolvers /\ job[x].cmd = NoCmd
    BY WageringAssumption DEF Opens
  <1>3. job[x].inboxed = FALSE
    <2>1. NoCmd \notin Commands
      BY NoCmdIsNone
    <2> QED BY <1>1, <1>2, <2>1 DEF Shape, Jobs
  <1>4. w \in Wallets /\ ~wallets[w].open /\ job[x].writes = OpeningWrites(w, Accounts[w])
    BY <1>1 DEF Unborn, OpeningPCs
  <1>5. job[x].id = w /\ job[x].mode = IF Accounts[w].initial = 0 THEN None ELSE "insert"
    BY <1>1 DEF About
  <1>6. ~Stored(w)
    <2>1. RowKept(w)
      BY <1>4 DEF RowInv, RowTables, AllIds
    <2> QED BY <1>4, <2>1 DEF RowKept
  <1>7. job[x].mode = "insert" => OpeningWrites(w, Accounts[w]).row = NewOpening(w, Accounts[w])
    BY <1>5 DEF OpeningWrites, None
  <1>8. OpeningWrites(w, Accounts[w]).moved = TRUE /\ OpeningWrites(w, Accounts[w]).wallet.open = TRUE
    BY <1>4, OpeningTyped
  <1>9. \A v \in Wallets : wallets[v].open => ~SameSlot(v, w)
    BY <1>1 DEF Owns
  <1> QED BY <1>2, <1>3, <1>4, <1>5, <1>6, <1>7, <1>8, <1>9

\* An update of the four columns of a parked row is the whole new row.
LEMMA RowReplaced ==
  ASSUME NEW old \in Rows, NEW new \in Rows, new.key = old.key, new.body = old.body
  PROVE  [old EXCEPT !.status = new.status, !.failure = new.failure, !.result = new.result,
                     !.refId = new.refId] = new
  BY DEF Rows

=============================================================================
