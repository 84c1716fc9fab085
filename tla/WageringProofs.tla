--------------------------- MODULE WageringProofs ---------------------------
(***************************************************************************)
(* IInv is an invariant of Wagering, and with it the types, the ledger     *)
(* chain and the redundancy of the version check, for any number of        *)
(* workers, wallets, requests, retries and faults.                         *)
(*                                                                         *)
(* One lemma per action says that it keeps IInv.  They share a few lemmas  *)
(* on kinds of step: Frame and Others (what a step of x leaves true of y), *)
(* Resting, Answering, MovingOn, Abandoning (a unit of work ends), LockStep*)
(* and HoldStep (it takes, or keeps, the wallet), PlanStep (it only decides*)
(* something), CommitApplies (its buffer reaches the tables).              *)
(***************************************************************************)
EXTENDS WageringInv, SequenceTheorems, TLAPS

-----------------------------------------------------------------------------
(* Types of the constants of the model.                                    *)

\* The null values of rows, plans and writes have their types.
LEMMA NullsTyped ==
  /\ NoWallet \in WalletRows /\ NoWrites \in Writes /\ NoAns \in Answers
  /\ Park \in Plans
  <1>1. 0 \in Amounts /\ None \in Ids
    BY MaxMoneyAssumption DEF Amounts, Ids
  <1>2. NoWallet \in WalletRows
    BY <1>1 DEF NoWallet, WalletRows
  <1>3. NoWrites \in Writes
    BY <1>2 DEF NoWrites, Writes
  <1>4. NoAns \in Answers
    BY <1>1 DEF NoAns, Answers, Outcomes
  <1>5. Park \in Plans
    BY DEF Park, Plans
  <1> QED BY <1>2, <1>3, <1>4, <1>5

\* A worker at rest has well-typed locals.
LEMMA IdleTyped == IdleJob \in Jobs
  BY NullsTyped DEF IdleJob, Jobs, Ids

\* So has the answer a failed unit of work gives its caller.
LEMMA ErrorTyped == \A code \in Outcomes : Error(code) \in Answers
  BY NullsTyped DEF Error, Answers

-----------------------------------------------------------------------------
(* The frame: a step of x disturbs nothing IInv says of another worker,    *)
(* unless it touches a wallet that worker holds or is about to open.       *)

\* What a step of x does with everyone else's locals and locks.
Alone(x) ==
    /\ \A y \in Workers \ {x} : pc'[y] = pc[y] /\ job'[y] = job[y]
    /\ \A w \in Wallets : holder[w] \in Workers \ {x} => holder'[w] = holder[w]

\* A step of x keeps what the other workers rely on when it leaves their locals
\* and locks alone, changes no wallet they hold or open, and deletes no row.
LEMMA Others ==
  ASSUME IInv, NEW x \in Workers, Alone(x), WorkerInv(x)',
         \A y \in Workers \ {x} : Holding(y) => wallets'[job[y].wid] = wallets[job[y].wid],
         \A y \in Handlers \ {x} : Opens(y) /\ pc[y] \in OpeningPCs =>
                                      wallets'[job[y].wid] = wallets[job[y].wid],
         \A id \in AllIds : Stored(id) => Stored(id)'
  PROVE  \A y \in Workers : WorkerInv(y)'
  <1> SUFFICES ASSUME NEW y \in Workers, y # x PROVE WorkerInv(y)'
    OBVIOUS
  <1>1. pc'[y] = pc[y] /\ job'[y] = job[y] /\ WorkerInv(y)
    BY DEF IInv, Alone
  <1>2. Shape(y)'
    BY <1>1 DEF WorkerInv, Shape
  <1>3. Locked(y)'
    BY <1>1 DEF WorkerInv, Locked, Holding, Opens, Shape, LockedPCs, Alone
  <1>4. Continues(y)'
    BY <1>1 DEF WorkerInv, Continues, Holding, Opens
  <1>5. Unborn(y)'
    <2>1. \A z \in Handlers \ {y} : z # x => pc'[z] = pc[z] /\ job'[z] = job[z]
      BY DEF Workers, Alone
    <2>2. Unborn(y) /\ Unborn(x)'
      BY <1>1 DEF WorkerInv
    <2> QED BY <2>1, <2>2, <1>1 DEF Unborn, Opens
  <1> QED BY <1>2, <1>3, <1>4, <1>5 DEF WorkerInv

\* A step of x that commits nothing: its own new position and locals are all
\* there is to check.
LEMMA Frame ==
  ASSUME IInv, NEW x \in Workers, Alone(x), WorkerInv(x)', UNCHANGED tables,
         job'[x] \in Jobs, pc'[x] \in PCs, job' = [job EXCEPT ![x] = job'[x]],
         pc' = [pc EXCEPT ![x] = pc'[x]],
         holder' \in [Wallets -> Workers \cup {NoOne}],
         sent' \in 0..MaxSends, faults' \in 0..MaxFaults
  PROVE  IInv'
  <1>1. TypeOK'
    BY DEF IInv, TypeOK, tables
  <1>2. \A y \in Workers : WorkerInv(y)'
    <2>1. \A id \in AllIds : Stored(id) => Stored(id)'
      BY DEF tables, Stored
    <2>2. wallets' = wallets
      BY DEF tables
    <2> QED BY <2>1, <2>2, Others
  <1>3. NoLedgerBeforeOpening' /\ LedgerChain'
    BY DEF IInv, NoLedgerBeforeOpening, LedgerChain, tables
  <1> QED BY <1>1, <1>2, <1>3 DEF IInv

\* The positions in which a worker has nothing locked and nothing buffered.
RestPCs == {"idle", "reply", "next", "failLoad"}

\* A worker at rest promises nothing, whatever the tables hold.
LEMMA AtRest ==
  ASSUME NEW x \in Workers, job'[x].writes = NoWrites, job'[x].inboxed = FALSE,
         job'[x].mode = None, pc'[x] \in RestPCs,
         x \in Handlers => pc'[x] \in {"idle", "reply"} /\ ~job'[x].failing,
         x \in Resolvers => pc'[x] # "reply" /\ job'[x].cmd = NoCmd,
         pc'[x] = "failLoad" => job'[x].rec \in Records,
         job'[x].failing <=> pc'[x] = "failLoad"
  PROVE  WorkerInv(x)'
  <1> USE DEF RestPCs, LockedPCs
  <1>1. Shape(x)'
    BY DEF Shape, AfterSave, HandlerPCs, ResolverPCs, NoWrites, None
  <1>2. Locked(x)' /\ Continues(x)' /\ Unborn(x)'
    BY DEF Locked, Continues, Unborn, Holding, OpeningPCs
  <1> QED BY <1>1, <1>2 DEF WorkerInv

-----------------------------------------------------------------------------
(* How a unit of work ends.                                                *)

\* Worker x comes to rest in a typed state and disturbs nobody.
Rests(x) ==
    /\ WorkerInv(x)' /\ Alone(x)
    /\ job'[x] \in Jobs /\ job' = [job EXCEPT ![x] = job'[x]]
    /\ pc'[x] \in PCs   /\ pc' = [pc EXCEPT ![x] = pc'[x]]

\* Releasing gives up the locks of x and no other.
LEMMA ReleasedTyped ==
  ASSUME TypeOK, NEW x \in Workers
  PROVE  /\ Released(x) \in [Wallets -> Workers \cup {NoOne}]
         /\ \A w \in Wallets : holder[w] \in Workers \ {x} => Released(x)[w] = holder[w]
  BY DEF TypeOK, Released

\* A worker whose locals become an idle job but for cmd, ans, batch and rec rests.
LEMMA Resting ==
  ASSUME IInv, NEW x \in Workers, NEW j \in Jobs, NEW l \in RestPCs,
         job' = [job EXCEPT ![x] = j], pc' = [pc EXCEPT ![x] = l],
         holder' \in {holder, Released(x)},
         j.writes = NoWrites, j.inboxed = FALSE, j.mode = None,
         x \in Handlers => l \in {"idle", "reply"} /\ ~j.failing,
         x \in Resolvers => l # "reply" /\ j.cmd = NoCmd,
         l = "failLoad" => j.rec \in Records,
         j.failing <=> l = "failLoad"
  PROVE  Rests(x)
  <1>1. job \in [Workers -> Jobs] /\ pc \in [Workers -> PCs] /\ TypeOK
    BY DEF IInv, TypeOK
  <1>2. job'[x] = j /\ pc'[x] = l
    BY <1>1
  <1>3. l \in PCs
    BY DEF RestPCs, PCs
  <1>4. WorkerInv(x)'
    BY <1>2, AtRest
  <1>5. Alone(x)
    BY <1>1, ReleasedTyped DEF Alone
  <1> QED BY <1>1, <1>2, <1>3, <1>4, <1>5 DEF Rests

\* A handler that answers rests.
LEMMA Answering ==
  ASSUME IInv, NEW h \in Handlers, NEW a \in Answers, AnswerWith(h, a),
         holder' \in {holder, Released(h)}
  PROVE  Rests(h)
  <1> DEFINE j == [IdleJob EXCEPT !.cmd = job[h].cmd, !.ans = a]
  <1>1. h \in Workers /\ h \notin Resolvers /\ job[h] \in Jobs
    BY WageringAssumption DEF Workers, IInv, TypeOK
  <1>2. j \in Jobs
    BY <1>1, IdleTyped DEF Jobs
  <1>3. /\ j.writes = NoWrites /\ j.inboxed = FALSE /\ j.mode = None /\ j.failing = FALSE
    BY DEF IdleJob
  <1>4. job' = [job EXCEPT ![h] = j] /\ pc' = [pc EXCEPT ![h] = "reply"]
    BY DEF AnswerWith
  <1>5. "reply" \in RestPCs
    BY DEF RestPCs
  <1> HIDE DEF j
  <1> QED BY <1>1, <1>2, <1>3, <1>4, <1>5, Resting

\* A resolver that moves on to its next record rests.
LEMMA MovingOn ==
  ASSUME IInv, NEW r \in Resolvers, NextRecord(r), holder' \in {holder, Released(r)}
  PROVE  Rests(r)
  <1> DEFINE j == [IdleJob EXCEPT !.batch = job[r].batch]
  <1>1. r \in Workers /\ r \notin Handlers /\ job[r] \in Jobs
    BY WageringAssumption DEF Workers, IInv, TypeOK
  <1>2. j \in Jobs
    BY <1>1, IdleTyped DEF Jobs
  <1>3. /\ j.writes = NoWrites /\ j.inboxed = FALSE /\ j.mode = None /\ j.failing = FALSE
        /\ j.cmd = NoCmd
    BY DEF IdleJob
  <1>4. job' = [job EXCEPT ![r] = j] /\ pc' = [pc EXCEPT ![r] = "next"]
    BY DEF NextRecord
  <1>5. "next" \in RestPCs
    BY DEF RestPCs
  <1> HIDE DEF j
  <1> QED BY <1>1, <1>2, <1>3, <1>4, <1>5, Resting

\* An error leaves its worker at rest: it answers, moves on, or turns to
\* recordPermanentFailure.
LEMMA Abandoning ==
  ASSUME IInv, NEW x \in Workers, NEW code \in Outcomes, Abandon(x, code),
         pc[x] \notin {"idle", "next"}
  PROVE  Rests(x) /\ holder' = Released(x)
  <1>1. holder' = Released(x)
    BY DEF Abandon
  <1>2. CASE x \in Handlers
    BY <1>1, <1>2, ErrorTyped, Answering DEF Abandon
  <1>3. CASE x \in Resolvers /\ NextRecord(x)
    BY <1>1, <1>3, MovingOn
  <1>4. CASE x \in Resolvers /\ ~NextRecord(x)
    <2> DEFINE j == [IdleJob EXCEPT !.batch = job[x].batch, !.rec = job[x].rec,
                                    !.failing = TRUE]
    <2>1. x \notin Handlers /\ job[x] \in Jobs
      BY <1>4, WageringAssumption DEF IInv, TypeOK
    <2>2. job[x].rec \in Records
      BY <1>4 DEF IInv, WorkerInv, Shape
    <2>3. j \in Jobs
      BY <2>1, IdleTyped DEF Jobs
    <2>4. /\ j.writes = NoWrites /\ j.inboxed = FALSE /\ j.mode = None /\ j.failing = TRUE
          /\ j.cmd = NoCmd /\ j.rec = job[x].rec
      BY DEF IdleJob
    <2>5. job' = [job EXCEPT ![x] = j] /\ pc' = [pc EXCEPT ![x] = "failLoad"]
      BY <1>4, <2>1 DEF Abandon
    <2>6. "failLoad" \in RestPCs
      BY DEF RestPCs
    <2> HIDE DEF j
    <2> QED BY <1>1, <1>4, <2>1, <2>2, <2>3, <2>4, <2>5, <2>6, Resting
  <1> QED BY <1>2, <1>3, <1>4 DEF Workers

\* Coming to rest without a commit preserves the invariant.
LEMMA RestKeeps ==
  ASSUME IInv, NEW x \in Workers, Rests(x), UNCHANGED tables,
         holder' \in {holder, Released(x)},
         sent' \in 0..MaxSends, faults' \in 0..MaxFaults
  PROVE  IInv'
  <1>1. holder' \in [Wallets -> Workers \cup {NoOne}]
    BY ReleasedTyped DEF IInv, TypeOK
  <1> QED BY <1>1, Frame DEF Rests

-----------------------------------------------------------------------------
(* What the lookups and helpers return.                                    *)

\* Every body names a wallet and carries a representable amount.
LEMMA BodyTyped == \A b \in Bodies : b.wallet \in Wallets /\ b.amount \in Amounts
  BY WageringAssumption DEF Bodies, OpeningBody, NoBody, Amounts

\* The null command is nobody's command.
LEMMA NoCmdIsNone == NoCmd \notin Commands
  BY WageringAssumption DEF NoCmd

\* A stored row is a typed row, and a lookup returns an id or nothing.
LEMMA LookupTyped ==
  ASSUME TypeOK
  PROVE  /\ \A id \in AllIds : Stored(id) => txs[id] \in Rows
         /\ \A key : GetByIdempotencyKey(key) \in Ids
         /\ \A p, e : GetByProviderExternalID(p, e) \in Ids
         /\ \A b \in Bodies : ReferenceId(b) \in Ids
  <1>1. \A id \in AllIds : Stored(id) => txs[id] \in Rows
    BY DEF TypeOK, Stored, NoTx
  <1>2. \A key : GetByIdempotencyKey(key) \in Ids
    BY DEF GetByIdempotencyKey, Ids
  <1>3. \A p, e : GetByProviderExternalID(p, e) \in Ids
    BY DEF GetByProviderExternalID, Ids
  <1>4. \A b \in Bodies : ReferenceId(b) \in Ids
    BY <1>3 DEF ReferenceId, Ids
  <1> QED BY <1>1, <1>2, <1>3, <1>4

\* A replay of any id is a typed answer.
LEMMA ReplayTyped ==
  ASSUME TypeOK
  PROVE  \A id \in AllIds : replayResult(id) \in Answers
  <1> SUFFICES ASSUME NEW id \in AllIds PROVE replayResult(id) \in Answers
    OBVIOUS
  <1>1. txs[id] \in Rows \cup {NoTx}
    BY DEF TypeOK
  <1>2. txs[id].status \in Statuses \cup {"ABSENT"} /\ txs[id].result \in Amounts \cup {NoBalance}
    BY <1>1 DEF Rows, NoTx
  <1> QED BY <1>2 DEF replayResult, Answers, Outcomes, Ids

\* Whatever the reference looks like, the verdict on it is a plan.
LEMMA PlansTyped ==
  /\ \A dir \in Directions \cup {None} : Process(dir) \in Plans
  /\ \A code \in FailureCodes : Reject(code) \in Plans
  /\ \A b, ref : ReferenceVerdict(b, ref) \in Plans
  <1>1. \A dir \in Directions \cup {None} : Process(dir) \in Plans
    BY DEF Process, Plans
  <1>2. \A code \in FailureCodes : Reject(code) \in Plans
    BY DEF Reject, Plans
  <1>3. ASSUME NEW b, NEW ref PROVE ReferenceVerdict(b, ref) \in Plans
    <2>1. Park \in Plans
      BY NullsTyped
    <2>2. Reject("REFERENCE_NOT_SUCCESSFUL") \in Plans /\ Reject("REFERENCE_MISMATCH") \in Plans
      BY <1>2 DEF FailureCodes
    <2>3. Process(reversalDirection(b.kind, ref.body.kind)) \in Plans
      BY <1>1 DEF reversalDirection, Directions
    <2> QED BY <2>1, <2>2, <2>3 DEF ReferenceVerdict
  <1> QED BY <1>1, <1>2, <1>3

-----------------------------------------------------------------------------
(* Steps inside a unit of work.                                            *)

\* Between its lock and its commit a worker is typed, holds its wallet's row
\* lock and has read that wallet's committed state.
LEMMA Busy ==
  ASSUME IInv, NEW x \in Workers, pc[x] \in LockedPCs \ {"commit"}
  PROVE  /\ job[x] \in Jobs /\ Shape(x) /\ ~Opens(x) /\ ~job[x].failing
         /\ job[x].wid \in Wallets /\ holder[job[x].wid] = x
         /\ wallets[job[x].wid].open /\ job[x].seen = wallets[job[x].wid]
         /\ x \in Handlers => job[x].cmd \in Commands
         /\ x \in Resolvers => job[x].cmd = NoCmd /\ job[x].rec \in Records
  <1>1. job[x] \in Jobs /\ WorkerInv(x)
    BY DEF IInv, TypeOK
  <1>2. Shape(x) /\ Locked(x)
    BY <1>1 DEF WorkerInv
  <1>3. ~job[x].failing
    BY <1>2 DEF Shape, LockedPCs
  <1>4. x \in Handlers => job[x].cmd \in Commands
    BY <1>2 DEF Shape, LockedPCs
  <1>5. ~Opens(x)
    BY <1>4, NoCmdIsNone DEF Opens
  <1>6. job[x].wid \in Wallets /\ (x \in Resolvers => job[x].cmd = NoCmd /\ job[x].rec \in Records)
    BY <1>2, <1>3 DEF Shape, LockedPCs
  <1> QED BY <1>1, <1>2, <1>3, <1>4, <1>5, <1>6 DEF Locked, Holding

\* A step inside the unit of work that keeps the lock, the wallet read and the
\* buffered writes only has to keep the shape of its locals.
LEMMA HoldStep ==
  ASSUME IInv, NEW x \in Workers, pc[x] \in LockedPCs \ {"commit"},
         NEW j \in Jobs, NEW l \in LockedPCs,
         job' = [job EXCEPT ![x] = j], pc' = [pc EXCEPT ![x] = l],
         UNCHANGED <<tables, holder, sent, faults>>,
         j.wid = job[x].wid, j.seen = job[x].seen, j.cmd = job[x].cmd,
         j.writes = job[x].writes, j.failing = job[x].failing,
         Shape(x)'
  PROVE  IInv'
  <1>1. job'[x] = j /\ pc'[x] = l /\ l \in PCs
    BY DEF IInv, TypeOK, LockedPCs, PCs
  <1>2. ~Opens(x)' /\ Holding(x)
    BY <1>1, Busy DEF Opens, Holding
  <1>3. Locked(x)'
    BY <1>1, Busy DEF Locked, tables
  <1>4. Continues(x)'
    <2>1. Continues(x)
      BY DEF IInv, WorkerInv
    <2> QED BY <2>1, <1>1, <1>2 DEF Continues
  <1>5. Unborn(x)'
    BY <1>2 DEF Unborn
  <1>6. Alone(x) /\ holder' \in [Wallets -> Workers \cup {NoOne}]
         /\ sent' \in 0..MaxSends /\ faults' \in 0..MaxFaults
    BY DEF Alone, IInv, TypeOK
  <1>7. WorkerInv(x)'
    BY <1>3, <1>4, <1>5 DEF WorkerInv
  <1> QED BY <1>1, <1>6, <1>7, Frame DEF IInv, TypeOK

\* A replay found inside the unit of work only buffers the answer.
LEMMA ReplayKeeps ==
  ASSUME IInv, NEW h \in Handlers, pc[h] \in {"inbox", "key", "identity"},
         NEW id \in AllIds, NEW record \in BOOLEAN, Replay(h, id, record),
         UNCHANGED <<tables, sent, faults>>
  PROVE  IInv'
  <1> DEFINE j == [job[h] EXCEPT !.ans = replayResult(id)]
             l == IF record /\ job[h].cmd.msg # None THEN "recordInbox" ELSE "commit"
  <1>1. h \in Workers /\ h \notin Resolvers /\ pc[h] \in LockedPCs \ {"commit"}
    BY WageringAssumption DEF Workers, LockedPCs
  <1>2. job[h] \in Jobs /\ Shape(h) /\ job[h].cmd \in Commands /\ ~job[h].failing
    BY <1>1, Busy
  <1>3. job' = [job EXCEPT ![h] = j] /\ pc' = [pc EXCEPT ![h] = l] /\ UNCHANGED holder
    BY DEF Replay, Goto
  <1>4. j \in Jobs
    BY <1>2, ReplayTyped DEF Jobs, IInv
  <1>5. l \in LockedPCs
    BY DEF LockedPCs
  <1>6. Shape(h)'
    <2>1. job'[h] = j /\ pc'[h] = l
      BY <1>1, <1>3 DEF IInv, TypeOK
    <2>2. l = "recordInbox" => job[h].cmd.msg \in Messages
      BY <1>2, WageringAssumption
    <2>3. job[h].mode = None
      BY <1>2 DEF Shape
    <2> QED BY <2>1, <2>2, <2>3, <1>1, <1>2 DEF Shape, HandlerPCs, LockedPCs, AfterSave, tables, Stored, None
  <1> QED BY <1>1, <1>2, <1>3, <1>4, <1>5, <1>6, HoldStep DEF Jobs

\* fastReplay answers or goes on to lock the wallet.
LEMMA FastReplayKeeps ==
  ASSUME IInv, NEW h \in Handlers, FastReplay(h)
  PROVE  IInv'
  <1>1. h \in Workers /\ h \notin Resolvers /\ job[h] \in Jobs /\ Shape(h) /\ pc[h] = "fast"
        /\ UNCHANGED <<tables, holder, sent, faults>>
    BY WageringAssumption DEF Workers, IInv, TypeOK, WorkerInv, FastReplay
  <1>2. sent' \in 0..MaxSends /\ faults' \in 0..MaxFaults
    BY <1>1 DEF IInv, TypeOK
  <1>3. ASSUME NEW a \in Answers, AnswerWith(h, a) PROVE IInv'
    BY <1>1, <1>2, <1>3, Answering, RestKeeps
  <1>4. CASE Goto(h, "lock") /\ UNCHANGED job
    <2>1. job'[h] = job[h] /\ pc'[h] = "lock" /\ pc' = [pc EXCEPT ![h] = "lock"]
          /\ job' = [job EXCEPT ![h] = job[h]]
      BY <1>1, <1>4 DEF IInv, TypeOK, Goto
    <2>2. Shape(h)'
      BY <1>1, <2>1 DEF Shape, HandlerPCs, LockedPCs, AfterSave, tables, Stored, None
    <2>3. WorkerInv(h)'
      BY <2>1, <2>2 DEF WorkerInv, Locked, Continues, Unborn, Holding, LockedPCs, OpeningPCs
    <2>4. Alone(h) /\ holder' \in [Wallets -> Workers \cup {NoOne}] /\ "lock" \in PCs
      BY <1>1, <2>1 DEF Alone, IInv, TypeOK, PCs
    <2> QED BY <1>1, <1>2, <2>1, <2>3, <2>4, Frame
  <1>5. Error("IDEMPOTENCY_CONFLICT") \in Answers
    BY ErrorTyped DEF Outcomes
  <1>6. LET id == GetByIdempotencyKey(job[h].cmd.key)
        IN  id # None => replayResult(id) \in Answers
    BY LookupTyped, ReplayTyped DEF IInv, Ids
  <1> QED BY <1>3, <1>4, <1>5, <1>6 DEF FastReplay

\* A request arrives at an idle handler.
LEMMA SubmitKeeps ==
  ASSUME IInv, NEW h \in Handlers, NEW c \in Commands, Submit(h, c)
  PROVE  IInv'
  <1> DEFINE j == [IdleJob EXCEPT !.cmd = c, !.wid = c.body.wallet]
  <1>1. h \in Workers /\ h \notin Resolvers /\ c.body.wallet \in Wallets
    BY WageringAssumption DEF Workers
  <1>2. j \in Jobs
    BY <1>1, IdleTyped DEF Jobs
  <1>3. job' = [job EXCEPT ![h] = j] /\ pc' = [pc EXCEPT ![h] = "fast"]
        /\ UNCHANGED <<tables, holder, faults>> /\ sent' \in 0..MaxSends
    BY WageringAssumption DEF Submit, Goto, IInv, TypeOK
  <1>4. job'[h] = j /\ pc'[h] = "fast"
    BY <1>1, <1>3 DEF IInv, TypeOK
  <1>5. Shape(h)'
    BY <1>1, <1>4 DEF Shape, HandlerPCs, LockedPCs, AfterSave, IdleJob, NoWrites, None
  <1>6. WorkerInv(h)'
    BY <1>4, <1>5 DEF WorkerInv, Locked, Continues, Unborn, Holding, LockedPCs, OpeningPCs
  <1>7. Alone(h) /\ holder' \in [Wallets -> Workers \cup {NoOne}] /\ "fast" \in PCs
        /\ faults' \in 0..MaxFaults
    BY <1>3 DEF Alone, IInv, TypeOK, PCs
  <1> HIDE DEF j
  <1> QED BY <1>1, <1>2, <1>3, <1>4, <1>6, <1>7, Frame

\* Taking the row lock: the wallet read under it is the committed one.
LEMMA LockStep ==
  ASSUME IInv, NEW x \in Workers, pc[x] = "lock",
         NEW l \in {"inbox", "key", "decide"},
         x \in Handlers => l # "decide", x \in Resolvers => l = "decide",
         l = "inbox" => job[x].cmd.msg \in Messages /\ job[x].cmd \in Commands,
         l = "decide" => job[x].row \in Rows,
         wallets[job[x].wid].open, holder[job[x].wid] = NoOne,
         holder' = [holder EXCEPT ![job[x].wid] = x],
         job' = [job EXCEPT ![x] = [job[x] EXCEPT !.seen = wallets[job[x].wid]]],
         pc' = [pc EXCEPT ![x] = l],
         UNCHANGED <<tables, sent, faults>>
  PROVE  IInv'
  <1> DEFINE w == job[x].wid
             j == [job[x] EXCEPT !.seen = wallets[w]]
  <1>1. job[x] \in Jobs /\ Shape(x) /\ w \in Wallets /\ ~job[x].failing /\ l \in LockedPCs
        /\ l \in PCs
    BY DEF IInv, TypeOK, WorkerInv, Shape, LockedPCs, PCs
  <1>2. j \in Jobs
    BY <1>1 DEF Jobs, IInv, TypeOK
  <1>3. job'[x] = j /\ pc'[x] = l /\ holder'[w] = x /\ job' = [job EXCEPT ![x] = j]
    BY <1>1 DEF IInv, TypeOK
  <1>4. j.wid = w /\ j.seen = wallets[w] /\ j.writes = job[x].writes /\ j.cmd = job[x].cmd
        /\ j.mode = job[x].mode /\ j.id = job[x].id /\ j.row = job[x].row
        /\ j.rec = job[x].rec /\ j.inboxed = job[x].inboxed /\ j.failing = job[x].failing
    BY <1>1 DEF Jobs
  <1> HIDE DEF j
  <1>5. Shape(x)'
    BY <1>1, <1>3, <1>4, WageringAssumption
       DEF Shape, Workers, HandlerPCs, ResolverPCs, LockedPCs, AfterSave, tables, Stored, None
  <1>6. Locked(x)'
    BY <1>1, <1>3, <1>4 DEF Locked, tables
  <1>7. Continues(x)' /\ Unborn(x)'
    <2>1. ~job[x].writes.moved
      BY <1>1 DEF Shape, AfterSave
    <2>2. Continues(x)'
      BY <2>1, <1>3, <1>4 DEF Continues
    <2>3. Unborn(x)'
      BY <1>3 DEF Unborn, OpeningPCs
    <2> QED BY <2>2, <2>3
  <1>8. Alone(x) /\ holder' \in [Wallets -> Workers \cup {NoOne}]
        /\ sent' \in 0..MaxSends /\ faults' \in 0..MaxFaults
    <2>1. NoOne \notin Workers /\ holder \in [Wallets -> Workers \cup {NoOne}]
      BY WageringAssumption DEF IInv, TypeOK
    <2>2. \A v \in Wallets : holder[v] \in Workers \ {x} => holder'[v] = holder[v]
      BY <2>1, <1>1
    <2>3. holder' \in [Wallets -> Workers \cup {NoOne}]
      BY <2>1, <1>1
    <2> QED BY <2>2, <2>3 DEF Alone, IInv, TypeOK
  <1>9. WorkerInv(x)'
    BY <1>5, <1>6, <1>7 DEF WorkerInv
  <1> QED BY <1>1, <1>2, <1>3, <1>8, <1>9, Frame

\* GetForUpdate refuses, or locks and reads.
LEMMA GetForUpdateKeeps ==
  ASSUME IInv, NEW h \in Handlers, GetForUpdate(h)
  PROVE  IInv'
  <1>1. h \in Workers /\ h \notin Resolvers /\ job[h] \in Jobs /\ Shape(h) /\ pc[h] = "lock"
        /\ UNCHANGED <<tables, sent, faults>>
    BY WageringAssumption DEF Workers, IInv, TypeOK, WorkerInv, GetForUpdate
  <1>2. sent' \in 0..MaxSends /\ faults' \in 0..MaxFaults
    BY <1>1 DEF IInv, TypeOK
  <1>3. ASSUME NEW code \in Outcomes, AnswerWith(h, Error(code)), UNCHANGED holder PROVE IInv'
    BY <1>1, <1>2, <1>3, Answering, RestKeeps, ErrorTyped
  <1>4. CASE wallets[job[h].wid].open /\ Accounts[job[h].wid].player = job[h].cmd.body.player
    <2> DEFINE l == IF job[h].cmd.msg = None THEN "key" ELSE "inbox"
    <2>1. job[h].cmd \in Commands
      BY <1>1 DEF Shape
    <2>2. l = "inbox" => job[h].cmd.msg \in Messages
      BY <2>1, WageringAssumption
    <2>3. l \in {"inbox", "key", "decide"} /\ l # "decide"
      OBVIOUS
    <2>4. holder[job[h].wid] = NoOne /\ holder' = [holder EXCEPT ![job[h].wid] = h]
          /\ job' = [job EXCEPT ![h] = [job[h] EXCEPT !.seen = wallets[job[h].wid]]]
          /\ pc' = [pc EXCEPT ![h] = l]
      BY <1>4 DEF GetForUpdate, Goto
    <2> HIDE DEF l
    <2> QED BY <1>1, <1>4, <2>1, <2>2, <2>3, <2>4, LockStep
  <1> QED BY <1>3, <1>4 DEF GetForUpdate, Outcomes

\* The inbox lookup: first sight, conflict or replay.
LEMMA ReadInboxKeeps ==
  ASSUME IInv, NEW h \in Handlers, ReadInbox(h)
  PROVE  IInv'
  <1>1. h \in Workers /\ h \notin Resolvers /\ pc[h] \in LockedPCs \ {"commit"} /\ pc[h] = "inbox"
        /\ UNCHANGED <<tables, sent, faults>>
    BY WageringAssumption DEF Workers, LockedPCs, ReadInbox
  <1>2. job[h] \in Jobs /\ Shape(h) /\ sent' \in 0..MaxSends /\ faults' \in 0..MaxFaults
    BY <1>1, Busy DEF IInv, TypeOK
  <1>3. job[h].cmd.msg \in Messages
    BY <1>1, <1>2 DEF Shape
  <1>4. CASE Goto(h, "key") /\ UNCHANGED <<job, holder>>
    <2>1. job'[h] = job[h] /\ pc'[h] = "key" /\ pc' = [pc EXCEPT ![h] = "key"]
          /\ job' = [job EXCEPT ![h] = job[h]]
      BY <1>1, <1>4 DEF IInv, TypeOK, Goto
    <2>2. Shape(h)'
      BY <1>1, <1>2, <2>1 DEF Shape, HandlerPCs, LockedPCs, AfterSave, tables, Stored, None
    <2> QED BY <1>1, <1>2, <1>4, <2>1, <2>2, HoldStep DEF LockedPCs
  <1>5. CASE Abandon(h, "IDEMPOTENCY_CONFLICT")
    BY <1>1, <1>2, <1>5, Abandoning, RestKeeps DEF Outcomes
  <1>6. CASE inbox[job[h].cmd.msg].id # None /\ Replay(h, inbox[job[h].cmd.msg].id, FALSE)
    <2>1. inbox[job[h].cmd.msg].id \in AllIds
      BY <1>3, <1>6 DEF IInv, TypeOK, Ids
    <2> QED BY <1>1, <1>6, <2>1, ReplayKeeps
  <1> QED BY <1>4, <1>5, <1>6 DEF ReadInbox

\* The key lookup inside the unit of work.
LEMMA ReadKeyKeeps ==
  ASSUME IInv, NEW h \in Handlers, ReadKey(h)
  PROVE  IInv'
  <1> DEFINE id == GetByIdempotencyKey(job[h].cmd.key)
  <1>1. h \in Workers /\ h \notin Resolvers /\ pc[h] \in LockedPCs \ {"commit"} /\ pc[h] = "key"
        /\ UNCHANGED <<tables, sent, faults>>
    BY WageringAssumption DEF Workers, LockedPCs, ReadKey
  <1>2. job[h] \in Jobs /\ Shape(h) /\ sent' \in 0..MaxSends /\ faults' \in 0..MaxFaults
    BY <1>1, Busy DEF IInv, TypeOK
  <1>3. id \in Ids
    BY LookupTyped DEF IInv
  <1>4. CASE Goto(h, "identity") /\ UNCHANGED <<job, holder>>
    <2>1. job'[h] = job[h] /\ pc'[h] = "identity" /\ pc' = [pc EXCEPT ![h] = "identity"]
          /\ job' = [job EXCEPT ![h] = job[h]]
      BY <1>1, <1>4 DEF IInv, TypeOK, Goto
    <2>2. Shape(h)'
      BY <1>1, <1>2, <2>1 DEF Shape, HandlerPCs, LockedPCs, AfterSave, tables, Stored, None
    <2> QED BY <1>1, <1>2, <1>4, <2>1, <2>2, HoldStep DEF LockedPCs
  <1>5. CASE Abandon(h, "IDEMPOTENCY_CONFLICT")
    BY <1>1, <1>2, <1>5, Abandoning, RestKeeps DEF Outcomes
  <1>6. CASE id # None /\ Replay(h, id, TRUE)
    <2>1. id \in AllIds
      BY <1>3, <1>6 DEF Ids
    <2> HIDE DEF id
    <2> QED BY <1>1, <1>6, <2>1, ReplayKeeps
  <1> QED BY <1>4, <1>5, <1>6 DEF ReadKey

\* The identity lookup, and NewExternal when nothing is stored.
LEMMA ReadIdentityKeeps ==
  ASSUME IInv, NEW h \in Handlers, ReadIdentity(h)
  PROVE  IInv'
  <1> DEFINE c  == job[h].cmd
             id == GetByProviderExternalID(c.body.provider, c.body.ext)
  <1>1. h \in Workers /\ h \notin Resolvers /\ pc[h] \in LockedPCs \ {"commit"}
        /\ pc[h] = "identity" /\ UNCHANGED <<tables, sent, faults>>
    BY WageringAssumption DEF Workers, LockedPCs, ReadIdentity
  <1>2. job[h] \in Jobs /\ Shape(h) /\ sent' \in 0..MaxSends /\ faults' \in 0..MaxFaults
        /\ c \in Commands
    BY <1>1, Busy DEF IInv, TypeOK
  <1>3. id \in Ids
    BY LookupTyped DEF IInv
  <1>4. ASSUME job' = [job EXCEPT ![h].row = NewExternal(c.key, c.body), ![h].mode = "insert"],
               Goto(h, "decide"), UNCHANGED holder
        PROVE  IInv'
    <2> DEFINE row == NewExternal(c.key, c.body)
               j == [job[h] EXCEPT !.row = row, !.mode = "insert"]
    <2>1. row \in Rows
      <3>1. c.key \in Keys /\ c.body \in Bodies /\ None \in Ids
        BY <1>2 DEF Keys, Bodies, Ids
      <3> QED BY <3>1 DEF NewExternal, Rows, Statuses
    <2> HIDE DEF row
    <2>2. j \in Jobs
      BY <1>2, <2>1 DEF Jobs
    <2>3. job'[h] = j /\ pc'[h] = "decide" /\ pc' = [pc EXCEPT ![h] = "decide"]
          /\ job' = [job EXCEPT ![h] = j]
      BY <1>1, <1>4 DEF IInv, TypeOK, Goto, row
    <2>4. /\ j.wid = job[h].wid /\ j.seen = job[h].seen /\ j.cmd = job[h].cmd
          /\ j.writes = job[h].writes /\ j.failing = job[h].failing
          /\ j.mode = "insert" /\ j.row = row /\ j.inboxed = job[h].inboxed
      BY <1>2 DEF Jobs
    <2> HIDE DEF j
    <2>5. Shape(h)'
      BY <1>1, <1>2, <2>1, <2>3, <2>4 DEF Shape, HandlerPCs, LockedPCs, AfterSave
    <2> QED BY <1>1, <1>4, <2>2, <2>3, <2>4, <2>5, HoldStep DEF LockedPCs
  <1>5. ASSUME NEW code \in Outcomes, Abandon(h, code) PROVE IInv'
    BY <1>1, <1>2, <1>5, Abandoning, RestKeeps
  <1>6. CASE id # None /\ Replay(h, id, TRUE)
    <2>1. id \in AllIds
      BY <1>3, <1>6 DEF Ids
    <2> HIDE DEF id
    <2> QED BY <1>1, <1>6, <2>1, ReplayKeeps
  <1>7. "INVALID" \in Outcomes /\ "OPERATION_IDENTITY_CONFLICT" \in Outcomes
    BY DEF Outcomes
  <1> QED BY <1>4, <1>5, <1>6, <1>7 DEF ReadIdentity

\* A decision buffers a plan and resolves the reference of the row.
LEMMA PlanStep ==
  ASSUME IInv, NEW x \in Workers, pc[x] \in {"decide", "reversal"},
         NEW plan \in Plans, NEW ref \in Ids, NEW l \in {"reversal", "save"},
         job' = [job EXCEPT ![x] = [job[x] EXCEPT !.plan = plan,
                                        !.row = [job[x].row EXCEPT !.refId = ref]]],
         pc' = [pc EXCEPT ![x] = l], UNCHANGED <<tables, holder, sent, faults>>
  PROVE  IInv'
  <1> DEFINE row == [job[x].row EXCEPT !.refId = ref]
             j == [job[x] EXCEPT !.plan = plan, !.row = row]
  <1>1. pc[x] \in LockedPCs \ {"commit"} /\ l \in LockedPCs
    BY DEF LockedPCs
  <1>2. job[x] \in Jobs /\ Shape(x) /\ ~job[x].failing
    BY <1>1, Busy
  <1>3. row \in Rows
    BY <1>2 DEF Shape, Rows
  <1> HIDE DEF row
  <1>4. j \in Jobs
    BY <1>2, <1>3 DEF Jobs
  <1>5. job'[x] = j /\ pc'[x] = l
    BY DEF IInv, TypeOK, row
  <1>6. /\ j.wid = job[x].wid /\ j.seen = job[x].seen /\ j.cmd = job[x].cmd
        /\ j.writes = job[x].writes /\ j.failing = job[x].failing /\ j.id = job[x].id
        /\ j.mode = job[x].mode /\ j.row = row /\ j.inboxed = job[x].inboxed
        /\ j.rec = job[x].rec
    BY <1>2 DEF Jobs
  <1>7. job' = [job EXCEPT ![x] = j]
    BY DEF row
  <1> HIDE DEF j
  <1>8. Shape(x)'
    BY <1>1, <1>2, <1>3, <1>5, <1>6
       DEF Shape, HandlerPCs, ResolverPCs, LockedPCs, AfterSave, tables, Stored
  <1> QED BY <1>1, <1>4, <1>5, <1>6, <1>7, <1>8, HoldStep

\* decide, for a handler.
LEMMA DecideKeeps ==
  ASSUME IInv, NEW h \in Handlers, Decide(h)
  PROVE  IInv'
  <1> DEFINE d == decide(job[h].row, job[h].wid)
             ref == IF d.kind = "PROCESS" THEN ReferenceId(job[h].row.body) ELSE None
             l == IF d.kind = "PROCESS" /\ RequiresReference(job[h].row.body.kind)
                  THEN "reversal" ELSE "save"
  <1>1. h \in Workers /\ pc[h] = "decide" /\ pc[h] \in LockedPCs \ {"commit"}
    BY DEF Workers, Decide, LockedPCs
  <1>2. job[h] \in Jobs /\ Shape(h)
    BY <1>1, Busy
  <1>3. job[h].row \in Rows /\ job[h].row.body \in Bodies
    BY <1>1, <1>2 DEF Shape, Rows
  <1>4. d \in Plans
    BY PlansTyped DEF decide, Directions, FailureCodes
  <1>5. ref \in Ids
    BY <1>3, LookupTyped DEF IInv, Ids
  <1>6. l \in {"reversal", "save"}
    OBVIOUS
  <1>7. /\ job' = [job EXCEPT ![h] = [job[h] EXCEPT !.plan = d,
                                        !.row = [job[h].row EXCEPT !.refId = ref]]]
        /\ pc' = [pc EXCEPT ![h] = l] /\ UNCHANGED <<tables, holder, sent, faults>>
    BY DEF Decide, Goto
  <1> HIDE DEF d, ref, l
  <1> QED BY <1>1, <1>4, <1>5, <1>6, <1>7, PlanStep

\* The duplicate check of a reversal.
LEMMA CheckReversalKeeps ==
  ASSUME IInv, NEW x \in Workers, CheckReversal(x)
  PROVE  IInv'
  <1>1. pc[x] = "reversal" /\ pc[x] \in LockedPCs \ {"commit"}
    BY DEF CheckReversal, LockedPCs
  <1>2. job[x] \in Jobs /\ Shape(x)
    BY <1>1, Busy
  <1>3. job[x].row \in Rows /\ job[x].plan \in Plans
    BY <1>1, <1>2 DEF Shape, Jobs
  <1>4. /\ pc' = [pc EXCEPT ![x] = "save"] /\ UNCHANGED <<tables, holder, sent, faults>>
    BY DEF CheckReversal, Goto
  <1>5. CASE HasSuccessfulReversal(job[x].row.refId)
    <2> DEFINE d == Reject("DUPLICATE_REVERSAL")
    <2>1. job' = [job EXCEPT ![x] = [job[x] EXCEPT !.plan = d,
                                        !.row = [job[x].row EXCEPT !.refId = None]]]
      <3>1. job' = [job EXCEPT ![x].plan = Reject("DUPLICATE_REVERSAL"), ![x].row.refId = None]
        BY <1>5, Zenon DEF CheckReversal
      <3> QED BY <3>1
    <2>2. d \in Plans /\ None \in Ids
      BY PlansTyped DEF FailureCodes, Ids
    <2> HIDE DEF d
    <2> QED BY <1>1, <1>4, <2>1, <2>2, PlanStep
  <1>6. CASE ~HasSuccessfulReversal(job[x].row.refId)
    <2>1. job' = [job EXCEPT ![x] = [job[x] EXCEPT !.plan = job[x].plan,
                                        !.row = [job[x].row EXCEPT !.refId = job[x].row.refId]]]
      <3>1. job' = job
        BY <1>6 DEF CheckReversal
      <3>2. [job[x].row EXCEPT !.refId = job[x].row.refId] = job[x].row
        BY <1>3 DEF Rows
      <3>3. [job[x] EXCEPT !.plan = job[x].plan, !.row = job[x].row] = job[x]
        BY <1>2 DEF Jobs
      <3> QED BY <3>1, <3>2, <3>3 DEF IInv, TypeOK
    <2>2. job[x].row.refId \in Ids
      BY <1>3 DEF Rows
    <2> QED BY <1>1, <1>3, <1>4, <2>1, <2>2, PlanStep
  <1> QED BY <1>5, <1>6

-----------------------------------------------------------------------------
(* Settling: what a unit of work buffers.                                  *)

\* A wallet with another balance and version is a wallet, open if it was.
LEMMA WalletMoved ==
  ASSUME NEW w \in WalletRows, NEW b \in Amounts, NEW v \in Nat
  PROVE  /\ [w EXCEPT !.balance = b, !.version = v] \in WalletRows
         /\ [w EXCEPT !.balance = b, !.version = v].open = w.open
  BY DEF WalletRows

\* A settlement the wallet can bear is a typed set of writes, marks the row, and
\* when it moves money continues the ledger from the balance that was read.
LEMMA SettlementTyped ==
  ASSUME NEW id \in AllIds, NEW row \in Rows, NEW w \in WalletRows, NEW d \in Plans,
         w.open = TRUE, d.kind = "PROCESS" /\ d.dir # None => ~Overflows(w, d.dir, row.body.amount)
  PROVE  LET s == Settlement(id, row, w, d)
         IN  /\ s \in Writes /\ s.row \in Rows
             /\ s.moved => \E e \in LedgerEntries :
                    /\ s.entries = <<e>>
                    /\ e.before = w.balance /\ e.after = s.wallet.balance
                    /\ e.after = IF e.dir = "DEBIT" THEN e.before - e.amount
                                                   ELSE e.before + e.amount
                    /\ s.wallet.open
  <1> DEFINE s == Settlement(id, row, w, d)
             amount == row.body.amount
  <1>1. row.body \in Bodies /\ row.body.wallet \in Wallets /\ amount \in Amounts
    BY BodyTyped DEF Rows
  <1>2. w.balance \in Amounts /\ w.version \in Nat
    BY DEF WalletRows
  <1>3. ASSUME NEW r \in Rows, NEW ev \in SUBSET Events,
               s = [NoWrites EXCEPT !.row = r, !.events = ev]
        PROVE  s \in Writes /\ s.row \in Rows /\ ~s.moved
    BY <1>3, NullsTyped DEF NoWrites, Writes
  <1>4. ASSUME NEW type \in {"WagerTransactionProcessed", "WagerTransactionRejected",
                             "WagerTransactionPendingReference"}
        PROVE  {Event(type, id)} \in SUBSET Events
    BY DEF Event, Events
  <1>5. ASSUME NEW code \in FailureCodes \cup {None}
        PROVE  MarkRejected(row, code) \in Rows
    BY DEF MarkRejected, Rows, Statuses
  <1>6. CASE d.kind = "PENDING_REFERENCE"
    <2>1. MarkPendingReference(row) \in Rows
      BY DEF MarkPendingReference, Rows, Statuses
    <2> QED BY <1>3, <1>4, <1>6, <2>1 DEF Settlement
  <1>7. CASE d.kind = "REJECT"
    <2>1. d.failure \in FailureCodes \cup {None}
      BY DEF Plans
    <2> QED BY <1>3, <1>4, <1>5, <1>7, <2>1 DEF Settlement, Rejection
  <1>8. CASE d.kind = "PROCESS" /\ d.dir = None
    <2>1. MarkProcessed(row, w.balance) \in Rows
      BY <1>2 DEF MarkProcessed, Rows, Statuses
    <2> QED BY <1>3, <1>4, <1>8, <2>1 DEF Settlement
  <1>9. CASE d.kind = "PROCESS" /\ d.dir # None /\ Insufficient(w, d.dir, amount)
    <2>1. "INSUFFICIENT_BALANCE_FOR_REVERSAL" \in FailureCodes /\ "INSUFFICIENT_BALANCE" \in FailureCodes
      BY DEF FailureCodes
    <2> QED BY <1>3, <1>4, <1>5, <1>9, <2>1 DEF Settlement, Rejection
  <1>10. CASE d.kind = "PROCESS" /\ d.dir # None /\ ~Insufficient(w, d.dir, amount)
    <2> DEFINE after == applyMovement(w, d.dir, amount)
               e == NewWalletLedgerEntry(id, d.dir, amount, w.balance)
               legs == recordDoubleEntry(id, row.body, d.dir)
               evs == {Event("WagerTransactionProcessed", id), BalanceChanged(id, after.version)}
    <2>1. s = Movement(id, row, w, d.dir)
      BY <1>10 DEF Settlement
    <2>2. d.dir \in Directions
      BY <1>10 DEF Plans
    <2>3. after \in WalletRows /\ after.open
      <3> DEFINE b == IF d.dir = "DEBIT" THEN w.balance - amount ELSE w.balance + amount
      <3>1. d.dir = "DEBIT" => b \in Amounts
        BY <1>1, <1>2, <1>10, MaxMoneyAssumption DEF Amounts, Insufficient
      <3>2. d.dir = "CREDIT" => b \in Amounts
        BY <1>1, <1>2, <1>10, MaxMoneyAssumption DEF Amounts, Overflows
      <3>3. b \in Amounts
        BY <2>2, <3>1, <3>2 DEF Directions
      <3> HIDE DEF b
      <3>4. after = [w EXCEPT !.balance = b, !.version = w.version + 1]
        BY DEF applyMovement, b
      <3>5. w.version + 1 \in Nat
        BY <1>2
      <3> HIDE DEF s, after, e, legs, evs
      <3>6. /\ [w EXCEPT !.balance = b, !.version = w.version + 1] \in WalletRows
            /\ [w EXCEPT !.balance = b, !.version = w.version + 1].open = w.open
        BY <3>3, <3>5, WalletMoved
      <3> QED BY <3>4, <3>6
    <2>4. after.balance = IF d.dir = "DEBIT" THEN w.balance - amount ELSE w.balance + amount
      BY DEF applyMovement, WalletRows
    <2>5. e \in LedgerEntries /\ e.before = w.balance /\ e.after = after.balance /\ e.dir = d.dir
          /\ e.amount = amount
      BY <1>1, <1>2, <2>2, <2>3, <2>4 DEF NewWalletLedgerEntry, LedgerEntries, WalletRows
    <2>6. legs \in SUBSET Legs
      BY <1>1 DEF recordDoubleEntry, NewMovement, Legs, Books, Directions
    <2>7. evs \in SUBSET Events
      BY <2>3 DEF Event, BalanceChanged, Events, WalletRows
    <2>8. MarkProcessed(row, after.balance) \in Rows
      BY <2>3 DEF MarkProcessed, Rows, Statuses, WalletRows
    <2>9. s = [row |-> MarkProcessed(row, after.balance), wallet |-> after, moved |-> TRUE,
               entries |-> <<e>>, legs |-> legs, events |-> evs]
      BY <2>1 DEF Movement
    <2> HIDE DEF s, after, e, legs, evs
    <2>10. s \in Writes /\ s.row \in Rows
      BY <2>3, <2>5, <2>6, <2>7, <2>8, <2>9 DEF Writes
    <2>11. s.entries = <<e>> /\ s.wallet = after
      BY <2>9
    <2>12. /\ s.entries = <<e>> /\ e.before = w.balance /\ e.after = s.wallet.balance
           /\ e.after = IF e.dir = "DEBIT" THEN e.before - e.amount ELSE e.before + e.amount
           /\ s.wallet.open
      BY <2>3, <2>4, <2>5, <2>11
    <2> QED BY <2>5, <2>10, <2>12 DEF s
  <1> QED BY <1>6, <1>7, <1>8, <1>9, <1>10 DEF Plans

\* settle and save buffer the settlement, or give up.
LEMMA SettleKeeps ==
  ASSUME IInv, NEW x \in Workers, Settle(x)
  PROVE  IInv'
  <1> DEFINE j  == job[x]
             id == IF j.mode = "insert" THEN CHOOSE i \in FreeIds : TRUE ELSE j.id
             s  == Settlement(id, j.row, j.seen, j.plan)
             moves == j.plan.kind = "PROCESS" /\ j.plan.dir # None
             balance == IF s.moved THEN s.wallet.balance ELSE j.seen.balance
             a  == [out |-> "RESULT", id |-> id, status |-> s.row.status,
                    balance |-> balance, replay |-> FALSE]
             k  == [j EXCEPT !.id = id, !.writes = s, !.ans = a]
             l  == IF s.moved THEN "post"
                   ELSE IF j.cmd.msg # None THEN "recordInbox" ELSE "commit"
  <1>1. pc[x] = "save" /\ pc[x] \in LockedPCs \ {"commit"} /\ j.mode \in {"insert", "update"}
        /\ UNCHANGED <<tables, sent, faults>> /\ (j.mode = "insert" => FreeIds # {})
    BY DEF Settle, LockedPCs
  <1>2. /\ j \in Jobs /\ Shape(x) /\ ~Opens(x) /\ j.failing = FALSE
        /\ j.wid \in Wallets /\ holder[j.wid] = x
        /\ wallets[j.wid].open /\ j.seen = wallets[j.wid]
        /\ x \in Handlers => j.cmd \in Commands
        /\ x \in Resolvers => j.cmd = NoCmd /\ j.rec \in Records
    BY <1>1, Busy DEF Jobs
  <1>3. sent' \in 0..MaxSends /\ faults' \in 0..MaxFaults
    BY <1>1 DEF IInv, TypeOK
  <1>4. ASSUME NEW code \in Outcomes, Abandon(x, code) PROVE IInv'
    BY <1>1, <1>3, <1>4, Abandoning, RestKeeps
  <1>5. CASE /\ ~(moves /\ Overflows(j.seen, j.plan.dir, j.row.body.amount))
             /\ job' = [job EXCEPT ![x].id = id, ![x].writes = s, ![x].ans = a]
             /\ Goto(x, l) /\ UNCHANGED holder
    <2>1. id \in AllIds
      BY <1>1, <1>2 DEF FreeIds, AllIds, Shape
    <2>2. j.row \in Rows /\ j.seen \in WalletRows /\ j.plan \in Plans
      BY <1>1, <1>2 DEF Shape, Jobs
    <2>3. j.seen.open = TRUE
      BY <1>2, <2>2 DEF WalletRows
    <2> HIDE DEF id
    <2>4. /\ s \in Writes /\ s.row \in Rows
          /\ s.moved => \E e \in LedgerEntries :
                    /\ s.entries = <<e>>
                    /\ e.before = j.seen.balance /\ e.after = s.wallet.balance
                    /\ e.after = IF e.dir = "DEBIT" THEN e.before - e.amount
                                                   ELSE e.before + e.amount
                    /\ s.wallet.open
      BY <1>5, <2>1, <2>2, <2>3, SettlementTyped
    <2> HIDE DEF s
    <2>5. balance \in Amounts
      BY <2>2, <2>4 DEF Writes, WalletRows
    <2>6. a \in Answers
      BY <2>1, <2>4, <2>5 DEF Answers, Rows, Outcomes, Ids
    <2> HIDE DEF a
    <2>7. k \in Jobs
      BY <1>2, <2>1, <2>4, <2>6 DEF Jobs, Ids
    <2>8. job' = [job EXCEPT ![x] = k] /\ pc' = [pc EXCEPT ![x] = l]
      BY <1>5 DEF Goto
    <2>9. job'[x] = k /\ pc'[x] = l
      BY <2>8 DEF IInv, TypeOK
    <2>10. /\ k.wid = j.wid /\ k.seen = j.seen /\ k.cmd = j.cmd /\ k.writes = s /\ k.id = id
           /\ k.failing = FALSE /\ k.mode = j.mode /\ k.inboxed = j.inboxed /\ k.rec = j.rec
      BY <1>2 DEF Jobs
    <2>11. /\ l \in {"post", "recordInbox", "commit"} /\ l \in PCs
           /\ l = "recordInbox" => x \in Handlers \ Resolvers /\ j.cmd.msg \in Messages
      BY <1>2, WageringAssumption DEF NoCmd, PCs, Workers
    <2>12. j.mode = "update" => id = j.id
      BY DEF id
    <2> HIDE DEF k, l
    <2>13. Shape(x)'
      BY <1>1, <1>2, <2>1, <2>4, <2>9, <2>10, <2>11, <2>12
         DEF Shape, HandlerPCs, ResolverPCs, LockedPCs, AfterSave, tables, Stored
    <2>14. Locked(x)'
      BY <1>1, <1>2, <1>5, <2>9, <2>10 DEF Locked, tables
    <2>15. Continues(x)'
      BY <2>4, <2>9, <2>10 DEF Continues
    <2>16. ~Opens(x)'
      BY <1>2, <2>9, <2>10 DEF Opens
    <2>17. WorkerInv(x)'
      BY <2>13, <2>14, <2>15, <2>16 DEF WorkerInv, Unborn
    <2>18. Alone(x) /\ holder' \in [Wallets -> Workers \cup {NoOne}]
      BY <1>5, <2>8 DEF Alone, IInv, TypeOK
    <2> QED BY <1>1, <1>3, <2>7, <2>8, <2>9, <2>11, <2>17, <2>18, Frame
  <1>6. "OVERFLOW" \in Outcomes /\ "INTERNAL" \in Outcomes
    BY DEF Outcomes
  <1>7. \A code \in UniqueViolations(s.row) : code \in Outcomes
    BY DEF UniqueViolations, Outcomes
  <1> QED BY <1>4, <1>5, <1>6, <1>7 DEF Settle

\* The version check passes on to the inbox or the commit, or gives up.
LEMMA UpdateBalanceKeeps ==
  ASSUME IInv, NEW x \in Workers, UpdateBalance(x)
  PROVE  IInv'
  <1> DEFINE j == job[x]
             l == IF j.cmd.msg # None THEN "recordInbox" ELSE "commit"
  <1>1. pc[x] = "post" /\ pc[x] \in LockedPCs \ {"commit"} /\ UNCHANGED <<tables, sent, faults>>
    BY DEF UpdateBalance, LockedPCs
  <1>2. /\ j \in Jobs /\ Shape(x) /\ ~j.failing
        /\ j.wid \in Wallets /\ holder[j.wid] = x
        /\ x \in Handlers => j.cmd \in Commands
        /\ x \in Resolvers => j.cmd = NoCmd /\ j.rec \in Records
    BY <1>1, Busy
  <1>3. sent' \in 0..MaxSends /\ faults' \in 0..MaxFaults
    BY <1>1 DEF IInv, TypeOK
  <1>4. CASE Abandon(x, "CONCURRENCY_CONFLICT")
    BY <1>1, <1>3, <1>4, Abandoning, RestKeeps DEF Outcomes
  <1>5. CASE holder' = [holder EXCEPT ![j.wid] = x] /\ Goto(x, l) /\ UNCHANGED job
    <2>1. holder' = holder
      BY <1>2, <1>5 DEF IInv, TypeOK
    <2>2. job'[x] = j /\ pc'[x] = l /\ pc' = [pc EXCEPT ![x] = l] /\ job' = [job EXCEPT ![x] = j]
      BY <1>5 DEF IInv, TypeOK, Goto
    <2>3. /\ l \in {"recordInbox", "commit"} /\ l \in LockedPCs
          /\ l = "recordInbox" => x \in Handlers \ Resolvers /\ j.cmd.msg \in Messages
      BY <1>2, WageringAssumption DEF NoCmd, LockedPCs, Workers
    <2> HIDE DEF l
    <2>4. Shape(x)'
      BY <1>1, <1>2, <2>2, <2>3
         DEF Shape, HandlerPCs, ResolverPCs, LockedPCs, AfterSave, tables, Stored
    <2> QED BY <1>1, <1>2, <2>1, <2>2, <2>3, <2>4, HoldStep
  <1> QED BY <1>4, <1>5 DEF UpdateBalance

\* recordInbox marks the message, or gives up.
LEMMA RecordInboxKeeps ==
  ASSUME IInv, NEW h \in Handlers, RecordInbox(h)
  PROVE  IInv'
  <1> DEFINE j == [job[h] EXCEPT !.inboxed = TRUE]
  <1>1. h \in Workers /\ h \notin Resolvers /\ pc[h] = "recordInbox"
        /\ pc[h] \in LockedPCs \ {"commit"} /\ UNCHANGED <<tables, sent, faults>>
    BY WageringAssumption DEF Workers, RecordInbox, LockedPCs
  <1>2. job[h] \in Jobs /\ Shape(h) /\ ~job[h].failing /\ job[h].cmd \in Commands
    BY <1>1, Busy
  <1>3. sent' \in 0..MaxSends /\ faults' \in 0..MaxFaults
    BY <1>1 DEF IInv, TypeOK
  <1>4. CASE Abandon(h, "INTERNAL")
    BY <1>1, <1>3, <1>4, Abandoning, RestKeeps DEF Outcomes
  <1>5. CASE job' = [job EXCEPT ![h].inboxed = TRUE] /\ Goto(h, "commit") /\ UNCHANGED holder
    <2>1. j \in Jobs
      BY <1>2 DEF Jobs
    <2>2. job'[h] = j /\ pc'[h] = "commit" /\ pc' = [pc EXCEPT ![h] = "commit"]
          /\ job' = [job EXCEPT ![h] = j]
      BY <1>1, <1>5 DEF IInv, TypeOK, Goto
    <2>3. /\ j.wid = job[h].wid /\ j.seen = job[h].seen /\ j.cmd = job[h].cmd
          /\ j.writes = job[h].writes /\ j.failing = job[h].failing /\ j.id = job[h].id
          /\ j.mode = job[h].mode
      BY <1>2 DEF Jobs
    <2> HIDE DEF j
    <2>4. Shape(h)'
      BY <1>1, <1>2, <2>2, <2>3
         DEF Shape, HandlerPCs, LockedPCs, AfterSave, tables, Stored
    <2> QED BY <1>1, <1>5, <2>1, <2>2, <2>3, <2>4, HoldStep DEF LockedPCs
  <1> QED BY <1>4, <1>5 DEF RecordInbox

\* The answer leaves and the handler is idle.
LEMMA RespondKeeps ==
  ASSUME IInv, NEW h \in Handlers, Respond(h)
  PROVE  IInv'
  <1>1. h \in Workers /\ h \notin Resolvers /\ "idle" \in RestPCs
    BY WageringAssumption DEF Workers, RestPCs
  <1>2. job' = [job EXCEPT ![h] = IdleJob] /\ pc' = [pc EXCEPT ![h] = "idle"]
        /\ UNCHANGED <<tables, holder, sent, faults>>
    BY DEF Respond, Goto
  <1>3. IdleJob.writes = NoWrites /\ IdleJob.inboxed = FALSE /\ IdleJob.mode = None
        /\ IdleJob.failing = FALSE
    BY DEF IdleJob
  <1>4. Rests(h)
    BY <1>1, <1>2, <1>3, IdleTyped, Resting
  <1>5. sent' \in 0..MaxSends /\ faults' \in 0..MaxFaults
    BY <1>2 DEF IInv, TypeOK
  <1> QED BY <1>1, <1>2, <1>4, <1>5, RestKeeps

-----------------------------------------------------------------------------
(* OpenWallet.                                                             *)

\* A handler that is opening a wallet is typed, and its locals are its own.
LEMMA Opening ==
  ASSUME IInv, NEW h \in Handlers, pc[h] \in {"exists", "insertWallet"}
  PROVE  /\ h \in Workers /\ h \notin Resolvers /\ job[h] \in Jobs
         /\ Shape(h) /\ Unborn(h) /\ ~job[h].failing
  <1>1. h \in Workers /\ h \notin Resolvers
    BY WageringAssumption DEF Workers
  <1>2. WorkerInv(h) /\ job[h] \in Jobs
    BY <1>1 DEF IInv, TypeOK
  <1> QED BY <1>1, <1>2 DEF WorkerInv, Shape

\* A request to open a wallet draws a fresh id.
LEMMA RequestOpeningKeeps ==
  ASSUME IInv, NEW h \in Handlers, NEW w \in Wallets, RequestOpening(h, w)
  PROVE  IInv'
  <1> DEFINE j == [IdleJob EXCEPT !.wid = w]
  <1>1. h \in Workers /\ h \notin Resolvers
    BY WageringAssumption DEF Workers
  <1>2. j \in Jobs
    BY <1>1, IdleTyped DEF Jobs
  <1>3. job' = [job EXCEPT ![h] = j] /\ pc' = [pc EXCEPT ![h] = "exists"]
        /\ UNCHANGED <<tables, holder, faults>> /\ sent' \in 0..MaxSends
    BY WageringAssumption DEF RequestOpening, Goto, IInv, TypeOK
  <1>4. job'[h] = j /\ pc'[h] = "exists" /\ Alone(h)
    BY <1>1, <1>3 DEF IInv, TypeOK, Alone
  <1>5. Shape(h)'
    BY <1>1, <1>4 DEF Shape, HandlerPCs, LockedPCs, AfterSave, IdleJob, NoWrites, None
  <1>6. Unborn(h)'
    <2>1. j.wid = w /\ ~wallets'[w].open
      BY <1>3 DEF RequestOpening, tables, IdleJob
    <2>2. \A y \in Handlers \ {h} : job[y].cmd = NoCmd => job[y].wid # w
      BY DEF RequestOpening
    <2>3. \A y \in Handlers \ {h} : job'[y] = job[y]
      BY <1>4 DEF Alone, Workers
    <2> HIDE DEF j
    <2> QED BY <1>4, <2>1, <2>2, <2>3 DEF Unborn, Opens
  <1>7. WorkerInv(h)'
    BY <1>4, <1>5, <1>6 DEF WorkerInv, Locked, Continues, Holding, LockedPCs
  <1>8. holder' \in [Wallets -> Workers \cup {NoOne}] /\ "exists" \in PCs /\ faults' \in 0..MaxFaults
    BY <1>3 DEF IInv, TypeOK, PCs
  <1> HIDE DEF j
  <1> QED BY <1>1, <1>2, <1>3, <1>4, <1>7, <1>8, Frame

\* The existence check refuses or goes on.
LEMMA ExistsKeeps ==
  ASSUME IInv, NEW h \in Handlers, ExistsForPlayerCurrency(h)
  PROVE  IInv'
  <1>1. pc[h] = "exists" /\ UNCHANGED <<tables, sent, faults>>
    BY DEF ExistsForPlayerCurrency
  <1>2. /\ h \in Workers /\ h \notin Resolvers /\ job[h] \in Jobs
        /\ Shape(h) /\ Unborn(h) /\ ~job[h].failing
    BY <1>1, Opening
  <1>3. sent' \in 0..MaxSends /\ faults' \in 0..MaxFaults
    BY <1>1 DEF IInv, TypeOK
  <1>4. CASE Abandon(h, "WALLET_ALREADY_EXISTS")
    BY <1>1, <1>2, <1>3, <1>4, Abandoning, RestKeeps DEF Outcomes
  <1>5. CASE Goto(h, "insertWallet") /\ UNCHANGED <<job, holder>>
    <2>1. job'[h] = job[h] /\ pc'[h] = "insertWallet" /\ pc' = [pc EXCEPT ![h] = "insertWallet"]
          /\ job' = [job EXCEPT ![h] = job[h]] /\ Alone(h)
      BY <1>2, <1>5 DEF IInv, TypeOK, Goto, Alone
    <2>2. Shape(h)'
      BY <1>1, <1>2, <2>1 DEF Shape, HandlerPCs, LockedPCs, AfterSave, tables, Stored
    <2>3. Unborn(h)'
      <3>1. \A y \in Handlers \ {h} : job'[y] = job[y] /\ pc'[y] = pc[y]
        BY <2>1 DEF Alone, Workers
      <3> QED BY <1>1, <1>2, <2>1, <3>1 DEF Unborn, Opens, OpeningPCs, tables
    <2>4. WorkerInv(h)'
      BY <2>1, <2>2, <2>3 DEF WorkerInv, Locked, Continues, Holding, LockedPCs
    <2>5. holder' \in [Wallets -> Workers \cup {NoOne}] /\ "insertWallet" \in PCs
      BY <1>5 DEF IInv, TypeOK, PCs
    <2> QED BY <1>1, <1>2, <1>3, <2>1, <2>4, <2>5, Frame
  <1> QED BY <1>4, <1>5 DEF ExistsForPlayerCurrency

\* What an opening writes is typed, and starts the ledger at zero.
LEMMA OpeningTyped ==
  ASSUME NEW w \in Wallets
  PROVE  LET s == OpeningWrites(w, Accounts[w])
         IN  /\ s \in Writes /\ s.moved = TRUE /\ s.wallet.open = TRUE
             /\ Accounts[w].initial \in Amounts
             /\ Accounts[w].initial # 0 => s.row \in Rows
             /\ \/ s.entries = <<>> /\ s.wallet.balance = 0
                \/ \E e \in LedgerEntries :
                      /\ s.entries = <<e>> /\ e.before = 0 /\ e.dir = "CREDIT"
                      /\ e.after = e.amount /\ s.wallet.balance = e.after
  <1> DEFINE n == Accounts[w].initial
             s == OpeningWrites(w, Accounts[w])
  <1>1. n \in Amounts /\ 0 \in Amounts /\ w \in AllIds
    BY WageringAssumption, MaxMoneyAssumption DEF Amounts, AllIds
  <1>2. \A b \in Amounts : NewWallet(b) \in WalletRows /\ NewWallet(b).open = TRUE
                           /\ NewWallet(b).balance = b
    BY DEF NewWallet, WalletRows
  <1>3. CASE n = 0
    <2>1. s = [NoWrites EXCEPT !.wallet = NewWallet(0), !.moved = TRUE]
      BY <1>3 DEF OpeningWrites
    <2>2. s \in Writes
      BY <1>1, <1>2, <2>1, NullsTyped DEF Writes
    <2>3. s.moved = TRUE /\ s.wallet = NewWallet(0) /\ s.entries = <<>>
      BY <2>1 DEF NoWrites
    <2> QED BY <1>1, <1>2, <1>3, <2>2, <2>3
  <1>4. CASE n # 0
    <2> DEFINE row == NewOpening(w, Accounts[w])
               e == NewWalletLedgerEntry(w, "CREDIT", n, 0)
               legs == NewMovement(w, PlatformFunding, WalletAccount(w), n)
               evs == {Event("WagerTransactionProcessed", w), BalanceChanged(w, 1)}
    <2>1. s = [row |-> row, wallet |-> NewWallet(n), moved |-> TRUE, entries |-> <<e>>,
               legs |-> legs, events |-> evs]
      BY <1>4 DEF OpeningWrites
    <2>2. row \in Rows
      <3>1. OpeningBody(w, Accounts[w]) \in Bodies
        BY DEF Bodies
      <3> QED BY <1>1, <3>1 DEF NewOpening, Rows, Statuses, Keys, Ids
    <2>3. e \in LedgerEntries /\ e.before = 0 /\ e.dir = "CREDIT" /\ e.after = n /\ e.amount = n
      BY <1>1 DEF NewWalletLedgerEntry, LedgerEntries, Directions, Amounts
    <2>4. legs \in SUBSET Legs
      BY <1>1 DEF NewMovement, Legs, Books, Directions
    <2>5. evs \in SUBSET Events
      BY <1>1 DEF Event, BalanceChanged, Events
    <2> HIDE DEF s, row, e, legs, evs
    <2>6. s \in Writes
      BY <1>1, <1>2, <2>1, <2>2, <2>3, <2>4, <2>5 DEF Writes
    <2>7. s.moved = TRUE /\ s.wallet = NewWallet(n) /\ s.entries = <<e>> /\ s.row = row
      BY <2>1
    <2> QED BY <1>1, <1>2, <2>2, <2>3, <2>6, <2>7 DEF s
  <1> QED BY <1>3, <1>4

\* The wallet is inserted with its opening credit, or the slot is taken.
LEMMA InsertWalletKeeps ==
  ASSUME IInv, NEW h \in Handlers, InsertWallet(h)
  PROVE  IInv'
  <1> DEFINE w == job[h].wid
             s == OpeningWrites(w, Accounts[w])
             mode == IF Accounts[w].initial = 0 THEN None ELSE "insert"
             a == [NoAns EXCEPT !.out = "CREATED", !.balance = Accounts[w].initial]
             j == [job[h] EXCEPT !.writes = s, !.id = w, !.mode = mode, !.ans = a]
  <1>1. pc[h] = "insertWallet" /\ UNCHANGED <<tables, sent, faults>>
    BY DEF InsertWallet
  <1>2. /\ h \in Workers /\ h \notin Resolvers /\ job[h] \in Jobs
        /\ Shape(h) /\ Unborn(h) /\ job[h].failing = FALSE
    BY <1>1, Opening DEF Jobs
  <1>3. sent' \in 0..MaxSends /\ faults' \in 0..MaxFaults
    BY <1>1 DEF IInv, TypeOK
  <1>4. CASE Abandon(h, "WALLET_ALREADY_EXISTS")
    BY <1>1, <1>2, <1>3, <1>4, Abandoning, RestKeeps DEF Outcomes
  <1>5. CASE /\ job' = [job EXCEPT ![h].writes = s, ![h].id = w, ![h].mode = mode, ![h].ans = a]
             /\ Goto(h, "commit") /\ UNCHANGED holder
    <2>1. job[h].cmd = NoCmd /\ w \in Wallets /\ ~wallets[w].open
      BY <1>1, <1>2 DEF Shape, Unborn, Opens, OpeningPCs
    <2>2. s \in Writes /\ Accounts[w].initial \in Amounts
          /\ (mode = "insert" => w \in AllIds /\ s.row \in Rows)
      BY <2>1, OpeningTyped DEF AllIds, None
    <2>3. a \in Answers
      BY <2>2, NullsTyped DEF Answers, Outcomes
    <2>4. mode \in {None, "insert"} /\ mode \notin {"update", "attempt"}
      BY DEF None
    <2> HIDE DEF s, a, mode
    <2>5. j \in Jobs
      BY <1>2, <2>1, <2>2, <2>3, <2>4 DEF Jobs, Ids, AllIds
    <2>6. job'[h] = j /\ pc'[h] = "commit" /\ pc' = [pc EXCEPT ![h] = "commit"]
          /\ job' = [job EXCEPT ![h] = j] /\ Alone(h)
      BY <1>2, <1>5 DEF IInv, TypeOK, Goto, Alone
    <2>7. /\ j.wid = w /\ j.cmd = NoCmd /\ j.writes = s /\ j.failing = FALSE /\ j.id = w
          /\ j.mode = mode /\ j.inboxed = job[h].inboxed
      BY <1>2, <2>1 DEF Jobs
    <2> HIDE DEF j
    <2>8. Shape(h)'
      BY <1>1, <1>2, <2>1, <2>2, <2>4, <2>6, <2>7 DEF Shape, HandlerPCs, LockedPCs, AfterSave
    <2>9. Unborn(h)'
      <3>1. \A y \in Handlers \ {h} : job'[y] = job[y] /\ pc'[y] = pc[y]
        BY <2>6 DEF Alone, Workers
      <3> QED BY <1>1, <1>2, <2>1, <2>6, <2>7, <3>1 DEF Unborn, Opens, OpeningPCs, tables, s
    <2>10. Opens(h)'
      BY <2>6, <2>7 DEF Opens
    <2>11. WorkerInv(h)'
      BY <2>8, <2>9, <2>10 DEF WorkerInv, Locked, Continues, Holding
    <2>12. holder' \in [Wallets -> Workers \cup {NoOne}] /\ "commit" \in PCs
      BY <1>5 DEF IInv, TypeOK, PCs
    <2> QED BY <1>1, <1>2, <1>3, <2>5, <2>6, <2>11, <2>12, Frame
  <1> QED BY <1>4, <1>5 DEF InsertWallet

-----------------------------------------------------------------------------
(* ResolveReferences.                                                      *)

\* Positions at which a resolver holds nothing: a claim, a pass over the batch
\* and its end only change the batch.
LEMMA BatchStep ==
  ASSUME IInv, NEW r \in Resolvers, pc[r] \in {"idle", "next"}, NEW l \in {"idle", "next"},
         NEW batch \in SUBSET Records,
         job' = [job EXCEPT ![r] = [job[r] EXCEPT !.batch = batch]],
         pc' = [pc EXCEPT ![r] = l], UNCHANGED <<tables, holder, sent, faults>>
  PROVE  IInv'
  <1> DEFINE j == [job[r] EXCEPT !.batch = batch]
  <1>1. r \in Workers /\ r \notin Handlers /\ job[r] \in Jobs /\ Shape(r)
    BY WageringAssumption DEF Workers, IInv, TypeOK, WorkerInv
  <1>2. j \in Jobs
    BY <1>1 DEF Jobs
  <1>3. job'[r] = j /\ pc'[r] = l /\ l \in PCs /\ Alone(r)
    BY <1>1 DEF IInv, TypeOK, PCs, Alone
  <1>4. /\ j.wid = job[r].wid /\ j.cmd = job[r].cmd /\ j.rec = job[r].rec /\ j.row = job[r].row
        /\ j.writes = job[r].writes /\ j.failing = job[r].failing /\ j.id = job[r].id
        /\ j.mode = job[r].mode /\ j.inboxed = job[r].inboxed
    BY <1>1 DEF Jobs
  <1>5. job' = [job EXCEPT ![r] = j]
    OBVIOUS
  <1> HIDE DEF j
  <1>6. Shape(r)'
    BY <1>1, <1>3, <1>4 DEF Shape, ResolverPCs, LockedPCs, AfterSave, tables, Stored
  <1>7. WorkerInv(r)'
    BY <1>1, <1>3, <1>6 DEF WorkerInv, Locked, Continues, Unborn, Holding, Opens, LockedPCs
  <1>8. holder' \in [Wallets -> Workers \cup {NoOne}]
        /\ sent' \in 0..MaxSends /\ faults' \in 0..MaxFaults
    BY DEF IInv, TypeOK
  <1> QED BY <1>1, <1>2, <1>3, <1>5, <1>7, <1>8, Frame

\* ClaimPendingReference copies rows into the batch.
LEMMA ClaimKeeps ==
  ASSUME IInv, NEW r \in Resolvers, Claim(r)
  PROVE  IInv'
  <1>1. PICK rows \in SUBSET DueRows(r) :
          job' = [job EXCEPT ![r].batch = { [id |-> id, attempts |-> retry[id].attempts] : id \in rows }]
    BY DEF Claim
  <1> DEFINE batch == { [id |-> id, attempts |-> retry[id].attempts] : id \in rows }
  <1>2. batch \in SUBSET Records
    BY <1>1 DEF DueRows, Records, IInv, TypeOK, AllIds
  <1>3. /\ job' = [job EXCEPT ![r] = [job[r] EXCEPT !.batch = batch]]
        /\ pc[r] \in {"idle", "next"}
        /\ pc' = [pc EXCEPT ![r] = "next"] /\ UNCHANGED <<tables, holder, sent, faults>>
    BY <1>1 DEF Claim, Goto
  <1> HIDE DEF batch
  <1> QED BY <1>2, <1>3, BatchStep

\* The pass is over.
LEMMA EndPassKeeps ==
  ASSUME IInv, NEW r \in Resolvers, EndPass(r)
  PROVE  IInv'
  <1>1. job[r] \in Jobs /\ r \in Workers
    BY DEF Workers, IInv, TypeOK
  <1>2. job[r].batch \in SUBSET Records /\ [job[r] EXCEPT !.batch = job[r].batch] = job[r]
    BY <1>1 DEF Jobs
  <1>3. /\ job' = [job EXCEPT ![r] = [job[r] EXCEPT !.batch = job[r].batch]]
    BY <1>1, <1>2 DEF EndPass, IInv, TypeOK
  <1>4. /\ pc[r] \in {"idle", "next"}
        /\ pc' = [pc EXCEPT ![r] = "idle"] /\ UNCHANGED <<tables, holder, sent, faults>>
    BY DEF EndPass, Goto
  <1> QED BY <1>2, <1>3, <1>4, BatchStep

\* settleOne loads the transaction of its record.
LEMMA LoadPendingKeeps ==
  ASSUME IInv, NEW r \in Resolvers, NEW rec \in job[r].batch, LoadPending(r, rec)
  PROVE  IInv'
  <1> DEFINE rest == job[r].batch \ {rec}
             j == [IdleJob EXCEPT !.batch = rest, !.rec = rec, !.id = rec.id,
                                  !.row = txs[rec.id], !.mode = "update",
                                  !.wid = txs[rec.id].body.wallet,
                                  !.late = retry[rec.id].expired]
  <1>1. r \in Workers /\ r \notin Handlers /\ job[r] \in Jobs
    BY WageringAssumption DEF Workers, IInv, TypeOK
  <1>2. rec \in Records /\ rec.id \in TxIds /\ rec.id \in AllIds /\ rest \in SUBSET Records
    BY <1>1 DEF Jobs, Records, AllIds
  <1>3. pc[r] = "next" /\ UNCHANGED <<tables, holder, sent, faults>>
    BY DEF LoadPending
  <1>4. CASE txs[rec.id].status # "PENDING_REFERENCE"
    <2>1. job' = [job EXCEPT ![r] = [job[r] EXCEPT !.batch = rest]]
      BY <1>4 DEF LoadPending
    <2>2. pc' = [pc EXCEPT ![r] = "next"]
      BY <1>1, <1>3, <1>4 DEF LoadPending, IInv, TypeOK
    <2> QED BY <1>2, <1>3, <2>1, <2>2, BatchStep
  <1>5. CASE txs[rec.id].status = "PENDING_REFERENCE"
    <2>1. Stored(rec.id) /\ txs[rec.id] \in Rows
      BY <1>2, <1>5, LookupTyped DEF Stored, IInv
    <2>2. txs[rec.id].body.wallet \in Wallets
      BY <2>1, BodyTyped DEF Rows
    <2>3. retry[rec.id].expired \in BOOLEAN
      BY <1>2 DEF IInv, TypeOK
    <2>4. j \in Jobs
      BY <1>2, <2>1, <2>2, <2>3, IdleTyped DEF Jobs, Ids
    <2>5. job' = [job EXCEPT ![r] = j] /\ pc' = [pc EXCEPT ![r] = "lock"]
      BY <1>5 DEF LoadPending, Goto
    <2>6. job'[r] = j /\ pc'[r] = "lock" /\ "lock" \in PCs /\ Alone(r)
      BY <1>1, <1>3, <2>5 DEF IInv, TypeOK, PCs, Alone
    <2>7. /\ j.wid = txs[rec.id].body.wallet /\ j.cmd = NoCmd /\ j.rec = rec
          /\ j.writes = NoWrites /\ j.failing = FALSE /\ j.id = rec.id /\ j.row = txs[rec.id]
          /\ j.mode = "update" /\ j.inboxed = FALSE
      BY DEF IdleJob
    <2> HIDE DEF j
    <2>8. Shape(r)'
      BY <1>1, <1>2, <1>3, <2>1, <2>2, <2>6, <2>7
         DEF Shape, ResolverPCs, LockedPCs, AfterSave, tables, Stored, NoWrites
    <2>9. WorkerInv(r)'
      BY <1>1, <2>6, <2>8 DEF WorkerInv, Locked, Continues, Unborn, Holding, Opens, LockedPCs
    <2>10. holder' \in [Wallets -> Workers \cup {NoOne}]
           /\ sent' \in 0..MaxSends /\ faults' \in 0..MaxFaults
      BY <1>3 DEF IInv, TypeOK
    <2> QED BY <1>1, <1>3, <2>4, <2>5, <2>6, <2>9, <2>10, Frame
  <1> QED BY <1>4, <1>5

\* The reference worker locks the wallet of its record.
LEMMA GetForUpdateParkedKeeps ==
  ASSUME IInv, NEW r \in Resolvers, GetForUpdateParked(r)
  PROVE  IInv'
  <1>1. r \in Workers /\ r \notin Handlers /\ job[r] \in Jobs /\ Shape(r) /\ pc[r] = "lock"
        /\ UNCHANGED <<tables, sent, faults>>
    BY WageringAssumption DEF Workers, IInv, TypeOK, WorkerInv, GetForUpdateParked
  <1>2. sent' \in 0..MaxSends /\ faults' \in 0..MaxFaults
    BY <1>1 DEF IInv, TypeOK
  <1>3. CASE Abandon(r, "NOT_FOUND")
    BY <1>1, <1>2, <1>3, Abandoning, RestKeeps DEF Outcomes
  <1>4. CASE wallets[job[r].wid].open
    <2>1. holder[job[r].wid] = NoOne /\ holder' = [holder EXCEPT ![job[r].wid] = r]
          /\ job' = [job EXCEPT ![r] = [job[r] EXCEPT !.seen = wallets[job[r].wid]]]
          /\ pc' = [pc EXCEPT ![r] = "decide"]
      BY <1>4 DEF GetForUpdateParked, Goto
    <2>2. job[r].row \in Rows
      BY <1>1 DEF Shape
    <2> QED BY <1>1, <1>4, <2>1, <2>2, LockStep
  <1> QED BY <1>3, <1>4 DEF GetForUpdateParked

\* decideReversal on the parked row: settle it, give up, or count the attempt.
LEMMA DecideParkedKeeps ==
  ASSUME IInv, NEW r \in Resolvers, DecideParked(r)
  PROVE  IInv'
  <1> DEFINE d == ReferenceVerdict(job[r].row.body, RowOf(ReferenceId(job[r].row.body)))
             ref == IF d.kind = "PROCESS" THEN ReferenceId(job[r].row.body) ELSE None
  <1>1. r \in Workers /\ r \notin Handlers /\ pc[r] = "decide" /\ pc[r] \in LockedPCs \ {"commit"}
        /\ UNCHANGED <<tables, holder, sent, faults>>
    BY WageringAssumption DEF Workers, DecideParked, LockedPCs
  <1>2. job[r] \in Jobs /\ Shape(r) /\ ~job[r].failing /\ job[r].cmd = NoCmd /\ job[r].rec \in Records
    BY <1>1, Busy
  <1>3. job[r].row \in Rows /\ job[r].row.body \in Bodies /\ job[r].row.refId \in Ids
    BY <1>1, <1>2 DEF Shape, Rows
  <1>4. CASE d # Park
    <2> DEFINE l == IF d.kind = "PROCESS" THEN "reversal" ELSE "save"
    <2>1. d \in Plans
      BY PlansTyped
    <2>2. ref \in Ids
      BY <1>3, LookupTyped DEF IInv, Ids
    <2>3. /\ job' = [job EXCEPT ![r] = [job[r] EXCEPT !.plan = d,
                                          !.row = [job[r].row EXCEPT !.refId = ref]]]
          /\ pc' = [pc EXCEPT ![r] = l]
      <3>1. job' = [job EXCEPT ![r].plan = d, ![r].row.refId = ref] /\ Goto(r, l)
        BY <1>4, Zenon DEF DecideParked
      <3> QED BY <3>1 DEF Goto
    <2>4. l \in {"reversal", "save"}
      OBVIOUS
    <2> HIDE DEF d, ref, l
    <2> QED BY <1>1, <2>1, <2>2, <2>3, <2>4, PlanStep
  <1>5. CASE d = Park /\ Exhausted(job[r].rec, job[r].late)
    <2> DEFINE p == Reject("REFERENCE_NOT_FOUND")
    <2>1. p \in Plans
      BY PlansTyped DEF FailureCodes
    <2>2. job' = [job EXCEPT ![r] = [job[r] EXCEPT !.plan = p]] /\ pc' = [pc EXCEPT ![r] = "save"]
      BY <1>5 DEF DecideParked, Goto
    <2> HIDE DEF p
    <2>3. [job[r].row EXCEPT !.refId = job[r].row.refId] = job[r].row
      BY <1>3 DEF Rows
    <2>4. [job[r] EXCEPT !.plan = p] = [job[r] EXCEPT !.plan = p, !.row = job[r].row]
      BY <1>2 DEF Jobs
    <2>5. job' = [job EXCEPT ![r] = [job[r] EXCEPT !.plan = p,
                              !.row = [job[r].row EXCEPT !.refId = job[r].row.refId]]]
      BY <2>2, <2>3, <2>4
    <2> QED BY <1>1, <1>3, <2>1, <2>2, <2>5, PlanStep
  <1>6. CASE d = Park /\ ~Exhausted(job[r].rec, job[r].late)
    <2> DEFINE j == [job[r] EXCEPT !.mode = "attempt"]
    <2>1. job' = [job EXCEPT ![r] = j] /\ pc' = [pc EXCEPT ![r] = "save"]
      BY <1>6 DEF DecideParked, Goto
    <2>2. j \in Jobs
      BY <1>2 DEF Jobs
    <2>3. /\ j.wid = job[r].wid /\ j.seen = job[r].seen /\ j.cmd = job[r].cmd
          /\ j.writes = job[r].writes /\ j.failing = job[r].failing /\ j.id = job[r].id
          /\ j.mode = "attempt" /\ j.row = job[r].row /\ j.inboxed = job[r].inboxed
          /\ j.rec = job[r].rec
      BY <1>2 DEF Jobs
    <2>4. job'[r] = j /\ pc'[r] = "save" /\ job[r].mode = "update"
      BY <1>1, <1>2, <2>1 DEF IInv, TypeOK, Shape
    <2> HIDE DEF j
    <2>5. Shape(r)'
      BY <1>1, <1>2, <1>3, <2>3, <2>4
         DEF Shape, ResolverPCs, LockedPCs, AfterSave, tables, Stored
    <2> QED BY <1>1, <2>1, <2>2, <2>3, <2>4, <2>5, HoldStep DEF LockedPCs
  <1> QED BY <1>4, <1>5, <1>6

\* RecordReferenceAttempt touches a row that is still parked, or none.
LEMMA RecordAttemptKeeps ==
  ASSUME IInv, NEW r \in Resolvers, RecordReferenceAttempt(r)
  PROVE  IInv'
  <1> DEFINE mode == IF txs[job[r].id].status = "PENDING_REFERENCE" THEN job[r].mode ELSE None
             j == [job[r] EXCEPT !.mode = mode]
  <1>1. r \in Workers /\ r \notin Handlers /\ pc[r] = "save" /\ pc[r] \in LockedPCs \ {"commit"}
        /\ UNCHANGED <<tables, holder, sent, faults>> /\ job[r].mode = "attempt"
    BY WageringAssumption DEF Workers, RecordReferenceAttempt, LockedPCs
  <1>2. job[r] \in Jobs /\ Shape(r) /\ ~job[r].failing /\ job[r].cmd = NoCmd /\ job[r].rec \in Records
    BY <1>1, Busy
  <1>3. mode \in {None, "attempt"} /\ mode \notin {"insert", "update"}
    BY <1>1 DEF None
  <1>4. job' = [job EXCEPT ![r] = j] /\ pc' = [pc EXCEPT ![r] = "commit"]
    <2>1. [job[r] EXCEPT !.mode = job[r].mode] = job[r]
      BY <1>2 DEF Jobs
    <2> QED BY <1>1, <2>1 DEF RecordReferenceAttempt, Goto, IInv, TypeOK
  <1> HIDE DEF mode
  <1>5. j \in Jobs
    BY <1>2, <1>3 DEF Jobs
  <1>6. /\ j.wid = job[r].wid /\ j.seen = job[r].seen /\ j.cmd = job[r].cmd
        /\ j.writes = job[r].writes /\ j.failing = job[r].failing /\ j.id = job[r].id
        /\ j.mode = mode /\ j.inboxed = job[r].inboxed /\ j.rec = job[r].rec
    BY <1>2 DEF Jobs
  <1>7. job'[r] = j /\ pc'[r] = "commit"
    BY <1>1, <1>4 DEF IInv, TypeOK
  <1> HIDE DEF j
  <1>8. Shape(r)'
    BY <1>1, <1>2, <1>3, <1>6, <1>7
       DEF Shape, ResolverPCs, LockedPCs, AfterSave, tables, Stored, None
  <1> QED BY <1>1, <1>4, <1>5, <1>6, <1>7, <1>8, HoldStep DEF LockedPCs

\* recordPermanentFailure, which holds no wallet lock and buffers no movement.
LEMMA FailStep ==
  ASSUME IInv, NEW r \in Resolvers, pc[r] \in {"failLoad", "failSave"},
         NEW j \in Jobs, NEW l \in {"failSave", "commit"},
         job' = [job EXCEPT ![r] = j], pc' = [pc EXCEPT ![r] = l],
         UNCHANGED <<tables, holder, sent, faults>>,
         j.failing = job[r].failing, j.rec = job[r].rec, j.cmd = job[r].cmd,
         j.inboxed = job[r].inboxed, j.mode = "update", j.id \in AllIds, Stored(j.id),
         j.row \in Rows, ~j.writes.moved, l = "commit" => j.writes.row \in Rows
  PROVE  IInv'
  <1>1. r \in Workers /\ r \notin Handlers /\ job[r] \in Jobs /\ Shape(r)
    BY WageringAssumption DEF Workers, IInv, TypeOK, WorkerInv
  <1>2. job'[r] = j /\ pc'[r] = l /\ l \in PCs /\ Alone(r)
    BY <1>1 DEF IInv, TypeOK, PCs, Alone
  <1>3. Shape(r)'
    BY <1>1, <1>2 DEF Shape, ResolverPCs, LockedPCs, AfterSave, tables, Stored
  <1>4. j.failing
    BY <1>1 DEF Shape
  <1>5. WorkerInv(r)'
    BY <1>1, <1>2, <1>3, <1>4 DEF WorkerInv, Locked, Continues, Unborn, Holding, Opens
  <1>6. holder' \in [Wallets -> Workers \cup {NoOne}]
        /\ sent' \in 0..MaxSends /\ faults' \in 0..MaxFaults
    BY DEF IInv, TypeOK
  <1> QED BY <1>1, <1>2, <1>5, <1>6, Frame

\* recordPermanentFailure reloads its record.
LEMMA LoadFailingKeeps ==
  ASSUME IInv, NEW r \in Resolvers, LoadFailing(r)
  PROVE  IInv'
  <1> DEFINE id == job[r].rec.id
             j == [job[r] EXCEPT !.row = txs[id], !.id = id, !.mode = "update"]
  <1>1. r \in Workers /\ r \notin Handlers /\ job[r] \in Jobs /\ Shape(r) /\ pc[r] = "failLoad"
        /\ UNCHANGED <<tables, holder, sent, faults>>
    BY WageringAssumption DEF Workers, IInv, TypeOK, WorkerInv, LoadFailing
  <1>2. CASE NextRecord(r)
    BY <1>1, <1>2, MovingOn, RestKeeps DEF IInv, TypeOK
  <1>3. CASE txs[id].status = "PENDING_REFERENCE"
    <2>1. id \in AllIds
      BY <1>1 DEF Shape, Records, AllIds
    <2>2. Stored(id) /\ txs[id] \in Rows
      BY <1>3, <2>1, LookupTyped DEF Stored, IInv
    <2>3. job' = [job EXCEPT ![r] = j] /\ pc' = [pc EXCEPT ![r] = "failSave"]
      BY <1>3 DEF LoadFailing, Goto
    <2>4. j \in Jobs
      BY <1>1, <2>1, <2>2 DEF Jobs, Ids
    <2>5. /\ j.failing = job[r].failing /\ j.rec = job[r].rec /\ j.cmd = job[r].cmd
          /\ j.inboxed = job[r].inboxed /\ j.mode = "update" /\ j.id = id /\ j.row = txs[id]
          /\ j.writes = job[r].writes
      BY <1>1 DEF Jobs
    <2>6. ~job[r].writes.moved
      BY <1>1 DEF Shape, AfterSave
    <2> HIDE DEF j
    <2> QED BY <1>1, <2>1, <2>2, <2>3, <2>4, <2>5, <2>6, FailStep
  <1> QED BY <1>2, <1>3 DEF LoadFailing

\* recordPermanentFailure marks the row, or loses to whoever settled it.
LEMMA SaveFailedKeeps ==
  ASSUME IInv, NEW r \in Resolvers, SaveFailed(r)
  PROVE  IInv'
  <1> DEFINE row == MarkFailed(job[r].row, "INFRASTRUCTURE_FAILURE")
             evs == {Event("WagerTransactionRejected", job[r].id)}
             s == [NoWrites EXCEPT !.row = row, !.events = evs]
             j == [job[r] EXCEPT !.writes = s]
  <1>1. r \in Workers /\ r \notin Handlers /\ job[r] \in Jobs /\ Shape(r) /\ pc[r] = "failSave"
        /\ UNCHANGED <<tables, sent, faults>>
    BY WageringAssumption DEF Workers, IInv, TypeOK, WorkerInv, SaveFailed
  <1>2. CASE Abandon(r, "INTERNAL")
    <2>1. sent' \in 0..MaxSends /\ faults' \in 0..MaxFaults
      BY <1>1 DEF IInv, TypeOK
    <2> QED BY <1>1, <1>2, <2>1, Abandoning, RestKeeps DEF Outcomes
  <1>3. CASE job' = [job EXCEPT ![r].writes = s] /\ Goto(r, "commit") /\ UNCHANGED holder
    <2>1. job[r].mode = "update" /\ job[r].row \in Rows /\ job[r].id \in AllIds /\ Stored(job[r].id)
      BY <1>1 DEF Shape
    <2>2. row \in Rows
      BY <2>1 DEF MarkFailed, Rows, Statuses, FailureCodes
    <2>3. evs \in SUBSET Events
      BY <2>1 DEF Event, Events
    <2> HIDE DEF row, evs
    <2>4. s \in Writes /\ s.row = row /\ s.moved = FALSE
      BY <2>2, <2>3, NullsTyped DEF Writes, NoWrites
    <2> HIDE DEF s
    <2>5. j \in Jobs
      BY <1>1, <2>4 DEF Jobs
    <2>6. job' = [job EXCEPT ![r] = j] /\ pc' = [pc EXCEPT ![r] = "commit"]
      BY <1>3 DEF Goto
    <2>7. /\ j.failing = job[r].failing /\ j.rec = job[r].rec /\ j.cmd = job[r].cmd
          /\ j.inboxed = job[r].inboxed /\ j.mode = job[r].mode /\ j.id = job[r].id
          /\ j.row = job[r].row /\ j.writes = s
      BY <1>1 DEF Jobs
    <2> HIDE DEF j
    <2>8. ~j.writes.moved /\ j.writes.row \in Rows
      BY <2>2, <2>4, <2>7
    <2>9. j.mode = "update" /\ j.id \in AllIds /\ j.row \in Rows /\ Stored(j.id)
      BY <2>1, <2>7 DEF Stored
    <2>10. UNCHANGED <<tables, holder, sent, faults>>
      BY <1>1, <1>3
    <2> QED BY <1>1, <2>5, <2>6, <2>7, <2>8, <2>9, <2>10, FailStep
  <1> QED BY <1>2, <1>3 DEF SaveFailed

-----------------------------------------------------------------------------
(* Commit.                                                                 *)

\* The chain condition on one ledger and the balance stored beside it.
Chained(L, balance) ==
    /\ \A i \in 1..Len(L) :
          /\ L[i].before = IF i = 1 THEN 0 ELSE L[i - 1].after
          /\ L[i].after = IF L[i].dir = "DEBIT" THEN L[i].before - L[i].amount
                                               ELSE L[i].before + L[i].amount
    /\ balance = IF L = <<>> THEN 0 ELSE L[Len(L)].after

\* One more entry that starts where the chain ends makes a longer chain.
LEMMA ChainGrows ==
  ASSUME NEW L \in Seq(LedgerEntries), NEW b, Chained(L, b), NEW e \in LedgerEntries,
         e.before = b,
         e.after = IF e.dir = "DEBIT" THEN e.before - e.amount ELSE e.before + e.amount
  PROVE  Chained(L \o <<e>>, e.after)
  <1> DEFINE M == L \o <<e>>
  <1>1. /\ Len(M) = Len(L) + 1 /\ M[Len(L) + 1] = e /\ Len(L) \in Nat
        /\ \A i \in 1..Len(L) : M[i] = L[i]
    OBVIOUS
  <1>2. L = <<>> <=> Len(L) = 0
    OBVIOUS
  <1>3. M # <<>>
    BY <1>1
  <1> HIDE DEF M
  <1>4. ASSUME NEW i \in 1..Len(M)
        PROVE  /\ M[i].before = IF i = 1 THEN 0 ELSE M[i - 1].after
               /\ M[i].after = IF M[i].dir = "DEBIT" THEN M[i].before - M[i].amount
                                                    ELSE M[i].before + M[i].amount
    <2>1. CASE i \in 1..Len(L)
      <3>1. i # 1 => i - 1 \in 1..Len(L)
        BY <1>1, <2>1
      <3> QED BY <1>1, <2>1, <3>1 DEF Chained
    <2>2. CASE i = Len(L) + 1
      <3>1. i # 1 => i - 1 = Len(L) /\ Len(L) \in 1..Len(L)
        BY <1>1, <2>2
      <3>2. i = 1 => b = 0
        BY <1>1, <1>2, <2>2 DEF Chained
      <3>3. i # 1 => b = L[Len(L)].after
        BY <1>1, <1>2, <2>2 DEF Chained
      <3> QED BY <1>1, <2>2, <3>1, <3>2, <3>3
    <2> QED BY <1>1, <2>1, <2>2
  <1>5. e.after = M[Len(M)].after
    BY <1>1
  <1> QED BY <1>3, <1>4, <1>5 DEF Chained, M

\* Applying the buffered writes of a unit of work and coming to rest preserves
\* the invariant: the tables stay typed, nobody else's wallet changes, and the
\* ledger of the wallet grows from the balance that was read under the lock.
LEMMA CommitApplies ==
  ASSUME IInv, NEW x \in Workers, pc[x] = "commit", ApplyWrites(x), Rests(x),
         holder' = Released(x), sent' \in 0..MaxSends, faults' \in 0..MaxFaults
  PROVE  IInv'
  <1> DEFINE j == job[x]
             s == j.writes
             w == j.wid
  <1>1. j \in Jobs /\ Shape(x) /\ Locked(x) /\ Continues(x) /\ Unborn(x) /\ TypeOK /\ LedgerChain
        /\ NoLedgerBeforeOpening
    BY DEF IInv, TypeOK, WorkerInv
  <1>2. s \in Writes /\ j.ans \in Answers /\ j.rec \in Records \cup {NoRec}
    BY <1>1 DEF Jobs
  <1>3. s.moved => w \in Wallets /\ ~j.failing
    BY <1>1 DEF Shape, LockedPCs
  <1>4. /\ wallets' = IF s.moved THEN [wallets EXCEPT ![w] = s.wallet] ELSE wallets
        /\ ledger'  = IF s.moved THEN [ledger EXCEPT ![w] = ledger[w] \o s.entries] ELSE ledger
        /\ journal' = journal \cup s.legs
        /\ outbox'  = outbox \cup s.events
    BY DEF ApplyWrites
  <1>5. wallets' \in [Wallets -> WalletRows] /\ ledger' \in [Wallets -> Seq(LedgerEntries)]
    <2>1. s.wallet \in WalletRows /\ s.entries \in Seq(LedgerEntries)
      BY <1>2 DEF Writes
    <2>2. wallets' \in [Wallets -> WalletRows]
      BY <1>1, <1>3, <1>4, <2>1 DEF TypeOK
    <2>3. s.moved => ledger[w] \o s.entries \in Seq(LedgerEntries)
      BY <1>1, <1>3, <2>1 DEF TypeOK
    <2> QED BY <1>1, <1>3, <1>4, <2>2, <2>3 DEF TypeOK
  <1>6. txs' \in [AllIds -> Rows \cup {NoTx}] /\ \A id \in AllIds : Stored(id) => Stored(id)'
    <2>1. CASE j.mode = "insert"
      <3>1. txs' = [txs EXCEPT ![j.id] = s.row] /\ j.id \in AllIds /\ s.row \in Rows
        BY <1>1, <2>1 DEF ApplyWrites, Shape, AfterSave
      <3>2. s.row.status # "ABSENT"
        BY <3>1 DEF Rows, Statuses
      <3> QED BY <1>1, <3>1, <3>2 DEF TypeOK, Stored
    <2>2. CASE j.mode = "update"
      <3> DEFINE row == [txs[j.id] EXCEPT !.status = s.row.status, !.failure = s.row.failure,
                                          !.result = s.row.result, !.refId = s.row.refId]
      <3>1. txs' = [txs EXCEPT ![j.id] = row]
        <4>1. txs' = [txs EXCEPT ![j.id].status = s.row.status, ![j.id].failure = s.row.failure,
                                 ![j.id].result = s.row.result, ![j.id].refId = s.row.refId]
          BY <2>2 DEF ApplyWrites
        <4> QED BY <4>1
      <3>2. j.id \in AllIds /\ s.row \in Rows /\ txs[j.id] \in Rows
        BY <1>1, <2>2, LookupTyped DEF Shape, AfterSave
      <3>3. row \in Rows
        BY <3>2 DEF Rows
      <3> HIDE DEF row
      <3>4. row.status # "ABSENT"
        BY <3>3 DEF Rows, Statuses
      <3> QED BY <1>1, <3>1, <3>2, <3>3, <3>4 DEF TypeOK, Stored
    <2>3. CASE j.mode \notin {"insert", "update"}
      BY <1>1, <2>3 DEF ApplyWrites, TypeOK, Stored
    <2> QED BY <2>1, <2>2, <2>3
  <1>7. retry' \in [AllIds -> [attempts : Nat, due : BOOLEAN, expired : BOOLEAN]]
    <2>1. CASE j.mode = "attempt"
      <3> DEFINE row == [retry[j.id] EXCEPT !.attempts = j.rec.attempts + 1, !.due = FALSE]
      <3>1. j.id \in AllIds /\ j.rec.attempts + 1 \in Nat
        BY <1>1, <1>2, <2>1 DEF Shape, Records, NoRec
      <3>2. retry' = [retry EXCEPT ![j.id] = row]
        <4>1. retry' = [retry EXCEPT ![j.id].attempts = j.rec.attempts + 1, ![j.id].due = FALSE]
          BY <2>1 DEF ApplyWrites
        <4> QED BY <4>1
      <3>3. row \in [attempts : Nat, due : BOOLEAN, expired : BOOLEAN]
        BY <1>1, <3>1 DEF TypeOK
      <3> QED BY <1>1, <3>1, <3>2, <3>3 DEF TypeOK
    <2>2. CASE j.mode # "attempt"
      BY <1>1, <2>2 DEF ApplyWrites, TypeOK
    <2> QED BY <2>1, <2>2
  <1>8. inbox' \in [Messages -> [id : Ids, body : Bodies \cup {NoBody}]]
    <2>1. CASE j.inboxed
      <3>1. j.cmd.msg \in Messages /\ j.cmd.body \in Bodies /\ j.ans.id \in Ids
        BY <1>1, <1>2, <2>1 DEF Shape, Bodies, Answers
      <3> QED BY <1>1, <2>1, <3>1 DEF ApplyWrites, TypeOK
    <2>2. CASE ~j.inboxed
      BY <1>1, <2>2 DEF ApplyWrites, TypeOK
    <2> QED BY <2>1, <2>2
  <1>9. journal' \subseteq Legs /\ outbox' \subseteq Events
    BY <1>1, <1>2, <1>4 DEF TypeOK, Writes
  <1>10. TypeOK'
    <2>1. holder' \in [Wallets -> Workers \cup {NoOne}]
      BY <1>1, ReleasedTyped
    <2>2. pc' \in [Workers -> PCs] /\ job' \in [Workers -> Jobs]
      BY <1>1 DEF Rests, TypeOK
    <2> QED BY <1>5, <1>6, <1>7, <1>8, <1>9, <2>1, <2>2 DEF TypeOK
  <1>11. s.moved => IF Opens(x) THEN /\ ~wallets[w].open /\ s = OpeningWrites(w, Accounts[w])
                                    ELSE /\ holder[w] = x /\ wallets[w].open
                                         /\ j.seen = wallets[w] /\ Holding(x)
    BY <1>1, <1>3 DEF Locked, Holding, LockedPCs, Unborn, OpeningPCs
  <1>12. \A y \in Workers : WorkerInv(y)'
    <2>1. ASSUME NEW y \in Workers \ {x}, Holding(y)
          PROVE  wallets'[job[y].wid] = wallets[job[y].wid]
      <3>1. holder[job[y].wid] = y /\ wallets[job[y].wid].open
        BY <2>1 DEF IInv, WorkerInv, Locked
      <3>2. s.moved => w # job[y].wid
        BY <1>11, <3>1
      <3> QED BY <1>1, <1>4, <3>2 DEF TypeOK
    <2>2. ASSUME NEW y \in Handlers \ {x}, Opens(y), pc[y] \in OpeningPCs
          PROVE  wallets'[job[y].wid] = wallets[job[y].wid]
      <3>1. y \in Workers
        BY DEF Workers
      <3>2. Unborn(y)
        BY <3>1 DEF IInv, WorkerInv
      <3>3. s.moved => w # job[y].wid
        <4>1. CASE Opens(x)
          BY <1>1, <2>2, <3>2, <4>1 DEF Unborn, OpeningPCs, Opens
        <4>2. CASE ~Opens(x)
          BY <1>11, <2>2, <3>2, <4>2 DEF Unborn
        <4> QED BY <4>1, <4>2
      <3> QED BY <1>1, <1>4, <3>3 DEF TypeOK
    <2> QED BY <1>6, <2>1, <2>2, Others DEF Rests
  <1>13. ASSUME NEW v \in Wallets
         PROVE  Chained(ledger'[v], wallets'[v].balance) /\ (~wallets'[v].open => ledger'[v] = <<>>)
    <2>1. Chained(ledger[v], wallets[v].balance) /\ (~wallets[v].open => ledger[v] = <<>>)
      BY <1>1 DEF Chained, LedgerChain, NoLedgerBeforeOpening
    <2>2. CASE ~s.moved \/ v # w
      <3>1. ledger'[v] = ledger[v] /\ wallets'[v] = wallets[v]
        BY <1>1, <1>4, <2>2 DEF TypeOK
      <3> QED BY <2>1, <3>1
    <2>3. CASE s.moved /\ v = w
      <3>1. ledger'[w] = ledger[w] \o s.entries /\ wallets'[w] = s.wallet
            /\ ledger[w] \in Seq(LedgerEntries)
        BY <1>1, <1>3, <1>4, <2>3 DEF TypeOK
      <3>2. CASE ~Opens(x)
        <4>1. PICK e \in LedgerEntries :
                 /\ s.entries = <<e>>
                 /\ e.before = j.seen.balance
                 /\ e.after = s.wallet.balance
                 /\ e.after = IF e.dir = "DEBIT" THEN e.before - e.amount ELSE e.before + e.amount
                 /\ s.wallet.open
          BY <1>1, <1>11, <2>3, <3>2 DEF Continues
        <4>2. e.before = wallets[w].balance
          BY <1>11, <2>3, <3>2, <4>1
        <4>3. Chained(ledger[w] \o <<e>>, e.after)
          BY <2>1, <2>3, <3>1, <4>1, <4>2, ChainGrows
        <4> QED BY <2>3, <3>1, <4>1, <4>3
      <3>3. CASE Opens(x)
        <4>1. ledger[w] = <<>> /\ Chained(<<>>, 0)
          BY <1>11, <2>1, <2>3, <3>3 DEF Chained
        <4>2. s.wallet.open = TRUE
              /\ \/ s.entries = <<>> /\ s.wallet.balance = 0
                 \/ \E e \in LedgerEntries :
                      /\ s.entries = <<e>> /\ e.before = 0 /\ e.dir = "CREDIT"
                      /\ e.after = e.amount /\ s.wallet.balance = e.after
          BY <1>3, <1>11, <2>3, <3>3, OpeningTyped
        <4>3. CASE s.entries = <<>> /\ s.wallet.balance = 0
          BY <2>3, <3>1, <4>1, <4>2, <4>3
        <4>4. ASSUME NEW e \in LedgerEntries, s.entries = <<e>>, e.before = 0, e.dir = "CREDIT",
                     e.after = e.amount, s.wallet.balance = e.after
              PROVE  Chained(ledger'[v], wallets'[v].balance)
          <5>1. e.after = IF e.dir = "DEBIT" THEN e.before - e.amount ELSE e.before + e.amount
            BY <4>4 DEF LedgerEntries, Amounts
          <5>2. <<>> \in Seq(LedgerEntries)
            OBVIOUS
          <5>3. Chained(<<>> \o <<e>>, e.after)
            BY <4>1, <4>4, <5>1, <5>2, ChainGrows
          <5> QED BY <2>3, <3>1, <4>1, <4>4, <5>3
        <4> QED BY <2>3, <3>1, <4>2, <4>3, <4>4
      <3> QED BY <3>2, <3>3
    <2> QED BY <2>2, <2>3
  <1>14. NoLedgerBeforeOpening' /\ LedgerChain'
    BY <1>13 DEF NoLedgerBeforeOpening, LedgerChain, Chained
  <1> QED BY <1>10, <1>12, <1>14 DEF IInv

-----------------------------------------------------------------------------
(* The remaining actions, and the theorems.                                *)

\* Any commit, acknowledged or not.
LEMMA CommitKeeps ==
  ASSUME IInv, NEW x \in Workers, Commit(x) \/ CommitUnacknowledged(x)
  PROVE  IInv'
  <1>1. pc[x] = "commit" /\ ApplyWrites(x) /\ holder' = Released(x)
    BY DEF Commit, CommitUnacknowledged, Abandon
  <1>2. sent' \in 0..MaxSends /\ faults' \in 0..MaxFaults
    BY WageringAssumption DEF Commit, CommitUnacknowledged, Fault, IInv, TypeOK
  <1>3. Rests(x)
    <2>1. CASE CommitUnacknowledged(x)
      BY <1>1, <2>1, Abandoning DEF CommitUnacknowledged, Outcomes
    <2>2. CASE Commit(x) /\ x \in Handlers
      <3>1. job[x].ans \in Answers
        BY DEF IInv, TypeOK, Jobs
      <3> QED BY <1>1, <2>2, <3>1, Answering DEF Commit
    <2>3. CASE Commit(x) /\ x \notin Handlers
      BY <1>1, <2>3, MovingOn DEF Commit, Workers
    <2> QED BY <2>1, <2>2, <2>3
  <1> QED BY <1>1, <1>2, <1>3, CommitApplies

\* A failed statement rolls back; a crash also loses the worker's memory.
LEMMA FailureKeeps ==
  ASSUME IInv, NEW x \in Workers, StatementFails(x) \/ Crash(x)
  PROVE  IInv'
  <1>1. UNCHANGED tables /\ holder' = Released(x)
    BY DEF StatementFails, Crash, Abandon
  <1>2. sent' \in 0..MaxSends /\ faults' \in 0..MaxFaults
    BY WageringAssumption DEF StatementFails, Crash, Fault, IInv, TypeOK
  <1>3. Rests(x)
    <2>1. CASE StatementFails(x)
      BY <2>1, Abandoning DEF StatementFails, Outcomes
    <2>2. CASE Crash(x)
      <3>1. "idle" \in RestPCs /\ job' = [job EXCEPT ![x] = IdleJob] /\ pc' = [pc EXCEPT ![x] = "idle"]
        BY <2>2 DEF RestPCs, Crash, Goto
      <3>2. IdleJob.writes = NoWrites /\ IdleJob.inboxed = FALSE /\ IdleJob.mode = None
            /\ IdleJob.failing = FALSE /\ IdleJob.cmd = NoCmd
        BY DEF IdleJob
      <3> QED BY <1>1, <3>1, <3>2, IdleTyped, Resting
    <2> QED BY <2>1, <2>2
  <1> QED BY <1>1, <1>2, <1>3, RestKeeps

\* Time only touches the flags of a parked row.
LEMMA TimeKeeps ==
  ASSUME IInv, NEW id \in TxIds, Time(id)
  PROVE  IInv'
  <1>1. UNCHANGED <<wallets, txs, ledger, journal, inbox, outbox, holder, pc, job, sent, faults>>
    BY DEF Time, BackoffElapses, TTLElapses
  <1>2. retry' \in [AllIds -> [attempts : Nat, due : BOOLEAN, expired : BOOLEAN]]
    <2>1. retry \in [AllIds -> [attempts : Nat, due : BOOLEAN, expired : BOOLEAN]] /\ id \in AllIds
      BY DEF IInv, TypeOK, AllIds
    <2>2. CASE BackoffElapses(id)
      BY <2>1, <2>2 DEF BackoffElapses
    <2>3. CASE TTLElapses(id)
      BY <2>1, <2>3 DEF TTLElapses
    <2> QED BY <2>2, <2>3 DEF Time
  <1>3. TypeOK'
    BY <1>1, <1>2 DEF IInv, TypeOK
  <1>4. ASSUME NEW x \in Workers PROVE WorkerInv(x)'
    <2>1. WorkerInv(x)
      BY DEF IInv
    <2>2. Shape(x)'
      BY <1>1, <2>1 DEF WorkerInv, Shape, Stored
    <2>3. Locked(x)' /\ Continues(x)'
      BY <1>1, <2>1 DEF WorkerInv, Locked, Continues, Holding, Opens
    <2>4. Unborn(x)'
      BY <1>1, <2>1 DEF WorkerInv, Unborn, Opens
    <2> QED BY <2>2, <2>3, <2>4 DEF WorkerInv
  <1>5. NoLedgerBeforeOpening' /\ LedgerChain'
    BY <1>1 DEF IInv, NoLedgerBeforeOpening, LedgerChain
  <1> QED BY <1>3, <1>4, <1>5 DEF IInv

\* A stuttering step changes nothing.
LEMMA StutterKeeps ==
  ASSUME IInv, UNCHANGED vars
  PROVE  IInv'
  <1>1. TypeOK'
    BY DEF IInv, TypeOK, vars, tables
  <1>2. ASSUME NEW x \in Workers PROVE WorkerInv(x)'
    <2>1. WorkerInv(x)
      BY DEF IInv
    <2>2. Shape(x)'
      BY <2>1 DEF WorkerInv, Shape, Stored, vars, tables
    <2>3. Locked(x)' /\ Continues(x)'
      BY <2>1 DEF WorkerInv, Locked, Continues, Holding, Opens, vars, tables
    <2>4. Unborn(x)'
      BY <2>1 DEF WorkerInv, Unborn, Opens, vars, tables
    <2> QED BY <2>2, <2>3, <2>4 DEF WorkerInv
  <1>3. NoLedgerBeforeOpening' /\ LedgerChain'
    BY DEF IInv, NoLedgerBeforeOpening, LedgerChain, vars, tables
  <1> QED BY <1>1, <1>2, <1>3 DEF IInv

\* The seeded wallets start with the writes of a finished opening.
LEMMA InitHolds == Init => IInv
  <1> SUFFICES ASSUME Init PROVE IInv
    OBVIOUS
  <1>1. ASSUME NEW w \in Wallets
        PROVE  /\ SeedWrites(w) \in Writes
               /\ Chained(SeedWrites(w).entries, SeedWrites(w).wallet.balance)
               /\ ~SeedWrites(w).wallet.open => SeedWrites(w).entries = <<>>
    <2>1. CASE w \notin Seeded
      <3>1. SeedWrites(w) = NoWrites
        BY <2>1 DEF SeedWrites
      <3>2. NoWrites.entries = <<>> /\ NoWrites.wallet.balance = 0
        BY DEF NoWrites, NoWallet
      <3> QED BY <3>1, <3>2, NullsTyped DEF Chained
    <2>2. CASE w \in Seeded
      <3> DEFINE s == OpeningWrites(w, Accounts[w])
      <3>1. SeedWrites(w) = s
        BY <2>2 DEF SeedWrites
      <3>2. /\ s \in Writes /\ s.wallet.open = TRUE
            /\ \/ s.entries = <<>> /\ s.wallet.balance = 0
               \/ \E e \in LedgerEntries :
                      /\ s.entries = <<e>> /\ e.before = 0 /\ e.dir = "CREDIT"
                      /\ e.after = e.amount /\ s.wallet.balance = e.after
        BY OpeningTyped
      <3> HIDE DEF s
      <3>3. Chained(<<>>, 0) /\ <<>> \in Seq(LedgerEntries)
        BY DEF Chained
      <3>4. ASSUME NEW e \in LedgerEntries, s.entries = <<e>>, e.before = 0, e.dir = "CREDIT",
                   e.after = e.amount, s.wallet.balance = e.after
            PROVE  Chained(s.entries, s.wallet.balance)
        <4>1. e.after = IF e.dir = "DEBIT" THEN e.before - e.amount ELSE e.before + e.amount
          BY <3>4 DEF LedgerEntries, Amounts
        <4>2. Chained(<<>> \o <<e>>, e.after)
          BY <3>3, <3>4, <4>1, ChainGrows
        <4>3. <<>> \o <<e>> = <<e>>
          OBVIOUS
        <4> QED BY <3>4, <4>2, <4>3
      <3> QED BY <3>1, <3>2, <3>3, <3>4
    <2> QED BY <2>1, <2>2
  <1>2. TypeOK
    <2>1. wallets \in [Wallets -> WalletRows] /\ ledger \in [Wallets -> Seq(LedgerEntries)]
      BY <1>1 DEF Init, Writes
    <2>2. txs \in [AllIds -> Rows \cup {NoTx}]
      BY <1>1 DEF Init, Writes
    <2>3. retry \in [AllIds -> [attempts : Nat, due : BOOLEAN, expired : BOOLEAN]]
      BY DEF Init
    <2>4. journal \subseteq Legs /\ outbox \subseteq Events
      BY <1>1 DEF Init, Writes
    <2>5. inbox \in [Messages -> [id : Ids, body : Bodies \cup {NoBody}]]
      BY DEF Init, Ids
    <2>6. holder \in [Wallets -> Workers \cup {NoOne}] /\ pc \in [Workers -> PCs]
      BY DEF Init, PCs
    <2>7. job \in [Workers -> Jobs] /\ sent \in 0..MaxSends /\ faults \in 0..MaxFaults
      BY IdleTyped, WageringAssumption DEF Init
    <2> QED BY <2>1, <2>2, <2>3, <2>4, <2>5, <2>6, <2>7 DEF TypeOK
  <1>3. ASSUME NEW x \in Workers PROVE WorkerInv(x)
    <2>1. pc[x] = "idle" /\ job[x] = IdleJob
      BY DEF Init
    <2>2. IdleJob.writes = NoWrites /\ IdleJob.inboxed = FALSE /\ IdleJob.mode = None
          /\ IdleJob.failing = FALSE /\ IdleJob.cmd = NoCmd
      BY DEF IdleJob
    <2>3. Shape(x)
      BY <2>1, <2>2 DEF Shape, HandlerPCs, ResolverPCs, LockedPCs, AfterSave, NoWrites, None
    <2>4. Locked(x) /\ Continues(x) /\ Unborn(x)
      BY <2>1 DEF Locked, Continues, Unborn, Holding, LockedPCs, OpeningPCs
    <2> QED BY <2>3, <2>4 DEF WorkerInv
  <1>4. NoLedgerBeforeOpening /\ LedgerChain
    BY <1>1 DEF Init, NoLedgerBeforeOpening, LedgerChain, Chained
  <1> QED BY <1>2, <1>3, <1>4 DEF IInv

\* Every action preserves the inductive invariant.
LEMMA NextKeeps == IInv /\ [Next]_vars => IInv'
  <1> SUFFICES ASSUME IInv, [Next]_vars PROVE IInv'
    OBVIOUS
  <1>1. ASSUME NEW h \in Handlers, Arrival(h) PROVE IInv'
    BY <1>1, SubmitKeeps, RequestOpeningKeeps DEF Arrival
  <1>2. ASSUME NEW h \in Handlers, HandlerStep(h) PROVE IInv'
    <2>1. h \in Workers
      BY DEF Workers
    <2> QED BY <1>2, <2>1, FastReplayKeeps, GetForUpdateKeeps, ReadInboxKeeps, ReadKeyKeeps,
               ReadIdentityKeeps, DecideKeeps, CheckReversalKeeps, SettleKeeps,
               UpdateBalanceKeeps, RecordInboxKeeps, CommitKeeps, RespondKeeps, ExistsKeeps,
               InsertWalletKeeps DEF HandlerStep
  <1>3. ASSUME NEW r \in Resolvers, ResolverStep(r) PROVE IInv'
    <2>1. r \in Workers
      BY DEF Workers
    <2> QED BY <1>3, <2>1, ClaimKeeps, LoadPendingKeeps, EndPassKeeps, GetForUpdateParkedKeeps,
               DecideParkedKeeps, CheckReversalKeeps, SettleKeeps, RecordAttemptKeeps,
               UpdateBalanceKeeps, CommitKeeps, LoadFailingKeeps, SaveFailedKeeps
               DEF ResolverStep
  <1>4. ASSUME NEW x \in Workers, Failure(x) PROVE IInv'
    BY <1>4, CommitKeeps, FailureKeeps DEF Failure
  <1>5. ASSUME NEW id \in TxIds, Time(id) PROVE IInv'
    BY <1>5, TimeKeeps
  <1>6. CASE UNCHANGED vars
    BY <1>6, StutterKeeps
  <1> QED BY <1>1, <1>2, <1>3, <1>4, <1>5, <1>6 DEF Next, Quiescent

\* The inductive invariant holds in every reachable state, for any number of
\* handlers, resolvers, wallets and requests.
THEOREM Invariance == Spec => []IInv
  BY InitHolds, NextKeeps, PTL DEF Spec

\* Tables and locals keep their types: no balance, stored or buffered, is ever
\* negative or beyond the largest amount.
THEOREM TypeCorrect == Spec => []TypeOK
  <1>1. IInv => TypeOK
    BY DEF IInv
  <1> QED BY <1>1, Invariance, PTL

\* The ledger of every wallet is a gapless chain that ends at the stored balance.
THEOREM LedgerIsChain == Spec => []LedgerChain
  <1>1. IInv => LedgerChain
    BY DEF IInv
  <1> QED BY <1>1, Invariance, PTL

\* The optimistic version check of UpdateBalance never trips under the row lock.
THEOREM CASIsRedundant == Spec => []CASNeverFails
  <1>1. IInv => CASNeverFails
    <2> SUFFICES ASSUME IInv, NEW x \in Workers, pc[x] = "post"
                 PROVE  wallets[job[x].wid] = job[x].seen /\ holder[job[x].wid] = x
      BY DEF CASNeverFails
    <2>1. pc[x] \in LockedPCs \ {"commit"}
      BY DEF LockedPCs
    <2> QED BY <2>1, Busy
  <1> QED BY <1>1, Invariance, PTL
=============================================================================
