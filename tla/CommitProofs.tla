---------------------------- MODULE CommitProofs ----------------------------
(***************************************************************************)
(* What a commit does to the tables, why it disturbs nobody who does not   *)
(* hold the same wallet, and the theorems that follow from RowInv.         *)
(*                                                                         *)
(* Then MoneyInv: money moves once per successful operation, ledger,       *)
(* journal and outbox say so together, and a reversal undoes what it       *)
(* refers to.  RowInv says what a unit of work commits (Grows,             *)
(* NewReversal); its effect on ledger, journal and outbox is one of two: a *)
(* row that moves no money (RecordsRow) or one that moves it (MovesMoney). *)
(* Both keep MoneyInv, because the row they write was not settled before.  *)
(***************************************************************************)
EXTENDS RowProofs

-----------------------------------------------------------------------------
(* What a commit writes.                                                   *)

\* The row that a commit of x writes, in each of the three cases.
LEMMA CommitRow ==
  ASSUME IInv, RowInv, NEW x \in Workers, pc[x] = "commit", ApplyWrites(x)
  PROVE  /\ job[x].mode \in {None, "attempt"} => txs' = txs
         /\ job[x].mode = "insert" =>
               /\ job[x].id \in AllIds /\ ~Stored(job[x].id) /\ job[x].writes.row \in Rows
               /\ txs' = [txs EXCEPT ![job[x].id] = job[x].writes.row]
         /\ job[x].mode = "update" =>
               /\ job[x].id \in AllIds /\ Parked(job[x].id) /\ job[x].writes.row \in Rows
               /\ job[x].writes.row.key = txs[job[x].id].key
               /\ job[x].writes.row.body = txs[job[x].id].body
               /\ txs' = [txs EXCEPT ![job[x].id] = job[x].writes.row]
  <1>1. job[x] \in Jobs /\ Shape(x) /\ Owns(x) /\ txs \in [AllIds -> Rows \cup {NoTx}]
    BY DEF RowInv, RowWorker, IInv, TypeOK, WorkerInv
  <1>2. None \notin {"insert", "update", "attempt"} /\ pc[x] \in AfterSave
    BY DEF None, AfterSave
  <1>3. job[x].mode \in {None, "attempt"} => txs' = txs
    BY <1>2 DEF ApplyWrites
  <1>4. CASE job[x].mode = "insert"
    <2>1. job[x].id \in AllIds /\ ~Stored(job[x].id) /\ job[x].writes.row \in Rows
      BY <1>1, <1>2, <1>4 DEF Owns, Shape
    <2>2. txs' = [txs EXCEPT ![job[x].id] = job[x].writes.row]
      BY <1>4 DEF ApplyWrites
    <2> QED BY <1>2, <1>4, <2>1, <2>2
  <1>5. CASE job[x].mode = "update"
    <2> DEFINE id == job[x].id
               new == job[x].writes.row
    <2>1. /\ id \in AllIds /\ Parked(id) /\ txs[id] \in Rows /\ new \in Rows
          /\ new.key = txs[id].key /\ new.body = txs[id].body
      BY <1>2, <1>5, Updating DEF AllIds
    <2>2. txs' = [txs EXCEPT ![id].status = new.status, ![id].failure = new.failure,
                             ![id].result = new.result, ![id].refId = new.refId]
      BY <1>5 DEF ApplyWrites
    <2>3. txs' = [txs EXCEPT ![id] = [txs[id] EXCEPT !.status = new.status, !.failure = new.failure,
                                                     !.result = new.result, !.refId = new.refId]]
      BY <2>2, Zenon
    <2>4. [txs[id] EXCEPT !.status = new.status, !.failure = new.failure,
                          !.result = new.result, !.refId = new.refId] = new
      BY <2>1, RowReplaced
    <2>5. txs' = [txs EXCEPT ![id] = new]
      BY <2>3, <2>4
    <2> QED BY <1>2, <1>5, <2>1, <2>5
  <1> QED BY <1>1, <1>3, <1>4, <1>5 DEF Jobs

\* The tables only grow: stored rows keep their key and body, settled ones
\* everything; wallets stay open; recorded messages stay as they are.
LEMMA Grows ==
  ASSUME IInv, RowInv, NEW x \in Workers, pc[x] = "commit", ApplyWrites(x)
  PROVE  /\ \A i \in AllIds : Stored(i) =>
               txs'[i].status # "ABSENT" /\ txs'[i].key = txs[i].key /\ txs'[i].body = txs[i].body
         /\ \A i \in AllIds : IsTerminal(txs[i].status) => txs'[i] = txs[i]
         /\ \A i \in AllIds : txs'[i] # txs[i] =>
               /\ i = job[x].id /\ job[x].mode \in {"insert", "update"}
               /\ txs'[i] = job[x].writes.row
         /\ \A w \in Wallets : wallets[w].open => wallets'[w].open
         /\ \A w \in Wallets : wallets'[w] # wallets[w] =>
               job[x].writes.moved /\ w = job[x].wid /\ wallets'[w] = job[x].writes.wallet
         /\ \A m \in Messages : inbox[m].id # None => inbox'[m] = inbox[m]
         /\ \A m \in Messages : inbox'[m] # inbox[m] =>
               /\ job[x].inboxed /\ m = job[x].cmd.msg
               /\ inbox'[m] = [id |-> job[x].ans.id, body |-> job[x].cmd.body]
  <1>1. job[x] \in Jobs /\ Shape(x) /\ Owns(x) /\ Continues(x) /\ Unborn(x) /\ TypeOK
    BY DEF RowInv, RowWorker, IInv, TypeOK, WorkerInv
  <1>2. job[x].mode \in {None, "insert", "update", "attempt"}
    BY <1>1 DEF Jobs
  <1>3. \A i \in AllIds : txs'[i] # txs[i] =>
               /\ i = job[x].id /\ job[x].mode \in {"insert", "update"}
               /\ txs'[i] = job[x].writes.row
    BY <1>1, <1>2, CommitRow DEF TypeOK
  <1>4. \A i \in AllIds : IsTerminal(txs[i].status) => txs'[i] = txs[i]
    <2>1. ASSUME NEW i \in AllIds, IsTerminal(txs[i].status), txs'[i] # txs[i] PROVE FALSE
      <3>1. i = job[x].id /\ job[x].mode \in {"insert", "update"}
        BY <1>3, <2>1
      <3>2. ~Stored(i) \/ Parked(i)
        BY <3>1, CommitRow
      <3> QED BY <2>1, <3>2 DEF Stored, Parked, IsTerminal
    <2> QED BY <2>1
  <1>5. ASSUME NEW i \in AllIds, Stored(i)
        PROVE  txs'[i].status # "ABSENT" /\ txs'[i].key = txs[i].key /\ txs'[i].body = txs[i].body
    <2>1. CASE txs'[i] = txs[i]
      BY <1>5, <2>1 DEF Stored
    <2>2. CASE txs'[i] # txs[i]
      <3>1. i = job[x].id /\ job[x].mode = "update" /\ txs'[i] = job[x].writes.row
        BY <1>3, <1>5, <2>2, CommitRow
      <3>2. job[x].writes.row \in Rows
        BY <3>1, CommitRow
      <3>3. job[x].writes.row.status # "ABSENT"
        BY <3>2 DEF Rows, Statuses
      <3> QED BY <3>1, <3>3, CommitRow
    <2> QED BY <2>1, <2>2
  <1>6. \A w \in Wallets : wallets'[w] # wallets[w] =>
               job[x].writes.moved /\ w = job[x].wid /\ wallets'[w] = job[x].writes.wallet
    BY <1>1 DEF ApplyWrites, TypeOK
  <1>7. job[x].writes.moved => job[x].writes.wallet.open
    <2>1. CASE Opens(x)
      BY <2>1, OpeningCommit
    <2>2. CASE ~Opens(x) /\ job[x].writes.moved
      <3>1. ~job[x].failing
        BY <1>1, <2>2 DEF Shape
      <3> QED BY <1>1, <2>2, <3>1 DEF Continues, Holding, LockedPCs
    <2> QED BY <2>1, <2>2
  <1>8. \A w \in Wallets : wallets[w].open => wallets'[w].open
    BY <1>6, <1>7
  <1>9. \A m \in Messages : inbox'[m] # inbox[m] =>
               /\ job[x].inboxed /\ m = job[x].cmd.msg
               /\ inbox'[m] = [id |-> job[x].ans.id, body |-> job[x].cmd.body]
    BY <1>1 DEF ApplyWrites, TypeOK
  <1>10. \A m \in Messages : inbox[m].id # None => inbox'[m] = inbox[m]
    BY <1>1, <1>9 DEF Owns
  <1> QED BY <1>3, <1>4, <1>5, <1>6, <1>8, <1>9, <1>10

\* A commit of x that leaves everybody else where they are.
Commits(x) ==
    /\ pc[x] = "commit" /\ ApplyWrites(x)
    /\ \A y \in Workers \ {x} : pc'[y] = pc[y] /\ job'[y] = job[y]

-----------------------------------------------------------------------------
(* Nobody else is disturbed.                                               *)

\* Whoever carries out a decision holds the wallet of its transaction.
LEMMA SettlingHolds ==
  ASSUME IInv, RowInv, NEW y \in Workers, Settles(y), pc[y] \in {"reversal", "save"} \cup AfterSave
  PROVE  /\ job[y] \in Jobs /\ job[y].row \in Rows /\ job[y].wid = job[y].row.body.wallet
         /\ job[y].wid \in Wallets /\ holder[job[y].wid] = y /\ wallets[job[y].wid].open
         /\ job[y].seen = wallets[job[y].wid]
  <1>1. job[y] \in Jobs /\ Shape(y) /\ Locked(y) /\ About(y)
    BY DEF RowInv, RowWorker, IInv, TypeOK, WorkerInv
  <1>2. ~Opens(y) /\ ~job[y].failing /\ job[y].mode \in {"insert", "update"} /\ pc[y] \in LockedPCs
    BY DEF Settles, LockedPCs, AfterSave
  <1>3. job[y].wid \in Wallets /\ holder[job[y].wid] = y /\ wallets[job[y].wid].open
        /\ job[y].seen = wallets[job[y].wid]
    BY <1>1, <1>2 DEF Shape, Locked, Holding
  <1>4. job[y].row \in Rows /\ job[y].wid = job[y].row.body.wallet
    <2>1. CASE pc[y] \in {"reversal", "save"}
      BY <2>1, Deciding DEF DecisionPCs
    <2>2. CASE pc[y] \in AfterSave /\ job[y].mode = "update"
      BY <1>2, <2>2, Updating
    <2>3. CASE pc[y] \in AfterSave /\ job[y].mode = "insert"
      <3>1. y \in Handlers /\ job[y].row \in Rows /\ job[y].row.body = job[y].cmd.body
        BY <1>2, <2>3, Inserting
      <3>2. pc[y] # "reply"
        BY <2>3 DEF AfterSave
      <3> QED BY <1>1, <1>2, <3>1, <3>2 DEF About
    <2> QED BY <1>2, <2>1, <2>2, <2>3
  <1> QED BY <1>1, <1>3, <1>4

\* Only an opening opens a wallet.
LEMMA OnlyOpeningsOpen ==
  ASSUME IInv, RowInv, NEW x \in Workers, pc[x] = "commit", ApplyWrites(x),
         NEW v \in Wallets, wallets'[v].open, ~wallets[v].open
  PROVE  Opens(x) /\ v = job[x].wid
  <1>1. wallets'[v] # wallets[v]
    OBVIOUS
  <1>2. job[x].writes.moved /\ v = job[x].wid
    BY <1>1, Grows
  <1>3. Shape(x) /\ Locked(x)
    BY DEF IInv, WorkerInv
  <1>4. ~job[x].failing
    BY <1>2, <1>3 DEF Shape
  <1> QED BY <1>2, <1>3, <1>4 DEF Locked, Holding, LockedPCs

\* About and Buffers of the others.
LEMMA OtherHands ==
  ASSUME IInv, RowInv, NEW x \in Workers, Commits(x), NEW y \in Workers \ {x}
  PROVE  About(y)' /\ Buffers(y)'
  <1>1. pc'[y] = pc[y] /\ job'[y] = job[y] /\ About(y) /\ Buffers(y) /\ Shape(y)
    BY DEF Commits, RowInv, RowWorker, IInv, WorkerInv
  <1>2. Buffers(y)'
    BY <1>1 DEF Buffers, Opens, Settles
  <1>3. y \in Resolvers /\ job[y].mode # None =>
           /\ txs'[job[y].id].key = txs[job[y].id].key
           /\ txs'[job[y].id].body = txs[job[y].id].body
    BY <1>1, Grows DEF Commits, About, Shape
  <1>4. About(y)'
    BY <1>1, <1>3 DEF About, Opens
  <1> QED BY <1>2, <1>4

\* Owns of the others: their ids, keys, identities, messages and slots are theirs.
LEMMA OtherOwns ==
  ASSUME IInv, RowInv, NEW x \in Workers, Commits(x), NEW y \in Workers \ {x}
  PROVE  Owns(y)'
  <1> DEFINE j == job[y]
             k == job[x]
  <1>1. pc'[y] = pc[y] /\ job'[y] = job[y] /\ Owns(y) /\ Shape(y) /\ Apart(x, y) /\ Apart(y, x)
        /\ pc[x] = "commit" /\ ApplyWrites(x) /\ (Opens(y)' <=> Opens(y))
    BY DEF Commits, RowInv, RowWorker, IInv, WorkerInv, Opens
  <1>2. pc[x] \in AfterSave
    BY <1>1 DEF AfterSave
  <1>3. pc[y] \in AfterSave /\ j.mode \in {"insert", "update", "attempt"} => txs'[j.id] = txs[j.id]
    <2>1. pc[y] \in AfterSave /\ j.mode \in {"insert", "update", "attempt"} => j.id \in AllIds
      BY <1>1 DEF Owns, Shape
    <2>2. pc[y] \in AfterSave /\ j.mode \in {"insert", "update", "attempt"} /\ k.mode \in {"insert", "update"}
            => j.id # k.id
      BY <1>1, <1>2 DEF Apart
    <2>3. \A i \in AllIds : txs'[i] # txs[i] => i = k.id /\ k.mode \in {"insert", "update"}
      BY <1>1, Grows
    <2> QED BY <2>1, <2>2, <2>3
  <1>4. pc[y] \in AfterSave /\ j.mode = "insert" => txs'[j.id].status = "ABSENT" /\ j.id \in AllIds
    BY <1>1, <1>3 DEF Owns, Stored
  <1>5. pc[y] \in AfterSave /\ j.mode \in {"update", "attempt"} => txs'[j.id].status = "PENDING_REFERENCE"
    BY <1>1, <1>3 DEF Owns, Parked
  <1>6. ASSUME pc[y] \in AfterSave, j.mode = "insert", ~Opens(y), NEW i \in TxIds,
               txs'[i].status # "ABSENT"
        PROVE  ~Collides(txs'[i], j.row)
    <2>1. \A t \in TxIds : Stored(t) => ~Collides(txs[t], j.row)
      BY <1>1, <1>6 DEF Owns
    <2>2. CASE txs'[i] = txs[i]
      BY <1>6, <2>1, <2>2 DEF Stored
    <2>3. CASE txs'[i] # txs[i]
      <3>1. i = k.id /\ k.mode \in {"insert", "update"} /\ txs'[i] = k.writes.row
        BY <1>1, <2>3, Grows DEF AllIds
      <3>2. CASE k.mode = "update"
        <4>1. Stored(i) /\ k.writes.row.key = txs[i].key /\ k.writes.row.body = txs[i].body
          BY <1>1, <3>1, <3>2, CommitRow DEF Parked, Stored
        <4> QED BY <2>1, <3>1, <4>1 DEF Collides
      <3>3. CASE k.mode = "insert"
        <4>1. ~Opens(x)
          BY <1>1, <3>1, OpeningCommit, WageringAssumption
        <4>2. k.writes.row.key = k.row.key /\ k.writes.row.body = k.row.body
          BY <1>2, <3>3, <4>1, Inserting
        <4>3. ~Collides(k.row, j.row)
          BY <1>1, <1>2, <1>6, <3>3, <4>1 DEF Apart
        <4> QED BY <3>1, <4>2, <4>3 DEF Collides
      <3> QED BY <3>1, <3>2, <3>3
    <2> QED BY <2>2, <2>3
  <1>7. j.inboxed => pc[y] = "commit" /\ inbox'[j.cmd.msg].id = None
    <2>1. j.inboxed => j.cmd.msg \in Messages /\ inbox[j.cmd.msg].id = None /\ pc[y] = "commit"
      BY <1>1 DEF Owns, Shape
    <2>2. j.inboxed /\ k.inboxed => k.cmd.msg # j.cmd.msg
      BY <1>1 DEF Apart
    <2> QED BY <1>1, <2>1, <2>2, Grows
  <1>8. ASSUME Opens(y), pc[y] = "commit", NEW v \in Wallets, wallets'[v].open
        PROVE  ~SameSlot(v, j.wid)
    <2>1. CASE wallets[v].open
      BY <1>1, <1>8, <2>1 DEF Owns
    <2>2. CASE ~wallets[v].open
      <3>1. Opens(x) /\ v = k.wid
        BY <1>1, <1>8, <2>2, OnlyOpeningsOpen
      <3> QED BY <1>1, <1>8, <3>1 DEF Apart
    <2> QED BY <2>1, <2>2
  <1>9. (\A i \in TxIds : Stored(i) => ~Collides(txs[i], job[y].row))'
          <=> \A i \in TxIds : txs'[i].status # "ABSENT" => ~Collides(txs'[i], job[y].row)
    BY <1>1 DEF Stored
  <1>10. (\A v \in Wallets : wallets[v].open => ~SameSlot(v, job[y].wid))'
          <=> \A v \in Wallets : wallets'[v].open => ~SameSlot(v, job[y].wid)
    BY <1>1
  <1>11. j.id \in Wallets => Opens(y) /\ pc[y] = "commit"
    BY <1>1 DEF Owns
  <1> QED BY <1>1, <1>4, <1>5, <1>6, <1>7, <1>8, <1>9, <1>10, <1>11 DEF Owns, Stored, Parked

\* The OPENING transaction is not a reversal.
LEMMA OpeningKind ==
  ASSUME NEW w, NEW account
  PROVE  LET row == NewOpening(w, account)
         IN  /\ row.body.kind = "OPENING" /\ row.status = "PROCESSED" /\ row.key = None
             /\ row.body.wallet = w /\ row.body.provider = None /\ row.refId = None
  BY DEF NewOpening, OpeningBody, NoBody

\* A reversal that a commit makes successful: it was decided under the lock of its
\* wallet, and nobody had reversed its reference.
LEMMA NewReversal ==
  ASSUME IInv, RowInv, NEW x \in Workers, pc[x] = "commit", ApplyWrites(x), NEW t \in AllIds,
         txs'[t] # txs[t], RequiresReference(txs'[t].body.kind), txs'[t].status = "PROCESSED"
  PROVE  LET k == job[x]
             ref == txs'[t].refId
         IN  /\ t = k.id /\ Settles(x) /\ k.wid = k.row.body.wallet /\ holder[k.wid] = x
             /\ txs'[t].body = k.row.body /\ k.row.refId = ref /\ ref \in AllIds
             /\ k.plan = ReferenceVerdict(k.row.body, txs[ref]) /\ k.plan.kind = "PROCESS"
             /\ txs[ref].status = "PROCESSED" /\ SameOperation(k.row.body, txs[ref].body)
             /\ ~HasSuccessfulReversal(ref)
  <1> DEFINE k == job[x]
             ref == txs'[t].refId
  <1>1. pc[x] \in AfterSave /\ Planned(x) /\ Buffers(x)
    BY DEF RowInv, RowWorker, AfterSave
  <1>2. t = k.id /\ k.mode \in {"insert", "update"} /\ txs'[t] = k.writes.row
    BY Grows
  <1>3. ~Opens(x)
    <2>1. SUFFICES ASSUME Opens(x) PROVE FALSE
      OBVIOUS
    <2>2. k.writes.row = NewOpening(k.wid, Accounts[k.wid])
      BY <1>2, <2>1, OpeningCommit DEF None
    <2>3. k.writes.row.body.kind = "OPENING"
      BY <2>2, OpeningKind
    <2> QED BY <1>2, <2>3 DEF RequiresReference
  <1>4. ~k.failing
    BY <1>1, <1>2, <1>3, Updating, Inserting
  <1>5. Settles(x)
    BY <1>2, <1>3, <1>4 DEF Settles
  <1>6. /\ k.row \in Rows /\ k.wid = k.row.body.wallet /\ holder[k.wid] = x /\ k.plan \in Plans
    BY <1>1, <1>5, SettlingHolds DEF Jobs
  <1>7. k.writes = Settlement(k.id, k.row, k.seen, k.plan)
    BY <1>1, <1>5 DEF Buffers
  <1>8. k.plan.kind = "PROCESS" /\ k.row.refId = ref /\ k.row.body = txs'[t].body
    BY <1>2, <1>6, <1>7, SettledRow
  <1>9. k.plan = ReferenceVerdict(k.row.body, txs[ref]) /\ ref \in AllIds
        /\ ~HasSuccessfulReversal(ref)
    BY <1>1, <1>5, <1>8 DEF Planned
  <1>10. SameOperation(k.row.body, txs[ref].body) /\ txs[ref].status = "PROCESSED"
    BY <1>8, <1>9, VerdictSays, RowStatus DEF IInv
  <1> QED BY <1>2, <1>5, <1>6, <1>8, <1>9, <1>10

\* Planned of the others: their references stay settled, and whoever reverses the
\* same reference would hold the same wallet.
LEMMA OtherPlans ==
  ASSUME IInv, RowInv, NEW x \in Workers, Commits(x), NEW y \in Workers \ {x}
  PROVE  Planned(y)'
  <1> DEFINE j == job[y]
             k == job[x]
             ref == j.row.refId
  <1>1. pc'[y] = pc[y] /\ job'[y] = job[y] /\ Planned(y) /\ pc[x] = "commit" /\ ApplyWrites(x)
        /\ (Settles(y)' <=> Settles(y)) /\ pc[x] \in AfterSave /\ Planned(x)
    BY DEF Commits, RowInv, RowWorker, Settles, Opens, AfterSave
  <1>2. SUFFICES ASSUME Settles(y), pc[y] \in {"reversal", "save"} \cup AfterSave,
                        j.plan.kind = "PROCESS", RequiresReference(j.row.body.kind)
                 PROVE  /\ j.plan = ReferenceVerdict(j.row.body, txs'[ref])
                        /\ pc[y] # "reversal" =>
                              ~ \E t \in AllIds : /\ txs'[t].refId = ref
                                                  /\ RequiresReference(txs'[t].body.kind)
                                                  /\ txs'[t].status = "PROCESSED"
    BY <1>1 DEF Planned, HasSuccessfulReversal
  <1>3. /\ ref \in AllIds /\ j.plan = ReferenceVerdict(j.row.body, txs[ref])
        /\ pc[y] # "reversal" => ~HasSuccessfulReversal(ref)
    BY <1>1, <1>2 DEF Planned
  <1>4. txs[ref].status = "PROCESSED" /\ SameOperation(j.row.body, txs[ref].body)
    BY <1>2, <1>3, VerdictSays, RowStatus DEF IInv
  <1>5. txs'[ref] = txs[ref]
    BY <1>1, <1>3, <1>4, Grows DEF IsTerminal
  <1>6. ASSUME pc[y] # "reversal", NEW t \in AllIds, txs'[t].refId = ref,
               RequiresReference(txs'[t].body.kind), txs'[t].status = "PROCESSED"
        PROVE  FALSE
    <2>1. txs'[t] # txs[t]
      BY <1>3, <1>6 DEF HasSuccessfulReversal
    <2>2. /\ k.wid = k.row.body.wallet /\ holder[k.wid] = x
          /\ SameOperation(k.row.body, txs[ref].body)
      BY <1>1, <1>6, <2>1, NewReversal
    <2>3. j.wid = j.row.body.wallet /\ holder[j.wid] = y
      BY <1>2, SettlingHolds
    <2> QED BY <1>4, <2>2, <2>3 DEF SameOperation
  <1> QED BY <1>3, <1>5, <1>6

\* What contradicts a command goes on doing so.
LEMMA ContradictedStays ==
  ASSUME IInv, RowInv, NEW x \in Workers, Commits(x), NEW c \in Commands, Contradicted(c)
  PROVE  Contradicted(c)'
  <1>1. pc[x] = "commit" /\ ApplyWrites(x)
    BY DEF Commits
  <1>2. CASE c.msg # None /\ inbox[c.msg].id # None /\ inbox[c.msg].body # c.body
    <2>1. c.msg \in Messages
      BY <1>2, WageringAssumption
    <2>2. inbox'[c.msg] = inbox[c.msg]
      BY <1>1, <1>2, <2>1, Grows
    <2> QED BY <1>2, <2>2 DEF Contradicted
  <1>3. ASSUME NEW id \in TxIds, Stored(id), Collides(txs[id], [key |-> c.key, body |-> c.body]),
               txs[id].body # c.body \/ txs[id].key # c.key
        PROVE  Contradicted(c)'
    <2>1. txs'[id].status # "ABSENT" /\ txs'[id].key = txs[id].key /\ txs'[id].body = txs[id].body
      BY <1>1, <1>3, Grows DEF AllIds
    <2>2. Collides(txs'[id], [key |-> c.key, body |-> c.body])
      BY <1>3, <2>1 DEF Collides
    <2> QED BY <1>3, <2>1, <2>2 DEF Contradicted, Stored
  <1> QED BY <1>2, <1>3 DEF Contradicted

\* What the tables say of an answer, they go on saying.
LEMMA StandsStays ==
  ASSUME IInv, RowInv, NEW x \in Workers, Commits(x), NEW h \in Handlers, ~Opens(h),
         job'[h].cmd = job[h].cmd, job'[h].ans = job[h].ans, Stands(h)
  PROVE  Stands(h)'
  <1> DEFINE a == job[h].ans
             c == job[h].cmd
  <1>1. pc[x] = "commit" /\ ApplyWrites(x)
    BY DEF Commits
  <1>2. a.id \in TxIds /\ a.id \in AllIds /\ Stored(a.id) /\ a.id # None
    BY WageringAssumption DEF Stands, AllIds
  <1>3. txs'[a.id].status # "ABSENT" /\ txs'[a.id].key = txs[a.id].key
    BY <1>1, <1>2, Grows
  <1>4. IsTerminal(a.status) => txs'[a.id] = txs[a.id] /\ txs[a.id].status = a.status
    BY <1>1, <1>2, Grows DEF Stands
  <1>5. job[h] \in Jobs
    BY DEF IInv, TypeOK, Workers
  <1>6. c.msg # None /\ inbox[c.msg].id = a.id => inbox'[c.msg] = inbox[c.msg]
    <2>1. c \in Commands
      BY <1>5 DEF Jobs, Opens
    <2>2. c.msg # None => c.msg \in Messages
      BY <2>1, WageringAssumption
    <2> QED BY <1>1, <1>2, <2>2, Grows
  <1>7. a.status = "PROCESSED" => IsTerminal(a.status)
    BY DEF IsTerminal
  <1> QED BY <1>2, <1>3, <1>4, <1>6, <1>7 DEF Stands, Stored

\* Answered of the others.
LEMMA OtherAnswered ==
  ASSUME IInv, RowInv, NEW x \in Workers, Commits(x), NEW y \in Workers \ {x}
  PROVE  Answered(y)'
  <1> DEFINE j == job[y]
             k == job[x]
  <1>1. pc'[y] = pc[y] /\ job'[y] = job[y] /\ Answered(y) /\ pc[x] = "commit" /\ ApplyWrites(x)
        /\ (Opens(y)' <=> Opens(y)) /\ pc[x] \in AfterSave /\ About(x) /\ j \in Jobs
    BY DEF Commits, RowInv, RowWorker, Opens, AfterSave, IInv, TypeOK
  <1>2. SUFFICES ASSUME y \in Handlers, ~Opens(y) PROVE Answered(y)'
    BY <1>1 DEF Answered
  <1>3. j.cmd \in Commands
    BY <1>1, <1>2 DEF Opens, Jobs
  <1>4. j.cmd.msg # None => j.cmd.msg \in Messages
    BY <1>3, WageringAssumption
  <1>5. ASSUME pc[y] \in {"identity", "decide", "reversal", "save"}, NEW i \in TxIds,
               txs'[i].status # "ABSENT", txs'[i].key = j.cmd.key
        PROVE  txs'[i].body.wallet # j.wid
    <2>1. \A t \in TxIds : Stored(t) /\ txs[t].key = j.cmd.key => txs[t].body.wallet # j.wid
      BY <1>1, <1>2, <1>5 DEF Answered
    <2>2. CASE txs'[i] = txs[i]
      BY <1>5, <2>1, <2>2 DEF Stored
    <2>3. CASE txs'[i] # txs[i]
      <3>1. i = k.id /\ k.mode \in {"insert", "update"} /\ txs'[i] = k.writes.row
        BY <1>1, <2>3, Grows DEF AllIds
      <3>2. CASE k.mode = "update"
        <4>1. Stored(i) /\ k.writes.row.key = txs[i].key /\ k.writes.row.body = txs[i].body
          BY <1>1, <3>1, <3>2, CommitRow DEF Parked, Stored
        <4> QED BY <1>5, <2>1, <3>1, <4>1
      <3>3. CASE k.mode = "insert"
        <4>1. ~Opens(x)
          BY <1>1, <3>1, OpeningCommit, WageringAssumption
        <4>2. Settles(x) /\ k.writes.row.body = k.row.body
          BY <1>1, <3>3, <4>1, Inserting
        <4>3. k.wid = k.row.body.wallet /\ holder[k.wid] = x
          BY <1>1, <4>2, SettlingHolds
        <4>4. holder[j.wid] = y
          BY <1>5, Busy DEF LockedPCs
        <4> QED BY <3>1, <4>2, <4>3, <4>4
      <3> QED BY <3>1, <3>2, <3>3
    <2> QED BY <2>2, <2>3
  <1>6. Stands(y) => Stands(y)'
    BY <1>1, <1>2, StandsStays
  <1>7. ASSUME pc[y] \in AfterSave \/ (pc[y] = "reply" /\ j.ans.out = "RESULT")
        PROVE  j.ans.id \in TxIds /\ j.ans.id # None
    <2>1. Stands(y) => j.ans.id \in TxIds
      BY DEF Stands
    <2>2. j.mode \in {None, "insert"}
      BY <1>2 DEF RowInv, RowWorker, About
    <2>3. pc[y] \in AfterSave /\ j.mode = "insert" => j.ans.id \in TxIds
      BY <1>1, <1>2, Inserting DEF Answered
    <2> QED BY <1>1, <1>2, <1>7, <2>1, <2>2, <2>3, WageringAssumption DEF Answered, AllIds
  <1>8. ASSUME j.ans.id # None, j.cmd.msg # None, inbox[j.cmd.msg].id = j.ans.id
        PROVE  inbox'[j.cmd.msg] = inbox[j.cmd.msg]
    BY <1>1, <1>4, <1>8, Grows
  <1>9. j.mode = None /\ (pc[y] = "recordInbox" \/ j.inboxed) => txs'[j.ans.id].key = j.cmd.key
    <2>1. j.inboxed => pc[y] = "commit"
      BY DEF RowInv, RowWorker, Owns
    <2>2. j.mode = None /\ (pc[y] = "recordInbox" \/ j.inboxed) => Stands(y) /\ txs[j.ans.id].key = j.cmd.key
      BY <1>1, <1>2, <2>1 DEF Answered, AfterSave
    <2>3. Stands(y) => txs'[j.ans.id].key = txs[j.ans.id].key
      BY <1>1, Grows DEF Stands, AllIds
    <2> QED BY <2>2, <2>3
  <1>10. Contradicted(j.cmd) => Contradicted(job[y].cmd)'
    BY <1>1, <1>3, ContradictedStays
  <1>11. (\A i \in TxIds : Stored(i) /\ txs[i].key = job[y].cmd.key => txs[i].body.wallet # job[y].wid)'
          <=> \A i \in TxIds : txs'[i].status # "ABSENT" /\ txs'[i].key = job[y].cmd.key
                                  => txs'[i].body.wallet # job[y].wid
    BY <1>1 DEF Stored
  <1>12. pc[y] = "commit" => j.inboxed \/
             (j.cmd.msg # None => inbox'[j.cmd.msg].id = j.ans.id /\ inbox'[j.cmd.msg].body = j.cmd.body)
    BY <1>1, <1>2, <1>7, <1>8 DEF Answered, AfterSave
  <1>13. pc[y] = "reply" /\ j.ans.out = "RESULT" =>
             (j.cmd.msg # None => inbox'[j.cmd.msg].id = j.ans.id /\ inbox'[j.cmd.msg].body = j.cmd.body)
    BY <1>1, <1>2, <1>7, <1>8 DEF Answered
  <1> QED BY <1>1, <1>5, <1>6, <1>9, <1>10, <1>11, <1>12, <1>13 DEF Answered

-----------------------------------------------------------------------------
(* The tables after a commit.                                              *)

\* A row the commit leaves alone keeps what RowInv says of it.
LEMMA OldRowKept ==
  ASSUME IInv, RowInv, NEW x \in Workers, pc[x] = "commit", ApplyWrites(x),
         NEW id \in AllIds, txs'[id] = txs[id]
  PROVE  RowKept(id)'
  <1>1. RowKept(id)
    BY DEF RowInv, RowTables
  <1>2. \A w \in Wallets : wallets[w].open => wallets'[w].open
    BY Grows
  <1>3. Stored(id) => txs[id].body.wallet \in Wallets
    BY LookupTyped, BodyTyped DEF IInv, Rows
  <1>4. ASSUME txs[id].status = "PROCESSED", RequiresReference(txs[id].body.kind)
        PROVE  txs[id].refId \in AllIds /\ txs'[txs[id].refId] = txs[txs[id].refId]
    <2>1. txs[id].refId \in AllIds
          /\ ReferenceVerdict(txs[id].body, txs[txs[id].refId]).kind = "PROCESS"
      BY <1>1, <1>4 DEF RowKept
    <2>2. txs[txs[id].refId].status = "PROCESSED"
      BY <2>1, VerdictSays, RowStatus DEF IInv
    <2> QED BY <2>1, <2>2, Grows DEF IsTerminal
  <1> QED BY <1>1, <1>2, <1>3, <1>4 DEF RowKept, Stored, Parked

\* An opening stores the row of its own wallet, and the wallet with it.
LEMMA OpenedRowKept ==
  ASSUME IInv, RowInv, NEW x \in Workers, pc[x] = "commit", ApplyWrites(x),
         NEW id \in AllIds, txs'[id] # txs[id], Opens(x)
  PROVE  RowKept(id)'
  <1> DEFINE w == job[x].wid
  <1>1. id = job[x].id /\ job[x].mode = "insert" /\ txs'[id] = job[x].writes.row
    <2>1. id = job[x].id /\ job[x].mode \in {"insert", "update"} /\ txs'[id] = job[x].writes.row
      BY Grows
    <2>2. job[x].mode \in {None, "insert"} /\ None # "update"
      BY OpeningCommit DEF None
    <2> QED BY <2>1, <2>2
  <1>2. /\ id = w /\ w \in Wallets /\ txs'[id] = NewOpening(w, Accounts[w])
        /\ job[x].writes.moved /\ job[x].writes.wallet.open
    BY <1>1, OpeningCommit
  <1>3. wallets'[w].open
    BY <1>2 DEF ApplyWrites, IInv, TypeOK
  <1>4. id \notin TxIds
    BY <1>2, WageringAssumption
  <1>5. txs'[id].status = "PROCESSED" /\ txs'[id].body.kind = "OPENING"
    BY <1>2, OpeningKind
  <1> QED BY <1>2, <1>3, <1>4, <1>5 DEF RowKept, Stored, Parked, RequiresReference

\* A settlement stores what was decided.
LEMMA SettledRowKept ==
  ASSUME IInv, RowInv, NEW x \in Workers, pc[x] = "commit", ApplyWrites(x),
         NEW id \in AllIds, txs'[id] # txs[id], ~Opens(x)
  PROVE  RowKept(id)'
  <1> DEFINE k == job[x]
             row == txs'[id]
  <1>1. pc[x] \in AfterSave /\ Planned(x) /\ Buffers(x) /\ About(x)
    BY DEF RowInv, RowWorker, AfterSave
  <1>2. id = k.id /\ k.mode \in {"insert", "update"} /\ row = k.writes.row
    BY Grows
  <1>3. id \in TxIds /\ id \notin Wallets
    BY <1>1, <1>2, Updating, Inserting, WageringAssumption
  <1>4. \A w \in Wallets : wallets[w].open => wallets'[w].open
    BY Grows
  <1>5. CASE k.mode = "insert"
    <2>1. /\ x \in Handlers /\ Settles(x) /\ k.row \in Rows /\ k.cmd \in Commands
          /\ row.key = k.row.key /\ row.body = k.row.body
          /\ k.row.key = k.cmd.key /\ k.row.body = k.cmd.body
          /\ k.row.failure = None /\ k.row.result = NoBalance /\ ValidExternal(k.cmd.body)
      BY <1>1, <1>2, <1>5, Inserting
    <2>2. /\ k.wid = row.body.wallet /\ k.wid \in Wallets /\ wallets[k.wid].open /\ k.plan \in Plans
      BY <1>1, <2>1, SettlingHolds DEF Jobs
    <2>3. k.writes = Settlement(k.id, k.row, k.seen, k.plan)
      BY <1>1, <2>1 DEF Buffers
    <2>4. /\ row.status \in {"PENDING_REFERENCE", "REJECTED", "PROCESSED"} /\ row.refId = k.row.refId
          /\ row.status = "PENDING_REFERENCE" => /\ k.plan.kind = "PENDING_REFERENCE"
                                                 /\ row.failure = None /\ row.result = NoBalance
      BY <1>2, <2>1, <2>2, <2>3, SettledRow
    <2>5. row.status = "PENDING_REFERENCE" => Waiting(row)
      BY <1>1, <2>1, <2>4 DEF Planned, Waiting
    <2>6. k.cmd.key # None /\ k.cmd.body.provider # None
      BY <2>1, WageringAssumption
    <2>7. Accounts[k.wid].player = k.cmd.body.player
      BY <1>1, <2>1 DEF About, LockedPCs
    <2>8. wallets'[row.body.wallet].open
      BY <1>4, <2>2
    <2>9. ASSUME row.status = "PROCESSED", RequiresReference(row.body.kind)
          PROVE  row.refId \in AllIds /\ ReferenceVerdict(row.body, txs'[row.refId]).kind = "PROCESS"
      <3>1. /\ row.refId \in AllIds /\ txs[row.refId].status = "PROCESSED" /\ row.body = k.row.body
            /\ k.plan = ReferenceVerdict(k.row.body, txs[row.refId]) /\ k.plan.kind = "PROCESS"
        BY <2>9, NewReversal
      <3> QED BY <3>1, Grows DEF IsTerminal
    <2> QED BY <1>3, <2>1, <2>2, <2>4, <2>5, <2>6, <2>7, <2>8, <2>9 DEF RowKept, Stored, Parked
  <1>6. CASE k.mode = "update"
    <2>1. /\ Parked(id) /\ row.key = txs[id].key /\ row.body = txs[id].body /\ row \in Rows
          /\ row.status \in {"PROCESSED", "REJECTED", "FAILED"}
      BY <1>1, <1>2, <1>6, Updating
    <2>2. Stored(id) /\ RowKept(id)
      BY <2>1 DEF Parked, Stored, RowInv, RowTables
    <2>3. row.body.wallet \in Wallets
      BY <2>1, BodyTyped DEF Rows
    <2>4. ASSUME row.status = "PROCESSED", RequiresReference(row.body.kind)
          PROVE  row.refId \in AllIds /\ ReferenceVerdict(row.body, txs'[row.refId]).kind = "PROCESS"
      <3>1. /\ row.refId \in AllIds /\ txs[row.refId].status = "PROCESSED" /\ row.body = k.row.body
            /\ k.plan = ReferenceVerdict(k.row.body, txs[row.refId]) /\ k.plan.kind = "PROCESS"
        BY <2>4, NewReversal
      <3> QED BY <3>1, Grows DEF IsTerminal
    <2> QED BY <1>3, <1>4, <2>1, <2>2, <2>3, <2>4 DEF RowKept, Stored, Parked
  <1> QED BY <1>2, <1>5, <1>6

\* Everything RowInv says of the tables survives a commit.
LEMMA CommitTables ==
  ASSUME IInv, RowInv, NEW x \in Workers, pc[x] = "commit", ApplyWrites(x)
  PROVE  RowTables'
  <1> DEFINE k == job[x]
  <1>1. RowTables /\ Owns(x) /\ Answered(x) /\ Shape(x) /\ About(x) /\ k \in Jobs /\ pc[x] \in AfterSave
    BY DEF RowInv, RowWorker, IInv, TypeOK, WorkerInv, AfterSave
  <1>2. \A id \in AllIds : RowKept(id)'
    BY OldRowKept, OpenedRowKept, SettledRowKept
  <1>3. ASSUME NEW m \in Messages, inbox'[m].id # None
        PROVE  inbox'[m].id \in TxIds /\ txs'[inbox'[m].id].status # "ABSENT"
    <2>1. CASE inbox'[m] = inbox[m]
      <3>1. inbox[m].id \in TxIds /\ Stored(inbox[m].id)
        BY <1>1, <1>3, <2>1 DEF RowTables
      <3> QED BY <2>1, <3>1, Grows DEF AllIds
    <2>2. CASE inbox'[m] # inbox[m]
      <3>1. k.inboxed /\ inbox'[m].id = k.ans.id
        <4>1. k.inboxed /\ inbox'[m] = [id |-> k.ans.id, body |-> k.cmd.body]
          BY <2>2, Grows
        <4> QED BY <4>1
      <3>2. k.cmd \in Commands /\ x \in Handlers /\ ~Opens(x)
        BY <1>1, <3>1, NoCmdIsNone DEF Shape, Opens, Workers
      <3>3. CASE k.mode = "insert"
        <4>1. k.ans.id = k.id /\ k.id \in TxIds
          BY <1>1, <3>2, <3>3, Inserting DEF Answered
        <4>2. txs'[k.id] = k.writes.row /\ k.writes.row \in Rows
          BY <3>3, CommitRow DEF IInv, TypeOK
        <4>3. k.writes.row.status # "ABSENT"
          BY <4>2 DEF Rows, Statuses
        <4> QED BY <3>1, <4>1, <4>2, <4>3
      <3>4. CASE k.mode = None
        <4>1. Stands(x)
          BY <1>1, <3>2, <3>4 DEF Answered
        <4>2. k.ans.id \in TxIds /\ Stored(k.ans.id)
          BY <4>1 DEF Stands
        <4> QED BY <3>1, <4>2, Grows DEF AllIds
      <3> QED BY <1>1, <3>2, <3>3, <3>4 DEF About
    <2> QED BY <2>1, <2>2
  <1>4. ASSUME NEW t \in AllIds, NEW u \in AllIds, txs'[t].refId = txs'[u].refId,
               txs'[t].status = "PROCESSED", RequiresReference(txs'[t].body.kind),
               txs'[u].status = "PROCESSED", RequiresReference(txs'[u].body.kind)
        PROVE  t = u
    <2>1. CASE txs'[t] = txs[t] /\ txs'[u] = txs[u]
      BY <1>1, <1>4, <2>1 DEF RowTables, IsReversal
    <2>2. CASE txs'[t] # txs[t] /\ txs'[u] = txs[u]
      <3>1. ~HasSuccessfulReversal(txs'[t].refId)
        BY <1>4, <2>2, NewReversal
      <3> QED BY <1>4, <2>2, <3>1 DEF HasSuccessfulReversal
    <2>3. CASE txs'[t] = txs[t] /\ txs'[u] # txs[u]
      <3>1. ~HasSuccessfulReversal(txs'[u].refId)
        BY <1>4, <2>3, NewReversal
      <3> QED BY <1>4, <2>3, <3>1 DEF HasSuccessfulReversal
    <2>4. CASE txs'[t] # txs[t] /\ txs'[u] # txs[u]
      <3>1. t = k.id /\ u = k.id
        BY <2>4, Grows
      <3> QED BY <3>1
    <2> QED BY <2>1, <2>2, <2>3, <2>4
  <1>5. ASSUME NEW i \in TxIds, txs'[i] # txs[i]
        PROVE  /\ i = k.id
               /\ \A t \in TxIds \ {i} : Stored(t) => ~Collides(txs[t], txs'[i]) /\ ~Collides(txs'[i], txs[t])
    <2>1. i = k.id /\ k.mode \in {"insert", "update"} /\ txs'[i] = k.writes.row
      BY <1>5, Grows DEF AllIds
    <2>2. CASE k.mode = "update"
      <3>1. Stored(i) /\ k.writes.row.key = txs[i].key /\ k.writes.row.body = txs[i].body
        BY <2>1, <2>2, CommitRow DEF Parked, Stored
      <3> QED BY <1>1, <2>1, <3>1 DEF RowTables, UniqueRows, Collides
    <2>3. CASE k.mode = "insert"
      <3>1. ~Opens(x)
        BY <2>1, OpeningCommit, WageringAssumption
      <3>2. k.writes.row.key = k.row.key /\ k.writes.row.body = k.row.body
        BY <1>1, <2>3, <3>1, Inserting
      <3>3. \A t \in TxIds : Stored(t) => ~Collides(txs[t], k.row)
        BY <1>1, <2>3, <3>1 DEF Owns
      <3> QED BY <2>1, <3>2, <3>3 DEF Collides
    <2> QED BY <2>1, <2>2, <2>3
  <1>6. ASSUME NEW i \in TxIds, NEW t \in TxIds, txs'[i].status # "ABSENT", txs'[t].status # "ABSENT",
               Collides(txs'[i], txs'[t])
        PROVE  i = t
    <2>1. CASE txs'[i] = txs[i] /\ txs'[t] = txs[t]
      BY <1>1, <1>6, <2>1 DEF RowTables, UniqueRows, Stored
    <2>2. CASE txs'[i] # txs[i] /\ txs'[t] = txs[t]
      BY <1>5, <1>6, <2>2 DEF Stored
    <2>3. CASE txs'[i] = txs[i] /\ txs'[t] # txs[t]
      BY <1>5, <1>6, <2>3 DEF Stored
    <2>4. CASE txs'[i] # txs[i] /\ txs'[t] # txs[t]
      BY <1>5, <2>4
    <2> QED BY <2>1, <2>2, <2>3, <2>4
  <1>7. ASSUME NEW v \in Wallets, NEW w \in Wallets, wallets'[v].open, wallets'[w].open, SameSlot(v, w)
        PROVE  v = w
    <2>1. CASE wallets[v].open /\ wallets[w].open
      BY <1>1, <1>7, <2>1 DEF RowTables, OneWalletPerSlot
    <2>2. CASE ~wallets[v].open /\ wallets[w].open
      <3>1. Opens(x) /\ v = k.wid
        BY <1>7, <2>2, OnlyOpeningsOpen
      <3>2. ~SameSlot(w, v)
        BY <2>2, <3>1, OpeningCommit
      <3> QED BY <1>7, <3>2 DEF SameSlot
    <2>3. CASE wallets[v].open /\ ~wallets[w].open
      <3>1. Opens(x) /\ w = k.wid
        BY <1>7, <2>3, OnlyOpeningsOpen
      <3> QED BY <1>7, <2>3, <3>1, OpeningCommit
    <2>4. CASE ~wallets[v].open /\ ~wallets[w].open
      BY <1>7, <2>4, OnlyOpeningsOpen
    <2> QED BY <2>1, <2>2, <2>3, <2>4
  <1>8. UniqueRows'
    BY <1>6 DEF UniqueRows, Stored
  <1>9. OneWalletPerSlot'
    <2>1. \A v, w \in Wallets : SameSlot(v, w)' <=> SameSlot(v, w)
      BY DEF SameSlot
    <2> QED BY <1>7, <2>1 DEF OneWalletPerSlot
  <1> QED BY <1>2, <1>3, <1>4, <1>8, <1>9 DEF RowTables, IsReversal, Stored

\* A commit after which its worker has nothing in hand keeps RowInv, provided the
\* answer it gives is the committed one.
LEMMA CommitEnds ==
  ASSUME IInv, RowInv, NEW x \in Workers, Commits(x), Empty(x),
         x \in Handlers => pc'[x] \in {"idle", "reply"},
         pc'[x] = "idle" => job'[x].cmd = NoCmd, Answered(x)'
  PROVE  RowInv'
  <1>1. RowTables'
    BY CommitTables DEF Commits
  <1>2. ASSUME NEW y \in Workers PROVE RowWorker(y)'
    <2>1. CASE y = x
      BY <2>1, EmptyWorker
    <2>2. CASE y # x
      BY <1>2, <2>2, OtherHands, OtherOwns, OtherPlans, OtherAnswered DEF RowWorker
    <2> QED BY <2>1, <2>2
  <1>3. ASSUME NEW y \in Workers, NEW z \in Workers, y # z PROVE Apart(y, z)'
    <2>1. Apart(y, z) /\ Owns(y) /\ Owns(z)
      BY <1>3 DEF RowInv, RowWorker
    <2>2. None \notin {"insert", "update", "attempt"} /\ None \notin AllIds
          /\ pc'[x] # "commit" /\ pc'[x] \notin AfterSave
      BY WageringAssumption DEF None, Empty, RestPCs, AfterSave
    <2>3. CASE y = x
      BY <1>3, <2>2, <2>3 DEF Apart, Empty
    <2>4. CASE z = x
      <3>1. pc'[y] = pc[y] /\ job'[y] = job[y]
        BY <1>3, <2>4 DEF Commits
      <3>2. pc[y] \in AfterSave /\ job[y].mode = "insert" => job[y].id # None
        BY <2>1, <2>2 DEF Owns
      <3> QED BY <2>2, <2>4, <3>1, <3>2 DEF Apart, Empty
    <2>5. CASE y # x /\ z # x
      <3>1. pc'[y] = pc[y] /\ job'[y] = job[y] /\ pc'[z] = pc[z] /\ job'[z] = job[z]
        BY <2>5 DEF Commits
      <3> QED BY <2>1, <3>1 DEF Apart, Opens
    <2> QED BY <2>3, <2>4, <2>5
  <1> QED BY <1>1, <1>2, <1>3 DEF RowInv

\* The answer a handler gives after its commit is what it has committed.
LEMMA CommitAnswers ==
  ASSUME IInv, RowInv, NEW h \in Handlers, Commits(h), Empty(h), pc'[h] = "reply",
         job'[h].cmd = job[h].cmd, job'[h].ans = job[h].ans
  PROVE  Answered(h)'
  <1> DEFINE j == job[h]
             a == job[h].ans
             c == job[h].cmd
  <1>1. /\ h \in Workers /\ pc[h] = "commit" /\ ApplyWrites(h) /\ pc[h] \in AfterSave
        /\ pc'[h] \notin AfterSave
    BY DEF Workers, Commits, AfterSave
  <1>2. Answered(h) /\ About(h) /\ Owns(h) /\ Shape(h) /\ j \in Jobs
    BY <1>1 DEF RowInv, RowWorker, IInv, TypeOK, WorkerInv
  <1>3. SUFFICES ASSUME ~Opens(h) PROVE Answered(h)'
    BY DEF Answered, Opens
  <1>4. a.out = "RESULT" /\ c \in Commands
    BY <1>1, <1>2, <1>3 DEF Answered, Opens, Jobs
  <1>5. c.msg # None => c.msg \in Messages
    BY <1>4, WageringAssumption
  <1>6. Stands(h)'
    <2>1. CASE j.mode = None
      BY <1>1, <1>2, <1>3, <2>1, StandsStays DEF Answered
    <2>2. CASE j.mode = "insert"
      <3>1. /\ a.id = j.id /\ a.status = j.writes.row.status
            /\ a.status = "PROCESSED" => a.balance = j.writes.row.result
        BY <1>1, <1>2, <1>3, <2>2 DEF Answered
      <3>2. j.id \in TxIds /\ j.writes.row.key = c.key
        BY <1>1, <1>3, <2>2, Inserting
      <3>3. txs'[j.id] = j.writes.row /\ j.writes.row \in Rows
        BY <1>1, <2>2, CommitRow DEF IInv, TypeOK
      <3>4. j.writes.row.status # "ABSENT"
        BY <3>3 DEF Rows, Statuses
      <3> QED BY <3>1, <3>2, <3>3, <3>4 DEF Stands, Stored
    <2> QED BY <1>2, <2>1, <2>2 DEF About
  <1>7. a.id # None
    BY <1>6, WageringAssumption DEF Stands, AllIds
  <1>8. c.msg # None => inbox'[c.msg].id = a.id /\ inbox'[c.msg].body = c.body
    <2>1. CASE j.inboxed
      <3>1. inbox' = [inbox EXCEPT ![c.msg] = [id |-> a.id, body |-> c.body]]
        BY <1>1, <2>1 DEF ApplyWrites
      <3> QED BY <1>5, <3>1 DEF IInv, TypeOK
    <2>2. CASE ~j.inboxed /\ c.msg # None
      <3>1. inbox[c.msg].id = a.id /\ inbox[c.msg].body = c.body
        BY <1>1, <1>2, <1>3, <2>2 DEF Answered
      <3>2. inbox'[c.msg] = inbox[c.msg]
        BY <1>1, <1>5, <1>7, <2>2, <3>1, Grows
      <3> QED BY <3>1, <3>2
    <2> QED BY <2>1, <2>2
  <1> QED BY <1>1, <1>4, <1>6, <1>8 DEF Answered, Empty

\* Any commit, acknowledged or not.
LEMMA CommitRows ==
  ASSUME IInv, RowInv, NEW x \in Workers, Commit(x) \/ CommitUnacknowledged(x)
  PROVE  RowInv'
  <1>1. pc[x] = "commit" /\ ApplyWrites(x)
    BY DEF Commit, CommitUnacknowledged
  <1>2. CASE CommitUnacknowledged(x)
    <2>1. /\ Empty(x) /\ pc'[x] # "idle" /\ \A y \in Workers \ {x} : pc'[y] = pc[y] /\ job'[y] = job[y]
          /\ x \in Handlers => pc'[x] = "reply" /\ job'[x].ans.out = "UNAVAILABLE"
      BY <1>2, AbandonLeaves DEF CommitUnacknowledged
    <2>2. Answered(x)'
      BY <2>1, OtherAnswers
    <2> QED BY <1>1, <2>1, <2>2, CommitEnds DEF Commits
  <1>3. CASE Commit(x) /\ x \in Handlers
    <2>1. /\ Empty(x) /\ pc'[x] = "reply" /\ job'[x].cmd = job[x].cmd /\ job'[x].ans = job[x].ans
          /\ \A y \in Workers \ {x} : pc'[y] = pc[y] /\ job'[y] = job[y]
      BY <1>3, AnswerLeaves DEF Commit
    <2>2. Commits(x)
      BY <1>1, <2>1 DEF Commits
    <2>3. Answered(x)'
      BY <1>3, <2>1, <2>2, CommitAnswers
    <2> QED BY <2>1, <2>2, <2>3, CommitEnds
  <1>4. CASE Commit(x) /\ x \notin Handlers
    <2>1. /\ Empty(x) /\ pc'[x] = "next" /\ \A y \in Workers \ {x} : pc'[y] = pc[y] /\ job'[y] = job[y]
      BY <1>4, NextRecordLeaves DEF Commit, Workers
    <2>2. Answered(x)'
      BY <1>4 DEF Answered
    <2> QED BY <1>1, <1>4, <2>1, <2>2, CommitEnds DEF Commits
  <1> QED BY <1>2, <1>3, <1>4

-----------------------------------------------------------------------------
(* The remaining actions, and the theorems.                                *)

\* A failed statement rolls back; a crash also loses the worker's memory.
LEMMA FailureRows ==
  ASSUME IInv, RowInv, NEW x \in Workers, StatementFails(x) \/ Crash(x)
  PROVE  RowInv'
  <1>1. CASE StatementFails(x)
    BY <1>1, AbandonKeeps DEF StatementFails
  <1>2. CASE Crash(x)
    BY <1>2, ResetKeeps DEF Crash, Goto
  <1> QED BY <1>1, <1>2

\* An answer is delivered.
LEMMA RespondRows ==
  ASSUME IInv, RowInv, NEW h \in Handlers, Respond(h)
  PROVE  RowInv'
  BY ResetKeeps DEF Respond, Goto, Workers

\* Neither time nor stuttering touches anything RowInv reads.
LEMMA StillRows ==
  ASSUME RowInv, UNCHANGED <<wallets, txs, inbox, pc, job>>
  PROVE  RowInv'
  <1>1. RowTables'
    BY TablesQuiet
  <1>2. \A y \in Workers : RowWorker(y)'
    BY WorkerQuiet DEF RowInv
  <1>3. \A y, z \in Workers : y # z => Apart(y, z)'
    BY DEF RowInv, Apart, Opens
  <1> QED BY <1>1, <1>2, <1>3 DEF RowInv

\* The seeded wallets have their rows, nobody has anything in hand.
LEMMA InitRows == Init => RowInv
  <1> SUFFICES ASSUME Init PROVE RowInv
    OBVIOUS
  <1>1. ASSUME NEW w \in Wallets
        PROVE  /\ wallets[w].open => w \in Seeded
               /\ Stored(w) => txs[w] = NewOpening(w, Accounts[w]) /\ wallets[w].open
               /\ txs[w] \in {NoTx, NewOpening(w, Accounts[w])}
    <2>1. CASE w \notin Seeded
      <3>1. SeedWrites(w) = NoWrites
        BY <2>1 DEF SeedWrites
      <3>2. wallets[w] = NoWallet /\ txs[w] = NoTx
        BY <3>1 DEF Init, NoWrites, AllIds
      <3> QED BY <3>2 DEF NoWallet, NoTx, Stored
    <2>2. CASE w \in Seeded
      <3>1. wallets[w].open = TRUE /\ txs[w] = OpeningWrites(w, Accounts[w]).row
        BY <2>2, OpeningTyped DEF Init, SeedWrites, AllIds
      <3>2. OpeningWrites(w, Accounts[w]).row \in {NoTx, NewOpening(w, Accounts[w])}
        BY DEF OpeningWrites, NoWrites
      <3>3. NoTx.status = "ABSENT"
        BY DEF NoTx
      <3> QED BY <2>2, <3>1, <3>2, <3>3 DEF Stored
    <2> QED BY <2>1, <2>2
  <1>2. \A id \in TxIds : txs[id] = NoTx /\ ~Stored(id)
    BY WageringAssumption DEF Init, AllIds, NoTx, Stored
  <1>3. NoTx.status = "ABSENT" /\ NoTx.body.kind = "LOSS"
    BY DEF NoTx, NoBody
  <1>4. \A id \in AllIds : txs[id].status \in {"ABSENT", "PROCESSED"} /\ ~RequiresReference(txs[id].body.kind)
    <2>1. \A w \in Wallets : NewOpening(w, Accounts[w]).status = "PROCESSED"
                             /\ NewOpening(w, Accounts[w]).body.kind = "OPENING"
      BY OpeningKind
    <2> QED BY <1>1, <1>2, <1>3, <2>1 DEF AllIds, RequiresReference
  <1>5. \A id \in AllIds : RowKept(id)
    BY <1>1, <1>2, <1>4 DEF RowKept, AllIds, Parked
  <1>6. RowTables
    <2>1. UniqueRows
      BY <1>2 DEF UniqueRows
    <2>2. OneWalletPerSlot
      BY <1>1, WageringAssumption DEF OneWalletPerSlot, SameSlot
    <2>3. \A m \in Messages : inbox[m].id = None
      BY DEF Init
    <2> QED BY <1>4, <1>5, <2>1, <2>2, <2>3 DEF RowTables, IsReversal
  <1>7. /\ IdleJob.writes = NoWrites /\ IdleJob.inboxed = FALSE /\ IdleJob.mode = None
        /\ IdleJob.id = None /\ IdleJob.cmd = NoCmd
        /\ \A x \in Workers : pc[x] = "idle" /\ job[x] = IdleJob
    BY DEF Init, IdleJob
  <1>8. None \notin {"insert", "update", "attempt"} /\ None \notin Wallets
    BY WageringAssumption DEF None, AllIds
  <1>9. ASSUME NEW x \in Workers PROVE RowWorker(x)
    <2> USE <1>7, <1>8 DEF AfterSave, LockedPCs
    <2>1. About(x)
      <3>1. job[x].failing = FALSE
        BY DEF IdleJob
      <3> QED BY <3>1 DEF About, Opens
    <2>2. Owns(x)
      BY DEF Owns
    <2>3. Buffers(x) /\ Planned(x)
      BY DEF Buffers, Planned
    <2>4. Answered(x)
      BY DEF Answered, Opens
    <2> QED BY <2>1, <2>2, <2>3, <2>4 DEF RowWorker
  <1>10. \A x, y \in Workers : x # y => Apart(x, y)
    BY <1>7, <1>8 DEF Apart, AfterSave
  <1> QED BY <1>6, <1>9, <1>10 DEF RowInv

\* Every action preserves the second inductive invariant, where the first holds.
LEMMA NextRows == IInv /\ RowInv /\ [Next]_vars => RowInv'
  <1> SUFFICES ASSUME IInv, RowInv, [Next]_vars PROVE RowInv'
    OBVIOUS
  <1>1. ASSUME NEW h \in Handlers, Arrival(h) PROVE RowInv'
    BY <1>1, SubmitRows, RequestOpeningRows DEF Arrival
  <1>2. ASSUME NEW h \in Handlers, HandlerStep(h) PROVE RowInv'
    <2>1. h \in Workers
      BY DEF Workers
    <2> QED BY <1>2, <2>1, FastReplayRows, GetForUpdateRows, ReadInboxRows, ReadKeyRows,
               ReadIdentityRows, DecideRows, CheckReversalRows, SettleRows, UpdateBalanceRows,
               RecordInboxRows, CommitRows, RespondRows, ExistsRows, InsertWalletRows DEF HandlerStep
  <1>3. ASSUME NEW r \in Resolvers, ResolverStep(r) PROVE RowInv'
    <2>1. r \in Workers
      BY DEF Workers
    <2> QED BY <1>3, <2>1, ClaimRows, LoadPendingRows, EndPassRows, GetForUpdateParkedRows,
               DecideParkedRows, CheckReversalRows, SettleRows, RecordAttemptRows,
               UpdateBalanceRows, CommitRows, LoadFailingRows, SaveFailedRows DEF ResolverStep
  <1>4. ASSUME NEW x \in Workers, Failure(x) PROVE RowInv'
    BY <1>4, CommitRows, FailureRows DEF Failure
  <1>5. ASSUME NEW id \in TxIds, Time(id) PROVE RowInv'
    BY <1>5, StillRows DEF Time, BackoffElapses, TTLElapses
  <1>6. CASE UNCHANGED vars
    BY <1>6, StillRows DEF vars, tables
  <1> QED BY <1>1, <1>2, <1>3, <1>4, <1>5, <1>6 DEF Next, Quiescent

\* RowInv holds in every reachable state, for any number of handlers, reference
\* workers, wallets, requests, messages and faults.
THEOREM RowInvariance == Spec => []RowInv
  <1>1. Init => IInv /\ RowInv
    BY InitHolds, InitRows
  <1>2. IInv /\ RowInv /\ [Next]_vars => (IInv /\ RowInv)'
    BY NextKeeps, NextRows
  <1> QED BY <1>1, <1>2, PTL DEF Spec

\* A settled transaction is never written again, by whatever step of whichever worker.
THEOREM SettledStaysSettled == Spec => TerminalFrozen
  <1> DEFINE Frozen == \A id \in AllIds : IsTerminal(txs[id].status) => txs'[id] = txs[id]
  <1>1. IInv /\ RowInv /\ [Next]_vars => [Frozen]_vars
    <2> SUFFICES ASSUME IInv, RowInv, Next PROVE Frozen
      OBVIOUS
    <2>1. ASSUME NEW x \in Workers, Commit(x) \/ CommitUnacknowledged(x) PROVE Frozen
      BY <2>1, Grows DEF Commit, CommitUnacknowledged
    <2>2. CASE UNCHANGED txs
      BY <2>2
    <2>3. ASSUME NEW h \in Handlers, Arrival(h) \/ HandlerStep(h) PROVE Frozen
      <3>1. h \in Workers
        BY DEF Workers
      <3>2. Commit(h) \/ UNCHANGED txs
        BY <2>3 DEF Arrival, Submit, RequestOpening, HandlerStep, FastReplay, GetForUpdate,
                    ReadInbox, ReadKey, ReadIdentity, Decide, CheckReversal, Settle, UpdateBalance,
                    RecordInbox, Respond, ExistsForPlayerCurrency, InsertWallet, tables
      <3> QED BY <2>1, <2>2, <3>1, <3>2
    <2>4. ASSUME NEW r \in Resolvers, ResolverStep(r) PROVE Frozen
      <3>1. r \in Workers
        BY DEF Workers
      <3>2. Commit(r) \/ UNCHANGED txs
        BY <2>4 DEF ResolverStep, Claim, LoadPending, EndPass, GetForUpdateParked, DecideParked,
                    CheckReversal, Settle, RecordReferenceAttempt, UpdateBalance, LoadFailing,
                    SaveFailed, tables
      <3> QED BY <2>1, <2>2, <3>1, <3>2
    <2>5. ASSUME NEW x \in Workers, Failure(x) PROVE Frozen
      <3>1. CommitUnacknowledged(x) \/ UNCHANGED txs
        BY <2>5 DEF Failure, StatementFails, Crash, tables
      <3> QED BY <2>1, <2>2, <2>5, <3>1
    <2>6. CASE (\E id \in TxIds : Time(id)) \/ Quiescent
      BY <2>2, <2>6 DEF Time, BackoffElapses, TTLElapses, Quiescent, vars, tables
    <2> QED BY <2>3, <2>4, <2>5, <2>6 DEF Next
  <1>2. Spec => [][Next]_vars
    BY PTL DEF Spec
  <1> QED BY <1>1, <1>2, Invariance, RowInvariance, PTL DEF TerminalFrozen

\* A set in which all elements are equal has at most one.
LEMMA AtMostOne ==
  ASSUME NEW S, \A t, u \in S : t = u
  PROVE  Cardinality(S) <= 1
  <1>1. CASE S = {}
    <2>1. Cardinality({}) = 0
      BY FS_EmptySet
    <2> QED BY <1>1, <2>1
  <1>2. CASE S # {}
    <2>1. PICK t \in S : TRUE
      BY <1>2
    <2>2. S = {t}
      BY <2>1
    <2>3. Cardinality({t}) = 1
      BY FS_Singleton
    <2> QED BY <2>2, <2>3
  <1> QED BY <1>1, <1>2

\* However REFUND, ROLLBACK and the reference workers interleave, crash and retry,
\* no transaction is reversed twice.
THEOREM ReversedAtMostOnce == Spec => []AtMostOneReversal
  <1>1. RowInv => AtMostOneReversal
    <2> SUFFICES ASSUME RowInv, NEW id \in AllIds PROVE Cardinality(Reversals(id)) <= 1
      BY DEF AtMostOneReversal
    <2>1. \A t, u \in Reversals(id) : t = u
      BY DEF Reversals, RowInv, RowTables, IsReversal
    <2> QED BY <2>1, AtMostOne
  <1> QED BY <1>1, RowInvariance, PTL

\* Openings racing for one player and currency leave at most one wallet.
THEOREM SlotsAreUnique == Spec => []OneWalletPerSlot
  <1>1. RowInv => OneWalletPerSlot
    BY DEF RowInv, RowTables
  <1> QED BY <1>1, RowInvariance, PTL

-----------------------------------------------------------------------------
(* Answers.                                                                *)

ResultsAndConflicts == {"RESULT", "IDEMPOTENCY_CONFLICT", "OPERATION_IDENTITY_CONFLICT"}

\* Only what the stepping worker is left with has to be looked at.
LEMMA AnswersApart ==
  ASSUME OpeningAnswers, NEW x \in Workers, \A y \in Workers \ {x} : job'[y] = job[y],
         x \in Handlers => job'[x].cmd # NoCmd \/ job'[x].ans.out \notin ResultsAndConflicts
  PROVE  OpeningAnswers'
  BY DEF OpeningAnswers, Opens, Workers, ResultsAndConflicts

\* A command keeps its handler from opening a wallet.
LEMMA CommandPCs ==
  ASSUME IInv, NEW h \in Handlers, pc[h] \notin {"idle", "reply", "exists", "insertWallet", "commit"}
  PROVE  job[h].cmd # NoCmd
  <1>1. Shape(h)
    BY DEF IInv, WorkerInv, Workers
  <1> QED BY <1>1, NoCmdIsNone DEF Shape

\* An error that is no conflict leaves the answers of openings as they are.
LEMMA AbandonAnswers ==
  ASSUME IInv, OpeningAnswers, NEW x \in Workers, NEW code, Abandon(x, code),
         x \in Handlers => job[x].cmd # NoCmd \/ code \notin ResultsAndConflicts
  PROVE  OpeningAnswers'
  <1>1. /\ \A y \in Workers \ {x} : job'[y] = job[y]
        /\ x \in Handlers => job'[x].ans.out = code /\ job'[x].cmd = job[x].cmd
    BY AbandonLeaves
  <1> QED BY <1>1, AnswersApart

\* A step of a handler that is serving a command goes on serving it.
LEMMA ServingAnswers ==
  ASSUME IInv, OpeningAnswers, NEW h \in Handlers,
         \/ FastReplay(h) \/ GetForUpdate(h) \/ ReadInbox(h) \/ ReadKey(h) \/ ReadIdentity(h)
         \/ Decide(h) \/ CheckReversal(h) \/ Settle(h) \/ UpdateBalance(h) \/ RecordInbox(h)
  PROVE  OpeningAnswers'
  <1>1. pc[h] \notin {"idle", "reply", "exists", "insertWallet", "commit"}
    BY DEF FastReplay, GetForUpdate, ReadInbox, ReadKey, ReadIdentity, Decide, CheckReversal,
           Settle, UpdateBalance, RecordInbox
  <1>2. job[h].cmd # NoCmd /\ h \in Workers /\ job \in [Workers -> Jobs]
    BY <1>1, CommandPCs DEF Workers, IInv, TypeOK
  <1>3. ASSUME NEW code, Abandon(h, code) PROVE OpeningAnswers'
    BY <1>2, <1>3, AbandonAnswers
  <1>4. ASSUME NEW a, AnswerWith(h, a) PROVE OpeningAnswers'
    <2>1. job'[h].cmd = job[h].cmd /\ \A y \in Workers \ {h} : job'[y] = job[y]
      BY <1>4, AnswerLeaves
    <2> QED BY <1>2, <2>1, AnswersApart
  <1>5. ASSUME NEW j, job' = [job EXCEPT ![h] = j], j.cmd = job[h].cmd PROVE OpeningAnswers'
    BY <1>2, <1>5, AnswersApart
  <1>6. CASE UNCHANGED job
    BY <1>2, <1>6, AnswersApart
  <1>7. job[h] \in Jobs
    BY <1>2
  <1>8. ASSUME NEW a, job' = [job EXCEPT ![h].ans = a] PROVE OpeningAnswers'
    <2>1. [job[h] EXCEPT !.ans = a].cmd = job[h].cmd
      BY <1>7 DEF Jobs
    <2> QED BY <1>5, <1>8, <2>1
  <1>9. CASE FastReplay(h)
    BY <1>4, <1>6, <1>9 DEF FastReplay
  <1>10. CASE GetForUpdate(h)
    <2>1. [job[h] EXCEPT !.seen = wallets[job[h].wid]].cmd = job[h].cmd
      BY <1>7 DEF Jobs
    <2> QED BY <1>4, <1>5, <1>10, <2>1 DEF GetForUpdate
  <1>11. CASE ReadInbox(h) \/ ReadKey(h)
    BY <1>3, <1>6, <1>8, <1>11 DEF ReadInbox, ReadKey, Replay
  <1>12. CASE ReadIdentity(h)
    <2> DEFINE row == NewExternal(job[h].cmd.key, job[h].cmd.body)
               j == [job[h] EXCEPT !.row = row, !.mode = "insert"]
    <2>1. j.cmd = job[h].cmd
      BY <1>7 DEF Jobs
    <2>2. \/ job' = [job EXCEPT ![h] = j]
          \/ \E code : Abandon(h, code)
          \/ \E a : job' = [job EXCEPT ![h].ans = a]
      BY <1>12 DEF ReadIdentity, Replay
    <2> HIDE DEF j
    <2> QED BY <1>3, <1>5, <1>8, <2>1, <2>2
  <1>13. CASE Decide(h)
    <2>1. job'[h].cmd = job[h].cmd /\ \A y \in Workers \ {h} : job'[y] = job[y]
      BY <1>2, <1>7, <1>13 DEF Decide, Jobs
    <2> QED BY <1>2, <2>1, AnswersApart
  <1>14. CASE CheckReversal(h)
    <2>1. job'[h].cmd = job[h].cmd /\ \A y \in Workers \ {h} : job'[y] = job[y]
      BY <1>2, <1>7, <1>14 DEF CheckReversal, Jobs
    <2> QED BY <1>2, <2>1, AnswersApart
  <1>15. CASE Settle(h)
    <2> DEFINE j  == job[h]
               id == IF j.mode = "insert" THEN CHOOSE i \in FreeIds : TRUE ELSE j.id
               s  == Settlement(id, j.row, j.seen, j.plan)
               a  == [out |-> "RESULT", id |-> id, status |-> s.row.status,
                      balance |-> IF s.moved THEN s.wallet.balance ELSE j.seen.balance,
                      replay |-> FALSE]
               k  == [j EXCEPT !.id = id, !.writes = s, !.ans = a]
    <2>1. (\E code : Abandon(h, code)) \/ job' = [job EXCEPT ![h] = k]
      BY <1>15 DEF Settle
    <2> HIDE DEF id, s, a
    <2>2. k.cmd = job[h].cmd
      BY <1>7 DEF Jobs
    <2> HIDE DEF k
    <2> QED BY <1>3, <1>5, <2>1, <2>2
  <1>16. CASE UpdateBalance(h)
    BY <1>3, <1>6, <1>16 DEF UpdateBalance
  <1>17. CASE RecordInbox(h)
    <2>1. [job[h] EXCEPT !.inboxed = TRUE].cmd = job[h].cmd
      BY <1>7 DEF Jobs
    <2> QED BY <1>3, <1>5, <1>17, <2>1 DEF RecordInbox
  <1> QED BY <1>9, <1>10, <1>11, <1>12, <1>13, <1>14, <1>15, <1>16, <1>17

\* A step of an opening, or one that starts or ends a request.
LEMMA OtherStepAnswers ==
  ASSUME IInv, OpeningAnswers, NEW h \in Handlers,
         \/ Arrival(h) \/ Respond(h) \/ ExistsForPlayerCurrency(h) \/ InsertWallet(h) \/ Commit(h)
  PROVE  OpeningAnswers'
  <1>1. h \in Workers /\ job \in [Workers -> Jobs] /\ job[h] \in Jobs
    BY DEF Workers, IInv, TypeOK
  <1>2. IdleJob.ans.out \notin ResultsAndConflicts
    BY DEF IdleJob, NoAns, None, ResultsAndConflicts
  <1>3. ASSUME NEW j, job' = [job EXCEPT ![h] = j], j.ans.out \notin ResultsAndConflicts
        PROVE  OpeningAnswers'
    BY <1>1, <1>3, AnswersApart
  <1>4. CASE Arrival(h)
    <2>1. ASSUME NEW c \in Commands, Submit(h, c) PROVE OpeningAnswers'
      <3>1. [IdleJob EXCEPT !.cmd = c, !.wid = c.body.wallet].ans = IdleJob.ans
        BY DEF IdleJob
      <3> QED BY <1>2, <1>3, <2>1, <3>1 DEF Submit
    <2>2. ASSUME NEW w \in Wallets, RequestOpening(h, w) PROVE OpeningAnswers'
      <3>1. [IdleJob EXCEPT !.wid = w].ans = IdleJob.ans
        BY DEF IdleJob
      <3> QED BY <1>2, <1>3, <2>2, <3>1 DEF RequestOpening
    <2> QED BY <1>4, <2>1, <2>2 DEF Arrival
  <1>5. CASE Respond(h)
    BY <1>2, <1>3, <1>5 DEF Respond
  <1>6. ASSUME Abandon(h, "WALLET_ALREADY_EXISTS") PROVE OpeningAnswers'
    BY <1>1, <1>6, AbandonAnswers DEF ResultsAndConflicts
  <1>7. CASE ExistsForPlayerCurrency(h)
    <2>1. UNCHANGED job => OpeningAnswers'
      BY DEF OpeningAnswers, Opens
    <2> QED BY <1>6, <1>7, <2>1 DEF ExistsForPlayerCurrency
  <1>8. CASE InsertWallet(h)
    <2> DEFINE w == job[h].wid
               a == [NoAns EXCEPT !.out = "CREATED", !.balance = Accounts[w].initial]
               j == [job[h] EXCEPT !.writes = OpeningWrites(w, Accounts[w]), !.id = w,
                                   !.mode = IF Accounts[w].initial = 0 THEN None ELSE "insert",
                                   !.ans = a]
    <2>1. a.out = "CREATED"
      BY DEF NoAns
    <2> HIDE DEF a
    <2>2. j.ans = a
      BY <1>1 DEF Jobs
    <2>3. job' = [job EXCEPT ![h] = j] \/ Abandon(h, "WALLET_ALREADY_EXISTS")
      BY <1>8 DEF InsertWallet, a
    <2> HIDE DEF j
    <2> QED BY <1>3, <1>6, <2>1, <2>2, <2>3 DEF ResultsAndConflicts
  <1>9. CASE Commit(h)
    <2>1. /\ job'[h].cmd = job[h].cmd /\ job'[h].ans = job[h].ans
          /\ \A y \in Workers \ {h} : job'[y] = job[y]
      BY <1>9, AnswerLeaves DEF Commit
    <2> QED BY <1>1, <2>1, AnswersApart DEF OpeningAnswers, Opens, ResultsAndConflicts
  <1> QED BY <1>4, <1>5, <1>7, <1>8, <1>9

\* Every action keeps openings from being answered like wagers.
LEMMA NextOpeningAnswers == IInv /\ OpeningAnswers /\ [Next]_vars => OpeningAnswers'
  <1> SUFFICES ASSUME IInv, OpeningAnswers, [Next]_vars PROVE OpeningAnswers'
    OBVIOUS
  <1>1. job \in [Workers -> Jobs]
    BY DEF IInv, TypeOK
  <1>2. ASSUME NEW h \in Handlers, Arrival(h) \/ HandlerStep(h) PROVE OpeningAnswers'
    BY <1>2, ServingAnswers, OtherStepAnswers DEF HandlerStep
  <1>3. ASSUME NEW r \in Resolvers, ResolverStep(r) PROVE OpeningAnswers'
    <2>1. r \in Workers /\ r \notin Handlers
      BY WageringAssumption DEF Workers
    <2>2. \A y \in Workers \ {r} : job'[y] = job[y]
      <3>1. ASSUME NEW j, job' = [job EXCEPT ![r] = j] PROVE \A y \in Workers \ {r} : job'[y] = job[y]
        BY <1>1, <3>1
      <3>2. ASSUME NEW code, Abandon(r, code) PROVE \A y \in Workers \ {r} : job'[y] = job[y]
        BY <2>1, <3>2, AbandonLeaves
      <3>3. CASE Claim(r) \/ (\E rec \in job[r].batch : LoadPending(r, rec)) \/ EndPass(r)
        BY <1>1, <3>3 DEF Claim, LoadPending, EndPass
      <3>4. CASE GetForUpdateParked(r) \/ LoadFailing(r) \/ SaveFailed(r)
        BY <1>1, <3>2, <3>4 DEF GetForUpdateParked, LoadFailing, SaveFailed, NextRecord
      <3>5. CASE DecideParked(r) \/ CheckReversal(r) \/ RecordReferenceAttempt(r)
        BY <1>1, <3>5 DEF DecideParked, CheckReversal, RecordReferenceAttempt
      <3>6. CASE UpdateBalance(r) \/ Commit(r)
        BY <1>1, <2>1, <3>2, <3>6 DEF UpdateBalance, Commit, NextRecord
      <3>7. CASE Settle(r)
        BY <1>1, <3>2, <3>7 DEF Settle
      <3> QED BY <1>3, <3>3, <3>4, <3>5, <3>6, <3>7 DEF ResolverStep
    <2> QED BY <2>1, <2>2, AnswersApart
  <1>4. ASSUME NEW x \in Workers, Failure(x) PROVE OpeningAnswers'
    <2>1. CASE Abandon(x, "UNAVAILABLE")
      BY <2>1, AbandonAnswers DEF ResultsAndConflicts
    <2>2. CASE Crash(x)
      <3>1. IdleJob.ans.out \notin ResultsAndConflicts
        BY DEF IdleJob, NoAns, None, ResultsAndConflicts
      <3> QED BY <1>1, <2>2, <3>1, AnswersApart DEF Crash
    <2> QED BY <1>4, <2>1, <2>2 DEF Failure, CommitUnacknowledged, StatementFails
  <1>5. CASE UNCHANGED job
    BY <1>5 DEF OpeningAnswers, Opens
  <1>6. CASE (\E id \in TxIds : Time(id)) \/ Quiescent \/ UNCHANGED vars
    BY <1>5, <1>6 DEF Time, BackoffElapses, TTLElapses, Quiescent, vars
  <1> QED BY <1>2, <1>3, <1>4, <1>6 DEF Next

\* No handler that opens a wallet ever answers with the result of a wager.
LEMMA OpeningsAnswered == Spec => []OpeningAnswers
  <1>1. Init => OpeningAnswers
    BY DEF Init, OpeningAnswers, IdleJob, NoAns, None, Workers
  <1> QED BY <1>1, Invariance, NextOpeningAnswers, PTL DEF Spec

\* An answer with a result is the committed truth, for as long as it is under way.
THEOREM AnswersStand == Spec => []AnswerStands
  <1>1. RowInv /\ OpeningAnswers => AnswerStands
    <2> SUFFICES ASSUME RowInv, OpeningAnswers, NEW h \in Handlers, pc[h] = "reply",
                        job[h].ans.out = "RESULT"
                 PROVE  Stands(h)
      BY DEF AnswerStands, Stands, Stored
    <2>1. ~Opens(h) /\ Answered(h)
      BY DEF OpeningAnswers, RowInv, RowWorker, Workers
    <2> QED BY <2>1 DEF Answered
  <1> QED BY <1>1, OpeningsAnswered, RowInvariance, PTL

\* A message answered with a result is in the inbox under that very transaction,
\* so the consumer may delete it.
THEOREM HandledAreRecorded == Spec => []HandledMessagesAreRecorded
  <1>1. RowInv /\ OpeningAnswers => HandledMessagesAreRecorded
    <2> SUFFICES ASSUME RowInv, OpeningAnswers, NEW h \in Handlers, pc[h] = "reply",
                        job[h].ans.out = "RESULT", job[h].cmd.msg # None
                 PROVE  /\ inbox[job[h].cmd.msg].id = job[h].ans.id
                        /\ inbox[job[h].cmd.msg].body = job[h].cmd.body
      BY DEF HandledMessagesAreRecorded
    <2>1. ~Opens(h) /\ Answered(h)
      BY DEF OpeningAnswers, RowInv, RowWorker, Workers
    <2> QED BY <2>1 DEF Answered
  <1> QED BY <1>1, OpeningsAnswered, RowInvariance, PTL

\* A conflict is reported only where a stored row or a recorded message disagrees.
THEOREM ConflictsAreReal == Spec => []NoFalseConflict
  <1>1. RowInv /\ OpeningAnswers => NoFalseConflict
    <2> SUFFICES ASSUME RowInv, OpeningAnswers, NEW h \in Handlers, pc[h] = "reply",
                        job[h].ans.out \in {"IDEMPOTENCY_CONFLICT", "OPERATION_IDENTITY_CONFLICT"}
                 PROVE  Contradicted(job[h].cmd)
      BY DEF NoFalseConflict
    <2>1. ~Opens(h) /\ Answered(h)
      BY DEF OpeningAnswers, RowInv, RowWorker, Workers
    <2> QED BY <2>1 DEF Answered
  <1> QED BY <1>1, OpeningsAnswered, RowInvariance, PTL

-----------------------------------------------------------------------------
(* Where the ledger mentions a transaction.                                *)

\* Membership in Entries.
LEMMA EntryIn ==
  ASSUME NEW id, NEW p
  PROVE  p \in Entries(id) <=>
            \E w \in Wallets : \E i \in DOMAIN ledger[w] : p = <<w, i>> /\ ledger[w][i].tx = id
  <1>1. p \in Entries(id) <=>
           \E w \in Wallets : p \in {w} \X { i \in DOMAIN ledger[w] : ledger[w][i].tx = id }
    BY DEF Entries
  <1>2. \A w \in Wallets : p \in {w} \X { i \in DOMAIN ledger[w] : ledger[w][i].tx = id } <=>
           \E i \in DOMAIN ledger[w] : p = <<w, i>> /\ ledger[w][i].tx = id
    OBVIOUS
  <1> QED BY <1>1, <1>2

\* The same in the next state.
LEMMA EntryInNext ==
  ASSUME NEW id, NEW p
  PROVE  p \in Entries(id)' <=>
            \E w \in Wallets : \E i \in DOMAIN ledger'[w] : p = <<w, i>> /\ ledger'[w][i].tx = id
  <1>1. p \in Entries(id)' <=>
           \E w \in Wallets : p \in {w} \X { i \in DOMAIN ledger'[w] : ledger'[w][i].tx = id }
    BY DEF Entries
  <1>2. \A w \in Wallets : p \in {w} \X { i \in DOMAIN ledger'[w] : ledger'[w][i].tx = id } <=>
           \E i \in DOMAIN ledger'[w] : p = <<w, i>> /\ ledger'[w][i].tx = id
    OBVIOUS
  <1> QED BY <1>1, <1>2

\* An entry appended to one ledger is new there, and everything else stays.
LEMMA Appended ==
  ASSUME NEW w \in Wallets, NEW e \in LedgerEntries, ledger \in [Wallets -> Seq(LedgerEntries)],
         ledger' = [ledger EXCEPT ![w] = @ \o <<e>>]
  PROVE  LET n == Len(ledger[w]) + 1
         IN  /\ n \in DOMAIN ledger'[w] /\ ledger'[w][n] = e /\ n \in Nat /\ Len(ledger'[w]) = n
             /\ \A v \in Wallets : \A i \in DOMAIN ledger[v] :
                   i \in DOMAIN ledger'[v] /\ ledger'[v][i] = ledger[v][i]
             /\ \A v \in Wallets : \A i \in DOMAIN ledger'[v] :
                   i \in DOMAIN ledger[v] \/ (v = w /\ i = n)
             /\ \A i \in DOMAIN ledger[w] : i < n
             /\ \A v \in Wallets \ {w} : ledger'[v] = ledger[v]
  <1> DEFINE L == ledger[w]
             n == Len(L) + 1
  <1>1. L \in Seq(LedgerEntries) /\ ledger'[w] = L \o <<e>> /\ Len(L) \in Nat
        /\ \A v \in Wallets \ {w} : ledger'[v] = ledger[v]
    OBVIOUS
  <1>2. /\ Len(L \o <<e>>) = n /\ DOMAIN (L \o <<e>>) = 1..n /\ DOMAIN L = 1..Len(L)
        /\ (L \o <<e>>)[n] = e /\ \A i \in 1..Len(L) : (L \o <<e>>)[i] = L[i]
    BY <1>1
  <1> HIDE DEF L
  <1>3. /\ n \in DOMAIN ledger'[w] /\ ledger'[w][n] = e /\ n \in Nat /\ Len(ledger'[w]) = n
        /\ \A i \in DOMAIN L : i < n /\ i \in DOMAIN ledger'[w] /\ ledger'[w][i] = L[i]
        /\ \A i \in DOMAIN ledger'[w] : i \in DOMAIN L \/ i = n
    BY <1>1, <1>2
  <1> QED BY <1>1, <1>3 DEF L

\* What the new entry adds to Entries.
LEMMA AppendedEntries ==
  ASSUME NEW w \in Wallets, NEW e \in LedgerEntries, NEW id, id = e.tx,
         ledger \in [Wallets -> Seq(LedgerEntries)],
         ledger' = [ledger EXCEPT ![w] = @ \o <<e>>]
  PROVE  LET n == Len(ledger[w]) + 1
         IN  /\ \A i : i # id => Entries(i)' = Entries(i)
             /\ Entries(id)' = Entries(id) \cup {<<w, n>>}
             /\ \A i : \A p \in Entries(i) : EntryAt(p)' = EntryAt(p)
             /\ \A p : p = <<w, n>> => EntryAt(p)' = e
  <1> DEFINE n == Len(ledger[w]) + 1
  <1>1. /\ n \in DOMAIN ledger'[w] /\ ledger'[w][n] = e
        /\ \A v \in Wallets : \A i \in DOMAIN ledger[v] :
              i \in DOMAIN ledger'[v] /\ ledger'[v][i] = ledger[v][i]
        /\ \A v \in Wallets : \A i \in DOMAIN ledger'[v] :
              i \in DOMAIN ledger[v] \/ (v = w /\ i = n)
        /\ \A i \in DOMAIN ledger[w] : i < n
    BY Appended
  <1> HIDE DEF n
  <1>2. ASSUME NEW k, NEW p PROVE p \in Entries(k)' <=> p \in Entries(k) \/ (k = id /\ p = <<w, n>>)
    BY <1>1, EntryIn, EntryInNext
  <1>3. ASSUME NEW k, NEW p \in Entries(k) PROVE EntryAt(p)' = EntryAt(p)
    <2>1. PICK v \in Wallets : \E i \in DOMAIN ledger[v] : p = <<v, i>>
      BY EntryIn
    <2>2. PICK i \in DOMAIN ledger[v] : p = <<v, i>>
      BY <2>1
    <2>3. p[1] = v /\ p[2] = i
      BY <2>2
    <2> QED BY <1>1, <2>3 DEF EntryAt
  <1>4. ASSUME NEW p, p = <<w, n>> PROVE EntryAt(p)' = e
    <2>1. p[1] = w /\ p[2] = n
      BY <1>4
    <2> QED BY <1>1, <2>1 DEF EntryAt
  <1>5. ASSUME NEW k, k # id PROVE Entries(k)' = Entries(k)
    <2>1. \A p : p \in Entries(k)' <=> p \in Entries(k)
      BY <1>2, <1>5
    <2> QED BY <2>1
  <1>6. Entries(id)' = Entries(id) \cup {<<w, n>>}
    BY <1>2
  <1> QED BY <1>3, <1>4, <1>5, <1>6 DEF n

-----------------------------------------------------------------------------
(* The outbox.                                                             *)

\* Events about other transactions change nothing that is told of this one.
LEMMA EventsApart ==
  ASSUME NEW E, NEW id, outbox' = outbox \cup E, \A e \in E : e.tx # id
  PROVE  Told(id)' = Told(id) /\ Announced(id)' = Announced(id)
  <1>1. { f \in outbox' : f.tx = id /\ f.version = 0 } = { f \in outbox : f.tx = id /\ f.version = 0 }
    OBVIOUS
  <1>2. { f \in outbox' : f.tx = id /\ f.version > 0 } = { f \in outbox : f.tx = id /\ f.version > 0 }
    OBVIOUS
  <1> QED BY <1>1, <1>2 DEF Told, Announced

\* The first outcome told of a transaction, and the versions announced with it.
LEMMA EventsFirst ==
  ASSUME NEW E, NEW id, NEW type, outbox' = outbox \cup E, Told(id) = {},
         Event(type, id) \in E, \A e \in E : e.tx = id /\ (e.version = 0 => e.type = type)
  PROVE  Told(id)' = {type} \ {"WagerTransactionPendingReference"}
  <1> DEFINE old == { f \in outbox : f.tx = id /\ f.version = 0 }
             new == { f \in outbox' : f.tx = id /\ f.version = 0 }
             P == "WagerTransactionPendingReference"
  <1>1. Event(type, id).tx = id /\ Event(type, id).version = 0 /\ Event(type, id).type = type
    BY DEF Event
  <1>2. Event(type, id) \in new
    BY <1>1
  <1>3. \A e \in new : e.type \in {type, P}
    <2>1. \A e \in old : e.type = P
      BY DEF Told
    <2> QED BY <2>1
  <1>4. \A t : t \in Told(id)' <=> (t # P /\ \E e \in new : e.type = t)
    BY DEF Told
  <1> HIDE DEF new
  <1>5. \A t : t \in Told(id)' <=> t = type /\ t # P
    BY <1>1, <1>2, <1>3, <1>4
  <1> QED BY <1>5

\* The same for the versions.
LEMMA VersionsFirst ==
  ASSUME NEW E, NEW id, NEW v, outbox' = outbox \cup E, Announced(id) = {},
         v > 0, BalanceChanged(id, v) \in E,
         \A e \in E : e.tx = id /\ (e.version > 0 => e.version = v)
  PROVE  Announced(id)' = {v}
  <1> DEFINE old == { f \in outbox : f.tx = id /\ f.version > 0 }
             new == { f \in outbox' : f.tx = id /\ f.version > 0 }
  <1>1. BalanceChanged(id, v).tx = id /\ BalanceChanged(id, v).version = v
    BY DEF BalanceChanged
  <1>2. BalanceChanged(id, v) \in new
    BY <1>1
  <1>3. \A e \in new : e.version = v
    <2>1. old = {}
      BY DEF Announced
    <2> QED BY <2>1
  <1>4. \A n : n \in Announced(id)' <=> \E e \in new : e.version = n
    BY DEF Announced
  <1> HIDE DEF new
  <1>5. \A n : n \in Announced(id)' <=> n = v
    BY <1>1, <1>2, <1>3, <1>4
  <1> QED BY <1>5

\* Events without a version announce nothing.
LEMMA VersionsSame ==
  ASSUME NEW E, NEW id, outbox' = outbox \cup E, \A e \in E : e.version = 0
  PROVE  Announced(id)' = Announced(id)
  <1>1. { f \in outbox' : f.tx = id /\ f.version > 0 } = { f \in outbox : f.tx = id /\ f.version > 0 }
    OBVIOUS
  <1> QED BY <1>1 DEF Announced

-----------------------------------------------------------------------------
(* What a commit does to the money tables.                                 *)

OutcomeEvent(status) ==
    CASE status = "PROCESSED" -> "WagerTransactionProcessed"
      [] status \in {"REJECTED", "FAILED"} -> "WagerTransactionRejected"
      [] OTHER -> "WagerTransactionPendingReference"

\* A row is written that was not settled before.
WritesRow(id, row) ==
    /\ id \in AllIds /\ row \in Rows /\ ~IsTerminal(txs[id].status)
    /\ txs' = [txs EXCEPT ![id] = row]

\* It moves no money.
RecordsRow(id, row) ==
    /\ WritesRow(id, row) /\ row.status # "PENDING"
    /\ row.status = "PROCESSED" => row.body.kind = "LOSS"
    /\ wallets' = wallets /\ ledger' = ledger /\ journal' = journal
    /\ outbox' = outbox \cup {Event(OutcomeEvent(row.status), id)}

\* It moves money: e is the ledger entry, v the new version of wallet w, book the
\* account on the other side.
MovesMoney(id, row, w, e, v, book) ==
    /\ WritesRow(id, row) /\ row.status = "PROCESSED" /\ row.body.kind # "LOSS"
    /\ w \in Wallets /\ row.body.wallet = w /\ e \in LedgerEntries /\ v \in Nat \ {0}
    /\ e.tx = id /\ e.amount = row.body.amount /\ e.after = row.result /\ e.dir = MovedTo(row)
    /\ RequiresReference(row.body.kind) =>
          /\ row.refId \in AllIds /\ txs[row.refId].status = "PROCESSED"
          /\ ReferenceVerdict(row.body, txs[row.refId]).kind = "PROCESS"
    /\ ledger' = [ledger EXCEPT ![w] = @ \o <<e>>]
    /\ wallets'[w].version = v /\ \A u \in Wallets \ {w} : wallets'[u] = wallets[u]
    /\ ledger[w] = <<>> \/ v = wallets[w].version + 1
    /\ book # WalletAccount(w)
    /\ journal' = journal \cup
          { [tx |-> id, account |-> WalletAccount(w), dir |-> e.dir, amount |-> e.amount],
            [tx |-> id, account |-> book, amount |-> e.amount,
             dir |-> IF e.dir = "DEBIT" THEN "CREDIT" ELSE "DEBIT"] }
    /\ outbox' = outbox \cup {Event("WagerTransactionProcessed", id), BalanceChanged(id, v)}

\* A row that is not settled has moved no money and told nothing but its parking.
LEMMA UnsettledRow ==
  ASSUME IInv, MoneyInv, NEW id \in AllIds, ~IsTerminal(txs[id].status)
  PROVE  /\ Entries(id) = {} /\ { l \in journal : l.tx = id } = {}
         /\ Told(id) = {} /\ Announced(id) = {}
  <1>1. txs[id].status \notin {"PROCESSED", "REJECTED", "FAILED"}
    BY DEF IsTerminal
  <1>2. Entries(id) = {}
    BY <1>1 DEF MoneyInv, MoneyMovedOnce
  <1>3. { l \in journal : l.tx = id } = {}
    BY <1>2 DEF MoneyInv, JournalMirrorsLedger
  <1>4. Told(id) = {}
    <2>1. Told(id) = Outcome(txs[id].status)
      BY DEF MoneyInv, EventsTellState, OutcomesTold
    <2> QED BY <1>1, <2>1 DEF Outcome
  <1>5. Announced(id) = {}
    <2>1. \A e \in outbox : ~(e.tx = id /\ e.version > 0)
      BY <1>2 DEF MoneyInv, ChangesHaveEntries
    <2> QED BY <2>1 DEF Announced
  <1> QED BY <1>2, <1>3, <1>4, <1>5

\* The direction of a transaction that has moved money does not change.
LEMMA DirectionStays ==
  ASSUME IInv, RowInv, MoneyInv, NEW id, NEW row, WritesRow(id, row), NEW i \in AllIds \ {id},
         Entries(i) # {}
  PROVE  MovedTo(txs[i])' = MovedTo(txs[i])
  <1>1. txs[i].status = "PROCESSED"
    BY DEF MoneyInv, MoneyMovedOnce
  <1>2. txs'[i] = txs[i]
    BY DEF WritesRow, IInv, TypeOK
  <1>3. CASE RequiresReference(txs[i].body.kind)
    <2>1. RowKept(i)
      BY DEF RowInv, RowTables
    <2>2. /\ txs[i].refId \in AllIds
          /\ ReferenceVerdict(txs[i].body, txs[txs[i].refId]).kind = "PROCESS"
      BY <1>1, <1>3, <2>1 DEF RowKept
    <2>3. txs[txs[i].refId].status = "PROCESSED"
      BY <2>2, VerdictSays, RowStatus DEF IInv
    <2>4. txs[i].refId # id
      BY <2>3 DEF WritesRow, IsTerminal
    <2>5. txs'[txs[i].refId] = txs[txs[i].refId]
      BY <2>2, <2>4 DEF WritesRow, IInv, TypeOK
    <2> QED BY <1>2, <2>5 DEF MovedTo
  <1>4. CASE ~RequiresReference(txs[i].body.kind)
    BY <1>2, <1>4 DEF MovedTo
  <1> QED BY <1>3, <1>4

\* What a row written does to the other rows: nothing.
LEMMA OtherRows ==
  ASSUME IInv, NEW id, NEW row, WritesRow(id, row)
  PROVE  txs'[id] = row /\ \A i \in AllIds \ {id} : txs'[i] = txs[i]
  BY DEF WritesRow, IInv, TypeOK

\* A row that moves no money keeps MoneyInv.
LEMMA RecordsKeeps ==
  ASSUME IInv, RowInv, MoneyInv, NEW id, NEW row, RecordsRow(id, row)
  PROVE  MoneyInv'
  <1> DEFINE ev == Event(OutcomeEvent(row.status), id)
  <1>1. /\ WritesRow(id, row) /\ id \in AllIds /\ row \in Rows /\ ~IsTerminal(txs[id].status)
        /\ txs'[id] = row /\ \A i \in AllIds \ {id} : txs'[i] = txs[i]
        /\ wallets' = wallets /\ ledger' = ledger /\ journal' = journal /\ outbox' = outbox \cup {ev}
        /\ row.status = "PROCESSED" => row.body.kind = "LOSS"
    BY OtherRows DEF RecordsRow, WritesRow
  <1>2. Entries(id) = {} /\ Told(id) = {} /\ Announced(id) = {}
    BY <1>1, UnsettledRow
  <1>3. \A i : Entries(i)' = Entries(i)
    BY <1>1 DEF Entries
  <1>4. ev.tx = id /\ ev.version = 0 /\ ev.type = OutcomeEvent(row.status)
    BY DEF Event
  <1> DEFINE E == {ev}
  <1>a. /\ outbox' = outbox \cup E /\ ev \in E
        /\ \A e \in E : e.tx = id /\ e.version = 0 /\ e.type = OutcomeEvent(row.status)
    BY <1>1, <1>4
  <1> HIDE DEF E
  <1>5. MoneyMovedOnce'
    <2>1. MoneyMovedOnce
      BY DEF MoneyInv
    <2>2. \A i \in AllIds \ {id} : txs'[i] = txs[i] /\ Entries(i)' = Entries(i)
      BY <1>1, <1>3
    <2>3. Entries(id)' = {} /\ ~(txs'[id].status = "PROCESSED" /\ txs'[id].body.kind # "LOSS")
      BY <1>1, <1>2, <1>3
    <2> QED BY <1>1, <2>1, <2>2, <2>3 DEF MoneyMovedOnce
  <1>6. JournalMirrorsLedger'
    <2>1. JournalMirrorsLedger
      BY DEF MoneyInv
    <2>2. \A p : EntryAt(p)' = EntryAt(p)
      BY <1>1 DEF EntryAt
    <2> QED BY <1>1, <1>3, <2>1, <2>2 DEF JournalMirrorsLedger
  <1>7. OutcomesTold'
    <2>1. ASSUME NEW i \in AllIds \ {id} PROVE Told(i)' = Outcome(txs'[i].status)
      <3>1. Told(i)' = Told(i)
        BY <1>a, <2>1, EventsApart
      <3> QED BY <1>1, <3>1 DEF MoneyInv, EventsTellState, OutcomesTold
    <2>2. Told(id)' = {OutcomeEvent(row.status)} \ {"WagerTransactionPendingReference"}
      BY <1>2, <1>a, EventsFirst
    <2>3. {OutcomeEvent(row.status)} \ {"WagerTransactionPendingReference"} = Outcome(row.status)
      BY DEF OutcomeEvent, Outcome
    <2> QED BY <1>1, <2>1, <2>2, <2>3 DEF OutcomesTold, Outcome
  <1>8. ParkingTold'
    <2>1. row.status = "PENDING_REFERENCE" => ev = Event("WagerTransactionPendingReference", id)
      BY DEF OutcomeEvent
    <2> QED BY <1>1, <2>1 DEF ParkingTold, Parked, MoneyInv, EventsTellState, Event
  <1>9. MovementsTold'
    <2>1. \A i : Announced(i)' = Announced(i)
      BY <1>a, VersionsSame
    <2> QED BY <1>1, <2>1 DEF MoneyInv, EventsTellState, MovementsTold
  <1>10. ReversalUndoes'
    <2> SUFFICES ASSUME NEW i \in AllIds, NEW t \in Reversals(i)'
                 PROVE  (/\ txs[i].status = "PROCESSED" /\ txs[t].body.round = txs[i].body.round
                         /\ \A p \in Entries(i), q \in Entries(t) :
                               /\ p[1] = q[1] /\ p[2] < q[2]
                               /\ EntryAt(p).amount = EntryAt(q).amount
                               /\ EntryAt(p).dir # EntryAt(q).dir)'
      BY DEF ReversalUndoes
    <2>1. t \in AllIds /\ t # id
      BY <1>1 DEF Reversals, RequiresReference
    <2>2. t \in Reversals(i) /\ txs'[t] = txs[t]
      BY <1>1, <2>1 DEF Reversals
    <2>3. /\ txs[i].status = "PROCESSED" /\ txs[t].body.round = txs[i].body.round
          /\ \A p \in Entries(i), q \in Entries(t) :
                /\ p[1] = q[1] /\ p[2] < q[2]
                /\ EntryAt(p).amount = EntryAt(q).amount
                /\ EntryAt(p).dir # EntryAt(q).dir
      BY <2>2 DEF MoneyInv, ReversalUndoes
    <2>4. i # id
      BY <1>1, <2>3 DEF IsTerminal
    <2>5. txs'[i] = txs[i] /\ \A p : EntryAt(p)' = EntryAt(p)
      BY <1>1, <2>4 DEF EntryAt
    <2> QED BY <1>3, <2>2, <2>3, <2>5
  <1>11. DirectionsKept'
    <2> SUFFICES ASSUME NEW i \in AllIds, NEW p \in Entries(i)' PROVE EntryAt(p)'.dir = MovedTo(txs[i])'
      BY DEF DirectionsKept
    <2>1. p \in Entries(i) /\ i # id /\ EntryAt(p)' = EntryAt(p)
      BY <1>1, <1>2, <1>3 DEF EntryAt
    <2>2. MovedTo(txs[i])' = MovedTo(txs[i])
      BY <1>1, <2>1, DirectionStays
    <2> QED BY <2>1, <2>2 DEF MoneyInv, DirectionsKept
  <1>12. ChangesHaveEntries'
    BY <1>1, <1>3, <1>4 DEF MoneyInv, ChangesHaveEntries
  <1> QED BY <1>5, <1>6, <1>7, <1>8, <1>9, <1>10, <1>11, <1>12 DEF MoneyInv, EventsTellState

\* A reversal moves money against its reference.
LEMMA Opposite ==
  ASSUME IInv, RowInv, NEW row, NEW i \in AllIds, row.refId = i, txs[i].status = "PROCESSED",
         RequiresReference(row.body.kind), ReferenceVerdict(row.body, txs[i]).kind = "PROCESS"
  PROVE  MovedTo(row) # MovedTo(txs[i])
  <1> DEFINE k == txs[i].body.kind
  <1>1. /\ MovedTo(row) = reversalDirection(row.body.kind, k) /\ MovedTo(row) # None
    <2>1. ReferenceVerdict(row.body, txs[i]) = Process(reversalDirection(row.body.kind, k))
          /\ ReferenceVerdict(row.body, txs[i]).dir # None
      BY VerdictSays
    <2>2. Process(reversalDirection(row.body.kind, k)).dir = reversalDirection(row.body.kind, k)
      BY DEF Process
    <2> QED BY <2>1, <2>2 DEF MovedTo
  <1>2. k = "BET" \/ (k \in {"WIN", "REFUND"} /\ row.body.kind = "ROLLBACK")
    BY <1>1 DEF reversalDirection
  <1>3. CASE k = "BET"
    BY <1>1, <1>3 DEF reversalDirection, MovedTo, RequiresReference, OwnDirection
  <1>4. CASE k = "WIN" /\ row.body.kind = "ROLLBACK"
    BY <1>1, <1>4 DEF reversalDirection, MovedTo, RequiresReference, OwnDirection
  <1>5. CASE k = "REFUND" /\ row.body.kind = "ROLLBACK"
    <2>1. MovedTo(row) = "DEBIT"
      BY <1>1, <1>5 DEF reversalDirection
    <2>2. RequiresReference(k)
      BY <1>5 DEF RequiresReference
    <2>3. RowKept(i)
      BY DEF RowInv, RowTables
    <2>4. ReferenceVerdict(txs[i].body, txs[txs[i].refId]).kind = "PROCESS"
      BY <2>2, <2>3 DEF RowKept
    <2> DEFINE k2 == txs[txs[i].refId].body.kind
    <2>5. ReferenceVerdict(txs[i].body, txs[txs[i].refId]) = Process(reversalDirection(k, k2))
          /\ ReferenceVerdict(txs[i].body, txs[txs[i].refId]).dir # None
      BY <2>4, VerdictSays
    <2>6. Process(reversalDirection(k, k2)).dir = reversalDirection(k, k2)
      BY DEF Process
    <2>7. MovedTo(txs[i]) = reversalDirection(k, k2) /\ reversalDirection(k, k2) # None
      BY <2>2, <2>5, <2>6 DEF MovedTo
    <2>8. reversalDirection(k, k2) = "CREDIT"
      BY <1>5, <2>7 DEF reversalDirection
    <2> QED BY <2>1, <2>7, <2>8
  <1> QED BY <1>2, <1>3, <1>4, <1>5

\* A row that moves money keeps MoneyInv.
LEMMA MovesKeeps ==
  ASSUME IInv, RowInv, MoneyInv, NEW id, NEW row, NEW w, NEW e, NEW v, NEW book,
         MovesMoney(id, row, w, e, v, book)
  PROVE  MoneyInv'
  <1>1. /\ WritesRow(id, row) /\ id \in AllIds /\ row \in Rows /\ ~IsTerminal(txs[id].status)
        /\ txs'[id] = row /\ \A i \in AllIds \ {id} : txs'[i] = txs[i]
        /\ row.status = "PROCESSED" /\ row.body.kind # "LOSS" /\ w \in Wallets /\ row.body.wallet = w
        /\ e \in LedgerEntries /\ v \in Nat \ {0} /\ e.tx = id /\ e.amount = row.body.amount
        /\ e.after = row.result /\ e.dir = MovedTo(row)
        /\ ledger' = [ledger EXCEPT ![w] = @ \o <<e>>]
        /\ ledger \in [Wallets -> Seq(LedgerEntries)]
    BY OtherRows DEF MovesMoney, WritesRow, IInv, TypeOK
  <1>2. /\ Entries(id) = {} /\ { l \in journal : l.tx = id } = {}
        /\ Told(id) = {} /\ Announced(id) = {}
    BY <1>1, UnsettledRow
  <1>3. PICK n : n = Len(ledger[w]) + 1
    OBVIOUS
  <1>4. /\ n \in DOMAIN ledger'[w] /\ ledger'[w][n] = e /\ n \in Nat /\ Len(ledger'[w]) = n
        /\ \A u \in Wallets : \A i \in DOMAIN ledger[u] :
              i \in DOMAIN ledger'[u] /\ ledger'[u][i] = ledger[u][i]
        /\ \A u \in Wallets : \A i \in DOMAIN ledger'[u] :
              i \in DOMAIN ledger[u] \/ (u = w /\ i = n)
        /\ \A i \in DOMAIN ledger[w] : i < n
        /\ \A u \in Wallets \ {w} : ledger'[u] = ledger[u]
    BY <1>1, <1>3, Appended
  <1>5. /\ \A i : i # id => Entries(i)' = Entries(i)
        /\ Entries(id)' = {<<w, n>>}
        /\ \A i : \A p \in Entries(i) : EntryAt(p)' = EntryAt(p)
        /\ \A p : p = <<w, n>> => EntryAt(p)' = e
    <2>1. /\ \A i : i # id => Entries(i)' = Entries(i)
          /\ Entries(id)' = Entries(id) \cup {<<w, Len(ledger[w]) + 1>>}
          /\ \A i : \A p \in Entries(i) : EntryAt(p)' = EntryAt(p)
          /\ \A p : p = <<w, Len(ledger[w]) + 1>> => EntryAt(p)' = e
      <3>1. /\ w \in Wallets /\ e \in LedgerEntries /\ id = e.tx
            /\ ledger \in [Wallets -> Seq(LedgerEntries)]
            /\ ledger' = [ledger EXCEPT ![w] = @ \o <<e>>]
        BY <1>1
      <3> QED BY ONLY <3>1, AppendedEntries
    <2>2. Entries(id)' = {<<w, n>>}
      BY <1>2, <1>3, <2>1
    <2> QED BY <1>3, <2>1, <2>2
  <1>6. \A i \in AllIds : txs[i].status = "PROCESSED" => i # id
    BY <1>1 DEF IsTerminal
  <1>7. MoneyMovedOnce'
    <2>1. ASSUME NEW i \in AllIds \ {id}, txs[i].status = "PROCESSED", txs[i].body.kind # "LOSS"
          PROVE  \E k \in DOMAIN ledger'[txs'[i].body.wallet] :
                    /\ Entries(i)' = {<<txs'[i].body.wallet, k>>}
                    /\ ledger'[txs'[i].body.wallet][k].amount = txs'[i].body.amount
                    /\ ledger'[txs'[i].body.wallet][k].after = txs'[i].result
      <3>1. PICK u : u = txs[i].body.wallet
        OBVIOUS
      <3>2. PICK k \in DOMAIN ledger[u] : /\ Entries(i) = {<<u, k>>}
                                          /\ ledger[u][k].amount = txs[i].body.amount
                                          /\ ledger[u][k].after = txs[i].result
        BY <2>1, <3>1 DEF MoneyInv, MoneyMovedOnce
      <3>3. u \in Wallets
        <4>1. txs[i] \in Rows
          BY <2>1, LookupTyped DEF IInv, Stored
        <4> QED BY <3>1, <4>1, BodyTyped DEF Rows
      <3>4. k \in DOMAIN ledger'[u] /\ ledger'[u][k] = ledger[u][k] /\ Entries(i)' = Entries(i)
            /\ txs'[i] = txs[i]
        BY <1>1, <1>4, <1>5, <2>1, <3>2, <3>3
      <3> QED BY <3>1, <3>2, <3>4
    <2>2. ASSUME NEW i \in AllIds \ {id}, ~(txs[i].status = "PROCESSED" /\ txs[i].body.kind # "LOSS")
          PROVE  Entries(i)' = {} /\ txs'[i] = txs[i]
      BY <1>1, <1>5, <2>2 DEF MoneyInv, MoneyMovedOnce
    <2>3. /\ txs'[id].body.wallet = w /\ n \in DOMAIN ledger'[w] /\ Entries(id)' = {<<w, n>>}
          /\ ledger'[w][n].amount = txs'[id].body.amount /\ ledger'[w][n].after = txs'[id].result
          /\ txs'[id].status = "PROCESSED" /\ txs'[id].body.kind # "LOSS"
      BY <1>1, <1>4, <1>5
    <2>4. ASSUME NEW i \in AllIds
          PROVE  IF txs'[i].status = "PROCESSED" /\ txs'[i].body.kind # "LOSS"
                 THEN \E k \in DOMAIN ledger'[txs'[i].body.wallet] :
                         /\ Entries(i)' = {<<txs'[i].body.wallet, k>>}
                         /\ ledger'[txs'[i].body.wallet][k].amount = txs'[i].body.amount
                         /\ ledger'[txs'[i].body.wallet][k].after = txs'[i].result
                 ELSE Entries(i)' = {}
      <3>1. CASE i = id
        BY <2>3, <3>1
      <3>2. CASE i # id /\ txs[i].status = "PROCESSED" /\ txs[i].body.kind # "LOSS"
        <4>1. txs'[i] = txs[i] /\ i \in AllIds \ {id}
          BY <1>1, <3>2
        <4> QED BY <2>1, <3>2, <4>1
      <3>3. CASE i # id /\ ~(txs[i].status = "PROCESSED" /\ txs[i].body.kind # "LOSS")
        BY <2>2, <3>3
      <3> QED BY <3>1, <3>2, <3>3
    <2> QED BY <2>4 DEF MoneyMovedOnce
  <1>8. OutcomesTold' /\ ParkingTold' /\ MovementsTold' /\ ChangesHaveEntries'
    <2> DEFINE E == {Event("WagerTransactionProcessed", id), BalanceChanged(id, v)}
    <2>1. /\ outbox' = outbox \cup E
          /\ Event("WagerTransactionProcessed", id) \in E /\ BalanceChanged(id, v) \in E
      BY DEF MovesMoney
    <2>2. \A f \in E : /\ f.tx = id /\ f.version \in {0, v}
                       /\ (f.version = 0 => f.type = "WagerTransactionProcessed")
      BY <1>1 DEF Event, BalanceChanged
    <2> HIDE DEF E
    <2>3. Told(id)' = {"WagerTransactionProcessed"} /\ Announced(id)' = {v}
      <3>1. Told(id)' = {"WagerTransactionProcessed"} \ {"WagerTransactionPendingReference"}
        BY <1>2, <2>1, <2>2, EventsFirst
      <3>2. v > 0 /\ \A f \in E : f.tx = id /\ (f.version > 0 => f.version = v)
        BY <1>1, <2>2
      <3>3. Announced(id)' = {v}
        BY <1>2, <2>1, <3>2, VersionsFirst
      <3> QED BY <3>1, <3>3
    <2>4. ASSUME NEW i, i # id PROVE Told(i)' = Told(i) /\ Announced(i)' = Announced(i)
      BY <2>1, <2>2, <2>4, EventsApart
    <2>5. OutcomesTold'
      <3>1. \A i \in AllIds \ {id} : Told(i)' = Outcome(txs'[i].status)
        BY <1>1, <2>4 DEF MoneyInv, EventsTellState, OutcomesTold
      <3>2. Outcome("PROCESSED") = {"WagerTransactionProcessed"}
        BY DEF Outcome
      <3> QED BY <1>1, <2>3, <3>1, <3>2 DEF OutcomesTold, Outcome
    <2>6. ParkingTold'
      BY <1>1, <2>1 DEF ParkingTold, Parked, MoneyInv, EventsTellState, Event
    <2>7. ASSUME NEW u \in Wallets, NEW i \in 1..Len(ledger'[u]), NEW t, t = ledger'[u][i].tx
          PROVE  Announced(t)' = {i + (wallets'[u].version - Len(ledger'[u]))}
      <3>1. ledger[u] \in Seq(LedgerEntries) /\ ledger'[u] \in Seq(LedgerEntries)
        BY <1>1
      <3>2. DOMAIN ledger[u] = 1..Len(ledger[u]) /\ DOMAIN ledger'[u] = 1..Len(ledger'[u])
            /\ Len(ledger[u]) \in Nat /\ i \in Nat
        BY <3>1
      <3>3. CASE i \in DOMAIN ledger[u]
        <4>1. ledger'[u][i] = ledger[u][i]
          BY <1>4, <3>3
        <4>2. t = ledger[u][i].tx
          BY <2>7, <4>1
        <4>3. t # id
          <5>1. <<u, i>> \in Entries(t)
            BY <3>3, <4>2, EntryIn
          <5> QED BY <1>2, <5>1
        <4>4. Announced(t)' = Announced(t)
          BY <2>4, <4>3
        <4>5. Announced(t) = {i + (wallets[u].version - Len(ledger[u]))}
          BY <3>2, <3>3, <4>2 DEF MoneyInv, EventsTellState, MovementsTold
        <4>6. wallets'[u].version - Len(ledger'[u]) = wallets[u].version - Len(ledger[u])
          <5>1. CASE u # w
            BY <1>4, <5>1 DEF MovesMoney
          <5>2. CASE u = w
            <6>1. ledger[w] # <<>>
              BY <3>3, <5>2
            <6>2. wallets'[w].version = wallets[w].version + 1 /\ wallets[w].version \in Nat
              BY <1>1, <6>1 DEF MovesMoney, IInv, TypeOK, WalletRows
            <6>3. Len(ledger'[u]) = Len(ledger[u]) + 1
              BY <1>3, <1>4, <5>2
            <6>4. wallets'[u].version = wallets[u].version + 1 /\ wallets[u].version \in Nat
              BY <5>2, <6>2
            <6> QED BY <3>2, <6>3, <6>4
          <5> QED BY <5>1, <5>2
        <4> QED BY <4>4, <4>5, <4>6
      <3>4. CASE u = w /\ i = n
        <4>1. t = id
          BY <1>1, <1>4, <2>7, <3>4
        <4>2. wallets'[u].version = v /\ Len(ledger'[u]) = n /\ n + (v - n) = v
          BY <1>1, <1>4, <3>4 DEF MovesMoney
        <4>3. Announced(t)' = Announced(id)'
          BY <4>1
        <4> QED BY <2>3, <3>4, <4>2, <4>3
      <3> QED BY <1>4, <3>2, <3>3, <3>4
    <2>8. MovementsTold'
      <3>1. \A u \in Wallets : \A i \in 1..Len(ledger'[u]) : \A t :
               t = ledger'[u][i].tx =>
                  { f.version : f \in { g \in outbox' : g.tx = t /\ g.version > 0 } }
                     = {i + (wallets'[u].version - Len(ledger'[u]))}
        BY <2>7 DEF Announced
      <3> QED BY <3>1 DEF MovementsTold, Announced
    <2>9. ChangesHaveEntries'
      BY <1>5, <2>1, <2>2 DEF MoneyInv, ChangesHaveEntries
    <2> QED BY <2>5, <2>6, <2>8, <2>9

  <1>9. JournalMirrorsLedger'
    <2> DEFINE mine == [tx |-> id, account |-> WalletAccount(w), dir |-> e.dir, amount |-> e.amount]
               other == [tx |-> id, account |-> book, amount |-> e.amount,
                         dir |-> IF e.dir = "DEBIT" THEN "CREDIT" ELSE "DEBIT"]
    <2>1. /\ journal' = journal \cup {mine, other} /\ book # WalletAccount(w)
          /\ mine.tx = id /\ other.tx = id /\ mine.account = WalletAccount(w) /\ other.account = book
          /\ mine.dir = e.dir /\ mine.amount = e.amount /\ other.amount = e.amount
          /\ other.dir = IF e.dir = "DEBIT" THEN "CREDIT" ELSE "DEBIT"
      BY DEF MovesMoney
    <2> HIDE DEF mine, other
    <2>2. other.dir # mine.dir /\ other.account # mine.account
      BY <2>1
    <2>3. { l \in journal' : l.tx = id } = {mine, other}
      BY <1>2, <2>1
    <2>4. ASSUME NEW i \in AllIds \ {id}
          PROVE  { l \in journal' : l.tx = i } = { l \in journal : l.tx = i }
      BY <2>1
    <2>5. ASSUME NEW i \in AllIds
          PROVE  LET legs == { l \in journal' : l.tx = i }
                 IN  IF Entries(i)' = {} THEN legs = {}
                     ELSE \A p \in Entries(i)' : \E m, o \in legs :
                             /\ legs = {m, o}
                             /\ m.account = WalletAccount(p[1]) /\ o.account # m.account
                             /\ m.dir = EntryAt(p)'.dir /\ o.dir # m.dir
                             /\ m.amount = EntryAt(p)'.amount /\ o.amount = m.amount
      <3>1. CASE i = id
        <4>1. ASSUME NEW p \in Entries(id)'
              PROVE p[1] = w /\ EntryAt(p)' = e
          BY <1>5, <4>1
        <4> QED BY <1>5, <2>1, <2>2, <2>3, <3>1, <4>1
      <3>2. CASE i # id
        <4>1. /\ Entries(i)' = Entries(i) /\ \A p \in Entries(i) : EntryAt(p)' = EntryAt(p)
              /\ { l \in journal' : l.tx = i } = { l \in journal : l.tx = i }
          BY <1>5, <2>4, <3>2
        <4> QED BY <4>1 DEF MoneyInv, JournalMirrorsLedger
      <3> QED BY <3>1, <3>2
    <2> QED BY <2>5 DEF JournalMirrorsLedger
  <1>10. ReversalUndoes'
    <2> SUFFICES ASSUME NEW i \in AllIds, NEW t \in Reversals(i)'
                 PROVE  (/\ txs[i].status = "PROCESSED" /\ txs[t].body.round = txs[i].body.round
                         /\ \A p \in Entries(i), q \in Entries(t) :
                               /\ p[1] = q[1] /\ p[2] < q[2]
                               /\ EntryAt(p).amount = EntryAt(q).amount
                               /\ EntryAt(p).dir # EntryAt(q).dir)'
      BY DEF ReversalUndoes
    <2>1. t \in AllIds /\ txs'[t].refId = i /\ RequiresReference(txs'[t].body.kind)
          /\ txs'[t].status = "PROCESSED"
      BY DEF Reversals, RequiresReference
    <2>2. CASE t # id
      <3>1. t \in Reversals(i) /\ txs'[t] = txs[t]
        BY <1>1, <2>1, <2>2 DEF Reversals
      <3>2. /\ txs[i].status = "PROCESSED" /\ txs[t].body.round = txs[i].body.round
            /\ \A p \in Entries(i), q \in Entries(t) :
                  /\ p[1] = q[1] /\ p[2] < q[2]
                  /\ EntryAt(p).amount = EntryAt(q).amount
                  /\ EntryAt(p).dir # EntryAt(q).dir
        BY <3>1 DEF MoneyInv, ReversalUndoes
      <3>3. i # id /\ txs'[i] = txs[i]
        BY <1>1, <1>6, <3>2
      <3>4. /\ Entries(i)' = Entries(i) /\ Entries(t)' = Entries(t)
            /\ \A p \in Entries(i) : EntryAt(p)' = EntryAt(p)
            /\ \A p \in Entries(t) : EntryAt(p)' = EntryAt(p)
        BY <1>5, <2>2, <3>3
      <3> QED BY <3>1, <3>2, <3>3, <3>4
    <2>3. CASE t = id
      <3>1. /\ row.refId = i /\ txs[i].status = "PROCESSED" /\ RequiresReference(row.body.kind)
            /\ ReferenceVerdict(row.body, txs[i]).kind = "PROCESS"
        BY <1>1, <2>1, <2>3 DEF MovesMoney
      <3>2. SameOperation(row.body, txs[i].body)
        BY <3>1, VerdictSays
      <3>3. i # id /\ txs'[i] = txs[i] /\ Entries(i)' = Entries(i)
        BY <1>1, <1>5, <1>6, <3>1
      <3>4. txs[i].body.wallet = w /\ txs[i].body.amount = e.amount /\ txs[i].body.round = row.body.round
        BY <1>1, <3>2 DEF SameOperation
      <3>5. ASSUME NEW p \in Entries(i)
            PROVE  p[1] = w /\ p[2] < n /\ EntryAt(p)'.amount = e.amount /\ EntryAt(p)'.dir # e.dir
        <4>1. txs[i].body.kind # "LOSS"
          BY <3>1, <3>5 DEF MoneyInv, MoneyMovedOnce
        <4>2. PICK k \in DOMAIN ledger[w] : Entries(i) = {<<w, k>>} /\ ledger[w][k].amount = e.amount
          BY <3>1, <3>4, <4>1 DEF MoneyInv, MoneyMovedOnce
        <4>3. p[1] = w /\ p[2] = k
          BY <3>5, <4>2
        <4>4. EntryAt(p) = ledger[w][k]
          BY <4>3 DEF EntryAt
        <4>5. EntryAt(p).dir = MovedTo(txs[i])
          BY <3>5 DEF MoneyInv, DirectionsKept
        <4>6. EntryAt(p)' = EntryAt(p)
          BY <1>5, <3>5
        <4>7. MovedTo(row) # MovedTo(txs[i])
          BY <3>1, Opposite
        <4> QED BY <1>1, <1>4, <4>2, <4>3, <4>4, <4>5, <4>6, <4>7
      <3>6. ASSUME NEW q \in Entries(id)' PROVE q[1] = w /\ q[2] = n /\ EntryAt(q)' = e
        BY <1>5, <3>6
      <3> QED BY <1>1, <2>3, <3>1, <3>3, <3>4, <3>5, <3>6
    <2> QED BY <2>2, <2>3
  <1>11. DirectionsKept'
    <2> SUFFICES ASSUME NEW i \in AllIds, NEW p \in Entries(i)' PROVE EntryAt(p)'.dir = MovedTo(txs[i])'
      BY DEF DirectionsKept
    <2>1. CASE i # id
      <3>1. p \in Entries(i) /\ EntryAt(p)' = EntryAt(p)
        BY <1>5, <2>1
      <3>2. MovedTo(txs[i])' = MovedTo(txs[i])
        BY <1>1, <2>1, <3>1, DirectionStays
      <3> QED BY <3>1, <3>2 DEF MoneyInv, DirectionsKept
    <2>2. CASE i = id
      <3>1. EntryAt(p)' = e
        BY <1>5, <2>2
      <3>2. RequiresReference(row.body.kind) => txs'[row.refId] = txs[row.refId]
        BY <1>1, <1>6 DEF MovesMoney
      <3>3. MovedTo(txs[i])' = MovedTo(row)
        BY <1>1, <2>2, <3>2 DEF MovedTo
      <3> QED BY <1>1, <3>1, <3>3
    <2> QED BY <2>1, <2>2
  <1> QED BY <1>7, <1>8, <1>9, <1>10, <1>11 DEF MoneyInv, EventsTellState

-----------------------------------------------------------------------------
(* Every commit is one of these.                                           *)

\* Where rows, ledger, journal and outbox stay, and with them the wallet of every
\* ledger that is not empty, MoneyInv stays.
LEMMA MoneyUnmoved ==
  ASSUME MoneyInv, UNCHANGED <<txs, ledger, journal, outbox>>,
         \A w \in Wallets : wallets'[w] = wallets[w] \/ (ledger[w] = <<>>)
  PROVE  MoneyInv'
  <1>1. \A i : Entries(i)' = Entries(i)
    BY DEF Entries
  <1>2. \A p : EntryAt(p)' = EntryAt(p)
    BY DEF EntryAt
  <1>3. \A i : Reversals(i)' = Reversals(i)
    BY DEF Reversals
  <1>4. \A i : Told(i)' = Told(i) /\ Announced(i)' = Announced(i)
    BY DEF Told, Announced
  <1>5. MoneyMovedOnce' /\ ChangesHaveEntries'
    BY <1>1 DEF MoneyInv, MoneyMovedOnce, ChangesHaveEntries
  <1>6. JournalMirrorsLedger'
    BY <1>1, <1>2 DEF MoneyInv, JournalMirrorsLedger
  <1>7. OutcomesTold' /\ ParkingTold'
    BY <1>4 DEF MoneyInv, EventsTellState, OutcomesTold, ParkingTold, Parked
  <1>8. MovementsTold'
    <2>1. Len(<<>>) = 0
      OBVIOUS
    <2>2. \A w \in Wallets : \A i \in 1..Len(ledger[w]) :
             { f.version : f \in { g \in outbox : g.tx = ledger[w][i].tx /\ g.version > 0 } }
                = {i + (wallets[w].version - Len(ledger[w]))}
      BY DEF MoneyInv, EventsTellState, MovementsTold, Announced
    <2>3. \A w \in Wallets : \A i \in 1..Len(ledger[w]) : wallets'[w] = wallets[w]
      BY <2>1
    <2> QED BY <2>2, <2>3 DEF MovementsTold, Announced
  <1>9. ReversalUndoes'
    BY <1>1, <1>2, <1>3 DEF MoneyInv, ReversalUndoes
  <1>10. DirectionsKept'
    BY <1>1, <1>2 DEF MoneyInv, DirectionsKept, MovedTo
  <1> QED BY <1>5, <1>6, <1>7, <1>8, <1>9, <1>10 DEF MoneyInv, EventsTellState

\* What a settlement writes besides the row.
LEMMA SettlementEffects ==
  ASSUME NEW id, NEW row \in Rows \cup {NoTx}, NEW w, NEW d \in Plans,
         NEW s, s = Settlement(id, row, w, d)
  PROVE  /\ s.moved \in BOOLEAN
         /\ s.moved => s = Movement(id, row, w, d.dir)
         /\ ~s.moved => s.legs = {} /\ s.events = {Event(OutcomeEvent(s.row.status), id)}
         /\ s.row.status = "PROCESSED" /\ ~s.moved => d.kind = "PROCESS" /\ d.dir = None
  <1>1. ASSUME NEW r, NEW ev, s = [NoWrites EXCEPT !.row = r, !.events = ev]
        PROVE  s.row = r /\ s.moved = FALSE /\ s.legs = {} /\ s.events = ev
    BY <1>1 DEF NoWrites
  <1>2. /\ OutcomeEvent("PROCESSED") = "WagerTransactionProcessed"
        /\ OutcomeEvent("REJECTED") = "WagerTransactionRejected"
        /\ OutcomeEvent("PENDING_REFERENCE") = "WagerTransactionPendingReference"
    BY DEF OutcomeEvent
  <1>3. CASE d.kind = "PENDING_REFERENCE"
    <2>1. s.row = MarkPendingReference(row) /\ s.moved = FALSE /\ s.legs = {}
          /\ s.events = {Event("WagerTransactionPendingReference", id)}
      BY <1>1, <1>3 DEF Settlement
    <2>2. s.row.status = "PENDING_REFERENCE"
      BY <2>1, Marked
    <2> QED BY <1>2, <1>3, <2>1, <2>2
  <1>4. ASSUME NEW code, s = Rejection(id, row, code)
        PROVE  /\ s.row.status = "REJECTED" /\ s.moved = FALSE /\ s.legs = {}
               /\ s.events = {Event("WagerTransactionRejected", id)}
    <2>1. s.row = MarkRejected(row, code) /\ s.moved = FALSE /\ s.legs = {}
          /\ s.events = {Event("WagerTransactionRejected", id)}
      BY <1>1, <1>4 DEF Rejection
    <2> QED BY <2>1, Marked
  <1>5. CASE d.kind = "REJECT"
    <2>1. s = Rejection(id, row, d.failure)
      BY <1>5 DEF Settlement
    <2> QED BY <1>2, <1>4, <1>5, <2>1
  <1>6. CASE d.kind = "PROCESS" /\ d.dir = None
    <2>1. s.row = MarkProcessed(row, w.balance) /\ s.moved = FALSE /\ s.legs = {}
          /\ s.events = {Event("WagerTransactionProcessed", id)}
      BY <1>1, <1>6 DEF Settlement
    <2>2. s.row.status = "PROCESSED"
      BY <2>1, Marked
    <2> QED BY <1>2, <1>6, <2>1, <2>2
  <1>7. CASE d.kind = "PROCESS" /\ d.dir # None /\ Insufficient(w, d.dir, row.body.amount)
    <2>1. PICK code : s = Rejection(id, row, code)
      BY <1>7 DEF Settlement
    <2> QED BY <1>2, <1>4, <1>7, <2>1
  <1>8. CASE d.kind = "PROCESS" /\ d.dir # None /\ ~Insufficient(w, d.dir, row.body.amount)
    <2>1. s = Movement(id, row, w, d.dir)
      BY <1>8 DEF Settlement
    <2>2. s.moved = TRUE
      BY <2>1 DEF Movement
    <2> QED BY <1>8, <2>1, <2>2
  <1> QED BY <1>3, <1>5, <1>6, <1>7, <1>8 DEF Plans

\* The parts of a movement.
LEMMA MovementSays ==
  ASSUME NEW id \in AllIds, NEW row \in Rows, NEW w \in WalletRows, NEW dir \in Directions,
         NEW s, s = Movement(id, row, w, dir),
         NEW e, e = NewWalletLedgerEntry(id, dir, row.body.amount, w.balance)
  PROVE  /\ s.entries = <<e>> /\ e.tx = id /\ e.amount = row.body.amount /\ e.dir = dir
         /\ e.after = s.row.result /\ s.wallet.version = w.version + 1
         /\ s.row.body = row.body /\ s.row.refId = row.refId /\ s.row.status = "PROCESSED"
         /\ s.legs = { [tx |-> id, account |-> WalletAccount(row.body.wallet), dir |-> e.dir,
                        amount |-> e.amount],
                       [tx |-> id, account |-> ProviderAccount(row.body.provider), amount |-> e.amount,
                        dir |-> IF e.dir = "DEBIT" THEN "CREDIT" ELSE "DEBIT"] }
         /\ s.events = {Event("WagerTransactionProcessed", id), BalanceChanged(id, w.version + 1)}
  <1> DEFINE a == row.body.amount
             after == applyMovement(w, dir, a)
  <1>1. /\ s.entries = <<e>> /\ s.row = MarkProcessed(row, after.balance) /\ s.wallet = after
        /\ s.legs = recordDoubleEntry(id, row.body, dir)
        /\ s.events = {Event("WagerTransactionProcessed", id), BalanceChanged(id, after.version)}
    BY DEF Movement
  <1>2. /\ e.tx = id /\ e.amount = a /\ e.dir = dir
        /\ e.after = IF dir = "DEBIT" THEN w.balance - a ELSE w.balance + a
    BY DEF NewWalletLedgerEntry
  <1>3. /\ after.balance = IF dir = "DEBIT" THEN w.balance - a ELSE w.balance + a
        /\ after.version = w.version + 1
    BY DEF applyMovement, WalletRows
  <1>4. recordDoubleEntry(id, row.body, dir) =
           { [tx |-> id, account |-> WalletAccount(row.body.wallet), dir |-> dir, amount |-> a],
             [tx |-> id, account |-> ProviderAccount(row.body.provider), amount |-> a,
              dir |-> IF dir = "DEBIT" THEN "CREDIT" ELSE "DEBIT"] }
    <2>1. CASE dir = "DEBIT"
      BY <2>1 DEF recordDoubleEntry, NewMovement
    <2>2. CASE dir = "CREDIT"
      BY <2>2 DEF recordDoubleEntry, NewMovement
    <2> QED BY <2>1, <2>2 DEF Directions
  <1> HIDE DEF after
  <1>5. s.row.body = row.body /\ s.row.refId = row.refId /\ s.row.status = "PROCESSED"
        /\ s.row.result = after.balance
    BY <1>1, Marked
  <1> QED BY <1>1, <1>2, <1>3, <1>4, <1>5

\* A wallet's account is neither the platform's nor a provider's.
LEMMA AccountsDiffer ==
  ASSUME NEW w, NEW p
  PROVE  PlatformFunding # WalletAccount(w) /\ ProviderAccount(p) # WalletAccount(w)
  <1>1. PlatformFunding[1] = "platform" /\ WalletAccount(w)[1] = "wallet" /\ ProviderAccount(p)[1] = "provider"
    BY DEF PlatformFunding, WalletAccount, ProviderAccount
  <1> QED BY <1>1

\* A settlement that moves money.
LEMMA SettlingMoves ==
  ASSUME IInv, RowInv, NEW x \in Workers, pc[x] = "commit", ApplyWrites(x), Settles(x),
         job[x].writes.moved
  PROVE  \E id, row, w, e, v, book : MovesMoney(id, row, w, e, v, book)
  <1> DEFINE j == job[x]
             w == j.wid
             id == j.id
             s == j.writes
             e == NewWalletLedgerEntry(id, j.plan.dir, j.row.body.amount, j.seen.balance)
             v == j.seen.version + 1
             book == ProviderAccount(j.row.body.provider)
  <1>1. /\ j \in Jobs /\ j.row \in Rows /\ w = j.row.body.wallet /\ w \in Wallets
        /\ j.seen = wallets[w] /\ pc[x] \in AfterSave
    BY SettlingHolds DEF AfterSave
  <1>2. j.plan \in Plans /\ j.seen \in WalletRows /\ s \in Writes /\ id \in Ids
    BY <1>1 DEF Jobs
  <1>3. s = Settlement(id, j.row, j.seen, j.plan)
    BY <1>1 DEF RowInv, RowWorker, Buffers
  <1>4. s = Movement(id, j.row, j.seen, j.plan.dir) /\ j.plan.kind = "PROCESS" /\ j.plan.dir # None
    <2> DEFINE S == Settlement(id, j.row, j.seen, j.plan)
    <2>1. j.row \in Rows \cup {NoTx}
      BY <1>1
    <2>2. s = Movement(id, j.row, j.seen, j.plan.dir)
      BY <1>2, <1>3, <2>1, SettlementEffects
    <2>3. S.moved => j.plan.kind = "PROCESS" /\ j.plan.dir # None
      BY <1>2, <2>1, SettledRow
    <2> QED BY <1>3, <2>2, <2>3
  <1>5. j.plan.dir \in Directions
    BY <1>2, <1>4 DEF Plans
  <1>6. j.mode \in {"insert", "update"}
    BY DEF Settles
  <1>7. /\ id \in AllIds /\ s.row \in Rows /\ txs' = [txs EXCEPT ![id] = s.row]
        /\ ~Stored(id) \/ Parked(id)
    BY <1>6, CommitRow
  <1>8. WritesRow(id, s.row)
    BY <1>7 DEF WritesRow, Stored, Parked, IsTerminal
  <1>9. /\ s.entries = <<e>> /\ e.tx = id /\ e.amount = j.row.body.amount /\ e.dir = j.plan.dir
        /\ e.after = s.row.result /\ s.wallet.version = v
        /\ s.row.body = j.row.body /\ s.row.refId = j.row.refId /\ s.row.status = "PROCESSED"
        /\ s.legs = { [tx |-> id, account |-> WalletAccount(w), dir |-> e.dir, amount |-> e.amount],
                      [tx |-> id, account |-> book, amount |-> e.amount,
                       dir |-> IF e.dir = "DEBIT" THEN "CREDIT" ELSE "DEBIT"] }
        /\ s.events = {Event("WagerTransactionProcessed", id), BalanceChanged(id, v)}
    <2>1. PICK d : d = j.plan.dir
      OBVIOUS
    <2>2. PICK r : r = j.row
      OBVIOUS
    <2>3. PICK u : u = j.seen
      OBVIOUS
    <2>4. /\ id \in AllIds /\ r \in Rows /\ u \in WalletRows /\ d \in Directions
          /\ s = Movement(id, r, u, d) /\ e = NewWalletLedgerEntry(id, d, r.body.amount, u.balance)
      BY <1>1, <1>2, <1>4, <1>5, <1>7, <2>1, <2>2, <2>3
    <2> HIDE DEF e, s, id
    <2>5. /\ s.entries = <<e>> /\ e.tx = id /\ e.amount = r.body.amount /\ e.dir = d
          /\ e.after = s.row.result /\ s.wallet.version = u.version + 1
          /\ s.row.body = r.body /\ s.row.refId = r.refId /\ s.row.status = "PROCESSED"
          /\ s.legs = { [tx |-> id, account |-> WalletAccount(r.body.wallet), dir |-> e.dir,
                         amount |-> e.amount],
                        [tx |-> id, account |-> ProviderAccount(r.body.provider), amount |-> e.amount,
                         dir |-> IF e.dir = "DEBIT" THEN "CREDIT" ELSE "DEBIT"] }
          /\ s.events = {Event("WagerTransactionProcessed", id), BalanceChanged(id, u.version + 1)}
      BY <2>4, MovementSays
    <2> QED BY <1>1, <2>1, <2>2, <2>3, <2>5
  <1>10. e \in LedgerEntries /\ v \in Nat \ {0}
    <2>1. s.entries \in Seq(LedgerEntries) /\ v \in Nat \ {0}
      BY <1>2 DEF Writes, WalletRows
    <2> HIDE DEF e, s
    <2>2. <<e>> \in Seq(LedgerEntries)
      BY <1>9, <2>1
    <2> QED BY <2>1, <2>2
  <1> HIDE DEF e
  <1>11. /\ wallets' = [wallets EXCEPT ![w] = s.wallet]
         /\ ledger' = [ledger EXCEPT ![w] = @ \o <<e>>]
         /\ journal' = journal \cup s.legs /\ outbox' = outbox \cup s.events
    BY <1>9 DEF ApplyWrites
  <1>12. Planned(x) /\ Settles(x) /\ pc[x] \in {"reversal", "save"} \cup AfterSave
    BY <1>1 DEF RowInv, RowWorker
  <1>13. /\ j.row.body.kind # "LOSS" /\ MovedTo(s.row) = j.plan.dir
         /\ RequiresReference(s.row.body.kind) =>
               /\ s.row.refId \in AllIds /\ txs[s.row.refId].status = "PROCESSED"
               /\ ReferenceVerdict(s.row.body, txs[s.row.refId]).kind = "PROCESS"
    <2>1. CASE RequiresReference(j.row.body.kind)
      <3>1. j.row.refId \in AllIds /\ j.plan = ReferenceVerdict(j.row.body, txs[j.row.refId])
        BY <1>4, <1>12, <2>1 DEF Planned
      <3>2. txs[j.row.refId].status = "PROCESSED"
        BY <1>4, <3>1, VerdictSays, RowStatus DEF IInv
      <3> QED BY <1>4, <1>9, <2>1, <3>1, <3>2 DEF MovedTo, RequiresReference
    <2>2. CASE ~RequiresReference(j.row.body.kind)
      <3>1. j.plan = Process(OwnDirection(j.row.body.kind))
        BY <1>4, <1>12, <2>2 DEF Planned
      <3>2. j.plan.dir = OwnDirection(j.row.body.kind)
        BY <3>1 DEF Process
      <3>3. j.row.body.kind \in {"BET", "WIN"}
        BY <1>4, <3>2 DEF OwnDirection
      <3> QED BY <1>9, <2>2, <3>2, <3>3 DEF MovedTo
    <2> QED BY <2>1, <2>2
  <1>14. wallets'[w].version = v /\ v = wallets[w].version + 1
         /\ \A u \in Wallets \ {w} : wallets'[u] = wallets[u]
    BY <1>1, <1>9, <1>11 DEF IInv, TypeOK
  <1>15. book # WalletAccount(w)
    BY AccountsDiffer
  <1> HIDE DEF id, w, s, v, book, j
  <1>16. MovesMoney(id, s.row, w, e, v, book)
    <2>1. /\ s.row.status = "PROCESSED" /\ s.row.body.kind # "LOSS" /\ s.row.body.wallet = w
          /\ e.amount = s.row.body.amount /\ e.after = s.row.result /\ e.dir = MovedTo(s.row)
      BY <1>1, <1>9, <1>13
    <2>2. /\ journal' = journal \cup
                { [tx |-> id, account |-> WalletAccount(w), dir |-> e.dir, amount |-> e.amount],
                  [tx |-> id, account |-> book, amount |-> e.amount,
                   dir |-> IF e.dir = "DEBIT" THEN "CREDIT" ELSE "DEBIT"] }
          /\ outbox' = outbox \cup {Event("WagerTransactionProcessed", id), BalanceChanged(id, v)}
      BY <1>9, <1>11
    <2>3. w \in Wallets /\ e.tx = id
      BY <1>1, <1>9
    <2> QED BY <1>8, <1>10, <1>11, <1>13, <1>14, <1>15, <2>1, <2>2, <2>3 DEF MovesMoney
  <1> QED BY <1>16

\* A settlement that moves none, and the end of recordPermanentFailure.
LEMMA SettlingRecords ==
  ASSUME IInv, RowInv, NEW x \in Workers, pc[x] = "commit", ApplyWrites(x), ~Opens(x),
         job[x].mode \in {"insert", "update"}, ~job[x].writes.moved
  PROVE  RecordsRow(job[x].id, job[x].writes.row)
  <1> DEFINE j == job[x]
             id == j.id
             s == j.writes
  <1>1. /\ id \in AllIds /\ s.row \in Rows /\ txs' = [txs EXCEPT ![id] = s.row]
        /\ ~Stored(id) \/ Parked(id)
    BY CommitRow
  <1>2. WritesRow(id, s.row)
    BY <1>1 DEF WritesRow, Stored, Parked, IsTerminal
  <1>3. /\ wallets' = wallets /\ ledger' = ledger
        /\ journal' = journal \cup s.legs /\ outbox' = outbox \cup s.events
    BY DEF ApplyWrites
  <1>4. /\ s.legs = {} /\ s.events = {Event(OutcomeEvent(s.row.status), id)}
        /\ s.row.status # "PENDING"
        /\ s.row.status = "PROCESSED" => s.row.body.kind = "LOSS"
    <2>1. CASE j.failing
      <3>1. Buffers(x) /\ j \in Jobs
        BY DEF RowInv, RowWorker, IInv, TypeOK
      <3>2. s = [NoWrites EXCEPT !.row = MarkFailed(j.row, "INFRASTRUCTURE_FAILURE"),
                                 !.events = {Event("WagerTransactionRejected", id)}]
        BY <2>1, <3>1 DEF Buffers
      <3>3. s.legs = {} /\ s.events = {Event("WagerTransactionRejected", id)}
            /\ s.row = MarkFailed(j.row, "INFRASTRUCTURE_FAILURE")
        BY <3>2 DEF NoWrites
      <3>4. j.row \in Rows \cup {NoTx}
        BY <3>1 DEF Jobs
      <3>5. s.row.status = "FAILED"
        BY <3>3, <3>4, Marked
      <3>6. OutcomeEvent("FAILED") = "WagerTransactionRejected"
        BY DEF OutcomeEvent
      <3> QED BY <3>3, <3>5, <3>6
    <2>2. CASE ~j.failing
      <3>1. Settles(x) /\ pc[x] \in AfterSave
        BY <2>2 DEF Settles, AfterSave
      <3>2. j \in Jobs /\ j.row \in Rows /\ j.plan \in Plans /\ Planned(x) /\ Buffers(x)
        BY <3>1, SettlingHolds DEF Jobs, RowInv, RowWorker
      <3>3. s = Settlement(id, j.row, j.seen, j.plan)
        BY <3>1, <3>2 DEF Buffers
      <3>4. /\ s.legs = {} /\ s.events = {Event(OutcomeEvent(s.row.status), id)}
            /\ s.row.status = "PROCESSED" => j.plan.kind = "PROCESS" /\ j.plan.dir = None
        <4>1. PICK d : d = j.plan
          OBVIOUS
        <4>2. PICK r : r = j.row
          OBVIOUS
        <4>3. PICK u : u = j.seen
          OBVIOUS
        <4>4. PICK w : w = s
          OBVIOUS
        <4>5. r \in Rows \cup {NoTx} /\ d \in Plans /\ w = Settlement(id, r, u, d) /\ ~w.moved
          BY <3>2, <3>3, <4>1, <4>2, <4>3, <4>4
        <4> HIDE DEF s, j, id
        <4>6. ~w.moved => w.legs = {} /\ w.events = {Event(OutcomeEvent(w.row.status), id)}
          BY ONLY <4>5, SettlementEffects
        <4>7. w.row.status = "PROCESSED" /\ ~w.moved => d.kind = "PROCESS" /\ d.dir = None
          BY ONLY <4>5, SettlementEffects
        <4> QED BY <4>1, <4>4, <4>5, <4>6, <4>7
      <3>5. s.row.status # "PENDING" /\ s.row.body = j.row.body
        BY <3>2, <3>3, SettledRow
      <3>6. ASSUME s.row.status = "PROCESSED" PROVE j.row.body.kind = "LOSS"
        <4>1. j.plan.kind = "PROCESS" /\ j.plan.dir = None
          BY <3>4, <3>6
        <4>2. ~RequiresReference(j.row.body.kind)
          <5>1. ASSUME RequiresReference(j.row.body.kind) PROVE FALSE
            <6>1. j.plan = ReferenceVerdict(j.row.body, txs[j.row.refId])
              BY <3>1, <3>2, <4>1, <5>1 DEF Planned
            <6> QED BY <4>1, <6>1, VerdictSays
          <5> QED BY <5>1
        <4>3. j.plan = Process(OwnDirection(j.row.body.kind))
          BY <3>1, <3>2, <4>1, <4>2 DEF Planned
        <4>4. OwnDirection(j.row.body.kind) = None
          BY <4>1, <4>3 DEF Process
        <4>5. j.row.body.kind \notin {"BET", "WIN"}
          BY <4>4 DEF OwnDirection, None
        <4>6. CASE j.mode = "insert"
          <5>1. ValidExternal(j.row.body)
            BY <3>1, <4>6, Inserting
          <5> QED BY <4>2, <4>5, <5>1 DEF ValidExternal, Kinds, RequiresReference
        <4>7. CASE j.mode = "update"
          <5>1. Waiting(Unlinked(j.row))
            BY <3>1, <4>7, Updating
          <5>2. Unlinked(j.row).body = j.row.body
            BY <3>2 DEF Unlinked, Rows
          <5> QED BY <4>2, <5>1, <5>2 DEF Waiting
        <4> QED BY <4>6, <4>7
      <3> QED BY <3>4, <3>5, <3>6
    <2> QED BY <2>1, <2>2
  <1> HIDE DEF id, s
  <1>5. RecordsRow(id, s.row)
    BY <1>2, <1>3, <1>4 DEF RecordsRow
  <1> QED BY <1>5 DEF id, s

\* An opening with a balance.
LEMMA OpeningMoves ==
  ASSUME IInv, RowInv, NEW x \in Workers, pc[x] = "commit", ApplyWrites(x), Opens(x),
         Accounts[job[x].wid].initial # 0
  PROVE  \E id, row, w, e, v, book : MovesMoney(id, row, w, e, v, book)
  <1> DEFINE w == job[x].wid
             n == Accounts[w].initial
             s == OpeningWrites(w, Accounts[w])
             row == NewOpening(w, Accounts[w])
             e == NewWalletLedgerEntry(w, "CREDIT", n, 0)
  <1>1. /\ w \in Wallets /\ ~wallets[w].open /\ ~Stored(w) /\ job[x].id = w
        /\ job[x].writes = s /\ job[x].mode = "insert" /\ s.moved = TRUE
    BY OpeningCommit
  <1>2. w \in AllIds /\ n \in Amounts /\ s.row \in Rows /\ s \in Writes
    BY <1>1, OpeningTyped DEF AllIds
  <1>3. /\ s.row = row /\ s.entries = <<e>> /\ s.wallet = NewWallet(n)
        /\ s.legs = NewMovement(w, PlatformFunding, WalletAccount(w), n)
        /\ s.events = {Event("WagerTransactionProcessed", w), BalanceChanged(w, 1)}
    BY DEF OpeningWrites
  <1>4. /\ e.tx = w /\ e.amount = n /\ e.dir = "CREDIT" /\ e.after = n
    BY <1>2 DEF NewWalletLedgerEntry, Amounts
  <1>5. /\ row.status = "PROCESSED" /\ row.result = n /\ row.body.kind = "OPENING"
        /\ row.body.wallet = w /\ row.body.amount = n
    BY DEF NewOpening, OpeningBody, NoBody
  <1>6. ledger[w] = <<>>
    BY <1>1 DEF IInv, NoLedgerBeforeOpening
  <1>7. e \in LedgerEntries
    <2>1. s.entries \in Seq(LedgerEntries)
      BY <1>2 DEF Writes
    <2> HIDE DEF e, s
    <2>2. <<e>> \in Seq(LedgerEntries)
      BY <1>3, <2>1
    <2> QED BY <2>2
  <1>8. /\ wallets' = [wallets EXCEPT ![w] = s.wallet]
        /\ ledger' = [ledger EXCEPT ![w] = @ \o s.entries] /\ txs' = [txs EXCEPT ![w] = s.row]
        /\ journal' = journal \cup s.legs /\ outbox' = outbox \cup s.events
    BY <1>1 DEF ApplyWrites
  <1> HIDE DEF e, s, row
  <1>9. s.legs = { [tx |-> w, account |-> WalletAccount(w), dir |-> e.dir, amount |-> e.amount],
                   [tx |-> w, account |-> PlatformFunding, amount |-> e.amount,
                    dir |-> IF e.dir = "DEBIT" THEN "CREDIT" ELSE "DEBIT"] }
    BY <1>3, <1>4 DEF NewMovement
  <1>10. WritesRow(w, row)
    BY <1>1, <1>2, <1>3, <1>8 DEF WritesRow, Stored, IsTerminal
  <1>11. MovedTo(row) = "CREDIT" /\ ~RequiresReference(row.body.kind)
    BY <1>5 DEF MovedTo, RequiresReference
  <1>12. wallets'[w].version = 1 /\ \A u \in Wallets \ {w} : wallets'[u] = wallets[u]
    BY <1>1, <1>3, <1>8 DEF NewWallet, IInv, TypeOK
  <1>13. PlatformFunding # WalletAccount(w)
    BY AccountsDiffer
  <1> HIDE DEF w, n
  <1>14. MovesMoney(w, row, w, e, 1, PlatformFunding)
    BY <1>1, <1>3, <1>4, <1>5, <1>6, <1>7, <1>8, <1>9, <1>10, <1>11, <1>12, <1>13 DEF MovesMoney
  <1> QED BY <1>14

\* A commit keeps MoneyInv.
LEMMA CommitMoney ==
  ASSUME IInv, RowInv, MoneyInv, NEW x \in Workers, pc[x] = "commit", ApplyWrites(x)
  PROVE  MoneyInv'
  <1> DEFINE j == job[x]
             s == j.writes
  <1>1. j \in Jobs /\ Buffers(x) /\ Shape(x) /\ pc[x] \in AfterSave
        /\ None \notin {"insert", "update", "attempt"}
    BY DEF RowInv, RowWorker, IInv, WorkerInv, TypeOK, AfterSave, None
  <1>2. CASE Opens(x) /\ Accounts[j.wid].initial = 0
    <2> DEFINE w == j.wid
    <2>1. w \in Wallets /\ ~wallets[w].open /\ s = OpeningWrites(w, Accounts[w]) /\ j.mode = None
      BY <1>2, OpeningCommit
    <2>2. s.moved = TRUE /\ s.entries = <<>> /\ s.legs = {} /\ s.events = {}
      BY <1>2, <2>1 DEF OpeningWrites, NoWrites
    <2>3. ledger[w] = <<>>
      BY <2>1 DEF IInv, NoLedgerBeforeOpening
    <2>4. /\ wallets' = [wallets EXCEPT ![w] = s.wallet] /\ txs' = txs
          /\ ledger' = [ledger EXCEPT ![w] = ledger[w] \o s.entries]
          /\ journal' = journal \cup s.legs /\ outbox' = outbox \cup s.events
      BY <1>1, <2>1, <2>2 DEF ApplyWrites
    <2>5. ledger[w] \o s.entries = ledger[w]
      BY <2>2, <2>3
    <2>6. ledger' = ledger /\ journal' = journal /\ outbox' = outbox
      BY <2>2, <2>4, <2>5 DEF IInv, TypeOK
    <2>7. \A u \in Wallets : wallets'[u] = wallets[u] \/ (ledger[u] = <<>>)
      BY <2>3, <2>4 DEF IInv, TypeOK
    <2> QED BY <2>4, <2>6, <2>7, MoneyUnmoved
  <1>3. CASE Opens(x) /\ Accounts[j.wid].initial # 0
    BY <1>3, OpeningMoves, MovesKeeps
  <1>4. CASE ~Opens(x) /\ j.mode \in {None, "attempt"}
    <2>1. s = NoWrites /\ txs' = txs
      BY <1>1, <1>4, CommitRow DEF Buffers
    <2>2. s.moved = FALSE /\ s.legs = {} /\ s.events = {}
      BY <2>1 DEF NoWrites
    <2>3. wallets' = wallets /\ ledger' = ledger /\ journal' = journal /\ outbox' = outbox
      BY <2>2 DEF ApplyWrites
    <2> QED BY <2>1, <2>3, MoneyUnmoved
  <1>5. CASE ~Opens(x) /\ j.mode \in {"insert", "update"} /\ ~s.moved
    BY <1>5, SettlingRecords, RecordsKeeps
  <1>6. CASE ~Opens(x) /\ j.mode \in {"insert", "update"} /\ s.moved
    <2>1. Settles(x)
      BY <1>1, <1>6 DEF Settles, Shape
    <2> QED BY <1>6, <2>1, SettlingMoves, MovesKeeps
  <1> QED BY <1>1, <1>2, <1>3, <1>4, <1>5, <1>6 DEF Jobs

\* The opened wallets of the initial state have their openings, and nothing else.
LEMMA InitMoney == Init => MoneyInv
  <1> SUFFICES ASSUME Init PROVE MoneyInv
    OBVIOUS
  <1>1. PICK Paid : Paid = { w \in Wallets : w \in Seeded /\ Accounts[w].initial # 0 }
    OBVIOUS
  <1>2. ASSUME NEW w \in Wallets \ Paid
        PROVE  txs[w] = NoTx /\ ledger[w] = <<>> /\ SeedWrites(w).legs = {} /\ SeedWrites(w).events = {}
    <2>1. /\ SeedWrites(w).row = NoTx /\ SeedWrites(w).entries = <<>>
          /\ SeedWrites(w).legs = {} /\ SeedWrites(w).events = {}
      BY <1>1, <1>2 DEF SeedWrites, OpeningWrites, NoWrites
    <2> QED BY <2>1 DEF Init, AllIds
  <1>3. ASSUME NEW w \in Paid
        PROVE  LET n == Accounts[w].initial
               IN  /\ w \in Wallets /\ n \in Amounts /\ txs[w] = NewOpening(w, Accounts[w])
                   /\ ledger[w] = <<NewWalletLedgerEntry(w, "CREDIT", n, 0)>>
                   /\ wallets[w].version = 1
                   /\ SeedWrites(w).legs = NewMovement(w, PlatformFunding, WalletAccount(w), n)
                   /\ SeedWrites(w).events = {Event("WagerTransactionProcessed", w), BalanceChanged(w, 1)}
    <2>1. w \in Wallets /\ SeedWrites(w) = OpeningWrites(w, Accounts[w]) /\ Accounts[w].initial # 0
      BY <1>1, <1>3 DEF SeedWrites
    <2>2. Accounts[w].initial \in Amounts
      BY <2>1, OpeningTyped
    <2>3. /\ SeedWrites(w).row = NewOpening(w, Accounts[w])
          /\ SeedWrites(w).entries = <<NewWalletLedgerEntry(w, "CREDIT", Accounts[w].initial, 0)>>
          /\ SeedWrites(w).wallet = NewWallet(Accounts[w].initial)
          /\ SeedWrites(w).legs = NewMovement(w, PlatformFunding, WalletAccount(w), Accounts[w].initial)
          /\ SeedWrites(w).events = {Event("WagerTransactionProcessed", w), BalanceChanged(w, 1)}
      BY <2>1 DEF OpeningWrites
    <2>4. /\ txs[w] = SeedWrites(w).row /\ ledger[w] = SeedWrites(w).entries
          /\ wallets[w] = SeedWrites(w).wallet
      BY <2>1 DEF Init, AllIds
    <2> QED BY <2>1, <2>2, <2>3, <2>4 DEF NewWallet
  <1>4. \A i \in TxIds : txs[i] = NoTx /\ i \notin Paid
    BY <1>1, WageringAssumption DEF Init, AllIds
  <1>5. ASSUME NEW w \in Paid
        PROVE  LET e == NewWalletLedgerEntry(w, "CREDIT", Accounts[w].initial, 0)
               IN  /\ e.tx = w /\ e.dir = "CREDIT" /\ e.amount = Accounts[w].initial
                   /\ e.after = Accounts[w].initial
                   /\ Len(ledger[w]) = 1 /\ DOMAIN ledger[w] = {1} /\ ledger[w][1] = e
    <2> DEFINE e == NewWalletLedgerEntry(w, "CREDIT", Accounts[w].initial, 0)
    <2>1. /\ e.tx = w /\ e.dir = "CREDIT" /\ e.amount = Accounts[w].initial
          /\ e.after = Accounts[w].initial
      <3>1. Accounts[w].initial \in 0..MaxMoney
        BY <1>1, <1>5, WageringAssumption
      <3> QED BY <3>1, MaxMoneyAssumption DEF NewWalletLedgerEntry
    <2>2. ledger[w] = <<e>>
      BY <1>3, <1>5
    <2> HIDE DEF e
    <2> QED BY <2>1, <2>2 DEF e
  <1>6. \A w \in Wallets \ Paid : DOMAIN ledger[w] = {} /\ Len(ledger[w]) = 0
    BY <1>2
  <1>7. ASSUME NEW i, NEW p PROVE p \in Entries(i) <=> i \in Paid /\ p = <<i, 1>>
    <2>1. p \in Entries(i) <=> \E w \in Wallets : \E k \in DOMAIN ledger[w] : p = <<w, k>> /\ ledger[w][k].tx = i
      BY EntryIn
    <2>2. ASSUME NEW w \in Wallets, NEW k \in DOMAIN ledger[w] PROVE w \in Paid /\ k = 1 /\ ledger[w][k].tx = w
      BY <1>5, <1>6, <2>2
    <2>3. \A w \in Paid : w \in Wallets /\ 1 \in DOMAIN ledger[w] /\ ledger[w][1].tx = w
      BY <1>3, <1>5
    <2> QED BY <2>1, <2>2, <2>3
  <1>8. ASSUME NEW i PROVE /\ i \in Paid => Entries(i) = {<<i, 1>>}
                           /\ i \notin Paid => Entries(i) = {}
    BY <1>7
  <1>9. ASSUME NEW i \in AllIds, i \notin Paid PROVE txs[i] = NoTx
    BY <1>2, <1>4, <1>9 DEF AllIds
  <1>10. ASSUME NEW w \in Paid
         PROVE  /\ txs[w].status = "PROCESSED" /\ txs[w].body.kind = "OPENING" /\ txs[w].body.wallet = w
                /\ txs[w].body.amount = Accounts[w].initial /\ txs[w].result = Accounts[w].initial
    <2>1. txs[w] = NewOpening(w, Accounts[w])
      BY <1>3, <1>10
    <2>2. LET o == NewOpening(w, Accounts[w])
          IN  /\ o.status = "PROCESSED" /\ o.result = Accounts[w].initial /\ o.body.kind = "OPENING"
              /\ o.body.wallet = w /\ o.body.amount = Accounts[w].initial
      BY DEF NewOpening, OpeningBody, NoBody
    <2> QED BY <2>1, <2>2
  <1>11. NoTx.status = "ABSENT" /\ NoTx.body.kind = "LOSS"
    BY DEF NoTx, NoBody
  <1>12. MoneyMovedOnce
    <2>1. ASSUME NEW i \in AllIds
          PROVE  IF txs[i].status = "PROCESSED" /\ txs[i].body.kind # "LOSS"
                 THEN \E k \in DOMAIN ledger[txs[i].body.wallet] :
                         /\ Entries(i) = {<<txs[i].body.wallet, k>>}
                         /\ ledger[txs[i].body.wallet][k].amount = txs[i].body.amount
                         /\ ledger[txs[i].body.wallet][k].after = txs[i].result
                 ELSE Entries(i) = {}
      <3>1. CASE i \in Paid
        <4>1. /\ 1 \in DOMAIN ledger[i] /\ Entries(i) = {<<i, 1>>} /\ ledger[i][1].amount = txs[i].body.amount
              /\ ledger[i][1].after = txs[i].result /\ txs[i].body.wallet = i
          BY <1>5, <1>8, <1>10, <3>1
        <4> QED BY <1>10, <3>1, <4>1
      <3>2. CASE i \notin Paid
        BY <1>8, <1>9, <1>11, <3>2
      <3> QED BY <3>1, <3>2
    <2> QED BY <2>1 DEF MoneyMovedOnce
  <1>13. \A l : l \in journal <=> \E w \in Paid : l \in SeedWrites(w).legs
    <2>1. \A l : l \in journal <=> \E w \in Wallets : l \in SeedWrites(w).legs
      BY DEF Init
    <2> QED BY <1>2, <1>3, <2>1
  <1>14. \A f : f \in outbox <=> \E w \in Paid : f \in SeedWrites(w).events
    <2>1. \A f : f \in outbox <=> \E w \in Wallets : f \in SeedWrites(w).events
      BY DEF Init
    <2> QED BY <1>2, <1>3, <2>1
  <1>15. JournalMirrorsLedger
    <2>1. ASSUME NEW w \in Paid
          PROVE  \E mine, other \in SeedWrites(w).legs :
                    /\ SeedWrites(w).legs = {mine, other} /\ mine.tx = w /\ other.tx = w
                    /\ mine.account = WalletAccount(w) /\ other.account # mine.account
                    /\ mine.dir = "CREDIT" /\ other.dir # mine.dir
                    /\ mine.amount = Accounts[w].initial /\ other.amount = mine.amount
      <3> DEFINE n == Accounts[w].initial
                 mine == [tx |-> w, account |-> WalletAccount(w), dir |-> "CREDIT", amount |-> n]
                 other == [tx |-> w, account |-> PlatformFunding, dir |-> "DEBIT", amount |-> n]
      <3>1. SeedWrites(w).legs = {mine, other}
        BY <1>3, <2>1 DEF NewMovement
      <3>2. /\ mine.tx = w /\ other.tx = w /\ mine.account = WalletAccount(w)
            /\ other.account # mine.account /\ mine.dir = "CREDIT" /\ other.dir # mine.dir
            /\ mine.amount = n /\ other.amount = n
        BY AccountsDiffer
      <3> HIDE DEF mine, other
      <3> QED BY <3>1, <3>2
    <2>2. \A w \in Paid : \A l \in SeedWrites(w).legs : l.tx = w
      BY <2>1
    <2>3. ASSUME NEW i \in AllIds
          PROVE  LET legs == { l \in journal : l.tx = i }
                 IN  IF Entries(i) = {} THEN legs = {}
                     ELSE \A p \in Entries(i) : \E mine, other \in legs :
                             /\ legs = {mine, other}
                             /\ mine.account = WalletAccount(p[1]) /\ other.account # mine.account
                             /\ mine.dir = EntryAt(p).dir /\ other.dir # mine.dir
                             /\ mine.amount = EntryAt(p).amount /\ other.amount = mine.amount
      <3>1. CASE i \notin Paid
        <4>1. { l \in journal : l.tx = i } = {}
          BY <1>13, <2>2, <3>1
        <4> QED BY <1>8, <3>1, <4>1
      <3>2. CASE i \in Paid
        <4>1. { l \in journal : l.tx = i } = SeedWrites(i).legs
          BY <1>13, <2>2, <3>2
        <4>2. ASSUME NEW p \in Entries(i)
              PROVE p[1] = i /\ EntryAt(p).dir = "CREDIT" /\ EntryAt(p).amount = Accounts[i].initial
          BY <1>5, <1>7, <3>2, <4>2 DEF EntryAt
        <4>3. Entries(i) # {}
          BY <1>8, <3>2
        <4> QED BY <2>1, <3>2, <4>1, <4>2, <4>3
      <3> QED BY <3>1, <3>2
    <2> QED BY <2>3 DEF JournalMirrorsLedger
  <1>16. /\ \A w \in Paid : /\ Event("WagerTransactionProcessed", w) \in outbox
                            /\ BalanceChanged(w, 1) \in outbox
         /\ \A f \in outbox : f.tx \in Paid /\ f \in {Event("WagerTransactionProcessed", f.tx), BalanceChanged(f.tx, 1)}
    <2>1. \A w : Event("WagerTransactionProcessed", w).tx = w /\ BalanceChanged(w, 1).tx = w
      BY DEF Event, BalanceChanged
    <2>2. \A w \in Paid : SeedWrites(w).events = {Event("WagerTransactionProcessed", w), BalanceChanged(w, 1)}
      BY <1>3
    <2> QED BY <1>14, <2>1, <2>2
  <1>17. \A w : /\ Event("WagerTransactionProcessed", w).type = "WagerTransactionProcessed"
                /\ Event("WagerTransactionProcessed", w).version = 0
                /\ Event("WagerTransactionProcessed", w).tx = w
                /\ BalanceChanged(w, 1).version = 1 /\ BalanceChanged(w, 1).tx = w
    BY DEF Event, BalanceChanged
  <1>18. ASSUME NEW i \in Paid PROVE Told(i) = {"WagerTransactionProcessed"} /\ Announced(i) = {1}
    <2>1. { f \in outbox : f.tx = i /\ f.version = 0 } = {Event("WagerTransactionProcessed", i)}
      BY <1>16, <1>17, <1>18
    <2>2. { f \in outbox : f.tx = i /\ f.version > 0 } = {BalanceChanged(i, 1)}
      BY <1>16, <1>17, <1>18
    <2> QED BY <1>17, <2>1, <2>2 DEF Told, Announced
  <1>19. ASSUME NEW i, i \notin Paid PROVE Told(i) = {}
    BY <1>16, <1>19 DEF Told
  <1>20. EventsTellState
    <2>1. Outcome("PROCESSED") = {"WagerTransactionProcessed"} /\ Outcome("ABSENT") = {}
      BY DEF Outcome
    <2>2. OutcomesTold
      BY <1>9, <1>10, <1>11, <1>18, <1>19, <2>1 DEF OutcomesTold
    <2>3. ParkingTold
      BY <1>9, <1>10, <1>11 DEF ParkingTold, Parked
    <2>4. ASSUME NEW w \in Wallets, NEW k \in 1..Len(ledger[w])
          PROVE  Announced(ledger[w][k].tx) = {k + (wallets[w].version - Len(ledger[w]))}
      <3>1. w \in Paid /\ k = 1 /\ ledger[w][k].tx = w /\ Len(ledger[w]) = 1 /\ wallets[w].version = 1
        <4>1. w \in Paid
          BY <1>6, <2>4
        <4>2. Len(ledger[w]) = 1 /\ ledger[w][1].tx = w
          BY <1>5, <4>1
        <4>3. wallets[w].version = 1
          BY <1>3, <4>1
        <4> QED BY <2>4, <4>1, <4>2, <4>3
      <3> QED BY <1>18, <3>1
    <2> QED BY <2>2, <2>3, <2>4 DEF EventsTellState, MovementsTold
  <1>21. ReversalUndoes
    <2>1. \A i \in AllIds : ~RequiresReference(txs[i].body.kind)
      BY <1>9, <1>10, <1>11 DEF RequiresReference
    <2> QED BY <2>1 DEF ReversalUndoes, Reversals
  <1>22. DirectionsKept
    <2> SUFFICES ASSUME NEW i \in AllIds, NEW p \in Entries(i) PROVE EntryAt(p).dir = MovedTo(txs[i])
      BY DEF DirectionsKept
    <2>1. i \in Paid /\ EntryAt(p).dir = "CREDIT"
      BY <1>5, <1>7 DEF EntryAt
    <2> QED BY <1>10, <2>1 DEF MovedTo, RequiresReference
  <1>23. ChangesHaveEntries
    BY <1>8, <1>16 DEF ChangesHaveEntries
  <1> QED BY <1>12, <1>15, <1>20, <1>21, <1>22, <1>23 DEF MoneyInv

\* Every action keeps MoneyInv, where the other two invariants hold.
LEMMA NextMoney == IInv /\ RowInv /\ MoneyInv /\ [Next]_vars => MoneyInv'
  <1> SUFFICES ASSUME IInv, RowInv, MoneyInv, [Next]_vars PROVE MoneyInv'
    OBVIOUS
  <1>1. ASSUME NEW x \in Workers, Commit(x) \/ CommitUnacknowledged(x) PROVE MoneyInv'
    BY <1>1, CommitMoney DEF Commit, CommitUnacknowledged
  <1>2. CASE UNCHANGED <<wallets, txs, ledger, journal, outbox>>
    BY <1>2, MoneyUnmoved
  <1>3. ASSUME NEW h \in Handlers, Arrival(h) \/ HandlerStep(h) PROVE MoneyInv'
    <2>1. h \in Workers
      BY DEF Workers
    <2>2. Commit(h) \/ UNCHANGED <<wallets, txs, ledger, journal, outbox>>
      BY <1>3 DEF Arrival, Submit, RequestOpening, HandlerStep, FastReplay, GetForUpdate,
                  ReadInbox, ReadKey, ReadIdentity, Decide, CheckReversal, Settle, UpdateBalance,
                  RecordInbox, Respond, ExistsForPlayerCurrency, InsertWallet, tables
    <2> QED BY <1>1, <1>2, <2>1, <2>2
  <1>4. ASSUME NEW r \in Resolvers, ResolverStep(r) PROVE MoneyInv'
    <2>1. r \in Workers
      BY DEF Workers
    <2>2. Commit(r) \/ UNCHANGED <<wallets, txs, ledger, journal, outbox>>
      BY <1>4 DEF ResolverStep, Claim, LoadPending, EndPass, GetForUpdateParked, DecideParked,
                  CheckReversal, Settle, RecordReferenceAttempt, UpdateBalance, LoadFailing,
                  SaveFailed, tables
    <2> QED BY <1>1, <1>2, <2>1, <2>2
  <1>5. ASSUME NEW x \in Workers, Failure(x) PROVE MoneyInv'
    <2>1. CommitUnacknowledged(x) \/ UNCHANGED <<wallets, txs, ledger, journal, outbox>>
      BY <1>5 DEF Failure, StatementFails, Crash, tables
    <2> QED BY <1>1, <1>2, <1>5, <2>1
  <1>6. CASE (\E id \in TxIds : Time(id)) \/ Quiescent \/ UNCHANGED vars
    BY <1>2, <1>6 DEF Time, BackoffElapses, TTLElapses, Quiescent, vars, tables
  <1> QED BY <1>3, <1>4, <1>5, <1>6 DEF Next

-----------------------------------------------------------------------------
(* The theorems.                                                           *)

\* CoreInv holds in every reachable state, for any number of handlers, reference
\* workers, wallets, requests, messages and faults.
THEOREM CoreInvariance == Spec => []CoreInv
  <1>1. Init => CoreInv
    BY InitHolds, InitRows, InitMoney DEF CoreInv
  <1>2. CoreInv /\ [Next]_vars => CoreInv'
    BY NextKeeps, NextRows, NextMoney DEF CoreInv
  <1> QED BY <1>1, <1>2, PTL DEF Spec

\* However requests, messages and reference workers repeat, race, crash and lose
\* their acknowledgements, a successful operation has exactly one ledger entry and
\* any other has none.
THEOREM MoneyMovesOnce == Spec => []MoneyMovedOnce
  <1>1. CoreInv => MoneyMovedOnce
    BY DEF CoreInv, MoneyInv
  <1> QED BY <1>1, CoreInvariance, PTL

\* The journal is the ledger told twice: two equal and opposite legs per entry.
THEOREM JournalIsDoubleEntry == Spec => []JournalMirrorsLedger
  <1>1. CoreInv => JournalMirrorsLedger
    BY DEF CoreInv, MoneyInv
  <1> QED BY <1>1, CoreInvariance, PTL

\* The outbox has exactly the events that rows and ledgers call for.
THEOREM OutboxTellsState == Spec => []EventsTellState
  <1>1. CoreInv => EventsTellState
    BY DEF CoreInv, MoneyInv
  <1> QED BY <1>1, CoreInvariance, PTL

\* What a successful reversal moved is what its reference had moved, back again.
THEOREM ReversalsUndo == Spec => []ReversalUndoes
  <1>1. CoreInv => ReversalUndoes
    BY DEF CoreInv, MoneyInv
  <1> QED BY <1>1, CoreInvariance, PTL

-----------------------------------------------------------------------------
(* A result answers the request it is given to, or a twin of it; so where  *)
(* no two requests share key and identity across wallets, the request.     *)

OthersStay(x) == \A y \in Workers \ {x} : pc'[y] = pc[y] /\ job'[y] = job[y]

\* Where nothing is committed only the worker that moves has anything to show.
LEMMA QuietRequests ==
  ASSUME RequestInv, UNCHANGED <<txs, inbox>>, NEW x \in Workers, OthersStay(x), x \in Handlers => Matches(x)'
  PROVE  RequestInv'
  <1>1. ASSUME NEW h \in Handlers PROVE Matches(h)'
    <2>1. CASE h = x
      BY <2>1
    <2>2. CASE h # x
      <3>1. pc'[h] = pc[h] /\ job'[h] = job[h] /\ Matches(h)
        BY <2>2 DEF OthersStay, Workers, RequestInv
      <3> QED BY <3>1 DEF Matches, Opens, Tells
    <2> QED BY <2>1, <2>2
  <1>2. \A i \in TxIds : Stored(i)' => \E c \in Commands : txs'[i].key = c.key /\ txs'[i].body = c.body
    BY DEF RequestInv, Stored
  <1>3. \A m \in Messages : inbox'[m].id # None => Tells(inbox[m].id, inbox[m].body)'
    BY DEF RequestInv, Tells
  <1> QED BY <1>1, <1>2, <1>3 DEF RequestInv

\* A handler that moves on without a result.
LEMMA GotoMatches ==
  ASSUME IInv, NEW h \in Handlers, NEW j, NEW l, job' = [job EXCEPT ![h] = j], Goto(h, l),
         l # "reply", l \notin AfterSave \/ j.mode # None \/ j.cmd = NoCmd
  PROVE  OthersStay(h) /\ Matches(h)'
  <1>1. h \in Workers /\ job \in [Workers -> Jobs] /\ pc \in [Workers -> PCs]
    BY DEF Workers, IInv, TypeOK
  <1>2. pc'[h] = l /\ job'[h] = j /\ OthersStay(h)
    BY <1>1 DEF Goto, OthersStay
  <1> QED BY <1>2 DEF Matches, Opens

\* The same when its locals stay as they are.
LEMMA StayMatches ==
  ASSUME IInv, NEW h \in Handlers, NEW l, job' = job, Goto(h, l),
         l # "reply", l \notin AfterSave \/ job[h].mode # None \/ job[h].cmd = NoCmd
  PROVE  OthersStay(h) /\ Matches(h)'
  <1>1. job' = [job EXCEPT ![h] = job[h]]
    BY DEF IInv, TypeOK
  <1> QED BY <1>1, GotoMatches

\* A handler that gives up.
LEMMA AbandonMatches ==
  ASSUME IInv, NEW h \in Handlers, NEW code, code # "RESULT",
         Abandon(h, code) \/ AnswerWith(h, Error(code))
  PROVE  OthersStay(h) /\ Matches(h)'
  <1>1. h \in Workers /\ AnswerWith(h, Error(code))
    BY DEF Workers, Abandon
  <1>2. Error(code).out = code
    BY DEF Error, NoAns
  <1>3. pc'[h] = "reply" /\ job'[h].ans = Error(code) /\ OthersStay(h)
    BY <1>1, AnswerLeaves DEF OthersStay
  <1> QED BY <1>2, <1>3 DEF Matches

\* A handler that repeats the result of a row with its own payload, or a twin's.
LEMMA ReplayMatches ==
  ASSUME IInv, NEW h \in Handlers, NEW id, NEW record, Tells(id, job[h].cmd.body), txs' = txs,
         Replay(h, id, record) \/ AnswerWith(h, replayResult(id))
  PROVE  OthersStay(h) /\ Matches(h)'
  <1>1. h \in Workers /\ job \in [Workers -> Jobs] /\ pc \in [Workers -> PCs] /\ job[h] \in Jobs
    BY DEF Workers, IInv, TypeOK
  <1>2. replayResult(id).id = id
    BY ReplayStands
  <1>3. /\ OthersStay(h) /\ job'[h].cmd = job[h].cmd /\ job'[h].ans = replayResult(id)
    <2>1. CASE AnswerWith(h, replayResult(id))
      BY <2>1, AnswerLeaves DEF OthersStay
    <2>2. CASE Replay(h, id, record)
      <3>1. PICK j : j = [job[h] EXCEPT !.ans = replayResult(id)]
        OBVIOUS
      <3>2. j.cmd = job[h].cmd /\ j.ans = replayResult(id)
        BY <1>1, <3>1 DEF Jobs
      <3>3. PICK l : pc' = [pc EXCEPT ![h] = l]
        BY <2>2 DEF Replay, Goto
      <3>4. job' = [job EXCEPT ![h] = j]
        BY <2>2, <3>1 DEF Replay
      <3> QED BY <1>1, <3>2, <3>3, <3>4 DEF OthersStay
    <2> QED BY <2>1, <2>2
  <1> QED BY <1>2, <1>3 DEF Matches, Tells

\* The lookups: by key and by message payloads are compared; by identity only a twin is
\* found under the same key, because the wallet was locked before the lookup by key.
LEMMA LookupMatches ==
  ASSUME IInv, RowInv, RequestInv, NEW h \in Handlers,
         FastReplay(h) \/ GetForUpdate(h) \/ ReadInbox(h) \/ ReadKey(h) \/ ReadIdentity(h)
  PROVE  OthersStay(h) /\ Matches(h)'
  <1> DEFINE c == job[h].cmd
  <1>1. pc[h] \in EarlyPCs /\ UNCHANGED tables
    BY DEF FastReplay, GetForUpdate, ReadInbox, ReadKey, ReadIdentity, EarlyPCs
  <1>2. /\ c \in Commands /\ ~Opens(h) /\ job[h].wid = c.body.wallet /\ job[h] \in Jobs
        /\ c.key # None /\ c.body.provider # None /\ txs' = txs /\ job \in [Workers -> Jobs]
        /\ h \in Workers
    BY <1>1, Early, WageringAssumption DEF tables, IInv, TypeOK
  <1>3. ASSUME NEW l, l \in EarlyPCs \cup {"decide"}, Goto(h, l), UNCHANGED job PROVE OthersStay(h) /\ Matches(h)'
    BY <1>3, StayMatches DEF EarlyPCs, AfterSave
  <1>4. ASSUME NEW code, code # "RESULT", Abandon(h, code) \/ AnswerWith(h, Error(code))
        PROVE  OthersStay(h) /\ Matches(h)'
    BY <1>4, AbandonMatches
  <1>5. ASSUME NEW id, NEW record, Tells(id, c.body),
               Replay(h, id, record) \/ AnswerWith(h, replayResult(id))
        PROVE  OthersStay(h) /\ Matches(h)'
    BY <1>2, <1>5, ReplayMatches
  <1>6. CASE FastReplay(h)
    BY <1>3, <1>4, <1>5, <1>6 DEF FastReplay, SameHash, EarlyPCs, Tells
  <1>7. CASE GetForUpdate(h)
    <2>1. ASSUME NEW l, l \in EarlyPCs, Goto(h, l), job' = [job EXCEPT ![h].seen = wallets[job[h].wid]]
          PROVE  OthersStay(h) /\ Matches(h)'
      BY <2>1, GotoMatches DEF EarlyPCs, AfterSave
    <2> QED BY <1>4, <1>7, <2>1 DEF GetForUpdate, EarlyPCs
  <1>8. CASE ReadInbox(h)
    <2>1. pc[h] = "inbox" /\ Shape(h)
      BY <1>2, <1>8 DEF ReadInbox, IInv, WorkerInv
    <2>2. c.msg \in Messages
      BY <2>1 DEF Shape
    <2>3. inbox[c.msg].id # None => Tells(inbox[c.msg].id, inbox[c.msg].body)
      BY <2>2 DEF RequestInv
    <2> QED BY <1>3, <1>4, <1>5, <1>8, <2>3 DEF ReadInbox, EarlyPCs
  <1>9. CASE ReadKey(h)
    BY <1>3, <1>4, <1>5, <1>9 DEF ReadKey, SameHash, EarlyPCs, Tells
  <1>10. CASE ReadIdentity(h)
    <2> DEFINE id == GetByProviderExternalID(c.body.provider, c.body.ext)
    <2>1. pc[h] = "identity" /\ Answered(h)
      BY <1>2, <1>10 DEF ReadIdentity, RowInv, RowWorker
    <2>2. id # None /\ txs[id].key = c.key => Tells(id, c.body)
      <3>1. SUFFICES ASSUME id # None, txs[id].key = c.key PROVE Tells(id, c.body)
        OBVIOUS
      <3>2. id \in TxIds /\ Stored(id) /\ txs[id].body.provider = c.body.provider /\ txs[id].body.ext = c.body.ext
        BY <1>2, <3>1, IdentityLookup
      <3>3. txs[id].body.wallet # c.body.wallet
        BY <1>2, <2>1, <3>1, <3>2 DEF Answered
      <3> HIDE DEF id
      <3> QED BY <1>2, <3>1, <3>2, <3>3 DEF Tells, Twins
    <2>3. ASSUME job' = [job EXCEPT ![h].row = NewExternal(c.key, c.body), ![h].mode = "insert"],
                 Goto(h, "decide")
          PROVE  OthersStay(h) /\ Matches(h)'
      <3>1. PICK j : job' = [job EXCEPT ![h] = j]
        BY <2>3
      <3> QED BY <2>3, <3>1, GotoMatches DEF AfterSave
    <2> HIDE DEF id
    <2>4. \/ job' = [job EXCEPT ![h].row = NewExternal(c.key, c.body), ![h].mode = "insert"] /\ Goto(h, "decide")
          \/ Abandon(h, "INVALID") \/ Abandon(h, "OPERATION_IDENTITY_CONFLICT")
          \/ id # None /\ txs[id].key = c.key /\ Replay(h, id, TRUE)
      BY <1>10 DEF ReadIdentity, id
    <2> QED BY <1>4, <1>5, <2>2, <2>3, <2>4
  <1> QED BY <1>6, <1>7, <1>8, <1>9, <1>10

\* Deciding and saving: the result is that of a row of its own.
LEMMA DoorMatches ==
  ASSUME IInv, RowInv, RequestInv, NEW h \in Handlers,
         \/ Decide(h) \/ CheckReversal(h) \/ Settle(h) \/ UpdateBalance(h) \/ RecordInbox(h)
         \/ Respond(h) \/ ExistsForPlayerCurrency(h) \/ InsertWallet(h) \/ Arrival(h)
  PROVE  OthersStay(h) /\ Matches(h)'
  <1>1. /\ h \in Workers /\ job \in [Workers -> Jobs] /\ pc \in [Workers -> PCs] /\ job[h] \in Jobs
        /\ About(h) /\ Shape(h)
    BY DEF Workers, IInv, TypeOK, WorkerInv, RowInv, RowWorker
  <1>2. pc[h] \in {"save", "post"} => job[h].mode = "insert"
    BY <1>1 DEF About
  <1>3. "insert" # None
    BY DEF None
  <1>4. ASSUME NEW code, code # "RESULT", Abandon(h, code) PROVE OthersStay(h) /\ Matches(h)'
    BY <1>4, AbandonMatches
  <1>5. CASE Decide(h) \/ CheckReversal(h)
    <2>1. PICK l \in {"reversal", "save"} : Goto(h, l)
      BY <1>5 DEF Decide, CheckReversal
    <2>2. \E j : job' = [job EXCEPT ![h] = j]
      <3>1. job' = job => job' = [job EXCEPT ![h] = job[h]]
        BY <1>1
      <3> QED BY <1>5, <3>1 DEF Decide, CheckReversal
    <2>3. PICK j : job' = [job EXCEPT ![h] = j]
      BY <2>2
    <2> QED BY <2>1, <2>3, GotoMatches DEF AfterSave
  <1>6. CASE Settle(h)
    <2>1. pc[h] = "save" /\ job[h].mode = "insert"
      BY <1>2, <1>6 DEF Settle
    <2>2. ASSUME NEW i, NEW s, NEW a, NEW l, l # "reply",
                 job' = [job EXCEPT ![h].id = i, ![h].writes = s, ![h].ans = a], Goto(h, l)
          PROVE  OthersStay(h) /\ Matches(h)'
      <3>1. PICK j : j = [job[h] EXCEPT !.id = i, !.writes = s, !.ans = a]
        OBVIOUS
      <3>2. j.mode = "insert" /\ job' = [job EXCEPT ![h] = j]
        BY <1>1, <2>1, <2>2, <3>1 DEF Jobs
      <3> QED BY <1>3, <2>2, <3>2, GotoMatches
    <2> DEFINE i == IF job[h].mode = "insert" THEN CHOOSE k \in FreeIds : TRUE ELSE job[h].id
               s == Settlement(i, job[h].row, job[h].seen, job[h].plan)
               a == [out |-> "RESULT", id |-> i, status |-> s.row.status,
                     balance |-> IF s.moved THEN s.wallet.balance ELSE job[h].seen.balance,
                     replay |-> FALSE]
               l == IF s.moved THEN "post" ELSE IF job[h].cmd.msg # None THEN "recordInbox" ELSE "commit"
    <2>3. \A code \in UniqueViolations(s.row) : code # "RESULT"
      BY DEF UniqueViolations
    <2>4. \/ Abandon(h, "OVERFLOW") \/ Abandon(h, "INTERNAL")
          \/ \E code \in UniqueViolations(s.row) : Abandon(h, code)
          \/ job' = [job EXCEPT ![h].id = i, ![h].writes = s, ![h].ans = a] /\ Goto(h, l)
      BY <1>6 DEF Settle
    <2>5. l # "reply"
      OBVIOUS
    <2> HIDE DEF i, s, a, l
    <2> QED BY <1>4, <2>2, <2>3, <2>4, <2>5
  <1>7. CASE UpdateBalance(h)
    <2>1. pc[h] = "post" /\ job[h].mode = "insert"
      BY <1>2, <1>7 DEF UpdateBalance
    <2>2. ASSUME NEW l, l # "reply", Goto(h, l), job' = job PROVE OthersStay(h) /\ Matches(h)'
      BY <1>3, <2>1, <2>2, StayMatches
    <2> QED BY <1>4, <1>7, <2>2 DEF UpdateBalance
  <1>8. CASE RecordInbox(h)
    <2>1. CASE Goto(h, "commit") /\ job' = [job EXCEPT ![h].inboxed = TRUE]
      <3>1. PICK j : j = [job[h] EXCEPT !.inboxed = TRUE]
        OBVIOUS
      <3>2. j.cmd = job[h].cmd /\ j.ans = job[h].ans /\ j.mode = job[h].mode /\ job' = [job EXCEPT ![h] = j]
        BY <1>1, <2>1, <3>1 DEF Jobs
      <3>3. /\ pc'[h] = "commit" /\ pc[h] = "recordInbox" /\ OthersStay(h) /\ job'[h] = j /\ txs' = txs
        BY <1>1, <1>8, <2>1, <3>2 DEF OthersStay, Goto, RecordInbox, tables
      <3>4. Matches(h)
        BY DEF RequestInv
      <3> QED BY <3>2, <3>3, <3>4 DEF Matches, Opens, AfterSave, Tells
    <2> QED BY <1>4, <1>8, <2>1 DEF RecordInbox
  <1>9. CASE Respond(h) \/ Arrival(h)
    <2>1. PICK l \in {"idle", "fast", "exists"} : Goto(h, l)
      BY <1>9 DEF Respond, Arrival, Submit, RequestOpening
    <2>2. PICK j : job' = [job EXCEPT ![h] = j]
      BY <1>9 DEF Respond, Arrival, Submit, RequestOpening
    <2> QED BY <2>1, <2>2, GotoMatches DEF AfterSave
  <1>10. CASE ExistsForPlayerCurrency(h)
    <2>1. ASSUME Goto(h, "insertWallet"), job' = job PROVE OthersStay(h) /\ Matches(h)'
      BY <2>1, StayMatches DEF AfterSave
    <2> QED BY <1>4, <1>10, <2>1 DEF ExistsForPlayerCurrency
  <1>11. CASE InsertWallet(h)
    <2>1. job[h].cmd = NoCmd
      BY <1>1, <1>11 DEF InsertWallet, Shape
    <2> DEFINE w == job[h].wid
               a == [NoAns EXCEPT !.out = "CREATED", !.balance = Accounts[w].initial]
               j == [job[h] EXCEPT !.writes = OpeningWrites(w, Accounts[w]), !.id = w,
                                   !.mode = IF Accounts[w].initial = 0 THEN None ELSE "insert",
                                   !.ans = a]
    <2> HIDE DEF a
    <2>2. j.cmd = NoCmd
      BY <1>1, <2>1 DEF Jobs
    <2>3. (job' = [job EXCEPT ![h] = j] /\ Goto(h, "commit")) \/ Abandon(h, "WALLET_ALREADY_EXISTS")
      BY <1>11 DEF InsertWallet, a
    <2> HIDE DEF j
    <2>4. CASE job' = [job EXCEPT ![h] = j] /\ Goto(h, "commit")
      BY <2>2, <2>4, GotoMatches
    <2>5. CASE Abandon(h, "WALLET_ALREADY_EXISTS")
      BY <1>4, <2>5
    <2> QED BY <2>3, <2>4, <2>5
  <1> QED BY <1>5, <1>6, <1>7, <1>8, <1>9, <1>10, <1>11

\* A row keeps telling what it told.
LEMMA TellsOn ==
  ASSUME NEW id, NEW b, Tells(id, b), txs'[id].key = txs[id].key, txs'[id].body = txs[id].body
  PROVE  txs'[id].body = b \/ (Twins(b, txs'[id].body) /\ \E c \in Commands : c.key = txs'[id].key /\ c.body = b)
  BY DEF Tells

\* A commit: the row has the payload of the command that made it, the inbox row too.
LEMMA CommitRequests ==
  ASSUME IInv, RowInv, RequestInv, NEW x \in Workers, Commit(x) \/ CommitUnacknowledged(x)
  PROVE  RequestInv'
  <1> DEFINE j == job[x]
             Keeps(id, b) == \/ txs'[id].body = b
                             \/ /\ Twins(b, txs'[id].body)
                                /\ \E c \in Commands : c.key = txs'[id].key /\ c.body = b
  <1>1. /\ pc[x] = "commit" /\ pc[x] \in AfterSave /\ ApplyWrites(x)
        /\ \A i \in AllIds : Stored(i) =>
              txs'[i].status # "ABSENT" /\ txs'[i].key = txs[i].key /\ txs'[i].body = txs[i].body
        /\ \A i \in AllIds : txs'[i] # txs[i] =>
              i = j.id /\ j.mode \in {"insert", "update"} /\ txs'[i] = j.writes.row
        /\ \A m \in Messages : inbox'[m] # inbox[m] =>
              j.inboxed /\ m = j.cmd.msg /\ inbox'[m] = [id |-> j.ans.id, body |-> j.cmd.body]
    BY Grows DEF Commit, CommitUnacknowledged, AfterSave
  <1>2. /\ j \in Jobs /\ Shape(x) /\ About(x) /\ Owns(x) /\ Answered(x) /\ RowTables
        /\ txs \in [AllIds -> Rows \cup {NoTx}]
    BY DEF RowInv, RowWorker, IInv, TypeOK, WorkerInv
  <1>3. ASSUME j.mode = "insert", ~Opens(x)
        PROVE  /\ x \in Handlers /\ j.cmd \in Commands /\ j.ans.id = j.id /\ j.id \in TxIds
               /\ txs'[j.id].key = j.cmd.key /\ txs'[j.id].body = j.cmd.body
    <2>1. /\ x \in Handlers /\ j.cmd \in Commands /\ j.id \in TxIds
          /\ j.writes.row.key = j.cmd.key /\ j.writes.row.body = j.cmd.body
      BY <1>1, <1>3, Inserting
    <2>2. txs' = [txs EXCEPT ![j.id] = j.writes.row]
      BY <1>1, <1>3, CommitRow
    <2>3. txs'[j.id] = j.writes.row
      BY <1>2, <2>1, <2>2 DEF AllIds
    <2>4. j.ans.id = j.id
      BY <1>1, <1>2, <1>3, <2>1 DEF Answered
    <2> QED BY <2>1, <2>3, <2>4
  <1>4. ASSUME x \in Handlers, ~Opens(x)
        PROVE  Keeps(j.ans.id, j.cmd.body)
    <2>1. CASE j.mode = "insert"
      BY <1>3, <1>4, <2>1
    <2>2. CASE j.mode = None
      <3>1. j.ans.out = "RESULT" /\ Stands(x)
        BY <1>1, <1>2, <1>4, <2>2 DEF Answered
      <3>2. Tells(j.ans.id, j.cmd.body)
        BY <1>1, <1>4, <2>2, <3>1 DEF RequestInv, Matches
      <3> QED BY <1>1, <3>1, <3>2, TellsOn DEF Stands, AllIds
    <2> QED BY <1>2, <1>4, <2>1, <2>2 DEF About
  <1>5. ASSUME NEW i \in TxIds, Stored(i)'
        PROVE  \E c \in Commands : txs'[i].key = c.key /\ txs'[i].body = c.body
    <2>1. CASE Stored(i)
      BY <1>1, <2>1 DEF RequestInv, AllIds
    <2>2. CASE ~Stored(i)
      <3>1. i = j.id /\ j.mode \in {"insert", "update"}
        BY <1>1, <1>5, <2>2 DEF Stored, AllIds
      <3>2. j.mode = "insert"
        BY <1>2, <2>2, <3>1 DEF Shape
      <3>3. ~Opens(x)
        BY <1>1, <3>1, OpeningCommit, WageringAssumption
      <3> QED BY <1>3, <3>1, <3>2, <3>3
    <2> QED BY <2>1, <2>2
  <1>6. ASSUME NEW m \in Messages, inbox'[m].id # None
        PROVE  Keeps(inbox'[m].id, inbox'[m].body)
    <2>1. CASE inbox'[m] = inbox[m]
      <3>1. /\ inbox[m].id # None /\ Tells(inbox[m].id, inbox[m].body)
            /\ inbox[m].id \in TxIds /\ Stored(inbox[m].id)
        BY <1>2, <1>6, <2>1 DEF RequestInv, RowTables
      <3> QED BY <1>1, <2>1, <3>1, TellsOn DEF AllIds
    <2>2. CASE inbox'[m] # inbox[m]
      <3>1. j.inboxed /\ inbox'[m].id = j.ans.id /\ inbox'[m].body = j.cmd.body
        BY <1>1, <2>2
      <3>2. j.cmd \in Commands
        BY <1>2, <3>1 DEF Shape
      <3>3. x \in Handlers /\ ~Opens(x)
        BY <1>2, <3>2, NoCmdIsNone DEF Shape, Workers, Opens
      <3> QED BY <1>4, <3>1, <3>3
    <2> QED BY <2>1, <2>2
  <1>7. ASSUME NEW h \in Handlers PROVE Matches(h)'
    <2>1. CASE h = x /\ Commit(x)
      <3>1. job'[h].cmd = job[h].cmd /\ job'[h].ans = job[h].ans
        BY <1>7, <2>1, AnswerLeaves DEF Commit
      <3> QED BY <1>4, <2>1, <3>1 DEF Matches, Opens, Tells
    <2>2. CASE h = x /\ CommitUnacknowledged(x)
      BY <2>2, AbandonMatches DEF CommitUnacknowledged
    <2>3. CASE h # x
      <3>1. OthersStay(x)
        <4>1. CASE CommitUnacknowledged(x)
          BY <4>1, AbandonLeaves DEF CommitUnacknowledged, OthersStay
        <4>2. CASE Commit(x) /\ x \in Handlers
          BY <4>2, AnswerLeaves DEF Commit, OthersStay
        <4>3. CASE Commit(x) /\ x \notin Handlers
          <5>1. NextRecord(x) /\ x \in Resolvers
            BY <4>3 DEF Commit, Workers
          <5> QED BY <5>1, NextRecordLeaves DEF OthersStay
        <4> QED BY <4>1, <4>2, <4>3
      <3>2. pc'[h] = pc[h] /\ job'[h] = job[h] /\ Matches(h) /\ Answered(h)
        BY <2>3, <3>1 DEF OthersStay, Workers, RequestInv, RowInv, RowWorker
      <3>3. SUFFICES ASSUME pc[h] = "reply" \/ (pc[h] \in AfterSave /\ job[h].mode = None),
                            ~Opens(h), job[h].ans.out = "RESULT"
                     PROVE  Keeps(job[h].ans.id, job[h].cmd.body)
        BY <3>2 DEF Matches, Opens, Tells
      <3>4. Stands(h)
        BY <3>2, <3>3 DEF Answered
      <3>5. /\ job[h].ans.id \in AllIds /\ Stored(job[h].ans.id)
            /\ Tells(job[h].ans.id, job[h].cmd.body)
        BY <3>2, <3>3, <3>4 DEF Stands, Matches, AllIds
      <3> QED BY <1>1, <3>5, TellsOn
    <2> QED BY <2>1, <2>2, <2>3
  <1> QED BY <1>5, <1>6, <1>7 DEF RequestInv, Tells

\* A resolver that does not commit shows nothing to anybody.
LEMMA ResolverOthers ==
  ASSUME IInv, NEW r \in Resolvers, ResolverStep(r), ~Commit(r)
  PROVE  UNCHANGED <<txs, inbox>> /\ OthersStay(r)
  <1>1. r \in Workers /\ r \notin Handlers /\ job \in [Workers -> Jobs] /\ pc \in [Workers -> PCs]
    BY WageringAssumption DEF Workers, IInv, TypeOK
  <1>2. UNCHANGED <<txs, inbox>>
    BY DEF ResolverStep, Claim, LoadPending, EndPass, GetForUpdateParked, DecideParked,
           CheckReversal, Settle, RecordReferenceAttempt, UpdateBalance, LoadFailing, SaveFailed, tables
  <1> SUFFICES OthersStay(r)
    BY <1>2
  <1>3. ASSUME NEW code, Abandon(r, code) PROVE OthersStay(r)
    BY <1>1, <1>3, AbandonLeaves DEF OthersStay
  <1>4. ASSUME NEW l, Goto(r, l), job' = job PROVE OthersStay(r)
    BY <1>1, <1>4 DEF OthersStay, Goto
  <1>5. CASE NextRecord(r)
    BY <1>5, NextRecordLeaves DEF OthersStay
  <1>6. CASE Claim(r) \/ (\E rec \in job[r].batch : LoadPending(r, rec)) \/ EndPass(r)
    BY <1>1, <1>6 DEF Claim, LoadPending, EndPass, Goto, OthersStay
  <1>7. CASE GetForUpdateParked(r) \/ LoadFailing(r) \/ SaveFailed(r)
    BY <1>1, <1>3, <1>5, <1>7 DEF GetForUpdateParked, LoadFailing, SaveFailed, Goto, OthersStay
  <1>8. CASE DecideParked(r) \/ CheckReversal(r) \/ RecordReferenceAttempt(r)
    BY <1>1, <1>8 DEF DecideParked, CheckReversal, RecordReferenceAttempt, Goto, OthersStay
  <1>9. CASE UpdateBalance(r)
    BY <1>3, <1>4, <1>9 DEF UpdateBalance
  <1>10. CASE Settle(r)
    BY <1>1, <1>3, <1>10 DEF Settle, Goto, OthersStay
  <1> QED BY <1>6, <1>7, <1>8, <1>9, <1>10 DEF ResolverStep

\* Every action keeps RequestInv.
LEMMA NextRequests == IInv /\ RowInv /\ RequestInv /\ [Next]_vars => RequestInv'
  <1> SUFFICES ASSUME IInv, RowInv, RequestInv, [Next]_vars PROVE RequestInv'
    OBVIOUS
  <1>1. ASSUME NEW x \in Workers, Commit(x) \/ CommitUnacknowledged(x) PROVE RequestInv'
    BY <1>1, CommitRequests
  <1>2. ASSUME NEW h \in Handlers, Arrival(h) \/ HandlerStep(h) PROVE RequestInv'
    <2>1. h \in Workers
      BY DEF Workers
    <2>2. CASE ~Commit(h)
      <3>1. UNCHANGED <<txs, inbox>>
        BY <1>2, <2>2 DEF Arrival, Submit, RequestOpening, HandlerStep, FastReplay, GetForUpdate,
                  ReadInbox, ReadKey, ReadIdentity, Decide, CheckReversal, Settle, UpdateBalance,
                  RecordInbox, Respond, ExistsForPlayerCurrency, InsertWallet, tables
      <3>2. OthersStay(h) /\ Matches(h)'
        BY <1>2, <2>2, LookupMatches, DoorMatches DEF HandlerStep
      <3> QED BY <2>1, <3>1, <3>2, QuietRequests
    <2> QED BY <1>1, <2>1, <2>2
  <1>3. ASSUME NEW r \in Resolvers, ResolverStep(r) PROVE RequestInv'
    <2>1. r \in Workers /\ r \notin Handlers
      BY WageringAssumption DEF Workers
    <2> QED BY <1>1, <1>3, <2>1, ResolverOthers, QuietRequests
  <1>4. ASSUME NEW x \in Workers, Failure(x) PROVE RequestInv'
    <2>1. CASE CommitUnacknowledged(x)
      BY <1>1, <2>1
    <2>2. CASE StatementFails(x)
      <3>1. UNCHANGED <<txs, inbox>> /\ Abandon(x, "UNAVAILABLE")
        BY <2>2 DEF StatementFails, tables
      <3>2. OthersStay(x) /\ (x \in Handlers => Matches(x)')
        BY <3>1, AbandonLeaves, AbandonMatches DEF OthersStay
      <3> QED BY <3>1, <3>2, QuietRequests
    <2>3. CASE Crash(x)
      <3>1. UNCHANGED <<txs, inbox>> /\ Goto(x, "idle") /\ job' = [job EXCEPT ![x] = IdleJob]
        BY <2>3 DEF Crash, tables
      <3>2. OthersStay(x)
        BY <3>1 DEF OthersStay, Goto, IInv, TypeOK
      <3>3. x \in Handlers => Matches(x)'
        BY <3>1, GotoMatches DEF AfterSave
      <3> QED BY <3>1, <3>2, <3>3, QuietRequests
    <2> QED BY <1>4, <2>1, <2>2, <2>3 DEF Failure
  <1>5. CASE (\E id \in TxIds : Time(id)) \/ Quiescent \/ UNCHANGED vars
    <2>1. UNCHANGED <<txs, inbox, pc, job>>
      BY <1>5 DEF Time, BackoffElapses, TTLElapses, Quiescent, vars, tables
    <2> QED BY <2>1 DEF RequestInv, Matches, Opens, Stored, Tells
  <1> QED BY <1>2, <1>3, <1>4, <1>5 DEF Next

\* No row is stored yet, and nobody has an answer.
LEMMA InitRequests == Init => RequestInv
  <1> SUFFICES ASSUME Init PROVE RequestInv
    OBVIOUS
  <1>1. \A i \in TxIds : ~Stored(i)
    BY WageringAssumption DEF Init, Stored, AllIds, NoTx
  <1>2. \A m \in Messages : inbox[m].id = None
    BY DEF Init
  <1>3. \A h \in Handlers : Matches(h)
    BY DEF Init, Matches, AfterSave, Workers
  <1> QED BY <1>1, <1>2, <1>3 DEF RequestInv

\* A result answers the request that was made, through races of HTTP requests and
\* messages, lost acknowledgements and crashes, as long as no two requests with one
\* key and one provider identity are about different wallets: findReplay's lookup by
\* identity compares keys and not payloads.
THEOREM RequestsAreAnswered ==
  ASSUME NoTwins PROVE Spec => []AnswersTheRequest
  <1>1. IInv /\ RowInv /\ RequestInv /\ OpeningAnswers => AnswersTheRequest
    <2> SUFFICES ASSUME IInv, RowInv, RequestInv, OpeningAnswers, NEW h \in Handlers,
                        pc[h] = "reply", job[h].ans.out = "RESULT"
                 PROVE  txs[job[h].ans.id].body = job[h].cmd.body
      BY DEF AnswersTheRequest
    <2> DEFINE id == job[h].ans.id
    <2>1. ~Opens(h) /\ Matches(h) /\ Answered(h)
      BY DEF OpeningAnswers, RequestInv, RowInv, RowWorker, Workers
    <2>2. Tells(id, job[h].cmd.body) /\ id \in TxIds /\ Stored(id)
      BY <2>1 DEF Matches, Answered, Stands
    <2>3. PICK d \in Commands : txs[id].key = d.key /\ txs[id].body = d.body
      BY <2>2 DEF RequestInv
    <2> HIDE DEF id
    <2>4. ASSUME NEW c \in Commands, c.key = txs[id].key, c.body = job[h].cmd.body
          PROVE  ~Twins(job[h].cmd.body, txs[id].body)
      BY <2>3, <2>4 DEF NoTwins
    <2> QED BY <2>2, <2>4 DEF Tells, id
  <1> QED BY <1>1, InitRequests, NextRequests, OpeningsAnswered, Invariance, RowInvariance, PTL DEF Spec

=============================================================================
