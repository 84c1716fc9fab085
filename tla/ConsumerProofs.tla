---------------------------- MODULE ConsumerProofs ----------------------------
(***************************************************************************)
(* The SQS door, for every number of consumers, messages and groups, every *)
(* batch size and redrive policy: ConsumerInv is inductive.  With it no    *)
(* message is deleted that was not recorded, a loop that has returned      *)
(* holds nothing back, and the messages of a wallet take effect in order   *)
(* except for those that failed.                                           *)
(*                                                                         *)
(* What a loop knows of a message stays true whatever the others do,       *)
(* because the tables only move forward (Forward): an inbox row is never   *)
(* overwritten, a dead message stays dead, a receipt that was replaced is  *)
(* never current again.  So a step is checked for the one loop that takes  *)
(* it (StepKeeps).                                                         *)
(***************************************************************************)
EXTENDS Consumer, FiniteSetTheorems, WellFoundedInduction, TLAPS

QueueType == [Items -> [at : {"unsent", "visible", "flight", "deleted", "dead"},
                        receives : 0..MaxReceive]]

\* The part of TypeOK that is about one loop.
LoopType(c) ==
    /\ consumer[c] \in Locals /\ Cardinality(consumer[c].batch) <= MaxMessages
    /\ consumer[c].begun \subseteq consumer[c].batch
    /\ consumer[c].freed \subseteq consumer[c].batch \ consumer[c].begun
    /\ consumer[c].at \in {"handle", "delete"} => consumer[c].cur \in consumer[c].begun

\* The part of StoppedHoldsNothing that is about one loop.
GaveBack(c) ==
    consumer[c].at = "stopped" /\ faults = 0 =>
        \A r \in consumer[c].batch \ consumer[c].begun : ~Held(r)

LoopInv(c) == LoopType(c) /\ GaveBack(c) /\ LoopKnows(c) /\ InOrder(c)

SentInOrder == \A i, j \in Items : i < j /\ queue[j].at # "unsent" => queue[i].at # "unsent"

\* What no step undoes.
Forward ==
    /\ DOMAIN inbox' = Messages
    /\ \A m \in Messages : Recorded(m) => inbox'[m] = inbox[m]
    /\ failed \subseteq failed' /\ failed' \subseteq Items
    /\ queue' \in QueueType
    /\ \A i \in Items : /\ queue[i].at = "dead" => queue'[i].at = "dead"
                        /\ queue[i].receives <= queue'[i].receives
                        /\ queue'[i].at = "flight" /\ queue'[i].receives = queue[i].receives
                           => queue[i].at = "flight"
    /\ faults' \in 0..MaxFaults /\ (faults' = 0 => faults = 0)
    /\ stops' \in 0..MaxStops

-----------------------------------------------------------------------------
(* What stays true.                                                        *)

\* The types that the steps below use.
LEMMA Types ==
    ASSUME ConsumerInv
    PROVE  /\ queue \in QueueType /\ failed \subseteq Items
           /\ faults \in 0..MaxFaults /\ stops \in 0..MaxStops
           /\ consumer \in [Consumers -> Locals] /\ DOMAIN inbox = Messages /\ SentInOrder
           /\ \A c \in Consumers : LoopInv(c) /\ consumer[c].batch \subseteq Receipts
           /\ \A i \in Items : Post[i].msg \in Messages \cup {None} /\ i \in Nat
           /\ \A r \in Receipts : r.item \in Items /\ r.n \in Nat
  <1>1. consumer \in [Consumers -> Locals]
    BY DEF ConsumerInv, TypeOK
  <1>2. \A c \in Consumers : consumer[c] \in Locals
    BY <1>1
  <1>3. \A c \in Consumers : consumer[c].batch \subseteq Receipts
    BY <1>2 DEF Locals
  <1>4. \A c \in Consumers : LoopInv(c)
    BY <1>2 DEF ConsumerInv, TypeOK, LoopInv, LoopType, GaveBack, StoppedHoldsNothing
  <1>5. /\ \A i \in Items : Post[i].msg \in Messages \cup {None} /\ i \in Nat
        /\ \A r \in Receipts : r.item \in Items /\ r.n \in Nat
    BY ConsumerAssumption DEF Items, Receipts
  <1>. QED  BY <1>1, <1>3, <1>4, <1>5 DEF ConsumerInv, TypeOK, QueueType, SentInOrder

\* A message that has passed has passed for good, one that is settled stays settled,
\* and a receipt that is not current will not be.
LEMMA ForwardKeeps ==
    ASSUME ConsumerInv, Forward
    PROVE  /\ \A i \in Items : Passed(i) => Passed(i)'
           /\ \A i \in Items : WellFormed(Post[i]) /\ Settled(i) => Settled(i)'
           /\ \A r \in Receipts : r.n <= queue[r.item].receives =>
                  (r.n <= queue'[r.item].receives /\ (~Held(r) => ~Held(r)'))
  <1>1. \A i \in Items : WellFormed(Post[i]) => Post[i].msg \in Messages
    BY Types DEF WellFormed
  <1>2. ASSUME NEW i \in Items, Passed(i) PROVE Passed(i)'
    <2>1. CASE Done(i)
      BY <1>1, <2>1 DEF Done, Recorded, Forward, Passed
    <2>. QED  BY <1>2, <2>1 DEF Passed, Forward
  <1>3. ASSUME NEW i \in Items, WellFormed(Post[i]), Settled(i) PROVE Settled(i)'
    BY <1>1, <1>3 DEF Settled, Recorded, Forward
  <1>4. ASSUME NEW r \in Receipts, r.n <= queue[r.item].receives
        PROVE  r.n <= queue'[r.item].receives /\ (~Held(r) => ~Held(r)')
    <2>1. PICK i \in Items : i = r.item
      BY Types
    <2>2. PICK n \in Nat : n = r.n
      BY Types
    <2>3. /\ queue[i].receives \in Nat /\ queue'[i].receives \in Nat
          /\ queue[i].receives <= queue'[i].receives
          /\ queue'[i].at = "flight" /\ queue'[i].receives = queue[i].receives => queue[i].at = "flight"
      BY Types DEF Forward, QueueType
    <2>. QED  BY <1>4, <2>1, <2>2, <2>3 DEF Held, InFlight, Latest
  <1>. QED  BY <1>2, <1>3, <1>4

\* A loop that takes no part in a step, or is only told to stop, keeps what it knows.
LEMMA OthersKeep ==
    ASSUME ConsumerInv, Forward, NEW c \in Consumers, consumer'[c] \in Locals,
           consumer'[c].at = consumer[c].at, consumer'[c].batch = consumer[c].batch,
           consumer'[c].begun = consumer[c].begun, consumer'[c].freed = consumer[c].freed,
           consumer'[c].cur = consumer[c].cur
    PROVE  LoopInv(c)'
  <1>1. LoopInv(c)
    BY Types
  <1>2. LoopType(c)'
    BY <1>1 DEF LoopInv, LoopType
  <1>3. \A r \in consumer[c].batch : /\ r \in Receipts /\ r.item \in Items /\ r.n <= queue'[r.item].receives
                                     /\ ~Held(r) => ~Held(r)'
    BY <1>1, Types, ForwardKeeps DEF LoopInv, LoopType, LoopKnows
  <1>4. faults' = 0 => faults = 0
    BY DEF Forward
  <1>5. GaveBack(c)'
    <2>1. ASSUME consumer[c].at = "stopped", faults' = 0, NEW r \in consumer[c].batch \ consumer[c].begun
          PROVE  ~Held(r)'
      BY <1>1, <1>3, <1>4, <2>1 DEF LoopInv, GaveBack
    <2>. QED  BY <2>1 DEF GaveBack
  <1>6. LoopKnows(c)'
    <2>1. ASSUME faults' = 0, NEW r \in consumer[c].freed PROVE ~Held(r)'
      BY <1>1, <1>3, <1>4, <2>1 DEF LoopInv, LoopKnows, LoopType
    <2>2. CASE consumer[c].at = "delete"
      <3>1. PICK i \in Items : i = consumer[c].cur.item
        BY <1>1, <1>3, <2>2 DEF LoopInv, LoopType
      <3>2. WellFormed(Post[i]) /\ Settled(i)
        BY <1>1, <2>2, <3>1 DEF LoopInv, LoopKnows, Command
      <3>3. Settled(i)'
        BY <3>2, ForwardKeeps
      <3>4. (WellFormed(Command(c)))'
        BY <3>1, <3>2 DEF Command
      <3>5. (Settled(consumer[c].cur.item))'
        BY <3>1, <3>3 DEF Settled, Recorded
      <3>. QED  BY <1>1, <1>3, <2>1, <2>2, <3>4, <3>5 DEF LoopInv, LoopKnows
    <2>3. CASE consumer[c].at # "delete"
      BY <1>1, <1>3, <2>1, <2>3 DEF LoopInv, LoopKnows
    <2>. QED  BY <2>2, <2>3
  <1>7. InOrder(c)'
    <2>1. \A i \in Items : Passed(i) => Passed(i)'
      BY ForwardKeeps
    <2>2. InOrder(c) /\ \A r \in consumer[c].begun : r.item \in Items
      BY <1>1, <1>3 DEF LoopInv, LoopType
    <2>. QED  BY <2>1, <2>2 DEF InOrder, Group
  <1>. QED  BY <1>2, <1>5, <1>6, <1>7 DEF LoopInv

\* A step that moves the tables forward keeps the invariant, if what it deletes was
\* settled, what it records was preceded by what it had to wait for, and the loops it
\* moves know what they should.
LEMMA StepKeeps ==
    ASSUME ConsumerInv, Forward, SentInOrder',
           \A i \in Items : queue'[i].at = "deleted" =>
               queue[i].at = "deleted" \/ (WellFormed(Post[i]) /\ Settled(i)),
           DistinctIds => \A i, j \in Items : Group(i) = Group(j) /\ i < j /\ Done(j)' => Done(j) \/ Passed(i),
           consumer' \in [Consumers -> Locals],
           \A c \in Consumers : consumer'[c] = consumer[c] \/ LoopInv(c)'
    PROVE  ConsumerInv'
  <1>1. ASSUME NEW c \in Consumers PROVE LoopInv(c)'
    <2>1. CASE consumer'[c] = consumer[c]
      BY <2>1, OthersKeep
    <2>. QED  BY <2>1
  <1>2. TypeOK'
    <2>1. consumer' \in [Consumers -> Locals]
      OBVIOUS
    <2>. QED  BY <1>1, <2>1 DEF TypeOK, LoopInv, LoopType, Forward, QueueType
  <1>3. StoppedHoldsNothing'
    BY <1>1 DEF StoppedHoldsNothing, LoopInv, GaveBack
  <1>4. \A i \in Items : queue'[i].at = "deleted" => WellFormed(Post[i]) /\ Settled(i)
    BY DEF ConsumerInv, DeletedWereSettled
  <1>5. DeletedWereSettled'
    BY <1>4, ForwardKeeps DEF DeletedWereSettled
  <1>6. DistinctIds => OvertakesOnlyFailed'
    <2>. SUFFICES ASSUME DistinctIds, NEW i \in Items, NEW j \in Items,
                         Group(i) = Group(j), i < j, Done(j)'
                  PROVE  Passed(i)'
      BY DEF OvertakesOnlyFailed, Group
    <2>1. Passed(i)
      BY DEF ConsumerInv, OvertakesOnlyFailed
    <2>. QED  BY <2>1, ForwardKeeps
  <1>7. DOMAIN inbox' = Messages
    BY DEF Forward
  <1>8. (\A i \in Items : queue[i].at = "deleted" => WellFormed(Post[i]))'
    BY <1>4
  <1>. QED  BY <1>1, <1>2, <1>3, <1>5, <1>6, <1>7, <1>8 DEF ConsumerInv, LoopInv, SentInOrder, DistinctIds

\* A loop that has just started knows nothing and holds nothing.
LEMMA StartedKeeps ==
    ASSUME NEW c \in Consumers, consumer'[c] = Started PROVE Started \in Locals /\ LoopInv(c)'
  <1>1. /\ consumer'[c].at = "poll" /\ consumer'[c].phase = "up" /\ consumer'[c].batch = {}
        /\ consumer'[c].begun = {} /\ consumer'[c].freed = {}
    BY DEF Started
  <1>2. Cardinality({}) <= MaxMessages
    BY FS_EmptySet, ConsumerAssumption
  <1>3. Started \in Locals
    BY DEF Started, Locals
  <1>. QED  BY <1>1, <1>2, <1>3 DEF LoopInv, LoopType, GaveBack, LoopKnows, InOrder

\* A loop that goes on to another place with the same batch, none of it begun or
\* given back by this step: it needs to know what that place is about.
LEMMA MovesOn ==
    ASSUME ConsumerInv, Forward, NEW c \in Consumers, NEW i, i = consumer[c].cur.item,
           consumer'[c].batch = consumer[c].batch, consumer'[c].begun = consumer[c].begun,
           consumer'[c].freed = consumer[c].freed,
           consumer'[c] \in Locals, consumer'[c].at \in {"next", "delete", "release", "stopped"},
           consumer'[c].at = "delete" => /\ consumer[c].at = "handle" /\ consumer'[c].cur = consumer[c].cur
                                         /\ WellFormed(Command(c)) /\ Settled(i)',
           consumer'[c].at = "stopped" => GaveBack(c)',
           consumer[c].at \in {"release", "stopped"} => consumer'[c].at \in {"release", "stopped"},
           consumer[c].at = "handle" => Passed(i)'
    PROVE  LoopInv(c)'
  <1>1. LoopInv(c) /\ (faults' = 0 => faults = 0)
    BY Types DEF Forward
  <1>2. LoopType(c)'
    BY <1>1 DEF LoopInv, LoopType
  <1>3. \A r \in consumer[c].batch : /\ r \in Receipts /\ r.item \in Items /\ r.n <= queue'[r.item].receives
                                     /\ ~Held(r) => ~Held(r)'
    BY <1>1, Types, ForwardKeeps DEF LoopInv, LoopType, LoopKnows
  <1>4. GaveBack(c)'
    BY DEF GaveBack
  <1>5. LoopKnows(c)'
    <2>1. ASSUME faults' = 0, NEW r \in consumer[c].freed PROVE ~Held(r)'
      BY <1>1, <1>3, <2>1 DEF LoopInv, LoopKnows, LoopType
    <2>2. (consumer[c].at = "delete" => WellFormed(Command(c)) /\ Settled(consumer[c].cur.item))'
      <3>1. consumer'[c].at = "delete" => (Settled(consumer[c].cur.item))'
        BY DEF Settled, Recorded
      <3>2. consumer'[c].at = "delete" => (WellFormed(Command(c)))'
        BY DEF Command
      <3>. QED  BY <3>1, <3>2
    <2>3. consumer'[c].at \notin {"release", "stopped"} => consumer'[c].freed = {}
      BY <1>1 DEF LoopInv, LoopKnows
    <2>. QED  BY <1>3, <2>1, <2>2, <2>3 DEF LoopKnows
  <1>6. InOrder(c)'
    <2>1. \A k \in Items : Passed(k) => Passed(k)'
      BY ForwardKeeps
    <2>2. InOrder(c) /\ \A r \in consumer[c].begun : r.item \in Items
      BY <1>1, <1>3 DEF LoopInv, LoopType
    <2>3. ASSUME NEW r \in consumer[c].begun PROVE (Passed(r.item))'
      <3>1. CASE Passed(r.item)
        BY <2>1, <2>2, <3>1
      <3>2. CASE ~Passed(r.item)
        <4>1. consumer[c].at = "handle" /\ consumer[c].cur = r
          BY <2>2, <3>2 DEF InOrder
        <4>. QED  BY <4>1 DEF Passed, Done, Recorded
      <3>. QED  BY <3>1, <3>2
    <2>. QED  BY <2>1, <2>2, <2>3 DEF InOrder, Group
  <1>. QED  BY <1>2, <1>4, <1>5, <1>6 DEF LoopInv

\* A step of one loop.
LEMMA OneLoop ==
    ASSUME ConsumerInv, NEW c \in Consumers, NEW L \in Locals, consumer' = [consumer EXCEPT ![c] = L]
    PROVE  /\ consumer' \in [Consumers -> Locals] /\ consumer'[c] = L
           /\ \A d \in Consumers : d # c => consumer'[d] = consumer[d]
  BY Types

\* A loop that only moves to another place.
LEMMA Places ==
    ASSUME ConsumerInv, NEW c \in Consumers, NEW a,
           a \in {"poll", "next", "handle", "delete", "release", "stopped"}, At(c, a)
    PROVE  /\ consumer' \in [Consumers -> Locals]
           /\ \A d \in Consumers : d # c => consumer'[d] = consumer[d]
           /\ consumer'[c] \in Locals /\ consumer'[c].at = a
           /\ consumer'[c].phase = consumer[c].phase /\ consumer'[c].batch = consumer[c].batch
           /\ consumer'[c].begun = consumer[c].begun /\ consumer'[c].freed = consumer[c].freed
           /\ consumer'[c].cur = consumer[c].cur
  <1>1. consumer[c] \in Locals /\ consumer \in [Consumers -> Locals]
    BY Types
  <1>2. PICK L : L = [consumer[c] EXCEPT !.at = a]
    OBVIOUS
  <1>3. /\ L \in Locals /\ L.at = a /\ L.phase = consumer[c].phase /\ L.batch = consumer[c].batch
        /\ L.begun = consumer[c].begun /\ L.freed = consumer[c].freed /\ L.cur = consumer[c].cur
    BY <1>1, <1>2 DEF Locals
  <1>4. consumer' = [consumer EXCEPT ![c] = L]
    BY <1>1, <1>2 DEF At
  <1>. QED  BY <1>3, <1>4, OneLoop

\* A loop that is done with a message.
LEMMA Continues ==
    ASSUME ConsumerInv, NEW c \in Consumers, Continue(c)
    PROVE  /\ consumer' \in [Consumers -> Locals]
           /\ \A d \in Consumers : d # c => consumer'[d] = consumer[d]
           /\ consumer'[c] \in Locals /\ consumer'[c].at = "next"
           /\ consumer'[c].phase = consumer[c].phase /\ consumer'[c].batch = consumer[c].batch
           /\ consumer'[c].begun = consumer[c].begun /\ consumer'[c].freed = consumer[c].freed
  <1>1. consumer[c] \in Locals /\ consumer \in [Consumers -> Locals]
    BY Types
  <1>2. PICK L : L = [consumer[c] EXCEPT !.at = "next", !.cur = NoReceipt]
    OBVIOUS
  <1>3. /\ L \in Locals /\ L.at = "next" /\ L.phase = consumer[c].phase /\ L.batch = consumer[c].batch
        /\ L.begun = consumer[c].begun /\ L.freed = consumer[c].freed
    BY <1>1, <1>2 DEF Locals
  <1>4. consumer' = [consumer EXCEPT ![c] = L]
    BY <1>1, <1>2 DEF Continue
  <1>. QED  BY <1>3, <1>4, OneLoop

-----------------------------------------------------------------------------
(* The queue.                                                              *)

QueueForward ==
    /\ queue' \in QueueType /\ SentInOrder'
    /\ \A i \in Items : /\ queue[i].at = "dead" => queue'[i].at = "dead"
                        /\ queue[i].receives <= queue'[i].receives
                        /\ queue'[i].at = "flight" /\ queue'[i].receives = queue[i].receives
                           => queue[i].at = "flight"

\* One message that is not dead becomes visible, deleted or dead.
LEMMA OneMessage ==
    ASSUME ConsumerInv, NEW i \in Items, NEW a \in {"visible", "deleted", "dead"},
           queue[i].at # "dead", queue' = [queue EXCEPT ![i].at = a],
           queue[i].at # "unsent" \/ \A j \in 1..(i - 1) : queue[j].at # "unsent"
    PROVE  /\ QueueForward
           /\ \A j \in Items : queue'[j].at = "deleted" =>
                  queue[j].at = "deleted" \/ (j = i /\ a = "deleted")
  <1>1. queue \in QueueType /\ SentInOrder
    BY Types
  <1>2. /\ queue'[i].at = a /\ queue'[i].receives = queue[i].receives
        /\ \A j \in Items : j # i => queue'[j] = queue[j]
    BY <1>1 DEF QueueType
  <1>3. queue' \in QueueType
    BY <1>1 DEF QueueType
  <1>4. \A j \in Items : j \in Nat /\ queue[j].receives \in Nat
    BY <1>1 DEF Items, QueueType
  <1>5. SentInOrder'
    <2>. SUFFICES ASSUME NEW j \in Items, NEW k \in Items, j < k, queue'[k].at # "unsent"
                  PROVE  queue'[j].at # "unsent"
      BY DEF SentInOrder
    <2>1. CASE j = i
      BY <1>2, <2>1
    <2>2. CASE j # i /\ k # i
      BY <1>1, <1>2, <2>2 DEF SentInOrder
    <2>3. CASE j # i /\ k = i
      <3>1. j \in 1..(i - 1)
        BY <2>3 DEF Items
      <3>2. queue[j].at # "unsent"
        BY <1>1, <2>3, <3>1 DEF SentInOrder
      <3>. QED  BY <1>2, <2>3, <3>2
    <2>. QED  BY <2>1, <2>2, <2>3
  <1>. QED  BY <1>2, <1>3, <1>4, <1>5 DEF QueueForward

\* A batch that is handed out is received once more.
LEMMA Handed ==
    ASSUME ConsumerInv, NEW S \in Batches, HandOut(S)
    PROVE  /\ QueueForward
           /\ \A j \in Items : queue'[j].at = "deleted" => queue[j].at = "deleted"
           /\ \A i \in S : /\ i \in Items /\ queue[i].receives + 1 \in 1..MaxReceive
                           /\ queue'[i].receives = queue[i].receives + 1
  <1>1. queue \in QueueType /\ SentInOrder
    BY Types
  <1>2. \A i \in S : i \in Items /\ queue[i].at = "visible" /\ queue[i].receives < MaxReceive
    BY DEF Batches, Visible
  <1>3. \A i \in Items : /\ queue[i].receives \in 0..MaxReceive
                         /\ queue[i].at \in {"unsent", "visible", "flight", "deleted", "dead"}
    BY <1>1 DEF QueueType
  <1>4. \A i \in S : queue[i].receives + 1 \in 1..MaxReceive
    BY <1>2, <1>3, ConsumerAssumption
  <1>5. queue' = [i \in Items |-> IF i \in S THEN [at |-> "flight", receives |-> queue[i].receives + 1]
                                  ELSE queue[i]]
    BY DEF HandOut
  <1>6. /\ \A i \in S : queue'[i].at = "flight" /\ queue'[i].receives = queue[i].receives + 1
        /\ \A i \in Items : i \notin S => queue'[i] = queue[i]
    BY <1>2, <1>5
  <1>7. queue' \in QueueType
    <2>1. \A i \in S : [at |-> "flight", receives |-> queue[i].receives + 1]
                         \in [at : {"unsent", "visible", "flight", "deleted", "dead"},
                              receives : 0..MaxReceive]
      BY <1>4
    <2>2. \A i \in Items : queue[i] \in [at : {"unsent", "visible", "flight", "deleted", "dead"},
                                         receives : 0..MaxReceive]
      BY <1>1 DEF QueueType
    <2>. QED  BY <1>5, <2>1, <2>2 DEF QueueType
  <1>8. SentInOrder'
    BY <1>1, <1>2, <1>6 DEF SentInOrder
  <1>9. \A i \in Items : /\ queue[i].at = "dead" => queue'[i].at = "dead"
                         /\ queue[i].receives <= queue'[i].receives
                         /\ queue'[i].at = "flight" /\ queue'[i].receives = queue[i].receives
                            => queue[i].at = "flight"
    BY <1>2, <1>3, <1>6
  <1>. QED  BY <1>2, <1>4, <1>6, <1>7, <1>8, <1>9 DEF QueueForward

\* How the tables of a step move forward.
LEMMA MovesForward ==
    ASSUME ConsumerInv, QueueForward \/ queue' = queue,
           inbox' = inbox \/ (DOMAIN inbox' = Messages /\ \A m \in Messages : Recorded(m) => inbox'[m] = inbox[m]),
           failed \subseteq failed' /\ failed' \subseteq Items,
           Fault \/ UNCHANGED faults, stops' \in 0..MaxStops
    PROVE  Forward /\ SentInOrder'
  <1>1. /\ queue \in QueueType /\ SentInOrder /\ DOMAIN inbox = Messages
        /\ faults \in 0..MaxFaults /\ MaxFaults \in Nat
    BY Types, ConsumerAssumption
  <1>2. faults' \in 0..MaxFaults /\ (faults' = 0 => faults = 0)
    BY <1>1 DEF Fault
  <1>3. QueueForward
    <2>1. CASE queue' = queue
      <3>1. \A i \in Items : queue[i].receives \in Nat
        BY <1>1 DEF QueueType
      <3>2. SentInOrder'
        BY <1>1, <2>1 DEF SentInOrder
      <3>. QED  BY <1>1, <2>1, <3>1, <3>2 DEF QueueForward
    <2>. QED  BY <2>1
  <1>. QED  BY <1>1, <1>2, <1>3 DEF Forward, QueueForward

-----------------------------------------------------------------------------
(* The steps.                                                              *)

\* A step that records nothing brings nothing forward in the order.
LEMMA NothingDone ==
    ASSUME UNCHANGED inbox
    PROVE  DistinctIds => \A i, j \in Items : Group(i) = Group(j) /\ i < j /\ Done(j)' => Done(j) \/ Passed(i)
  BY DEF Done, Recorded

\* Providers, the visibility timeout and the redrive policy touch the queue alone.
LEMMA QueueSteps ==
    ASSUME ConsumerInv, NEW i \in Items, Send(i) \/ Lapse(i) \/ Redrive(i) PROVE ConsumerInv'
  <1>1. UNCHANGED <<service, consumer, failed, stops, faults>>
    BY DEF Send, Lapse, Redrive
  <1>2. QueueForward /\ \A j \in Items : queue'[j].at = "deleted" => queue[j].at = "deleted"
    <2>1. CASE Send(i)
      BY <2>1, OneMessage DEF Send
    <2>2. CASE Lapse(i)
      BY <2>2, OneMessage DEF Lapse, InFlight
    <2>3. CASE Redrive(i)
      BY <2>3, OneMessage DEF Redrive, Visible
    <2>. QED  BY <2>1, <2>2, <2>3
  <1>3. /\ UNCHANGED inbox /\ failed' \subseteq Items /\ stops' \in 0..MaxStops
        /\ consumer' \in [Consumers -> Locals]
    BY <1>1, Types DEF service
  <1>4. Forward /\ SentInOrder'
    BY <1>1, <1>2, <1>3, MovesForward
  <1>. QED  BY <1>1, <1>2, <1>3, <1>4, NothingDone, StepKeeps

\* So does a receive whose answer is lost.
LEMMA ReceiveLostKeeps ==
    ASSUME ConsumerInv, NEW c \in Consumers, ReceiveLost(c) PROVE ConsumerInv'
  <1>1. UNCHANGED <<service, consumer, failed, stops>> /\ Fault
    BY DEF ReceiveLost
  <1>2. QueueForward /\ \A j \in Items : queue'[j].at = "deleted" => queue[j].at = "deleted"
    BY Handed DEF ReceiveLost
  <1>3. /\ UNCHANGED inbox /\ failed' \subseteq Items /\ stops' \in 0..MaxStops
        /\ consumer' \in [Consumers -> Locals]
    BY <1>1, Types DEF service
  <1>4. Forward /\ SentInOrder'
    BY <1>1, <1>2, <1>3, MovesForward
  <1>. QED  BY <1>1, <1>2, <1>3, <1>4, NothingDone, StepKeeps

\* A set of receipts, one for each message of a batch, is no larger than the batch.
LEMMA BatchSize ==
    ASSUME ConsumerInv, NEW S \in Batches, NEW B, B = { Receipt(i, queue[i].receives + 1) : i \in S }
    PROVE  Cardinality(B) <= MaxMessages
  <1>1. IsFiniteSet(S) /\ Cardinality(S) <= MaxMessages
    <2>1. S \subseteq Items /\ Cardinality(S) <= MaxMessages
      BY DEF Batches
    <2>2. IsFiniteSet(Items)
      BY FS_Interval, ConsumerAssumption DEF Items
    <2>. QED  BY <2>1, <2>2, FS_Subset
  <1>2. PICK f : f = [i \in S |-> Receipt(i, queue[i].receives + 1)]
    OBVIOUS
  <1>3. f \in Surjection(S, B)
    BY <1>2 DEF Surjection
  <1>4. IsFiniteSet(B) /\ Cardinality(B) <= Cardinality(S)
    BY <1>1, <1>3, FS_Surjection
  <1>5. Cardinality(B) \in Nat /\ Cardinality(S) \in Nat
    BY <1>1, <1>4, FS_CardinalityType
  <1>. QED  BY <1>1, <1>4, <1>5, ConsumerAssumption

\* What a receive returns is, of each group, the first messages that have not passed.
LEMMA ReceiveKeeps ==
    ASSUME ConsumerInv, NEW c \in Consumers, ReceiveMessage(c) PROVE ConsumerInv'
  <1>1. PICK S \in Batches : /\ HandOut(S)
                             /\ consumer' = [consumer EXCEPT ![c] =
                                    [Started EXCEPT !.at = "next",
                                       !.batch = { Receipt(i, queue[i].receives + 1) : i \in S }]]
    BY DEF ReceiveMessage
  <1>2. UNCHANGED <<service, failed, stops, faults>>
    BY DEF ReceiveMessage
  <1>3. /\ QueueForward
        /\ \A j \in Items : queue'[j].at = "deleted" => queue[j].at = "deleted"
        /\ \A i \in S : /\ i \in Items /\ queue[i].receives + 1 \in 1..MaxReceive
                        /\ queue'[i].receives = queue[i].receives + 1
    BY <1>1, Handed
  <1>4. UNCHANGED inbox /\ failed' \subseteq Items /\ stops' \in 0..MaxStops
    BY <1>2, Types DEF service
  <1>5. Forward /\ SentInOrder'
    BY <1>2, <1>3, <1>4, MovesForward
  <1>6. PICK B : B = { Receipt(i, queue[i].receives + 1) : i \in S }
    OBVIOUS
  <1>7. /\ \A r \in B : r \in Receipts /\ r.item \in S /\ r.n = queue'[r.item].receives
        /\ \A i \in S : \E r \in B : r.item = i
    <2>1. \A i \in S : Receipt(i, queue[i].receives + 1) \in Receipts
      BY <1>3 DEF Receipt, Receipts
    <2>2. \A i \in S : Receipt(i, queue[i].receives + 1).item = i
                       /\ Receipt(i, queue[i].receives + 1).n = queue[i].receives + 1
      BY DEF Receipt
    <2>. QED  BY <1>3, <1>6, <2>1, <2>2
  <1>8. /\ consumer' \in [Consumers -> Locals] /\ consumer'[c] \in Locals
        /\ \A d \in Consumers : d # c => consumer'[d] = consumer[d]
        /\ consumer'[c].at = "next" /\ consumer'[c].phase = "up" /\ consumer'[c].batch = B
        /\ consumer'[c].begun = {} /\ consumer'[c].freed = {}
    <2>1. PICK L : L = [Started EXCEPT !.at = "next", !.batch = B]
      OBVIOUS
    <2>2. L.at = "next" /\ L.phase = "up" /\ L.batch = B /\ L.begun = {} /\ L.freed = {}
      BY <2>1 DEF Started
    <2>3. consumer' = [consumer EXCEPT ![c] = L]
      BY <1>1, <1>6, <2>1, Zenon
    <2>4. L \in Locals
      BY <1>7, <2>1 DEF Started, Locals
    <2>. QED  BY <2>2, <2>3, <2>4, OneLoop
  <1>9. LoopType(c)'
    <2>1. Cardinality(B) <= MaxMessages
      BY <1>6, BatchSize
    <2>. QED  BY <1>8, <1>7, <2>1 DEF LoopType
  <1>10. GaveBack(c)' /\ LoopKnows(c)'
    <2>1. \A r \in B : r.n <= queue'[r.item].receives
      <3>1. \A r \in B : r.n \in Nat
        BY <1>7, Types
      <3>. QED  BY <1>7, <3>1
    <2>. QED  BY <1>8, <2>1 DEF GaveBack, LoopKnows
  <1>11. InOrder(c)'
    <2>1. ASSUME NEW r \in B, NEW i \in Items, Group(i) = Group(r.item), i < r.item, i \notin S
          PROVE  Passed(i)'
      <3>1. PICK j \in S : j = r.item
        BY <1>7
      <3>2. /\ j \in Items /\ queue[j].at = "visible"
            /\ queue[i].at # "flight" /\ queue[i].at # "visible"
        BY <2>1, <3>1 DEF Batches, InFlight, Visible
      <3>3. queue[i].at # "unsent"
        BY <2>1, <3>1, <3>2, Types DEF SentInOrder
      <3>4. queue[i].at \in {"deleted", "dead"}
        BY <3>2, <3>3, Types DEF QueueType
      <3>5. Passed(i)
        BY <3>4 DEF Passed, Done, ConsumerInv, DeletedWereSettled, Settled
      <3>. QED  BY <1>5, <3>5, ForwardKeeps
    <2>. QED  BY <1>8, <1>7, <2>1 DEF InOrder, Group
  <1>12. \A d \in Consumers : consumer'[d] = consumer[d] \/ LoopInv(d)'
    BY <1>8, <1>9, <1>10, <1>11 DEF LoopInv
  <1>. QED  BY <1>3, <1>4, <1>5, <1>8, <1>12, NothingDone, StepKeeps

\* Run returns from a poll with empty hands, whatever the queue handed out to it.
LEMMA ReturnKeeps ==
    ASSUME ConsumerInv, NEW c \in Consumers, ReturnFromRun(c) PROVE ConsumerInv'
  <1>1. /\ UNCHANGED <<service, failed, stops, faults>> /\ consumer[c].at = "poll"
        /\ At(c, "stopped")
    BY DEF ReturnFromRun
  <1>2. QueueForward /\ \A j \in Items : queue'[j].at = "deleted" => queue[j].at = "deleted"
    BY Handed DEF ReturnFromRun
  <1>3. UNCHANGED inbox /\ failed' \subseteq Items /\ stops' \in 0..MaxStops
    BY <1>1, Types DEF service
  <1>4. Forward /\ SentInOrder'
    BY <1>1, <1>2, <1>3, MovesForward
  <1>5. /\ consumer' \in [Consumers -> Locals]
        /\ \A d \in Consumers : d # c => consumer'[d] = consumer[d]
        /\ consumer'[c] \in Locals /\ consumer'[c].at = "stopped"
        /\ consumer'[c].batch = consumer[c].batch /\ consumer'[c].begun = consumer[c].begun
        /\ consumer'[c].freed = consumer[c].freed
    BY <1>1, Places
  <1>6. LoopInv(c) /\ consumer[c].batch = {}
    BY <1>1, Types DEF LoopInv, LoopKnows
  <1>7. LoopInv(c)'
    <2>1. GaveBack(c)'
      BY <1>5, <1>6 DEF GaveBack
    <2>. QED  BY <1>1, <1>4, <1>5, <1>6, <2>1, MovesOn
  <1>8. \A d \in Consumers : consumer'[d] = consumer[d] \/ LoopInv(d)'
    BY <1>5, <1>7
  <1>. QED  BY <1>2, <1>3, <1>4, <1>5, <1>8, NothingDone, StepKeeps

\* While there is something to do, there is something to do next.
LEMMA SomethingNext ==
    ASSUME ConsumerInv, NEW c \in Consumers, Todo(c) # {} PROVE Upcoming(c) # {}
  <1>1. PICK T : T = { r.item : r \in Todo(c) }
    OBVIOUS
  <1>2. \A r \in Todo(c) : r.item \in Nat
    BY Types DEF Todo
  <1>3. T \subseteq Nat /\ T # {}
    BY <1>1, <1>2
  <1>4. PICK m \in T : \A k \in T : ~(<<k, m>> \in OpToRel(<, Nat))
    BY <1>3, NatLessThanWellFounded, WFMin
  <1>5. \A k \in T : k >= m
    <2>. SUFFICES ASSUME NEW k \in T, k < m PROVE FALSE
      BY <1>3
    <2>1. <<k, m>> \in Nat \X Nat /\ <<k, m>>[1] < <<k, m>>[2]
      BY <1>3
    <2>2. <<k, m>> \in OpToRel(<, Nat)
      BY <2>1, Zenon DEF OpToRel
    <2>. QED  BY <1>4, <2>2, Zenon
  <1>6. PICK r \in Todo(c) : r.item = m
    BY <1>1
  <1>. QED  BY <1>1, <1>5, <1>6 DEF Upcoming

\* The loop takes the first message of a group, gives up, or is done with its batch.
LEMMA BeginKeeps ==
    ASSUME ConsumerInv, NEW c \in Consumers, Begin(c) PROVE ConsumerInv'
  <1>1. UNCHANGED <<service, queue, failed, stops, faults>> /\ consumer[c].at = "next"
    BY DEF Begin
  <1>2. UNCHANGED inbox /\ failed' \subseteq Items /\ stops' \in 0..MaxStops
    BY <1>1, Types DEF service
  <1>3. Forward /\ SentInOrder'
    BY <1>1, <1>2, MovesForward
  <1>4. LoopInv(c) /\ consumer[c] \in Locals /\ consumer \in [Consumers -> Locals]
        /\ consumer[c].freed = {}
    BY <1>1, Types DEF LoopInv, LoopKnows
  <1>5. /\ consumer' \in [Consumers -> Locals]
        /\ \A d \in Consumers : d # c => consumer'[d] = consumer[d]
        /\ LoopInv(c)'
    <2>1. CASE Upcoming(c) = {} /\ PollAgain(c)
      <3>1. Todo(c) = {}
        BY <2>1, SomethingNext
      <3>2. CASE consumer' = [consumer EXCEPT ![c] = Started]
        BY <1>4, <3>2, StartedKeeps, OneLoop
      <3>3. CASE At(c, "stopped")
        <4>1. /\ consumer' \in [Consumers -> Locals]
              /\ \A d \in Consumers : d # c => consumer'[d] = consumer[d]
              /\ consumer'[c] \in Locals /\ consumer'[c].at = "stopped"
              /\ consumer'[c].batch = consumer[c].batch /\ consumer'[c].begun = consumer[c].begun
              /\ consumer'[c].freed = consumer[c].freed
          BY <3>3, Places
        <4>2. GaveBack(c)'
          BY <3>1, <4>1 DEF GaveBack, Todo
        <4>3. LoopInv(c)'
          BY <1>1, <1>3, <4>1, <4>2, MovesOn
        <4>. QED  BY <4>1, <4>3
      <3>. QED  BY <2>1, <3>2, <3>3 DEF PollAgain
    <2>2. ASSUME NEW r \in Upcoming(c), At(c, "release")
          PROVE  /\ consumer' \in [Consumers -> Locals]
                 /\ \A d \in Consumers : d # c => consumer'[d] = consumer[d]
                 /\ LoopInv(c)'
      <3>1. /\ consumer' \in [Consumers -> Locals]
            /\ \A d \in Consumers : d # c => consumer'[d] = consumer[d]
            /\ consumer'[c] \in Locals /\ consumer'[c].at = "release"
            /\ consumer'[c].batch = consumer[c].batch /\ consumer'[c].begun = consumer[c].begun
            /\ consumer'[c].freed = consumer[c].freed
        BY <2>2, Places
      <3>2. LoopInv(c)'
        BY <1>1, <1>3, <3>1, MovesOn
      <3>. QED  BY <3>1, <3>2
    <2>3. ASSUME NEW r \in Upcoming(c),
                 consumer' = [consumer EXCEPT ![c].at = "handle", ![c].cur = r, ![c].begun = @ \cup {r}]
          PROVE  /\ consumer' \in [Consumers -> Locals]
                 /\ \A d \in Consumers : d # c => consumer'[d] = consumer[d]
                 /\ LoopInv(c)'
      <3>1. /\ r \in consumer[c].batch /\ r \notin consumer[c].begun /\ r \in Receipts
            /\ \A s \in consumer[c].batch : s \notin consumer[c].begun /\ Group(s.item) = Group(r.item)
                                            => s.item >= r.item
        BY Types DEF Upcoming, Todo
      <3>2. PICK L : L = [consumer[c] EXCEPT !.at = "handle", !.cur = r, !.begun = consumer[c].begun \cup {r}]
        OBVIOUS
      <3>3. /\ L \in Locals /\ L.at = "handle" /\ L.cur = r /\ L.begun = consumer[c].begun \cup {r}
            /\ L.batch = consumer[c].batch /\ L.freed = consumer[c].freed
        BY <1>4, <3>1, <3>2 DEF Locals
      <3>4. consumer' = [consumer EXCEPT ![c] = L]
        BY <1>4, <2>3, <3>2
      <3>5. /\ consumer' \in [Consumers -> Locals] /\ consumer'[c] = L
            /\ \A d \in Consumers : d # c => consumer'[d] = consumer[d]
        BY <3>3, <3>4, OneLoop
      <3>6. LoopType(c)' /\ GaveBack(c)'
        BY <1>4, <3>1, <3>3, <3>5 DEF LoopInv, LoopType, GaveBack
      <3>7. LoopKnows(c)'
        BY <1>1, <1>4, <3>3, <3>5 DEF LoopInv, LoopKnows
      <3>8. \A s \in consumer[c].batch : s.item \in Nat /\ s.item \in Items
        BY Types
      <3>9. \A i \in Items : Passed(i) => Passed(i)'
        BY <1>3, ForwardKeeps
      <3>10. InOrder(c)'
        <4>1. InOrder(c) /\ consumer[c].begun \subseteq consumer[c].batch
          BY <1>4 DEF LoopInv, LoopType
        <4>2. ASSUME NEW q \in consumer[c].begun \cup {r}, NEW s \in consumer[c].batch,
                     Group(s.item) = Group(q.item), s.item < q.item
              PROVE  s \in consumer[c].begun \cup {r}
          BY <3>1, <3>8, <4>1, <4>2 DEF InOrder
        <4>3. \A q \in consumer[c].begun : (Passed(q.item))'
          BY <1>1, <3>8, <3>9, <4>1 DEF InOrder
        <4>. QED  BY <3>3, <3>5, <3>9, <4>1, <4>2, <4>3 DEF InOrder, Group
      <3>. QED  BY <3>5, <3>6, <3>7, <3>10 DEF LoopInv
    <2>. QED  BY <2>1, <2>2, <2>3 DEF Begin
  <1>. QED  BY <1>1, <1>2, <1>3, <1>5, NothingDone, StepKeeps

-----------------------------------------------------------------------------
(* Handling a message.                                                     *)

\* Execute records the message and touches no other row of the inbox.
LEMMA Executes ==
    ASSUME ConsumerInv, NEW i \in Items, WellFormed(Post[i]), Execute(Post[i])
    PROVE  /\ DOMAIN inbox' = Messages
           /\ \A m \in Messages : Recorded(m) => inbox'[m] = inbox[m]
           /\ \A m \in Messages : m # Post[i].msg => inbox'[m] = inbox[m]
           /\ Settled(i)'
  <1>1. PICK m0 \in Messages : m0 = Post[i].msg
    BY Types DEF WellFormed
  <1>2. DOMAIN inbox = Messages /\ m0 # None
    BY <1>1, Types DEF WellFormed
  <1>3. CASE Recorded(m0) /\ inbox[m0].body = Post[i].body /\ UNCHANGED service
    BY <1>1, <1>2, <1>3 DEF Settled, Recorded, service
  <1>4. ASSUME NEW id \in TxIds \cup Wallets, ~Recorded(m0), RecordMessage(Post[i], id)
        PROVE  /\ DOMAIN inbox' = Messages
               /\ \A m \in Messages : Recorded(m) => inbox'[m] = inbox[m]
               /\ \A m \in Messages : m # Post[i].msg => inbox'[m] = inbox[m]
               /\ Settled(i)'
    <2>1. inbox' = [inbox EXCEPT ![m0] = [id |-> id, body |-> Post[i].body]]
      BY <1>1, <1>2, <1>4 DEF RecordMessage
    <2>2. id # None
      BY ConsumerAssumption
    <2>3. inbox'[m0].id = id /\ inbox'[m0].body = Post[i].body
      BY <1>2, <2>1
    <2>4. Settled(i)'
      BY <1>1, <2>2, <2>3 DEF Settled, Recorded
    <2>. QED  BY <1>1, <1>2, <1>4, <2>1, <2>4
  <1>5. ASSUME NEW id \in SameKey(Post[i]), Repeat(Post[i], id)
        PROVE  ~Recorded(m0) /\ RecordMessage(Post[i], id) /\ id \in TxIds \cup Wallets
    BY <1>1, <1>5 DEF Repeat, SameKey, Related, Ids
  <1>6. ASSUME NEW id \in TxIds, Accept(Post[i], id)
        PROVE  ~Recorded(m0) /\ RecordMessage(Post[i], id)
    BY <1>1, <1>2, <1>6 DEF Accept
  <1>. QED  BY <1>1, <1>3, <1>4, <1>5, <1>6 DEF Execute

\* By the time a message is handled, every earlier message of its group has passed.
LEMMA EarlierPassed ==
    ASSUME ConsumerInv, NEW c \in Consumers, consumer[c].at = "handle"
    PROVE  /\ consumer[c].cur.item \in Items
           /\ \A k \in Items : Group(k) = Group(consumer[c].cur.item) /\ k < consumer[c].cur.item => Passed(k)
  <1>1. /\ LoopInv(c) /\ consumer[c].cur \in consumer[c].begun /\ consumer[c].begun \subseteq consumer[c].batch
        /\ consumer[c].batch \subseteq Receipts
    BY Types DEF LoopInv, LoopType
  <1>2. PICK r \in Receipts : r = consumer[c].cur
    BY <1>1
  <1>3. r.item \in Items /\ \A s \in Receipts : s.item \in Nat
    BY Types
  <1>4. ASSUME NEW k \in Items, Group(k) = Group(r.item), k < r.item PROVE Passed(k)
    <2>1. CASE \E s \in consumer[c].batch : s.item = k
      <3>1. PICK s \in consumer[c].batch : s.item = k
        BY <2>1
      <3>2. s \in consumer[c].begun
        BY <1>1, <1>2, <1>4, <3>1 DEF LoopInv, InOrder
      <3>3. s # r
        BY <1>3, <1>4, <3>1
      <3>. QED  BY <1>1, <1>2, <3>1, <3>2, <3>3 DEF LoopInv, InOrder
    <2>. QED  BY <1>1, <1>2, <1>4, <2>1 DEF LoopInv, InOrder
  <1>. QED  BY <1>2, <1>3, <1>4

\* A step that handles a message, whatever becomes of the call: if the message is
\* recorded by it, those before it have passed.
LEMMA HandledInOrder ==
    ASSUME ConsumerInv, NEW c \in Consumers, consumer[c].at = "handle", WellFormed(Command(c)),
           Execute(Command(c)) \/ UNCHANGED service
    PROVE  /\ inbox' = inbox \/ (DOMAIN inbox' = Messages /\ \A m \in Messages : Recorded(m) => inbox'[m] = inbox[m])
           /\ DistinctIds =>
                  \A i, j \in Items : Group(i) = Group(j) /\ i < j /\ Done(j)' => Done(j) \/ Passed(i)
  <1>1. CASE UNCHANGED service
    <2>1. UNCHANGED inbox
      BY <1>1 DEF service
    <2>. QED  BY <2>1, NothingDone
  <1>2. CASE Execute(Command(c))
    <2>1. PICK k \in Items : k = consumer[c].cur.item
      BY EarlierPassed
    <2>2. WellFormed(Post[k]) /\ Execute(Post[k])
      BY <1>2, <2>1 DEF Command
    <2>3. /\ DOMAIN inbox' = Messages
          /\ \A m \in Messages : Recorded(m) => inbox'[m] = inbox[m]
          /\ \A m \in Messages : m # Post[k].msg => inbox'[m] = inbox[m]
      BY <2>2, Executes
    <2>4. ASSUME DistinctIds, NEW i \in Items, NEW j \in Items, Group(i) = Group(j), i < j, Done(j)'
          PROVE  Done(j) \/ Passed(i)
      <3>1. CASE j = k
        BY <2>1, <2>4, <3>1, EarlierPassed
      <3>2. CASE j # k
        <4>1. WellFormed(Post[j]) /\ Recorded(Post[j].msg)'
          BY <2>4 DEF Done
        <4>2. Post[j].msg \in Messages /\ Post[j].msg # Post[k].msg
          BY <2>4, <3>2, <4>1, Types DEF DistinctIds, WellFormed
        <4>. QED  BY <2>3, <4>1, <4>2 DEF Done, Recorded
      <3>. QED  BY <3>1, <3>2
    <2>. QED  BY <2>3, <2>4
  <1>. QED  BY <1>1, <1>2

\* A message is deleted only after Execute succeeded.
LEMMA HandleKeeps ==
    ASSUME ConsumerInv, NEW c \in Consumers, Handle(c) PROVE ConsumerInv'
  <1>1. /\ UNCHANGED <<queue, failed, stops, faults>> /\ consumer[c].at = "handle"
        /\ WellFormed(Command(c)) /\ Execute(Command(c)) /\ At(c, "delete")
    BY DEF Handle
  <1>2. failed' \subseteq Items /\ stops' \in 0..MaxStops
    BY <1>1, Types
  <1>3. /\ inbox' = inbox \/ (DOMAIN inbox' = Messages /\ \A m \in Messages : Recorded(m) => inbox'[m] = inbox[m])
        /\ DistinctIds =>
               \A i, j \in Items : Group(i) = Group(j) /\ i < j /\ Done(j)' => Done(j) \/ Passed(i)
    BY <1>1, HandledInOrder
  <1>4. Forward /\ SentInOrder'
    BY <1>1, <1>2, <1>3, MovesForward
  <1>5. /\ consumer' \in [Consumers -> Locals]
        /\ \A d \in Consumers : d # c => consumer'[d] = consumer[d]
        /\ consumer'[c] \in Locals /\ consumer'[c].at = "delete" /\ consumer'[c].cur = consumer[c].cur
        /\ consumer'[c].batch = consumer[c].batch /\ consumer'[c].begun = consumer[c].begun
        /\ consumer'[c].freed = consumer[c].freed
    BY <1>1, Places
  <1>6. PICK i \in Items : i = consumer[c].cur.item
    BY <1>1, EarlierPassed
  <1>7. Settled(i)' /\ WellFormed(Post[i])
    BY <1>1, <1>6, Executes DEF Command
  <1>8. Passed(i)'
    BY <1>7 DEF Passed, Done, Settled
  <1>9. LoopInv(c)'
    BY <1>1, <1>4, <1>5, <1>6, <1>7, <1>8, MovesOn
  <1>. QED  BY <1>1, <1>3, <1>4, <1>5, <1>9, StepKeeps

\* A message whose handling ended in an error counts as passed.
LEMMA BlameKeeps ==
    ASSUME ConsumerInv, NEW c \in Consumers, consumer[c].at = "handle", Continue(c), Blame(c),
           UNCHANGED <<queue, stops>>, Fault \/ UNCHANGED faults,
           inbox' = inbox \/ (DOMAIN inbox' = Messages /\ \A m \in Messages : Recorded(m) => inbox'[m] = inbox[m]),
           DistinctIds =>
               \A i, j \in Items : Group(i) = Group(j) /\ i < j /\ Done(j)' => Done(j) \/ Passed(i)
    PROVE  ConsumerInv'
  <1>1. PICK i \in Items : i = consumer[c].cur.item
    BY EarlierPassed
  <1>2. failed' = failed \cup {i} /\ failed \subseteq failed' /\ failed' \subseteq Items /\ stops' \in 0..MaxStops
    BY <1>1, Types DEF Blame
  <1>3. Forward /\ SentInOrder'
    BY <1>2, MovesForward
  <1>4. /\ consumer' \in [Consumers -> Locals]
        /\ \A d \in Consumers : d # c => consumer'[d] = consumer[d]
        /\ consumer'[c] \in Locals /\ consumer'[c].at = "next"
        /\ consumer'[c].batch = consumer[c].batch /\ consumer'[c].begun = consumer[c].begun
        /\ consumer'[c].freed = consumer[c].freed
    BY Continues
  <1>5. Passed(i)'
    BY <1>2 DEF Passed
  <1>6. LoopInv(c)'
    BY <1>1, <1>3, <1>4, <1>5, MovesOn
  <1>. QED  BY <1>3, <1>4, <1>6, StepKeeps

\* A message that cannot be processed is left in the queue.
LEMMA HandleRefusedKeeps ==
    ASSUME ConsumerInv, NEW c \in Consumers, HandleRefused(c) PROVE ConsumerInv'
  <1>1. /\ UNCHANGED <<service, queue, stops, faults>> /\ consumer[c].at = "handle"
        /\ Continue(c) /\ Blame(c)
    BY DEF HandleRefused, LeaveForDLQ
  <1>2. UNCHANGED inbox
    BY <1>1 DEF service
  <1>. QED  BY <1>1, <1>2, NothingDone, BlameKeeps

\* So is one whose call failed, even if its unit of work was committed.
LEMMA HandleFailsKeeps ==
    ASSUME ConsumerInv, NEW c \in Consumers, HandleFails(c) PROVE ConsumerInv'
  <1>1. /\ UNCHANGED <<queue, stops>> /\ consumer[c].at = "handle" /\ (Fault \/ UNCHANGED faults)
        /\ WellFormed(Command(c)) /\ (Execute(Command(c)) \/ UNCHANGED service) /\ Continue(c) /\ Blame(c)
    BY DEF HandleFails
  <1>2. /\ inbox' = inbox \/ (DOMAIN inbox' = Messages /\ \A m \in Messages : Recorded(m) => inbox'[m] = inbox[m])
        /\ DistinctIds =>
               \A i, j \in Items : Group(i) = Group(j) /\ i < j /\ Done(j)' => Done(j) \/ Passed(i)
    BY <1>1, HandledInOrder
  <1>. QED  BY <1>1, <1>2, BlameKeeps

\* DeleteMessage deletes the message that was settled, or nothing.
LEMMA DeleteKeeps ==
    ASSUME ConsumerInv, NEW c \in Consumers, DeleteMessage(c) PROVE ConsumerInv'
  <1>1. /\ UNCHANGED <<service, failed, stops>> /\ consumer[c].at = "delete"
        /\ Continue(c) /\ (Fault \/ UNCHANGED faults)
    BY DEF DeleteMessage
  <1>2. LoopInv(c) /\ consumer[c].cur \in Receipts
    BY <1>1, Types DEF LoopInv, LoopType
  <1>3. PICK i \in Items : i = consumer[c].cur.item
    BY <1>2, Types
  <1>4. WellFormed(Post[i]) /\ Settled(i)
    BY <1>1, <1>2, <1>3 DEF LoopInv, LoopKnows, Command
  <1>5. /\ QueueForward \/ queue' = queue
        /\ \A j \in Items : queue'[j].at = "deleted" => queue[j].at = "deleted" \/ j = i
    <2>1. CASE queue' = queue
      BY <2>1
    <2>2. CASE (queue[i].at = "flight" \/ queue[i].at = "visible")
               /\ queue' = [queue EXCEPT ![i].at = "deleted"]
      BY <2>2, OneMessage
    <2>. QED  BY <1>3, <2>1, <2>2 DEF DeleteMessage, InFlight, Visible
  <1>6. UNCHANGED inbox /\ failed' \subseteq Items /\ stops' \in 0..MaxStops
    BY <1>1, Types DEF service
  <1>7. Forward /\ SentInOrder'
    BY <1>1, <1>5, <1>6, MovesForward
  <1>8. /\ consumer' \in [Consumers -> Locals]
        /\ \A d \in Consumers : d # c => consumer'[d] = consumer[d]
        /\ consumer'[c] \in Locals /\ consumer'[c].at = "next"
        /\ consumer'[c].batch = consumer[c].batch /\ consumer'[c].begun = consumer[c].begun
        /\ consumer'[c].freed = consumer[c].freed
    BY <1>1, Continues
  <1>9. LoopInv(c)'
    BY <1>1, <1>7, <1>8, MovesOn
  <1>. QED  BY <1>4, <1>5, <1>6, <1>7, <1>8, <1>9, NothingDone, StepKeeps

\* What release has made visible is not held any more; once it has reached the end,
\* nothing that was not begun is.
LEMMA ReleaseKeeps ==
    ASSUME ConsumerInv, NEW c \in Consumers, ChangeMessageVisibility(c) PROVE ConsumerInv'
  <1>1. UNCHANGED <<service, failed, stops>> /\ consumer[c].at = "release"
    BY DEF ChangeMessageVisibility
  <1>2. LoopInv(c) /\ consumer[c] \in Locals /\ consumer \in [Consumers -> Locals]
        /\ consumer[c].batch \subseteq Receipts
    BY Types
  <1>3. UNCHANGED inbox /\ failed' \subseteq Items /\ stops' \in 0..MaxStops
    BY <1>1, Types DEF service
  <1>4. CASE ToRelease(c) = {} /\ At(c, "stopped") /\ UNCHANGED <<queue, faults>>
    <2>1. Forward /\ SentInOrder'
      BY <1>1, <1>3, <1>4, MovesForward
    <2>2. /\ consumer' \in [Consumers -> Locals]
          /\ \A d \in Consumers : d # c => consumer'[d] = consumer[d]
          /\ consumer'[c] \in Locals /\ consumer'[c].at = "stopped"
          /\ consumer'[c].batch = consumer[c].batch /\ consumer'[c].begun = consumer[c].begun
          /\ consumer'[c].freed = consumer[c].freed
      BY <1>4, Places
    <2>3. consumer[c].batch \ consumer[c].begun \subseteq consumer[c].freed
      BY <1>4 DEF ToRelease, Todo
    <2>4. GaveBack(c)'
      <3>1. faults = 0 => \A r \in consumer[c].freed : ~Held(r)
        BY <1>2 DEF LoopInv, LoopKnows
      <3>2. \A r : Held(r)' <=> Held(r)
        BY <1>4 DEF Held, InFlight, Latest
      <3>. QED  BY <1>4, <2>2, <2>3, <3>1, <3>2 DEF GaveBack
    <2>5. LoopInv(c)'
      BY <1>1, <2>1, <2>2, <2>4, MovesOn
    <2>. QED  BY <1>3, <1>4, <2>1, <2>2, <2>5, NothingDone, StepKeeps
  <1>5. ASSUME NEW r \in ToRelease(c),
               consumer' = [consumer EXCEPT ![c].freed = @ \cup {r}],
               \/ Held(r) /\ queue' = [queue EXCEPT ![r.item].at = "visible"] /\ UNCHANGED faults
               \/ ~Held(r) /\ UNCHANGED <<queue, faults>>
               \/ Fault /\ UNCHANGED queue
        PROVE  ConsumerInv'
    <2>1. /\ r \in consumer[c].batch /\ r \notin consumer[c].begun /\ r \in Receipts
          /\ r.item \in Items
      BY <1>2, Types DEF ToRelease, Todo
    <2>2. PICK i \in Items : i = r.item
      BY <2>1
    <2>3. /\ QueueForward \/ queue' = queue
          /\ \A j \in Items : queue'[j].at = "deleted" => queue[j].at = "deleted"
      <3>1. CASE queue' = queue
        BY <3>1
      <3>2. CASE Held(r) /\ queue' = [queue EXCEPT ![i].at = "visible"]
        BY <2>2, <3>2, OneMessage DEF Held, InFlight
      <3>. QED  BY <1>5, <2>2, <3>1, <3>2
    <2>4. Forward /\ SentInOrder'
      BY <1>1, <1>3, <1>5, <2>3, MovesForward
    <2>5. PICK L : L = [consumer[c] EXCEPT !.freed = consumer[c].freed \cup {r}]
      OBVIOUS
    <2>6. /\ L \in Locals /\ L.at = "release" /\ L.cur = consumer[c].cur /\ L.begun = consumer[c].begun
          /\ L.batch = consumer[c].batch /\ L.freed = consumer[c].freed \cup {r}
      BY <1>1, <1>2, <2>1, <2>5 DEF Locals
    <2>7. consumer' = [consumer EXCEPT ![c] = L]
      BY <1>2, <1>5, <2>5
    <2>8. /\ consumer' \in [Consumers -> Locals] /\ consumer'[c] = L
          /\ \A d \in Consumers : d # c => consumer'[d] = consumer[d]
      BY <2>6, <2>7, OneLoop
    <2>9. LoopType(c)' /\ GaveBack(c)'
      BY <1>2, <2>1, <2>6, <2>8 DEF LoopInv, LoopType, GaveBack
    <2>10. faults' = 0 => ~Held(r)'
      <3>1. faults \in Nat
        BY Types
      <3>2. CASE Held(r) /\ queue' = [queue EXCEPT ![i].at = "visible"]
        <4>1. queue'[i].at = "visible"
          BY <3>2, Types DEF QueueType
        <4>. QED  BY <2>2, <4>1 DEF Held, InFlight
      <3>3. CASE ~Held(r) /\ UNCHANGED queue
        BY <3>3 DEF Held, InFlight, Latest
      <3>. QED  BY <1>5, <2>2, <3>1, <3>2, <3>3 DEF Fault
    <2>11. \A s \in consumer[c].batch : /\ s.n <= queue'[s.item].receives /\ s.item \in Items
                                        /\ ~Held(s) => ~Held(s)'
      BY <1>2, <2>4, Types, ForwardKeeps DEF LoopInv, LoopKnows
    <2>12. LoopKnows(c)'
      <3>1. ASSUME faults' = 0, NEW s \in consumer[c].freed PROVE ~Held(s)'
        BY <1>2, <2>4, <2>11, <3>1 DEF LoopInv, LoopKnows, LoopType, Forward
      <3>. QED  BY <2>6, <2>8, <2>10, <2>11, <3>1 DEF LoopKnows
    <2>13. InOrder(c)'
      <3>1. \A k \in Items : Passed(k) => Passed(k)'
        BY <2>4, ForwardKeeps
      <3>2. InOrder(c) /\ \A s \in consumer[c].begun : s.item \in Items
        BY <1>2, <2>11 DEF LoopInv, LoopType
      <3>. QED  BY <1>1, <2>6, <2>8, <3>1, <3>2 DEF InOrder, Group
    <2>. QED  BY <1>3, <2>3, <2>4, <2>8, <2>9, <2>12, <2>13, NothingDone, StepKeeps DEF LoopInv
  <1>. QED  BY <1>4, <1>5 DEF ChangeMessageVisibility

-----------------------------------------------------------------------------
(* The life of an instance, and the theorems.                              *)

\* A shutdown tells the loop and does nothing else.
LEMMA PhaseKeeps ==
    ASSUME ConsumerInv, NEW c \in Consumers, Stop(c) \/ Deadline(c) PROVE ConsumerInv'
  <1>1. PICK p \in {"draining", "abandoned"} : consumer' = [consumer EXCEPT ![c].phase = p]
    BY DEF Stop, Deadline
  <1>2. UNCHANGED <<service, queue, failed, faults>> /\ stops' \in 0..MaxStops
    BY Types, ConsumerAssumption DEF Stop, Deadline
  <1>3. UNCHANGED inbox /\ failed' \subseteq Items
    BY <1>2, Types DEF service
  <1>4. Forward /\ SentInOrder'
    BY <1>2, <1>3, MovesForward
  <1>5. consumer[c] \in Locals /\ consumer \in [Consumers -> Locals]
    BY Types
  <1>6. PICK L : L = [consumer[c] EXCEPT !.phase = p]
    OBVIOUS
  <1>7. /\ L \in Locals /\ L.at = consumer[c].at /\ L.cur = consumer[c].cur /\ L.begun = consumer[c].begun
        /\ L.batch = consumer[c].batch /\ L.freed = consumer[c].freed
    BY <1>5, <1>6 DEF Locals
  <1>8. consumer' = [consumer EXCEPT ![c] = L]
    BY <1>1, <1>5, <1>6
  <1>9. /\ consumer' \in [Consumers -> Locals] /\ consumer'[c] = L
        /\ \A d \in Consumers : d # c => consumer'[d] = consumer[d]
    BY <1>7, <1>8, OneLoop
  <1>10. LoopInv(c)'
    BY <1>4, <1>7, <1>9, OthersKeep
  <1>. QED  BY <1>2, <1>3, <1>4, <1>9, <1>10, NothingDone, StepKeeps

\* Whatever an instance held when it ended, its successor starts with empty hands.
LEMMA RestartKeeps ==
    ASSUME ConsumerInv, NEW c \in Consumers, Exit(c) \/ Crash(c) PROVE ConsumerInv'
  <1>1. /\ UNCHANGED <<service, queue, failed, stops>> /\ (Fault \/ UNCHANGED faults)
        /\ consumer' = [consumer EXCEPT ![c] = Started]
    BY DEF Exit, Crash
  <1>2. UNCHANGED inbox /\ failed' \subseteq Items /\ stops' \in 0..MaxStops
    BY <1>1, Types DEF service
  <1>3. Forward /\ SentInOrder'
    BY <1>1, <1>2, MovesForward
  <1>4. Started \in Locals
    BY DEF Started, Locals
  <1>5. /\ consumer' \in [Consumers -> Locals] /\ consumer'[c] = Started
        /\ \A d \in Consumers : d # c => consumer'[d] = consumer[d]
    BY <1>1, <1>4, OneLoop
  <1>6. LoopInv(c)'
    BY <1>5, StartedKeeps
  <1>. QED  BY <1>1, <1>2, <1>3, <1>5, <1>6, NothingDone, StepKeeps

\* The other doors record no message.
LEMMA ElsewhereKeeps ==
    ASSUME ConsumerInv, Elsewhere PROVE ConsumerInv'
  <1>1. UNCHANGED <<queue, consumer, failed, stops, faults>>
    BY DEF Elsewhere
  <1>2. UNCHANGED inbox
    BY DEF Elsewhere, Accept, Resolve, RecordMessage
  <1>3. failed' \subseteq Items /\ stops' \in 0..MaxStops /\ consumer' \in [Consumers -> Locals]
    BY <1>1, Types
  <1>4. Forward /\ SentInOrder'
    BY <1>1, <1>2, <1>3, MovesForward
  <1>. QED  BY <1>1, <1>2, <1>3, <1>4, NothingDone, StepKeeps

\* A step that changes nothing.
LEMMA ConsumerStutters ==
    ASSUME ConsumerInv, UNCHANGED vars PROVE ConsumerInv'
  <1>1. UNCHANGED <<service, queue, consumer, failed, stops, faults>>
    BY DEF vars
  <1>2. /\ UNCHANGED inbox /\ failed' \subseteq Items /\ stops' \in 0..MaxStops
        /\ consumer' \in [Consumers -> Locals]
    BY <1>1, Types DEF service
  <1>3. Forward /\ SentInOrder'
    BY <1>1, <1>2, MovesForward
  <1>. QED  BY <1>1, <1>2, <1>3, NothingDone, StepKeeps

\* The queue is empty and every loop has just started.
LEMMA ConsumerStarts == ConsumerInit => ConsumerInv
  <1>. SUFFICES ASSUME ConsumerInit PROVE ConsumerInv
    OBVIOUS
  <1>1. /\ \A i \in Items : queue[i].at = "unsent" /\ queue[i].receives = 0
        /\ \A c \in Consumers : consumer[c] = Started
        /\ failed = {} /\ stops = 0 /\ faults = 0
    BY DEF ConsumerInit
  <1>2. Started \in Locals /\ Cardinality({}) <= MaxMessages
    BY FS_EmptySet, ConsumerAssumption DEF Started, Locals
  <1>3. \A c \in Consumers : /\ consumer[c].at = "poll" /\ consumer[c].batch = {}
                             /\ consumer[c].begun = {} /\ consumer[c].freed = {}
    BY <1>1 DEF Started
  <1>4. TypeOK
    <2>1. queue \in [Items -> [at : {"unsent", "visible", "flight", "deleted", "dead"},
                               receives : 0..MaxReceive]]
      BY ConsumerAssumption DEF ConsumerInit
    <2>2. consumer \in [Consumers -> Locals]
      BY <1>2 DEF ConsumerInit
    <2>3. \A c \in Consumers :
             /\ Cardinality(consumer[c].batch) <= MaxMessages
             /\ consumer[c].begun \subseteq consumer[c].batch
             /\ consumer[c].freed \subseteq consumer[c].batch \ consumer[c].begun
             /\ consumer[c].at \in {"handle", "delete"} => consumer[c].cur \in consumer[c].begun
      BY <1>2, <1>3
    <2>4. failed \subseteq Items /\ stops \in 0..MaxStops /\ faults \in 0..MaxFaults
      BY <1>1, ConsumerAssumption
    <2>. QED  BY <2>1, <2>2, <2>3, <2>4 DEF TypeOK
  <1>5. DOMAIN inbox = Messages /\ \A m \in Messages : ~Recorded(m)
    BY DEF ConsumerInit, Init, Recorded
  <1>6. \A i \in Items : ~Done(i)
    BY <1>5, ConsumerAssumption DEF Done, WellFormed, Items
  <1>7. OvertakesOnlyFailed /\ DeletedWereSettled /\ StoppedHoldsNothing
    BY <1>1, <1>3, <1>6 DEF OvertakesOnlyFailed, DeletedWereSettled, StoppedHoldsNothing
  <1>8. \A c \in Consumers : LoopKnows(c) /\ InOrder(c)
    BY <1>3 DEF LoopKnows, InOrder
  <1>. QED  BY <1>1, <1>4, <1>5, <1>7, <1>8 DEF ConsumerInv

\* Every step keeps the invariant.
LEMMA ConsumerSteps == ConsumerInv /\ [ConsumerNext]_vars => ConsumerInv'
  <1>. SUFFICES ASSUME ConsumerInv, [ConsumerNext]_vars PROVE ConsumerInv'
    OBVIOUS
  <1>1. ASSUME NEW i \in Items, Send(i) \/ Lapse(i) \/ Redrive(i) PROVE ConsumerInv'
    BY <1>1, QueueSteps
  <1>2. ASSUME NEW c \in Consumers, Loop(c) PROVE ConsumerInv'
    BY <1>2, ReceiveKeeps, ReturnKeeps, BeginKeeps, HandleKeeps, HandleRefusedKeeps, DeleteKeeps, ReleaseKeeps
       DEF Loop
  <1>3. ASSUME NEW c \in Consumers, ReceiveLost(c) \/ HandleFails(c) PROVE ConsumerInv'
    BY <1>3, ReceiveLostKeeps, HandleFailsKeeps
  <1>4. ASSUME NEW c \in Consumers, Stop(c) \/ Deadline(c) \/ Exit(c) \/ Crash(c) PROVE ConsumerInv'
    BY <1>4, PhaseKeeps, RestartKeeps
  <1>5. CASE Elsewhere
    BY <1>5, ElsewhereKeeps
  <1>6. CASE UNCHANGED vars
    BY <1>6, ConsumerStutters
  <1>. QED  BY <1>1, <1>2, <1>3, <1>4, <1>5, <1>6 DEF ConsumerNext, Quiescent

\* The invariant of the SQS door holds in every reachable state.
THEOREM ConsumerInvariance == ConsumerSpec => []ConsumerInv
  BY ConsumerStarts, ConsumerSteps, PTL DEF ConsumerSpec

\* Queue and loops keep their types: no receive returns more than MaxMessages, no
\* message is received more than MaxReceive times, and release never gives back a
\* message the loop has begun.
THEOREM ConsumerTypes == ConsumerSpec => []TypeOK
  <1>1. ConsumerInv => TypeOK
    BY DEF ConsumerInv
  <1>. QED  BY <1>1, ConsumerInvariance, PTL

\* DeleteMessage loses nothing: a message that was deleted is in the inbox with the
\* payload it had, through duplicates, receipts that ran out, and crashes.
THEOREM NothingIsLost == ConsumerSpec => []DeletedWereSettled
  <1>1. ConsumerInv => DeletedWereSettled
    BY DEF ConsumerInv
  <1>. QED  BY <1>1, ConsumerInvariance, PTL

\* A loop that has returned from Run without a failure holds no message it did not begin.
THEOREM StoppedLoopsHoldNothing == ConsumerSpec => []StoppedHoldsNothing
  <1>1. ConsumerInv => StoppedHoldsNothing
    BY DEF ConsumerInv
  <1>. QED  BY <1>1, ConsumerInvariance, PTL

\* The messages of a wallet take effect in the order they were sent, except those that
\* failed or were dead-lettered, provided no two have the same message id.
THEOREM MessagesKeepTheirOrder == ASSUME DistinctIds PROVE ConsumerSpec => []OvertakesOnlyFailed
  <1>1. ConsumerInv => OvertakesOnlyFailed
    BY DEF ConsumerInv
  <1>. QED  BY <1>1, ConsumerInvariance, PTL

=============================================================================
