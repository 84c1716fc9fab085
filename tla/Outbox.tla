------------------------------- MODULE Outbox -------------------------------
(***************************************************************************)
(* The transactional outbox and its publishers: PublishOutbox.RunOnce in   *)
(* any number of instances, the claim columns of table outbox, and the     *)
(* FIFO queue the events go to.  Module Wagering says which events a unit  *)
(* of work inserts; here an event is a name, its group the aggregate id.   *)
(*                                                                         *)
(* Instants are kept relative to the present: due is next_attempt_at and   *)
(* lock is locked_until minus the current time, and Tick moves them all.   *)
(* A use case reads the clock before its statements run, so the "now" it   *)
(* passes may be up to MaxLag old.                                         *)
(***************************************************************************)
EXTENDS Integers, Sequences, FiniteSets

CONSTANTS Publishers,        \* outbox publishers, one per running instance
          Events,            \* event ids
          Group,             \* the aggregate id of each event
          BatchSize,         \* PublishPolicy.BatchSize
          LockFor,           \* PublishPolicy.LockFor, in ticks
          BaseBackoff,       \* PublishPolicy.BaseBackoff
          MaxBackoff,        \* PublishPolicy.MaxBackoff
          DedupFor,          \* the queue's deduplication window
          MaxLag,            \* how old a clock reading may be when it is used
          Horizon,           \* bound: instants further back than this look alike
          MaxFaults          \* bound: failed sends and statements, crashes

ASSUME OutboxAssumption ==
    /\ BatchSize \in Nat \ {0} /\ MaxFaults \in Nat
    /\ BaseBackoff \in Nat \ {0} /\ MaxBackoff \in Nat /\ DedupFor \in Nat
    /\ MaxLag \in Nat /\ LockFor \in Nat /\ LockFor >= MaxLag
    /\ Horizon \in Nat /\ Horizon > MaxLag

VARIABLES rows,      \* table outbox: [Events -> [state, due, attempts, lock]]
          pub,       \* each publisher's locals
          stream,    \* what the queue delivers, in order
          window,    \* [Events -> ticks the queue still remembers the id]
          committed, \* the events in the order their units of work committed
          faults

vars == <<rows, pub, stream, window, committed, faults>>

Free    == -Horizon - 1                 \* locked_until IS NULL
Absent  == [state |-> "absent", due |-> 0, attempts |-> 0, lock |-> Free]
NoClaim == [id |-> "NONE", attempts |-> 0]

\* cur is the record being sent, ok whether Publish returned nil, and left how
\* long the publisher's own claim still protects its batch.
IdlePublisher == [pc |-> "idle", batch |-> {}, cur |-> NoClaim, ok |-> FALSE, left |-> Free]

Init ==
    /\ rows = [e \in Events |-> Absent]
    /\ pub = [p \in Publishers |-> IdlePublisher]
    /\ stream = <<>> /\ committed = <<>>
    /\ window = [e \in Events |-> 0]
    /\ faults = 0

Pending(e) == rows[e].state = "pending"

-----------------------------------------------------------------------------

\* Insert, as part of the unit of work that raised the event: it is due from the
\* moment the use case read the clock, before it waited for the wallet.
Insert(e, lag) ==
    /\ rows[e].state = "absent"
    /\ rows' = [rows EXCEPT ![e] = [Absent EXCEPT !.state = "pending", !.due = -lag]]
    /\ committed' = Append(committed, e)
    /\ UNCHANGED <<pub, stream, window, faults>>

\* Mutant: the claim takes a row whoever holds it.
Claimable_IgnoresLock(e, lag) == Pending(e) /\ rows[e].due <= -lag

\* Mutant: the claim only takes rows nobody ever claimed or that were released.
Claimable_NoExpiry(e, lag) == Pending(e) /\ rows[e].due <= -lag /\ rows[e].lock = Free

Claimable(e, lag) == Pending(e) /\ rows[e].due <= -lag /\ rows[e].lock < -lag

\* A row some publisher is just marking may be locked by that unit of work.
Marking(e) == \E p \in Publishers : pub[p].pc = "mark" /\ pub[p].cur.id = e

\* The batch: the earliest of the claimable rows, up to BatchSize of them; SKIP LOCKED
\* passes over the rows that are locked at this moment.
Batches(lag) ==
    LET due    == { e \in Events : Claimable(e, lag) }
        locked == { e \in due : Marking(e) }
    IN  { S \in SUBSET due : \E skipped \in SUBSET locked :
            LET free == due \ skipped
            IN  /\ S \subseteq free
                /\ Cardinality(S) = BatchSize \/ (S = free /\ Cardinality(S) < BatchSize)
                /\ \A e \in S, f \in free \ S : rows[e].due <= rows[f].due }

\* publishBatch: Claim marks the batch; RETURNING gives it in no particular order.
Claim(p, lag) ==
    /\ pub[p].pc = "idle"
    /\ \E S \in Batches(lag) \ {{}} :
          /\ rows' = [e \in Events |-> IF e \in S THEN [rows[e] EXCEPT !.lock = LockFor - lag]
                                                  ELSE rows[e]]
          /\ pub' = [pub EXCEPT ![p] =
                        [IdlePublisher EXCEPT
                            !.pc = "send", !.left = LockFor - lag,
                            !.batch = { [id |-> e, attempts |-> rows[e].attempts] : e \in S }]]
    /\ UNCHANGED <<stream, window, committed, faults>>

\* SendMessage accepted: the queue drops a deduplication id it still remembers.
SendMessage(e) ==
    /\ stream' = IF window[e] > 0 THEN stream ELSE Append(stream, e)
    /\ window' = IF window[e] > 0 THEN window ELSE [window EXCEPT ![e] = DedupFor]

Fault == faults < MaxFaults /\ faults' = faults + 1

\* Publish of one record: accepted; refused; or accepted with the answer lost.
Publish(p, rec) ==
    /\ pub[p].pc = "send" /\ rec \in pub[p].batch
    /\ \E accepted, ok \in BOOLEAN :
          /\ ok => accepted
          /\ IF accepted THEN SendMessage(rec.id) ELSE UNCHANGED <<stream, window>>
          /\ IF ok THEN UNCHANGED faults ELSE Fault
          /\ pub' = [pub EXCEPT ![p].pc = "mark", ![p].cur = rec, ![p].ok = ok]
    /\ UNCHANGED <<rows, committed>>

\* Mutant: the delay is not capped.
backoffFor_Uncapped(attempt) == BaseBackoff * 2^(attempt - 1)

\* backoffFor: doubling from BaseBackoff, its exponent and result capped.
backoffFor(attempt) ==
    LET shift == IF attempt - 1 > 20 THEN 20 ELSE attempt - 1
        delay == BaseBackoff * 2^shift
    IN  IF delay > MaxBackoff THEN MaxBackoff ELSE delay

MarkPublished(e) == IF Pending(e) THEN [rows[e] EXCEPT !.state = "published", !.lock = Free]
                                  ELSE rows[e]

\* Whoever calls it, the claim on a pending row is released.
Reschedule(e, attempts) ==
    IF Pending(e) THEN [rows[e] EXCEPT !.attempts = attempts, !.due = backoffFor(attempts),
                                       !.lock = Free]
                  ELSE rows[e]

\* The loop goes on to the rest of the batch, or the pass is over.
NextRecord(p, rec) ==
    LET rest == pub[p].batch \ {rec}
    IN  pub' = [pub EXCEPT ![p] = IF rest = {} THEN IdlePublisher
                                  ELSE [pub[p] EXCEPT !.pc = "send", !.batch = rest,
                                                            !.cur = NoClaim, !.ok = FALSE]]

\* Mutant: the row is marked published whatever Publish returned.
Mark_IgnoresError(p) ==
    /\ pub[p].pc = "mark"
    /\ LET rec == pub[p].cur
       IN  /\ rows' = [rows EXCEPT ![rec.id] = MarkPublished(rec.id)]
           /\ NextRecord(p, rec)
    /\ UNCHANGED <<stream, window, committed, faults>>

\* The unit of work that records the outcome of the send.
Mark(p) ==
    /\ pub[p].pc = "mark"
    /\ LET rec == pub[p].cur
       IN  /\ rows' = [rows EXCEPT ![rec.id] = IF pub[p].ok THEN MarkPublished(rec.id)
                                              ELSE Reschedule(rec.id, rec.attempts + 1)]
           /\ NextRecord(p, rec)
    /\ UNCHANGED <<stream, window, committed, faults>>

\* That unit of work fails: the row keeps its claim, the loop continues.
MarkFails(p) ==
    /\ pub[p].pc = "mark" /\ Fault
    /\ NextRecord(p, pub[p].cur)
    /\ UNCHANGED <<rows, stream, window, committed>>

\* The process dies or is stopped: the rest of its batch keeps its claims.
Crash(p) ==
    /\ pub[p].pc # "idle" /\ Fault
    /\ pub' = [pub EXCEPT ![p] = IdlePublisher]
    /\ UNCHANGED <<rows, stream, window, committed>>

Older(t) == IF t > -Horizon THEN t - 1 ELSE t

Tick ==
    /\ rows' = [e \in Events |-> IF Pending(e)
                                 THEN [rows[e] EXCEPT !.due = Older(@), !.lock = Older(@)]
                                 ELSE rows[e]]
    /\ pub' = [p \in Publishers |-> [pub[p] EXCEPT !.left = Older(@)]]
    /\ window' = [e \in Events |-> IF window[e] > 0 THEN window[e] - 1 ELSE 0]
    /\ UNCHANGED <<stream, committed, faults>>

PublisherStep(p) ==
    \/ \E lag \in 0..MaxLag : Claim(p, lag)
    \/ \E rec \in pub[p].batch : Publish(p, rec)
    \/ Mark(p)

Next ==
    \/ \E e \in Events, lag \in 0..MaxLag : Insert(e, lag)
    \/ \E p \in Publishers : PublisherStep(p) \/ MarkFails(p) \/ Crash(p)
    \/ Tick

Spec == Init /\ [][Next]_vars

\* Publishers poll and time passes; nothing is assumed of who raises events, and
\* faults are finite.
FairSpec == Spec /\ WF_vars(Tick) /\ \A p \in Publishers : WF_vars(PublisherStep(p))

-----------------------------------------------------------------------------
(* Properties.                                                             *)

Claims == [id : Events, attempts : Nat]
Locks  == Free..LockFor

\* Rows, locals and the queue keep their types; no retry is put off beyond MaxBackoff.
TypeOK ==
    /\ rows \in [Events -> [state : {"absent", "pending", "published"}, due : (-Horizon)..MaxBackoff,
                            attempts : Nat, lock : Locks]]
    /\ pub \in [Publishers -> [pc : {"idle", "send", "mark"}, batch : SUBSET Claims,
                               cur : Claims \cup {NoClaim}, ok : BOOLEAN, left : Locks]]
    /\ stream \in Seq(Events) /\ committed \in Seq(Events)
    /\ window \in [Events -> 0..DedupFor] /\ faults \in 0..MaxFaults

Sent(e) == \E i \in DOMAIN stream : stream[i] = e

\* A row is only marked published once the queue has the event, and the queue
\* never has an event whose unit of work did not commit.
PublishedIsDelivered ==
    /\ \A e \in Events : rows[e].state = "published" => Sent(e)
    /\ \A i \in DOMAIN stream : rows[stream[i]].state # "absent"

Holds(p) == { rec.id : rec \in pub[p].batch }

\* While its claim lasts, a publisher is the only one working on its batch.
LiveClaimsDisjoint ==
    \A p, q \in Publishers : p # q =>
        \A e \in Holds(p) \cap Holds(q) : pub[p].left < 0 \/ pub[q].left < 0

\* As long as every send succeeded and no publisher died, that holds: a claim
\* ends by its publisher's own mark or by running out, however old the clock
\* readings it was made and judged with.
LiveClaimsDisjointWithoutFaults == faults = 0 => LiveClaimsDisjoint

\* What a publisher knows of its batch: the rows are committed, the record it is about
\* to mark is one of them, and the queue has it if the send succeeded.  While nothing
\* has failed, a claim that lasts is written in its rows until they are published.
BatchKnown(p) ==
    /\ \A rec \in pub[p].batch : rows[rec.id].state # "absent"
    /\ pub[p].pc = "mark" => /\ pub[p].cur \in pub[p].batch
                             /\ pub[p].ok => Sent(pub[p].cur.id)
                             /\ faults = 0 => pub[p].ok
    /\ faults = 0 /\ pub[p].left >= 0 => \A e \in Holds(p) : Pending(e) => rows[e].lock = pub[p].left

\* Neither PublishedIsDelivered nor the disjointness of claims is inductive: a mark
\* and a claim act on what a publisher read and was told before.
OutboxInv ==
    /\ TypeOK /\ PublishedIsDelivered /\ LiveClaimsDisjointWithoutFaults
    /\ \A p \in Publishers : BatchKnown(p)
    /\ \A e \in Events : window[e] > 0 => Sent(e)

\* The first delivery of each event.
First(e) == CHOOSE i \in DOMAIN stream : stream[i] = e /\ \A k \in 1..(i - 1) : stream[k] # e
Delivered == { stream[i] : i \in DOMAIN stream }
Position(e) == CHOOSE i \in DOMAIN committed : committed[i] = e

\* Events of one group are delivered in the order they were committed.
OrderedPerGroup ==
    \A e, f \in Delivered :
        Group[e] = Group[f] /\ Position(e) < Position(f) => First(e) < First(f)

\* Every committed event is published in the end, whichever publishers crash
\* and whichever sends fail on the way.
PendingEventuallyPublished == \A e \in Events : Pending(e) ~> rows[e].state = "published"
=============================================================================
