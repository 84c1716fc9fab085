------------------------------ MODULE Consumer ------------------------------
(***************************************************************************)
(* The SQS door: Consumer.Run in any number of instances, the life cycle   *)
(* worker.start gives each of them, and the FIFO queue with its visibility *)
(* timeout and dead-letter queue.  The service behind it is                *)
(* AtomicWagering: ProcessWager.Execute takes effect in one step, which    *)
(* module WageringRefinement justifies.                                    *)
(*                                                                         *)
(* Message i is the i-th that was sent and Post[i] the command in its      *)
(* body; its group is the wallet.  There is no clock: the visibility       *)
(* timeout of a message in flight may run out at any moment (Lapse), which *)
(* covers every ratio of the timeout to the time a batch takes.            *)
(***************************************************************************)
EXTENDS AtomicWagering, FiniteSets

CONSTANTS Consumers,     \* consumers, one per running instance
          Post,          \* the commands of the messages, in the order they are sent
          MaxMessages,   \* SQS.MaxMessages, the largest batch
          MaxReceive,    \* maxReceiveCount of the redrive policy
          Stopping,      \* bound: the consumers that may be shut down in order
          MaxStops,      \* bound: how often
          MaxFaults      \* bound: lost calls, failed statements, crashes

ASSUME ConsumerAssumption ==
    /\ MaxMessages \in Nat \ {0} /\ MaxReceive \in Nat \ {0}
    /\ Stopping \subseteq Consumers /\ MaxStops \in Nat /\ MaxFaults \in Nat
    /\ Len(Post) \in Nat /\ \A i \in 1..Len(Post) : Post[i].msg \in Messages \cup {None}
    /\ None \notin TxIds \cup Wallets

VARIABLES queue,     \* [Items -> [at, receives]]
          consumer,  \* each consumer's locals and the contexts it runs under
          failed,    \* history: messages whose handling ended in an error
          stops, faults

vars == <<service, queue, consumer, failed, stops, faults>>

Items    == 1..Len(Post)
Group(i) == Post[i].body.wallet

\* A received message: its receipt handle is the number of the receive.
Receipt(i, n) == [item |-> i, n |-> n]
NoReceipt     == Receipt(0, 0)

\* phase: up, draining (Fetch is cancelled), abandoned (Work is cancelled too).
\* batch is what the last receive returned, begun the part the loop has reached
\* and freed the part release has reached; cur is the message being handled.
Started == [at |-> "poll", phase |-> "up", batch |-> {}, begun |-> {}, freed |-> {},
            cur |-> NoReceipt]

ConsumerInit ==
    /\ Init
    /\ queue = [i \in Items |-> [at |-> "unsent", receives |-> 0]]
    /\ consumer = [c \in Consumers |-> Started]
    /\ failed = {} /\ stops = 0 /\ faults = 0

Fault == faults < MaxFaults /\ faults' = faults + 1

At(c, at) == consumer' = [consumer EXCEPT ![c].at = at]

\* A message is done with, and the loop over the batch goes on.
Continue(c) == consumer' = [consumer EXCEPT ![c].at = "next", ![c].cur = NoReceipt]

\* The batch is done with: Run returns if Fetch is cancelled and else calls
\* ReceiveMessage.
PollAgain(c) ==
    IF consumer[c].phase = "up" THEN consumer' = [consumer EXCEPT ![c] = Started]
    ELSE At(c, "stopped")

-----------------------------------------------------------------------------
(* The queue.                                                              *)

Visible(i)  == queue[i].at = "visible"
InFlight(i) == queue[i].at = "flight"
Latest(r)   == queue[r.item].receives = r.n
Held(r)     == InFlight(r.item) /\ Latest(r)

\* A provider sends the next message.
Send(i) ==
    /\ queue[i].at = "unsent" /\ \A j \in 1..(i - 1) : queue[j].at # "unsent"
    /\ queue' = [queue EXCEPT ![i].at = "visible"]
    /\ UNCHANGED <<service, consumer, failed, stops, faults>>

Lapse(i) ==
    /\ InFlight(i)
    /\ queue' = [queue EXCEPT ![i].at = "visible"]
    /\ UNCHANGED <<service, consumer, failed, stops, faults>>

\* A message that was received too often goes to the dead-letter queue.
Redrive(i) ==
    /\ Visible(i) /\ queue[i].receives = MaxReceive
    /\ queue' = [queue EXCEPT ![i].at = "dead"]
    /\ UNCHANGED <<service, consumer, failed, stops, faults>>

\* What a receive may return: nothing of a group that has a message in flight, and
\* of any other group its first messages.
Batches ==
    { S \in SUBSET Items : Cardinality(S) <= MaxMessages /\ \A i \in S :
          /\ Visible(i) /\ queue[i].receives < MaxReceive
          /\ \A j \in Items : Group(j) = Group(i) => ~InFlight(j) /\ (j < i /\ Visible(j) => j \in S) }

HandOut(S) ==
    queue' = [i \in Items |-> IF i \in S THEN [at |-> "flight", receives |-> queue[i].receives + 1]
                              ELSE queue[i]]

-----------------------------------------------------------------------------
(* The receive loop.  at is where Run is: poll (in ReceiveMessage), next   *)
(* (the loop over the batch), handle, delete, release, stopped.            *)

ReceiveMessage(c) ==
    /\ consumer[c].at = "poll" /\ consumer[c].phase = "up"
    /\ \E S \in Batches \ {{}} :
           /\ HandOut(S)
           /\ consumer' = [consumer EXCEPT ![c] =
                  [Started EXCEPT !.at = "next",
                                  !.batch = { Receipt(i, queue[i].receives + 1) : i \in S }]]
    /\ UNCHANGED <<service, failed, stops, faults>>

\* The queue hands out a batch, but the call fails: the loop sleeps and polls again.
ReceiveLost(c) ==
    /\ consumer[c].at = "poll" /\ consumer[c].phase = "up" /\ Fault
    /\ \E S \in Batches \ {{}} : HandOut(S)
    /\ UNCHANGED <<service, consumer, failed, stops>>

\* The cancellation of Fetch ends the call, and Run returns; the queue may have
\* handed out a batch to it.
ReturnFromRun(c) ==
    /\ consumer[c].at = "poll" /\ consumer[c].phase # "up"
    /\ \E S \in Batches : HandOut(S)
    /\ At(c, "stopped")
    /\ UNCHANGED <<service, failed, stops, faults>>

Todo(c) == consumer[c].batch \ consumer[c].begun

\* Mutant: one goroutine per message, in whatever order they run.
Upcoming_AnyOrder(c) == Todo(c)

\* The messages of the batch the loop may take next: within a group, in order.
Upcoming(c) ==
    { r \in Todo(c) : \A s \in Todo(c) : Group(s.item) = Group(r.item) => s.item >= r.item }

\* The loop takes the next message, unless the work is abandoned.
Begin(c) ==
    /\ consumer[c].at = "next"
    /\ \/ Upcoming(c) = {} /\ PollAgain(c)
       \/ \E r \in Upcoming(c) :
              IF consumer[c].phase = "abandoned"
              THEN At(c, "release")
              ELSE consumer' = [consumer EXCEPT ![c].at = "handle", ![c].cur = r,
                                                ![c].begun = @ \cup {r}]
    /\ UNCHANGED <<service, queue, failed, stops, faults>>

-----------------------------------------------------------------------------
(* Handling one message.                                                   *)

\* What process and buildCommand let through to Execute.
WellFormed(cmd) ==
    /\ cmd.msg # None /\ cmd.key # None
    /\ cmd.body.kind \in Kinds \ {"OPENING"}
    /\ cmd.body.currency # None /\ cmd.body.amount \in 0..MaxMoney

SameKey(cmd) == { id \in Related(cmd) : txs[id].key = cmd.key }

\* The wallet exists and is the player's.
Admitted(cmd) ==
    /\ wallets[cmd.body.wallet].open
    /\ Accounts[cmd.body.wallet].player = cmd.body.player

\* The key was used for another payload.  A request that looked it up before that was
\* committed may still succeed: the message was recorded before, or Repeat finds a twin.
KeyTaken(cmd) == \E id \in SameKey(cmd) : txs[id].body # cmd.body

NewId == CHOOSE id \in TxIds : ~Stored(id)

\* Execute succeeds: a message already recorded, an operation already stored, or a
\* new one.
Execute(cmd) ==
    /\ Admitted(cmd)
    /\ \/ Recorded(cmd.msg) /\ inbox[cmd.msg].body = cmd.body /\ UNCHANGED service
       \/ \E id \in SameKey(cmd) : Repeat(cmd, id)
       \/ \E id \in TxIds : id = NewId /\ Accept(cmd, id)

\* Execute cannot succeed: a conflict, a wallet that does not fit, an operation the
\* domain does not accept.
Refused(cmd) ==
    \/ ~Admitted(cmd) \/ KeyTaken(cmd)
    \/ Recorded(cmd.msg) /\ inbox[cmd.msg].body # cmd.body
    \/ /\ ~Recorded(cmd.msg) /\ SameKey(cmd) = {}
       /\ \/ Related(cmd) # {} \/ ~ValidExternal(cmd.body)
          \/ \E choice \in Choices(cmd.body) : TooMuch(cmd.body, choice)

Command(c) == Post[consumer[c].cur.item]

Handle(c) ==
    /\ consumer[c].at = "handle" /\ WellFormed(Command(c))
    /\ Execute(Command(c))
    /\ At(c, "delete")
    /\ UNCHANGED <<queue, failed, stops, faults>>

Blame(c) == failed' = failed \cup {consumer[c].cur.item}

\* Mutant: an unprocessable message is deleted.
LeaveForDLQ_Deletes(c) == At(c, "delete")

\* Mutant: an unprocessable message is tried again at once.
LeaveForDLQ_Retries(c) == UNCHANGED consumer

\* The message stays in the queue, and the loop goes on.
LeaveForDLQ(c) == Continue(c)

\* A permanent error, or one that every retry would meet again.
HandleRefused(c) ==
    /\ consumer[c].at = "handle"
    /\ ~WellFormed(Command(c)) \/ Refused(Command(c))
    /\ LeaveForDLQ(c) /\ Blame(c)
    /\ UNCHANGED <<service, queue, stops, faults>>

\* A transient error, or the abandoned context ends the call.  The commit may have
\* gone through and its acknowledgement been lost.
HandleFails(c) ==
    /\ consumer[c].at = "handle" /\ WellFormed(Command(c))
    /\ Fault \/ (consumer[c].phase = "abandoned" /\ UNCHANGED faults)
    /\ Execute(Command(c)) \/ UNCHANGED service
    /\ Continue(c) /\ Blame(c)
    /\ UNCHANGED <<queue, stops>>

\* delete detaches its context from the abandoned one.  A receipt the queue has
\* replaced deletes nothing, one that has only run out may or may not; an error is
\* logged and the loop goes on.
DeleteMessage(c) ==
    LET r == consumer[c].cur
    IN  /\ consumer[c].at = "delete"
        /\ \/ /\ Latest(r) /\ (InFlight(r.item) \/ Visible(r.item))
              /\ queue' = [queue EXCEPT ![r.item].at = "deleted"]
              /\ UNCHANGED faults
           \/ ~Held(r) /\ UNCHANGED <<queue, faults>>
           \/ Fault /\ UNCHANGED queue
        /\ Continue(c)
        /\ UNCHANGED <<service, failed, stops>>

\* Mutant: the message at which the loop stopped is left out.
ToRelease_SkipsFirst(c) ==
    { r \in Todo(c) \ consumer[c].freed : \E s \in Todo(c) : s.item < r.item }

\* Mutant: the whole batch is released, the handled messages too.
ToRelease_Batch(c) == consumer[c].batch \ consumer[c].freed

ToRelease(c) == Todo(c) \ consumer[c].freed

\* release makes the rest of the batch visible again, message by message; an error
\* is logged.  Then Run returns.
ChangeMessageVisibility(c) ==
    LET rest == ToRelease(c)
    IN  /\ consumer[c].at = "release"
        /\ \/ /\ rest = {} /\ At(c, "stopped")
              /\ UNCHANGED <<queue, faults>>
           \/ \E r \in rest :
                  /\ consumer' = [consumer EXCEPT ![c].freed = @ \cup {r}]
                  /\ \/ Held(r) /\ queue' = [queue EXCEPT ![r.item].at = "visible"] /\ UNCHANGED faults
                     \/ ~Held(r) /\ UNCHANGED <<queue, faults>>
                     \/ Fault /\ UNCHANGED queue
        /\ UNCHANGED <<service, failed, stops>>

-----------------------------------------------------------------------------
(* The life of an instance: worker.start and its OnStop hook.              *)

Stop(c) ==
    /\ c \in Stopping /\ consumer[c].phase = "up" /\ stops < MaxStops /\ stops' = stops + 1
    /\ consumer' = [consumer EXCEPT ![c].phase = "draining"]
    /\ UNCHANGED <<service, queue, failed, faults>>

\* The shutdown budget is used up before the loop has returned.
Deadline(c) ==
    /\ consumer[c].phase = "draining" /\ consumer[c].at # "stopped"
    /\ consumer' = [consumer EXCEPT ![c].phase = "abandoned"]
    /\ UNCHANGED <<service, queue, failed, stops, faults>>

\* OnStop has returned, the process ends wherever the loop is, and another
\* instance takes its place.
Exit(c) ==
    /\ \/ consumer[c].phase = "abandoned"
       \/ consumer[c].phase = "draining" /\ consumer[c].at = "stopped"
    /\ consumer' = [consumer EXCEPT ![c] = Started]
    /\ UNCHANGED <<service, queue, failed, stops, faults>>

Crash(c) ==
    /\ consumer[c] # Started /\ Fault
    /\ consumer' = [consumer EXCEPT ![c] = Started]
    /\ UNCHANGED <<service, queue, failed, stops>>

\* Meanwhile, the other doors: requests over HTTP and the reference worker.
Elsewhere ==
    /\ \/ \E cmd \in Commands, id \in TxIds : cmd.msg = None /\ id = NewId /\ Accept(cmd, id)
       \/ \E id \in TxIds : Resolve(id)
    /\ UNCHANGED <<queue, consumer, failed, stops, faults>>

-----------------------------------------------------------------------------

Loop(c) ==
    \/ ReceiveMessage(c) \/ ReturnFromRun(c) \/ Begin(c)
    \/ Handle(c) \/ HandleRefused(c) \/ DeleteMessage(c) \/ ChangeMessageVisibility(c)

Disposed(i) == queue[i].at \in {"deleted", "dead"}

\* Nothing is left in the queue and every consumer polls.
Quiescent ==
    /\ \A i \in Items : Disposed(i)
    /\ \A c \in Consumers : consumer[c].at = "poll" /\ consumer[c].phase = "up"
    /\ UNCHANGED vars

ConsumerNext ==
    \/ \E i \in Items : Send(i) \/ Lapse(i) \/ Redrive(i)
    \/ \E c \in Consumers : \/ Loop(c) \/ ReceiveLost(c) \/ HandleFails(c)
                            \/ Stop(c) \/ Deadline(c) \/ Exit(c) \/ Crash(c)
    \/ Elsewhere
    \/ Quiescent

ConsumerSpec == ConsumerInit /\ [][ConsumerNext]_vars

\* The consumers and the queue do not all stand still while any of them can go on:
\* a loop, the end of a shutdown, a visibility timeout or the redrive policy.  That
\* is less than goroutines and the queue guarantee, and enough, because a message is
\* received a bounded number of times.  Nothing is assumed of providers.
Progress ==
    \/ \E c \in Consumers : Loop(c) \/ Exit(c)
    \/ \E i \in Items : Lapse(i) \/ Redrive(i)

FairSpec == ConsumerSpec /\ WF_vars(Progress)

-----------------------------------------------------------------------------
(* Properties.                                                             *)

Receipts == [item : Items, n : 1..MaxReceive]
Locals   == [at : {"poll", "next", "handle", "delete", "release", "stopped"},
             phase : {"up", "draining", "abandoned"}, batch : SUBSET Receipts,
             begun : SUBSET Receipts, freed : SUBSET Receipts, cur : Receipts \cup {NoReceipt}]

\* Queue and consumers keep their types; a batch has at most MaxMessages.
TypeOK ==
    /\ queue \in [Items -> [at : {"unsent", "visible", "flight", "deleted", "dead"},
                            receives : 0..MaxReceive]]
    /\ consumer \in [Consumers -> Locals]
    /\ \A c \in Consumers :
           /\ Cardinality(consumer[c].batch) <= MaxMessages
           /\ consumer[c].begun \subseteq consumer[c].batch
           /\ consumer[c].freed \subseteq consumer[c].batch \ consumer[c].begun
           /\ consumer[c].at \in {"handle", "delete"} => consumer[c].cur \in consumer[c].begun
    /\ failed \subseteq Items /\ stops \in 0..MaxStops /\ faults \in 0..MaxFaults

Settled(i) == Recorded(Post[i].msg) /\ inbox[Post[i].msg].body = Post[i].body

\* No message is lost: one that left the queue other than to the dead-letter queue
\* is in the inbox, with the payload it had, whichever consumer deleted it and
\* however often it was delivered.
DeletedWereSettled == \A i \in Items : queue[i].at = "deleted" => Settled(i)

Done(i)   == WellFormed(Post[i]) /\ Recorded(Post[i].msg)
Passed(i) == Done(i) \/ i \in failed \/ queue[i].at = "dead"

\* Of the messages of one wallet a later one is applied before an earlier one only
\* if handling the earlier one has failed or its receives are used up.  Shutdowns,
\* releases, crashes, lost calls and timeouts that run out under a consumer do not
\* change the order.
OvertakesOnlyFailed ==
    \A i, j \in Items : Group(i) = Group(j) /\ i < j /\ Done(j) => Passed(i)

\* As long as nothing has failed, a loop that has returned has given back every message
\* it did not begin, so that no other instance has to wait for the visibility timeout.
\* After a fault it may not: release logs a failed call and goes on.
StoppedHoldsNothing ==
    \A c \in Consumers : consumer[c].at = "stopped" /\ faults = 0 =>
        \A r \in consumer[c].batch \ consumer[c].begun : ~Held(r)

\* No two messages have one message id.  Where a provider uses one twice, the second
\* is done as soon as the first is, whatever lies between them.
DistinctIds ==
    \A i, j \in Items : i # j /\ Post[i].msg # None => Post[i].msg # Post[j].msg

\* What a loop knows of its batch: no receipt is newer than the queue's, it polls with
\* empty hands, what it gave back it does not hold, and it deletes what is settled.
LoopKnows(c) ==
    /\ \A r \in consumer[c].batch : r.n <= queue[r.item].receives
    /\ consumer[c].at = "poll" => consumer[c].batch = {}
    /\ consumer[c].at \notin {"release", "stopped"} => consumer[c].freed = {}
    /\ faults = 0 => \A r \in consumer[c].freed : ~Held(r)
    /\ consumer[c].at = "delete" => WellFormed(Command(c)) /\ Settled(consumer[c].cur.item)

\* Of each group the batch is the first messages that have not passed, and the loop has
\* begun the first of those; all it has begun have passed, but the one it handles.
InOrder(c) ==
    /\ \A r \in consumer[c].batch, i \in Items :
           Group(i) = Group(r.item) /\ i < r.item => Passed(i) \/ \E s \in consumer[c].batch : s.item = i
    /\ \A r \in consumer[c].begun, s \in consumer[c].batch :
           Group(s.item) = Group(r.item) /\ s.item < r.item => s \in consumer[c].begun
    /\ \A r \in consumer[c].begun :
           Passed(r.item) \/ (consumer[c].at = "handle" /\ consumer[c].cur = r)

\* The order in which messages take effect is decided by the queue when it hands out a
\* batch and kept by the loop over it, each of which only knows its own part.
ConsumerInv ==
    /\ TypeOK /\ DeletedWereSettled /\ StoppedHoldsNothing
    /\ DistinctIds => OvertakesOnlyFailed
    /\ DOMAIN inbox = Messages
    /\ \A i, j \in Items : i < j /\ queue[j].at # "unsent" => queue[i].at # "unsent"
    /\ \A i \in Items : queue[i].at = "deleted" => WellFormed(Post[i])
    /\ \A c \in Consumers : LoopKnows(c) /\ InOrder(c)

\* Every message that was sent is deleted or dead-lettered in the end, and so no
\* message blocks its group for ever: not one that can never be processed, nor
\* one whose consumer stops, dies or is too slow.
EventuallyDisposed == []<>(\A i \in Items : queue[i].at = "unsent" \/ Disposed(i))
=============================================================================
