----------------------------- MODULE OutboxProofs -----------------------------
(***************************************************************************)
(* The outbox, for every number of publishers and events, every policy and *)
(* every pattern of failures: OutboxInv is inductive, and with it a row is *)
(* only marked published once the queue has the event, and a claim that    *)
(* lasts is respected as long as nothing has failed.                       *)
(***************************************************************************)
EXTENDS Outbox, TLAPS

USE OutboxAssumption

-----------------------------------------------------------------------------
(* The delay of a retry.                                                   *)

\* The shifts backoffFor computes are exact: 2^0 to 2^20.

LEMMA PowersOfTwo == ASSUME NEW k \in 0..20 PROVE 2^k \in Nat \ {0}
  <1>1. \/ k = 0 \/ k = 1 \/ k = 2 \/ k = 3 \/ k = 4 \/ k = 5 \/ k = 6
        \/ k = 7 \/ k = 8 \/ k = 9 \/ k = 10 \/ k = 11 \/ k = 12 \/ k = 13
        \/ k = 14 \/ k = 15 \/ k = 16 \/ k = 17 \/ k = 18 \/ k = 19 \/ k = 20
    OBVIOUS
  <1>. DEFINE Positive == Nat \ {0}
  <1>2. /\ 2^0 \in Positive /\ 2^1 \in Positive /\ 2^2 \in Positive /\ 2^3 \in Positive
        /\ 2^4 \in Positive /\ 2^5 \in Positive /\ 2^6 \in Positive /\ 2^7 \in Positive
        /\ 2^8 \in Positive /\ 2^9 \in Positive /\ 2^10 \in Positive /\ 2^11 \in Positive
        /\ 2^12 \in Positive /\ 2^13 \in Positive /\ 2^14 \in Positive /\ 2^15 \in Positive
        /\ 2^16 \in Positive /\ 2^17 \in Positive /\ 2^18 \in Positive /\ 2^19 \in Positive
        /\ 2^20 \in Positive
    OBVIOUS
  <1>. HIDE DEF Positive
  <1>3. 2^k \in Positive
    BY <1>1, <1>2, Zenon
  <1>. QED  BY <1>3 DEF Positive

\* backoffFor keeps every delay between zero and MaxBackoff.
LEMMA BackoffBounded ==
    ASSUME NEW n \in Nat \ {0} PROVE backoffFor(n) \in 0..MaxBackoff
  <1>. DEFINE shift == IF n - 1 > 20 THEN 20 ELSE n - 1
  <1>1. shift \in 0..20
    OBVIOUS
  <1>. HIDE DEF shift
  <1>2. PICK power \in Nat \ {0} : power = 2^shift
    BY <1>1, PowersOfTwo
  <1>3. PICK delay : delay = BaseBackoff * power
    OBVIOUS
  <1>4. delay \in Nat
    BY <1>2, <1>3
  <1>5. backoffFor(n) = IF delay > MaxBackoff THEN MaxBackoff ELSE delay
    BY <1>2, <1>3, Zenon DEF backoffFor, shift
  <1>. QED  BY <1>4, <1>5

-----------------------------------------------------------------------------
(* What a step keeps.                                                      *)

\* Appending to the stream forgets nothing, and adds what was appended.
LEMMA SentStays ==
    ASSUME TypeOK, NEW e \in Events, stream' = stream \/ stream' = Append(stream, e)
    PROVE  /\ stream' \in Seq(Events)
           /\ \A f : Sent(f) => Sent(f)'
           /\ stream' = Append(stream, e) => Sent(e)'
           /\ \A i \in DOMAIN stream' : stream'[i] = e \/ \E k \in DOMAIN stream : stream'[i] = stream[k]
  <1>1. stream \in Seq(Events)
    BY DEF TypeOK
  <1>2. CASE stream' = stream
    <2>1. stream' # Append(stream, e)
      <3>1. Len(Append(stream, e)) = Len(stream) + 1 /\ Len(stream) \in Nat
        BY <1>1
      <3>. QED  BY <3>1, <1>2
    <2>. QED  BY <1>1, <1>2, <2>1 DEF Sent
  <1>3. CASE stream' = Append(stream, e)
    <2>1. /\ Len(stream) \in Nat /\ Len(stream') = Len(stream) + 1 /\ stream' \in Seq(Events)
          /\ DOMAIN stream = 1..Len(stream) /\ DOMAIN stream' = 1..(Len(stream) + 1)
          /\ \A i \in 1..Len(stream) : stream'[i] = stream[i]
          /\ stream'[Len(stream) + 1] = e
      BY <1>1, <1>3
    <2>2. \A f : Sent(f) => Sent(f)'
      BY <2>1 DEF Sent
    <2>3. Sent(e)'
      BY <2>1 DEF Sent
    <2>4. \A i \in DOMAIN stream' : stream'[i] = e \/ \E k \in DOMAIN stream : stream'[i] = stream[k]
      BY <2>1
    <2>. QED  BY <2>1, <2>2, <2>3, <2>4
  <1>. QED  BY <1>2, <1>3

\* The invariant holds of an empty table and idle publishers.
LEMMA OutboxInit == Init => OutboxInv
  <1>. SUFFICES ASSUME Init PROVE OutboxInv
    OBVIOUS
  <1>1. TypeOK
    BY DEF Init, TypeOK, Absent, IdlePublisher, NoClaim, Claims, Locks, Free
  <1>2. \A p \in Publishers : pub[p].batch = {} /\ pub[p].pc = "idle" /\ Holds(p) = {}
    BY DEF Init, IdlePublisher, Holds
  <1>3. \A e \in Events : rows[e].state = "absent" /\ window[e] = 0
    BY DEF Init, Absent
  <1>4. stream = <<>>
    BY DEF Init
  <1>. QED
    BY <1>1, <1>2, <1>3, <1>4
       DEF OutboxInv, PublishedIsDelivered, LiveClaimsDisjointWithoutFaults, LiveClaimsDisjoint, BatchKnown

\* A stuttering step keeps it.
LEMMA OutboxStutters ==
    ASSUME OutboxInv, UNCHANGED vars PROVE OutboxInv'
  BY DEF OutboxInv, vars, TypeOK, PublishedIsDelivered, LiveClaimsDisjointWithoutFaults,
         LiveClaimsDisjoint, Holds, BatchKnown, Sent, Pending

\* Insert adds a row that no publisher holds and the queue does not have.
LEMMA InsertKeeps ==
    ASSUME OutboxInv, NEW e \in Events, NEW lag \in 0..MaxLag, Insert(e, lag) PROVE OutboxInv'
  <1>. USE DEF OutboxInv
  <1>1. PICK row : row = [Absent EXCEPT !.state = "pending", !.due = -lag]
    OBVIOUS
  <1>a. /\ row.state = "pending"
        /\ row \in [state : {"absent", "pending", "published"}, due : (-Horizon)..MaxBackoff,
                    attempts : Nat, lock : Locks]
    <2>1. PICK due \in (-Horizon)..MaxBackoff : due = -lag
      OBVIOUS
    <2>2. Free \in Locks
      BY DEF Free, Locks
    <2>3. row.state = "pending" /\ row.due = due /\ row.attempts = 0 /\ row.lock = Free
          /\ row = [state |-> row.state, due |-> row.due, attempts |-> row.attempts, lock |-> row.lock]
      BY ONLY <1>1, <2>1 DEF Absent
    <2>. QED  BY ONLY <2>1, <2>2, <2>3
  <1>b. /\ rows[e].state = "absent" /\ UNCHANGED <<pub, stream, window, faults>>
        /\ rows' = [rows EXCEPT ![e] = row] /\ committed' = Append(committed, e)
    BY <1>1, Zenon DEF Insert
  <1>c. /\ \A f \in Events : f # e => rows'[f] = rows[f]
        /\ rows'[e].state = "pending"
    BY <1>a, <1>b DEF TypeOK
  <1>2. TypeOK'
    <2>1. committed' \in Seq(Events)
      BY <1>b DEF TypeOK
    <2>. QED  BY <1>a, <1>b, <2>1 DEF TypeOK
  <1>3. \A i \in DOMAIN stream : stream[i] \in Events /\ stream[i] # e
    BY <1>b, <1>c DEF TypeOK, PublishedIsDelivered
  <1>4. PublishedIsDelivered'
    BY <1>b, <1>c, <1>3 DEF PublishedIsDelivered, Sent
  <1>5. \A p \in Publishers : \A rec \in pub[p].batch : rec.id \in Events /\ rec.id # e
    BY <1>b, <1>c DEF BatchKnown, TypeOK, Claims
  <1>6. \A p \in Publishers : Holds(p)' = Holds(p) /\ e \notin Holds(p) /\ Holds(p) \subseteq Events
    BY <1>b, <1>c, <1>5 DEF Holds
  <1>7. LiveClaimsDisjointWithoutFaults'
    BY <1>b, <1>c, <1>6 DEF LiveClaimsDisjointWithoutFaults, LiveClaimsDisjoint
  <1>8. ASSUME NEW p \in Publishers PROVE BatchKnown(p)'
    BY <1>b, <1>c, <1>5, <1>6 DEF BatchKnown, Sent, Pending
  <1>9. \A f \in Events : (window[f] > 0 => Sent(f))'
    BY <1>b, <1>c DEF Sent
  <1>. QED  BY <1>2, <1>4, <1>7, <1>8, <1>9

\* A claim takes rows that are pending and whose lock has run out: no publisher whose
\* claim lasts loses one of its own.
LEMMA ClaimKeeps ==
    ASSUME OutboxInv, NEW p \in Publishers, NEW lag \in 0..MaxLag, Claim(p, lag) PROVE OutboxInv'
  <1>. USE DEF OutboxInv
  <1>1. PICK S \in Batches(lag) \ {{}} :
          /\ rows' = [e \in Events |-> IF e \in S THEN [rows[e] EXCEPT !.lock = LockFor - lag]
                                                  ELSE rows[e]]
          /\ pub' = [pub EXCEPT ![p] =
                        [IdlePublisher EXCEPT
                            !.pc = "send", !.left = LockFor - lag,
                            !.batch = { [id |-> e, attempts |-> rows[e].attempts] : e \in S }]]
    BY DEF Claim
  <1>2. UNCHANGED <<stream, window, committed, faults>>
    BY DEF Claim
  <1>3. \A e \in S : e \in Events /\ rows[e].state = "pending" /\ rows[e].lock < -lag
    BY DEF Batches, Claimable, Pending
  <1>4. PICK B : B = { [id |-> e, attempts |-> rows[e].attempts] : e \in S }
    OBVIOUS
  <1>5. PICK L : L = [IdlePublisher EXCEPT !.pc = "send", !.left = LockFor - lag, !.batch = B]
    OBVIOUS
  <1>a. /\ L.pc = "send" /\ L.batch = B /\ L.left = LockFor - lag
        /\ L = [pc |-> L.pc, batch |-> L.batch, cur |-> L.cur, ok |-> L.ok, left |-> L.left]
        /\ L.cur = NoClaim /\ L.ok = FALSE
    BY <1>5 DEF IdlePublisher
  <1>b. pub' = [pub EXCEPT ![p] = L]
    BY <1>1, <1>4, <1>5, Zenon
  <1>c. pub'[p] = L /\ \A q \in Publishers : q # p => pub'[q] = pub[q]
    BY <1>b DEF TypeOK
  <1>6. B \in SUBSET Claims
    BY <1>3, <1>4 DEF Claims, TypeOK
  <1>7. LockFor - lag \in Locks /\ LockFor - lag \in Int
    BY DEF Locks, Free
  <1>8. /\ \A e \in Events : rows'[e].state = rows[e].state
        /\ \A e \in S : rows'[e].lock = LockFor - lag
        /\ \A e \in Events \ S : rows'[e] = rows[e]
    BY <1>1, <1>3 DEF TypeOK
  <1>9. TypeOK'
    <2>1. rows' \in [Events -> [state : {"absent", "pending", "published"}, due : (-Horizon)..MaxBackoff,
                                attempts : Nat, lock : Locks]]
      BY <1>1, <1>7 DEF TypeOK
    <2>2. pub' \in [Publishers -> [pc : {"idle", "send", "mark"}, batch : SUBSET Claims,
                                   cur : Claims \cup {NoClaim}, ok : BOOLEAN, left : Locks]]
      <3>1. L \in [pc : {"idle", "send", "mark"}, batch : SUBSET Claims,
                    cur : Claims \cup {NoClaim}, ok : BOOLEAN, left : Locks]
        BY <1>a, <1>6, <1>7
      <3>. QED  BY <1>b, <3>1 DEF TypeOK
    <2>. QED  BY <1>2, <2>1, <2>2 DEF TypeOK
  <1>10. PublishedIsDelivered'
    <2>1. \A i \in DOMAIN stream : stream[i] \in Events
      BY DEF TypeOK
    <2>. QED  BY <1>2, <1>8, <2>1 DEF PublishedIsDelivered, Sent
  <1>11. /\ Holds(p)' = S
         /\ \A q \in Publishers : q # p => Holds(q)' = Holds(q)
    <2>1. Holds(p)' = { rec.id : rec \in B }
      BY <1>a, <1>c DEF Holds
    <2>2. \A e : e \in { rec.id : rec \in B } <=> e \in S
      <3>1. \A rec \in B : rec.id \in S
        BY <1>4
      <3>2. \A e \in S : [id |-> e, attempts |-> rows[e].attempts] \in B
        BY <1>4
      <3>3. \A e \in S : \E rec \in B : rec.id = e
        BY <3>2
      <3>. QED  BY <3>1, <3>3
    <2>. QED  BY <1>a, <1>c, <2>1, <2>2 DEF Holds
  <1>12. \A q \in Publishers : Holds(q) \subseteq Events
    BY DEF Holds, TypeOK, Claims
  <1>13. ASSUME faults = 0, NEW q \in Publishers, NEW e \in S \cap Holds(q) PROVE pub[q].left < 0
    <2>1. rows[e].lock \in Int /\ pub[q].left \in Int
      <3>1. rows[e].lock \in Locks /\ pub[q].left \in Locks
        BY <1>3 DEF TypeOK
      <3>. QED  BY <3>1 DEF Locks
    <2>2. pub[q].left >= 0 => rows[e].lock = pub[q].left
      BY <1>3, <1>13 DEF BatchKnown, Pending
    <2>. QED  BY <1>3, <2>1, <2>2
  <1>14. LiveClaimsDisjointWithoutFaults'
    <2>. SUFFICES ASSUME faults = 0, NEW q \in Publishers, NEW r \in Publishers, q # r,
                         NEW e \in Holds(q)' \cap Holds(r)'
                  PROVE  pub'[q].left < 0 \/ pub'[r].left < 0
      BY <1>2 DEF LiveClaimsDisjointWithoutFaults, LiveClaimsDisjoint
    <2>1. CASE q = p
      BY <1>a, <1>c, <1>11, <1>13, <2>1
    <2>2. CASE r = p
      BY <1>a, <1>c, <1>11, <1>13, <2>2
    <2>3. CASE q # p /\ r # p
      BY <1>a, <1>c, <1>11, <2>3 DEF LiveClaimsDisjointWithoutFaults, LiveClaimsDisjoint
    <2>. QED  BY <2>1, <2>2, <2>3
  <1>15. ASSUME NEW q \in Publishers PROVE BatchKnown(q)'
    <2>1. CASE q = p
      <3>1. \A rec \in B : rec.id \in S
        BY <1>4
      <3>2. \A rec \in B : rows'[rec.id].state # "absent"
        BY <1>3, <1>8, <3>1
      <3>. QED  BY <1>a, <1>c, <1>8, <1>11, <2>1, <3>2 DEF BatchKnown
    <2>2. CASE q # p
      <3>1. \A rec \in pub'[q].batch : rows'[rec.id].state # "absent"
        BY <1>a, <1>c, <1>8, <2>2 DEF BatchKnown, TypeOK, Claims
      <3>2. (pub[q].pc = "mark" => /\ pub[q].cur \in pub[q].batch
                                   /\ pub[q].ok => Sent(pub[q].cur.id)
                                   /\ faults = 0 => pub[q].ok)'
        BY <1>2, <1>a, <1>c, <2>2 DEF BatchKnown, Sent
      <3>3. ASSUME faults = 0, pub[q].left >= 0, NEW e \in Holds(q), Pending(e)'
            PROVE  rows'[e].lock = pub[q].left
        <4>1. pub[q].left \in Int
          BY DEF TypeOK, Locks, Free
        <4>2. e \notin S
          BY <1>13, <3>3, <4>1
        <4>. QED  BY <1>8, <1>12, <3>3, <4>2 DEF BatchKnown, Pending
      <3>. QED  BY <1>2, <1>a, <1>c, <1>11, <2>2, <3>1, <3>2, <3>3 DEF BatchKnown
    <2>. QED  BY <2>1, <2>2
  <1>16. \A f \in Events : (window[f] > 0 => Sent(f))'
    BY <1>2 DEF Sent
  <1>. QED  BY <1>9, <1>10, <1>14, <1>15, <1>16

\* A send changes no row.  The record that was sent is the one to be marked, and if
\* the queue's answer came, the queue has it: from this send or from an earlier one
\* that it still remembers.
LEMMA PublishKeeps ==
    ASSUME OutboxInv, NEW p \in Publishers, NEW rec \in pub[p].batch, Publish(p, rec) PROVE OutboxInv'
  <1>. USE DEF OutboxInv
  <1>1. PICK accepted \in BOOLEAN, ok \in BOOLEAN :
          /\ ok => accepted
          /\ IF accepted THEN SendMessage(rec.id) ELSE UNCHANGED <<stream, window>>
          /\ IF ok THEN UNCHANGED faults ELSE Fault
          /\ pub' = [pub EXCEPT ![p].pc = "mark", ![p].cur = rec, ![p].ok = ok]
    BY DEF Publish
  <1>2. UNCHANGED <<rows, committed>> /\ pub[p].pc = "send"
    BY DEF Publish
  <1>3. rec \in Claims /\ rec.id \in Events /\ rows[rec.id].state # "absent"
    BY DEF TypeOK, Claims, BatchKnown
  <1>4. PICK e \in Events : e = rec.id
    BY <1>3
  <1>5. stream' = stream \/ stream' = Append(stream, e)
    BY <1>1, <1>4 DEF SendMessage
  <1>6. /\ stream' \in Seq(Events)
        /\ \A f : Sent(f) => Sent(f)'
        /\ stream' = Append(stream, e) => Sent(e)'
        /\ \A i \in DOMAIN stream' : stream'[i] = e \/ \E k \in DOMAIN stream : stream'[i] = stream[k]
    BY <1>5, SentStays
  <1>7. accepted => Sent(e)'
    BY <1>1, <1>4, <1>6 DEF SendMessage
  <1>8. /\ pub'[p].pc = "mark" /\ pub'[p].cur = rec /\ pub'[p].ok = ok
        /\ pub'[p].batch = pub[p].batch /\ pub'[p].left = pub[p].left
        /\ \A q \in Publishers : q # p => pub'[q] = pub[q]
    BY <1>1 DEF TypeOK
  <1>9. faults' \in 0..MaxFaults /\ (faults' = 0 => faults = 0 /\ ok)
    BY <1>1 DEF Fault, TypeOK
  <1>10. TypeOK'
    <2>1. pub' \in [Publishers -> [pc : {"idle", "send", "mark"}, batch : SUBSET Claims,
                                   cur : Claims \cup {NoClaim}, ok : BOOLEAN, left : Locks]]
      <3>. DEFINE Locals == [pc : {"idle", "send", "mark"}, batch : SUBSET Claims,
                             cur : Claims \cup {NoClaim}, ok : BOOLEAN, left : Locks]
      <3>1. pub \in [Publishers -> Locals] /\ pub[p] \in Locals
        BY DEF TypeOK
      <3>2. PICK L : L = [pub[p] EXCEPT !.pc = "mark", !.cur = rec, !.ok = ok]
        OBVIOUS
      <3>3. L \in Locals
        BY <1>3, <3>1, <3>2
      <3>4. pub' = [pub EXCEPT ![p] = L]
        BY <1>1, <3>1, <3>2
      <3>. QED  BY <3>1, <3>3, <3>4
    <2>2. window' \in [Events -> 0..DedupFor]
      <3>1. window' = window \/ window' = [window EXCEPT ![e] = DedupFor]
        BY <1>1, <1>4 DEF SendMessage
      <3>2. window \in [Events -> 0..DedupFor] /\ DedupFor \in 0..DedupFor
        BY DEF TypeOK
      <3>. QED  BY ONLY <3>1, <3>2
    <2>. QED  BY <1>2, <1>6, <1>9, <2>1, <2>2 DEF TypeOK
  <1>11. PublishedIsDelivered'
    BY <1>2, <1>3, <1>4, <1>6 DEF PublishedIsDelivered
  <1>12. \A q \in Publishers : Holds(q)' = Holds(q) /\ pub'[q].left = pub[q].left
    BY <1>8 DEF Holds
  <1>13. LiveClaimsDisjointWithoutFaults'
    BY <1>9, <1>12 DEF LiveClaimsDisjointWithoutFaults, LiveClaimsDisjoint
  <1>14. ASSUME NEW q \in Publishers PROVE BatchKnown(q)'
    <2>1. \A r \in pub'[q].batch : rows'[r.id].state # "absent"
      BY <1>2, <1>8 DEF BatchKnown
    <2>2. faults' = 0 /\ pub'[q].left >= 0 =>
              \A f \in Holds(q)' : Pending(f)' => rows'[f].lock = pub'[q].left
      BY <1>2, <1>9, <1>12 DEF BatchKnown, Pending
    <2>3. (pub[q].pc = "mark" => /\ pub[q].cur \in pub[q].batch
                                 /\ pub[q].ok => Sent(pub[q].cur.id)
                                 /\ faults = 0 => pub[q].ok)'
      <3>1. CASE q = p
        <4>1. pub'[q].cur \in pub'[q].batch /\ (faults' = 0 => pub'[q].ok)
          BY <1>8, <1>9, <3>1
        <4>2. pub'[q].ok => \E i \in DOMAIN stream' : stream'[i] = pub'[q].cur.id
          BY <1>1, <1>4, <1>7, <1>8, <3>1 DEF Sent
        <4>. QED  BY <4>1, <4>2 DEF Sent
      <3>2. CASE q # p
        <4>1. PICK g : g = pub[q].cur.id
          OBVIOUS
        <4>2. Sent(g) => Sent(g)'
          BY <1>6
        <4>3. pub'[q] = pub[q]
          BY <1>8, <3>2
        <4>4. pub[q].pc = "mark" => /\ pub[q].cur \in pub[q].batch
                                    /\ pub[q].ok => Sent(g)
                                    /\ faults = 0 => pub[q].ok
          BY <4>1 DEF BatchKnown
        <4>. QED  BY <1>9, <4>1, <4>2, <4>3, <4>4 DEF Sent
      <3>. QED  BY <3>1, <3>2
    <2>. QED  BY <2>1, <2>2, <2>3 DEF BatchKnown
  <1>15. \A f \in Events : (window[f] > 0 => Sent(f))'
    <2>. SUFFICES ASSUME NEW f \in Events, window'[f] > 0 PROVE Sent(f)'
      OBVIOUS
    <2>1. CASE f = e
      BY <1>1, <1>4, <1>6, <1>7, <2>1 DEF SendMessage
    <2>2. CASE f # e
      <3>1. window'[f] = window[f]
        BY <1>1, <1>4, <2>2 DEF SendMessage, TypeOK
      <3>. QED  BY <1>6, <3>1
    <2>. QED  BY <2>1, <2>2
  <1>. QED  BY <1>10, <1>11, <1>13, <1>14, <1>15

\* What going on to the next record leaves: a part of the batch, under the same claim.
LEMMA NextRecordKeeps ==
    ASSUME OutboxInv, NEW p \in Publishers, NextRecord(p, pub[p].cur)
    PROVE  /\ pub' \in [Publishers -> [pc : {"idle", "send", "mark"}, batch : SUBSET Claims,
                                       cur : Claims \cup {NoClaim}, ok : BOOLEAN, left : Locks]]
           /\ pub'[p].pc # "mark" /\ pub'[p].batch \subseteq pub[p].batch
           /\ pub'[p].batch # {} => pub'[p].left = pub[p].left
           /\ \A q \in Publishers : q # p => pub'[q] = pub[q]
  <1>. DEFINE Locals == [pc : {"idle", "send", "mark"}, batch : SUBSET Claims,
                         cur : Claims \cup {NoClaim}, ok : BOOLEAN, left : Locks]
  <1>1. pub \in [Publishers -> Locals]
    BY DEF OutboxInv, TypeOK
  <1>2. PICK rest : rest = pub[p].batch \ {pub[p].cur}
    OBVIOUS
  <1>3. PICK L : L = IF rest = {} THEN IdlePublisher
                     ELSE [pub[p] EXCEPT !.pc = "send", !.batch = rest, !.cur = NoClaim, !.ok = FALSE]
    OBVIOUS
  <1>4. pub' = [pub EXCEPT ![p] = L]
    BY <1>2, <1>3, Zenon DEF NextRecord
  <1>5. /\ L \in Locals /\ L.pc # "mark" /\ L.batch \subseteq pub[p].batch
        /\ L.batch # {} => L.left = pub[p].left
    <2>1. CASE rest = {}
      <3>1. Free \in Locks
        BY DEF Free, Locks
      <3>. QED  BY <1>3, <2>1, <3>1 DEF IdlePublisher
    <2>2. CASE rest # {}
      <3>1. L = [pub[p] EXCEPT !.pc = "send", !.batch = rest, !.cur = NoClaim, !.ok = FALSE]
        BY <1>3, <2>2
      <3>2. pub[p] \in Locals /\ rest \subseteq pub[p].batch /\ rest \subseteq Claims
        BY <1>1, <1>2
      <3>. QED  BY <3>1, <3>2
    <2>. QED  BY <2>1, <2>2
  <1>. QED  BY <1>1, <1>4, <1>5

\* Going on to the next record with no row touched keeps the invariant, and so does a
\* mark that leaves every row's state known and breaks no claim.
LEMMA MarkedKeeps ==
    ASSUME OutboxInv, NEW p \in Publishers, NextRecord(p, pub[p].cur),
           UNCHANGED <<stream, window, committed>>,
           faults' \in 0..MaxFaults, faults' = 0 => faults = 0,
           rows' \in [Events -> [state : {"absent", "pending", "published"}, due : (-Horizon)..MaxBackoff,
                                 attempts : Nat, lock : Locks]],
           \A e \in Events : rows[e].state # "absent" => rows'[e].state # "absent",
           \A e \in Events : rows'[e].state = "published" => rows[e].state = "published" \/ Sent(e),
           faults' = 0 => \A e \in Events : rows'[e].state = "pending" => rows'[e] = rows[e]
    PROVE  OutboxInv'
  <1>. USE DEF OutboxInv
  <1>1. /\ pub' \in [Publishers -> [pc : {"idle", "send", "mark"}, batch : SUBSET Claims,
                                    cur : Claims \cup {NoClaim}, ok : BOOLEAN, left : Locks]]
        /\ pub'[p].pc # "mark" /\ pub'[p].batch \subseteq pub[p].batch
        /\ pub'[p].batch # {} => pub'[p].left = pub[p].left
        /\ \A q \in Publishers : q # p => pub'[q] = pub[q]
    BY NextRecordKeeps
  <1>2. TypeOK'
    BY <1>1 DEF TypeOK
  <1>3. PublishedIsDelivered'
    <2>1. \A i \in DOMAIN stream : stream[i] \in Events
      BY DEF TypeOK
    <2>. QED  BY <2>1 DEF PublishedIsDelivered, Sent
  <1>4. \A q \in Publishers : /\ Holds(q)' \subseteq Holds(q) /\ Holds(q) \subseteq Events
                              /\ Holds(q)' # {} => pub'[q].left = pub[q].left
    <2>. SUFFICES ASSUME NEW q \in Publishers
                  PROVE  /\ Holds(q)' \subseteq Holds(q) /\ Holds(q) \subseteq Events
                         /\ Holds(q)' # {} => pub'[q].left = pub[q].left
      OBVIOUS
    <2>1. pub'[q].batch \subseteq pub[q].batch /\ (pub'[q].batch # {} => pub'[q].left = pub[q].left)
      BY <1>1
    <2>2. \A rec \in pub[q].batch : rec.id \in Events
      BY DEF TypeOK, Claims
    <2>. QED  BY <2>1, <2>2 DEF Holds
  <1>5. LiveClaimsDisjointWithoutFaults'
    <2>. SUFFICES ASSUME faults = 0, NEW q \in Publishers, NEW r \in Publishers, q # r,
                         NEW e \in Holds(q)' \cap Holds(r)'
                  PROVE  pub'[q].left < 0 \/ pub'[r].left < 0
      BY DEF LiveClaimsDisjointWithoutFaults, LiveClaimsDisjoint
    <2>. QED  BY <1>4 DEF LiveClaimsDisjointWithoutFaults, LiveClaimsDisjoint
  <1>6. ASSUME NEW q \in Publishers PROVE BatchKnown(q)'
    <2>1. \A rec \in pub'[q].batch : rows'[rec.id].state # "absent"
      <3>1. pub'[q].batch \subseteq pub[q].batch
        BY <1>1
      <3>2. \A rec \in pub[q].batch : rec.id \in Events
        BY DEF TypeOK, Claims
      <3>. QED  BY <3>1, <3>2 DEF BatchKnown
    <2>2. (pub[q].pc = "mark" => /\ pub[q].cur \in pub[q].batch
                                 /\ pub[q].ok => Sent(pub[q].cur.id)
                                 /\ faults = 0 => pub[q].ok)'
      BY <1>1 DEF BatchKnown, Sent
    <2>3. ASSUME faults' = 0, pub'[q].left >= 0, NEW e \in Holds(q)', Pending(e)'
          PROVE  rows'[e].lock = pub'[q].left
      <3>1. e \in Events /\ e \in Holds(q) /\ pub'[q].left = pub[q].left
        BY <1>4
      <3>2. rows'[e] = rows[e]
        BY <2>3, <3>1 DEF Pending
      <3>. QED  BY <2>3, <3>1, <3>2 DEF BatchKnown, Pending
    <2>. QED  BY <2>1, <2>2, <2>3 DEF BatchKnown
  <1>7. \A f \in Events : (window[f] > 0 => Sent(f))'
    BY DEF Sent
  <1>. QED  BY <1>2, <1>3, <1>5, <1>6, <1>7

\* The mark of a send that succeeded publishes a row the queue has; a row is only
\* rescheduled after a send that failed.
LEMMA MarkKeeps ==
    ASSUME OutboxInv, NEW p \in Publishers, Mark(p) PROVE OutboxInv'
  <1>1. /\ pub[p].pc = "mark" /\ NextRecord(p, pub[p].cur) /\ UNCHANGED <<stream, window, committed, faults>>
        /\ rows' = [rows EXCEPT ![pub[p].cur.id] =
                       IF pub[p].ok THEN MarkPublished(pub[p].cur.id)
                       ELSE Reschedule(pub[p].cur.id, pub[p].cur.attempts + 1)]
    BY Zenon DEF Mark
  <1>2. /\ pub[p].cur \in Claims /\ (pub[p].ok => Sent(pub[p].cur.id)) /\ (faults = 0 => pub[p].ok)
        /\ pub[p].cur.id \in Events /\ pub[p].cur.attempts \in Nat
        /\ rows[pub[p].cur.id].state # "absent"
    BY <1>1 DEF OutboxInv, BatchKnown, TypeOK, Claims
  <1>3. PICK e \in Events : e = pub[p].cur.id
    BY <1>2
  <1>. DEFINE Rows == [state : {"absent", "pending", "published"}, due : (-Horizon)..MaxBackoff,
                       attempts : Nat, lock : Locks]
  <1>4. rows \in [Events -> Rows] /\ rows[e] \in Rows /\ faults \in 0..MaxFaults
    BY DEF OutboxInv, TypeOK
  <1>5. Free \in Locks
    BY DEF Free, Locks
  <1>6. PICK row : row = IF pub[p].ok THEN MarkPublished(e) ELSE Reschedule(e, pub[p].cur.attempts + 1)
    OBVIOUS
  <1>7. rows' = [rows EXCEPT ![e] = row]
    BY <1>1, <1>3, <1>6, Zenon
  <1>8. /\ row \in Rows /\ row.state # "absent"
        /\ row.state = "published" => rows[e].state = "published" \/ Sent(e)
        /\ faults = 0 => row.state # "pending" \/ row = rows[e]
    <2>1. CASE pub[p].ok
      <3>1. row = MarkPublished(e) /\ Sent(e)
        BY <1>2, <1>3, <1>6, <2>1
      <3>. QED  BY <1>2, <1>3, <1>4, <1>5, <3>1 DEF MarkPublished, Pending
    <2>2. CASE ~pub[p].ok
      <3>1. PICK n \in Nat \ {0} : n = pub[p].cur.attempts + 1
        BY <1>2
      <3>2. row = Reschedule(e, n) /\ faults # 0
        BY <1>2, <1>6, <2>2, <3>1
      <3>3. PICK delay \in (-Horizon)..MaxBackoff : delay = backoffFor(n)
        BY BackoffBounded
      <3>4. row = rows[e] \/ (rows[e].state = "pending" /\
                              row = [rows[e] EXCEPT !.attempts = n, !.due = delay, !.lock = Free])
        BY <3>2, <3>3 DEF Reschedule, Pending
      <3>. QED  BY ONLY <1>2, <1>3, <1>4, <1>5, <3>1, <3>2, <3>3, <3>4
    <2>. QED  BY <2>1, <2>2
  <1>9. /\ rows' \in [Events -> Rows]
        /\ \A f \in Events : rows[f].state # "absent" => rows'[f].state # "absent"
        /\ \A f \in Events : rows'[f].state = "published" => rows[f].state = "published" \/ Sent(f)
        /\ faults' = 0 => \A f \in Events : rows'[f].state = "pending" => rows'[f] = rows[f]
    BY <1>1, <1>4, <1>7, <1>8
  <1>. QED  BY <1>1, <1>4, <1>9, MarkedKeeps

\* A mark that fails leaves the row claimed.
LEMMA MarkFailsKeeps ==
    ASSUME OutboxInv, NEW p \in Publishers, MarkFails(p) PROVE OutboxInv'
  <1>1. /\ NextRecord(p, pub[p].cur) /\ UNCHANGED <<rows, stream, window, committed>>
        /\ faults' \in 0..MaxFaults /\ (faults' = 0 => faults = 0)
    BY DEF MarkFails, Fault, OutboxInv, TypeOK
  <1>2. rows \in [Events -> [state : {"absent", "pending", "published"}, due : (-Horizon)..MaxBackoff,
                             attempts : Nat, lock : Locks]]
    BY DEF OutboxInv, TypeOK
  <1>. QED  BY <1>1, <1>2, MarkedKeeps

\* A publisher that dies holds nothing, and what it had claimed stays claimed.
LEMMA CrashKeeps ==
    ASSUME OutboxInv, NEW p \in Publishers, Crash(p) PROVE OutboxInv'
  <1>. USE DEF OutboxInv
  <1>1. /\ pub' = [pub EXCEPT ![p] = IdlePublisher] /\ UNCHANGED <<rows, stream, window, committed>>
        /\ faults' \in 1..MaxFaults
    BY DEF Crash, Fault, TypeOK
  <1>2. /\ pub'[p].batch = {} /\ pub'[p].pc = "idle"
        /\ \A q \in Publishers : q # p => pub'[q] = pub[q]
    BY <1>1 DEF TypeOK, IdlePublisher
  <1>3. TypeOK'
    <2>1. Free \in Locks
      BY DEF Free, Locks
    <2>2. IdlePublisher \in [pc : {"idle", "send", "mark"}, batch : SUBSET Claims,
                             cur : Claims \cup {NoClaim}, ok : BOOLEAN, left : Locks]
      BY <2>1 DEF IdlePublisher
    <2>. QED  BY <1>1, <2>2 DEF TypeOK
  <1>4. PublishedIsDelivered' /\ LiveClaimsDisjointWithoutFaults'
    BY <1>1 DEF PublishedIsDelivered, Sent, LiveClaimsDisjointWithoutFaults
  <1>5. ASSUME NEW q \in Publishers PROVE BatchKnown(q)'
    BY <1>1, <1>2 DEF BatchKnown, Sent
  <1>6. \A f \in Events : (window[f] > 0 => Sent(f))'
    BY <1>1 DEF Sent
  <1>. QED  BY <1>3, <1>4, <1>5, <1>6

\* Time ages the lock of a row and its publisher's view of it alike.
LEMMA TickKeeps ==
    ASSUME OutboxInv, Tick PROVE OutboxInv'
  <1>. USE DEF OutboxInv
  <1>1. /\ rows' = [e \in Events |-> IF Pending(e)
                                     THEN [rows[e] EXCEPT !.due = Older(@), !.lock = Older(@)]
                                     ELSE rows[e]]
        /\ pub' = [p \in Publishers |-> [pub[p] EXCEPT !.left = Older(@)]]
        /\ window' = [e \in Events |-> IF window[e] > 0 THEN window[e] - 1 ELSE 0]
        /\ UNCHANGED <<stream, committed, faults>>
    BY DEF Tick
  <1>2. \A t \in Locks : Older(t) \in Locks /\ (Older(t) >= 0 => t >= 0)
    BY DEF Older, Locks, Free
  <1>3. \A t \in (-Horizon)..MaxBackoff : Older(t) \in (-Horizon)..MaxBackoff
    BY DEF Older
  <1>. DEFINE Rows == [state : {"absent", "pending", "published"}, due : (-Horizon)..MaxBackoff,
                       attempts : Nat, lock : Locks]
              Locals == [pc : {"idle", "send", "mark"}, batch : SUBSET Claims,
                         cur : Claims \cup {NoClaim}, ok : BOOLEAN, left : Locks]
  <1>4. ASSUME NEW e \in Events
        PROVE  /\ rows'[e] \in Rows /\ rows'[e].state = rows[e].state
               /\ Pending(e) => rows'[e].lock = Older(rows[e].lock)
    <2>1. rows[e] \in Rows
      BY DEF TypeOK
    <2>2. rows'[e] = IF Pending(e) THEN [rows[e] EXCEPT !.due = Older(rows[e].due),
                                                        !.lock = Older(rows[e].lock)]
                     ELSE rows[e]
      BY <1>1
    <2>3. Older(rows[e].due) \in (-Horizon)..MaxBackoff /\ Older(rows[e].lock) \in Locks
      BY <1>2, <1>3, <2>1
    <2>. QED  BY <2>1, <2>2, <2>3
  <1>5. ASSUME NEW p \in Publishers
        PROVE  /\ pub'[p] \in Locals /\ pub'[p].left = Older(pub[p].left)
               /\ pub'[p].pc = pub[p].pc /\ pub'[p].batch = pub[p].batch
               /\ pub'[p].cur = pub[p].cur /\ pub'[p].ok = pub[p].ok
               /\ pub[p].left \in Locks
    <2>1. pub[p] \in Locals
      BY DEF TypeOK
    <2>2. pub'[p] = [pub[p] EXCEPT !.left = Older(pub[p].left)]
      BY <1>1
    <2>3. Older(pub[p].left) \in Locks
      BY <1>2, <2>1
    <2>. QED  BY <2>1, <2>2, <2>3
  <1>6. TypeOK'
    <2>1. rows' \in [Events -> Rows]
      BY <1>1, <1>4
    <2>2. pub' \in [Publishers -> Locals]
      BY <1>1, <1>5
    <2>3. window' \in [Events -> 0..DedupFor]
      <3>1. \A e \in Events : window[e] \in 0..DedupFor
        BY DEF TypeOK
      <3>2. \A e \in Events : (IF window[e] > 0 THEN window[e] - 1 ELSE 0) \in 0..DedupFor
        BY <3>1
      <3>. QED  BY <1>1, <3>2, Zenon
    <2>. QED  BY <1>1, <2>1, <2>2, <2>3 DEF TypeOK
  <1>7. PublishedIsDelivered'
    <2>1. \A i \in DOMAIN stream : stream[i] \in Events
      BY DEF TypeOK
    <2>. QED  BY <1>1, <1>4, <2>1 DEF PublishedIsDelivered, Sent
  <1>8. \A p \in Publishers : Holds(p)' = Holds(p)
    BY <1>5 DEF Holds
  <1>9. \A p \in Publishers : ~(pub'[p].left < 0) => ~(pub[p].left < 0) /\ pub[p].left >= 0
    <2>1. \A t \in Locks : ~(Older(t) < 0) => ~(t < 0) /\ t >= 0
      BY DEF Older, Locks, Free
    <2>. QED  BY <1>5, <2>1
  <1>10. LiveClaimsDisjointWithoutFaults'
    BY <1>1, <1>8, <1>9 DEF LiveClaimsDisjointWithoutFaults, LiveClaimsDisjoint
  <1>11. ASSUME NEW p \in Publishers PROVE BatchKnown(p)'
    <2>1. \A rec \in pub[p].batch : rec.id \in Events
      BY DEF TypeOK, Claims
    <2>2. \A rec \in pub'[p].batch : rows'[rec.id].state # "absent"
      BY <1>4, <1>5, <2>1 DEF BatchKnown
    <2>3. (pub[p].pc = "mark" => /\ pub[p].cur \in pub[p].batch
                                 /\ pub[p].ok => Sent(pub[p].cur.id)
                                 /\ faults = 0 => pub[p].ok)'
      <3>1. PICK g : g = pub[p].cur.id
        OBVIOUS
      <3>2. Sent(g) => Sent(g)'
        BY <1>1 DEF Sent
      <3>3. pub[p].pc = "mark" => /\ pub[p].cur \in pub[p].batch
                                  /\ pub[p].ok => Sent(g)
                                  /\ faults = 0 => pub[p].ok
        BY <3>1 DEF BatchKnown
      <3>. QED  BY <1>1, <1>5, <3>1, <3>2, <3>3 DEF Sent
    <2>4. ASSUME faults = 0, pub'[p].left >= 0, NEW e \in Holds(p), Pending(e)'
          PROVE  rows'[e].lock = pub'[p].left
      <3>1. e \in Events
        BY <2>1 DEF Holds
      <3>2. Pending(e) /\ rows'[e].lock = Older(rows[e].lock)
        BY <1>4, <2>4, <3>1 DEF Pending
      <3>3. pub[p].left >= 0 /\ pub'[p].left = Older(pub[p].left)
        BY <1>2, <1>5, <2>4
      <3>4. rows[e].lock = pub[p].left
        BY <2>4, <3>2, <3>3 DEF BatchKnown
      <3>. QED  BY <3>2, <3>3, <3>4
    <2>. QED  BY <1>1, <1>8, <2>2, <2>3, <2>4 DEF BatchKnown
  <1>12. \A f \in Events : (window[f] > 0 => Sent(f))'
    <2>. SUFFICES ASSUME NEW f \in Events, window'[f] > 0 PROVE Sent(f)'
      OBVIOUS
    <2>1. window[f] \in 0..DedupFor /\ window'[f] = IF window[f] > 0 THEN window[f] - 1 ELSE 0
      BY <1>1 DEF TypeOK
    <2>2. Sent(f)
      BY <2>1
    <2>. QED  BY <1>1, <2>2 DEF Sent
  <1>. QED  BY <1>6, <1>7, <1>10, <1>11, <1>12

-----------------------------------------------------------------------------
(* The theorems.                                                           *)

\* Every step keeps the invariant.
LEMMA OutboxNext == OutboxInv /\ [Next]_vars => OutboxInv'
  <1>. SUFFICES ASSUME OutboxInv, [Next]_vars PROVE OutboxInv'
    OBVIOUS
  <1>1. CASE UNCHANGED vars
    BY <1>1, OutboxStutters
  <1>2. ASSUME NEW e \in Events, NEW lag \in 0..MaxLag, Insert(e, lag) PROVE OutboxInv'
    BY <1>2, InsertKeeps
  <1>3. ASSUME NEW p \in Publishers, PublisherStep(p) PROVE OutboxInv'
    <2>1. ASSUME NEW lag \in 0..MaxLag, Claim(p, lag) PROVE OutboxInv'
      BY <2>1, ClaimKeeps
    <2>2. ASSUME NEW rec \in pub[p].batch, Publish(p, rec) PROVE OutboxInv'
      BY <2>2, PublishKeeps
    <2>3. CASE Mark(p)
      BY <2>3, MarkKeeps
    <2>. QED  BY <1>3, <2>1, <2>2, <2>3 DEF PublisherStep
  <1>4. ASSUME NEW p \in Publishers, MarkFails(p) PROVE OutboxInv'
    BY <1>4, MarkFailsKeeps
  <1>5. ASSUME NEW p \in Publishers, Crash(p) PROVE OutboxInv'
    BY <1>5, CrashKeeps
  <1>6. CASE Tick
    BY <1>6, TickKeeps
  <1>. QED  BY <1>1, <1>2, <1>3, <1>4, <1>5, <1>6 DEF Next

\* The invariant of the outbox holds in every reachable state.
THEOREM OutboxInvariance == Spec => []OutboxInv
  BY OutboxInit, OutboxNext, PTL DEF Spec

\* Rows, claims, delays and the queue's window keep their types: no clock reading,
\* however old, makes a claim longer than LockFor, and no retry waits beyond MaxBackoff.
THEOREM OutboxTypes == Spec => []TypeOK
  <1>1. OutboxInv => TypeOK
    BY DEF OutboxInv
  <1>. QED  BY <1>1, OutboxInvariance, PTL

\* MarkPublished is only reached after the queue has accepted the event, and the queue
\* only has events whose unit of work committed: through lost answers, failed marks,
\* crashes and a window that forgets.
THEOREM PublishedWereDelivered == Spec => []PublishedIsDelivered
  <1>1. OutboxInv => PublishedIsDelivered
    BY DEF OutboxInv
  <1>. QED  BY <1>1, OutboxInvariance, PTL

\* Until something fails, no two publishers work on one row while both their claims
\* last, for every LockFor at least as long as a clock reading may be old.
THEOREM ClaimsAreExclusive == Spec => []LiveClaimsDisjointWithoutFaults
  <1>1. OutboxInv => LiveClaimsDisjointWithoutFaults
    BY DEF OutboxInv
  <1>. QED  BY <1>1, OutboxInvariance, PTL

=============================================================================
