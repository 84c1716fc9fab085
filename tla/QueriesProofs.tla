--------------------------- MODULE QueriesProofs ----------------------------
(***************************************************************************)
(* QueryInv is an invariant of Queries.  The ledger only grows, so what a  *)
(* reconciliation has read stays a balance the wallet had, and the sum of  *)
(* the ledger is the balance at its end.  An operation has one entry, so   *)
(* an entry never changes its place in the order of created_at and id, and *)
(* a page ends exactly where the next one begins.                          *)
(***************************************************************************)
EXTENDS Queries, CommitProofs, WellFoundedInduction

\* A set of natural numbers has a least member.
LEMMA Least ==
  ASSUME NEW T, T \subseteq Nat, T # {} PROVE \E m \in T : \A k \in T : m <= k
  <1>1. PICK m \in T : \A k \in T : ~(<<k, m>> \in OpToRel(<, Nat))
    BY NatLessThanWellFounded, WFMin
  <1>2. ASSUME NEW k \in T PROVE m <= k
    <2>1. SUFFICES ASSUME k < m PROVE FALSE
      OBVIOUS
    <2>2. <<k, m>> \in Nat \X Nat /\ <<k, m>>[1] < <<k, m>>[2]
      BY <2>1
    <2>3. <<k, m>> \in OpToRel(<, Nat)
      BY <2>2, Zenon DEF OpToRel
    <2> QED BY <1>1, <2>3, Zenon
  <1> QED BY <1>2

-----------------------------------------------------------------------------
(* What SUM over the ledger returns.                                       *)

\* g has the partial sums of a, up to n.
Sums(g, a, n) == g = [i \in 0..n |-> IF i = 0 THEN 0 ELSE g[i - 1] + a[i]]

\* There are partial sums.
LEMMA SumsExist ==
  ASSUME NEW N \in Nat, NEW a PROVE \E g : Sums(g, a, N)
  <1> DEFINE T == { n \in Nat : ~\E g : Sums(g, a, n) }
  <1>1. SUFFICES ASSUME T # {} PROVE FALSE
    OBVIOUS
  <1>2. PICK m \in T : \A k \in T : m <= k
    BY <1>1, Least
  <1>3. m \in Nat /\ ~\E g : Sums(g, a, m)
    OBVIOUS
  <1>4. CASE m = 0
    <2>1. PICK g : g = [i \in 0..0 |-> 0]
      OBVIOUS
    <2>2. Sums(g, a, 0)
      BY <2>1 DEF Sums
    <2> QED BY <1>3, <1>4, <2>2
  <1>5. CASE m # 0
    <2>1. m - 1 \in Nat /\ m - 1 \notin T
      BY <1>2, <1>3, <1>5
    <2>2. PICK g : Sums(g, a, m - 1)
      BY <2>1
    <2>3. PICK h : h = [i \in 0..m |-> IF i = m THEN g[m - 1] + a[m] ELSE g[i]]
      OBVIOUS
    <2>4. ASSUME NEW i \in 0..m PROVE h[i] = IF i = 0 THEN 0 ELSE h[i - 1] + a[i]
      <3>1. CASE i = m
        BY <1>3, <1>5, <2>3, <3>1
      <3>2. CASE i # m
        <4>1. i \in 0..(m - 1) /\ h[i] = g[i] /\ (i # 0 => h[i - 1] = g[i - 1])
          BY <1>3, <2>3, <3>2
        <4>2. g[i] = IF i = 0 THEN 0 ELSE g[i - 1] + a[i]
          BY <2>2, <4>1 DEF Sums
        <4> QED BY <4>1, <4>2
      <3> QED BY <3>1, <3>2
    <2>5. h = [i \in 0..m |-> IF i = 0 THEN 0 ELSE h[i - 1] + a[i]]
      BY <2>3, <2>4
    <2>6. Sums(h, a, m)
      BY <2>5 DEF Sums
    <2> QED BY <1>3, <2>6
  <1> QED BY <1>4, <1>5

\* What the entries of one direction add, one by one.
Steps(s, dir) == [i \in 1..Len(s) |-> IF s[i].dir = dir THEN s[i].amount ELSE 0]

\* SumOf is the last of the partial sums.
LEMMA SumIsLast ==
  ASSUME NEW s, Len(s) \in Nat, NEW dir
  PROVE  \E g : Sums(g, Steps(s, dir), Len(s)) /\ SumOf(s, dir) = g[Len(s)]
  <1> DEFINE N == Len(s)
             F(g) == [n \in 0..N |-> IF n = 0 THEN 0
                                     ELSE g[n - 1] + (IF s[n].dir = dir THEN s[n].amount ELSE 0)]
             g0 == CHOOSE g : g = F(g)
  <1>1. PICK g : Sums(g, Steps(s, dir), N)
    BY SumsExist
  <1>2. ASSUME NEW f PROVE Sums(f, Steps(s, dir), N) <=> f = F(f)
    <2>1. \A n \in 0..N : n # 0 => Steps(s, dir)[n] = IF s[n].dir = dir THEN s[n].amount ELSE 0
      BY DEF Steps
    <2>2. [n \in 0..N |-> IF n = 0 THEN 0 ELSE f[n - 1] + Steps(s, dir)[n]] = F(f)
      BY <2>1
    <2> QED BY <2>2 DEF Sums
  <1>3. g = F(g)
    BY <1>1, <1>2
  <1>4. g0 = F(g0)
    BY <1>3
  <1>5. SumOf(s, dir) = g0[N]
    BY DEF SumOf
  <1>6. Sums(g0, Steps(s, dir), N)
    BY <1>2, <1>4
  <1> QED BY <1>5, <1>6

\* Credits minus debits of a wallet's ledger are the balance at its end.
LEMMA TotalsBalance ==
  ASSUME TypeOK, LedgerChain, NEW w \in Wallets
  PROVE  SumOf(ledger[w], "CREDIT") - SumOf(ledger[w], "DEBIT") = BalanceAfter(w, Len(ledger[w]))
  <1> DEFINE L == ledger[w]
             N == Len(L)
  <1>1. /\ L \in Seq(LedgerEntries) /\ N \in Nat
        /\ \A i \in 1..N : L[i] \in LedgerEntries
    BY DEF TypeOK
  <1>2. \A i \in 1..N : /\ L[i].amount \in Int /\ L[i].before \in Int /\ L[i].after \in Int
                        /\ L[i].dir \in {"DEBIT", "CREDIT"}
    BY <1>1 DEF LedgerEntries, Amounts, Directions
  <1>3. \A i \in 1..N : /\ L[i].before = IF i = 1 THEN 0 ELSE L[i - 1].after
                        /\ L[i].after = IF L[i].dir = "DEBIT" THEN L[i].before - L[i].amount
                                                              ELSE L[i].before + L[i].amount
    BY DEF LedgerChain
  <1>4. PICK c : Sums(c, Steps(L, "CREDIT"), N) /\ SumOf(L, "CREDIT") = c[N]
    BY <1>1, SumIsLast
  <1>5. PICK d : Sums(d, Steps(L, "DEBIT"), N) /\ SumOf(L, "DEBIT") = d[N]
    BY <1>1, SumIsLast
  <1>6. c[0] = 0 /\ d[0] = 0
    BY <1>1, <1>4, <1>5 DEF Sums
  <1>7. ASSUME NEW i \in 1..N
        PROVE  /\ c[i] = c[i - 1] + (IF L[i].dir = "CREDIT" THEN L[i].amount ELSE 0)
               /\ d[i] = d[i - 1] + (IF L[i].dir = "DEBIT" THEN L[i].amount ELSE 0)
    <2>1. i \in 0..N /\ i # 0
      BY <1>1
    <2>2. c[i] = c[i - 1] + Steps(L, "CREDIT")[i]
      BY <1>4, <2>1 DEF Sums
    <2>3. d[i] = d[i - 1] + Steps(L, "DEBIT")[i]
      BY <1>5, <2>1 DEF Sums
    <2> QED BY <2>2, <2>3 DEF Steps
  <1> HIDE DEF L, N
  <1> DEFINE After(n) == IF n = 0 THEN 0 ELSE L[n].after
             Right(n) == c[n] \in Int /\ d[n] \in Int /\ c[n] - d[n] = After(n)
             T == { n \in 0..N : ~Right(n) }
  <1>8. T = {}
    <2>1. SUFFICES ASSUME T # {} PROVE FALSE
      OBVIOUS
    <2>2. PICK m \in T : \A k \in T : m <= k
      <3>1. T \subseteq Nat
        BY <1>1
      <3> HIDE DEF T
      <3> QED BY <2>1, <3>1, Least
    <2>3. m \in 1..N
      BY <1>1, <1>6
    <2>4. m - 1 \in 0..N /\ Right(m - 1)
      BY <1>1, <2>2, <2>3
    <2>5. c[m - 1] \in Int /\ d[m - 1] \in Int /\ c[m - 1] - d[m - 1] = L[m].before
      BY <1>1, <1>3, <2>3, <2>4
    <2>6. Right(m)
      BY <1>2, <1>3, <1>7, <2>3, <2>5
    <2> QED BY <2>6
  <1>9. Right(N)
    BY <1>1, <1>8
  <1> QED BY <1>4, <1>5, <1>9 DEF L, N, BalanceAfter

-----------------------------------------------------------------------------
(* The ledger only grows.                                                  *)

\* No step removes or changes an entry.
LEMMA LedgerGrows ==
  ASSUME CoreInv, [Next]_vars, NEW w \in Wallets
  PROVE  /\ Len(ledger[w]) <= Len(ledger'[w])
         /\ \A i \in DOMAIN ledger[w] : i \in DOMAIN ledger'[w] /\ ledger'[w][i] = ledger[w][i]
  <1> DEFINE Grown == /\ Len(ledger[w]) <= Len(ledger'[w])
                      /\ \A i \in DOMAIN ledger[w] :
                            i \in DOMAIN ledger'[w] /\ ledger'[w][i] = ledger[w][i]
  <1>1. /\ ledger \in [Wallets -> Seq(LedgerEntries)] /\ ledger[w] \in Seq(LedgerEntries)
        /\ job \in [Workers -> Jobs]
    BY DEF CoreInv, IInv, TypeOK
  <1>2. ASSUME ledger' = ledger PROVE Grown
    BY <1>1, <1>2
  <1>3. ASSUME NEW x \in Workers, Commit(x) \/ CommitUnacknowledged(x) PROVE Grown
    <2>1. PICK v, s : v = job[x].wid /\ s = job[x].writes.entries
      OBVIOUS
    <2>2. s \in Seq(LedgerEntries)
      BY <1>1, <2>1 DEF Jobs, Writes
    <2>3. ledger' = ledger \/ ledger' = [ledger EXCEPT ![v] = @ \o s]
      BY <1>3, <2>1 DEF Commit, CommitUnacknowledged, ApplyWrites
    <2>4. CASE ledger' = [ledger EXCEPT ![v] = @ \o s]
      <3>1. ledger'[w] = ledger[w] \/ ledger'[w] = ledger[w] \o s
        BY <1>1, <2>4
      <3>2. PICK L : L = ledger[w]
        OBVIOUS
      <3>3. /\ Len(L) <= Len(L \o s) /\ DOMAIN L = 1..Len(L) /\ DOMAIN (L \o s) = 1..Len(L \o s)
            /\ Len(L) \in Nat /\ Len(L \o s) \in Nat /\ \A i \in 1..Len(L) : (L \o s)[i] = L[i]
        BY <1>1, <2>2, <3>2
      <3> QED BY <3>1, <3>2, <3>3
    <2> QED BY <1>2, <2>3, <2>4
  <1>4. ASSUME NEW h \in Handlers, Arrival(h) \/ HandlerStep(h) PROVE Grown
    <2>1. h \in Workers
      BY DEF Workers
    <2>2. Commit(h) \/ UNCHANGED ledger
      BY <1>4 DEF Arrival, Submit, RequestOpening, HandlerStep, FastReplay, GetForUpdate,
                  ReadInbox, ReadKey, ReadIdentity, Decide, CheckReversal, Settle, UpdateBalance,
                  RecordInbox, Respond, ExistsForPlayerCurrency, InsertWallet, tables
    <2> QED BY <1>2, <1>3, <2>1, <2>2
  <1>5. ASSUME NEW r \in Resolvers, ResolverStep(r) PROVE Grown
    <2>1. r \in Workers
      BY DEF Workers
    <2>2. Commit(r) \/ UNCHANGED ledger
      BY <1>5 DEF ResolverStep, Claim, LoadPending, EndPass, GetForUpdateParked, DecideParked,
                  CheckReversal, Settle, RecordReferenceAttempt, UpdateBalance, LoadFailing,
                  SaveFailed, tables
    <2> QED BY <1>2, <1>3, <2>1, <2>2
  <1>6. ASSUME NEW x \in Workers, Failure(x) PROVE Grown
    <2>1. CommitUnacknowledged(x) \/ UNCHANGED ledger
      BY <1>6 DEF Failure, StatementFails, Crash, tables
    <2> QED BY <1>2, <1>3, <2>1
  <1>7. CASE (\E id \in TxIds : Time(id)) \/ Quiescent \/ UNCHANGED vars
    BY <1>2, <1>7 DEF Time, BackoffElapses, TTLElapses, Quiescent, vars, tables
  <1> QED BY <1>4, <1>5, <1>6, <1>7 DEF Next

\* Whose ledger has an entry of d.
LEMMA PostedIn ==
  ASSUME NEW w, NEW d PROVE d \in Posted(w) <=> \E i \in DOMAIN ledger[w] : ledger[w][i].tx = d
  BY DEF Posted

\* An operation is posted to one wallet only.
LEMMA PostedOnce ==
  ASSUME CoreInv, NEW v \in Wallets, NEW w \in Wallets, NEW d \in Posted(v), d \in Posted(w)
  PROVE  v = w
  <1>1. PICK i \in DOMAIN ledger[v] : ledger[v][i].tx = d
    BY PostedIn
  <1>2. PICK k \in DOMAIN ledger[w] : ledger[w][k].tx = d
    BY PostedIn
  <1>3. <<v, i>> \in Entries(d) /\ <<w, k>> \in Entries(d)
    BY <1>1, <1>2, EntryIn
  <1>4. d \in AllIds
    <2>1. ledger[v] \in Seq(LedgerEntries)
      BY DEF CoreInv, IInv, TypeOK
    <2>2. ledger[v][i] \in LedgerEntries
      BY <1>1, <2>1
    <2> QED BY <1>1, <2>2 DEF LedgerEntries
  <1>5. Entries(d) = {} \/ \E p : Entries(d) = {p}
    BY <1>4 DEF CoreInv, MoneyInv, MoneyMovedOnce
  <1> QED BY <1>3, <1>5

\* A wallet's entries are finitely many, and have ids.
LEMMA PostedFinite ==
  ASSUME CoreInv, NEW w \in Wallets PROVE Posted(w) \subseteq AllIds /\ IsFiniteSet(Posted(w))
  <1> DEFINE L == ledger[w]
             f == [i \in 1..Len(L) |-> L[i].tx]
  <1>1. L \in Seq(LedgerEntries) /\ Len(L) \in Nat /\ DOMAIN L = 1..Len(L)
    BY DEF CoreInv, IInv, TypeOK
  <1>2. Posted(w) \subseteq AllIds
    <2>1. \A i \in DOMAIN L : L[i] \in LedgerEntries
      BY <1>1
    <2>2. \A i \in DOMAIN L : L[i].tx \in AllIds
      BY <2>1 DEF LedgerEntries
    <2> QED BY <2>2 DEF Posted
  <1>3. f \in Surjection(1..Len(L), Posted(w))
    BY <1>1 DEF Surjection, Posted
  <1>4. IsFiniteSet(1..Len(L))
    BY <1>1, FS_Interval
  <1>5. IsFiniteSet(Posted(w))
    BY <1>3, <1>4, FS_Surjection DEF ExistsSurjection
  <1> QED BY <1>2, <1>5

-----------------------------------------------------------------------------
(* ORDER BY created_at, id.                                                *)

\* The entries are totally ordered.
LEMMA Order ==
  ASSUME createdAt \in [AllIds -> Int]
  PROVE  /\ \A d \in AllIds : ~Precedes(d, d)
         /\ \A d, e \in AllIds : Precedes(d, e) \/ d = e \/ Precedes(e, d)
         /\ \A d, e, f \in AllIds : Precedes(d, e) /\ Precedes(e, f) => Precedes(d, f)
  <1>1. \A d \in AllIds : createdAt[d] \in Int /\ EntryId[d] \in Int
    BY QueriesAssumption
  <1>2. \A d, e \in AllIds : EntryId[d] = EntryId[e] => d = e
    BY QueriesAssumption
  <1> QED BY <1>1, <1>2 DEF Precedes

Before(S, e) == { d \in S : Precedes(d, e) }

\* The earlier of two entries has fewer entries before it.
LEMMA FewerBefore ==
  ASSUME createdAt \in [AllIds -> Int], NEW S, S \subseteq AllIds, IsFiniteSet(S),
         NEW d \in S, NEW e \in S, Precedes(d, e)
  PROVE  Cardinality(Before(S, d)) < Cardinality(Before(S, e))
  <1>1. Before(S, d) \subseteq Before(S, e)
    BY Order DEF Before
  <1>2. d \in Before(S, e) /\ d \notin Before(S, d)
    BY Order DEF Before
  <1>3. Before(S, e) \in SUBSET S
    BY DEF Before
  <1>4. IsFiniteSet(Before(S, e))
    BY <1>3, FS_Subset
  <1>5. /\ IsFiniteSet(Before(S, d)) /\ Cardinality(Before(S, d)) <= Cardinality(Before(S, e))
        /\ Cardinality(Before(S, e)) = Cardinality(Before(S, d)) => Before(S, e) = Before(S, d)
    BY <1>1, <1>4, FS_Subset
  <1>6. Cardinality(Before(S, d)) \in Nat /\ Cardinality(Before(S, e)) \in Nat
    BY <1>4, <1>5, FS_CardinalityType
  <1> QED BY <1>2, <1>5, <1>6

\* A page has the first of the rows; unless it has them all, it has a last one, and
\* all other rows come after it.
LEMMA FirstRows ==
  ASSUME createdAt \in [AllIds -> Int], NEW S, S \subseteq AllIds, IsFiniteSet(S),
         NEW n \in Nat \ {0}, NEW page, page = FirstOf(S, n)
  PROVE  /\ page \subseteq S
         /\ page # S => \E e \in page : \A d \in page : ~Precedes(e, d)
         /\ \A e \in page, d \in S \ page : Precedes(e, d)
  <1> DEFINE C(e) == Cardinality(Before(S, e))
  <1>1. page = { e \in S : C(e) < n }
    BY DEF FirstOf, Before
  <1>2. \A e \in S : C(e) \in Nat
    <2>1. ASSUME NEW e \in S PROVE C(e) \in Nat
      <3>1. Before(S, e) \in SUBSET S
        BY DEF Before
      <3>2. IsFiniteSet(Before(S, e))
        BY <3>1, FS_Subset
      <3> QED BY <3>2, FS_CardinalityType
    <2> QED BY <2>1
  <1>3. \A d, e \in S : Precedes(d, e) => C(d) < C(e)
    BY FewerBefore
  <1>4. \A d, e \in S : Precedes(d, e) \/ d = e \/ Precedes(e, d)
    BY Order
  <1> HIDE DEF C
  <1>5. \A e \in page, d \in S \ page : Precedes(e, d)
    BY <1>1, <1>2, <1>3, <1>4
  <1>6. ASSUME page # S PROVE page # {}
    <2>1. PICK T : T = { C(e) : e \in S }
      OBVIOUS
    <2>2. T \subseteq Nat /\ T # {}
      BY <1>1, <1>2, <1>6, <2>1
    <2>3. PICK m \in T : \A k \in T : m <= k
      BY <2>2, Least
    <2>4. PICK e \in S : C(e) = m
      BY <2>1
    <2>5. ASSUME NEW d \in S, Precedes(d, e) PROVE FALSE
      <3>1. C(d) < m /\ m <= C(d) /\ C(d) \in Nat /\ m \in Nat
        BY <1>2, <1>3, <2>1, <2>2, <2>3, <2>4, <2>5
      <3> QED BY <3>1
    <2>6. Before(S, e) = {}
      BY <2>5 DEF Before
    <2>7. C(e) = 0
      BY <2>6, FS_EmptySet DEF C
    <2> QED BY <1>1, <2>7
  <1>7. ASSUME page # {} PROVE \E e \in page : \A d \in page : ~Precedes(e, d)
    <2>1. PICK T : T = { n - C(e) : e \in page }
      OBVIOUS
    <2>2. T \subseteq Nat /\ T # {}
      BY <1>1, <1>2, <1>7, <2>1
    <2>3. PICK m \in T : \A k \in T : m <= k
      BY <2>2, Least
    <2>4. PICK e \in page : n - C(e) = m
      BY <2>1
    <2>5. ASSUME NEW d \in page, Precedes(e, d) PROVE FALSE
      <3>1. C(e) < C(d) /\ m <= n - C(d) /\ C(d) \in Nat /\ C(e) \in Nat
        BY <1>1, <1>2, <1>3, <2>1, <2>3, <2>4, <2>5
      <3> QED BY <2>4, <3>1
    <2> QED BY <2>5
  <1> QED BY <1>1, <1>5, <1>6, <1>7

-----------------------------------------------------------------------------
(* Pages.                                                                  *)

\* A page takes up where the last one ended.
LEMMA TurnPage ==
  ASSUME CoreInv, createdAt \in [AllIds -> Int], NEW w \in Wallets, NEW asked \in 1..MaxAsked,
         GetLedger(w, asked), UNCHANGED <<ledger, createdAt>>,
         NEW rows, rows = Following(w, listing.cursor),
         NEW base, base = IF listing.at = "idle" THEN Posted(w) ELSE listing.base,
         listing.seen \subseteq Posted(w), ~listing.twice, base \subseteq listing.seen \cup rows,
         \A e \in listing.seen, d \in rows : Precedes(e, d)
  PROVE  ListingInv'
  <1>1. Posted(w) \subseteq AllIds /\ IsFiniteSet(Posted(w))
    BY PostedFinite
  <1>2. rows \in SUBSET Posted(w)
    BY DEF Following
  <1>3. IsFiniteSet(rows) /\ rows \subseteq AllIds
    BY <1>1, <1>2, FS_Subset
  <1>4. PICK n : n = EffectiveLimit(asked)
    OBVIOUS
  <1>5. n \in Nat \ {0}
    BY <1>4, QueriesAssumption DEF EffectiveLimit
  <1>6. PICK page : page = FirstOf(rows, n)
    OBVIOUS
  <1>7. /\ page \subseteq rows
        /\ page # rows => \E e \in page : \A d \in page : ~Precedes(e, d)
        /\ \A e \in page, d \in rows \ page : Precedes(e, d)
    BY <1>3, <1>5, <1>6, FirstRows
  <1>8. PICK last : last = CHOOSE e \in page : \A d \in page : ~Precedes(e, d)
    OBVIOUS
  <1>9. page # rows => last \in page /\ \A d \in page : ~Precedes(last, d)
    BY <1>7, <1>8
  <1>10. listing' = [at |-> IF page # rows THEN "page" ELSE "done", wid |-> w,
                     cursor |-> IF page # rows THEN last ELSE None,
                     seen |-> listing.seen \cup page,
                     twice |-> listing.twice \/ listing.seen \cap page # {}, base |-> base]
    BY <1>4, <1>6, <1>8 DEF GetLedger
  <1>11. /\ listing'.at = IF page # rows THEN "page" ELSE "done"
         /\ listing'.wid = w /\ listing'.seen = listing.seen \cup page /\ listing'.base = base
         /\ listing'.twice = (listing.twice \/ listing.seen \cap page # {})
         /\ page # rows => listing'.cursor = last
    BY <1>10
  <1>12. /\ Posted(w)' = Posted(w) /\ \A c : Following(w, c)' = Following(w, c)
         /\ \A d, e : Precedes(d, e)' <=> Precedes(d, e)
    BY DEF Posted, Following, Precedes
  <1>13. ~listing'.twice
    <2>1. ASSUME NEW e \in listing.seen, e \in page PROVE FALSE
      <3>1. e \in AllIds /\ Precedes(e, e)
        BY <1>1, <1>7, <2>1
      <3> QED BY <3>1, Order
    <2> QED BY <1>11, <2>1
  <1>14. listing'.seen \subseteq Posted(w)
    BY <1>2, <1>7, <1>11
  <1>15. CASE page = rows
    BY <1>11, <1>12, <1>13, <1>14, <1>15 DEF ListingInv
  <1>16. CASE page # rows
    <2>1. last \in rows /\ last \in Posted(w) /\ last \in AllIds /\ last # None
      BY <1>1, <1>2, <1>7, <1>9, <1>16, WageringAssumption
    <2>2. ASSUME NEW e \in listing.seen \cup page PROVE e = last \/ Precedes(e, last)
      <3>1. CASE e \in listing.seen
        BY <2>1, <3>1
      <3>2. CASE e \in page
        <4>1. e \in AllIds /\ ~Precedes(last, e)
          BY <1>3, <1>7, <1>9, <1>16, <3>2
        <4> QED BY <2>1, <4>1, Order
      <3> QED BY <3>1, <3>2
    <2>3. base \subseteq listing'.seen \cup Following(w, last)
      <3>1. \A d \in rows \ page : d \in Following(w, last)
        BY <1>2, <1>7, <1>9, <1>16 DEF Following
      <3> QED BY <1>11, <3>1
    <2> QED BY <1>11, <1>12, <1>13, <1>14, <1>16, <2>1, <2>2, <2>3 DEF ListingInv
  <1> QED BY <1>15, <1>16

\* The first page begins at the beginning, the next behind the cursor.
LEMMA PagesKeep ==
  ASSUME CoreInv, createdAt \in [AllIds -> Int], ListingInv,
         (\E w \in Wallets, asked \in 1..MaxAsked : FirstPage(w, asked))
         \/ (\E asked \in 1..MaxAsked : NextPage(asked))
  PROVE  ListingInv'
  <1>1. ASSUME NEW w \in Wallets, NEW asked \in 1..MaxAsked, FirstPage(w, asked) PROVE ListingInv'
    <2>1. /\ listing = NoListing /\ GetLedger(w, asked) /\ UNCHANGED <<ledger, createdAt>>
      BY <1>1 DEF FirstPage, Idle, vars, tables
    <2>2. listing.at = "idle" /\ listing.seen = {} /\ listing.cursor = None /\ ~listing.twice
      BY <2>1 DEF NoListing
    <2>3. Following(w, listing.cursor) = Posted(w)
      BY <2>2 DEF Following
    <2> QED BY <2>1, <2>2, <2>3, TurnPage
  <1>2. ASSUME NEW asked \in 1..MaxAsked, NextPage(asked) PROVE ListingInv'
    <2>1. PICK w, c, seen : w = listing.wid /\ c = listing.cursor /\ seen = listing.seen
      OBVIOUS
    <2>2. /\ listing.at = "page" /\ GetLedger(w, asked) /\ UNCHANGED <<ledger, createdAt>>
      BY <1>2, <2>1 DEF NextPage, vars, tables
    <2>3. /\ w \in Wallets /\ c \in Posted(w) /\ seen \subseteq Posted(w) /\ ~listing.twice
          /\ \A e \in seen : e = c \/ Precedes(e, c)
          /\ listing.base \subseteq seen \cup Following(w, c)
      BY <2>1, <2>2 DEF ListingInv
    <2>4. Posted(w) \subseteq AllIds /\ c # None
      BY <2>3, PostedFinite, WageringAssumption
    <2>5. \A e \in seen, d \in Following(w, c) : Precedes(e, d)
      <3>1. \A d \in Following(w, c) : d \in AllIds /\ Precedes(c, d)
        BY <2>4 DEF Following
      <3> QED BY <2>3, <2>4, <3>1, Order
    <2>6. (IF listing.at = "idle" THEN Posted(w) ELSE listing.base) = listing.base
      BY <2>2
    <2> QED BY <2>1, <2>2, <2>3, <2>5, <2>6, TurnPage
  <1> QED BY <1>1, <1>2

-----------------------------------------------------------------------------
(* Steps of the core.                                                      *)

\* A step of the core moves no entry that is posted, and changes no balance that was.
LEMMA CoreLeaves ==
  ASSUME CoreInv, CoreInv', createdAt \in [AllIds -> Int], Core
  PROVE  /\ createdAt' \in [AllIds -> Int]
         /\ \A w \in Wallets : Posted(w) \subseteq Posted(w)'
         /\ \A w \in Wallets : \A d \in Posted(w) : d \in AllIds /\ createdAt'[d] = createdAt[d]
         /\ \A w \in Wallets : \A n \in 0..Len(ledger[w]) :
               /\ n \in 0..Len(ledger'[w])
               /\ IF n = 0 THEN TRUE ELSE ledger'[w][n] = ledger[w][n]
  <1>1. [Next]_vars
    BY DEF Core
  <1>2. ASSUME NEW w \in Wallets, NEW d \in Posted(w) PROVE d \in Posted(w)'
    <2>1. PICK i \in DOMAIN ledger[w] : ledger[w][i].tx = d
      BY PostedIn
    <2>2. i \in DOMAIN ledger'[w] /\ ledger'[w][i].tx = d
      BY <1>1, <2>1, LedgerGrows
    <2> QED BY <2>2 DEF Posted
  <1>3. ASSUME NEW w \in Wallets, NEW d \in Posted(w), NEW v \in Wallets, d \in Posted(v)'
        PROVE  v = w
    <2>1. d \in Posted(w)'
      BY <1>2
    <2>2. PICK i \in DOMAIN ledger'[v] : ledger'[v][i].tx = d
      BY <1>3 DEF Posted
    <2>3. PICK k \in DOMAIN ledger'[w] : ledger'[w][k].tx = d
      BY <2>1 DEF Posted
    <2>4. <<v, i>> \in Entries(d)' /\ <<w, k>> \in Entries(d)'
      BY <2>2, <2>3, EntryInNext
    <2>5. d \in AllIds
      BY PostedFinite
    <2>6. Entries(d)' = {} \/ \E p : Entries(d)' = {p}
      BY <2>5 DEF CoreInv, MoneyInv, MoneyMovedOnce
    <2> QED BY <2>4, <2>6
  <1>4. PICK t \in Instants : createdAt' = [id \in AllIds |->
               IF (\E w \in Wallets : id \in Posted(w)' \ Posted(w)) THEN t ELSE createdAt[id]]
    BY DEF Core
  <1>5. createdAt' \in [AllIds -> Int]
    BY <1>4, QueriesAssumption
  <1>6. ASSUME NEW w \in Wallets, NEW d \in Posted(w)
        PROVE  d \in AllIds /\ createdAt'[d] = createdAt[d]
    <2>1. d \in AllIds
      BY PostedFinite
    <2>2. ~\E v \in Wallets : d \in Posted(v)' \ Posted(v)
      BY <1>3, <1>6
    <2> QED BY <1>4, <2>1, <2>2
  <1>7. ASSUME NEW w \in Wallets, NEW n \in 0..Len(ledger[w])
        PROVE  /\ n \in 0..Len(ledger'[w])
               /\ IF n = 0 THEN TRUE ELSE ledger'[w][n] = ledger[w][n]
    <2>1. Len(ledger[w]) \in Nat /\ Len(ledger'[w]) \in Nat /\ DOMAIN ledger[w] = 1..Len(ledger[w])
      BY DEF CoreInv, IInv, TypeOK
    <2> QED BY <1>1, <2>1, LedgerGrows
  <1> QED BY <1>2, <1>5, <1>6, <1>7

\* What was read stays true while the core goes on.
LEMMA CoreKeeps ==
  ASSUME QueryInv, CoreInv', Core PROVE QueryInv'
  <1>1. /\ CoreInv /\ createdAt \in [AllIds -> Int] /\ AuditInv /\ ListingInv
        /\ audit' = audit /\ listing' = listing
    BY DEF QueryInv, Core
  <1>2. /\ createdAt' \in [AllIds -> Int]
        /\ \A w \in Wallets : Posted(w) \subseteq Posted(w)'
        /\ \A w \in Wallets : \A d \in Posted(w) : d \in AllIds /\ createdAt'[d] = createdAt[d]
        /\ \A w \in Wallets : \A n \in 0..Len(ledger[w]) :
              /\ n \in 0..Len(ledger'[w])
              /\ IF n = 0 THEN TRUE ELSE ledger'[w][n] = ledger[w][n]
    BY <1>1, CoreLeaves
  <1>3. ASSUME NEW w \in Wallets, NEW n \in 0..Len(ledger[w])
        PROVE  n \in 0..Len(ledger'[w]) /\ BalanceAfter(w, n)' = BalanceAfter(w, n)
    BY <1>2 DEF BalanceAfter
  <1>4. AuditInv'
    <2>1. PICK w, n, k : w = audit.wid /\ n = audit.length /\ k = audit.entries
      OBVIOUS
    <2>2. \A v \in Wallets : Len(ledger[v]) \in Nat /\ Len(ledger'[v]) \in Nat
      BY DEF CoreInv, IInv, TypeOK
    <2>3. ASSUME audit.at = "totals" \/ Verdict
          PROVE  w \in Wallets /\ n \in 0..Len(ledger[w]) /\ audit.stored = BalanceAfter(w, n)
      BY <1>1, <2>1, <2>3 DEF AuditInv
    <2>4. ASSUME Verdict
          PROVE  k \in n..Len(ledger[w]) /\ k \in 0..Len(ledger[w]) /\ audit.calculated = BalanceAfter(w, k)
      <3>1. k \in n..Len(ledger[w]) /\ audit.calculated = BalanceAfter(w, k)
        BY <1>1, <2>1, <2>4 DEF AuditInv
      <3> QED BY <2>2, <2>3, <2>4, <3>1
    <2>5. ASSUME audit.at = "totals" \/ Verdict
          PROVE  w \in Wallets /\ n \in 0..Len(ledger'[w]) /\ audit.stored = BalanceAfter(w, n)'
      BY <1>3, <2>3, <2>5
    <2>6. ASSUME Verdict
          PROVE  k \in n..Len(ledger'[w]) /\ audit.calculated = BalanceAfter(w, k)'
      <3>1. w \in Wallets /\ k \in 0..Len(ledger'[w]) /\ BalanceAfter(w, k)' = BalanceAfter(w, k)
        BY <1>3, <2>3, <2>4, <2>6
      <3>2. n \in Nat
        BY <2>2, <2>3, <2>6
      <3> QED BY <2>2, <2>4, <2>6, <3>1, <3>2
    <2>7. Verdict' <=> Verdict
      BY <1>1 DEF Verdict
    <2>8. audit \in Audits
      BY <1>1 DEF AuditInv
    <2> QED BY <1>1, <2>1, <2>5, <2>6, <2>7, <2>8 DEF AuditInv
  <1>5. ListingInv'
    <2>1. PICK w, c, seen, base : /\ w = listing.wid /\ c = listing.cursor
                                  /\ seen = listing.seen /\ base = listing.base
      OBVIOUS
    <2>2. ASSUME listing.at # "idle"
          PROVE  w \in Wallets /\ ~listing.twice /\ seen \subseteq Posted(w) /\ seen \subseteq Posted(w)'
      <3>1. w \in Wallets /\ ~listing.twice /\ seen \subseteq Posted(w)
        BY <1>1, <2>1, <2>2 DEF ListingInv
      <3> QED BY <1>2, <3>1
    <2>3. ASSUME listing.at = "page"
          PROVE  /\ c \in Posted(w)' /\ \A e \in seen : e = c \/ Precedes(e, c)'
                 /\ base \subseteq seen \cup Following(w, c)'
      <3>1. /\ w \in Wallets /\ seen \subseteq Posted(w) /\ c \in Posted(w)
            /\ \A e \in seen : e = c \/ Precedes(e, c)
            /\ base \subseteq seen \cup Following(w, c)
        BY <1>1, <2>1, <2>2, <2>3 DEF ListingInv
      <3>2. \A d, e \in Posted(w) : Precedes(d, e)' <=> Precedes(d, e)
        BY <1>2, <3>1 DEF Precedes
      <3>3. \A d \in Following(w, c) : d \in Following(w, c)'
        BY <1>2, <3>1, <3>2 DEF Following
      <3> QED BY <1>2, <3>1, <3>2, <3>3
    <2>4. /\ listing.at \in {"idle", "page", "done"} /\ (listing.at = "idle" => listing = NoListing)
          /\ listing.at = "done" => base \subseteq seen
      BY <1>1, <2>1 DEF ListingInv
    <2> QED BY <1>1, <2>1, <2>2, <2>3, <2>4 DEF ListingInv
  <1> QED BY <1>2, <1>4, <1>5 DEF QueryInv

-----------------------------------------------------------------------------
(* Steps of the reconciliation.                                            *)

\* No reconciliation is under way.
LEMMA AuditTyped == NoAudit \in Audits
  BY DEF NoAudit, Audits, Outcomes

\* The wallet that is read has the balance at the end of its ledger.
LEMMA GetWalletKeeps ==
  ASSUME CoreInv, NEW w \in Wallets, GetWallet(w) PROVE AuditInv'
  <1>1. PICK L : L = ledger[w]
    OBVIOUS
  <1>2. L \in Seq(LedgerEntries) /\ Len(L) \in Nat /\ ledger' = ledger
    BY <1>1 DEF CoreInv, IInv, TypeOK, GetWallet, vars, tables
  <1>3. wallets[w].balance = IF L = <<>> THEN 0 ELSE L[Len(L)].after
    BY <1>1 DEF CoreInv, IInv, LedgerChain
  <1>4. L = <<>> <=> Len(L) = 0
    BY <1>2
  <1>5. wallets[w].balance = BalanceAfter(w, Len(L))
    BY <1>1, <1>3, <1>4 DEF BalanceAfter
  <1>6. audit' \in Audits
    <2>1. wallets[w].balance \in Int
      BY DEF CoreInv, IInv, TypeOK, WalletRows, Amounts
    <2>2. PICK n : n = Len(L) /\ n \in Nat
      BY <1>2
    <2>3. audit' = [NoAudit EXCEPT !.at = "totals", !.wid = w, !.stored = wallets[w].balance, !.length = n]
          \/ audit' = [NoAudit EXCEPT !.at = "reply", !.wid = w, !.out = "NOT_FOUND"]
      BY <1>1, <2>2 DEF GetWallet
    <2> QED BY <2>1, <2>2, <2>3, AuditTyped DEF Audits, Outcomes
  <1>7. CASE wallets[w].open
    <2>1. /\ audit'.at = "totals" /\ audit'.wid = w
          /\ audit'.stored = wallets[w].balance /\ audit'.length = Len(L)
      BY <1>1, <1>7 DEF GetWallet, NoAudit
    <2>2. ~Verdict'
      BY <2>1 DEF Verdict
    <2>3. BalanceAfter(w, Len(L))' = BalanceAfter(w, Len(L))
      BY <1>2 DEF BalanceAfter
    <2> QED BY <1>1, <1>2, <1>5, <1>6, <2>1, <2>2, <2>3 DEF AuditInv
  <1>8. CASE ~wallets[w].open
    <2>1. audit'.at = "reply" /\ audit'.out = "NOT_FOUND"
      BY <1>8 DEF GetWallet, NoAudit
    <2> QED BY <1>6, <2>1 DEF AuditInv, Verdict
  <1> QED BY <1>7, <1>8

\* The sum that is read is the balance at the end of the ledger, which is not
\* shorter than it was.
LEMMA SumLedgerKeeps ==
  ASSUME CoreInv, AuditInv, SumLedger PROVE AuditInv'
  <1>1. PICK w, n, N : w = audit.wid /\ n = audit.length /\ N = Len(ledger[w])
    OBVIOUS
  <1>2. /\ w \in Wallets /\ n \in 0..N /\ audit.stored = BalanceAfter(w, n) /\ ledger' = ledger
        /\ audit \in Audits
    BY <1>1 DEF SumLedger, AuditInv, vars, tables
  <1>3. N \in Nat /\ BalanceAfter(w, N) \in Int
    <2>1. ledger[w] \in Seq(LedgerEntries) /\ N \in Nat
      BY <1>1, <1>2 DEF CoreInv, IInv, TypeOK
    <2>2. N # 0 => ledger[w][N] \in LedgerEntries
      BY <1>1, <2>1
    <2> QED BY <2>1, <2>2 DEF BalanceAfter, LedgerEntries, Amounts
  <1>4. Totals(w).credits - Totals(w).debits = BalanceAfter(w, N) /\ Totals(w).entries = N
    BY <1>1, <1>2, TotalsBalance DEF Totals, CoreInv, IInv
  <1>5. \A i : BalanceAfter(w, i)' = BalanceAfter(w, i)
    BY <1>2 DEF BalanceAfter
  <1>6. CASE audit' = [audit EXCEPT !.at = "reply", !.out = "INTERNAL"]
    <2>1. audit' \in Audits /\ audit'.out = "INTERNAL" /\ audit'.at = "reply"
      BY <1>2, <1>6 DEF Audits, Outcomes
    <2> QED BY <2>1 DEF AuditInv, Verdict
  <1>7. CASE audit' = [audit EXCEPT !.at = "reply", !.out = "RESULT",
                                    !.calculated = Totals(w).credits - Totals(w).debits,
                                    !.entries = Totals(w).entries]
    <2>1. PICK b : b = BalanceAfter(w, N)
      OBVIOUS
    <2>2. audit' = [audit EXCEPT !.at = "reply", !.out = "RESULT", !.calculated = b, !.entries = N]
      BY <1>4, <1>7, <2>1
    <2>3. /\ audit' \in Audits /\ audit'.wid = w /\ audit'.length = n /\ audit'.stored = audit.stored
          /\ audit'.calculated = b /\ audit'.entries = N
      BY <1>1, <1>2, <1>3, <2>1, <2>2 DEF Audits, Outcomes
    <2> QED BY <1>1, <1>2, <1>3, <1>5, <2>1, <2>3 DEF AuditInv
  <1> QED BY <1>1, <1>6, <1>7 DEF SumLedger

\* A reconciliation that fails or is answered leaves nothing to explain.
LEMMA AuditEnds ==
  ASSUME AuditInv, AuditFails \/ Report PROVE AuditInv'
  <1>1. audit \in Audits
    BY DEF AuditInv
  <1>2. /\ audit' \in Audits /\ audit'.at # "totals"
        /\ audit'.at = "idle" \/ audit'.out = "UNAVAILABLE"
    <2>1. CASE AuditFails
      <3>1. audit' = [audit EXCEPT !.at = "reply", !.out = "UNAVAILABLE"]
        BY <2>1 DEF AuditFails
      <3> QED BY <1>1, <3>1 DEF Audits, Outcomes
    <2>2. CASE Report
      <3>1. audit' = NoAudit
        BY <2>2 DEF Report
      <3> QED BY <3>1, AuditTyped DEF NoAudit
    <2> QED BY <2>1, <2>2
  <1> QED BY <1>2 DEF AuditInv, Verdict

-----------------------------------------------------------------------------
(* The theorems.                                                           *)

\* A step that leaves the tables and their times alone disturbs only what it is about.
LEMMA Undisturbed ==
  ASSUME UNCHANGED <<vars, createdAt>>
  PROVE  /\ CoreInv => CoreInv'
         /\ audit' = audit /\ AuditInv => AuditInv'
         /\ listing' = listing /\ ListingInv => ListingInv'
  <1>1. UNCHANGED vars /\ ledger' = ledger
    BY DEF vars, tables
  <1>2. CoreInv => CoreInv'
    BY <1>1, NextKeeps, NextRows, NextMoney DEF CoreInv
  <1>3. audit' = audit /\ AuditInv => AuditInv'
    BY <1>1 DEF AuditInv, Verdict, BalanceAfter
  <1>4. listing' = listing /\ ListingInv => ListingInv'
    BY <1>1 DEF ListingInv, Posted, Following, Precedes
  <1> QED BY <1>2, <1>3, <1>4

\* Nothing has been asked yet.
LEMMA QueryInitHolds == QueryInit => QueryInv
  <1> SUFFICES ASSUME QueryInit PROVE QueryInv
    OBVIOUS
  <1>1. CoreInv
    BY InitHolds, InitRows, InitMoney DEF QueryInit, CoreInv
  <1>2. createdAt \in [AllIds -> Int]
    BY DEF QueryInit
  <1>3. AuditInv
    BY AuditTyped DEF QueryInit, AuditInv, Verdict, NoAudit
  <1>4. ListingInv
    BY DEF QueryInit, ListingInv, NoListing
  <1> QED BY <1>1, <1>2, <1>3, <1>4 DEF QueryInv

\* Each step of the core and of the queries keeps what the queries rely on.
LEMMA QueryNextKeeps == QueryInv /\ [QueryNext]_queryVars => QueryInv'
  <1> SUFFICES ASSUME QueryInv, [QueryNext]_queryVars PROVE QueryInv'
    OBVIOUS
  <1>1. CoreInv /\ createdAt \in [AllIds -> Int] /\ AuditInv /\ ListingInv
    BY DEF QueryInv
  <1>2. CASE Core
    <2>1. CoreInv'
      BY <1>1, <1>2, NextKeeps, NextRows, NextMoney DEF Core, CoreInv
    <2> QED BY <1>2, <2>1, CoreKeeps
  <1>3. CASE (\E w \in Wallets : GetWallet(w)) \/ SumLedger \/ AuditFails \/ Report
    <2>1. UNCHANGED <<vars, createdAt>> /\ listing' = listing
      BY <1>3 DEF GetWallet, SumLedger, AuditFails, Report
    <2>2. AuditInv'
      BY <1>1, <1>3, GetWalletKeeps, SumLedgerKeeps, AuditEnds
    <2> QED BY <1>1, <2>1, <2>2, Undisturbed DEF QueryInv
  <1>4. CASE (\E w \in Wallets, asked \in 1..MaxAsked : FirstPage(w, asked))
             \/ (\E asked \in 1..MaxAsked : NextPage(asked))
    <2>1. UNCHANGED <<vars, createdAt>> /\ audit' = audit
      BY <1>4 DEF FirstPage, NextPage
    <2>2. ListingInv'
      BY <1>1, <1>4, PagesKeep
    <2> QED BY <1>1, <2>1, <2>2, Undisturbed DEF QueryInv
  <1>5. CASE EndListing
    <2>1. UNCHANGED <<vars, createdAt>> /\ audit' = audit /\ listing' = NoListing
      BY <1>5 DEF EndListing
    <2>2. ListingInv'
      BY <2>1 DEF ListingInv, NoListing
    <2> QED BY <1>1, <2>1, <2>2, Undisturbed DEF QueryInv
  <1>6. CASE UNCHANGED queryVars
    <2>1. UNCHANGED <<vars, createdAt>> /\ audit' = audit /\ listing' = listing
      BY <1>6 DEF queryVars
    <2> QED BY <1>1, <2>1, Undisturbed DEF QueryInv
  <1> QED BY <1>2, <1>3, <1>4, <1>5, <1>6 DEF QueryNext

\* Reconciliations and listings beside any number of handlers and reference workers
\* keep QueryInv, and CoreInv with it.
THEOREM QueryInvariance == QuerySpec => []QueryInv
  BY QueryInitHolds, QueryNextKeeps, PTL DEF QuerySpec

\* A verdict of Reconcile compares two balances the wallet really had, the second not
\* before the first; it is INCONSISTENT only if a movement was committed between the
\* two statements, never because ledger and balance disagree.
THEOREM VerdictsExplained == QuerySpec => []VerdictExplained
  <1>1. QueryInv => VerdictExplained
    <2> SUFFICES ASSUME QueryInv, Verdict
                 PROVE  /\ audit.stored = BalanceAfter(audit.wid, audit.length)
                        /\ audit.calculated = BalanceAfter(audit.wid, audit.entries)
                        /\ audit.length <= audit.entries
                        /\ ~Consistent => audit.length < audit.entries
      BY DEF VerdictExplained
    <2>1. /\ audit.stored = BalanceAfter(audit.wid, audit.length)
          /\ audit.calculated = BalanceAfter(audit.wid, audit.entries)
          /\ audit.entries \in audit.length..Len(ledger[audit.wid]) /\ audit \in Audits
      BY DEF QueryInv, AuditInv
    <2>2. audit.length \in Nat /\ audit.entries \in Nat /\ audit.length <= audit.entries
      BY <2>1 DEF Audits
    <2>3. audit.length = audit.entries => Consistent
      BY <2>1 DEF Consistent
    <2> QED BY <2>1, <2>2, <2>3
  <1> QED BY <1>1, QueryInvariance, PTL

\* A client that follows the cursors of GetLedger to the end gets every entry that
\* was there when it began, none twice and none that is not committed, for pages of
\* any size, ids in any order and commits in any order of their times.
THEOREM PagesAreComplete == QuerySpec => []PagesComplete
  <1>1. QueryInv => PagesComplete
    BY DEF QueryInv, ListingInv, PagesComplete
  <1> QED BY <1>1, QueryInvariance, PTL

=============================================================================
