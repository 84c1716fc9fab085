------------------------------ MODULE Queries ------------------------------
(***************************************************************************)
(* The queries that take several statements, beside the wagering core.     *)
(* None locks or writes anything; each statement sees what is committed    *)
(* when it runs.                                                           *)
(*   - Reconcile reads a wallet's stored balance and then sums its ledger, *)
(*     both in one READ COMMITTED transaction.                             *)
(*   - GetLedger returns a wallet's ledger page by page, one call each;    *)
(*     the client passes the cursor of one page on to the next.            *)
(* Queries cannot disturb one another, so one is under way at a time.      *)
(*                                                                         *)
(* created_at of an entry is the time its use case began, before it waited *)
(* for the wallet, on the clock of its instance: any instant, whatever the *)
(* order of the commits.                                                   *)
(***************************************************************************)
EXTENDS WageringInv

CONSTANTS Instants,      \* what created_at may be
          EntryId,       \* the order of the entries' ids, by transaction
          PageDefault,   \* the limit GetLedger uses instead of one beyond PageMax
          PageMax,
          MaxAsked       \* bound: the largest limit a client asks for

ASSUME QueriesAssumption ==
    /\ Instants \subseteq Int /\ 0 \in Instants
    /\ PageMax \in Nat /\ PageDefault \in 1..PageMax /\ MaxAsked \in Nat
    /\ EntryId \in [AllIds -> Int]
    /\ \A d, e \in AllIds : EntryId[d] = EntryId[e] => d = e

VARIABLES audit,     \* the auditor's position, what it read and its answer
          listing,   \* a client that reads a ledger page by page
          createdAt  \* column created_at of the ledger, by transaction

\* at: idle, totals (the wallet is read), reply.  length is a history variable:
\* how many ledger entries there were when the wallet was read.
NoAudit == [at |-> "idle", wid |-> None, stored |-> 0, length |-> 0,
            out |-> None, calculated |-> 0, entries |-> 0]

\* at: idle, page, done.  seen is what the pages so far had, twice whether some entry
\* came again, base (history) the entries there were at the first page.
NoListing == [at |-> "idle", wid |-> None, cursor |-> None, seen |-> {},
              twice |-> FALSE, base |-> {}]

queryVars == <<vars, audit, listing, createdAt>>

Idle == audit = NoAudit /\ listing = NoListing

SumOf(entries, dir) ==
    LET sum[n \in 0..Len(entries)] ==
            IF n = 0 THEN 0
            ELSE sum[n - 1] + (IF entries[n].dir = dir THEN entries[n].amount ELSE 0)
    IN  sum[Len(entries)]

\* Mutant: debits are summed into the balance.
Totals_Unsigned(w) ==
    [credits |-> SumOf(ledger[w], "CREDIT") + SumOf(ledger[w], "DEBIT"),
     debits |-> 0, entries |-> Len(ledger[w])]

Totals(w) ==
    [credits |-> SumOf(ledger[w], "CREDIT"), debits |-> SumOf(ledger[w], "DEBIT"),
     entries |-> Len(ledger[w])]

\* The first statement: the wallet row, unlocked.
GetWallet(w) ==
    /\ Idle
    /\ audit' = IF wallets[w].open
                THEN [NoAudit EXCEPT !.at = "totals", !.wid = w,
                                     !.stored = wallets[w].balance,
                                     !.length = Len(ledger[w])]
                ELSE [NoAudit EXCEPT !.at = "reply", !.wid = w, !.out = "NOT_FOUND"]
    /\ UNCHANGED <<vars, listing, createdAt>>

\* The second: SUM is a numeric, and a total beyond int64 fails to scan.
SumLedger ==
    LET t == Totals(audit.wid)
    IN  /\ audit.at = "totals"
        /\ audit' = IF t.credits > MaxMoney \/ t.debits > MaxMoney
                    THEN [audit EXCEPT !.at = "reply", !.out = "INTERNAL"]
                    ELSE [audit EXCEPT !.at = "reply", !.out = "RESULT",
                                       !.calculated = t.credits - t.debits,
                                       !.entries = t.entries]
        /\ UNCHANGED <<vars, listing, createdAt>>

\* A statement fails, or the auditor's process dies: there is no verdict.
AuditFails ==
    /\ audit.at = "totals"
    /\ audit' = [audit EXCEPT !.at = "reply", !.out = "UNAVAILABLE"]
    /\ UNCHANGED <<vars, listing, createdAt>>

Report ==
    /\ audit.at = "reply"
    /\ audit' = NoAudit
    /\ UNCHANGED <<vars, listing, createdAt>>

Consistent == audit.stored = audit.calculated

-----------------------------------------------------------------------------
(* Ledger pages.                                                           *)

Posted(w) == { ledger[w][i].tx : i \in DOMAIN ledger[w] }

\* ORDER BY created_at, id
Precedes(d, e) ==
    createdAt[d] < createdAt[e] \/ (createdAt[d] = createdAt[e] /\ EntryId[d] < EntryId[e])

\* Mutant: the cursor is compared by its time only.
Following_TimeOnly(w, cursor) ==
    { e \in Posted(w) : cursor = None \/ createdAt[cursor] < createdAt[e] }

\* The entries after the cursor; a cursor names the entry it was made from.
Following(w, cursor) == { e \in Posted(w) : cursor = None \/ Precedes(cursor, e) }

FirstOf(S, n) == { e \in S : Cardinality({ d \in S : Precedes(d, e) }) < n }

\* A limit that is not positive or too large is replaced; the handler refuses the former.
EffectiveLimit(asked) == IF asked <= 0 \/ asked > PageMax THEN PageDefault ELSE asked

\* A call of GetLedger with the client's cursor: one entry more than the limit is
\* read, and if there is one the page gets a cursor, to its last entry.
GetLedger(w, asked) ==
    LET rows == Following(w, listing.cursor)
        page == FirstOf(rows, EffectiveLimit(asked))
        more == page # rows
    IN  listing' = [at |-> IF more THEN "page" ELSE "done", wid |-> w,
                    cursor |-> IF more THEN CHOOSE e \in page : \A d \in page : ~Precedes(e, d)
                               ELSE None,
                    seen |-> listing.seen \cup page,
                    twice |-> listing.twice \/ listing.seen \cap page # {},
                    base |-> IF listing.at = "idle" THEN Posted(w) ELSE listing.base]

FirstPage(w, asked) ==
    /\ Idle
    /\ GetLedger(w, asked)
    /\ UNCHANGED <<vars, audit, createdAt>>

NextPage(asked) ==
    /\ listing.at = "page"
    /\ GetLedger(listing.wid, asked)
    /\ UNCHANGED <<vars, audit, createdAt>>

EndListing ==
    /\ listing.at = "done"
    /\ listing' = NoListing
    /\ UNCHANGED <<vars, audit, createdAt>>

-----------------------------------------------------------------------------

\* A step of the core.  An entry it posts gets its time.
Core ==
    /\ Next
    /\ \E t \in Instants :
           createdAt' = [id \in AllIds |->
               IF (\E w \in Wallets : id \in Posted(w)' \ Posted(w)) THEN t ELSE createdAt[id]]
    /\ UNCHANGED <<audit, listing>>

QueryInit == /\ Init /\ audit = NoAudit /\ listing = NoListing
             /\ createdAt = [id \in AllIds |-> 0]

QueryNext ==
    \/ Core
    \/ \E w \in Wallets : GetWallet(w)
    \/ SumLedger \/ AuditFails \/ Report
    \/ \E w \in Wallets, asked \in 1..MaxAsked : FirstPage(w, asked)
    \/ \E asked \in 1..MaxAsked : NextPage(asked)
    \/ EndListing

QuerySpec == QueryInit /\ [][QueryNext]_queryVars

-----------------------------------------------------------------------------
(* Properties.                                                             *)

BalanceAfter(w, n) == IF n = 0 THEN 0 ELSE ledger[w][n].after

Verdict == audit.at = "reply" /\ audit.out = "RESULT"

\* Both sides of a verdict are balances the wallet really had, the stored one at
\* the first read and the calculated one at the second, never earlier; so they
\* differ only when a movement was committed between the two statements.
VerdictExplained ==
    Verdict => /\ audit.stored = BalanceAfter(audit.wid, audit.length)
               /\ audit.calculated = BalanceAfter(audit.wid, audit.entries)
               /\ audit.length <= audit.entries
               /\ ~Consistent => audit.length < audit.entries

\* The reconciliation never reports an inconsistency, because stored balance and
\* ledger are read in one consistent snapshot.
NeverInconsistent == Verdict => Consistent

\* A listing that has come to its end had every entry that was there when it began,
\* none of them twice, and none that was not committed: entries of one instant,
\* entries committed meanwhile with an earlier time, and pages of changing size do
\* not make it lose or repeat any.
PagesComplete ==
    listing.at = "done" => /\ listing.base \subseteq listing.seen
                           /\ listing.seen \subseteq Posted(listing.wid)
                           /\ ~listing.twice

-----------------------------------------------------------------------------
(* Why they hold.                                                          *)

Audits == [at : {"idle", "totals", "reply"}, wid : Wallets \cup {None}, stored : Int,
           length : Nat, out : Outcomes, calculated : Int, entries : Nat]

\* What the auditor has read was a balance of the wallet, and the ledger has only
\* grown since.
AuditInv ==
    /\ audit \in Audits
    /\ audit.at = "totals" \/ Verdict =>
          /\ audit.wid \in Wallets /\ audit.length \in 0..Len(ledger[audit.wid])
          /\ audit.stored = BalanceAfter(audit.wid, audit.length)
    /\ Verdict => /\ audit.entries \in audit.length..Len(ledger[audit.wid])
                  /\ audit.calculated = BalanceAfter(audit.wid, audit.entries)

\* Between two pages the cursor is the last entry that was seen, and whatever there
\* was at the first page has been seen or lies behind the cursor.
ListingInv ==
    LET w == listing.wid
    IN  /\ listing.at \in {"idle", "page", "done"}
        /\ listing.at = "idle" => listing = NoListing
        /\ listing.at # "idle" => /\ w \in Wallets /\ ~listing.twice
                                  /\ listing.seen \subseteq Posted(w)
        /\ listing.at = "page" =>
              /\ listing.cursor \in Posted(w)
              /\ \A e \in listing.seen : e = listing.cursor \/ Precedes(e, listing.cursor)
              /\ listing.base \subseteq listing.seen \cup Following(w, listing.cursor)
        /\ listing.at = "done" => listing.base \subseteq listing.seen

\* No entry of a ledger changes its place or its time, because CoreInv allows an
\* operation one movement only.
QueryInv == CoreInv /\ createdAt \in [AllIds -> Int] /\ AuditInv /\ ListingInv
=============================================================================
