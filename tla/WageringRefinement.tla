------------------------- MODULE WageringRefinement -------------------------
(***************************************************************************)
(* Wagering implements AtomicWagering.  The mapping keeps the tables of    *)
(* the same name and hides everything else: locks, workers and what they   *)
(* have read or buffered.                                                  *)
(***************************************************************************)
EXTENDS WageringInv

Atomic == INSTANCE AtomicWagering WITH wallets <- wallets, txs <- txs, inbox <- inbox

\* Every commit of a unit of work is one atomic operation on the tables as they are
\* at that moment, although its reads were separate statements, each with its own
\* snapshot, some of them before any lock; and no other step touches the tables.
ImplementsAtomic == Atomic!Spec

-----------------------------------------------------------------------------
(* Why it does.                                                            *)

\* A plan is a choice of the atomic service, now and until it is carried out, although
\* its reads are past: of the wallet it has locked nothing changes, and what it read of
\* other wallets, or of a row that failed, the atomic service may miss as well.  A
\* reversal that is still to look for others refers to the row it has found.
PlanStands(x) ==
    LET j == job[x]
        b == j.row.body
    IN  Settles(x) =>
        /\ pc[x] = "reversal" => /\ b.currency = Accounts[b.wallet].currency
                                 /\ j.row.refId = Atomic!Referred(b)
        /\ pc[x] \in {"save"} \cup AfterSave =>
              \/ Atomic!Choice(j.plan, j.row.refId) \in Atomic!Choices(b)
              \/ /\ x \in Resolvers /\ j.row.refId = None
                 /\ j.plan = Reject("REFERENCE_NOT_FOUND")
                 /\ Atomic!Choice(Park, None) \in Atomic!Choices(b)

\* What the refinement rests on: CoreInv says what a commit writes, RequestInv whose
\* answer a repeat gets, and PlanStands that the atomic service might decide the same
\* at that moment.
PlansStand    == \A x \in Workers : PlanStands(x)
RefinementInv == CoreInv /\ RequestInv /\ PlansStand
=============================================================================
