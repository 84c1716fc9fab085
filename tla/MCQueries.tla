----------------------------- MODULE MCQueries -----------------------------
(***************************************************************************)
(* Small instances of Queries: one funded wallet and one empty one not     *)
(* opened yet, a bet, the win that follows it and a refund.                *)
(***************************************************************************)
EXTENDS Queries

AuditAccounts == [w \in {"w1", "w2"} |->
    [player |-> w, currency |-> "BRL", initial |-> IF w = "w1" THEN 2 ELSE 0]]

Play(n, kind, amount, ref) ==
    [key |-> n, msg |-> None,
     body |-> [provider |-> "acme", ext |-> n, player |-> "w1", wallet |-> "w1",
               round |-> "r1", kind |-> kind, amount |-> amount, currency |-> "BRL",
               ref |-> ref]]

AuditCommands == {Play("e1", "BET", 1, None), Play("e2", "WIN", 2, "e1"),
                  Play("e3", "REFUND", 1, "e1")}

\* Ids are random: here they do not follow the order of the transactions.
EntryIds == [id \in {"w1", "w2", "t1", "t2", "t3"} |->
    CASE id = "w1" -> 3 [] id = "t1" -> 5 [] id = "t2" -> 1 [] id = "t3" -> 4 [] id = "w2" -> 2]
=============================================================================
