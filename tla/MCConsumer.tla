----------------------------- MODULE MCConsumer -----------------------------
(***************************************************************************)
(* A small instance of Consumer: a bet and its refund in one queue, and    *)
(* requests over HTTP that may take the key of the bet.                    *)
(***************************************************************************)
EXTENDS Consumer

Alice == [w \in {"w1"} |-> [player |-> "alice", currency |-> "BRL", initial |-> 2]]

Letter(msg, key, kind, amount, ref) ==
    [key |-> key, msg |-> msg,
     body |-> [provider |-> "acme", ext |-> key, player |-> "alice", wallet |-> "w1",
               round |-> "r1", kind |-> kind, amount |-> amount, currency |-> "BRL",
               ref |-> ref]]

\* If the refund overtakes the bet it is parked, and may be given up.
Letters == << Letter("m1", "k1", "BET", 2, None), Letter("m2", "k2", "REFUND", 2, "k1") >>

\* The bet itself, or another payload under its key, so that the bet is refused.
HttpCommands == { Letter(None, "k1", "BET", 2, None), Letter(None, "k1", "LOSS", 0, None) }
=============================================================================
