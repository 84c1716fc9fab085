------------------------------ MODULE MCOutbox ------------------------------
(***************************************************************************)
(* Small instances of Outbox: events of one wallet, competing publishers.  *)
(***************************************************************************)
EXTENDS Outbox, TLC

OneWallet == [e \in Events |-> "w1"]
PublisherSymmetry == Permutations(Publishers)
=============================================================================
