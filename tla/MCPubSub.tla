------------------------------ MODULE MCPubSub ------------------------------
(* PubSub on small instances. *)
EXTENDS PubSub, TLC

MCSymmetry == Permutations(Subscribers)
=============================================================================
