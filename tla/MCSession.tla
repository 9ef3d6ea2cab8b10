----------------------------- MODULE MCSession -----------------------------
(* Session on small instances. *)
EXTENDS Session, TLC

MCSymmetry == Permutations(Calls) \cup Permutations(Inbound2)
=============================================================================
