----------------------------- MODULE MCMemberGossip -----------------------------
(* MemberGossip for TLC: the nodes are interchangeable. *)
EXTENDS MemberGossip, TLC

NodeSymmetry == Permutations(Nodes)
=============================================================================
