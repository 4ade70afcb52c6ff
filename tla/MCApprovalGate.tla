--------------------------- MODULE MCApprovalGate ---------------------------
(***************************************************************************)
(* Module ApprovalGate for TLC: two processes, a gated and a free          *)
(* operation, and a workflow that asks two roles.                          *)
(***************************************************************************)
EXTENDS ApprovalGate, TLC


CONSTANTS p1, p2, o1, o2, r1, r2

BothRoles == {Role}
Symmetry == Permutations(Proc) \cup Permutations(Role)
=============================================================================
