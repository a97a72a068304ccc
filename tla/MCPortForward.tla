--------------------------- MODULE MCPortForward ---------------------------
(* The instance of PortForward that TLC checks. *)
EXTENDS PortForward, TLC

Symmetry == Permutations(Rule)
=============================================================================
