----------------------------- MODULE MCA20Gate ------------------------------
(* Two values for the bits of a byte that are kept together.               *)
EXTENDS A20Gate

MCRest == {0, 1}
=============================================================================
