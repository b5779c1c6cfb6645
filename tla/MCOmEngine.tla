----------------------------- MODULE MCOmEngine -----------------------------
(* Instances of OmEngine for TLC. *)
EXTENDS OmEngine

CONSTANTS m1, m2, c1, c2
=============================================================================
