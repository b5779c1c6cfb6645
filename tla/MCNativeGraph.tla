--------------------------- MODULE MCNativeGraph ---------------------------
(* Instances of NativeGraph for TLC: one candidate edge joins all vertices. *)
EXTENDS NativeGraph, TLC

CONSTANTS v1, v2, e1, d1, d2, c1, c2

AllVertices(e) == Vertices

\* Scopes of one kind are not told apart; used for safety only.
ScopeSymmetry == Permutations(AssertedScopes) \cup Permutations(CandidateScopes)
=============================================================================
