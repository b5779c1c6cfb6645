---------------------------- MODULE MCChatPanel -----------------------------
(* Instances of ChatPanel for TLC. *)
EXTENDS ChatPanel

CONSTANTS r1, r2, read1, edit1, edit2, search1, d1, d2

OneRun == {r1}
TwoRuns == {r1, r2}

MixedCalls == {read1, edit1, search1}
EditCalls == {edit1, edit2}

OneClick == {d1}
TwoClicks == {d1, d2}
=============================================================================
