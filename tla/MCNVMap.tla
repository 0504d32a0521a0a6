------------------------------ MODULE MCNVMap ------------------------------
(* Instances of NVMap for TLC *)
EXTENDS NVMapInv

\* Two names with ids of their own.
TwoNames == {"a", "b"}
TwoIds == [n \in TwoNames |-> IF n = "a" THEN 1 ELSE 2]

\* Applications that make every kind of request, that neither allocate under
\* a live name nor rename, and that never delete.
AllRequests == {"alloc", "realloc", "delete", "rename", "commit"}
PlainRequests == {"alloc", "delete", "commit"}
KeepRequests == {"alloc", "realloc", "rename"}
=============================================================================
