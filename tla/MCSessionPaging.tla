--------------------------- MODULE MCSessionPaging ---------------------------
(* Small lists for TLC: pages of 1 (the default), 2 and at most 2.         *)
EXTENDS SessionPaging

MCLimits == {0, 2, 3}
=============================================================================
