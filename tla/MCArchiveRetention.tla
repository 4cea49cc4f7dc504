------------------------- MODULE MCArchiveRetention -------------------------
(* Instances of ArchiveRetention: values for its structured constants. *)
EXTENDS ArchiveRetention, TLC

CONSTANTS v1, v2, late, h1, h2, q1, q2

AllVersions == {v1, v2, late}
BothRegistered == {v1, v2}
BothHolds == {h1, h2}
BothRequests == {q1, q2}
=============================================================================
