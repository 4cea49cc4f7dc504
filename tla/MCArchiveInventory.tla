------------------------- MODULE MCArchiveInventory -------------------------
(* Instances of ArchiveInventory: values for its structured constants. *)
EXTENDS ArchiveInventory, TLC

CONSTANTS r1, r2, c1, k1, o1

TwoReconcilers == {r1, r2}
OneReconciler == {r1}
OneCapture == {c1}
CaptionAndObject == {k1, o1}
CaptionOnly == {k1}
ObjectOnly == {o1}
None == {}
=============================================================================
