--------------------------- MODULE MCSpoolDelivery ---------------------------
(* Instances of SpoolDelivery: values for its structured constants. *)
EXTENDS SpoolDelivery

CONSTANTS e1, e2

OneRecord == {e1}
TwoRecords == {e1, e2}
Second == {e2}
None == {}
=============================================================================
