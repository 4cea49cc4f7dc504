---------------------------- MODULE MCConsultation ----------------------------
(* Instances of Consultation: values for its structured constants. *)
EXTENDS Consultation, TLC

CONSTANT p1

OneParticipant == {p1}
=============================================================================
