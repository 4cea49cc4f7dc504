-------------------------- MODULE MCDirectionSession --------------------------
(* An instance of DirectionSession needs no structured constants. *)
EXTENDS DirectionSession, TLC
=============================================================================
