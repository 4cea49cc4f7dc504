--------------------------- MODULE MCEffectRunner ---------------------------
(* Instances of EffectRunner: values for its structured constants. *)
EXTENDS EffectRunner, TLC

CONSTANTS r1, r2, room, dispatch

\* A single effect, and the pair ROOM_CREATE <- WORKER_DISPATCH.
Alone == {room}
Pair == {room, dispatch}
NoDeps == [e \in {room} |-> {}]
DispatchAfterRoom == [e \in {room, dispatch} |-> IF e = dispatch THEN {room} ELSE {}]
None == {}
DispatchOnly == {dispatch}

TwoRunners == {r1, r2}
RunnerSymmetry == Permutations({r1, r2})
=============================================================================
