--------------------------- MODULE EffectContract ---------------------------
(***************************************************************************)
(* What the durable effect runner promises of one consultation's effects,  *)
(* whatever crashes, retries and takeovers happen underneath: each effect  *)
(* makes its remote resource at most once at a time, is kept only with the *)
(* resource in place, is undone only when its generation has been fenced   *)
(* and only with the resource gone, and is final once kept, undone or      *)
(* failed.                                                                 *)
(***************************************************************************)
EXTENDS Naturals

CONSTANTS Effects, MaxGeneration

VARIABLES
  generation,  \* the consultation's generation
  planned,     \* the generation an effect was planned in, 0 before that
  outcome,     \* "open", "kept", "undone" or "failed"
  made         \* how many remote resources the effect has, 0 or 1

vars == <<generation, planned, outcome, made>>

Init ==
  /\ generation = 1
  /\ planned = [e \in Effects |-> 0]
  /\ outcome = [e \in Effects |-> "open"]
  /\ made = [e \in Effects |-> 0]

Open(e) == planned[e] # 0 /\ outcome[e] = "open"

Fence ==
  /\ generation < MaxGeneration
  /\ generation' = generation + 1
  /\ UNCHANGED <<planned, outcome, made>>

Plan(e) ==
  /\ planned[e] = 0
  /\ \E g \in 1..generation : planned' = [planned EXCEPT ![e] = g]
  /\ UNCHANGED <<generation, outcome, made>>

Make(e) ==
  /\ Open(e) /\ made[e] = 0
  /\ made' = [made EXCEPT ![e] = 1]
  /\ UNCHANGED <<generation, planned, outcome>>

Unmake(e) ==
  /\ Open(e) /\ made[e] = 1 /\ planned[e] # generation
  /\ made' = [made EXCEPT ![e] = 0]
  /\ UNCHANGED <<generation, planned, outcome>>

Keep(e) ==
  /\ Open(e) /\ made[e] = 1
  /\ outcome' = [outcome EXCEPT ![e] = "kept"]
  /\ UNCHANGED <<generation, planned, made>>

Undo(e) ==
  /\ Open(e) /\ made[e] = 0 /\ planned[e] # generation
  /\ outcome' = [outcome EXCEPT ![e] = "undone"]
  /\ UNCHANGED <<generation, planned, made>>

Fail(e) ==
  /\ Open(e)
  /\ outcome' = [outcome EXCEPT ![e] = "failed"]
  /\ UNCHANGED <<generation, planned, made>>

Next ==
  \/ Fence
  \/ \E e \in Effects : Plan(e) \/ Make(e) \/ Unmake(e) \/ Keep(e) \/ Undo(e) \/ Fail(e)

Spec == Init /\ [][Next]_vars
=============================================================================
