------------------------ MODULE EffectContractProofs ------------------------
(* EffectRunner implements EffectContract, for every set of runners and      *)
(* effects and every bound, when calls fit their leases: a remote request is *)
(* then outstanding only under the lease of the task that sent it.           *)
EXTENDS EffectRunnerProofs

-----------------------------------------------------------------------------
(* One task's step: its own row, its own position, the other tasks *)

\* Where the task stands after its step.
LEMMA PositionStep ==
  ASSUME TypeOK, NEW r \in Runners, NEW e \in Effects, NEW p
  PROVE  /\ Goto(r, e, p) => Pc(r, e)' = p
         /\ Answered(r, e, p) => Pc(r, e)' \in {p, "catch", "idle"}
<1>1. task[r][e] \in Task /\ task \in [Runners -> [Effects -> Task]]
  BY DEF TypeOK
<1>2. /\ Goto(r, e, p) => task'[r][e] = At(r, e, p)
      /\ Answered(r, e, p) => task'[r][e] \in {At(r, e, p), Thrown(r, e)}
  BY <1>1 DEF Goto, Answered
<1>3. At(r, e, p).pc = p /\ Thrown(r, e).pc \in {"catch", "idle"}
  BY DEF At, Thrown, IdleTask
<1> QED
  BY <1>2, <1>3 DEF Pc

\* What is known of a task holds while its position, its row, the resource and
\* the generation stay.
LEMMA FactsUntouched ==
  ASSUME NEW s \in Runners, NEW f \in Effects, OwnerFacts(s, f), CallFacts(s, f),
         Pc(s, f)' = Pc(s, f), row'[f] = row[f], resource'[f] = resource[f],
         UNCHANGED generation
  PROVE  OwnerFacts(s, f)' /\ CallFacts(s, f)'
BY DEF OwnerFacts, CallFacts, InCall, Owns, Stale

\* Nothing is claimed of an idle task, or of one on its way to a retry.
LEMMA FactsAtRest ==
  ASSUME NEW s \in Runners, NEW f \in Effects, Pc(s, f)' \in {"idle", "catch", "retry"}
  PROVE  OwnerFacts(s, f)' /\ CallFacts(s, f)'
BY DEF OwnerFacts, CallFacts, InCall

\* The steps that write the row: the writer owned it, owns it still or gave it
\* up, and a recorded fence stays.  Nothing else changes than row and position.
LEMMA RowWriters ==
  ASSUME TypeOK, NEW r \in Runners, NEW e \in Effects, TaskStep(r, e), row'[e] # row[e]
  PROVE  /\ row[e].owner = r /\ row'[e].owner \in {r, NoOwner}
         /\ row[e].fenced => row'[e].fenced
         /\ UNCHANGED <<resource, stray>>
<1>0. row \in [Effects -> Row] /\ row[e] \in Row
  BY DEF TypeOK
<1>1. CASE PersistCalling(r, e)
  <2>1. row[e].owner = r /\ row' = [row EXCEPT ![e].state = "calling"]
    BY <1>1 DEF PersistCalling
  <2>2. row'[e] = [row[e] EXCEPT !.state = "calling"]
    BY <1>0, <2>1
  <2>3. row'[e].owner = row[e].owner /\ row'[e].fenced = row[e].fenced
    BY <1>0, <2>2 DEF Row
  <2> QED
    BY <1>1, <2>1, <2>3 DEF PersistCalling
<1>2. CASE MarkApplied(r, e)
  <2>1. row[e].owner = r /\ row' = [row EXCEPT ![e].state = "applied"]
    BY <1>2 DEF MarkApplied, Owns
  <2>2. row'[e] = [row[e] EXCEPT !.state = "applied"]
    BY <1>0, <2>1
  <2>3. row'[e].owner = row[e].owner /\ row'[e].fenced = row[e].fenced
    BY <1>0, <2>2 DEF Row
  <2> QED
    BY <1>2, <2>1, <2>3 DEF MarkApplied
<1>3. CASE MarkDone(r, e)
  <2>1. /\ row[e].owner = r
        /\ row'[e] = [row[e] EXCEPT !.state = "done", !.owner = NoOwner, !.lease = "none"]
    BY <1>0, <1>3 DEF MarkDone, Renewable, Owns
  <2>2. row'[e].owner = NoOwner /\ row'[e].fenced = row[e].fenced
    BY <1>0, <2>1 DEF Row
  <2> QED
    BY <1>3, <2>1, <2>2 DEF MarkDone
<1>4. CASE MarkCompensating(r, e)
  <2>1. /\ row[e].owner = r
        /\ row'[e] = [row[e] EXCEPT !.state = "compensating", !.fenced = TRUE]
    BY <1>0, <1>4 DEF MarkCompensating, Owns
  <2>2. row'[e].owner = row[e].owner /\ row'[e].fenced
    BY <1>0, <2>1 DEF Row
  <2> QED
    BY <1>4, <2>1, <2>2 DEF MarkCompensating
<1>5. CASE MarkFailed(r, e)
  <2>1. /\ row[e].owner = r
        /\ \/ row'[e] = [row[e] EXCEPT !.state = "failed", !.owner = NoOwner, !.lease = "none"]
           \/ row'[e] = [row[e] EXCEPT !.state = "calling", !.owner = NoOwner, !.lease = "live"]
    BY <1>0, <1>5 DEF MarkFailed
  <2>2. row'[e].owner = NoOwner /\ row'[e].fenced = row[e].fenced
    BY <1>0, <2>1 DEF Row
  <2> QED
    BY <1>5, <2>1, <2>2 DEF MarkFailed
<1>6. CASE UNCHANGED row
  BY <1>6
<1> QED
  BY <1>1, <1>2, <1>3, <1>4, <1>5, <1>6
     DEF TaskStep, Run, RenewalRefused, CallFails, RequireOwnership, ReadGeneration,
         CheckGeneration, Adopt, Execute, Land, Answer, Compensate, Catch, AdoptCaught

\* The steps that write the resource: the request lands, the deletion is made.
LEMMA ResourceWriters ==
  ASSUME TypeOK, NEW r \in Runners, NEW e \in Effects, TaskStep(r, e),
         resource'[e] # resource[e]
  PROVE  /\ UNCHANGED <<row, stray>>
         /\ \/ Land(r, e) /\ resource'[e] = resource[e] + 1
            \/ Compensate(r, e) /\ resource[e] > 0 /\ resource'[e] = resource[e] - 1
<1>0. resource \in [Effects -> Nat]
  BY DEF TypeOK
<1>1. CASE Land(r, e)
  BY <1>0, <1>1 DEF Land
<1>2. CASE Compensate(r, e)
  <2>1. resource'[e] = IF resource[e] > 0 THEN resource[e] - 1 ELSE 0
    BY <1>0, <1>2 DEF Compensate
  <2>2. resource[e] > 0
    BY <1>0, <2>1
  <2> QED
    BY <1>2, <2>1, <2>2 DEF Compensate
<1>3. CASE UNCHANGED resource
  BY <1>3
<1> QED
  BY <1>1, <1>2, <1>3
     DEF TaskStep, Run, RenewalRefused, CallFails, RequireOwnership, ReadGeneration,
         PersistCalling, CheckGeneration, Adopt, Execute, Answer, MarkApplied, MarkDone,
         MarkCompensating, Catch, AdoptCaught, MarkFailed

\* No request is left behind when calls fit their leases.
LEMMA StrayKept ==
  ASSUME TypeOK, CallsFitLease, NEW r \in Runners, NEW e \in Effects, TaskStep(r, e)
  PROVE  stray'[e] = stray[e]
<1>1. CASE CallFails(r, e)
  BY <1>1 DEF CallFails, TypeOK
<1>2. CASE UNCHANGED stray
  BY <1>2
<1> QED
  BY <1>1, <1>2
     DEF TaskStep, Run, RenewalRefused, RequireOwnership, ReadGeneration, PersistCalling,
         CheckGeneration, Adopt, Execute, Land, Answer, MarkApplied, MarkDone,
         MarkCompensating, Compensate, Catch, AdoptCaught, MarkFailed

\* The facts of one effect and one task, out of the invariant.
LEMMA FactsHere ==
  ASSUME ContractInv, NEW r \in Runners, NEW e \in Effects
  PROVE  /\ TypeOK /\ RowsWellFormed
         /\ row \in [Effects -> Row] /\ row[e] \in Row
         /\ RowFacts(e) /\ OwnerFacts(r, e) /\ CallFacts(r, e)
BY DEF ContractInv, SafetyInv, TypeOK

\* What is known of the other runners' tasks for the same effect survives: they
\* do not own a row the step writes, and stand in no call whose resource it moves.
LEMMA TaskStepOthers ==
  ASSUME ContractInv, CallsFitLease, NEW r \in Runners, NEW e \in Effects, TaskStep(r, e),
         NEW s \in Runners \ {r}
  PROVE  OwnerFacts(s, e)' /\ CallFacts(s, e)'
<1>0. /\ TypeOK /\ RowFacts(e) /\ CallFacts(r, e)
      /\ OwnerFacts(s, e) /\ CallFacts(s, e)
  BY FactsHere
<1>1. Pc(s, e)' = Pc(s, e) /\ UNCHANGED generation
  BY <1>0, TaskStepFrame DEF Pc
<1>2. CASE row'[e] = row[e] /\ resource'[e] = resource[e]
  BY <1>0, <1>1, <1>2, FactsUntouched
<1>3. CASE row'[e] # row[e]
  <2>1. /\ row[e].owner = r /\ row'[e].owner \in {r, NoOwner}
        /\ row[e].fenced => row'[e].fenced
        /\ UNCHANGED resource
    BY <1>0, <1>3, RowWriters
  <2>2. row[e].owner # s /\ row'[e].owner # s
    BY <2>1, RunnersAssumption
  <2>3. ~InCall(s, e)
    BY <1>0, <2>2 DEF CallFacts, Owns
  <2>4. row'[e].generation = row[e].generation
    BY <1>0, <1>3, TaskStepRow, FactsHere
  <2>5. OwnerFacts(s, e)'
    BY <2>2 DEF OwnerFacts
  <2>6. CallFacts(s, e)'
    BY <1>0, <1>1, <2>1, <2>3, <2>4 DEF CallFacts, InCall, Stale
  <2> QED
    BY <2>5, <2>6
<1>4. CASE resource'[e] # resource[e]
  <2>1. /\ UNCHANGED row
        /\ \/ Land(r, e)
           \/ Compensate(r, e) /\ resource[e] > 0 /\ resource'[e] = resource[e] - 1
    BY <1>0, <1>4, ResourceWriters
  <2>2. CASE Land(r, e)
    <3>1. row[e].owner = r /\ row[e].state = "calling"
      BY <1>0, <2>2 DEF Land, CallFacts, InCall, Owns
    <3>2. row'[e].owner # s /\ ~InCall(s, e)
      BY <1>0, <2>1, <3>1 DEF CallFacts, Owns
    <3> QED
      BY <1>0, <1>1, <2>1, <3>2 DEF OwnerFacts, CallFacts, InCall, Stale
  <2>3. CASE Compensate(r, e) /\ resource[e] > 0 /\ resource'[e] = resource[e] - 1
    <3>1. row[e].fenced /\ resource[e] \in {0, 1}
      BY <1>0, <2>3 DEF Compensate, CallFacts, RowFacts
    <3>2. ~InCall(s, e) /\ resource'[e] = 0
      BY <1>0, <2>3, <3>1 DEF CallFacts
    <3>3. CallFacts(s, e)'
      BY <1>0, <1>1, <2>1, <3>2 DEF CallFacts, InCall, Stale
    <3>4. OwnerFacts(s, e)'
      BY <1>0, <1>1, <2>1, <3>1, <3>2 DEF OwnerFacts
    <3> QED
      BY <3>3, <3>4
  <2> QED
    BY <2>1, <2>2, <2>3
<1> QED
  BY <1>2, <1>3, <1>4

\* The row and the resource stay consistent with the recorded fence.
LEMMA TaskStepRowFacts ==
  ASSUME ContractInv, CallsFitLease, NEW r \in Runners, NEW e \in Effects, TaskStep(r, e)
  PROVE  RowFacts(e)'
<1>0. /\ TypeOK /\ row \in [Effects -> Row] /\ row[e] \in Row
      /\ RowFacts(e) /\ OwnerFacts(r, e) /\ CallFacts(r, e)
  BY FactsHere
<1>1. UNCHANGED generation /\ stray'[e] = stray[e]
  BY <1>0, TaskStepFrame, StrayKept
<1>2. CASE row'[e] = row[e] /\ resource'[e] = resource[e]
  BY <1>0, <1>1, <1>2 DEF RowFacts, Stale
<1>3. CASE row'[e] # row[e]
  <2>0. row[e].owner = r /\ UNCHANGED resource
    BY <1>0, <1>3, RowWriters
  <2>1. CASE PersistCalling(r, e)
    <3>1. row' = [row EXCEPT ![e].state = "calling"] /\ row[e].state \in {"planned", "calling"}
      BY <1>3, <2>1 DEF PersistCalling
    <3>2. row'[e] = [row[e] EXCEPT !.state = "calling"]
      BY <1>0, <3>1
    <3>3. /\ row'[e].state = "calling" /\ row'[e].fenced = row[e].fenced
          /\ row'[e].generation = row[e].generation
      BY <1>0, <3>2 DEF Row
    <3> QED
      BY <1>0, <1>1, <2>0, <3>1, <3>3 DEF RowFacts, Stale
  <2>2. CASE MarkApplied(r, e)
    <3>1. row' = [row EXCEPT ![e].state = "applied"] /\ Pc(r, e) = "apply"
      BY <1>3, <2>2 DEF MarkApplied
    <3>2. row'[e] = [row[e] EXCEPT !.state = "applied"]
      BY <1>0, <3>1
    <3>3. row'[e].state = "applied" /\ row'[e].fenced = row[e].fenced
      BY <1>0, <3>2 DEF Row
    <3>4. ~row[e].fenced /\ resource[e] = 1
      BY <1>0, <2>0, <3>1 DEF OwnerFacts
    <3> QED
      BY <1>0, <1>1, <2>0, <3>3, <3>4 DEF RowFacts
  <2>3. CASE MarkDone(r, e)
    <3>0. Pc(r, e) = "done"
      BY <2>3 DEF MarkDone
    <3>1. row'[e] = [row[e] EXCEPT !.state = "done", !.owner = NoOwner, !.lease = "none"]
      BY <1>0, <1>3, <2>3 DEF MarkDone
    <3>2. /\ row'[e].state = "done" /\ row'[e].fenced = row[e].fenced
          /\ row'[e].generation = row[e].generation
      BY <1>0, <3>1 DEF Row
    <3>3. row[e].state = "applied" \/ (row[e].state = "compensating" /\ resource[e] = 0)
      BY <1>0, <2>0, <3>0 DEF OwnerFacts
    <3>4. resource[e] = IF row[e].fenced THEN 0 ELSE 1
      BY <1>0, <3>3 DEF RowFacts
    <3> QED
      BY <1>0, <1>1, <2>0, <3>2, <3>4 DEF RowFacts, Stale
  <2>4. CASE MarkCompensating(r, e)
    <3>1. /\ row'[e] = [row[e] EXCEPT !.state = "compensating", !.fenced = TRUE]
          /\ Pc(r, e) = "fence"
      BY <1>0, <1>3, <2>4 DEF MarkCompensating
    <3>2. /\ row'[e].state = "compensating" /\ row'[e].fenced
          /\ row'[e].generation = row[e].generation
      BY <1>0, <3>1 DEF Row
    <3>3. Stale(e)
      BY <1>0, <3>1 DEF CallFacts
    <3> QED
      BY <1>0, <1>1, <2>0, <3>2, <3>3 DEF RowFacts, Stale
  <2>5. CASE MarkFailed(r, e)
    <3>1. \/ /\ row'[e] = [row[e] EXCEPT !.state = "failed", !.owner = NoOwner, !.lease = "none"]
             /\ Pc(r, e) = "fail"
          \/ row'[e] = [row[e] EXCEPT !.state = "calling", !.owner = NoOwner, !.lease = "live"]
      BY <1>0, <1>3, <2>5 DEF MarkFailed
    <3>2. /\ (row'[e].state = "failed" /\ Pc(r, e) = "fail") \/ row'[e].state = "calling"
          /\ row'[e].fenced = row[e].fenced
          /\ row'[e].generation = row[e].generation
      BY <1>0, <3>1 DEF Row
    <3>3. Pc(r, e) = "fail" => ~row[e].fenced
      BY <1>0, <2>0 DEF OwnerFacts
    <3> QED
      BY <1>0, <1>1, <2>0, <3>2, <3>3 DEF RowFacts, Stale
  <2>6. ~UNCHANGED row
    BY <1>3
  <2> QED
    BY <2>1, <2>2, <2>3, <2>4, <2>5, <2>6
       DEF TaskStep, Run, RenewalRefused, CallFails, RequireOwnership, ReadGeneration,
           CheckGeneration, Adopt, Execute, Land, Answer, Compensate, Catch, AdoptCaught
<1>4. CASE resource'[e] # resource[e]
  <2>1. /\ UNCHANGED row
        /\ \/ Land(r, e) /\ resource'[e] = resource[e] + 1
           \/ Compensate(r, e) /\ resource[e] > 0 /\ resource'[e] = resource[e] - 1
    BY <1>0, <1>4, ResourceWriters
  <2>2. CASE Land(r, e) /\ resource'[e] = resource[e] + 1
    <3>1. row[e].state = "calling" /\ ~row[e].fenced /\ resource'[e] = 1
      BY <1>0, <2>2 DEF Land, CallFacts, InCall
    <3> QED
      BY <1>0, <1>1, <2>1, <3>1 DEF RowFacts
  <2>3. CASE Compensate(r, e) /\ resource[e] > 0 /\ resource'[e] = resource[e] - 1
    <3>1. row[e].fenced /\ resource'[e] = 0
      BY <1>0, <2>3 DEF Compensate, CallFacts, RowFacts
    <3> QED
      BY <1>0, <1>1, <2>1, <3>1 DEF RowFacts, Stale
  <2> QED
    BY <2>1, <2>2, <2>3
<1> QED
  BY <1>2, <1>3, <1>4

\* The task's own step: what its new position says of its row and of the
\* resource, and that it calls only under its lease and fences only what is stale.
LEMMA TaskStepOwn ==
  ASSUME ContractInv, CallsFitLease, NEW r \in Runners, NEW e \in Effects, TaskStep(r, e)
  PROVE  OwnerFacts(r, e)' /\ CallFacts(r, e)'
<1>0. /\ TypeOK /\ row \in [Effects -> Row] /\ row[e] \in Row
      /\ RowFacts(e) /\ OwnerFacts(r, e) /\ CallFacts(r, e)
  BY FactsHere
<1>1. UNCHANGED generation
  BY <1>0, TaskStepFrame
<1>2. CASE RequireOwnership(r, e)
  <2>1. UNCHANGED <<row, resource>> /\ Pc(r, e) \in OwnPcs
    BY <1>2 DEF RequireOwnership
  <2>2. \/ Pc(r, e)' = "idle"
        \/ Renewable(r, e) /\ Pc(r, e)' = AfterOwnership(Pc(r, e))
    BY <1>0, <1>2, PositionStep DEF RequireOwnership
  <2>3. CASE Pc(r, e)' = "idle"
    BY <2>3, FactsAtRest
  <2>4. CASE Renewable(r, e) /\ Pc(r, e)' = AfterOwnership(Pc(r, e))
    <3>1. Owns(r, e)
      BY <2>4 DEF Renewable
    <3>2. CASE Pc(r, e) = "own_call" /\ Pc(r, e)' = "check_call"
      BY <1>0, <2>1, <3>1, <3>2 DEF OwnerFacts, CallFacts, InCall, Owns
    <3>3. CASE Pc(r, e) \in {"own_rejected", "own_caught"} /\ Pc(r, e)' = "fence"
      BY <1>0, <1>1, <2>1, <3>3 DEF OwnerFacts, CallFacts, InCall, Stale
    <3>4. CASE \/ Pc(r, e) = "own_resume" /\ Pc(r, e)' = "check_resume"
               \/ Pc(r, e) = "own_executed" /\ Pc(r, e)' = "check_executed"
               \/ Pc(r, e) = "own_adopted" /\ Pc(r, e)' = "check_adopted"
               \/ Pc(r, e) = "own_collision" /\ Pc(r, e)' = "fail"
               \/ Pc(r, e) = "own_applied" /\ Pc(r, e)' = "done"
               \/ Pc(r, e) = "own_compensated" /\ Pc(r, e)' = "done"
      <4>1. OwnerFacts(r, e)'
        BY <1>0, <2>1, <3>4 DEF OwnerFacts
      <4>2. CallFacts(r, e)'
        BY <3>4 DEF CallFacts, InCall
      <4> QED
        BY <4>1, <4>2
    <3>5. CASE Pc(r, e) = "own_compensate" /\ Pc(r, e)' = "compensate"
      <4>1. row[e].state = "compensating" /\ row[e].fenced
        BY <1>0, <3>1, <3>5 DEF OwnerFacts, RowFacts, Owns
      <4> QED
        BY <2>1, <3>5, <4>1 DEF OwnerFacts, CallFacts, InCall
    <3> QED
      BY <2>1, <2>4, <3>2, <3>3, <3>4, <3>5 DEF OwnPcs, AfterOwnership
  <2> QED
    BY <2>2, <2>3, <2>4
<1>3. CASE ReadGeneration(r, e)
  <2>1. UNCHANGED <<row, resource>>
    BY <1>3 DEF ReadGeneration
  <2>2. \/ Pc(r, e) = "seen_compensating" /\ Pc(r, e)' = "own_compensate"
        \/ Pc(r, e) = "seen_planned" /\ Pc(r, e)' = IF Stale(e) THEN "persist_fence" ELSE "persist"
        \/ /\ Pc(r, e) = "seen_calling"
           /\ Pc(r, e)' = IF Stale(e) THEN "fence" ELSE IF e \in Drifted THEN "fail" ELSE "persist"
    BY <1>0, <1>3, PositionStep DEF ReadGeneration
  <2>3. row[e].fenced => Stale(e)
    BY <1>0 DEF RowFacts
  <2>4. OwnerFacts(r, e)'
    BY <1>0, <2>1, <2>2, <2>3 DEF OwnerFacts
  <2>5. CallFacts(r, e)'
    BY <1>1, <2>1, <2>2 DEF CallFacts, InCall, Stale
  <2> QED
    BY <2>4, <2>5
<1>4. CASE PersistCalling(r, e)
  <2>1. Pc(r, e) \in {"persist", "persist_fence"} /\ UNCHANGED resource
    BY <1>4 DEF PersistCalling
  <2>2. CASE Pc(r, e)' \in {"idle", "catch"}
    BY <2>2, FactsAtRest
  <2>3. CASE /\ row[e].owner = r /\ row' = [row EXCEPT ![e].state = "calling"]
             /\ Pc(r, e)' = IF Pc(r, e) = "persist" THEN "own_call" ELSE "fence"
    <3>1. row'[e] = [row[e] EXCEPT !.state = "calling"]
      BY <1>0, <2>3
    <3>2. /\ row'[e].state = "calling" /\ row'[e].fenced = row[e].fenced
          /\ row'[e].generation = row[e].generation
      BY <1>0, <3>1 DEF Row
    <3>3. /\ Pc(r, e) = "persist" => ~row[e].fenced
          /\ Pc(r, e) = "persist_fence" => Stale(e)
      BY <1>0, <2>3 DEF OwnerFacts, CallFacts
    <3>4. OwnerFacts(r, e)'
      BY <2>1, <2>3, <3>2, <3>3 DEF OwnerFacts
    <3>5. CallFacts(r, e)'
      BY <1>1, <2>1, <2>3, <3>2, <3>3 DEF CallFacts, InCall, Stale
    <3> QED
      BY <3>4, <3>5
  <2> QED
    BY <1>0, <1>4, <2>2, <2>3, PositionStep DEF PersistCalling
<1>5. CASE CheckGeneration(r, e)
  <2>1. UNCHANGED <<row, resource>> /\ Pc(r, e) \in CheckPcs
    BY <1>5 DEF CheckGeneration
  <2>2. \/ ~Stale(e) /\ Pc(r, e)' = AfterCurrent(Pc(r, e))
        \/ Stale(e) /\ Pc(r, e)' \in {"own_rejected", "fence"}
    BY <1>0, <1>5, PositionStep DEF CheckGeneration
  <2>3. CASE Stale(e) /\ Pc(r, e)' \in {"own_rejected", "fence"}
    BY <1>1, <2>1, <2>3 DEF OwnerFacts, CallFacts, InCall, Stale
  <2>4. CASE Pc(r, e) = "check_call" /\ Pc(r, e)' = "adopt"
    BY <1>0, <2>1, <2>4 DEF OwnerFacts, CallFacts, InCall, Owns
  <2>5. CASE \/ Pc(r, e) = "check_resume" /\ Pc(r, e)' = "done"
             \/ Pc(r, e) \in {"check_executed", "check_adopted"} /\ Pc(r, e)' = "apply"
    <3>1. OwnerFacts(r, e)'
      BY <1>0, <2>1, <2>5 DEF OwnerFacts
    <3>2. CallFacts(r, e)'
      BY <2>5 DEF CallFacts, InCall
    <3> QED
      BY <3>1, <3>2
  <2>6. CASE Pc(r, e)' = "idle"
    BY <2>6, FactsAtRest
  <2> QED
    BY <2>1, <2>2, <2>3, <2>4, <2>5, <2>6 DEF CheckPcs, AfterCurrent
<1>6. CASE Adopt(r, e)
  <2>1. /\ UNCHANGED <<row, resource>> /\ Pc(r, e) = "adopt"
        /\ \/ Pc(r, e)' = "own_collision"
           \/ resource[e] > 0 /\ Pc(r, e)' = "own_adopted"
           \/ ~(resource[e] > 0) /\ Pc(r, e)' = "execute"
    BY <1>0, <1>6, PositionStep DEF Adopt
  <2>2. Owns(r, e) /\ row[e].state = "calling" /\ ~row[e].fenced /\ resource[e] \in {0, 1}
    BY <1>0, <2>1 DEF CallFacts, InCall, RowFacts
  <2> QED
    BY <2>1, <2>2 DEF OwnerFacts, CallFacts, InCall, Owns
<1>7. CASE Execute(r, e)
  <2>1. UNCHANGED <<row, resource>> /\ Pc(r, e) = "execute" /\ Pc(r, e)' = "sent"
    BY <1>0, <1>7, PositionStep DEF Execute
  <2> QED
    BY <1>0, <2>1 DEF OwnerFacts, CallFacts, InCall, Owns
<1>8. CASE Land(r, e)
  <2>1. /\ UNCHANGED row /\ Pc(r, e) = "sent" /\ Pc(r, e)' = "landed"
        /\ resource'[e] = resource[e] + 1
    BY <1>0, <1>8, PositionStep DEF Land, TypeOK
  <2> QED
    BY <1>0, <2>1 DEF OwnerFacts, CallFacts, InCall, Owns
<1>9. CASE Answer(r, e)
  <2>1. UNCHANGED <<row, resource>> /\ Pc(r, e) = "landed" /\ Pc(r, e)' = "own_executed"
    BY <1>0, <1>9, PositionStep DEF Answer
  <2> QED
    BY <1>0, <2>1 DEF OwnerFacts, CallFacts, InCall
<1>10. CASE MarkApplied(r, e)
  <2>1. \/ Pc(r, e)' \in {"idle", "catch", "check_rejected"}
        \/ Pc(r, e)' = "own_applied" /\ row' = [row EXCEPT ![e].state = "applied"]
    BY <1>0, <1>10, PositionStep DEF MarkApplied
  <2>2. CASE Pc(r, e)' \in {"idle", "catch", "check_rejected"}
    BY <2>2 DEF OwnerFacts, CallFacts, InCall
  <2>3. CASE Pc(r, e)' = "own_applied" /\ row' = [row EXCEPT ![e].state = "applied"]
    <3>1. row'[e] = [row[e] EXCEPT !.state = "applied"]
      BY <1>0, <2>3
    <3>2. row'[e].state = "applied"
      BY <1>0, <3>1 DEF Row
    <3> QED
      BY <2>3, <3>2 DEF OwnerFacts, CallFacts, InCall
  <2> QED
    BY <2>1, <2>2, <2>3
<1>11. CASE MarkDone(r, e) \/ MarkFailed(r, e)
  <2>1. Pc(r, e)' \in {"idle", "catch"}
    BY <1>0, <1>11, PositionStep DEF MarkDone, MarkFailed
  <2> QED
    BY <2>1, FactsAtRest
<1>12. CASE MarkCompensating(r, e)
  <2>1. \/ Pc(r, e)' \in {"idle", "catch"}
        \/ Pc(r, e)' = "own_compensate"
    BY <1>0, <1>12, PositionStep DEF MarkCompensating
  <2>2. CASE Pc(r, e)' \in {"idle", "catch"}
    BY <2>2, FactsAtRest
  <2>3. CASE Pc(r, e)' = "own_compensate"
    <3>1. CASE Owns(r, e)
      <4>1. row'[e] = [row[e] EXCEPT !.state = "compensating", !.fenced = TRUE]
        BY <1>0, <1>12, <3>1 DEF MarkCompensating
      <4>2. row'[e].state = "compensating"
        BY <1>0, <4>1 DEF Row
      <4> QED
        BY <2>3, <4>2 DEF OwnerFacts, CallFacts, InCall
    <3>2. CASE ~Owns(r, e)
      <4>1. UNCHANGED row
        BY <1>12, <3>2 DEF MarkCompensating
      <4> QED
        BY <2>3, <3>2, <4>1 DEF OwnerFacts, CallFacts, InCall, Owns
    <3> QED
      BY <3>1, <3>2
  <2> QED
    BY <2>1, <2>2, <2>3
<1>13. CASE Compensate(r, e)
  <2>1. /\ UNCHANGED row /\ Pc(r, e) = "compensate"
        /\ Pc(r, e)' \in {"idle", "catch", "own_compensated"}
        /\ resource'[e] = IF resource[e] > 0 THEN resource[e] - 1 ELSE 0
    BY <1>0, <1>13, PositionStep DEF Compensate, TypeOK
  <2>2. resource'[e] = 0
    BY <1>0, <2>1 DEF RowFacts
  <2> QED
    BY <1>0, <2>1, <2>2 DEF OwnerFacts, CallFacts, InCall
<1>14. CASE Catch(r, e)
  <2>1. /\ Stale(e) => Goto(r, e, "adopt_caught")
        /\ ~Stale(e) => Goto(r, e, "retry")
    BY <1>14 DEF Catch, Stale
  <2>2. Pc(r, e)' = "retry" \/ (Stale(e) /\ Pc(r, e)' = "adopt_caught")
    BY <1>0, <2>1, PositionStep
  <2>3. UNCHANGED row
    BY <1>14 DEF Catch
  <2> QED
    BY <1>1, <2>2, <2>3 DEF OwnerFacts, CallFacts, InCall, Stale
<1>15. CASE AdoptCaught(r, e)
  <2>1. /\ UNCHANGED row /\ Pc(r, e) = "adopt_caught"
        /\ Pc(r, e)' \in {"retry", "own_caught"}
    BY <1>0, <1>15, PositionStep DEF AdoptCaught
  <2> QED
    BY <1>0, <1>1, <2>1 DEF OwnerFacts, CallFacts, InCall, Stale
<1>16. CASE RenewalRefused(r, e)
  <2>1. UNCHANGED <<row, resource>> /\ Pc(r, e)' = Pc(r, e)
    BY <1>0, <1>16 DEF RenewalRefused, Pc, TypeOK, Task
  <2> QED
    BY <1>0, <1>1, <2>1, FactsUntouched
<1>17. CASE CallFails(r, e)
  <2>1. task'[r][e] = Thrown(r, e)
    BY <1>0, <1>17 DEF CallFails, TypeOK
  <2>2. Pc(r, e)' \in {"idle", "catch"}
    BY <2>1 DEF Thrown, IdleTask, Pc
  <2> QED
    BY <2>2, FactsAtRest
<1> QED
  BY <1>2, <1>3, <1>4, <1>5, <1>6, <1>7, <1>8, <1>9, <1>10, <1>11, <1>12, <1>13,
     <1>14, <1>15, <1>16, <1>17 DEF TaskStep, Run

\* A task's step keeps every fact about every effect.
LEMMA TaskStepFacts ==
  ASSUME ContractInv, CallsFitLease, NEW r \in Runners, NEW e \in Effects, TaskStep(r, e),
         NEW s \in Runners, NEW f \in Effects
  PROVE  RowFacts(f)' /\ OwnerFacts(s, f)' /\ CallFacts(s, f)'
<1>1. CASE f = e /\ s = r
  BY <1>1, TaskStepRowFacts, TaskStepOwn
<1>2. CASE f = e /\ s # r
  BY <1>2, TaskStepRowFacts, TaskStepOthers
<1>3. CASE f # e
  <2>1. /\ generation' = generation /\ row'[f] = row[f] /\ resource'[f] = resource[f]
        /\ stray'[f] = stray[f] /\ task'[s][f] = task[s][f]
    BY <1>3, TaskStepFrame DEF ContractInv, SafetyInv
  <2> QED
    BY <2>1 DEF ContractInv, RowFacts, OwnerFacts, CallFacts, InCall, Owns, Stale, Pc
<1> QED
  BY <1>1, <1>2, <1>3

-----------------------------------------------------------------------------
(* The steps around the tasks *)

\* Generations, gates, plans and leases keep every fact.  No lease ends during a
\* call, and no request is left to land on its own.
LEMMA EnvironmentFacts ==
  ASSUME ContractInv, CallsFitLease, NEW s \in Runners, NEW f \in Effects,
         BumpGeneration \/ \E e \in Effects : Environment(e)
  PROVE  RowFacts(f)' /\ OwnerFacts(s, f)' /\ CallFacts(s, f)'
<1> USE DEF ContractInv, SafetyInv
<1>0. row[f] \in Row /\ task[s][f] \in Task
  BY DEF TypeOK
<1>1. RowFacts(f) /\ OwnerFacts(s, f) /\ CallFacts(s, f) /\ (Pc(s, f) # "idle" => row[f].state # "absent")
  BY DEF CallersEligible
<1>2. CASE BumpGeneration
  <2>1. Stale(f) => Stale(f)' \/ row[f].state = "absent"
    BY <1>2, StaleStep DEF Next
  <2>2. UNCHANGED <<row, task, resource, stray>>
    BY <1>2 DEF BumpGeneration
  <2>3. row[f].fenced => row[f].state # "absent"
    BY <1>1 DEF RowFacts
  <2>4. RowFacts(f)'
    BY <1>1, <2>1, <2>2, <2>3 DEF RowFacts
  <2>5. OwnerFacts(s, f)'
    BY <1>1, <2>2 DEF OwnerFacts, Pc
  <2>6. CallFacts(s, f)'
    BY <1>1, <2>1, <2>2 DEF CallFacts, InCall, Owns, Pc
  <2> QED
    BY <2>4, <2>5, <2>6
<1>3. ASSUME NEW e \in Effects, Plan(e)
      PROVE  RowFacts(f)' /\ OwnerFacts(s, f)' /\ CallFacts(s, f)'
  <2>1. UNCHANGED <<generation, task, resource, stray>> /\ (f # e => row'[f] = row[f])
    BY <1>3 DEF Plan, TypeOK
  <2>2. CASE f # e
    BY <1>1, <2>1, <2>2 DEF RowFacts, OwnerFacts, CallFacts, InCall, Owns, Stale, Pc
  <2>3. CASE f = e
    <3>1. PICK g \in 1..generation :
            row' = [row EXCEPT ![e] = [@ EXCEPT !.state = "planned", !.generation = g]]
      BY <1>3 DEF Plan
    <3>2. row[f].state = "absent" /\ Pc(s, f) = "idle"
      BY <1>1, <1>3, <2>3 DEF Plan
    <3>3. row'[f] = [row[f] EXCEPT !.state = "planned", !.generation = g]
      BY <2>3, <3>1 DEF TypeOK
    <3>4. row'[f].state = "planned" /\ row'[f].fenced = row[f].fenced
      BY <1>0, <3>3 DEF Row
    <3>5. ~row[f].fenced /\ resource[f] = 0 /\ stray[f] = 0
      BY <1>1, <3>2 DEF RowFacts
    <3>6. Pc(s, f)' = "idle"
      BY <2>1, <3>2 DEF Pc
    <3> QED
      BY <2>1, <3>4, <3>5, <3>6 DEF RowFacts, OwnerFacts, CallFacts, InCall
  <2> QED
    BY <2>2, <2>3
<1>4. ASSUME NEW e \in Effects, LeaseExpires(e) \/ LeaseLost(e)
      PROVE  RowFacts(f)' /\ OwnerFacts(s, f)' /\ CallFacts(s, f)'
  <2>1. /\ UNCHANGED <<generation, task, resource, stray>>
        /\ row' = [row EXCEPT ![e].lease = "expired"]
        /\ row[e].owner \in Runners => ~InCall(row[e].owner, e)
    BY <1>4, CallsFitLease DEF LeaseExpires, LeaseLost, InCall
  <2>2. CASE f # e
    BY <1>1, <2>1, <2>2 DEF RowFacts, OwnerFacts, CallFacts, InCall, Owns, Stale, Pc, TypeOK
  <2>3. CASE f = e
    <3>1. row'[f] = [row[f] EXCEPT !.lease = "expired"]
      BY <2>1, <2>3 DEF TypeOK
    <3>2. /\ row'[f].state = row[f].state /\ row'[f].owner = row[f].owner
          /\ row'[f].generation = row[f].generation /\ row'[f].fenced = row[f].fenced
          /\ row'[f].lease = "expired"
      BY <1>0, <3>1 DEF Row
    <3>3. ~InCall(s, f)
      BY <1>1, <2>1, <2>3 DEF CallFacts, Owns
    <3>4. Pc(s, f)' = Pc(s, f)
      BY <2>1 DEF Pc
    <3>5. RowFacts(f)'
      BY <1>1, <2>1, <3>2 DEF RowFacts, Stale
    <3>6. OwnerFacts(s, f)'
      BY <1>1, <2>1, <3>2, <3>4 DEF OwnerFacts
    <3>7. CallFacts(s, f)'
      BY <1>1, <2>1, <3>2, <3>3, <3>4 DEF CallFacts, InCall, Stale
    <3> QED
      BY <3>5, <3>6, <3>7
  <2> QED
    BY <2>2, <2>3
<1>5. ASSUME NEW e \in Effects, GateOpens(e)
      PROVE  RowFacts(f)' /\ OwnerFacts(s, f)' /\ CallFacts(s, f)'
  BY <1>1, <1>5 DEF GateOpens, RowFacts, OwnerFacts, CallFacts, InCall, Owns, Stale, Pc
<1>6. ASSUME NEW e \in Effects, StrayLands(e) PROVE FALSE
  BY <1>6 DEF StrayLands, RowFacts
<1> QED
  BY <1>2, <1>3, <1>4, <1>5, <1>6 DEF Environment

\* A claim starts at a position that describes the row it took; a crash leaves
\* no position behind.
LEMMA ProcessFacts ==
  ASSUME ContractInv, CallsFitLease, NEW r \in Runners, Claim(r) \/ Crash(r),
         NEW s \in Runners, NEW f \in Effects
  PROVE  RowFacts(f)' /\ OwnerFacts(s, f)' /\ CallFacts(s, f)'
<1> USE DEF ContractInv, SafetyInv
<1>0. row[f] \in Row /\ task[s][f] \in Task
  BY DEF TypeOK
<1>1. RowFacts(f) /\ OwnerFacts(s, f) /\ CallFacts(s, f)
  OBVIOUS
<1>2. CASE Crash(r)
  <2>1. UNCHANGED <<generation, row, resource>> /\ stray'[f] = stray[f]
    BY <1>2, CallsFitLease DEF Crash
  <2>2. Pc(s, f)' \in {Pc(s, f), "idle"}
    BY <1>2 DEF Crash, Pc, IdleTask, TypeOK
  <2> QED
    BY <1>1, <2>1, <2>2 DEF RowFacts, OwnerFacts, CallFacts, InCall, Owns, Stale
<1>3. CASE Claim(r)
  <2>1. PICK S \in SUBSET {e \in Effects : Claimable(e)} :
          /\ row' = [e \in Effects |->
                IF e \in S THEN [row[e] EXCEPT !.owner = r, !.lease = "live"] ELSE row[e]]
          /\ task' = [task EXCEPT ![r] = [e \in Effects |->
                IF e \in S THEN [pc |-> SeenAs(row[e].state), lost |-> FALSE, guarded |-> FALSE]
                ELSE IdleTask]]
    BY <1>3 DEF Claim
  <2>2. UNCHANGED <<generation, resource, stray>>
    BY <1>3 DEF Claim
  <2>3. /\ row'[f].state = row[f].state /\ row'[f].generation = row[f].generation
        /\ row'[f].fenced = row[f].fenced
    BY <1>0, <2>1 DEF Row
  <2>4. RowFacts(f)'
    BY <1>1, <2>2, <2>3 DEF RowFacts, Stale
  <2>5. CASE f \notin S
    <3>1. row'[f] = row[f]
      BY <2>1, <2>5
    <3>2. Pc(s, f)' \in {Pc(s, f), "idle"}
      BY <2>1, <2>5 DEF Pc, IdleTask, TypeOK
    <3> QED
      BY <1>1, <2>2, <2>4, <3>1, <3>2 DEF OwnerFacts, CallFacts, InCall, Owns, Stale
  <2>6. CASE f \in S /\ s # r
    <3>1. row'[f].owner = r
      BY <1>0, <2>1, <2>6 DEF Row
    <3>2. Pc(s, f)' = Pc(s, f)
      BY <2>1, <2>6 DEF Pc, TypeOK
    <3>3. row[f].lease # "live"
      BY <2>6 DEF Claimable
    <3> QED
      BY <1>1, <2>2, <2>3, <2>4, <2>6, <3>1, <3>2, <3>3 DEF OwnerFacts, CallFacts, InCall, Owns, Stale
  <2>7. CASE f \in S /\ s = r
    <3>1. row[f].state \in Active
      BY <2>7 DEF Claimable
    <3>2. Pc(s, f)' = SeenAs(row[f].state)
      BY <2>1, <2>7 DEF Pc, TypeOK
    <3> QED
      BY <1>1, <2>2, <2>3, <2>4, <3>1, <3>2 DEF SeenAs, Active, OwnerFacts, CallFacts, InCall
  <2> QED
    BY <2>5, <2>6, <2>7
<1> QED
  BY <1>2, <1>3

-----------------------------------------------------------------------------
(* The invariant, and the refinement *)

LEMMA ContractInvInit == Init => ContractInv
BY SafetyInit DEF Init, ContractInv, RowFacts, OwnerFacts, CallFacts, InCall, Pc, IdleTask

LEMMA ContractInvStep == ContractInv /\ CallsFitLease /\ [Next]_vars => ContractInv'
<1> SUFFICES ASSUME ContractInv, CallsFitLease, [Next]_vars PROVE ContractInv'
  OBVIOUS
<1>1. SafetyInv'
  BY SafetyStep DEF ContractInv
<1>2. ASSUME NEW s \in Runners, NEW f \in Effects
      PROVE  RowFacts(f)' /\ OwnerFacts(s, f)' /\ CallFacts(s, f)'
  <2>1. CASE UNCHANGED vars
    BY <2>1 DEF vars, ContractInv, RowFacts, OwnerFacts, CallFacts, InCall, Owns, Stale, Pc
  <2> QED
    BY <2>1, TaskStepFacts, EnvironmentFacts, ProcessFacts DEF Next, TaskStep
<1>3. ASSUME NEW f \in Effects PROVE RowFacts(f)'
  BY <1>2, SomeRunnerAssumption
<1> QED
  BY <1>1, <1>2, <1>3 DEF ContractInv

\* The inductive invariant holds of every reachable state.
THEOREM ContractInvariant ==
  ASSUME CallsFitLease
  PROVE  Spec => []ContractInv
<1>1. ContractInv /\ [Next]_vars => ContractInv'
  BY ContractInvStep, CallsFitLease
<1> QED
  BY <1>1, ContractInvInit, PTL DEF Spec

\* The abstract state of an effect: when it was planned, its outcome, its resource.
Same(e) ==
  /\ row'[e].generation = row[e].generation
  /\ OutcomeOf(e)' = OutcomeOf(e)
  /\ resource'[e] = resource[e]

\* A step that keeps the abstract state of every effect stutters.
LEMMA StutterStep ==
  ASSUME TypeOK, TypeOK', generation' = generation, \A e \in Effects : Same(e)
  PROVE  UNCHANGED Contract!vars
BY DEF Contract!vars, Same, TypeOK

\* An effect that no statement and no call touched keeps its abstract state.
LEMMA SameIfEqual ==
  ASSUME NEW e \in Effects, row'[e] = row[e], resource'[e] = resource[e]
  PROVE  Same(e)
BY DEF Same, OutcomeOf

\* An active row is open, whatever becomes of it inside the active states.
LEMMA SameIfActive ==
  ASSUME NEW e \in Effects, row[e].state \in Active, row'[e].state \in Active,
         row'[e].generation = row[e].generation, resource'[e] = resource[e]
  PROVE  Same(e)
BY DEF Same, OutcomeOf, Active

LEMMA RefinementInit == Init => Contract!Init
<1> SUFFICES ASSUME Init PROVE Contract!Init
  OBVIOUS
<1>1. \A e \in Effects : row[e].state = "absent" /\ row[e].generation = 0 /\ resource[e] = 0
  BY DEF Init
<1>2. \A e \in Effects : OutcomeOf(e) = "open"
  BY <1>1 DEF OutcomeOf
<1>3. [e \in Effects |-> row[e].generation] = [e \in Effects |-> 0]
  BY <1>1
<1>4. [e \in Effects |-> OutcomeOf(e)] = [e \in Effects |-> "open"]
  BY <1>2
<1> QED
  BY <1>3, <1>4 DEF Init, Contract!Init

\* A task's step settles, makes or unmakes its own effect, or stutters.
LEMMA RefinementTaskStep ==
  ASSUME ContractInv, CallsFitLease, NEW r \in Runners, NEW e \in Effects, TaskStep(r, e)
  PROVE  Contract!Next \/ UNCHANGED Contract!vars
<1> USE DEF ContractInv, SafetyInv
<1>0. row[e] \in Row /\ task[r][e] \in Task /\ resource[e] \in {0, 1} /\ RowFacts(e)
      /\ OwnerFacts(r, e) /\ CallFacts(r, e)
  BY DEF TypeOK, RowFacts
<1>1. generation' = generation /\ \A f \in Effects \ {e} : Same(f)
  BY TaskStepFrame, SameIfEqual
<1>2. Same(e) => UNCHANGED Contract!vars
  <2>1. TypeOK'
    BY TypeStep DEF TaskStep, Next
  <2> QED
    BY <1>1, <2>1, StutterStep
<1>3. row[e].state \in Active => OutcomeOf(e) = "open" /\ row[e].generation # 0
  BY DEF RowsWellFormed, OutcomeOf, Active
<1>4. row[e].owner = r => row[e].state \in Active
  BY RunnersAssumption DEF RowsWellFormed
<1>5. CASE UNCHANGED <<row, resource>>
  BY <1>2, <1>5, SameIfEqual
<1>6. CASE Land(r, e)
  <2>1. row' = row /\ resource' = [resource EXCEPT ![e] = @ + 1] /\ generation' = generation
    BY <1>6 DEF Land
  <2>2. row[e].state = "calling" /\ resource[e] = 0
    BY <1>0, <1>6 DEF Land, CallFacts, InCall
  <2>3. Contract!Make(e)
    <3>1. resource' = [resource EXCEPT ![e] = 1]
      BY <2>1, <2>2 DEF TypeOK
    <3>2. Contract!Open(e)
      BY <1>3, <2>2 DEF Contract!Open, Active
    <3>3. [f \in Effects |-> OutcomeOf(f)'] = [f \in Effects |-> OutcomeOf(f)]
      BY <2>1 DEF OutcomeOf
    <3> QED
      BY <2>1, <2>2, <3>1, <3>2, <3>3 DEF Contract!Make
  <2> QED
    BY <2>3 DEF Contract!Next
<1>7. CASE Compensate(r, e)
  <2>1. row' = row /\ generation' = generation
        /\ resource' = [resource EXCEPT ![e] = IF @ > 0 THEN @ - 1 ELSE 0]
    BY <1>7 DEF Compensate
  <2>2. CASE resource[e] = 0
    <3>1. resource'[e] = resource[e]
      BY <2>1, <2>2 DEF TypeOK
    <3> QED
      BY <1>2, <2>1, <3>1, SameIfEqual
  <2>3. CASE resource[e] = 1
    <3>1. row[e].fenced /\ Stale(e) /\ row[e].state \in {"calling", "compensating"}
      BY <1>0, <1>7, <2>3 DEF Compensate, CallFacts, RowFacts
    <3>2. resource' = [resource EXCEPT ![e] = 0]
      BY <2>1, <2>3 DEF TypeOK
    <3>3. Contract!Open(e) /\ row[e].generation # generation
      BY <1>3, <2>3, <3>1 DEF Contract!Open, Active, Stale
    <3>4. [f \in Effects |-> OutcomeOf(f)'] = [f \in Effects |-> OutcomeOf(f)]
      BY <2>1 DEF OutcomeOf
    <3>5. Contract!Unmake(e)
      BY <2>1, <2>3, <3>2, <3>3, <3>4 DEF Contract!Unmake
    <3> QED
      BY <3>5 DEF Contract!Next
  <2> QED
    BY <1>0, <2>2, <2>3
<1>8. CASE /\ PersistCalling(r, e) \/ MarkApplied(r, e) \/ MarkCompensating(r, e)
           /\ row' # row
  <2>1. row'[e].state \in Active /\ row'[e].generation = row[e].generation /\ row[e].state \in Active
    <3>1. row[e].owner = r /\ TypeOK
      BY <1>8 DEF PersistCalling, MarkApplied, MarkCompensating, Owns
    <3>2. \/ row'[e] = [row[e] EXCEPT !.state = "calling"]
          \/ row'[e] = [row[e] EXCEPT !.state = "applied"]
          \/ row'[e] = [row[e] EXCEPT !.state = "compensating", !.fenced = TRUE]
      BY <1>8, <3>1 DEF PersistCalling, MarkApplied, MarkCompensating, TypeOK
    <3>3. row'[e].state \in {"calling", "applied", "compensating"}
          /\ row'[e].generation = row[e].generation
      BY <1>0, <3>2 DEF Row
    <3> QED
      BY <1>4, <3>1, <3>3 DEF Active
  <2>2. resource' = resource
    BY <1>8 DEF PersistCalling, MarkApplied, MarkCompensating
  <2> QED
    BY <1>2, <2>1, <2>2, SameIfActive
<1>9. CASE MarkDone(r, e) /\ row' # row
  <2>1. /\ row' = [row EXCEPT ![e] = [@ EXCEPT !.state = "done", !.owner = NoOwner, !.lease = "none"]]
        /\ resource' = resource /\ row[e].owner = r /\ Pc(r, e) = "done"
    BY <1>9 DEF MarkDone, Renewable, Owns
  <2>2. row'[e] = [row[e] EXCEPT !.state = "done", !.owner = NoOwner, !.lease = "none"]
    BY <2>1 DEF TypeOK
  <2>3. /\ row'[e].state = "done" /\ row'[e].fenced = row[e].fenced
        /\ row'[e].generation = row[e].generation
    BY <1>0, <2>2 DEF Row
  <2>4. \A f \in Effects \ {e} : row'[f] = row[f]
    BY <2>1
  <2>5. [f \in Effects |-> row'[f].generation] = [f \in Effects |-> row[f].generation]
    BY <2>3, <2>4
  <2>6. Contract!Open(e)
    BY <1>3, <1>4, <2>1 DEF Contract!Open
  <2>7. \/ row[e].state = "applied"
        \/ row[e].state = "compensating" /\ resource[e] = 0
    BY <1>0, <2>1 DEF OwnerFacts
  <2>8. CASE row[e].state = "applied"
    <3>1. resource[e] = 1 /\ ~row[e].fenced
      BY <1>0, <2>8 DEF RowFacts
    <3>2. [f \in Effects |-> OutcomeOf(f)'] = [[f \in Effects |-> OutcomeOf(f)] EXCEPT ![e] = "kept"]
      BY <2>3, <2>4, <3>1 DEF OutcomeOf
    <3>3. Contract!Keep(e)
      BY <1>1, <2>1, <2>5, <2>6, <3>1, <3>2 DEF Contract!Keep
    <3> QED
      BY <3>3 DEF Contract!Next
  <2>9. CASE row[e].state = "compensating" /\ resource[e] = 0
    <3>1. row[e].fenced /\ row[e].generation # generation
      BY <1>0, <2>9 DEF RowFacts, Stale
    <3>2. [f \in Effects |-> OutcomeOf(f)'] = [[f \in Effects |-> OutcomeOf(f)] EXCEPT ![e] = "undone"]
      BY <2>3, <2>4, <3>1 DEF OutcomeOf
    <3>3. Contract!Undo(e)
      BY <1>1, <2>1, <2>5, <2>6, <2>9, <3>1, <3>2 DEF Contract!Undo
    <3> QED
      BY <3>3 DEF Contract!Next
  <2> QED
    BY <2>7, <2>8, <2>9
<1>10. CASE MarkFailed(r, e) /\ row' # row
  <2>1. resource' = resource /\ row[e].owner = r /\ row[e].state \in Active
    BY <1>4, <1>10 DEF MarkFailed
  <2>2. CASE row' = [row EXCEPT ![e] = [@ EXCEPT !.state = "calling", !.owner = NoOwner, !.lease = "live"]]
    <3>1. row'[e] = [row[e] EXCEPT !.state = "calling", !.owner = NoOwner, !.lease = "live"]
      BY <2>2 DEF TypeOK
    <3>2. row'[e].state = "calling" /\ row'[e].generation = row[e].generation
      BY <1>0, <3>1 DEF Row
    <3> QED
      BY <1>2, <2>1, <3>2, SameIfActive DEF Active
  <2>3. CASE row' = [row EXCEPT ![e] = [@ EXCEPT !.state = "failed", !.owner = NoOwner, !.lease = "none"]]
    <3>1. row'[e] = [row[e] EXCEPT !.state = "failed", !.owner = NoOwner, !.lease = "none"]
      BY <2>3 DEF TypeOK
    <3>2. row'[e].state = "failed" /\ row'[e].generation = row[e].generation
      BY <1>0, <3>1 DEF Row
    <3>3. \A f \in Effects \ {e} : row'[f] = row[f]
      BY <2>3
    <3>4. [f \in Effects |-> row'[f].generation] = [f \in Effects |-> row[f].generation]
      BY <3>2, <3>3
    <3>5. [f \in Effects |-> OutcomeOf(f)'] = [[f \in Effects |-> OutcomeOf(f)] EXCEPT ![e] = "failed"]
      BY <3>2, <3>3 DEF OutcomeOf
    <3>6. Contract!Open(e)
      BY <1>3, <2>1 DEF Contract!Open
    <3>7. Contract!Fail(e)
      BY <1>1, <2>1, <3>4, <3>5, <3>6 DEF Contract!Fail
    <3> QED
      BY <3>7 DEF Contract!Next
  <2> QED
    BY <1>10, <2>2, <2>3 DEF MarkFailed
<1> QED
  BY <1>5, <1>6, <1>7, <1>8, <1>9, <1>10
     DEF TaskStep, Run, RenewalRefused, CallFails, RequireOwnership, ReadGeneration,
         CheckGeneration, Adopt, Execute, Answer, Catch, AdoptCaught, PersistCalling,
         MarkApplied, MarkCompensating, MarkDone, MarkFailed

\* Every step of the runner is a step of the contract or a stutter.
LEMMA RefinementStep ==
  ContractInv /\ CallsFitLease /\ [Next]_vars => [Contract!Next]_(Contract!vars)
<1> SUFFICES ASSUME ContractInv, CallsFitLease, [Next]_vars
             PROVE  Contract!Next \/ UNCHANGED Contract!vars
  OBVIOUS
<1> USE DEF ContractInv, SafetyInv
<1>0. TypeOK' /\ \A e \in Effects : row[e] \in Row
  BY TypeStep DEF TypeOK
<1>1. CASE BumpGeneration
  <2>1. [e \in Effects |-> OutcomeOf(e)'] = [e \in Effects |-> OutcomeOf(e)]
    BY <1>1 DEF BumpGeneration, OutcomeOf
  <2> QED
    BY <1>1, <2>1 DEF BumpGeneration, Contract!Next, Contract!Fence
<1>2. ASSUME NEW e \in Effects, Plan(e) PROVE Contract!Next
  <2>1. PICK g \in 1..generation :
          row' = [row EXCEPT ![e] = [@ EXCEPT !.state = "planned", !.generation = g]]
    BY <1>2 DEF Plan
  <2>2. row'[e] = [row[e] EXCEPT !.state = "planned", !.generation = g]
    BY <2>1 DEF TypeOK
  <2>3. row'[e].state = "planned" /\ row'[e].generation = g
    BY <1>0, <2>2 DEF Row
  <2>4. row[e].state = "absent" /\ row[e].generation = 0
    BY <1>2 DEF Plan, RowsWellFormed
  <2>5. \A f \in Effects \ {e} : row'[f] = row[f]
    BY <2>1
  <2>6. [f \in Effects |-> row'[f].generation]
          = [[f \in Effects |-> row[f].generation] EXCEPT ![e] = g]
    BY <2>3, <2>5
  <2>7. [f \in Effects |-> OutcomeOf(f)'] = [f \in Effects |-> OutcomeOf(f)]
    BY <2>3, <2>4, <2>5 DEF OutcomeOf
  <2>8. Contract!Plan(e)
    BY <1>2, <2>4, <2>6, <2>7 DEF Plan, Contract!Plan
  <2> QED
    BY <2>8 DEF Contract!Next
<1>3. ASSUME NEW e \in Effects, GateOpens(e) PROVE UNCHANGED Contract!vars
  BY <1>0, <1>3, StutterStep, SameIfEqual DEF GateOpens
<1>4. ASSUME \/ \E e \in Effects : LeaseExpires(e) \/ LeaseLost(e)
             \/ \E r \in Runners : Claim(r) \/ Crash(r)
      PROVE  UNCHANGED Contract!vars
  <2>1. generation' = generation /\ resource' = resource
    BY <1>4 DEF LeaseExpires, LeaseLost, Claim, Crash
  <2>2. ASSUME NEW f \in Effects PROVE Same(f)
    <3>1. /\ row'[f].state = row[f].state /\ row'[f].generation = row[f].generation
          /\ row'[f].fenced = row[f].fenced
      BY <1>4, LeasesKeepState
    <3> QED
      BY <2>1, <3>1 DEF Same, OutcomeOf
  <2> QED
    BY <1>0, <2>1, <2>2, StutterStep
<1>5. ASSUME NEW e \in Effects, StrayLands(e) PROVE FALSE
  BY <1>5 DEF StrayLands, RowFacts
<1>6. CASE UNCHANGED vars
  BY <1>0, <1>6, StutterStep, SameIfEqual DEF vars
<1> QED
  BY <1>1, <1>2, <1>3, <1>4, <1>5, <1>6, RefinementTaskStep DEF Next, Environment, TaskStep

\* The runner implements the contract: with crashes, lost leases and failed or
\* unanswered calls at every await, each effect is kept with its resource in
\* place, undone with its resource gone, or failed, once and for all.
THEOREM RunnerImplementsContract ==
  ASSUME CallsFitLease
  PROVE  Spec => ImplementsContract
<1>1. ContractInv /\ [Next]_vars => [Contract!Next]_(Contract!vars)
  BY RefinementStep, CallsFitLease
<1>2. Spec => []ContractInv
  BY ContractInvariant, CallsFitLease
<1> QED
  BY <1>1, <1>2, RefinementInit, PTL DEF Spec, ImplementsContract, Contract!Spec
=============================================================================
