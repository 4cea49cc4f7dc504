------------------------- MODULE EffectRunnerProofs -------------------------
(* Safety of EffectRunner, proved for every set of runners, effects and      *)
(* dependencies and every bound.                                             *)
EXTENDS EffectRunner, TLAPS

-----------------------------------------------------------------------------
(* Type correctness *)

TaskType == task \in [Runners -> [Effects -> Task]]
RowType == row \in [Effects -> Row]

\* A task moved to a program counter, or thrown out of one, is a task.
LEMMA TaskUpdates ==
  ASSUME TaskType, NEW r \in Runners, NEW e \in Effects
  PROVE  /\ IdleTask \in Task
         /\ \A p \in Pcs : At(r, e, p) \in Task
         /\ Thrown(r, e) \in Task
<1>1. IdleTask \in Task
  BY DEF IdleTask, Task, Pcs
<1>2. task[r][e].lost \in BOOLEAN /\ task[r][e].guarded \in BOOLEAN
  BY DEF TaskType, Task
<1>3. ASSUME NEW p \in Pcs PROVE At(r, e, p) \in Task
  BY <1>1, <1>2 DEF At, Task
<1>4. Thrown(r, e) \in Task
  BY <1>1, <1>2 DEF Thrown, Task, Pcs
<1> QED
  BY <1>1, <1>3, <1>4

\* The two ways an await ends keep tasks and faults in their types.
LEMMA AnsweredType ==
  ASSUME TypeOK, NEW r \in Runners, NEW e \in Effects, NEW p \in Pcs,
         Goto(r, e, p) \/ Answered(r, e, p)
  PROVE  TaskType' /\ faults' \in 0..MaxFaults
<1>1. At(r, e, p) \in Task /\ Thrown(r, e) \in Task
  BY TaskUpdates DEF TypeOK, TaskType
<1> QED
  BY <1>1, FaultsAssumption DEF TypeOK, TaskType, Goto, Answered, Fault

\* Every step keeps the variables in their types.
LEMMA TypeStep == TypeOK /\ [Next]_vars => TypeOK'
<1> SUFFICES ASSUME TypeOK, [Next]_vars PROVE TypeOK'
  OBVIOUS
<1> USE RunnersAssumption, FaultsAssumption, GenerationAssumption DEF TypeOK
<1>1. CASE BumpGeneration
  BY <1>1 DEF BumpGeneration
<1>2. ASSUME NEW e \in Effects, Environment(e) PROVE TypeOK'
  <2>0. row[e] \in Row
    OBVIOUS
  <2>1. CASE Plan(e)
    <3>1. PICK g \in 1..generation :
            row' = [row EXCEPT ![e] = [@ EXCEPT !.state = "planned", !.generation = g]]
      BY <2>1 DEF Plan
    <3>2. g \in 0..MaxGeneration
      OBVIOUS
    <3>3. [row[e] EXCEPT !.state = "planned", !.generation = g] \in Row
      BY <2>0, <3>2 DEF Row, States, Active
    <3> QED
      BY <2>1, <3>1, <3>3 DEF Plan
  <2>2. CASE GateOpens(e)
    BY <2>2 DEF GateOpens
  <2>3. CASE LeaseExpires(e)
    BY <2>0, <2>3 DEF LeaseExpires, Row
  <2>4. CASE LeaseLost(e)
    BY <2>0, <2>4 DEF LeaseLost, Fault, Row
  <2>5. CASE StrayLands(e)
    BY <2>5 DEF StrayLands
  <2> QED
    BY <1>2, <2>1, <2>2, <2>3, <2>4, <2>5 DEF Environment
<1>3. ASSUME NEW r \in Runners, Claim(r) \/ Crash(r) PROVE TypeOK'
  <2>1. CASE Claim(r)
    <3>1. PICK S \in SUBSET {e \in Effects : Claimable(e)} :
            /\ row' = [e \in Effects |->
                  IF e \in S THEN [row[e] EXCEPT !.owner = r, !.lease = "live"] ELSE row[e]]
            /\ task' = [task EXCEPT ![r] = [e \in Effects |->
                  IF e \in S THEN [pc |-> SeenAs(row[e].state), lost |-> FALSE, guarded |-> FALSE]
                  ELSE IdleTask]]
      BY <2>1 DEF Claim
    <3>2. ASSUME NEW e \in Effects
          PROVE  [row[e] EXCEPT !.owner = r, !.lease = "live"] \in Row
      <4>1. row[e] \in Row
        OBVIOUS
      <4> QED
        BY <4>1 DEF Row
    <3>3. RowType'
      BY <3>1, <3>2 DEF RowType
    <3>4. ASSUME NEW e \in S
          PROVE  [pc |-> SeenAs(row[e].state), lost |-> FALSE, guarded |-> FALSE] \in Task
      <4>1. row[e].state \in Active
        BY DEF Claimable
      <4>2. SeenAs(row[e].state) \in Pcs
        BY <4>1 DEF Active, SeenAs, Pcs, OwnPcs
      <4> QED
        BY <4>2 DEF Task
    <3>5. TaskType'
      BY <3>1, <3>4, TaskUpdates DEF TaskType, IdleTask, Task, Pcs
    <3> QED
      BY <2>1, <3>3, <3>5 DEF Claim, RowType, TaskType
  <2>2. CASE Crash(r)
    BY <2>2 DEF Crash, Fault, IdleTask, Task, Pcs
  <2> QED
    BY <1>3, <2>1, <2>2
<1>4. ASSUME NEW r \in Runners, NEW e \in Effects,
             Run(r, e) \/ RenewalRefused(r, e) \/ CallFails(r, e)
      PROVE TypeOK'
  <2>0. row[e] \in Row /\ task[r][e] \in Task /\ resource[e] \in Nat
    OBVIOUS
  <2>1. CASE RequireOwnership(r, e)
    <3>1. AfterOwnership(Pc(r, e)) \in Pcs /\ "idle" \in Pcs
      BY <2>1 DEF RequireOwnership, AfterOwnership, OwnPcs, CheckPcs, Pcs
    <3>2. TaskType' /\ faults' \in 0..MaxFaults
      BY <2>1, <3>1, AnsweredType DEF RequireOwnership
    <3> QED
      BY <2>1, <3>2 DEF RequireOwnership, TaskType
  <2>2. CASE ReadGeneration(r, e)
    <3>1. TaskType' /\ faults' \in 0..MaxFaults
      BY <2>2, AnsweredType DEF ReadGeneration, Pcs, OwnPcs, CheckPcs
    <3> QED
      BY <2>0, <2>2, <3>1 DEF ReadGeneration, TaskType
  <2>3. CASE PersistCalling(r, e)
    <3>0. [row[e] EXCEPT !.state = "calling"] \in Row
      BY <2>0 DEF Row, States, Active
    <3>1. RowType'
      BY <2>3, <3>0 DEF PersistCalling, RowType
    <3>2. TaskType' /\ faults' \in 0..MaxFaults
      BY <2>3, AnsweredType DEF PersistCalling, Pcs, OwnPcs, CheckPcs
    <3> QED
      BY <2>3, <3>1, <3>2 DEF PersistCalling, RowType, TaskType
  <2>4. CASE CheckGeneration(r, e)
    <3>1. TaskType' /\ faults' \in 0..MaxFaults
      BY <2>4, AnsweredType DEF CheckGeneration, Pcs, AfterCurrent, CheckPcs, OwnPcs
    <3> QED
      BY <2>0, <2>4, <3>1 DEF CheckGeneration, TaskType
  <2>5. CASE Adopt(r, e)
    <3>1. TaskType' /\ faults' \in 0..MaxFaults
      BY <2>5, AnsweredType DEF Adopt, Pcs, OwnPcs, CheckPcs
    <3> QED
      BY <2>0, <2>5, <3>1 DEF Adopt, TaskType
  <2>6. CASE Execute(r, e)
    <3>1. TaskType' /\ faults' \in 0..MaxFaults
      BY <2>6, AnsweredType DEF Execute, Pcs, OwnPcs, CheckPcs
    <3> QED
      BY <2>0, <2>6, <3>1 DEF Execute, TaskType
  <2>7. CASE Land(r, e)
    <3>1. TaskType' /\ faults' \in 0..MaxFaults
      BY <2>7, AnsweredType DEF Land, Pcs, OwnPcs, CheckPcs
    <3> QED
      BY <2>0, <2>7, <3>1 DEF Land, TaskType
  <2>8. CASE Answer(r, e)
    <3>1. TaskType' /\ faults' \in 0..MaxFaults
      BY <2>8, AnsweredType DEF Answer, Pcs, OwnPcs, CheckPcs
    <3> QED
      BY <2>0, <2>8, <3>1 DEF Answer, TaskType
  <2>9. CASE MarkApplied(r, e)
    <3>1. [row[e] EXCEPT !.state = "applied"] \in Row
      BY <2>0 DEF Row, States, Active
    <3>2. RowType'
      BY <2>9, <3>1 DEF MarkApplied, RowType
    <3>3. TaskType' /\ faults' \in 0..MaxFaults
      BY <2>9, AnsweredType DEF MarkApplied, Pcs, OwnPcs, CheckPcs
    <3> QED
      BY <2>9, <3>2, <3>3 DEF MarkApplied, RowType, TaskType
  <2>10. CASE MarkDone(r, e)
    <3>1. RowType'
      BY <2>0, <2>10 DEF MarkDone, RowType, Row, States, Active, Settled
    <3>2. TaskType' /\ faults' \in 0..MaxFaults
      BY <2>10, AnsweredType DEF MarkDone, Pcs, OwnPcs, CheckPcs
    <3> QED
      BY <2>10, <3>1, <3>2 DEF MarkDone, RowType, TaskType
  <2>11. CASE MarkCompensating(r, e)
    <3>1. RowType'
      BY <2>0, <2>11 DEF MarkCompensating, RowType, Row, States, Active, Settled
    <3>2. TaskType' /\ faults' \in 0..MaxFaults
      BY <2>11, AnsweredType DEF MarkCompensating, Pcs, OwnPcs, CheckPcs
    <3> QED
      BY <2>11, <3>1, <3>2 DEF MarkCompensating, RowType, TaskType
  <2>12. CASE Compensate(r, e)
    <3>1. TaskType' /\ faults' \in 0..MaxFaults
      BY <2>12, AnsweredType DEF Compensate, Pcs, OwnPcs, CheckPcs
    <3> QED
      BY <2>0, <2>12, <3>1 DEF Compensate, TaskType
  <2>13. CASE Catch(r, e)
    <3>1. TaskType' /\ faults' \in 0..MaxFaults
      BY <2>13, AnsweredType DEF Catch, Pcs, OwnPcs, CheckPcs
    <3> QED
      BY <2>0, <2>13, <3>1 DEF Catch, TaskType
  <2>14. CASE AdoptCaught(r, e)
    <3>1. TaskType' /\ faults' \in 0..MaxFaults
      BY <2>14, AnsweredType DEF AdoptCaught, Pcs, OwnPcs, CheckPcs
    <3> QED
      BY <2>0, <2>14, <3>1 DEF AdoptCaught, TaskType
  <2>15. CASE MarkFailed(r, e)
    <3>1. RowType'
      BY <2>0, <2>15 DEF MarkFailed, RowType, Row, States, Active, Settled
    <3>2. TaskType' /\ faults' \in 0..MaxFaults
      BY <2>15, AnsweredType DEF MarkFailed, Pcs, OwnPcs, CheckPcs
    <3> QED
      BY <2>15, <3>1, <3>2 DEF MarkFailed, RowType, TaskType
  <2>16. CASE RenewalRefused(r, e)
    <3>1. [task[r][e] EXCEPT !.lost = TRUE] \in Task
      BY <2>0 DEF Task
    <3> QED
      BY <2>16, <3>1 DEF RenewalRefused, Fault
  <2>17. CASE CallFails(r, e)
    BY <2>17, TaskUpdates DEF CallFails, Fault, TaskType
  <2> QED
    BY <1>4, <2>1, <2>2, <2>3, <2>4, <2>5, <2>6, <2>7, <2>8, <2>9, <2>10, <2>11, <2>12, <2>13, <2>14, <2>15, <2>16, <2>17 DEF Run
<1>5. CASE UNCHANGED vars
  BY <1>5 DEF vars
<1> QED
  BY <1>1, <1>2, <1>3, <1>4, <1>5 DEF Next

\* TypeOK holds initially.
LEMMA TypeInit == Init => TypeOK
BY RunnersAssumption, FaultsAssumption, GenerationAssumption
   DEF Init, TypeOK, Row, States, Active, Settled, Task, IdleTask, Pcs

\* The variables stay in their types: every row, task and counter of the runner.
THEOREM TypeCorrect == Spec => []TypeOK
BY TypeInit, TypeStep, PTL DEF Spec

-----------------------------------------------------------------------------
(* What one step can change *)

TaskStep(r, e) == Run(r, e) \/ RenewalRefused(r, e) \/ CallFails(r, e)

\* A task's step leaves every other task and every other effect alone.
LEMMA TaskStepFrame ==
  ASSUME TypeOK, NEW r \in Runners, NEW e \in Effects, TaskStep(r, e)
  PROVE  /\ UNCHANGED <<generation, gate>>
         /\ \A f \in Effects \ {e} :
              row'[f] = row[f] /\ resource'[f] = resource[f] /\ stray'[f] = stray[f]
         /\ \A s \in Runners, f \in Effects :
              s # r \/ f # e => task'[s][f] = task[s][f]
<1> USE DEF TypeOK
<1>1. \A p : Goto(r, e, p) \/ Answered(r, e, p) =>
        \A s \in Runners, f \in Effects : s # r \/ f # e => task'[s][f] = task[s][f]
  BY DEF Goto, Answered
<1>2. CASE RenewalRefused(r, e) \/ CallFails(r, e)
  BY <1>2 DEF RenewalRefused, CallFails
<1>3. CASE Run(r, e)
  <2>1. UNCHANGED <<generation, gate>>
    BY <1>3 DEF Run, RequireOwnership, ReadGeneration, PersistCalling, CheckGeneration, Adopt,
         Execute, Land, Answer, MarkApplied, MarkDone, MarkCompensating, Compensate, Catch,
         AdoptCaught, MarkFailed
  <2>2. \A f \in Effects \ {e} :
          row'[f] = row[f] /\ resource'[f] = resource[f] /\ stray'[f] = stray[f]
    BY <1>3 DEF Run, RequireOwnership, ReadGeneration, PersistCalling, CheckGeneration, Adopt,
         Execute, Land, Answer, MarkApplied, MarkDone, MarkCompensating, Compensate, Catch,
         AdoptCaught, MarkFailed
  <2>3. \A s \in Runners, f \in Effects : s # r \/ f # e => task'[s][f] = task[s][f]
    BY <1>1, <1>3 DEF Run, RequireOwnership, ReadGeneration, PersistCalling, CheckGeneration,
         Adopt, Execute, Land, Answer, MarkApplied, MarkDone, MarkCompensating, Compensate,
         Catch, AdoptCaught, MarkFailed
  <2> QED
    BY <2>1, <2>2, <2>3
<1> QED
  BY <1>2, <1>3 DEF TaskStep

\* Where a task's step can take its own row: an owner writes it, and a row that
\* is not active, or belongs to another runner, stays as it is.
LEMMA TaskStepRow ==
  ASSUME TypeOK, RowsWellFormed, NEW r \in Runners, NEW e \in Effects, TaskStep(r, e)
  PROVE  \/ row'[e] = row[e]
         \/ /\ row[e].owner = r
            /\ row'[e].generation = row[e].generation
            /\ row'[e].state \in Active => row'[e].state # "planned"
            /\ row'[e].state \in Settled => row'[e].owner = NoOwner /\ row'[e].lease = "none"
            /\ row'[e].state # "absent"
            /\ task'[r][e].pc # task[r][e].pc
<1> USE RunnersAssumption DEF TypeOK, RowsWellFormed, Row, States, Active, Settled
<1>0. row[e] \in Row
  OBVIOUS
<1>1. \A p \in Pcs : Answered(r, e, p) => task'[r][e].pc \in {p, "catch", "idle"}
  BY DEF Answered, Goto, At, Thrown, IdleTask
<1>2. CASE PersistCalling(r, e)
  <2>1. task'[r][e].pc # task[r][e].pc
    <3>1. \E p \in {"own_call", "fence", "idle"} : Answered(r, e, p)
      BY <1>2 DEF PersistCalling
    <3>2. task'[r][e].pc \in {"own_call", "fence", "catch", "idle"}
      BY <1>1, <3>1 DEF Pcs, OwnPcs
    <3> QED
      BY <1>2, <3>2 DEF PersistCalling, Pc
  <2>2. CASE row' = row
    BY <2>2
  <2>3. CASE row' = [row EXCEPT ![e].state = "calling"] /\ row[e].owner = r
    <3>1. row'[e] = [row[e] EXCEPT !.state = "calling"]
      BY <2>3
    <3>2. row'[e].state = "calling" /\ row'[e].generation = row[e].generation
      BY <1>0, <3>1
    <3> QED
      BY <2>1, <2>3, <3>2
  <2> QED
    BY <1>2, <2>2, <2>3 DEF PersistCalling
<1>3. CASE MarkApplied(r, e)
  <2>1. task'[r][e].pc # task[r][e].pc
    BY <1>1, <1>3 DEF MarkApplied, Pcs, OwnPcs, CheckPcs, Pc
  <2>2. CASE row' = row
    BY <2>2
  <2>3. CASE row' = [row EXCEPT ![e].state = "applied"] /\ row[e].owner = r
    <3>1. row'[e] = [row[e] EXCEPT !.state = "applied"]
      BY <2>3
    <3>2. row'[e].state = "applied" /\ row'[e].generation = row[e].generation
      BY <1>0, <3>1
    <3> QED
      BY <2>1, <2>3, <3>2
  <2> QED
    BY <1>3, <2>2, <2>3 DEF MarkApplied, Owns
<1>4. CASE MarkDone(r, e)
  <2>1. task'[r][e].pc # task[r][e].pc
    BY <1>1, <1>4 DEF MarkDone, Pcs, Pc
  <2> QED
    BY <1>4, <2>1 DEF MarkDone, Renewable, Owns
<1>5. CASE MarkCompensating(r, e)
  <2>1. task'[r][e].pc # task[r][e].pc
    BY <1>1, <1>5 DEF MarkCompensating, Pcs, OwnPcs, Pc
  <2> QED
    BY <1>5, <2>1 DEF MarkCompensating, Owns
<1>6. CASE MarkFailed(r, e)
  <2>1. task'[r][e].pc # task[r][e].pc
    BY <1>1, <1>6 DEF MarkFailed, Pcs, Pc
  <2>2. CASE row' = row
    BY <2>2
  <2>3. CASE /\ row[e].owner = r
             /\ row'[e] = [row[e] EXCEPT !.state = "failed", !.owner = NoOwner, !.lease = "none"]
    <3>1. /\ row'[e].state = "failed" /\ row'[e].owner = NoOwner /\ row'[e].lease = "none"
          /\ row'[e].generation = row[e].generation
      BY <1>0, <2>3
    <3> QED
      BY <2>1, <2>3, <3>1
  <2>4. CASE /\ row[e].owner = r
             /\ row'[e] = [row[e] EXCEPT !.state = "calling", !.owner = NoOwner, !.lease = "live"]
    <3>1. row'[e].state = "calling" /\ row'[e].generation = row[e].generation
      BY <1>0, <2>4
    <3> QED
      BY <2>1, <2>4, <3>1
  <2> QED
    BY <1>6, <2>2, <2>3, <2>4 DEF MarkFailed
<1>7. CASE UNCHANGED row
  BY <1>7
<1> QED
  BY <1>2, <1>3, <1>4, <1>5, <1>6, <1>7
     DEF TaskStep, Run, RenewalRefused, CallFails, RequireOwnership, ReadGeneration,
         CheckGeneration, Adopt, Execute, Land, Answer, Compensate, Catch, AdoptCaught

\* Rows stay well formed: planned once, in a generation that exists, and without
\* an owner unless they are active.
LEMMA RowsStep == TypeOK /\ RowsWellFormed /\ [Next]_vars => RowsWellFormed'
<1> SUFFICES ASSUME TypeOK, RowsWellFormed, [Next]_vars PROVE RowsWellFormed'
  OBVIOUS
<1> USE GenerationAssumption DEF TypeOK, RowsWellFormed
<1>0. \A e \in Effects : row[e] \in Row
  OBVIOUS
<1>1. CASE BumpGeneration
  BY <1>0, <1>1 DEF BumpGeneration, Row
<1>2. ASSUME NEW e \in Effects, Environment(e) PROVE RowsWellFormed'
  <2>1. CASE Plan(e)
    <3>1. PICK g \in 1..generation :
            row' = [row EXCEPT ![e] = [@ EXCEPT !.state = "planned", !.generation = g]]
      BY <2>1 DEF Plan
    <3> QED
      BY <1>0, <2>1, <3>1 DEF Plan, Row, Active
  <2>2. CASE GateOpens(e) \/ StrayLands(e)
    BY <2>2 DEF GateOpens, StrayLands
  <2>3. CASE LeaseExpires(e) \/ LeaseLost(e)
    <3>1. row' = [row EXCEPT ![e].lease = "expired"] /\ generation' = generation
      BY <2>3 DEF LeaseExpires, LeaseLost
    <3>2. row[e].state \in Active
      BY <2>3 DEF LeaseExpires, LeaseLost
    <3>3. row'[e].state = row[e].state /\ row'[e].generation = row[e].generation
      BY <1>0, <3>1 DEF Row
    <3>4. \A f \in Effects \ {e} : row'[f] = row[f]
      BY <3>1
    <3> QED
      BY <3>1, <3>2, <3>3, <3>4
  <2> QED
    BY <1>2, <2>1, <2>2, <2>3 DEF Environment
<1>3. ASSUME NEW r \in Runners, Claim(r) \/ Crash(r) PROVE RowsWellFormed'
  <2>1. CASE Claim(r)
    <3>1. PICK S \in SUBSET {e \in Effects : Claimable(e)} :
            row' = [e \in Effects |->
              IF e \in S THEN [row[e] EXCEPT !.owner = r, !.lease = "live"] ELSE row[e]]
      BY <2>1 DEF Claim
    <3>2. ASSUME NEW e \in S PROVE row[e].state \in Active
      BY DEF Claimable
    <3>3. ASSUME NEW e \in Effects
          PROVE  row'[e].state = row[e].state /\ row'[e].generation = row[e].generation
      BY <1>0, <3>1 DEF Row
    <3>4. \A e \in Effects \ S : row'[e] = row[e]
      BY <3>1
    <3> QED
      BY <2>1, <3>2, <3>3, <3>4 DEF Claim
  <2>2. CASE Crash(r)
    BY <2>2 DEF Crash
  <2> QED
    BY <1>3, <2>1, <2>2
<1>4. ASSUME NEW r \in Runners, NEW e \in Effects, TaskStep(r, e) PROVE RowsWellFormed'
  <2>1. generation' = generation /\ \A f \in Effects \ {e} : row'[f] = row[f]
    BY <1>4, TaskStepFrame
  <2>2. TypeOK'
    BY <1>4, TypeStep DEF TaskStep, Next
  <2>3. row'[e] \in Row
    BY <2>2
  <2> QED
    BY <1>0, <1>4, <2>1, <2>3, TaskStepRow, RunnersAssumption DEF Row, States, Active, Settled
<1>5. CASE UNCHANGED vars
  BY <1>5 DEF vars
<1> QED
  BY <1>1, <1>2, <1>3, <1>4, <1>5 DEF Next, TaskStep

\* No step changes the row of an effect that is done or failed.
LEMMA SettledStep ==
  ASSUME TypeOK, RowsWellFormed, [Next]_vars, NEW e \in Effects, row[e].state \in Settled
  PROVE  row'[e] = row[e]
<1> USE DEF TypeOK, RowsWellFormed
<1>0. row[e] \in Row /\ row[e].owner = NoOwner /\ row[e].lease = "none"
  BY DEF Active, Settled
<1>1. CASE BumpGeneration
  BY <1>1 DEF BumpGeneration
<1>2. ASSUME NEW f \in Effects, Environment(f) PROVE row'[e] = row[e]
  BY <1>0, <1>2 DEF Environment, Plan, GateOpens, LeaseExpires, LeaseLost, StrayLands, Settled
<1>3. ASSUME NEW r \in Runners, Claim(r) \/ Crash(r) PROVE row'[e] = row[e]
  BY <1>0, <1>3 DEF Claim, Claimable, Crash, Active, Settled
<1>4. ASSUME NEW r \in Runners, NEW f \in Effects, TaskStep(r, f) PROVE row'[e] = row[e]
  BY <1>0, <1>4, TaskStepFrame, TaskStepRow, RunnersAssumption
<1>5. CASE UNCHANGED vars
  BY <1>5 DEF vars
<1> QED
  BY <1>1, <1>2, <1>3, <1>4, <1>5 DEF Next, TaskStep

\* How a task reaches the positions from which it may call: one step before it
\* stood at the position before, and passed the comparison of generations.
LEMMA TaskStepPc ==
  ASSUME TypeOK, NEW r \in Runners, NEW e \in Effects, TaskStep(r, e)
  PROVE  LET p == task[r][e].pc
             q == task'[r][e].pc
         IN  /\ q # "idle" => p # "idle"
             /\ q = p \/ q \notin {"seen_planned", "seen_calling"}
             /\ q = p \/ (q = "persist" => p \in {"seen_planned", "seen_calling"})
             /\ q = p \/ (q = "own_call" => p = "persist")
             /\ q = p \/ (q = "check_call" => p = "own_call")
             /\ q = p \/ (q = "adopt" => p = "check_call" /\ ~Stale(e))
             /\ q = p \/ (q = "execute" => p = "adopt")
             /\ q = p \/ (q = "sent" => p = "execute")
             /\ q = p \/ (q = "landed" => p = "sent")
<1> USE DEF TypeOK, Pc
<1>0. task[r][e] \in Task
  OBVIOUS
<1>1. \A p \in Pcs : Goto(r, e, p) => task'[r][e].pc = p
  BY DEF Goto, At, IdleTask
<1>2. \A p \in Pcs : Answered(r, e, p) => task'[r][e].pc \in {p, "catch", "idle"}
  BY <1>1 DEF Answered, Thrown, IdleTask
<1>3. CASE RenewalRefused(r, e) \/ CallFails(r, e)
  <2>1. CASE RenewalRefused(r, e)
    <3>1. task'[r][e] = [task[r][e] EXCEPT !.lost = TRUE]
      BY <2>1 DEF RenewalRefused
    <3>2. task'[r][e].pc = task[r][e].pc
      BY <1>0, <3>1 DEF Task
    <3> QED
      BY <3>2
  <2>2. CASE CallFails(r, e)
    BY <2>2 DEF CallFails, Thrown, IdleTask
  <2> QED
    BY <1>3, <2>1, <2>2
<1>4. CASE RequireOwnership(r, e)
  BY <1>1, <1>4 DEF RequireOwnership, AfterOwnership, OwnPcs, Pcs, CheckPcs
<1>5. CASE CheckGeneration(r, e)
  BY <1>1, <1>5 DEF CheckGeneration, AfterCurrent, OwnPcs, Pcs, CheckPcs
<1>6. CASE ReadGeneration(r, e)
  BY <1>1, <1>6 DEF ReadGeneration, OwnPcs, Pcs
<1>7. CASE Adopt(r, e) \/ Execute(r, e) \/ Land(r, e) \/ Answer(r, e) \/ Catch(r, e)
           \/ AdoptCaught(r, e)
  BY <1>1, <1>7 DEF Adopt, Execute, Land, Answer, Catch, AdoptCaught, OwnPcs, Pcs
<1>8. CASE PersistCalling(r, e)
  BY <1>2, <1>8 DEF PersistCalling, OwnPcs, Pcs
<1>9. CASE MarkApplied(r, e) \/ MarkDone(r, e) \/ MarkCompensating(r, e) \/ Compensate(r, e)
           \/ MarkFailed(r, e)
  BY <1>2, <1>9 DEF MarkApplied, MarkDone, MarkCompensating, Compensate, MarkFailed,
     OwnPcs, CheckPcs, Pcs
<1> QED
  BY <1>3, <1>4, <1>5, <1>6, <1>7, <1>8, <1>9 DEF TaskStep, Run

\* Writing a lease leaves the state, the generation and the reason of a row alone.
LEMMA LeasesKeepState ==
  ASSUME TypeOK, NEW e \in Effects,
         \/ \E f \in Effects : LeaseExpires(f) \/ LeaseLost(f)
         \/ \E r \in Runners : Claim(r) \/ Crash(r)
  PROVE  /\ row'[e].state = row[e].state /\ row'[e].generation = row[e].generation
         /\ row'[e].fenced = row[e].fenced
<1>0. row[e] \in Row
  BY DEF TypeOK
<1>1. CASE row'[e] = row[e]
  BY <1>1
<1>2. CASE row'[e] = [row[e] EXCEPT !.lease = "expired"]
  BY <1>0, <1>2 DEF Row
<1>3. ASSUME NEW r \in Runners, row'[e] = [row[e] EXCEPT !.owner = r, !.lease = "live"]
      PROVE  /\ row'[e].state = row[e].state /\ row'[e].generation = row[e].generation
             /\ row'[e].fenced = row[e].fenced
  BY <1>0, <1>3 DEF Row
<1>4. ASSUME NEW f \in Effects, LeaseExpires(f) \/ LeaseLost(f)
      PROVE  row'[e] = row[e] \/ row'[e] = [row[e] EXCEPT !.lease = "expired"]
  BY <1>4 DEF LeaseExpires, LeaseLost, TypeOK
<1>5. ASSUME NEW r \in Runners, Claim(r) \/ Crash(r)
      PROVE  row'[e] = row[e] \/ row'[e] = [row[e] EXCEPT !.owner = r, !.lease = "live"]
  BY <1>5 DEF Claim, Crash
<1> QED
  BY <1>1, <1>2, <1>3, <1>4, <1>5

\* Once planned, a row stays planned, in the generation it was planned in.
LEMMA PlannedStep ==
  ASSUME TypeOK, RowsWellFormed, [Next]_vars, NEW e \in Effects, row[e].state # "absent"
  PROVE  row'[e].state # "absent" /\ row'[e].generation = row[e].generation
<1> USE DEF TypeOK
<1>0. row[e] \in Row
  OBVIOUS
<1>1. CASE BumpGeneration
  BY <1>1 DEF BumpGeneration
<1>2. ASSUME NEW f \in Effects, Environment(f)
      PROVE  row'[e].state # "absent" /\ row'[e].generation = row[e].generation
  <2>1. CASE Plan(f)
    BY <2>1 DEF Plan
  <2>2. CASE GateOpens(f) \/ StrayLands(f)
    BY <2>2 DEF GateOpens, StrayLands
  <2>3. CASE LeaseExpires(f) \/ LeaseLost(f)
    BY <2>3, LeasesKeepState
  <2> QED
    BY <1>2, <2>1, <2>2, <2>3 DEF Environment
<1>3. ASSUME NEW r \in Runners, Claim(r) \/ Crash(r)
      PROVE  row'[e].state # "absent" /\ row'[e].generation = row[e].generation
  BY <1>3, LeasesKeepState
<1>4. ASSUME NEW r \in Runners, NEW f \in Effects, TaskStep(r, f)
      PROVE  row'[e].state # "absent" /\ row'[e].generation = row[e].generation
  BY <1>4, TaskStepFrame, TaskStepRow
<1>5. CASE UNCHANGED vars
  BY <1>5 DEF vars
<1> QED
  BY <1>1, <1>2, <1>3, <1>4, <1>5 DEF Next, TaskStep

\* A fenced row stays fenced: generations only grow.
LEMMA StaleStep ==
  ASSUME TypeOK, RowsWellFormed, [Next]_vars, NEW e \in Effects, row[e].state # "absent",
         Stale(e)
  PROVE  Stale(e)'
<1>1. row'[e].generation = row[e].generation
  BY PlannedStep
<1>2. row[e].generation \in Nat /\ generation \in Nat /\ row[e].generation < generation
  <2>1. row[e] \in Row /\ generation \in Nat
    BY GenerationAssumption DEF TypeOK
  <2>2. row[e].generation \in Nat
    BY <2>1, GenerationAssumption DEF Row
  <2> QED
    BY <2>1, <2>2 DEF RowsWellFormed, Stale
<1>3. generation' \in {generation, generation + 1}
  <2>1. ASSUME NEW f \in Effects, Environment(f) PROVE generation' = generation
    BY <2>1 DEF Environment, Plan, GateOpens, LeaseExpires, LeaseLost, StrayLands
  <2>2. ASSUME NEW r \in Runners, Claim(r) \/ Crash(r) PROVE generation' = generation
    BY <2>2 DEF Claim, Crash
  <2>3. ASSUME NEW r \in Runners, NEW f \in Effects, TaskStep(r, f)
        PROVE  generation' = generation
    BY <2>3, TaskStepFrame
  <2> QED
    BY <2>1, <2>2, <2>3 DEF Next, TaskStep, BumpGeneration, vars
<1> QED
  BY <1>1, <1>2, <1>3 DEF Stale

\* A caller's dependencies are done, or its row is stale and it has yet to see so.
LEMMA CallersStep == SafetyInv /\ [Next]_vars => CallersEligible'
<1> SUFFICES ASSUME SafetyInv, [Next]_vars PROVE CallersEligible'
  OBVIOUS
<1> USE DEF SafetyInv
<1> DEFINE Early == {"seen_planned", "seen_calling", "persist", "own_call", "check_call"}
           Late  == {"adopt", "execute", "sent", "landed"}
           Good(s, f) == /\ Pc(s, f)' # "idle" => row'[f].state # "absent"
                         /\ Pc(s, f)' \in Early => Stale(f)' \/ DepsDone(f)'
                         /\ Pc(s, f)' \in Late => DepsDone(f)'
<1>1. ASSUME NEW e \in Effects, row[e].state # "absent"
      PROVE  row'[e].state # "absent" /\ (Stale(e) => Stale(e)')
  BY <1>1, PlannedStep, StaleStep
<1>2. ASSUME NEW e \in Effects, DepsDone(e) PROVE DepsDone(e)'
  <2>1. \A d \in Deps[e] : d \in Effects /\ row[d].state = "done"
    BY <1>2, DepsAssumption DEF DepsDone
  <2>2. \A d \in Deps[e] : row'[d] = row[d]
    BY <2>1, SettledStep DEF Settled
  <2> QED
    BY <2>1, <2>2 DEF DepsDone
<1>3. ASSUME NEW s \in Runners, NEW f \in Effects, Pc(s, f)' = Pc(s, f)
      PROVE  Good(s, f)
  BY <1>1, <1>2, <1>3 DEF CallersEligible
<1>4. ASSUME NEW s \in Runners, NEW f \in Effects, NEW r \in Runners, Claim(r)
      PROVE  Good(s, f)
  <2>1. PICK S \in SUBSET {e \in Effects : Claimable(e)} :
          /\ row' = [e \in Effects |->
                IF e \in S THEN [row[e] EXCEPT !.owner = r, !.lease = "live"] ELSE row[e]]
          /\ task' = [task EXCEPT ![r] = [e \in Effects |->
                IF e \in S THEN [pc |-> SeenAs(row[e].state), lost |-> FALSE, guarded |-> FALSE]
                ELSE IdleTask]]
    BY <1>4 DEF Claim
  <2>2. CASE s # r
    BY <1>3, <2>1, <2>2 DEF TypeOK, Pc
  <2>3. CASE s = r /\ f \notin S
    BY <2>1, <2>3 DEF TypeOK, Pc, IdleTask
  <2>4. CASE s = r /\ f \in S
    <3>1. Claimable(f)
      BY <2>4
    <3>2. Stale(f) \/ DepsDone(f)
      BY <3>1 DEF Claimable, DepsDone
    <3>3. row[f].state \in Active /\ row[f].state # "absent"
      BY <3>1 DEF Claimable, Active
    <3>4. Pc(s, f)' = SeenAs(row[f].state)
      BY <2>1, <2>4 DEF TypeOK, Pc
    <3>5. Pc(s, f)' \notin Late
      BY <3>3, <3>4 DEF SeenAs, Active
    <3> QED
      BY <1>1, <1>2, <3>2, <3>3, <3>5
  <2> QED
    BY <2>2, <2>3, <2>4
<1>5. ASSUME NEW s \in Runners, NEW f \in Effects, NEW r \in Runners, Crash(r)
      PROVE  Good(s, f)
  <2>1. CASE s # r
    BY <1>3, <1>5, <2>1 DEF TypeOK, Crash, Pc
  <2>2. CASE s = r
    BY <1>5, <2>2 DEF TypeOK, Crash, Pc, IdleTask
  <2> QED
    BY <2>1, <2>2
<1>6. ASSUME NEW s \in Runners, NEW f \in Effects, NEW r \in Runners, NEW e \in Effects,
             TaskStep(r, e)
      PROVE  Good(s, f)
  <2>1. CASE s # r \/ f # e
    BY <1>3, <1>6, <2>1, TaskStepFrame DEF Pc
  <2>2. CASE s = r /\ f = e
    BY <1>1, <1>2, <1>3, <1>6, <2>2, TaskStepPc DEF Pc, CallersEligible
  <2> QED
    BY <2>1, <2>2
<1>7. ASSUME NEW s \in Runners, NEW f \in Effects, UNCHANGED task PROVE Good(s, f)
  BY <1>3, <1>7 DEF Pc
<1>8. ASSUME NEW f \in Effects, Environment(f) PROVE UNCHANGED task
  BY <1>8 DEF Environment, Plan, GateOpens, LeaseExpires, LeaseLost, StrayLands
<1>9. \A s \in Runners, f \in Effects : Good(s, f)
  BY <1>4, <1>5, <1>6, <1>7, <1>8 DEF Next, TaskStep, BumpGeneration, vars
<1> QED
  BY <1>9 DEF CallersEligible

-----------------------------------------------------------------------------
(* The safety properties *)

LEMMA SafetyInit == Init => SafetyInv
BY TypeInit DEF Init, SafetyInv, RowsWellFormed, CallersEligible, Pc, IdleTask, Active

LEMMA SafetyStep == SafetyInv /\ [Next]_vars => SafetyInv'
BY TypeStep, RowsStep, CallersStep DEF SafetyInv

\* The inductive invariant holds of every reachable state.
THEOREM SafetyInvariant == Spec => []SafetyInv
BY SafetyInit, SafetyStep, PTL DEF Spec

\* A lookup or a request to the remote system is only ever made for an effect whose
\* dependencies are done, although the claim of a fenced row skips that check.
THEOREM RequestsRespectDeps == Spec => []RequestRespectsDeps
<1>1. SafetyInv => RequestRespectsDeps
  BY DEF SafetyInv, CallersEligible, RequestRespectsDeps, DepsDone
<1> QED
  BY <1>1, SafetyInvariant, PTL

\* No statement of any runner, however late, reopens a settled row.
THEOREM SettledStays == Spec => SettledIsFinal
<1>1. SafetyInv /\ [Next]_vars =>
        [\A e \in Effects : row[e].state \in Settled => row'[e] = row[e]]_vars
  BY SettledStep DEF SafetyInv
<1> QED
  BY <1>1, SafetyInvariant, PTL DEF Spec, SettledIsFinal

\* A row with a live lease is changed by its owner's task or by time, never by a
\* runner that held the lease before.
THEOREM OnlyOwnersWrite == Spec => OnlyOwnerWrites
<1> DEFINE Guarded == \A e \in Effects, r \in Runners :
       Owns(r, e) /\ row'[e] # row[e] =>
         \/ task'[r][e] # task[r][e]
         \/ row'[e] = [row[e] EXCEPT !.lease = "expired"]
<1>1. ASSUME SafetyInv, [Next]_vars, NEW e \in Effects, NEW r \in Runners, Owns(r, e),
             row'[e] # row[e]
      PROVE  task'[r][e] # task[r][e] \/ row'[e] = [row[e] EXCEPT !.lease = "expired"]
  <2> USE DEF SafetyInv, TypeOK
  <2>0. row[e].owner = r /\ row[e].lease = "live" /\ row[e].state \in Active
    BY <1>1, RunnersAssumption DEF Owns, RowsWellFormed
  <2>1. CASE BumpGeneration \/ UNCHANGED vars
    BY <1>1, <2>1 DEF BumpGeneration, vars
  <2>2. ASSUME NEW f \in Effects, Environment(f)
        PROVE  row'[e] = [row[e] EXCEPT !.lease = "expired"]
    BY <1>1, <2>0, <2>2 DEF Environment, Plan, GateOpens, StrayLands, LeaseExpires, LeaseLost,
       Active
  <2>3. ASSUME NEW s \in Runners, Claim(s) \/ Crash(s) PROVE FALSE
    BY <1>1, <2>0, <2>3 DEF Claim, Claimable, Crash
  <2>4. ASSUME NEW s \in Runners, NEW f \in Effects, TaskStep(s, f)
        PROVE  task'[r][e] # task[r][e]
    BY <1>1, <2>0, <2>4, TaskStepFrame, TaskStepRow
  <2> QED
    BY <1>1, <2>1, <2>2, <2>3, <2>4 DEF Next, TaskStep
<1>2. SafetyInv /\ [Next]_vars => [Guarded]_vars
  BY <1>1
<1> QED
  BY <1>2, SafetyInvariant, PTL DEF Spec, OnlyOwnerWrites
=============================================================================
