---------------------------- MODULE EffectRunner ----------------------------
(***************************************************************************)
(* The durable execution of external effects: rows of external_effects     *)
(* claimed, leased and driven by control-worker processes                  *)
(* (orchestration/effect-runner.ts over postgres-store/effects.ts) against *)
(* a remote system that is reached by calls which may fail, be answered    *)
(* late or land without an answer.                                         *)
(*                                                                         *)
(* A runner's task is one activation of EffectRunner.run for one row.  Its *)
(* program counter names the next await: every database statement and      *)
(* every remote call is a step of its own, and the local code up to the    *)
(* next await belongs to the step before it.                               *)
(***************************************************************************)
EXTENDS Naturals, FiniteSets

CONSTANTS
  Runners,        \* control-worker instances (RunnerOptions.owner)
  Effects,        \* rows that create one remote resource each
  Deps,           \* plan.dependsOnEffectId(s): [Effects -> SUBSET Effects]
  Colliding,      \* effects whose remote identity belongs to another request
  Drifted,        \* effects whose canonical request no longer has its hash
  CallsFitLease,  \* no lease ends between the ownership check and the answer,
                  \* and no request lands once its caller stopped waiting
  MaxGeneration,  \* bound on consultations.generation
  MaxBatch,       \* RunnerOptions.batchSize
  MaxFaults,      \* bound on crashes, failed calls and lost leases
  NoOwner         \* lease_owner IS NULL

ASSUME RunnersAssumption == NoOwner \notin Runners
ASSUME SomeRunnerAssumption == Runners # {}
ASSUME DepsAssumption == Deps \in [Effects -> SUBSET Effects]
ASSUME FaultsAssumption == MaxFaults \in Nat
ASSUME GenerationAssumption == MaxGeneration \in Nat \ {0}
ASSUME BatchAssumption == MaxBatch \in Nat \ {0}
ASSUME FitAssumption == CallsFitLease \in BOOLEAN

VARIABLES
  generation,  \* consultations.generation
  gate,        \* effects past notBeforeMs and waitForWorkerTerminal
  row,         \* external_effects, one record per effect
  task,        \* task[r][e]: the activation of run(e) in runner r
  resource,    \* remote resources that carry the effect's identity
  stray,       \* requests nobody waits for that may still land
  faults       \* faults that have happened

vars == <<generation, gate, row, task, resource, stray, faults>>

-----------------------------------------------------------------------------
Active  == {"planned", "calling", "applied", "compensating"}
Settled == {"done", "failed"}
States  == {"absent"} \cup Active \cup Settled

\* Where a task stands before requireOwnership, and where it goes after.
OwnPcs == {"own_call", "own_resume", "own_executed", "own_adopted", "own_collision",
           "own_applied", "own_rejected", "own_caught", "own_compensate", "own_compensated"}

AfterOwnership(p) ==
  CASE p = "own_call"        -> "check_call"
    [] p = "own_resume"      -> "check_resume"
    [] p = "own_executed"    -> "check_executed"
    [] p = "own_adopted"     -> "check_adopted"
    [] p = "own_collision"   -> "fail"
    [] p = "own_applied"     -> "done"
    [] p = "own_rejected"    -> "fence"
    [] p = "own_caught"      -> "fence"
    [] p = "own_compensate"  -> "compensate"
    [] p = "own_compensated" -> "done"

\* Where currentGeneration is compared with the row's, and where a current
\* effect goes from there.
CheckPcs == {"check_call", "check_resume", "check_executed", "check_adopted",
             "check_rejected"}

AfterCurrent(p) ==
  CASE p = "check_call"     -> "adopt"
    [] p = "check_resume"   -> "done"
    [] p = "check_executed" -> "apply"
    [] p = "check_adopted"  -> "apply"
    [] p = "check_rejected" -> "idle"

\* The state a claim returned decides where run() begins.
SeenAs(state) ==
  CASE state = "planned"      -> "seen_planned"
    [] state = "calling"      -> "seen_calling"
    [] state = "applied"      -> "own_resume"
    [] state = "compensating" -> "seen_compensating"

Pcs == OwnPcs \cup CheckPcs \cup
  {"idle", "seen_planned", "seen_calling", "seen_compensating", "persist",
   "persist_fence", "adopt", "execute", "sent", "landed", "apply", "done",
   "fence", "compensate", "catch", "adopt_caught", "fail", "retry"}

Task == [pc : Pcs, lost : BOOLEAN, guarded : BOOLEAN]

IdleTask == [pc |-> "idle", lost |-> FALSE, guarded |-> FALSE]

Row == [state : States, owner : Runners \cup {NoOwner},
        lease : {"none", "live", "expired"}, generation : 0..MaxGeneration,
        fenced : BOOLEAN]

\* Every row, task and count is one the tables and the process can hold; in
\* particular no deletion takes more resources away than there are.
TypeOK ==
  /\ generation \in 1..MaxGeneration
  /\ gate \in SUBSET Effects
  /\ row \in [Effects -> Row]
  /\ task \in [Runners -> [Effects -> Task]]
  /\ resource \in [Effects -> Nat]
  /\ stray \in [Effects -> Nat]
  /\ faults \in 0..MaxFaults

Init ==
  /\ generation = 1
  /\ gate = {}
  /\ row = [e \in Effects |-> [state |-> "absent", owner |-> NoOwner,
                               lease |-> "none", generation |-> 0, fenced |-> FALSE]]
  /\ task = [r \in Runners |-> [e \in Effects |-> IdleTask]]
  /\ resource = [e \in Effects |-> 0]
  /\ stray = [e \in Effects |-> 0]
  /\ faults = 0

-----------------------------------------------------------------------------
Stale(e) == row[e].generation # generation

Pc(r, e) == task[r][e].pc

\* The condition every owner-guarded statement repeats.
Owns(r, e) == row[e].owner = r /\ row[e].lease = "live"

Renewable(r, e) == Owns(r, e) /\ row[e].state \in {"calling", "applied", "compensating"}

\* Between the ownership check before a remote call and that call's answer.
InCall(r, e) == Pc(r, e) \in {"check_call", "adopt", "execute", "sent", "landed"}

\* No renewal timer runs before startLeaseRenewal.
Unmonitored == {"idle", "seen_planned", "seen_calling", "seen_compensating",
                "persist", "persist_fence"}

Fault == faults < MaxFaults /\ faults' = faults + 1

\* The task after its next await is p; the inner try opens at "adopt".
At(r, e, p) ==
  IF p = "idle" THEN IdleTask
  ELSE [pc |-> p, lost |-> task[r][e].lost,
        guarded |-> task[r][e].guarded \/ p = "adopt"]

\* The task after an await rejects: a LeaseLostError leaves run(), any other
\* error is caught by executeRemoteEffect if its try is open.
Thrown(r, e) ==
  IF task[r][e].guarded /\ Pc(r, e) \notin OwnPcs
  THEN [pc |-> "catch", lost |-> task[r][e].lost, guarded |-> FALSE]
  ELSE IdleTask

Goto(r, e, p) == task' = [task EXCEPT ![r][e] = At(r, e, p)] /\ UNCHANGED faults

\* A statement took effect; its answer arrives, or the caller sees an error.
Answered(r, e, p) ==
  \/ Goto(r, e, p)
  \/ Fault /\ task' = [task EXCEPT ![r][e] = Thrown(r, e)]

-----------------------------------------------------------------------------
(* The consultation around the effects *)

BumpGeneration ==
  /\ generation < MaxGeneration
  /\ generation' = generation + 1
  /\ UNCHANGED <<gate, row, task, resource, stray, faults>>

\* insertPlannedEffects does not compare the generation it is handed.
Plan(e) ==
  /\ row[e].state = "absent"
  /\ \E g \in 1..generation :
       row' = [row EXCEPT ![e] = [@ EXCEPT !.state = "planned", !.generation = g]]
  /\ UNCHANGED <<generation, gate, task, resource, stray, faults>>

GateOpens(e) ==
  /\ e \notin gate
  /\ gate' = gate \cup {e}
  /\ UNCHANGED <<generation, row, task, resource, stray, faults>>

-----------------------------------------------------------------------------
(* Leases *)

\* Mutants: the dependencies are not asked for; an applied row is left alone.
ClaimableBeforeDeps(e) ==
  row[e].state \in Active /\ row[e].lease # "live" /\ (Stale(e) \/ e \in gate)

ClaimableUnlessApplied(e) ==
  /\ row[e].state \in Active \ {"applied"}
  /\ row[e].lease # "live"
  /\ Stale(e) \/ (e \in gate /\ \A d \in Deps[e] : row[d].state = "done")

Claimable(e) ==
  /\ row[e].state \in Active
  /\ row[e].lease # "live"
  /\ \/ Stale(e)
     \/ e \in gate /\ \A d \in Deps[e] : row[d].state = "done"

\* tick claims only after the barrier over the previous claim's tasks.
Claim(r) ==
  /\ \A e \in Effects : Pc(r, e) = "idle"
  /\ \E S \in SUBSET {e \in Effects : Claimable(e)} :
       /\ Cardinality(S) \in 1..MaxBatch
       /\ row' = [e \in Effects |->
                    IF e \in S THEN [row[e] EXCEPT !.owner = r, !.lease = "live"]
                    ELSE row[e]]
       /\ task' = [task EXCEPT ![r] = [e \in Effects |->
                    IF e \in S THEN [pc |-> SeenAs(row[e].state), lost |-> FALSE, guarded |-> FALSE]
                    ELSE IdleTask]]
  /\ UNCHANGED <<generation, gate, resource, stray, faults>>

\* Time passes for a row nobody works on: a back-off, or an owner that stopped.
LeaseExpires(e) ==
  /\ row[e].lease = "live"
  /\ row[e].owner \in Runners => Pc(row[e].owner, e) = "idle"
  /\ row' = [row EXCEPT ![e].lease = "expired"]
  /\ UNCHANGED <<generation, gate, task, resource, stray, faults>>

\* The owner stalls, or its renewals do not get through, for a whole lease.
LeaseLost(e) ==
  /\ row[e].lease = "live"
  /\ row[e].owner \in Runners
  /\ Pc(row[e].owner, e) # "idle"
  /\ ~(CallsFitLease /\ InCall(row[e].owner, e))
  /\ Fault
  /\ row' = [row EXCEPT ![e].lease = "expired"]
  /\ UNCHANGED <<generation, gate, task, resource, stray>>

\* The renewal timer is refused, or its statement fails.
RenewalRefused(r, e) ==
  /\ Pc(r, e) \notin Unmonitored
  /\ ~task[r][e].lost
  /\ \/ ~Renewable(r, e) /\ UNCHANGED faults
     \/ Fault
  /\ task' = [task EXCEPT ![r][e] = [@ EXCEPT !.lost = TRUE]]
  /\ UNCHANGED <<generation, gate, row, resource, stray>>

RequireOwnership(r, e) ==
  /\ Pc(r, e) \in OwnPcs
  /\ Goto(r, e, IF task[r][e].lost \/ ~Renewable(r, e) THEN "idle"
                ELSE AfterOwnership(Pc(r, e)))
  /\ UNCHANGED <<generation, gate, row, resource, stray>>

-----------------------------------------------------------------------------
(* run() *)

\* run's first read of the generation, and the hash check that follows it.
ReadGeneration(r, e) ==
  /\ \/ Pc(r, e) = "seen_compensating" /\ Goto(r, e, "own_compensate")
     \/ Pc(r, e) = "seen_planned" /\ Goto(r, e, IF Stale(e) THEN "persist_fence" ELSE "persist")
     \/ Pc(r, e) = "seen_calling"
        /\ Goto(r, e, IF Stale(e) THEN "fence" ELSE IF e \in Drifted THEN "fail" ELSE "persist")
  /\ UNCHANGED <<generation, gate, row, resource, stray>>

PersistCalling(r, e) ==
  /\ Pc(r, e) \in {"persist", "persist_fence"}
  /\ IF row[e].owner = r /\ row[e].state \in {"planned", "calling"}
     THEN /\ row' = [row EXCEPT ![e].state = "calling"]
          /\ Answered(r, e, IF Pc(r, e) = "persist" THEN "own_call" ELSE "fence")
     ELSE Answered(r, e, "idle") /\ UNCHANGED row
  /\ UNCHANGED <<generation, gate, resource, stray>>

CheckGeneration(r, e) ==
  /\ Pc(r, e) \in CheckPcs
  /\ Goto(r, e, IF ~Stale(e) THEN AfterCurrent(Pc(r, e))
                ELSE IF Pc(r, e) = "check_rejected" THEN "own_rejected" ELSE "fence")
  /\ UNCHANGED <<generation, gate, row, resource, stray>>

\* remote.adopt: the resource under this identity, if any, and whose it is.
Adopt(r, e) ==
  /\ Pc(r, e) = "adopt"
  /\ Goto(r, e, IF e \in Colliding THEN "own_collision"
                ELSE IF resource[e] > 0 THEN "own_adopted" ELSE "execute")
  /\ UNCHANGED <<generation, gate, row, resource, stray>>

Execute(r, e) ==
  /\ Pc(r, e) = "execute"
  /\ Goto(r, e, "sent")
  /\ UNCHANGED <<generation, gate, row, resource, stray>>

Land(r, e) ==
  /\ Pc(r, e) = "sent"
  /\ Goto(r, e, "landed")
  /\ resource' = [resource EXCEPT ![e] = @ + 1]
  /\ UNCHANGED <<generation, gate, row, stray>>

Answer(r, e) ==
  /\ Pc(r, e) = "landed"
  /\ Goto(r, e, "own_executed")
  /\ UNCHANGED <<generation, gate, row, resource, stray>>

MarkApplied(r, e) ==
  /\ Pc(r, e) = "apply"
  /\ IF Owns(r, e) /\ row[e].state = "calling" /\ ~Stale(e)
     THEN row' = [row EXCEPT ![e].state = "applied"] /\ Answered(r, e, "own_applied")
     ELSE Answered(r, e, "check_rejected") /\ UNCHANGED row
  /\ UNCHANGED <<generation, gate, resource, stray>>

\* Mutant: the settled row keeps its owner and its lease.
MarkDoneKeepsOwner(r, e) ==
  /\ Pc(r, e) = "done"
  /\ row' = IF Renewable(r, e) THEN [row EXCEPT ![e].state = "done"] ELSE row
  /\ Answered(r, e, "idle")
  /\ UNCHANGED <<generation, gate, resource, stray>>

MarkDone(r, e) ==
  /\ Pc(r, e) = "done"
  /\ row' = IF Renewable(r, e)
            THEN [row EXCEPT ![e] = [@ EXCEPT !.state = "done", !.owner = NoOwner, !.lease = "none"]]
            ELSE row
  /\ Answered(r, e, "idle")
  /\ UNCHANGED <<generation, gate, resource, stray>>

-----------------------------------------------------------------------------
(* Compensation, retries and terminal failure *)

MarkCompensating(r, e) ==
  /\ Pc(r, e) = "fence"
  /\ row' = IF Owns(r, e)
            THEN [row EXCEPT ![e] = [@ EXCEPT !.state = "compensating", !.fenced = TRUE]]
            ELSE row
  /\ Answered(r, e, "own_compensate")
  /\ UNCHANGED <<generation, gate, resource, stray>>

\* Mutants: a resource that is not there is deleted; the one there is left.
CompensateUnlooked(r, e) ==
  /\ Pc(r, e) = "compensate"
  /\ resource' = [resource EXCEPT ![e] = @ - 1]
  /\ Answered(r, e, "own_compensated")
  /\ UNCHANGED <<generation, gate, row, stray>>

CompensateNothing(r, e) ==
  /\ Pc(r, e) = "compensate"
  /\ Answered(r, e, "own_compensated")
  /\ UNCHANGED <<generation, gate, row, resource, stray>>

Compensate(r, e) ==
  /\ Pc(r, e) = "compensate"
  /\ resource' = [resource EXCEPT ![e] = IF @ > 0 THEN @ - 1 ELSE 0]
  /\ Answered(r, e, "own_compensated")
  /\ UNCHANGED <<generation, gate, row, stray>>

Catch(r, e) ==
  /\ Pc(r, e) = "catch"
  /\ Goto(r, e, IF Stale(e) THEN "adopt_caught" ELSE "retry")
  /\ UNCHANGED <<generation, gate, row, resource, stray>>

AdoptCaught(r, e) ==
  /\ Pc(r, e) = "adopt_caught"
  /\ Goto(r, e, IF e \notin Colliding /\ resource[e] > 0 THEN "own_caught" ELSE "retry")
  /\ UNCHANGED <<generation, gate, row, resource, stray>>

\* Mutant: the row is reset whoever owns it.
MarkFailedUnowned(r, e) ==
  /\ Pc(r, e) \in {"fail", "retry"}
  /\ row' = IF Pc(r, e) = "fail"
            THEN [row EXCEPT ![e] = [@ EXCEPT !.state = "failed", !.owner = NoOwner, !.lease = "none"]]
            ELSE [row EXCEPT ![e] = [@ EXCEPT !.state = "calling", !.owner = NoOwner, !.lease = "live"]]
  /\ Answered(r, e, "idle")
  /\ UNCHANGED <<generation, gate, resource, stray>>

\* The statement asks for the owner only: neither the state nor the lease.
MarkFailed(r, e) ==
  /\ Pc(r, e) \in {"fail", "retry"}
  /\ row' = IF row[e].owner # r THEN row
            ELSE IF Pc(r, e) = "fail"
            THEN [row EXCEPT ![e] = [@ EXCEPT !.state = "failed", !.owner = NoOwner, !.lease = "none"]]
            ELSE [row EXCEPT ![e] = [@ EXCEPT !.state = "calling", !.owner = NoOwner, !.lease = "live"]]
  /\ Answered(r, e, "idle")
  /\ UNCHANGED <<generation, gate, resource, stray>>

-----------------------------------------------------------------------------
(* Faults *)

\* A statement or call that has no effect, or whose effect had already landed.
CallFails(r, e) ==
  /\ Pc(r, e) # "idle"
  /\ Fault
  /\ task' = [task EXCEPT ![r][e] = Thrown(r, e)]
  /\ stray' = [stray EXCEPT ![e] = IF Pc(r, e) = "sent" /\ ~CallsFitLease THEN @ + 1 ELSE @]
  /\ UNCHANGED <<generation, gate, row, resource>>

Crash(r) ==
  /\ \E e \in Effects : Pc(r, e) # "idle"
  /\ Fault
  /\ task' = [task EXCEPT ![r] = [e \in Effects |-> IdleTask]]
  /\ stray' = [e \in Effects |->
                 IF Pc(r, e) = "sent" /\ ~CallsFitLease THEN stray[e] + 1 ELSE stray[e]]
  /\ UNCHANGED <<generation, gate, row, resource>>

StrayLands(e) ==
  /\ stray[e] > 0
  /\ stray' = [stray EXCEPT ![e] = @ - 1]
  /\ resource' = [resource EXCEPT ![e] = @ + 1]
  /\ UNCHANGED <<generation, gate, row, task, faults>>

-----------------------------------------------------------------------------
Run(r, e) ==
  \/ RequireOwnership(r, e)
  \/ ReadGeneration(r, e)
  \/ PersistCalling(r, e)
  \/ CheckGeneration(r, e)
  \/ Adopt(r, e)
  \/ Execute(r, e)
  \/ Land(r, e)
  \/ Answer(r, e)
  \/ MarkApplied(r, e)
  \/ MarkDone(r, e)
  \/ MarkCompensating(r, e)
  \/ Compensate(r, e)
  \/ Catch(r, e)
  \/ AdoptCaught(r, e)
  \/ MarkFailed(r, e)

Environment(e) == Plan(e) \/ GateOpens(e) \/ LeaseExpires(e) \/ LeaseLost(e) \/ StrayLands(e)

Next ==
  \/ BumpGeneration
  \/ \E e \in Effects : Environment(e)
  \/ \E r \in Runners : Claim(r) \/ Crash(r)
  \/ \E r \in Runners, e \in Effects : Run(r, e) \/ RenewalRefused(r, e) \/ CallFails(r, e)

Spec == Init /\ [][Next]_vars

\* A live runner keeps polling and every await ends; leases and gates are
\* matters of time.
Fairness ==
  /\ \A r \in Runners : WF_vars(Claim(r))
  /\ \A r \in Runners, e \in Effects : WF_vars(Run(r, e))
  /\ \A e \in Effects : WF_vars(LeaseExpires(e)) /\ WF_vars(GateOpens(e))

FairSpec == Spec /\ Fairness

-----------------------------------------------------------------------------
(* Properties *)

\* The remote system is only asked, by a lookup or by a request, for an effect whose
\* dependencies are done: the claim of a fenced effect skips the dependency check
\* (claimEffects), so run()'s comparisons of generations alone keep it from calling.
RequestRespectsDeps ==
  \A r \in Runners, e \in Effects :
    Pc(r, e) \in {"adopt", "execute", "sent", "landed"} => \A d \in Deps[e] : row[d].state = "done"

\* No step leaves done or failed, though markFailed and markCompensating do not
\* look at the state: a settled row has no owner to satisfy their WHERE clause.
SettledIsFinal ==
  [][\A e \in Effects : row[e].state \in Settled => row'[e] = row[e]]_vars

\* While a lease is live only its owner's own task changes the row: what a
\* runner that lost the lease still writes never reaches the newer owner's row.
OnlyOwnerWrites ==
  [][\A e \in Effects, r \in Runners :
       Owns(r, e) /\ row'[e] # row[e] =>
         \/ task'[r][e] # task[r][e]
         \/ row'[e] = [row[e] EXCEPT !.lease = "expired"]]_vars

\* Refinement: outcome is read off the row, made is the remote system's count.
OutcomeOf(e) ==
  CASE row[e].state = "failed" -> "failed"
    [] row[e].state = "done" /\ row[e].fenced -> "undone"
    [] row[e].state = "done" /\ ~row[e].fenced -> "kept"
    [] OTHER -> "open"

Contract == INSTANCE EffectContract WITH
  planned <- [e \in Effects |-> row[e].generation],
  outcome <- [e \in Effects |-> OutcomeOf(e)],
  made <- resource

\* The runner, its retries, takeovers, adoptions and compensations included,
\* does nothing the contract does not allow.
ImplementsContract == Contract!Spec

\* Every planned effect is settled once faults stop, unless an effect it waits
\* for failed or was never planned.
EventuallySettled ==
  \A e \in Effects :
    row[e].state # "absent" ~>
      \/ row[e].state \in Settled
      \/ \E d \in Deps[e] : row[d].state \in {"absent", "failed"}

-----------------------------------------------------------------------------
(* Inductive invariants: what the proofs strengthen the properties with *)

DepsDone(e) == \A d \in Deps[e] : row[d].state = "done"

\* Rows are planned in generations that exist, and only active rows are owned.
RowsWellFormed ==
  \A e \in Effects :
    /\ row[e].generation <= generation
    /\ row[e].state = "absent" <=> row[e].generation = 0
    /\ row[e].state \notin Active => row[e].owner = NoOwner /\ row[e].lease = "none"

\* A task that may still call was claimed with its dependencies done, or its
\* row is stale; past the last comparison only the former is left.
CallersEligible ==
  \A r \in Runners, e \in Effects :
    /\ Pc(r, e) # "idle" => row[e].state # "absent"
    /\ Pc(r, e) \in {"seen_planned", "seen_calling", "persist", "own_call", "check_call"}
         => Stale(e) \/ DepsDone(e)
    /\ Pc(r, e) \in {"adopt", "execute", "sent", "landed"} => DepsDone(e)

SafetyInv == TypeOK /\ RowsWellFormed /\ CallersEligible

\* What the fencing reason and the state say of the row and of its resource.
RowFacts(e) ==
  /\ row[e].fenced => Stale(e) /\ row[e].state \in {"calling", "compensating", "done"}
  /\ row[e].state = "compensating" => row[e].fenced
  /\ row[e].state \in {"absent", "planned"} => resource[e] = 0
  /\ row[e].state = "applied" => resource[e] = 1
  /\ row[e].state = "done" => resource[e] = IF row[e].fenced THEN 0 ELSE 1
  /\ resource[e] \in {0, 1}
  /\ stray[e] = 0

\* What an owner's position says of its row: only the owner moves it.
OwnerFacts(r, e) ==
  row[e].owner = r =>
    /\ Pc(r, e) = "seen_planned" => row[e].state = "planned"
    /\ Pc(r, e) \in {"persist", "persist_fence"} => row[e].state \in {"planned", "calling"}
    /\ Pc(r, e) \in {"seen_calling", "own_call", "fail", "own_collision"}
         => row[e].state = "calling"
    /\ Pc(r, e) = "seen_compensating" => row[e].state = "compensating"
    /\ Pc(r, e) \in {"persist", "own_call", "fail", "own_collision"} => ~row[e].fenced
    /\ Pc(r, e) \in {"own_executed", "check_executed", "own_adopted", "check_adopted", "apply"}
         => row[e].state = "calling" /\ ~row[e].fenced /\ resource[e] = 1
    /\ Pc(r, e) \in {"own_resume", "check_resume", "own_applied"} => row[e].state = "applied"
    /\ Pc(r, e) = "own_compensate" /\ row[e].lease = "live" => row[e].state = "compensating"
    /\ Pc(r, e) = "compensate" => row[e].state = "compensating"
    /\ Pc(r, e) = "own_compensated" => row[e].state = "compensating" /\ resource[e] = 0
    /\ Pc(r, e) = "done" =>
         row[e].state = "applied" \/ (row[e].state = "compensating" /\ resource[e] = 0)

\* A remote call is made under a lease, a deletion under a recorded fence, and a
\* fence is recorded only for a stale row.
CallFacts(r, e) ==
  /\ InCall(r, e) => Owns(r, e) /\ row[e].state = "calling" /\ ~row[e].fenced
  /\ Pc(r, e) \in {"execute", "sent"} => resource[e] = 0
  /\ Pc(r, e) = "landed" => resource[e] = 1
  /\ Pc(r, e) = "compensate" => row[e].fenced
  /\ Pc(r, e) \in {"persist_fence", "fence", "own_rejected", "adopt_caught", "own_caught"}
       => Stale(e)

\* The inductive invariant of the contract, under CallsFitLease: an effect has
\* at most one resource, and what its row, its owner's task and the remote side
\* know of it agrees (effect-runner.ts 75-412).
ContractInv ==
  /\ SafetyInv
  /\ \A e \in Effects : RowFacts(e)
  /\ \A r \in Runners, e \in Effects : OwnerFacts(r, e) /\ CallFacts(r, e)
=============================================================================
