--------------------------- MODULE ArchiveRetention ---------------------------
(***************************************************************************)
(* What happens to an archive after its final inventory: legal holds and   *)
(* deletion, as server-core's ArchiveService commands them                 *)
(* (archives/service.ts, persistence/archive-repository.ts) and as the     *)
(* control worker's ARCHIVE_DELETE effect carries a deletion out.          *)
(*                                                                         *)
(* A hold and its release touch every object version, one S3 call each,    *)
(* under an operation lease on the archive's row that is renewed, and what *)
(* has been done saved, after every call.  A request that dies leaves its  *)
(* operation behind for the next request to take over, once the lease ran  *)
(* out.  A call and the renewal after it are one step: what may come       *)
(* between them, a death or a takeover, is a step of its own.              *)
(*                                                                         *)
(* The consultation has ended and every worker epoch is over; an egress    *)
(* may still upload, and it is closed before any deletion is carried out.  *)
(***************************************************************************)
EXTENDS Naturals, FiniteSets

CONSTANTS
  Versions,    \* object versions under the meeting's prefix
  Registered,  \* those with a row in archive_objects
  Holds,       \* legal_holds rows, by id
  Requests,    \* requests of administrators the web application serves at once
  None,
  MaxEpoch,    \* bound on the deletions admitted
  MaxFaults    \* bound on failed or unanswered calls, deaths and stalls

ASSUME VersionsAssumption == Registered \subseteq Versions
ASSUME NoneAssumption == None \notin Holds /\ None \notin Requests
ASSUME FiniteAssumption == IsFiniteSet(Registered) /\ IsFiniteSet(Requests)
ASSUME BoundsAssumption == MaxEpoch \in Nat /\ MaxFaults \in Nat

VARIABLES
  archive,   \* archives.state
  epoch,     \* archives.write_epoch, counted from the end of the inventory
  hold,      \* legal_holds.state of each hold
  saved,     \* legal_holds.per_version_results: the last result per version
  op,        \* the hold operation on the archive's row and its lease
  stored,    \* versions in the bucket
  held,      \* those of them under S3 legal hold
  open,      \* whether an egress may still upload
  task,      \* what each request is doing
  effect,    \* the ARCHIVE_DELETE effect of each write epoch
  scan,      \* the drainDeletion requests of each write epoch
  slipped,   \* history: versions a call left without a hold that failed or did not count
  faults

rowVars == <<archive, epoch, hold, saved, op>>
bucketVars == <<stored, held, open, slipped>>
drainVars == <<effect, scan>>
vars == <<rowVars, bucketVars, drainVars, task, faults>>

Epochs == 1..MaxEpoch
\* The drainDeletion the runner waits for, and one it gave up on that still runs
\* (a bound: no second one while it does).
Calls == {"awaited", "lost"}
Unreleased == {h \in Holds : hold[h] \in {"applying", "active", "releasing", "failed"}}

\* The last result of a version: "on" and "off" succeeded, "kept" is a release
\* that failed, "none" any other failure or no call yet.
Results == [Versions -> {"none", "on", "off", "kept"}]
NoResults == [v \in Versions |-> "none"]

NoOperation == [hold |-> None, owner |-> None, kind |-> "none", live |-> FALSE]
Operations ==
  {NoOperation} \cup [hold : Holds, owner : Requests, kind : {"add", "release"}, live : BOOLEAN]

Idle == [pc |-> "idle", hold |-> None, results |-> NoResults, todo |-> {}, seen |-> {},
         prev |-> {}, stable |-> 0]
Tasks ==
  [pc : {"idle", "apply", "retry", "release", "compensate"}, hold : Holds \cup {None},
   results : Results, todo : SUBSET Versions, seen : SUBSET Versions,
   prev : SUBSET Versions, stable : 0..2]

TypeOK ==
  /\ archive \in {"complete", "incomplete", "deleting", "deleted"}
  /\ epoch \in 0..MaxEpoch
  /\ hold \in [Holds -> {"none", "applying", "active", "releasing", "failed", "released"}]
  /\ saved \in [Holds -> Results]
  /\ op \in Operations
  /\ stored \in SUBSET Versions /\ held \in SUBSET Versions /\ slipped \in SUBSET Versions
  /\ open \in BOOLEAN
  /\ task \in [Requests -> Tasks]
  /\ effect \in [Epochs -> {"none", "planned", "drain", "calling", "failed", "done"}]
  /\ scan \in [Epochs \X Calls -> {"none", "first", "second", "complete"}]
  /\ faults \in 0..MaxFaults

Fault == faults < MaxFaults /\ faults' = faults + 1

-----------------------------------------------------------------------------
(* Requests that begin a hold operation *)

\* applyHoldToStorage: versions whose protection succeeded are left out.
Apply(h, results) ==
  [Idle EXCEPT !.pc = "apply", !.hold = h, !.results = results, !.seen = stored,
     !.todo = {v \in stored : results[v] # "on"}]

\* releaseHoldFromStorage: it lists until two scans agree.
Release(h, results) == [Idle EXCEPT !.pc = "release", !.hold = h, !.results = results]

\* beginHoldOperation
Begin(r, h, kind) ==
  /\ op = NoOperation
  /\ \A g \in Holds : hold[g] \notin {"applying", "releasing"}
  /\ op' = [hold |-> h, owner |-> r, kind |-> kind, live |-> TRUE]

\* addHold: a new row in applying, then the storage.
AddHold(r, h) ==
  /\ task[r] = Idle /\ hold[h] = "none"
  /\ archive \in {"complete", "incomplete"}
  /\ Begin(r, h, "add")
  /\ hold' = [hold EXCEPT ![h] = "applying"]
  /\ task' = [task EXCEPT ![r] = Apply(h, NoResults)]
  /\ UNCHANGED <<archive, epoch, saved, bucketVars, drainVars, faults>>

\* releaseHold of one of several holds: the storage stays as it is.
ReleaseShared(r, h) ==
  /\ task[r] = Idle /\ h \in Unreleased /\ Unreleased # {h}
  /\ archive \in {"complete", "incomplete"}
  /\ op = NoOperation /\ \A g \in Holds : hold[g] \notin {"applying", "releasing"}
  /\ hold' = [hold EXCEPT ![h] = "released"]
  /\ UNCHANGED <<archive, epoch, saved, op, bucketVars, drainVars, task, faults>>

\* releaseHold of the last hold.
ReleaseLast(r, h) ==
  /\ task[r] = Idle /\ Unreleased = {h}
  /\ archive \in {"complete", "incomplete"}
  /\ Begin(r, h, "release")
  /\ hold' = [hold EXCEPT ![h] = "releasing"]
  /\ task' = [task EXCEPT ![r] = Release(h, NoResults)]
  /\ UNCHANGED <<archive, epoch, saved, bucketVars, drainVars, faults>>

\* recoverStaleHold, which opens every one of these requests: it takes over an
\* operation whose lease ran out and goes on from the results saved.
Recover(r) ==
  /\ task[r] = Idle /\ op # NoOperation /\ ~op.live
  /\ op' = [op EXCEPT !.owner = r, !.live = TRUE]
  /\ task' = [task EXCEPT ![r] =
       IF op.kind = "add" THEN Apply(op.hold, saved[op.hold]) ELSE Release(op.hold, saved[op.hold])]
  /\ UNCHANGED <<archive, epoch, hold, saved, bucketVars, drainVars, faults>>

\* The lease runs out: its owner is gone, or stalls for five minutes.
Expire ==
  /\ op # NoOperation /\ op.live
  /\ op' = [op EXCEPT !.live = FALSE]
  /\ IF task[op.owner].hold = op.hold THEN Fault ELSE UNCHANGED faults
  /\ UNCHANGED <<archive, epoch, hold, saved, bucketVars, drainVars, task>>

-----------------------------------------------------------------------------
(* Their calls *)

Owns(r) == op.owner = r /\ op.hold = task[r].hold

\* setLegalHold lands in the bucket; a version that is not there has no hold.
Land(v, on) == held' = IF on THEN held \cup ({v} \cap stored) ELSE held \ {v}

Answered(t, v, ok) ==
  [t EXCEPT !.todo = @ \ {v},
     !.results[v] = IF t.pc = "release" THEN IF ok THEN "off" ELSE "kept"
                    ELSE IF ok THEN "on" ELSE "none"]

\* Mutant: a request that finds its lease taken over goes on.
RenewUnfenced(r, t) ==
  /\ task' = [task EXCEPT ![r] = t]
  /\ IF Owns(r)
     THEN op' = [op EXCEPT !.live = TRUE] /\ saved' = [saved EXCEPT ![t.hold] = t.results]
     ELSE UNCHANGED <<op, saved>>

\* renewHoldLease: it saves the results, or finds that the lease is another's.
Renew(r, t) ==
  IF Owns(r)
  THEN /\ op' = [op EXCEPT !.live = TRUE]
       /\ saved' = [saved EXCEPT ![t.hold] = t.results]
       /\ task' = [task EXCEPT ![r] = t]
  ELSE task' = [task EXCEPT ![r] = Idle] /\ UNCHANGED <<op, saved>>

Protecting(t) == t.pc \in {"apply", "retry", "compensate"}

\* A version was released, and the operation on its row does not know of it.
Slip(t, v) == slipped' = IF Protecting(t) THEN slipped ELSE slipped \cup {v}

\* A call succeeds.  A release by a request whose lease was taken over lands all
\* the same, and may undo what the new owner did.
Call(r) ==
  \E v \in task[r].todo \cap stored :
    /\ Land(v, Protecting(task[r]))
    /\ IF Owns(r) THEN slipped' = slipped \ {v} ELSE Slip(task[r], v)
    /\ Renew(r, Answered(task[r], v, TRUE))
    /\ UNCHANGED <<archive, epoch, hold, stored, open, drainVars, faults>>

\* A call throws: refused, or unanswered and landed all the same.  Only a
\* version that is gone is refused without a fault.
CallFails(r) ==
  \E v \in task[r].todo :
    /\ IF v \in stored THEN Fault ELSE UNCHANGED faults
    /\ \/ UNCHANGED held /\ slipped' = IF Protecting(task[r]) THEN slipped \cup ({v} \ held) ELSE slipped
       \/ v \in stored /\ Land(v, Protecting(task[r])) /\ Slip(task[r], v)
    /\ Renew(r, Answered(task[r], v, FALSE))
    /\ UNCHANGED <<archive, epoch, hold, stored, open, drainVars>>

\* The process dies, between calls or with one landed and not saved.
Die(r) ==
  /\ task[r] # Idle /\ Fault
  /\ \/ UNCHANGED <<held, slipped>>
     \/ \E v \in task[r].todo \cap stored : Land(v, Protecting(task[r])) /\ Slip(task[r], v)
  /\ task' = [task EXCEPT ![r] = Idle]
  /\ UNCHANGED <<rowVars, stored, open, drainVars>>

-----------------------------------------------------------------------------
(* How an operation goes on and ends *)

\* Mutant: the end of an operation does not ask whose it is.
FinishUnfenced(r, state) ==
  /\ op' = NoOperation /\ hold' = [hold EXCEPT ![task[r].hold] = state]
  /\ task' = [task EXCEPT ![r] = Idle]

\* completeHoldOperation and transitionHoldState in one transaction.
Finish(r, state) ==
  /\ IF Owns(r)
     THEN op' = NoOperation /\ hold' = [hold EXCEPT ![task[r].hold] = state]
     ELSE UNCHANGED <<op, hold>>
  /\ task' = [task EXCEPT ![r] = Idle]

Unprotected(t) == {v \in t.seen : t.results[v] # "on"}
Kept(t) == {v \in t.seen : t.results[v] # "off"}

\* The versions that failed are tried once more; then the hold is recorded.
EndApply(r) ==
  LET t == task[r] IN
  /\ t.pc \in {"apply", "retry"} /\ t.todo = {}
  /\ IF t.pc = "apply" /\ Unprotected(t) # {}
     THEN /\ task' = [task EXCEPT ![r].pc = "retry", ![r].todo = Unprotected(t)]
          /\ UNCHANGED <<op, hold>>
     ELSE Finish(r, IF Unprotected(t) = {} THEN "active" ELSE "failed")
  /\ UNCHANGED <<archive, epoch, saved, bucketVars, drainVars, faults>>

\* Mutant: the listing does not stop at two that agree.
RescanForever(r) ==
  LET t == task[r] IN
  /\ t.pc = "release" /\ t.todo = {}
  /\ task' = [task EXCEPT ![r].stable = IF t.stable > 0 /\ t.prev = stored THEN t.stable + 1 ELSE 1,
                          ![r].prev = stored, ![r].seen = @ \cup stored,
                          ![r].todo = {v \in stored : t.results[v] \notin {"off", "kept"}}]
  /\ UNCHANGED <<rowVars, bucketVars, drainVars, faults>>

\* One listing of a release; what it has tried before it does not try again.
Rescan(r) ==
  LET t == task[r] IN
  /\ t.pc = "release" /\ t.todo = {} /\ t.stable < 2
  /\ task' = [task EXCEPT ![r].stable = IF t.stable > 0 /\ t.prev = stored THEN t.stable + 1 ELSE 1,
                          ![r].prev = stored, ![r].seen = @ \cup stored,
                          ![r].todo = {v \in stored : t.results[v] \notin {"off", "kept"}}]
  /\ UNCHANGED <<rowVars, bucketVars, drainVars, faults>>

\* Mutant: a release that failed for some versions leaves the others released.
EndReleaseUncompensated(r) ==
  LET t == task[r] IN
  /\ t.pc = "release" /\ t.todo = {} /\ t.stable = 2
  /\ Finish(r, IF Kept(t) = {} THEN "released" ELSE "active")
  /\ UNCHANGED <<archive, epoch, saved, bucketVars, drainVars, faults>>

\* Released everywhere: completeHoldRelease looks once more at what is
\* registered.  Otherwise what was released is protected again.
EndRelease(r) ==
  LET t == task[r]
      pending == {v \in Registered : t.results[v] # "off"}
  IN
  /\ t.pc = "release" /\ t.todo = {} /\ t.stable = 2
  /\ \/ /\ Kept(t) # {}
        /\ task' = [task EXCEPT ![r].pc = "compensate", ![r].todo = t.seen \ Kept(t),
                                ![r].seen = t.seen \ Kept(t)]
        /\ UNCHANGED <<op, hold, saved>>
     \/ /\ Kept(t) = {} /\ pending # {}
        /\ IF Owns(r)
           THEN /\ task' = [task EXCEPT ![r].todo = pending, ![r].seen = @ \cup pending]
                /\ op' = [op EXCEPT !.live = TRUE]
           ELSE task' = [task EXCEPT ![r] = Idle] /\ UNCHANGED op
        /\ UNCHANGED <<hold, saved>>
     \/ /\ Kept(t) = {} /\ pending = {}
        /\ Finish(r, "released") /\ UNCHANGED saved
  /\ UNCHANGED <<archive, epoch, bucketVars, drainVars, faults>>

\* The hold counts again, if everything released was protected again.
EndCompensation(r) ==
  LET t == task[r] IN
  /\ t.pc = "compensate" /\ t.todo = {}
  /\ Finish(r, IF Unprotected(t) = {} THEN "active" ELSE "failed")
  /\ UNCHANGED <<archive, epoch, saved, bucketVars, drainVars, faults>>

-----------------------------------------------------------------------------
(* Deletion *)

\* Mutant: a deletion is admitted whatever holds there are.
BeginDeleteHeld ==
  /\ archive \in {"complete", "incomplete"} /\ epoch < MaxEpoch
  /\ epoch' = epoch + 1 /\ archive' = "deleting"
  /\ UNCHANGED <<hold, saved, op, bucketVars, drainVars, task, faults>>

\* beginDelete: no hold that is not released, of whatever state.
BeginDelete ==
  /\ archive \in {"complete", "incomplete"} /\ epoch < MaxEpoch
  /\ Unreleased = {}
  /\ epoch' = epoch + 1 /\ archive' = "deleting"
  /\ UNCHANGED <<hold, saved, op, bucketVars, drainVars, task, faults>>

\* claimPendingArchiveDeletesStatement: one effect per write epoch, ever.
PlanDelete ==
  /\ archive = "deleting" /\ ~open /\ effect[epoch] = "none"
  /\ effect' = [effect EXCEPT ![epoch] = "planned"]
  /\ UNCHANGED <<rowVars, bucketVars, scan, task, faults>>

StartDrain(e) ==
  /\ effect[e] = "planned"
  /\ effect' = [effect EXCEPT ![e] = "drain"]
  /\ UNCHANGED <<rowVars, bucketVars, scan, task, faults>>

\* drainArchive: every version the bucket lists is deleted; a version under
\* legal hold is refused, which ends the attempt.  Nobody looks at the archive.
Drain(e) ==
  /\ effect[e] = "drain" /\ stored # {}
  /\ stored' = stored \cap held
  /\ effect' = IF stored' = {} THEN effect ELSE [effect EXCEPT ![e] = "planned"]
  /\ UNCHANGED <<rowVars, held, open, slipped, scan, task, faults>>

\* A batch of deletions fails for some versions: the effect runs again.
DeleteSome == \E kept \in SUBSET stored : stored \cap held \subseteq kept /\ stored' = kept

DrainFails(e) ==
  /\ effect[e] = "drain" /\ Fault
  /\ DeleteSome
  /\ effect' = [effect EXCEPT ![e] = "planned"]
  /\ UNCHANGED <<rowVars, held, open, slipped, scan, task>>

\* Mutant: the drain does not look at the prefix again.
NotifyUndrained(e) ==
  /\ effect[e] = "drain" /\ archive = "deleting" /\ epoch = e
  /\ effect' = [effect EXCEPT ![e] = "calling"] /\ scan' = [scan EXCEPT ![<<e, "awaited">>] = "first"]
  /\ UNCHANGED <<rowVars, bucketVars, task, faults>>

\* notifyDeleteDrain reaches drainDeletion.  One refused there is retried in a
\* second, for ever.  (Its writers are drained: PlanDelete waited for that.)
Notify(e) ==
  /\ effect[e] = "drain" /\ stored = {}
  /\ \/ /\ archive = "deleted" /\ epoch = e
        /\ effect' = [effect EXCEPT ![e] = "done"] /\ UNCHANGED scan
     \/ /\ archive = "deleting" /\ epoch = e
        /\ effect' = [effect EXCEPT ![e] = "calling"]
        /\ scan' = [scan EXCEPT ![<<e, "awaited">>] = "first"]
     \/ /\ ~(archive \in {"deleting", "deleted"} /\ epoch = e)
        /\ effect' = [effect EXCEPT ![e] = "planned"] /\ UNCHANGED scan
  /\ UNCHANGED <<rowVars, bucketVars, task, faults>>

\* The runner dies or its request breaks off; drainDeletion may go on by itself.
GiveUp(e) ==
  /\ effect[e] = "calling" /\ scan[<<e, "lost">>] = "none" /\ Fault
  /\ effect' = [effect EXCEPT ![e] = "planned"]
  /\ scan' = [scan EXCEPT ![<<e, "lost">>] = scan[<<e, "awaited">>], ![<<e, "awaited">>] = "none"]
  /\ UNCHANGED <<rowVars, bucketVars, task>>

\* drainDeletion ends; its answer reaches the runner that waits for it.
Return(e, call, state) ==
  /\ scan' = [scan EXCEPT ![<<e, call>>] = "none"]
  /\ effect' = IF call = "awaited" THEN [effect EXCEPT ![e] = state] ELSE effect

IsDeleting(e) == archive = "deleting" /\ epoch = e

\* performDeletionScan and recordDeletionScan: two empty scans in a row.
ScanOnce(e, call) ==
  /\ scan[<<e, call>>] \in {"first", "second"} /\ stored \cap held = {}
  /\ stored' = {}
  /\ \/ /\ IsDeleting(e)
        /\ scan' = [scan EXCEPT ![<<e, call>>] = IF @ = "first" THEN "second" ELSE "complete"]
        /\ UNCHANGED effect
     \/ ~IsDeleting(e) /\ Return(e, call, "failed")
  /\ UNCHANGED <<rowVars, held, open, slipped, task, faults>>

\* Mutant: a failed scan is answered and not recorded.
ScanFailsUnrecorded(e, call) ==
  /\ scan[<<e, call>>] \in {"first", "second"}
  /\ IF stored \cap held = {} THEN Fault ELSE UNCHANGED faults
  /\ DeleteSome
  /\ Return(e, call, "failed")
  /\ UNCHANGED <<rowVars, held, open, slipped, task>>

\* A scan throws: recordDeletionFailure, if the deletion is still this one.
ScanFails(e, call) ==
  /\ scan[<<e, call>>] \in {"first", "second"}
  /\ IF stored \cap held = {} THEN Fault ELSE UNCHANGED faults
  /\ DeleteSome
  /\ archive' = IF IsDeleting(e) THEN "incomplete" ELSE archive
  /\ Return(e, call, "failed")
  /\ UNCHANGED <<epoch, hold, saved, op, held, open, slipped, task>>

\* completeDeletion
Complete(e, call) ==
  /\ scan[<<e, call>>] = "complete"
  /\ archive' = IF IsDeleting(e) THEN "deleted" ELSE archive
  /\ Return(e, call, IF IsDeleting(e) THEN "done" ELSE "failed")
  /\ UNCHANGED <<epoch, hold, saved, op, bucketVars, task, faults>>

-----------------------------------------------------------------------------
(* The egress *)

Upload(v) ==
  /\ open /\ v \notin stored /\ v \notin Registered
  /\ stored' = stored \cup {v}
  /\ UNCHANGED <<rowVars, held, open, slipped, drainVars, task, faults>>

CloseEgress ==
  /\ open /\ open' = FALSE
  /\ UNCHANGED <<rowVars, stored, held, slipped, drainVars, task, faults>>

-----------------------------------------------------------------------------
Init ==
  /\ \/ archive = "complete" /\ open = FALSE
     \/ archive = "incomplete" /\ open \in BOOLEAN
  /\ epoch = 0
  /\ hold = [h \in Holds |-> "none"]
  /\ saved = [h \in Holds |-> NoResults]
  /\ op = NoOperation
  /\ stored = Registered /\ held = {} /\ slipped = {}
  /\ task = [r \in Requests |-> Idle]
  /\ effect = [e \in Epochs |-> "none"]
  /\ scan = [c \in Epochs \X Calls |-> "none"]
  /\ faults = 0

Request(r) ==
  \/ Recover(r)
  \/ \E h \in Holds : AddHold(r, h) \/ ReleaseShared(r, h) \/ ReleaseLast(r, h)
  \/ Call(r) \/ CallFails(r) \/ Die(r)
  \/ EndApply(r) \/ Rescan(r) \/ EndRelease(r) \/ EndCompensation(r)

Deletion(e) ==
  \/ StartDrain(e) \/ Drain(e) \/ DrainFails(e) \/ Notify(e) \/ GiveUp(e)
  \/ \E call \in Calls : ScanOnce(e, call) \/ ScanFails(e, call) \/ Complete(e, call)

Next ==
  \/ \E r \in Requests : Request(r)
  \/ Expire
  \/ BeginDelete \/ PlanDelete
  \/ \E e \in Epochs : Deletion(e)
  \/ \E v \in Versions : Upload(v)
  \/ CloseEgress

Spec == Init /\ [][Next]_vars

\* Effects are claimed again until they end, and a scan that runs goes on;
\* nothing makes an administrator ask again.
FairSpec ==
  /\ Spec
  /\ WF_vars(PlanDelete)
  /\ \A e \in Epochs :
       /\ WF_vars(StartDrain(e)) /\ WF_vars(Drain(e) \/ Notify(e))
       /\ \A call \in Calls : WF_vars(ScanOnce(e, call) \/ ScanFails(e, call) \/ Complete(e, call))

-----------------------------------------------------------------------------
(* Properties *)

\* An active hold that no operation is touching protects every registered
\* version that is left, but for three kinds: one whose release threw or died and
\* landed all the same; one released by a request that stalled while its
\* operation was taken over, and was answered before it found out; and one that
\* was refused a hold, which a failed hold forgets when its release is refused
\* too.  Two holds, failed releases, their compensation and takeovers half way
\* leave no other version bare.
Left == Registered \cap stored
HoldProtects ==
  \A h \in Holds : hold[h] = "active" /\ op.hold # h => Left \subseteq held \cup slipped

\* And one fault bares one version at most: what fails or is lost is one call,
\* and a stalled request is stopped after its first, however many operations,
\* holds and requests have followed each other.
OneBarePerFault ==
  \A h \in Holds : hold[h] = "active" /\ op.hold # h => Cardinality(Left \ held) <= faults

\* The row of an operation always has its hold, in the state that belongs to its
\* kind, and a hold in such a state has its operation: no takeover ever meets
\* HOLD_OPERATION_CORRUPT, no hold waits for an operation that is over.
OperationHasHold ==
  \A h \in Holds :
    /\ hold[h] = "applying" <=> op.hold = h /\ op.kind = "add"
    /\ hold[h] = "releasing" <=> op.hold = h /\ op.kind = "release"

\* A deletion and a hold exclude each other, whatever state the hold is in and
\* however requests, takeovers and failed deletions follow each other.
DeletionExcludesHold ==
  archive \in {"deleting", "deleted"} => Unreleased = {} /\ op = NoOperation

\* Objects go only while a deletion is admitted.  The effect of a deletion that
\* has failed meanwhile drains again without asking, but it finds nothing.
DeletedOnlyWhileDeleting == [][stored' # stored /\ stored' \subseteq stored => archive = "deleting"]_vars

\* An admitted deletion ends once the egress is closed, in deleted or in
\* incomplete, however often its calls fail; unless a version kept an S3 hold
\* that no row accounts for.
DeletionSettles ==
  archive = "deleting" /\ ~open ~> archive # "deleting" \/ stored \cap held # {}

=============================================================================
