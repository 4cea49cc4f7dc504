------------------------ MODULE ArchiveRetentionProofs ------------------------
(***************************************************************************)
(* Proofs about ArchiveRetention, for any versions, holds and requests and *)
(* any number of deletions and faults.                                     *)
(***************************************************************************)
EXTENDS ArchiveRetention, FiniteSetTheorems, TLAPS

\* What an operation is about: its hold is alone when it is being released, and
\* a request that owns it is doing what its kind says.
OpShape ==
  /\ OperationHasHold
  /\ op.kind = "release" => Unreleased = {op.hold}
  /\ \A r \in Requests : Owns(r) =>
       IF op.kind = "add" THEN task[r].pc \in {"apply", "retry"}
       ELSE task[r].pc \in {"release", "compensate"}
  /\ \A h \in Holds : hold[h] = "none" => saved[h] = NoResults

\* Registered versions without a hold that no failed or lost call accounts for.
Bare == Left \ (held \cup slipped)

\* A bare version is either not a hold's concern yet, or one that the operation
\* knows it has released and still has to protect again.
Cover ==
  /\ Unreleased \ {op.hold} # {} => Bare = {}
  /\ op.kind = "add" => \A v \in Bare : saved[op.hold][v] # "on"
  /\ op.kind = "release" => \A v \in Bare : saved[op.hold][v] = "off"

\* The same for what the owner of the operation has in hand.
InHand(t) ==
  /\ t.pc \in {"apply", "retry"} => \A v \in Bare : v \in t.todo /\ t.results[v] # "on"
  /\ t.pc = "release" => /\ \A v \in Bare : t.results[v] = "off"
                         /\ \A v \in t.todo : t.results[v] # "off"
                         /\ t.stable > 0 => Left \subseteq t.seen
  /\ t.pc = "compensate" => \A v \in Bare : v \in t.todo /\ t.results[v] = "off"

OwnerCovers == \A r \in Requests : Owns(r) => InHand(task[r])

\* A deletion that was ever scanned for found, and left, nothing.
Drained ==
  /\ \A e \in Epochs : effect[e] # "none" => e \leq epoch /\ ~open
  /\ \A c \in Epochs \X Calls : scan[c] # "none" => effect[c[1]] # "none" /\ stored = {}
  /\ epoch > 0 /\ archive # "deleting" => stored = {} /\ ~open
  /\ epoch > 1 => stored = {} /\ ~open

\* The parts about holds.
HoldInv == OpShape /\ DeletionExcludesHold /\ Cover /\ OwnerCovers

IInv == TypeOK /\ HoldInv /\ Drained

-----------------------------------------------------------------------------
(* Types *)

\* A task that begins, and one that has had an answer, is a task.
LEMMA TaskTypes ==
  /\ NoResults \in Results /\ Idle \in Tasks
  /\ NoOperation \in Operations /\ NoOperation.hold = None
  /\ \A h \in Holds, results \in Results :
       /\ stored \subseteq Versions => Apply(h, results) \in Tasks
       /\ Release(h, results) \in Tasks
  /\ \A t \in Tasks, v \in Versions, ok \in BOOLEAN : Answered(t, v, ok) \in Tasks
<1>1. NoResults \in Results
  BY DEF NoResults, Results
<1>2. Idle \in Tasks
  BY <1>1 DEF Idle, Tasks
<1>3. NoOperation \in Operations /\ NoOperation.hold = None
  BY DEF NoOperation, Operations
<1>4. ASSUME NEW h \in Holds, NEW results \in Results
      PROVE /\ stored \subseteq Versions => Apply(h, results) \in Tasks
            /\ Release(h, results) \in Tasks
  <2>1. ASSUME stored \subseteq Versions PROVE Apply(h, results) \in Tasks
    <3>1. {v \in stored : results[v] # "on"} \in SUBSET Versions
      BY <2>1
    <3> QED BY <1>2, <2>1, <3>1 DEF Apply, Tasks
  <2>2. Release(h, results) \in Tasks
    BY <1>2 DEF Release, Tasks
  <2> QED BY <2>1, <2>2
<1>5. ASSUME NEW t \in Tasks, NEW v \in Versions, NEW ok \in BOOLEAN
      PROVE Answered(t, v, ok) \in Tasks
  <2> DEFINE new == IF t.pc = "release" THEN IF ok THEN "off" ELSE "kept"
                    ELSE IF ok THEN "on" ELSE "none"
  <2>1. [t.results EXCEPT ![v] = new] \in Results
    BY DEF Tasks, Results
  <2>2. Answered(t, v, ok)
          = [t EXCEPT !.todo = t.todo \ {v}, !.results = [t.results EXCEPT ![v] = new]]
    BY DEF Answered, Tasks
  <2> QED BY <2>1, <2>2 DEF Tasks
<1> QED BY <1>1, <1>2, <1>3, <1>4, <1>5

\* The two ends of a call, whatever the call did.
LEMMA RenewType ==
  ASSUME TypeOK, NEW r \in Requests, NEW t \in Tasks, Renew(r, t)
  PROVE op' \in Operations /\ saved' \in [Holds -> Results] /\ task' \in [Requests -> Tasks]
<1>1. CASE Owns(r)
  <2>1. op # NoOperation
    BY <1>1, NoneAssumption DEF Owns, NoOperation
  <2>2. op' = [op EXCEPT !.live = TRUE]
    BY <1>1 DEF Renew
  <2>3. op \in [hold : Holds, owner : Requests, kind : {"add", "release"}, live : BOOLEAN]
    BY <2>1 DEF TypeOK, Operations
  <2>4. op' \in Operations
    BY <2>2, <2>3 DEF Operations
  <2>5. t.results \in Results
    BY DEF Tasks
  <2>6. saved' \in [Holds -> Results] /\ task' \in [Requests -> Tasks]
    BY <1>1, <2>5 DEF TypeOK, Renew
  <2> QED BY <2>4, <2>6
<1>2. CASE ~Owns(r)
  BY <1>2, TaskTypes DEF TypeOK, Renew
<1> QED BY <1>1, <1>2

LEMMA FinishType ==
  ASSUME TypeOK, NEW r \in Requests, NEW state \in {"active", "failed", "released"},
         Finish(r, state)
  PROVE /\ op' \in Operations /\ task' \in [Requests -> Tasks]
        /\ hold' \in [Holds -> {"none", "applying", "active", "releasing", "failed", "released"}]
BY TaskTypes DEF TypeOK, Finish

LEMMA LandType ==
  ASSUME TypeOK, NEW v \in Versions, NEW on \in BOOLEAN, Land(v, on)
  PROVE held' \in SUBSET Versions
BY DEF TypeOK, Land

LEMMA FaultType == ASSUME TypeOK, Fault PROVE faults' \in 0..MaxFaults
BY BoundsAssumption DEF TypeOK, Fault

\* The initial states are of these types.
THEOREM InitTypes == Init => TypeOK
<1> SUFFICES ASSUME Init PROVE TypeOK
  OBVIOUS
<1>1. /\ saved \in [Holds -> Results] /\ op \in Operations /\ task \in [Requests -> Tasks]
  BY TaskTypes DEF Init
<1>2. stored \in SUBSET Versions /\ held \in SUBSET Versions /\ slipped \in SUBSET Versions
  BY VersionsAssumption DEF Init
<1>3. epoch \in 0..MaxEpoch /\ faults \in 0..MaxFaults
  BY BoundsAssumption DEF Init
<1>4. /\ archive \in {"complete", "incomplete", "deleting", "deleted"} /\ open \in BOOLEAN
      /\ hold \in [Holds -> {"none", "applying", "active", "releasing", "failed", "released"}]
      /\ effect \in [Epochs -> {"none", "planned", "drain", "calling", "failed", "done"}]
      /\ scan \in [Epochs \X Calls -> {"none", "first", "second", "complete"}]
  BY DEF Init
<1> QED BY <1>1, <1>2, <1>3, <1>4 DEF TypeOK

LEMMA RequestTypes == ASSUME TypeOK, NEW r \in Requests, Request(r) PROVE TypeOK'
<1>1. CASE Recover(r)
  <2>1. op' \in Operations
    BY <1>1 DEF TypeOK, Recover, Operations
  <2>2. op.hold \in Holds
    BY <1>1 DEF TypeOK, Recover, Operations
  <2>3. task' \in [Requests -> Tasks]
    BY <1>1, <2>2, TaskTypes DEF TypeOK, Recover
  <2> QED BY <1>1, <2>1, <2>3 DEF TypeOK, Recover, bucketVars, drainVars
<1>2. ASSUME NEW h \in Holds, AddHold(r, h) PROVE TypeOK'
  <2>1. op' \in Operations
    BY <1>2 DEF AddHold, Begin, Operations
  <2> QED BY <1>2, <2>1, TaskTypes DEF TypeOK, AddHold, bucketVars, drainVars
<1>3. ASSUME NEW h \in Holds, ReleaseShared(r, h) PROVE TypeOK'
  BY <1>3 DEF TypeOK, ReleaseShared, bucketVars, drainVars
<1>4. ASSUME NEW h \in Holds, ReleaseLast(r, h) PROVE TypeOK'
  <2>1. op' \in Operations
    BY <1>4 DEF ReleaseLast, Begin, Operations
  <2> QED BY <1>4, <2>1, TaskTypes DEF TypeOK, ReleaseLast, bucketVars, drainVars
<1>5. CASE Call(r)
  <2>1. PICK v \in task[r].todo \cap stored :
          /\ Land(v, Protecting(task[r]))
          /\ IF Owns(r) THEN slipped' = slipped \ {v} ELSE Slip(task[r], v)
          /\ Renew(r, Answered(task[r], v, TRUE))
          /\ UNCHANGED <<archive, epoch, hold, stored, open, drainVars, faults>>
    BY <1>5 DEF Call
  <2>2. v \in Versions /\ Protecting(task[r]) \in BOOLEAN
    BY DEF TypeOK, Protecting
  <2>3. Answered(task[r], v, TRUE) \in Tasks
    BY <2>2, TaskTypes DEF TypeOK
  <2>4. held' \in SUBSET Versions /\ slipped' \in SUBSET Versions
    BY <2>1, <2>2, LandType DEF TypeOK, Slip
  <2>5. op' \in Operations /\ saved' \in [Holds -> Results] /\ task' \in [Requests -> Tasks]
    BY <2>1, <2>3, RenewType
  <2> QED BY <2>1, <2>4, <2>5 DEF TypeOK, drainVars
<1>6. CASE CallFails(r)
  <2>1. PICK v \in task[r].todo :
          /\ IF v \in stored THEN Fault ELSE UNCHANGED faults
          /\ \/ /\ UNCHANGED held
                /\ slipped' = IF Protecting(task[r]) THEN slipped \cup ({v} \ held) ELSE slipped
             \/ v \in stored /\ Land(v, Protecting(task[r])) /\ Slip(task[r], v)
          /\ Renew(r, Answered(task[r], v, FALSE))
          /\ UNCHANGED <<archive, epoch, hold, stored, open, drainVars>>
    BY <1>6 DEF CallFails
  <2>2. v \in Versions /\ Protecting(task[r]) \in BOOLEAN
    BY DEF TypeOK, Tasks, Protecting
  <2>3. Answered(task[r], v, FALSE) \in Tasks
    BY <2>2, TaskTypes DEF TypeOK
  <2>4. held' \in SUBSET Versions /\ slipped' \in SUBSET Versions
    BY <2>1, <2>2, LandType DEF TypeOK, Slip
  <2>5. op' \in Operations /\ saved' \in [Holds -> Results] /\ task' \in [Requests -> Tasks]
    BY <2>1, <2>3, RenewType
  <2>6. faults' \in 0..MaxFaults
    BY <2>1, FaultType DEF TypeOK
  <2> QED BY <2>1, <2>4, <2>5, <2>6 DEF TypeOK, drainVars
<1>7. CASE Die(r)
  <2>1. faults' \in 0..MaxFaults
    BY <1>7, FaultType DEF Die
  <2>2. held' \in SUBSET Versions /\ slipped' \in SUBSET Versions
    <3>1. CASE UNCHANGED <<held, slipped>>
      BY <3>1 DEF TypeOK
    <3>2. CASE \E v \in task[r].todo \cap stored :
                 Land(v, Protecting(task[r])) /\ Slip(task[r], v)
      <4>1. PICK v \in task[r].todo \cap stored :
              Land(v, Protecting(task[r])) /\ Slip(task[r], v)
        BY <3>2
      <4>2. v \in Versions /\ Protecting(task[r]) \in BOOLEAN
        BY DEF TypeOK, Protecting
      <4> QED BY <4>1, <4>2, LandType DEF TypeOK, Slip
    <3> QED BY <1>7, <3>1, <3>2 DEF Die
  <2> QED BY <1>7, <2>1, <2>2, TaskTypes DEF TypeOK, Die, rowVars, drainVars
<1>8. CASE EndApply(r)
  <2>1. CASE task' = [task EXCEPT ![r].pc = "retry", ![r].todo = Unprotected(task[r])]
             /\ UNCHANGED <<op, hold>>
    <3>1. Unprotected(task[r]) \subseteq Versions
      BY DEF TypeOK, Tasks, Unprotected
    <3>2. task[r] \in Tasks /\ task \in [Requests -> Tasks]
      BY DEF TypeOK
    <3> DEFINE new == [task[r] EXCEPT !.pc = "retry", !.todo = Unprotected(task[r])]
    <3>4. new \in Tasks
      BY <3>1, <3>2 DEF Tasks
    <3>5. task' = [task EXCEPT ![r] = new]
      BY <2>1, <3>2 DEF Tasks
    <3> HIDE DEF new
    <3>3. task' \in [Requests -> Tasks]
      BY <3>2, <3>4, <3>5
    <3> QED BY <1>8, <2>1, <3>3 DEF TypeOK, EndApply, bucketVars, drainVars
  <2>2. ASSUME NEW state \in {"active", "failed", "released"}, Finish(r, state) PROVE TypeOK'
    BY <1>8, <2>2, FinishType DEF TypeOK, EndApply, bucketVars, drainVars
  <2> QED BY <1>8, <2>1, <2>2 DEF EndApply
<1>9. CASE Rescan(r)
  <2> DEFINE t == task[r]
             new == [t EXCEPT !.stable = IF t.stable > 0 /\ t.prev = stored THEN t.stable + 1 ELSE 1,
                              !.prev = stored, !.seen = t.seen \cup stored,
                              !.todo = {v \in stored : t.results[v] \notin {"off", "kept"}}]
  <2>1. new \in Tasks
    <3>1. t.stable \in 0..2 /\ t.stable < 2
      BY <1>9 DEF TypeOK, Tasks, Rescan
    <3>2. (IF t.stable > 0 /\ t.prev = stored THEN t.stable + 1 ELSE 1) \in 0..2
      BY <3>1
    <3>3. t.seen \cup stored \in SUBSET Versions
      BY DEF TypeOK, Tasks
    <3>4. {v \in stored : t.results[v] \notin {"off", "kept"}} \in SUBSET Versions /\ stored \in SUBSET Versions
      BY DEF TypeOK
    <3>5. t \in Tasks
      BY DEF TypeOK
    <3> HIDE DEF t
    <3> QED BY <3>2, <3>3, <3>4, <3>5 DEF Tasks
  <2>2. task' = [task EXCEPT ![r] = new]
    BY <1>9 DEF TypeOK, Tasks, Rescan
  <2> HIDE DEF new
  <2>3. task' \in [Requests -> Tasks]
    BY <2>1, <2>2 DEF TypeOK
  <2>4. UNCHANGED <<rowVars, bucketVars, drainVars, faults>>
    BY <1>9 DEF Rescan
  <2> QED BY <2>3, <2>4 DEF TypeOK, rowVars, bucketVars, drainVars
<1>10. CASE EndRelease(r)
  <2> DEFINE t == task[r]
             pending == {v \in Registered : t.results[v] # "off"}
             back == [t EXCEPT !.pc = "compensate", !.todo = t.seen \ Kept(t), !.seen = t.seen \ Kept(t)]
             more == [t EXCEPT !.todo = pending, !.seen = t.seen \cup pending]
  <2>1. CASE task' = [task EXCEPT ![r] = back] /\ UNCHANGED <<op, hold, saved>>
    <3>1. t \in Tasks /\ t.seen \ Kept(t) \in SUBSET Versions
      BY DEF TypeOK, Tasks
    <3>2. back \in Tasks
      <4> HIDE DEF t
      <4> QED BY <3>1 DEF Tasks
    <3>3. task' \in [Requests -> Tasks]
      <4> HIDE DEF back
      <4> QED BY <2>1, <3>2 DEF TypeOK
    <3> QED BY <1>10, <2>1, <3>3 DEF TypeOK, EndRelease, bucketVars, drainVars
  <2>2. CASE /\ UNCHANGED <<hold, saved>>
             /\ IF Owns(r)
                THEN task' = [task EXCEPT ![r] = more] /\ op' = [op EXCEPT !.live = TRUE]
                ELSE task' = [task EXCEPT ![r] = Idle] /\ UNCHANGED op
    <3>0. t \in Tasks /\ pending \in SUBSET Versions /\ t.seen \cup pending \in SUBSET Versions
      BY VersionsAssumption DEF TypeOK, Tasks
    <3>1. more \in Tasks
      <4> HIDE DEF t, pending
      <4> QED BY <3>0 DEF Tasks
    <3>2. Owns(r) => op # NoOperation
      BY NoneAssumption DEF Owns, NoOperation
    <3>3. op' \in Operations
      BY <2>2, <3>2 DEF TypeOK, Operations
    <3>4. task' \in [Requests -> Tasks]
      <4> HIDE DEF more
      <4> QED BY <2>2, <3>1, TaskTypes DEF TypeOK
    <3> QED BY <1>10, <2>2, <3>3, <3>4 DEF TypeOK, EndRelease, bucketVars, drainVars
  <2>3. CASE Finish(r, "released") /\ UNCHANGED saved
    BY <1>10, <2>3, FinishType DEF TypeOK, EndRelease, bucketVars, drainVars
  <2>4. [task EXCEPT ![r].pc = "compensate", ![r].todo = t.seen \ Kept(t), ![r].seen = t.seen \ Kept(t)]
          = [task EXCEPT ![r] = back]
    OBVIOUS
  <2>5. [task EXCEPT ![r].todo = pending, ![r].seen = @ \cup pending] = [task EXCEPT ![r] = more]
    BY DEF TypeOK, Tasks
  <2> QED BY <1>10, <2>1, <2>2, <2>3, <2>4, <2>5 DEF EndRelease
<1>11. CASE EndCompensation(r)
  <2>1. ASSUME NEW state \in {"active", "failed", "released"}, Finish(r, state) PROVE TypeOK'
    BY <1>11, <2>1, FinishType DEF TypeOK, EndCompensation, bucketVars, drainVars
  <2> QED BY <1>11, <2>1 DEF EndCompensation
<1> QED BY <1>1, <1>2, <1>3, <1>4, <1>5, <1>6, <1>7, <1>8, <1>9, <1>10, <1>11 DEF Request

LEMMA DeletionTypes == ASSUME TypeOK, NEW e \in Epochs, Deletion(e) PROVE TypeOK'
<1> USE DEF TypeOK
<1>1. CASE StartDrain(e)
  BY <1>1 DEF StartDrain, rowVars, bucketVars
<1>2. CASE Drain(e)
  BY <1>2 DEF Drain, rowVars
<1>3. CASE DrainFails(e)
  BY <1>3, FaultType DEF DrainFails, DeleteSome, rowVars
<1>4. CASE Notify(e)
  BY <1>4 DEF Notify, rowVars, bucketVars, Calls
<1>5. CASE GiveUp(e)
  BY <1>5, FaultType DEF GiveUp, rowVars, bucketVars, Calls
<1>6. ASSUME NEW call \in Calls, ScanOnce(e, call) PROVE TypeOK'
  BY <1>6 DEF ScanOnce, Return, rowVars
<1>7. ASSUME NEW call \in Calls, ScanFails(e, call) PROVE TypeOK'
  BY <1>7, FaultType DEF ScanFails, DeleteSome, Return
<1>8. ASSUME NEW call \in Calls, Complete(e, call) PROVE TypeOK'
  BY <1>8 DEF Complete, Return, bucketVars
<1> QED BY <1>1, <1>2, <1>3, <1>4, <1>5, <1>6, <1>7, <1>8 DEF Deletion

\* No step leaves the types.
THEOREM NextTypes == TypeOK /\ [Next]_vars => TypeOK'
<1> SUFFICES ASSUME TypeOK, [Next]_vars PROVE TypeOK'
  OBVIOUS
<1>1. CASE Expire
  <2>1. op' \in Operations
    BY <1>1 DEF TypeOK, Expire, Operations
  <2> QED BY <1>1, <2>1, FaultType DEF TypeOK, Expire, bucketVars, drainVars
<1>2. CASE BeginDelete
  BY <1>2, BoundsAssumption DEF TypeOK, BeginDelete, bucketVars, drainVars
<1>3. CASE PlanDelete
  BY <1>3 DEF TypeOK, PlanDelete, rowVars, bucketVars
<1>4. ASSUME NEW v \in Versions, Upload(v) PROVE TypeOK'
  BY <1>4 DEF TypeOK, Upload, rowVars, drainVars
<1>5. CASE CloseEgress
  BY <1>5 DEF TypeOK, CloseEgress, rowVars, drainVars
<1>6. CASE UNCHANGED vars
  BY <1>6 DEF TypeOK, vars, rowVars, bucketVars, drainVars
<1> QED BY <1>1, <1>2, <1>3, <1>4, <1>5, <1>6, RequestTypes, DeletionTypes DEF Next

-----------------------------------------------------------------------------
(* Holds *)

\* A request whose task is Idle owns nothing, and nothing owns no operation.
LEMMA NoOwner ==
  /\ \A r \in Requests : op = NoOperation => ~Owns(r)
  /\ \A r \in Requests : task[r] = Idle /\ op \in Operations => ~Owns(r)
  /\ op \in Operations /\ op # NoOperation =>
       op.hold \in Holds /\ op.owner \in Requests /\ op.kind \in {"add", "release"}
<1>1. ASSUME NEW r \in Requests, op = NoOperation PROVE ~Owns(r)
  BY <1>1, NoneAssumption DEF NoOperation, Owns
<1>2. op \in Operations /\ op # NoOperation =>
        op.hold \in Holds /\ op.owner \in Requests /\ op.kind \in {"add", "release"}
  BY DEF Operations
<1>3. ASSUME NEW r \in Requests, task[r] = Idle, op \in Operations PROVE ~Owns(r)
  <2>1. task[r].hold = None
    BY <1>3 DEF Idle
  <2> QED BY <1>1, <1>2, <1>3, <2>1, NoneAssumption DEF Owns
<1> QED BY <1>1, <1>2, <1>3

\* A step that changes no hold and nothing the owner has in hand, and leaves no
\* version barer than it was.
LEMMA QuietStep ==
  ASSUME HoldInv, UNCHANGED <<hold, saved>>, Left' \subseteq Left, Bare' \subseteq Bare,
         op'.hold = op.hold, op'.kind = op.kind,
         \A q \in Requests : Owns(q)' => Owns(q) /\ task'[q] = task[q]
  PROVE OpShape' /\ Cover' /\ OwnerCovers'
<1> USE DEF HoldInv
<1>1. Unreleased' = Unreleased
  BY DEF Unreleased
<1>2. OpShape'
  BY <1>1 DEF OpShape, OperationHasHold
<1>3. Cover'
  BY <1>1 DEF Cover
<1>4. OwnerCovers'
  <2> SUFFICES ASSUME NEW q \in Requests, Owns(q)' PROVE InHand(task[q])'
    BY DEF OwnerCovers
  <2>1. InHand(task[q]) /\ task'[q] = task[q]
    BY DEF OwnerCovers
  <2> QED BY <2>1 DEF InHand
<1> QED BY <1>2, <1>3, <1>4

\* A call of the owner: if it bares a version, then as a release that succeeded.
LEMMA OwnerCall ==
  ASSUME TypeOK, HoldInv, NEW r \in Requests, Owns(r),
         NEW v \in task[r].todo, NEW ok \in BOOLEAN,
         Renew(r, Answered(task[r], v, ok)),
         UNCHANGED <<archive, hold, stored>>,
         Bare' \subseteq Bare \cup {v}, v \in Bare' => task[r].pc = "release" /\ ok
  PROVE HoldInv'
<1> USE DEF HoldInv
<1> DEFINE t == task[r]
           n == Answered(t, v, ok)
<1>1. op # NoOperation /\ op.owner = r /\ op.hold = t.hold /\ op.hold \in Holds
      /\ op.kind \in {"add", "release"}
  BY NoOwner DEF Owns, TypeOK
<1>2. t \in Tasks /\ v \in Versions
  BY DEF TypeOK, Tasks
<1>3. /\ n.pc = t.pc /\ n.hold = t.hold /\ n.todo = t.todo \ {v} /\ n.seen = t.seen
      /\ n.stable = t.stable
      /\ \A u \in Versions : u # v => n.results[u] = t.results[u]
      /\ (t.pc = "release" /\ ok => n.results[v] = "off")
  BY <1>2 DEF Answered, Tasks, Results
<1> HIDE DEF n
<1>4. /\ op' = [op EXCEPT !.live = TRUE] /\ saved' = [saved EXCEPT ![t.hold] = n.results]
      /\ task' = [task EXCEPT ![r] = n]
  <2>1. n.hold = t.hold
    BY <1>3
  <2> QED BY <2>1 DEF Renew, n
<1>5. op'.hold = op.hold /\ op'.owner = op.owner /\ op'.kind = op.kind
  BY <1>1, <1>4 DEF TypeOK, Operations, NoOperation
<1>6. task'[r] = n /\ saved'[op.hold] = n.results
      /\ \A h \in Holds : h # op.hold => saved'[h] = saved[h]
  BY <1>1, <1>4 DEF TypeOK
<1>7. Unreleased' = Unreleased /\ Left' = Left
  BY DEF Unreleased, Left
<1>8. Bare' \subseteq Versions /\ Bare \subseteq Left
  BY DEF Bare, Left, TypeOK
<1>9. \A q \in Requests : Owns(q)' => q = r
  BY <1>1, <1>5 DEF Owns
<1>10. hold[op.hold] # "none"
  BY <1>1 DEF OpShape, OperationHasHold
<1>11. IF op.kind = "add" THEN t.pc \in {"apply", "retry"} ELSE t.pc \in {"release", "compensate"}
  BY DEF OpShape
<1>12. InHand(t)
  BY DEF OwnerCovers
<1>13. OpShape'
  <2>1. OperationHasHold'
    BY <1>5 DEF OpShape, OperationHasHold
  <2>2. (op.kind = "release" => Unreleased = {op.hold})'
    BY <1>5, <1>7 DEF OpShape
  <2>3. ASSUME NEW q \in Requests, Owns(q)'
        PROVE (IF op.kind = "add" THEN task[q].pc \in {"apply", "retry"}
               ELSE task[q].pc \in {"release", "compensate"})'
    BY <2>3, <1>3, <1>5, <1>6, <1>9, <1>11
  <2>4. ASSUME NEW h \in Holds, hold[h] = "none" PROVE saved'[h] = NoResults
    BY <2>4, <1>6, <1>10 DEF OpShape
  <2> QED BY <2>1, <2>2, <2>3, <2>4 DEF OpShape
<1>14. \A u \in Bare' : IF u = v THEN t.pc = "release" /\ n.results[u] = "off"
                        ELSE u \in Bare /\ n.results[u] = t.results[u]
  <2> SUFFICES ASSUME NEW u \in Bare'
               PROVE IF u = v THEN t.pc = "release" /\ n.results[u] = "off"
                     ELSE u \in Bare /\ n.results[u] = t.results[u]
    OBVIOUS
  <2>1. CASE u = v
    <3>1. t.pc = "release" /\ ok
      BY <2>1
    <3>2. n.results[v] = "off"
      BY <3>1, <1>3
    <3>3. n.results[u] = "off"
      BY <3>2, <2>1
    <3> QED BY <2>1, <3>1, <3>3
  <2>2. CASE u # v
    <3>1. u \in Bare /\ u \in Versions
      BY <2>2, <1>8
    <3> QED BY <2>2, <3>1, <1>3
  <2> QED BY <2>1, <2>2
<1>15. Cover'
  <2>1. ASSUME Unreleased \ {op.hold} # {} PROVE Bare' = {}
    <3>1. op.kind = "add" /\ Bare = {}
      BY <2>1, <1>1 DEF OpShape, Cover
    <3> QED BY <3>1, <1>11
  <2>2. ASSUME op.kind = "add", NEW u \in Bare' PROVE n.results[u] # "on"
    BY <2>2, <1>11, <1>12, <1>14 DEF InHand
  <2>3. ASSUME op.kind = "release", NEW u \in Bare' PROVE n.results[u] = "off"
    BY <2>3, <1>11, <1>12, <1>14 DEF InHand
  <2> QED BY <1>5, <1>6, <1>7, <2>1, <2>2, <2>3 DEF Cover
<1>16. OwnerCovers'
  <2> SUFFICES InHand(task[r])'
    BY <1>9 DEF OwnerCovers
  <2>1. \A u \in t.todo : u \in Versions
    BY <1>2 DEF Tasks
  <2>2. ASSUME n.pc \in {"apply", "retry"}, NEW u \in Bare' PROVE u \in n.todo /\ n.results[u] # "on"
    BY <2>2, <1>3, <1>12, <1>14 DEF InHand
  <2>3. ASSUME n.pc = "compensate", NEW u \in Bare' PROVE u \in n.todo /\ n.results[u] = "off"
    BY <2>3, <1>3, <1>12, <1>14 DEF InHand
  <2>4. ASSUME n.pc = "release"
        PROVE /\ \A u \in Bare' : n.results[u] = "off"
              /\ \A u \in n.todo : n.results[u] # "off"
              /\ n.stable > 0 => Left' \subseteq n.seen
    BY <2>1, <2>4, <1>3, <1>7, <1>12, <1>14 DEF InHand
  <2> QED BY <1>6, <2>2, <2>3, <2>4 DEF InHand
<1>17. DeletionExcludesHold'
  BY <1>1, <1>7 DEF DeletionExcludesHold
<1> QED BY <1>13, <1>15, <1>16, <1>17

\* The end of an operation: the hold it leaves protects everything, unless it
\* is the one that was released.
LEMMA FinishStep ==
  ASSUME TypeOK, HoldInv, NEW r \in Requests, NEW state \in {"active", "failed", "released"},
         Finish(r, state), UNCHANGED <<archive, saved, bucketVars>>,
         Owns(r) => IF state = "released" THEN op.kind = "release" ELSE Bare = {}
  PROVE HoldInv'
<1> USE DEF HoldInv
<1>1. Left' = Left /\ Bare' = Bare
  BY DEF Left, Bare, bucketVars
<1>2. CASE ~Owns(r)
  <2>1. UNCHANGED <<op, hold>> /\ task' = [task EXCEPT ![r] = Idle]
    BY <1>2 DEF Finish
  <2>2. ASSUME NEW q \in Requests, Owns(q)' PROVE Owns(q) /\ task'[q] = task[q]
    <3>1. CASE q = r
      <4>1. task'[r] = Idle /\ op' \in Operations
        BY <2>1 DEF TypeOK
      <4>2. op.owner = r /\ op.hold = None
        BY <2>1, <2>2, <3>1, <4>1 DEF Owns, Idle
      <4> QED BY <4>2, NoOwner, NoneAssumption DEF TypeOK, NoOperation
    <3>2. CASE q # r
      BY <2>1, <2>2, <3>2 DEF Owns, TypeOK
    <3> QED BY <3>1, <3>2
  <2>3. OpShape' /\ Cover' /\ OwnerCovers'
    BY <1>1, <2>1, <2>2, QuietStep
  <2>4. DeletionExcludesHold'
    BY <2>1 DEF DeletionExcludesHold, Unreleased
  <2> QED BY <2>3, <2>4
<1>3. CASE Owns(r)
  <2>1. op # NoOperation /\ op.hold = task[r].hold /\ op.hold \in Holds
    BY <1>3, NoOwner DEF Owns, TypeOK
  <2>2. op' = NoOperation /\ hold' = [hold EXCEPT ![op.hold] = state]
    BY <1>3, <2>1 DEF Finish
  <2>3. op'.hold = None /\ op'.owner = None /\ op'.kind = "none"
    BY <2>2 DEF NoOperation
  <2>4. hold'[op.hold] = state /\ \A h \in Holds : h # op.hold => hold'[h] = hold[h]
    BY <2>1, <2>2 DEF TypeOK
  <2>5. \A q \in Requests : ~Owns(q)'
    BY <2>3, NoneAssumption DEF Owns
  <2>6. OperationHasHold'
    BY <2>3, <2>4, NoneAssumption DEF OpShape, OperationHasHold
  <2>7. OpShape'
    <3>1. \A h \in Holds : hold'[h] = "none" => saved'[h] = NoResults
      BY <2>4 DEF OpShape
    <3> QED BY <2>3, <2>5, <2>6, <3>1 DEF OpShape
  <2>8. Unreleased' \subseteq Unreleased \cup {op.hold}
        /\ (state = "released" => Unreleased' = Unreleased \ {op.hold})
    BY <2>4 DEF Unreleased
  <2>9. Cover'
    <3>1. ASSUME Unreleased' # {} PROVE Bare = {}
      BY <1>3, <2>8, <3>1 DEF OpShape
    <3> QED BY <1>1, <2>3, <3>1 DEF Cover
  <2>10. OwnerCovers'
    BY <2>5 DEF OwnerCovers
  <2>11. DeletionExcludesHold'
    BY <2>1 DEF DeletionExcludesHold
  <2> QED BY <2>7, <2>9, <2>10, <2>11
<1> QED BY <1>2, <1>3

\* A request that is gone, for whatever reason, leaves the operation as it is.
LEMMA GoneStep ==
  ASSUME TypeOK, HoldInv, NEW r \in Requests, task' = [task EXCEPT ![r] = Idle],
         UNCHANGED <<archive, hold, saved, op>>, Left' \subseteq Left, Bare' \subseteq Bare
  PROVE HoldInv'
<1>1. ASSUME NEW q \in Requests, Owns(q)' PROVE Owns(q) /\ task'[q] = task[q]
  <2>1. CASE q = r
    <3>1. task'[r] = Idle
      BY DEF TypeOK
    <3>2. op.owner = r /\ op.hold = None
      BY <1>1, <2>1, <3>1 DEF Owns, Idle
    <3> QED BY <3>2, NoOwner, NoneAssumption DEF TypeOK, NoOperation
  <2>2. CASE q # r
    BY <1>1, <2>2 DEF Owns, TypeOK
  <2> QED BY <2>1, <2>2
<1>2. OpShape' /\ Cover' /\ OwnerCovers'
  BY <1>1, QuietStep
<1> QED BY <1>2 DEF HoldInv, DeletionExcludesHold, Unreleased

\* A call of a request that owns nothing: it leaves no version bare that is not
\* counted as slipped.
LEMMA StrangerCall ==
  ASSUME TypeOK, HoldInv, NEW r \in Requests, ~Owns(r), NEW t, Renew(r, t),
         UNCHANGED <<archive, hold>>, Left' \subseteq Left, Bare' \subseteq Bare
  PROVE HoldInv'
BY GoneStep DEF Renew

\* A request that releases goes on: it lists, calls or begins to compensate.
LEMMA RearmStep ==
  ASSUME TypeOK, HoldInv, NEW r \in Requests, task[r].pc = "release",
         UNCHANGED <<archive, hold, saved, stored, held, slipped>>,
         op'.hold = op.hold, op'.owner = op.owner, op'.kind = op.kind,
         op = NoOperation => op' = op,
         task'[r].hold = task[r].hold, task'[r].results = task[r].results,
         \A q \in Requests : q # r => task'[q] = task[q],
         \/ /\ task'[r].pc = "release"
            /\ \A v \in task'[r].todo : task[r].results[v] # "off"
            /\ Owns(r) => Left \subseteq task'[r].seen
         \/ /\ task'[r].pc = "compensate"
            /\ Owns(r) => \A v \in Bare : v \in task'[r].todo /\ task[r].results[v] = "off"
  PROVE HoldInv'
<1> USE DEF HoldInv
<1>1. Left' = Left /\ Bare' = Bare /\ Unreleased' = Unreleased
  BY DEF Left, Bare, Unreleased
<1>2. \A q \in Requests : Owns(q)' <=> Owns(q)
  BY DEF Owns
<1>3. OpShape'
  <2>1. OperationHasHold'
    BY DEF OpShape, OperationHasHold
  <2>2. ASSUME NEW q \in Requests, Owns(q)'
        PROVE IF op.kind = "add" THEN task'[q].pc \in {"apply", "retry"}
              ELSE task'[q].pc \in {"release", "compensate"}
    <3>1. CASE q = r
      BY <1>2, <2>2, <3>1 DEF OpShape
    <3>2. CASE q # r
      BY <1>2, <2>2, <3>2 DEF OpShape
    <3> QED BY <3>1, <3>2
  <2> QED BY <1>1, <2>1, <2>2 DEF OpShape
<1>4. Cover'
  BY <1>1 DEF Cover
<1>5. OwnerCovers'
  <2> SUFFICES ASSUME NEW q \in Requests, Owns(q)' PROVE InHand(task[q])'
    BY DEF OwnerCovers
  <2>1. CASE q = r
    <3>1. Owns(r) /\ \A v \in Bare : task[r].results[v] = "off"
      BY <1>2, <2>1 DEF OwnerCovers, InHand
    <3> QED BY <1>1, <2>1, <3>1 DEF InHand
  <2>2. CASE q # r
    BY <1>1, <1>2, <2>2 DEF OwnerCovers, InHand
  <2> QED BY <2>1, <2>2
<1> QED BY <1>1, <1>3, <1>4, <1>5 DEF DeletionExcludesHold

\* Every step of a request.
LEMMA RequestKeeps ==
  ASSUME TypeOK, HoldInv, NEW r \in Requests, Request(r)
  PROVE HoldInv'
<1> USE DEF HoldInv
<1>1. CASE Recover(r)
  <2> DEFINE h == op.hold
  <2>1. op # NoOperation /\ h \in Holds /\ op.kind \in {"add", "release"} /\ op \in Operations
    BY <1>1, NoOwner DEF Recover, TypeOK
  <2>2. op'.hold = h /\ op'.owner = r /\ op'.kind = op.kind
    BY <1>1, <2>1 DEF Recover, Operations, NoOperation
  <2>3. task'[r] = IF op.kind = "add" THEN Apply(h, saved[h]) ELSE Release(h, saved[h])
    BY <1>1 DEF Recover, TypeOK
  <2>4. UNCHANGED <<archive, hold, saved, stored, held, slipped>>
    BY <1>1 DEF Recover, bucketVars
  <2>5. Unreleased' = Unreleased /\ Left' = Left /\ Bare' = Bare /\ Bare \subseteq stored
    BY <2>4 DEF Unreleased, Left, Bare
  <2>6. \A q \in Requests : Owns(q)' => q = r
    BY <2>2 DEF Owns
  <2>7. OpShape'
    <3>1. OperationHasHold'
      BY <2>2, <2>4 DEF OpShape, OperationHasHold
    <3>2. task'[r].pc = IF op.kind = "add" THEN "apply" ELSE "release"
      BY <2>3 DEF Apply, Release, Idle
    <3> QED BY <2>1, <2>2, <2>4, <2>5, <2>6, <3>1, <3>2 DEF OpShape
  <2>8. Cover'
    BY <2>2, <2>4, <2>5 DEF Cover
  <2>9. OwnerCovers'
    <3> SUFFICES InHand(task[r])'
      BY <2>6 DEF OwnerCovers
    <3>1. CASE op.kind = "add"
      <4>1. task'[r].pc = "apply" /\ task'[r].results = saved[h]
            /\ task'[r].todo = {v \in stored : saved[h][v] # "on"}
        BY <2>3, <3>1 DEF Apply, Idle
      <4> QED BY <2>5, <3>1, <4>1 DEF Cover, InHand
    <3>2. CASE op.kind = "release"
      <4>1. task'[r].pc = "release" /\ task'[r].results = saved[h] /\ task'[r].todo = {}
            /\ task'[r].stable = 0
        BY <2>3, <3>2 DEF Release, Idle
      <4> QED BY <2>5, <3>2, <4>1 DEF Cover, InHand
    <3> QED BY <2>1, <3>1, <3>2
  <2>10. DeletionExcludesHold'
    BY <2>1, <2>4 DEF DeletionExcludesHold
  <2> QED BY <2>7, <2>8, <2>9, <2>10
<1>2. ASSUME NEW h \in Holds, AddHold(r, h) PROVE HoldInv'
  <2>1. op = NoOperation /\ hold[h] = "none" /\ saved[h] = NoResults
        /\ op' = [hold |-> h, owner |-> r, kind |-> "add", live |-> TRUE]
        /\ hold' = [hold EXCEPT ![h] = "applying"]
    BY <1>2 DEF AddHold, Begin, OpShape
  <2>2. UNCHANGED <<archive, saved, stored, held, slipped>> /\ archive \in {"complete", "incomplete"}
        /\ task' = [task EXCEPT ![r] = Apply(h, NoResults)]
    BY <1>2 DEF AddHold, bucketVars
  <2>3. op'.hold = h /\ op'.owner = r /\ op'.kind = "add" /\ op.hold = None /\ op.kind = "none"
    BY <2>1 DEF NoOperation
  <2>4. hold'[h] = "applying" /\ \A g \in Holds : g # h => hold'[g] = hold[g]
    BY <2>1 DEF TypeOK
  <2>5. Left' = Left /\ Bare' = Bare /\ Bare \subseteq stored /\ Bare \subseteq Versions
    BY <2>2 DEF Left, Bare, TypeOK
  <2>6. Unreleased' \ {h} \subseteq Unreleased
    BY <2>4 DEF Unreleased
  <2>7. \A q \in Requests : Owns(q)' => q = r
    BY <2>3 DEF Owns
  <2>8. task'[r].pc = "apply" /\ task'[r].todo = {v \in stored : NoResults[v] # "on"}
        /\ task'[r].results = NoResults
    BY <2>2 DEF TypeOK, Apply, Idle
  <2>9. \A v \in Versions : NoResults[v] = "none"
    BY DEF NoResults
  <2>10. OpShape'
    <3>1. OperationHasHold'
      BY <2>3, <2>4, NoneAssumption DEF OpShape, OperationHasHold
    <3> QED BY <2>2, <2>3, <2>4, <2>7, <2>8, <3>1 DEF OpShape
  <2>11. Cover'
    <3>1. Unreleased # {} => Bare = {}
      BY <2>3, NoneAssumption DEF Cover, Unreleased
    <3>2. \A v \in Bare : saved[h][v] # "on"
      BY <2>1, <2>5, <2>9
    <3> QED BY <2>2, <2>3, <2>5, <2>6, <3>1, <3>2 DEF Cover
  <2>12. OwnerCovers'
    BY <2>5, <2>7, <2>8, <2>9 DEF OwnerCovers, InHand
  <2> QED BY <2>2, <2>10, <2>11, <2>12 DEF DeletionExcludesHold
<1>3. ASSUME NEW h \in Holds, ReleaseShared(r, h) PROVE HoldInv'
  <2>1. op = NoOperation /\ hold[h] \in {"active", "failed", "applying", "releasing"}
        /\ UNCHANGED <<archive, saved, op, stored, held, slipped, task>>
        /\ hold' = [hold EXCEPT ![h] = "released"] /\ archive \in {"complete", "incomplete"}
        /\ Unreleased # {}
    BY <1>3 DEF ReleaseShared, Unreleased, bucketVars
  <2>2. op.hold = None /\ op.kind = "none"
    BY <2>1 DEF NoOperation
  <2>3. hold'[h] = "released" /\ \A g \in Holds : g # h => hold'[g] = hold[g]
    BY <2>1 DEF TypeOK
  <2>4. Bare = {} /\ Bare' = {}
    BY <2>1, <2>2, NoneAssumption DEF Cover, Bare, Left, Unreleased
  <2>5. \A q \in Requests : ~Owns(q)'
    BY <2>1, <2>2, NoneAssumption DEF Owns, NoOperation
  <2>6. OperationHasHold'
    BY <2>1, <2>2, <2>3, NoneAssumption DEF OpShape, OperationHasHold
  <2>7. OpShape'
    BY <2>1, <2>2, <2>3, <2>5, <2>6 DEF OpShape
  <2>8. Cover' /\ OwnerCovers'
    BY <2>1, <2>2, <2>4, <2>5 DEF Cover, OwnerCovers
  <2> QED BY <2>1, <2>7, <2>8 DEF DeletionExcludesHold
<1>4. ASSUME NEW h \in Holds, ReleaseLast(r, h) PROVE HoldInv'
  <2>1. op = NoOperation /\ Unreleased = {h}
        /\ op' = [hold |-> h, owner |-> r, kind |-> "release", live |-> TRUE]
        /\ hold' = [hold EXCEPT ![h] = "releasing"]
        /\ UNCHANGED <<archive, saved, stored, held, slipped>> /\ archive \in {"complete", "incomplete"}
        /\ task' = [task EXCEPT ![r] = Release(h, NoResults)]
    BY <1>4 DEF ReleaseLast, Begin, bucketVars
  <2>2. op'.hold = h /\ op'.owner = r /\ op'.kind = "release" /\ op.hold = None /\ op.kind = "none"
    BY <2>1 DEF NoOperation
  <2>3. hold'[h] = "releasing" /\ \A g \in Holds : g # h => hold'[g] = hold[g]
    BY <2>1 DEF TypeOK
  <2>4. Bare = {} /\ Bare' = {} /\ Left' = Left
    BY <2>1, <2>2, NoneAssumption DEF Cover, Bare, Left
  <2>5. Unreleased' = {h}
    BY <2>1, <2>3 DEF Unreleased
  <2>6. \A q \in Requests : Owns(q)' => q = r
    BY <2>2 DEF Owns
  <2>7. task'[r].pc = "release" /\ task'[r].todo = {} /\ task'[r].stable = 0
    BY <2>1 DEF TypeOK, Release, Idle
  <2>8. OperationHasHold'
    BY <2>2, <2>3, NoneAssumption DEF OpShape, OperationHasHold
  <2>9. OpShape'
    BY <2>1, <2>2, <2>3, <2>5, <2>6, <2>7, <2>8 DEF OpShape
  <2>10. Cover' /\ OwnerCovers'
    BY <2>4, <2>6, <2>7 DEF Cover, OwnerCovers, InHand
  <2> QED BY <2>1, <2>9, <2>10 DEF DeletionExcludesHold
<1>5. CASE Call(r)
  <2>1. PICK v \in task[r].todo \cap stored :
          /\ Land(v, Protecting(task[r]))
          /\ IF Owns(r) THEN slipped' = slipped \ {v} ELSE Slip(task[r], v)
          /\ Renew(r, Answered(task[r], v, TRUE))
          /\ UNCHANGED <<archive, epoch, hold, stored, open, drainVars, faults>>
    BY <1>5 DEF Call
  <2>2. Left' = Left
    BY <2>1 DEF Left
  <2>3. CASE Owns(r)
    <3>1. Bare' \subseteq Bare \cup {v}
      BY <2>1, <2>2, <2>3 DEF Bare, Land
    <3>2. ASSUME v \in Bare' PROVE task[r].pc = "release"
      <4>1. ~Protecting(task[r])
        BY <2>1, <3>2 DEF Bare, Land
      <4>2. task[r].pc \in {"apply", "retry", "release", "compensate"}
        BY <2>3 DEF OpShape
      <4> QED BY <4>1, <4>2 DEF Protecting
    <3> QED BY <2>1, <2>3, <3>1, <3>2, OwnerCall
  <2>4. CASE ~Owns(r)
    <3>1. Bare' \subseteq Bare
      BY <2>1, <2>2, <2>4 DEF Bare, Land, Slip
    <3> QED BY <2>1, <2>2, <2>4, <3>1, StrangerCall
  <2> QED BY <2>3, <2>4
<1>6. CASE CallFails(r)
  <2>1. PICK v \in task[r].todo :
          /\ \/ /\ UNCHANGED held
                /\ slipped' = IF Protecting(task[r]) THEN slipped \cup ({v} \ held) ELSE slipped
             \/ v \in stored /\ Land(v, Protecting(task[r])) /\ Slip(task[r], v)
          /\ Renew(r, Answered(task[r], v, FALSE))
          /\ UNCHANGED <<archive, epoch, hold, stored, open, drainVars>>
    BY <1>6 DEF CallFails
  <2>2. Left' = Left /\ Bare' \subseteq Bare
    BY <2>1 DEF Left, Bare, Land, Slip
  <2>3. CASE Owns(r)
    <3>1. v \notin Bare'
      <4>1. task[r].pc = "release" => v \notin Bare
        BY <2>3 DEF OwnerCovers, InHand
      <4>2. task[r].pc \in {"apply", "retry", "release", "compensate"}
        BY <2>3 DEF OpShape
      <4> QED BY <2>1, <2>2, <4>1, <4>2 DEF Bare, Protecting, Land, Slip
    <3> QED BY <2>1, <2>2, <2>3, <3>1, OwnerCall
  <2>4. CASE ~Owns(r)
    BY <2>1, <2>2, <2>4, StrangerCall
  <2> QED BY <2>3, <2>4
<1>7. CASE Die(r)
  <2>1. UNCHANGED <<archive, hold, saved, op, stored>> /\ task' = [task EXCEPT ![r] = Idle]
    BY <1>7 DEF Die, rowVars
  <2>2. Left' = Left /\ Bare' \subseteq Bare
    BY <1>7, <2>1 DEF Die, Left, Bare, Land, Slip
  <2> QED BY <2>1, <2>2, GoneStep
<1>8. CASE EndApply(r)
  <2> DEFINE t == task[r]
  <2>1. t.pc \in {"apply", "retry"} /\ t.todo = {}
        /\ UNCHANGED <<archive, saved, stored, held, open, slipped>>
    BY <1>8 DEF EndApply, bucketVars
  <2>2. Owns(r) => Bare = {}
    BY <2>1 DEF OwnerCovers, InHand
  <2>3. Left' = Left /\ Bare' = Bare
    BY <2>1 DEF Left, Bare
  <2>4. CASE task' = [task EXCEPT ![r].pc = "retry", ![r].todo = Unprotected(t)] /\ UNCHANGED <<op, hold>>
    <3>1. task'[r].pc = "retry" /\ task'[r].hold = t.hold
          /\ \A q \in Requests : q # r => task'[q] = task[q]
      BY <2>4 DEF TypeOK, Tasks
    <3>2. UNCHANGED <<op, hold, saved, archive>> /\ Unreleased' = Unreleased
      BY <2>1, <2>4 DEF Unreleased
    <3>3. \A q \in Requests : Owns(q)' <=> Owns(q)
      BY <3>1, <3>2 DEF Owns
    <3>4. OpShape'
      <4>1. OperationHasHold'
        BY <3>2 DEF OpShape, OperationHasHold
      <4>2. ASSUME NEW q \in Requests, Owns(q)'
            PROVE IF op.kind = "add" THEN task'[q].pc \in {"apply", "retry"}
                  ELSE task'[q].pc \in {"release", "compensate"}
        <5>1. CASE q = r
          BY <2>1, <3>1, <3>3, <4>2, <5>1 DEF OpShape
        <5>2. CASE q # r
          BY <3>1, <3>3, <4>2, <5>2 DEF OpShape
        <5> QED BY <5>1, <5>2
      <4> QED BY <3>2, <4>1, <4>2 DEF OpShape
    <3>5. Cover'
      BY <2>3, <3>2 DEF Cover
    <3>6. OwnerCovers'
      <4> SUFFICES ASSUME NEW q \in Requests, Owns(q)' PROVE InHand(task[q])'
        BY DEF OwnerCovers
      <4>1. CASE q = r
        BY <2>2, <2>3, <3>1, <3>3, <4>1 DEF InHand
      <4>2. CASE q # r
        BY <2>3, <3>1, <3>3, <4>2 DEF OwnerCovers, InHand
      <4> QED BY <4>1, <4>2
    <3> QED BY <3>2, <3>4, <3>5, <3>6 DEF DeletionExcludesHold
  <2>5. ASSUME NEW state \in {"active", "failed"}, Finish(r, state) PROVE HoldInv'
    BY <2>1, <2>2, <2>5, FinishStep DEF bucketVars
  <2> QED BY <1>8, <2>4, <2>5 DEF EndApply
<1>9. CASE Rescan(r)
  <2> DEFINE t == task[r]
  <2>1. t.pc = "release" /\ UNCHANGED <<archive, epoch, hold, saved, op, stored, held, slipped>>
    BY <1>9 DEF Rescan, rowVars, bucketVars
  <2>2. /\ task'[r].pc = "release" /\ task'[r].hold = t.hold /\ task'[r].results = t.results
        /\ task'[r].todo = {v \in stored : t.results[v] \notin {"off", "kept"}}
        /\ stored \subseteq task'[r].seen
        /\ \A q \in Requests : q # r => task'[q] = task[q]
    BY <1>9, <2>1 DEF Rescan, TypeOK, Tasks
  <2> QED BY <2>1, <2>2, RearmStep DEF Left
<1>10. CASE EndRelease(r)
  <2> DEFINE t == task[r]
             pending == {v \in Registered : t.results[v] # "off"}
  <2>1. t.pc = "release" /\ t.todo = {} /\ t.stable = 2
        /\ UNCHANGED <<archive, epoch, stored, held, open, slipped>>
    BY <1>10 DEF EndRelease, bucketVars
  <2>2. CASE /\ task' = [task EXCEPT ![r].pc = "compensate", ![r].todo = t.seen \ Kept(t),
                                     ![r].seen = t.seen \ Kept(t)]
             /\ UNCHANGED <<op, hold, saved>>
    <3>1. /\ task'[r].pc = "compensate" /\ task'[r].hold = t.hold /\ task'[r].results = t.results
          /\ task'[r].todo = t.seen \ Kept(t)
          /\ \A q \in Requests : q # r => task'[q] = task[q]
      <4>1. task \in [Requests -> Tasks] /\ t \in Tasks
        BY DEF TypeOK
      <4>2. task'[r] = [t EXCEPT !.pc = "compensate", !.todo = t.seen \ Kept(t),
                                 !.seen = t.seen \ Kept(t)]
        BY <2>2, <4>1
      <4>3. \A q \in Requests : q # r => task'[q] = task[q]
        BY <2>2, <4>1
      <4> HIDE DEF t
      <4> QED BY <4>1, <4>2, <4>3 DEF Tasks
    <3>2. Owns(r) => \A v \in Bare : v \in task'[r].todo /\ task'[r].results[v] = "off"
      <4>1. Owns(r) => Left \subseteq t.seen /\ \A v \in Bare : t.results[v] = "off"
        BY <2>1 DEF OwnerCovers, InHand
      <4> QED BY <3>1, <4>1 DEF Kept, Bare
    <3>3. /\ task[r].pc = "release" /\ task'[r].pc = "compensate"
          /\ task'[r].hold = task[r].hold /\ task'[r].results = task[r].results
      BY <2>1, <3>1
    <3>4. Owns(r) => \A v \in Bare : v \in task'[r].todo /\ task[r].results[v] = "off"
      BY <3>2, <3>3
    <3>5. \A q \in Requests : q # r => task'[q] = task[q]
      BY <3>1
    <3>6. UNCHANGED <<archive, hold, saved, stored, held, slipped, op>>
      BY <2>1, <2>2
    <3> QED BY <3>3, <3>4, <3>5, <3>6, RearmStep
  <2>3. CASE /\ UNCHANGED <<hold, saved>>
             /\ IF Owns(r)
                THEN /\ task' = [task EXCEPT ![r].todo = pending, ![r].seen = @ \cup pending]
                     /\ op' = [op EXCEPT !.live = TRUE]
                ELSE task' = [task EXCEPT ![r] = Idle] /\ UNCHANGED op
    <3>1. CASE Owns(r)
      <4>1. /\ task'[r].pc = "release" /\ task'[r].hold = t.hold /\ task'[r].results = t.results
            /\ task'[r].todo = pending /\ task'[r].stable = t.stable
            /\ t.seen \subseteq task'[r].seen
            /\ \A q \in Requests : q # r => task'[q] = task[q]
        BY <2>1, <2>3, <3>1 DEF TypeOK, Tasks
      <4>2. op'.hold = op.hold /\ op'.owner = op.owner /\ op'.kind = op.kind /\ op # NoOperation
        <5>1. op # NoOperation /\ op \in Operations
          BY <3>1, NoOwner DEF TypeOK
        <5> QED BY <2>3, <3>1, <5>1 DEF Operations, NoOperation
      <4>3. Left \subseteq task'[r].seen
        BY <2>1, <3>1, <4>1 DEF OwnerCovers, InHand
      <4> QED BY <2>1, <2>3, <4>1, <4>2, <4>3, RearmStep
    <3>2. CASE ~Owns(r)
      BY <2>1, <2>3, <3>2, GoneStep DEF Left, Bare
    <3> QED BY <3>1, <3>2
  <2>4. CASE Kept(t) = {} /\ Finish(r, "released") /\ UNCHANGED saved
    <3>1. Owns(r) => op.kind = "release"
      <4>1. Owns(r) => op.kind # "add" /\ op # NoOperation
        BY <2>1, NoOwner DEF OpShape
      <4> QED BY <4>1, NoOwner DEF TypeOK
    <3> QED BY <2>1, <2>4, <3>1, FinishStep DEF bucketVars
  <2> QED BY <1>10, <2>2, <2>3, <2>4 DEF EndRelease
<1>11. CASE EndCompensation(r)
  <2>1. task[r].pc = "compensate" /\ task[r].todo = {} /\ UNCHANGED <<archive, saved, bucketVars>>
    BY <1>11 DEF EndCompensation
  <2>2. Owns(r) => Bare = {}
    BY <2>1 DEF OwnerCovers, InHand
  <2>3. ASSUME NEW state \in {"active", "failed"}, Finish(r, state) PROVE HoldInv'
    BY <2>1, <2>2, <2>3, FinishStep
  <2> QED BY <1>11, <2>3 DEF EndCompensation
<1> QED BY <1>1, <1>2, <1>3, <1>4, <1>5, <1>6, <1>7, <1>8, <1>9, <1>10, <1>11 DEF Request

\* Every step of a deletion: objects go, and nothing else that holds are about.
LEMMA DeletionKeeps ==
  ASSUME TypeOK, HoldInv, NEW e \in Epochs, Deletion(e)
  PROVE HoldInv'
<1>1. UNCHANGED <<hold, saved, op, task, held, slipped>> /\ stored' \subseteq stored
      /\ (archive' \in {"deleting", "deleted"} => archive \in {"deleting", "deleted"})
  <2>1. ASSUME NEW call \in Calls, ScanOnce(e, call) \/ ScanFails(e, call) \/ Complete(e, call)
        PROVE UNCHANGED <<hold, saved, op, task, held, slipped>> /\ stored' \subseteq stored
              /\ (archive' \in {"deleting", "deleted"} => archive \in {"deleting", "deleted"})
    BY <2>1 DEF ScanOnce, ScanFails, Complete, IsDeleting, DeleteSome, rowVars, bucketVars
  <2>2. ASSUME StartDrain(e) \/ Drain(e) \/ DrainFails(e) \/ Notify(e) \/ GiveUp(e)
        PROVE UNCHANGED <<hold, saved, op, task, held, slipped>> /\ stored' \subseteq stored
              /\ (archive' \in {"deleting", "deleted"} => archive \in {"deleting", "deleted"})
    BY <2>2 DEF StartDrain, Drain, DrainFails, Notify, GiveUp, DeleteSome, rowVars, bucketVars
  <2> QED BY <2>1, <2>2 DEF Deletion
<1>2. Left' \subseteq Left /\ Bare' \subseteq Bare
  BY <1>1 DEF Left, Bare
<1>3. \A q \in Requests : Owns(q)' => Owns(q) /\ task'[q] = task[q]
  BY <1>1 DEF Owns
<1>4. OpShape' /\ Cover' /\ OwnerCovers'
  BY <1>1, <1>2, <1>3, QuietStep
<1> QED BY <1>1, <1>4 DEF HoldInv, DeletionExcludesHold, Unreleased

\* No step breaks what holds promise.
LEMMA HoldStep == ASSUME TypeOK, HoldInv, [Next]_vars PROVE HoldInv'
<1>1. CASE Expire
  <2>1. op' = [op EXCEPT !.live = FALSE] /\ op # NoOperation
        /\ UNCHANGED <<archive, hold, saved, task, stored, held, slipped>>
    BY <1>1 DEF Expire, bucketVars
  <2>2. op'.hold = op.hold /\ op'.owner = op.owner /\ op'.kind = op.kind
    BY <2>1 DEF TypeOK, Operations, NoOperation
  <2>3. Left' = Left /\ Bare' = Bare /\ \A q \in Requests : Owns(q)' => Owns(q)
    BY <2>1, <2>2 DEF Left, Bare, Owns
  <2>4. OpShape' /\ Cover' /\ OwnerCovers'
    BY <2>1, <2>2, <2>3, QuietStep
  <2> QED BY <2>1, <2>4 DEF HoldInv, DeletionExcludesHold
<1>2. CASE BeginDelete
  <2>1. UNCHANGED <<hold, saved, op, task, stored, held, slipped>> /\ Unreleased = {}
    BY <1>2 DEF BeginDelete, bucketVars
  <2>2. OpShape' /\ Cover' /\ OwnerCovers'
    BY <2>1, QuietStep DEF Left, Bare, Owns
  <2>3. op = NoOperation
    <3> SUFFICES ASSUME op # NoOperation PROVE FALSE
      OBVIOUS
    <3>1. op.hold \in Holds /\ op.kind \in {"add", "release"}
      BY NoOwner DEF TypeOK
    <3>2. hold[op.hold] \in {"applying", "releasing"}
      BY <3>1 DEF HoldInv, OpShape, OperationHasHold
    <3> QED BY <2>1, <3>1, <3>2 DEF Unreleased
  <2> QED BY <2>1, <2>2, <2>3 DEF HoldInv, DeletionExcludesHold, Unreleased
<1>3. CASE PlanDelete \/ CloseEgress \/ \E v \in Versions : Upload(v)
  <2>1. UNCHANGED <<archive, hold, saved, op, task, held, slipped>> /\ Left' = Left
    BY <1>3 DEF PlanDelete, CloseEgress, Upload, Left, rowVars, bucketVars
  <2>2. OpShape' /\ Cover' /\ OwnerCovers'
    BY <2>1, QuietStep DEF Bare, Owns
  <2> QED BY <2>1, <2>2 DEF HoldInv, DeletionExcludesHold, Unreleased
<1>4. CASE UNCHANGED vars
  <2>1. UNCHANGED <<archive, hold, saved, op, task, stored, held, slipped>>
    BY <1>4 DEF vars, rowVars, bucketVars
  <2>2. OpShape' /\ Cover' /\ OwnerCovers'
    BY <2>1, QuietStep DEF Left, Bare, Owns
  <2> QED BY <2>1, <2>2 DEF HoldInv, DeletionExcludesHold, Unreleased
<1> QED BY <1>1, <1>2, <1>3, <1>4, RequestKeeps, DeletionKeeps DEF Next

\* At the start nobody holds anything.
LEMMA InitHolds == Init => HoldInv
<1> SUFFICES ASSUME Init PROVE HoldInv
  OBVIOUS
<1>1. op = NoOperation /\ op.hold = None /\ op.kind = "none" /\ Unreleased = {}
      /\ \A h \in Holds : hold[h] = "none" /\ saved[h] = NoResults
  BY DEF Init, NoOperation, Unreleased
<1>2. \A r \in Requests : ~Owns(r)
  BY <1>1, NoOwner
<1>3. OpShape
  BY <1>1, <1>2, NoneAssumption DEF OpShape, OperationHasHold
<1> QED BY <1>1, <1>2, <1>3 DEF HoldInv, DeletionExcludesHold, Cover, OwnerCovers

-----------------------------------------------------------------------------
(* One fault, one version *)

\* What the faults of a run have been spent on: versions left that slipped,
\* requests whose operation was taken over and that have not found out (each may
\* still release one version), and an owner that has stalled.
Tainted == slipped \cap Left
Lapsed == {r \in Requests : task[r] # Idle /\ ~Owns(r)}
Stalled == IF op # NoOperation /\ ~op.live /\ Owns(op.owner) THEN 1 ELSE 0
Budget == Cardinality(Tainted) + Cardinality(Lapsed) + Stalled <= faults

\* What a set of at most one more, or of one fewer, counts.
LEMMA Counting ==
  ASSUME NEW S, IsFiniteSet(S), NEW T, NEW x
  PROVE /\ Cardinality(S) \in Nat
        /\ T \subseteq S => IsFiniteSet(T) /\ Cardinality(T) \in Nat /\ Cardinality(T) <= Cardinality(S)
        /\ T \subseteq S \cup {x} => Cardinality(T) \in Nat /\ Cardinality(T) <= Cardinality(S) + 1
        /\ x \in S /\ T \subseteq S \ {x} => Cardinality(T) <= Cardinality(S) - 1
<1>1. Cardinality(S) \in Nat
  BY FS_CardinalityType
<1>2. ASSUME T \subseteq S
      PROVE IsFiniteSet(T) /\ Cardinality(T) \in Nat /\ Cardinality(T) <= Cardinality(S)
  BY <1>2, FS_Subset, FS_CardinalityType
<1>3. ASSUME T \subseteq S \cup {x}
      PROVE Cardinality(T) \in Nat /\ Cardinality(T) <= Cardinality(S) + 1
  <2>1. IsFiniteSet(S \cup {x}) /\ Cardinality(S \cup {x}) <= Cardinality(S) + 1
    BY <1>1, FS_AddElement
  <2>2. Cardinality(T) \in Nat /\ Cardinality(T) <= Cardinality(S \cup {x})
        /\ Cardinality(S \cup {x}) \in Nat
    BY <1>3, <2>1, FS_Subset, FS_CardinalityType
  <2> QED BY <1>1, <2>1, <2>2
<1>4. ASSUME x \in S, T \subseteq S \ {x} PROVE Cardinality(T) <= Cardinality(S) - 1
  <2>1. IsFiniteSet(S \ {x}) /\ Cardinality(S \ {x}) = Cardinality(S) - 1
    BY <1>4, FS_RemoveElement
  <2> QED BY <1>4, <2>1, FS_Subset
<1> QED BY <1>1, <1>2, <1>3, <1>4

\* Both sets are finite, in any state.
LEMMA FiniteSpending ==
  IsFiniteSet(Tainted) /\ IsFiniteSet(Lapsed) /\ Stalled \in {0, 1}
<1>1. Tainted \subseteq Registered /\ Lapsed \subseteq Requests
  BY DEF Tainted, Left, Lapsed
<1> QED BY <1>1, FiniteAssumption, FS_Subset DEF Stalled

\* How a step may spend: nothing; a lapsed request on a version; a fault on a
\* version, or on a stalled owner; a stalled owner on a lapsed request.
Saves == Tainted' \subseteq Tainted /\ Lapsed' \subseteq Lapsed /\ Stalled' <= Stalled
Slips(v) == Tainted' \subseteq Tainted \cup {v} /\ Stalled' <= Stalled
Spends ==
  \/ Saves /\ faults' \in {faults, faults + 1}
  \/ /\ \E v, r : Slips(v) /\ r \in Lapsed /\ Lapsed' \subseteq Lapsed \ {r}
     /\ faults' = faults
  \/ /\ \E v : Slips(v) /\ Lapsed' \subseteq Lapsed
     /\ faults' = faults + 1
  \/ /\ Tainted' \subseteq Tainted /\ Lapsed' \subseteq Lapsed /\ Stalled' <= Stalled + 1
     /\ faults' = faults + 1
  \/ /\ Tainted' \subseteq Tainted /\ \E r : Lapsed' \subseteq Lapsed \cup {r}
     /\ Stalled = 1 /\ Stalled' = 0 /\ faults' = faults

LEMMA BudgetKept ==
  ASSUME TypeOK, Budget, Spends, Stalled' \in {0, 1}
  PROVE Budget'
<1>1. /\ IsFiniteSet(Tainted) /\ IsFiniteSet(Lapsed) /\ Stalled \in {0, 1} /\ faults \in Nat
      /\ Cardinality(Tainted) \in Nat /\ Cardinality(Lapsed) \in Nat
  BY FiniteSpending, FS_CardinalityType DEF TypeOK
<1> DEFINE T == Cardinality(Tainted)
           L == Cardinality(Lapsed)
           T1 == Cardinality(Tainted')
           L1 == Cardinality(Lapsed')
           z == Stalled
           z1 == Stalled'
<1>2. Tainted' \subseteq Tainted => T1 \in Nat /\ T1 <= T
  BY <1>1, Counting
<1>3. \A v : Tainted' \subseteq Tainted \cup {v} => T1 \in Nat /\ T1 <= T + 1
  BY <1>1, Counting
<1>4. Lapsed' \subseteq Lapsed => L1 \in Nat /\ L1 <= L
  BY <1>1, Counting
<1>5. \A r : Lapsed' \subseteq Lapsed \cup {r} => L1 \in Nat /\ L1 <= L + 1
  BY <1>1, Counting
<1>6. \A r : r \in Lapsed /\ Lapsed' \subseteq Lapsed \ {r} => L1 \in Nat /\ L1 <= L - 1
  <2> SUFFICES ASSUME NEW r \in Lapsed, Lapsed' \subseteq Lapsed \ {r}
               PROVE L1 \in Nat /\ L1 <= L - 1
    OBVIOUS
  <2>1. L1 <= L - 1
    BY <1>1, Counting
  <2> QED BY <1>4, <2>1
<1>7. T + L + z <= faults
  BY DEF Budget
<1>8. \/ T1 \in Nat /\ L1 \in Nat /\ T1 <= T /\ L1 <= L /\ z1 <= z /\ faults' \in {faults, faults + 1}
      \/ T1 \in Nat /\ L1 \in Nat /\ T1 <= T + 1 /\ L1 <= L - 1 /\ z1 <= z /\ faults' = faults
      \/ T1 \in Nat /\ L1 \in Nat /\ T1 <= T + 1 /\ L1 <= L /\ z1 <= z /\ faults' = faults + 1
      \/ T1 \in Nat /\ L1 \in Nat /\ T1 <= T /\ L1 <= L /\ z1 <= z + 1 /\ faults' = faults + 1
      \/ T1 \in Nat /\ L1 \in Nat /\ T1 <= T /\ L1 <= L + 1 /\ z = 1 /\ z1 = 0 /\ faults' = faults
  <2> HIDE DEF T, L, T1, L1
  <2> QED BY <1>2, <1>3, <1>4, <1>5, <1>6 DEF Spends, Saves, Slips
<1>9. T1 + L1 + z1 <= faults'
  <2>1. T \in Nat /\ L \in Nat /\ z \in {0, 1} /\ z1 \in {0, 1} /\ faults \in Nat
    BY <1>1
  <2> HIDE DEF T, L, T1, L1, z, z1
  <2> QED BY <1>7, <1>8, <2>1
<1> QED BY <1>9 DEF Budget

\* A step that leaves operations as they are, and of a request at most its last
\* words, lets no other lapse and no owner stall.
LEMMA IdleSpends ==
  ASSUME TypeOK, NEW r \in Requests, task' = [task EXCEPT ![r] = Idle], UNCHANGED op
  PROVE  Lapsed' \subseteq Lapsed \ {r} /\ Stalled' <= Stalled
<1>1. task'[r] = Idle /\ \A q \in Requests : q # r => task'[q] = task[q]
  BY DEF TypeOK
<1>2. Lapsed' \subseteq Lapsed \ {r}
  BY <1>1 DEF Lapsed, Owns
<1>3. op # NoOperation /\ Owns(op.owner)' => Owns(op.owner)
  <2> SUFFICES ASSUME op # NoOperation, op'.hold = task'[op'.owner].hold PROVE Owns(op.owner)
    BY DEF Owns
  <2>1. op.owner \in Requests /\ op.hold \in Holds
    BY NoOwner DEF TypeOK
  <2>2. op.owner # r
    <3>1. task'[r].hold = None
      BY <1>1 DEF Idle
    <3> QED BY <2>1, <3>1, NoneAssumption
  <2> QED BY <1>1, <2>1, <2>2 DEF Owns
<1>4. Stalled' <= Stalled
  BY <1>3 DEF Stalled
<1> QED BY <1>2, <1>4

\* A step of the operation's owner that keeps it, and renews its lease.
LEMMA OwnerSpends ==
  ASSUME TypeOK, NEW r \in Requests, Owns(r), NEW t, t.hold = task[r].hold,
         task' = [task EXCEPT ![r] = t], op' = [op EXCEPT !.live = TRUE]
  PROVE  Lapsed' \subseteq Lapsed /\ Stalled' <= Stalled
<1>1. task'[r] = t /\ \A q \in Requests : q # r => task'[q] = task[q]
  BY DEF TypeOK
<1>2. op # NoOperation /\ op \in Operations
  BY NoOwner DEF TypeOK
<1>3. op'.live = TRUE /\ op'.hold = op.hold /\ op'.owner = op.owner
  BY <1>2 DEF Operations, NoOperation
<1>4. \A q \in Requests : Owns(q) => Owns(q)'
  BY <1>1, <1>3 DEF Owns
<1>5. Lapsed' \subseteq Lapsed
  BY <1>1, <1>4 DEF Lapsed
<1>6. Stalled' = 0
  BY <1>3 DEF Stalled
<1> QED BY <1>5, <1>6 DEF Stalled

\* The end of an operation, or of a request that lost it.
LEMMA FinishSpends ==
  ASSUME TypeOK, NEW r \in Requests, NEW state, Finish(r, state)
  PROVE  Lapsed' \subseteq Lapsed /\ Stalled' <= Stalled
<1>1. CASE Owns(r)
  <2>1. op' = NoOperation /\ task' = [task EXCEPT ![r] = Idle]
    BY <1>1 DEF Finish
  <2>2. task'[r] = Idle /\ \A q \in Requests : q # r => task'[q] = task[q] /\ ~Owns(q)
    BY <1>1, <2>1 DEF TypeOK, Owns
  <2>3. Lapsed' \subseteq Lapsed
    BY <2>2 DEF Lapsed
  <2> QED BY <2>1, <2>3 DEF Stalled
<1>2. CASE ~Owns(r)
  BY <1>2, IdleSpends DEF Finish
<1> QED BY <1>1, <1>2

\* A request that begins an operation, or takes one over, owns it: the request
\* it is taken over from has lapsed.
LEMMA BeginSpends ==
  ASSUME TypeOK, NEW r \in Requests, NEW t, task[r] = Idle, task' = [task EXCEPT ![r] = t],
         op'.owner = r, op'.hold = t.hold, op'.live = TRUE,
         op = NoOperation \/ ~op.live
  PROVE  /\ Stalled' = 0
         /\ Stalled = 0 => Lapsed' \subseteq Lapsed
         /\ Lapsed' \subseteq Lapsed \cup {op.owner}
<1>1. task'[r] = t /\ \A q \in Requests : q # r => task'[q] = task[q]
  BY DEF TypeOK
<1>2. Owns(r)' /\ Stalled' = 0
  BY <1>1 DEF Owns, Stalled
<1>3. \A q \in Requests : Owns(q) => q = op.owner /\ op # NoOperation
  BY NoOwner DEF Owns
<1>4. Lapsed' \subseteq Lapsed \cup {op.owner}
  BY <1>1, <1>2, <1>3 DEF Lapsed
<1>5. ASSUME Stalled = 0 PROVE Lapsed' \subseteq Lapsed
  <2>1. \A q \in Requests : ~Owns(q)
    BY <1>3, <1>5 DEF Stalled
  <2> QED BY <1>1, <1>2, <2>1 DEF Lapsed
<1> QED BY <1>2, <1>4, <1>5

\* A call and the renewal after it.
LEMMA RenewSpends ==
  ASSUME TypeOK, NEW r \in Requests, NEW v \in task[r].todo, NEW ok \in BOOLEAN,
         Renew(r, Answered(task[r], v, ok))
  PROVE  /\ Lapsed' \subseteq Lapsed /\ Stalled' <= Stalled
         /\ ~Owns(r) => r \in Lapsed /\ Lapsed' \subseteq Lapsed \ {r}
<1>1. CASE Owns(r)
  <2>1. Answered(task[r], v, ok).hold = task[r].hold
    BY DEF Answered, TypeOK, Tasks
  <2> QED BY <1>1, <2>1, OwnerSpends DEF Renew
<1>2. CASE ~Owns(r)
  <2>1. task' = [task EXCEPT ![r] = Idle] /\ UNCHANGED op
    BY <1>2 DEF Renew
  <2>2. r \in Lapsed
    BY <1>2 DEF Lapsed, Idle
  <2> QED BY <2>1, <2>2, IdleSpends
<1> QED BY <1>1, <1>2

LEMMA RequestSpends ==
  ASSUME TypeOK, NEW r \in Requests, Request(r)
  PROVE  Spends
<1>0. Stalled \in {0, 1} /\ faults \in Nat
  BY FiniteSpending DEF TypeOK
<1>1. CASE Recover(r)
  <2> DEFINE t == IF op.kind = "add" THEN Apply(op.hold, saved[op.hold])
                  ELSE Release(op.hold, saved[op.hold])
  <2>1. op # NoOperation /\ ~op.live /\ op \in Operations /\ task[r] = Idle
        /\ op' = [op EXCEPT !.owner = r, !.live = TRUE] /\ task' = [task EXCEPT ![r] = t]
        /\ UNCHANGED <<stored, held, slipped, faults>>
    BY <1>1 DEF Recover, TypeOK, bucketVars
  <2>2. op'.owner = r /\ op'.hold = op.hold /\ op'.live = TRUE
    BY <2>1 DEF Operations, NoOperation
  <2>3. t.hold = op.hold
    BY DEF Apply, Release, Idle
  <2> HIDE DEF t
  <2>4. /\ Stalled' = 0
        /\ Stalled = 0 => Lapsed' \subseteq Lapsed
        /\ Lapsed' \subseteq Lapsed \cup {op.owner}
    BY <2>1, <2>2, <2>3, BeginSpends
  <2>5. Tainted' = Tainted
    BY <2>1 DEF Tainted, Left
  <2> QED BY <1>0, <2>1, <2>4, <2>5 DEF Spends, Saves
<1>2. ASSUME NEW h \in Holds, AddHold(r, h) \/ ReleaseLast(r, h) PROVE Spends
  <2> DEFINE t == IF AddHold(r, h) THEN Apply(h, NoResults) ELSE Release(h, NoResults)
  <2>1. op = NoOperation /\ task[r] = Idle /\ op'.owner = r /\ op'.hold = h /\ op'.live = TRUE
        /\ UNCHANGED <<stored, held, slipped, faults>>
    BY <1>2 DEF AddHold, ReleaseLast, Begin, bucketVars
  <2>2. task' = [task EXCEPT ![r] = t]
    BY <1>2 DEF AddHold, ReleaseLast
  <2>3. t.hold = h
    BY DEF Apply, Release, Idle
  <2> HIDE DEF t
  <2>4. Stalled' = 0 /\ (Stalled = 0 => Lapsed' \subseteq Lapsed)
    BY <2>1, <2>2, <2>3, BeginSpends
  <2>5. Stalled = 0 /\ Tainted' = Tainted
    BY <2>1 DEF Stalled, Tainted, Left
  <2> QED BY <2>1, <2>4, <2>5 DEF Spends, Saves
<1>3. ASSUME NEW h \in Holds, ReleaseShared(r, h) PROVE Spends
  <2>1. UNCHANGED <<op, task, stored, held, slipped, faults>>
    BY <1>3 DEF ReleaseShared, bucketVars
  <2> QED BY <1>0, <2>1 DEF Spends, Saves, Tainted, Left, Lapsed, Stalled, Owns
<1>4. CASE Call(r)
  <2>1. PICK v \in task[r].todo \cap stored :
          /\ IF Owns(r) THEN slipped' = slipped \ {v} ELSE Slip(task[r], v)
          /\ Renew(r, Answered(task[r], v, TRUE))
          /\ UNCHANGED <<stored, faults>>
    BY <1>4 DEF Call
  <2>2. /\ Lapsed' \subseteq Lapsed /\ Stalled' <= Stalled
        /\ ~Owns(r) => r \in Lapsed /\ Lapsed' \subseteq Lapsed \ {r}
    BY <2>1, RenewSpends
  <2>3. CASE Owns(r)
    <3>1. Tainted' \subseteq Tainted
      BY <2>1, <2>3 DEF Tainted, Left
    <3> QED BY <2>1, <2>2, <3>1 DEF Spends, Saves
  <2>4. CASE ~Owns(r)
    <3>1. Tainted' \subseteq Tainted \cup {v}
      BY <2>1, <2>4 DEF Tainted, Left, Slip
    <3>2. Slips(v)
      BY <2>2, <3>1 DEF Slips
    <3>3. r \in Lapsed /\ Lapsed' \subseteq Lapsed \ {r}
      BY <2>2, <2>4
    <3>4. faults' = faults
      BY <2>1
    <3> QED BY <3>2, <3>3, <3>4 DEF Spends
  <2> QED BY <2>3, <2>4
<1>5. CASE CallFails(r)
  <2>1. PICK v \in task[r].todo :
          /\ IF v \in stored THEN Fault ELSE UNCHANGED faults
          /\ \/ /\ UNCHANGED held
                /\ slipped' = IF Protecting(task[r]) THEN slipped \cup ({v} \ held) ELSE slipped
             \/ v \in stored /\ Land(v, Protecting(task[r])) /\ Slip(task[r], v)
          /\ Renew(r, Answered(task[r], v, FALSE))
          /\ UNCHANGED stored
    BY <1>5 DEF CallFails
  <2>2. Lapsed' \subseteq Lapsed /\ Stalled' <= Stalled
    BY <2>1, RenewSpends
  <2>3. slipped' \subseteq slipped \cup {v}
    BY <2>1 DEF Slip
  <2>4. Tainted' \subseteq Tainted \cup {v} /\ (v \notin stored => Tainted' \subseteq Tainted)
    BY <2>1, <2>3 DEF Tainted, Left
  <2>5. CASE v \in stored
    <3>1. faults' = faults + 1
      BY <2>1, <2>5 DEF Fault
    <3>2. Slips(v)
      BY <2>2, <2>4 DEF Slips
    <3> QED BY <2>2, <3>1, <3>2 DEF Spends
  <2>6. CASE v \notin stored
    BY <2>1, <2>2, <2>4, <2>6 DEF Spends, Saves
  <2> QED BY <2>5, <2>6
<1>6. CASE Die(r)
  <2>1. faults' = faults + 1 /\ UNCHANGED <<stored, op>> /\ task' = [task EXCEPT ![r] = Idle]
    BY <1>6 DEF Die, Fault, rowVars
  <2>2. Lapsed' \subseteq Lapsed /\ Stalled' <= Stalled
    BY <2>1, IdleSpends
  <2>3. \E v : slipped' \subseteq slipped \cup {v}
    BY <1>6 DEF Die, Slip
  <2>4. \E v : Slips(v)
    BY <2>1, <2>2, <2>3 DEF Slips, Tainted, Left
  <2> QED BY <2>1, <2>2, <2>4 DEF Spends
<1>7. CASE EndApply(r) \/ EndRelease(r) \/ EndCompensation(r) \/ Rescan(r)
  <2>1. UNCHANGED <<stored, slipped, faults>>
    BY <1>7 DEF EndApply, EndRelease, EndCompensation, Rescan, bucketVars
  <2>2. Tainted' = Tainted
    BY <2>1 DEF Tainted, Left
  <2>3. \/ \E state : Finish(r, state)
        \/ /\ task'[r].hold = task[r].hold /\ task[r] # Idle
           /\ \A q \in Requests : q # r => task'[q] = task[q]
           /\ op' = op \/ (Owns(r) /\ op' = [op EXCEPT !.live = TRUE])
        \/ task' = [task EXCEPT ![r] = Idle] /\ UNCHANGED op
    <3>1. CASE EndApply(r)
      BY <3>1 DEF EndApply, TypeOK, Tasks, Idle
    <3>2. CASE EndRelease(r)
      BY <3>2 DEF EndRelease, TypeOK, Tasks, Idle
    <3>3. CASE EndCompensation(r)
      BY <3>3 DEF EndCompensation
    <3>4. CASE Rescan(r)
      BY <3>4 DEF Rescan, TypeOK, Tasks, Idle, rowVars
    <3> QED BY <1>7, <3>1, <3>2, <3>3, <3>4
  <2>4. ASSUME task'[r].hold = task[r].hold, task[r] # Idle,
               \A q \in Requests : q # r => task'[q] = task[q],
               op' = op \/ (Owns(r) /\ op' = [op EXCEPT !.live = TRUE])
        PROVE  Lapsed' \subseteq Lapsed /\ Stalled' <= Stalled
    <3>1. op'.owner = op.owner /\ op'.hold = op.hold /\ (op' = op \/ op'.live = TRUE)
      <4>1. Owns(r) => op # NoOperation /\ op \in Operations
        BY NoOwner DEF TypeOK
      <4> QED BY <2>4, <4>1 DEF Operations, NoOperation
    <3>2. \A q \in Requests : Owns(q)' <=> Owns(q)
      BY <2>4, <3>1 DEF Owns
    <3>3. Lapsed' \subseteq Lapsed
      BY <2>4, <3>2 DEF Lapsed
    <3>4. op' # NoOperation /\ ~op'.live => op # NoOperation /\ ~op.live
      BY <2>4, <3>1
    <3>5. op # NoOperation => op.owner \in Requests
      BY NoOwner DEF TypeOK
    <3>6. Stalled' <= Stalled
      BY <3>1, <3>2, <3>4, <3>5 DEF Stalled
    <3> QED BY <3>3, <3>6
  <2>5. Lapsed' \subseteq Lapsed /\ Stalled' <= Stalled
    BY <2>3, <2>4, FinishSpends, IdleSpends
  <2> QED BY <2>1, <2>2, <2>5 DEF Spends, Saves
<1> QED BY <1>1, <1>2, <1>3, <1>4, <1>5, <1>6, <1>7 DEF Request

LEMMA BudgetStep == ASSUME TypeOK, Budget, [Next]_vars PROVE Budget'
<1>0. Stalled \in {0, 1} /\ Stalled' \in {0, 1} /\ faults \in Nat
  BY FiniteSpending DEF TypeOK, Stalled
<1>1. ASSUME NEW r \in Requests, Request(r) PROVE Spends
  BY <1>1, RequestSpends
<1>2. ASSUME Expire PROVE Spends
  <2>1. op # NoOperation /\ op.live /\ op' = [op EXCEPT !.live = FALSE]
        /\ UNCHANGED <<task, stored, slipped>>
    BY <1>2 DEF Expire, bucketVars
  <2>2. op'.owner = op.owner /\ op'.hold = op.hold
    BY <2>1 DEF TypeOK, Operations, NoOperation
  <2>3. Tainted' = Tainted /\ Lapsed' = Lapsed /\ Stalled = 0
    BY <2>1, <2>2 DEF Tainted, Left, Lapsed, Owns, Stalled
  <2>4. CASE task[op.owner].hold = op.hold
    <3>1. faults' = faults + 1
      BY <1>2, <2>4 DEF Expire, Fault
    <3> QED BY <1>0, <2>3, <3>1 DEF Spends
  <2>5. CASE task[op.owner].hold # op.hold
    <3>1. faults' = faults
      BY <1>2, <2>5 DEF Expire
    <3>2. Stalled' = 0
      BY <2>1, <2>2, <2>5 DEF Stalled, Owns
    <3> QED BY <2>3, <3>1, <3>2 DEF Spends, Saves
  <2> QED BY <2>4, <2>5
<1>3. ASSUME UNCHANGED <<op, task, slipped>>, Left' \subseteq Left, faults' \in {faults, faults + 1}
      PROVE  Spends
  BY <1>0, <1>3 DEF Spends, Saves, Tainted, Lapsed, Owns, Stalled
<1>4. ASSUME BeginDelete \/ PlanDelete \/ CloseEgress \/ (\E v \in Versions : Upload(v)) \/ UNCHANGED vars
      PROVE  Spends
  <2>1. UNCHANGED <<op, task, slipped, faults>> /\ Left' = Left
    BY <1>4 DEF BeginDelete, PlanDelete, CloseEgress, Upload, Left, vars, rowVars, bucketVars
  <2> QED BY <1>0, <1>3, <2>1
<1>5. ASSUME NEW e \in Epochs, Deletion(e) PROVE Spends
  <2>1. ASSUME StartDrain(e) \/ Drain(e) \/ DrainFails(e) \/ Notify(e) \/ GiveUp(e)
        PROVE  /\ UNCHANGED <<op, task, slipped>> /\ stored' \subseteq stored
               /\ faults' \in {faults, faults + 1}
    BY <2>1 DEF StartDrain, Drain, DrainFails, Notify, GiveUp, DeleteSome, Fault, rowVars, bucketVars
  <2>2. ASSUME NEW call \in Calls, ScanOnce(e, call) \/ ScanFails(e, call) \/ Complete(e, call)
        PROVE  /\ UNCHANGED <<op, task, slipped>> /\ stored' \subseteq stored
               /\ faults' \in {faults, faults + 1}
    BY <2>2 DEF ScanOnce, ScanFails, Complete, DeleteSome, Fault, rowVars, bucketVars
  <2>3. UNCHANGED <<op, task, slipped>> /\ stored' \subseteq stored /\ faults' \in {faults, faults + 1}
    BY <1>5, <2>1, <2>2 DEF Deletion
  <2> QED BY <1>3, <2>3 DEF Left
<1>6. Spends
  BY <1>1, <1>2, <1>4, <1>5 DEF Next
<1> QED BY <1>0, <1>6, BudgetKept

LEMMA InitBudget == Init => Budget
<1> SUFFICES ASSUME Init PROVE Budget
  OBVIOUS
<1>1. Tainted = {} /\ Lapsed = {} /\ Stalled = 0 /\ faults = 0
  BY DEF Init, Tainted, Lapsed, Stalled
<1> QED BY <1>1, FS_EmptySet DEF Budget

-----------------------------------------------------------------------------
(* Deletions *)

\* No step of a request touches what deletions are about.
LEMMA RequestSpares ==
  ASSUME NEW r \in Requests, Request(r)
  PROVE UNCHANGED <<archive, epoch, stored, open, effect, scan>>
BY DEF Request, Recover, AddHold, ReleaseShared, ReleaseLast, Call, CallFails, Die, EndApply, Rescan,
       EndRelease, EndCompensation, rowVars, bucketVars, drainVars

\* No step finds objects again where a deletion has looked.
LEMMA DrainedStep == ASSUME TypeOK, Drained, [Next]_vars PROVE Drained'
<1> USE DEF TypeOK, Drained
<1>1. ASSUME NEW r \in Requests, Request(r) PROVE Drained'
  BY <1>1, RequestSpares
<1>2. CASE Expire
  BY <1>2 DEF Expire, bucketVars, drainVars
<1>3. CASE BeginDelete
  <2>1. epoch \in Nat /\ \A e \in Epochs : e \in Nat
    BY BoundsAssumption DEF Epochs
  <2>2. /\ epoch' = epoch + 1 /\ archive # "deleting" /\ archive' = "deleting"
        /\ UNCHANGED <<stored, open, effect, scan>>
    BY <1>3 DEF BeginDelete, bucketVars, drainVars
  <2> QED BY <2>1, <2>2
<1>4. CASE PlanDelete
  BY <1>4 DEF PlanDelete, rowVars, bucketVars
<1>5. CASE UNCHANGED vars
  BY <1>5 DEF vars, rowVars, bucketVars, drainVars
<1>6. ASSUME NEW v \in Versions, Upload(v) PROVE Drained'
  BY <1>6 DEF Upload, rowVars, drainVars
<1>7. CASE CloseEgress
  BY <1>7 DEF CloseEgress, rowVars, drainVars
<1>8. ASSUME NEW e \in Epochs, StartDrain(e) PROVE Drained'
  BY <1>8 DEF StartDrain, rowVars, bucketVars
<1>9. ASSUME NEW e \in Epochs, Drain(e) \/ DrainFails(e) PROVE Drained'
  BY <1>9 DEF Drain, DrainFails, DeleteSome, rowVars
<1>10. ASSUME NEW e \in Epochs, Notify(e) PROVE Drained'
  <2>1. \A c \in Epochs \X Calls : scan'[c] # "none" => c = <<e, "awaited">> \/ scan[c] # "none"
    BY <1>10, SMTT(30) DEF Notify, Calls
  <2>2. stored = {} /\ UNCHANGED <<archive, epoch, stored, open>> /\ effect[e] # "none"
        /\ \A d \in Epochs : effect'[d] # "none" <=> effect[d] # "none"
    BY <1>10 DEF Notify, rowVars, bucketVars
  <2> QED BY <2>1, <2>2
<1>11. ASSUME NEW e \in Epochs, GiveUp(e) PROVE Drained'
  <2>1. \A c \in Epochs \X Calls : scan'[c] # "none" =>
          \/ c = <<e, "lost">> /\ scan[<<e, "awaited">>] # "none"
          \/ scan[c] # "none"
    BY <1>11, SMTT(30) DEF GiveUp, Calls
  <2>2. UNCHANGED <<archive, epoch, stored, open>> /\ effect[e] # "none"
        /\ \A d \in Epochs : effect'[d] # "none" <=> effect[d] # "none"
    BY <1>11 DEF GiveUp, rowVars, bucketVars
  <2>3. <<e, "awaited">> \in Epochs \X Calls
    BY DEF Calls
  <2> QED BY <2>1, <2>2, <2>3
<1>12. ASSUME NEW e \in Epochs, NEW call \in Calls, ScanOnce(e, call) PROVE Drained'
  BY <1>12 DEF ScanOnce, Return, rowVars, Calls
<1>13. ASSUME NEW e \in Epochs, NEW call \in Calls, ScanFails(e, call) PROVE Drained'
  BY <1>13 DEF ScanFails, Return, DeleteSome, IsDeleting, Calls
<1>14. ASSUME NEW e \in Epochs, NEW call \in Calls, Complete(e, call) PROVE Drained'
  BY <1>14 DEF Complete, Return, IsDeleting, bucketVars, Calls
<1> QED BY <1>1, <1>2, <1>3, <1>4, <1>5, <1>6, <1>7, <1>8, <1>9, <1>10, <1>11, <1>12, <1>13, <1>14
        DEF Next, Deletion

-----------------------------------------------------------------------------
(* Theorems *)

\* The inductive invariant: what holds, operations and deletions keep to at
\* every step of requests, takeovers, runners and scans.
THEOREM RetentionInvariant == Spec => []IInv
<1>1. Init => IInv
  BY InitTypes, InitHolds DEF IInv, Init, Drained
<1>2. IInv /\ [Next]_vars => IInv'
  BY NextTypes, HoldStep, DrainedStep DEF IInv
<1> QED BY <1>1, <1>2, PTL DEF Spec

\* Every variable keeps its type.
THEOREM TypesHold == Spec => []TypeOK
BY RetentionInvariant, PTL DEF IInv

\* An active hold protects every registered version that is left, but for those
\* that a refused, lost or overtaken call left without: any number of holds,
\* requests, takeovers and failures.
THEOREM HoldsProtect == Spec => []HoldProtects
<1>1. IInv => HoldProtects
  <2> SUFFICES ASSUME IInv, NEW h \in Holds, hold[h] = "active", op.hold # h
               PROVE Left \subseteq held \cup slipped
    BY DEF HoldProtects
  <2>1. h \in Unreleased \ {op.hold}
    BY DEF Unreleased
  <2>2. Bare = {}
    BY <2>1 DEF IInv, HoldInv, Cover
  <2> QED BY <2>2 DEF Bare
<1> QED BY <1>1, RetentionInvariant, PTL

\* What faults bare is bounded: whatever number of holds, operations, takeovers
\* and requests follow each other, an active hold lacks no more versions than
\* there were faults.
THEOREM OneFaultOneVersion == Spec => []OneBarePerFault
<1>1. IInv /\ Budget => OneBarePerFault
  <2> SUFFICES ASSUME IInv, Budget, NEW h \in Holds, hold[h] = "active", op.hold # h
               PROVE Cardinality(Left \ held) <= faults
    BY DEF OneBarePerFault
  <2>1. Bare = {}
    BY DEF IInv, HoldInv, Cover, Unreleased
  <2>2. Left \ held \subseteq Tainted
    BY <2>1 DEF Bare, Tainted
  <2>3. /\ Cardinality(Left \ held) \in Nat /\ Cardinality(Left \ held) <= Cardinality(Tainted)
        /\ Cardinality(Tainted) \in Nat /\ Cardinality(Lapsed) \in Nat /\ Stalled \in {0, 1}
    BY <2>2, FiniteSpending, Counting
  <2>4. faults \in Nat
    BY DEF IInv, TypeOK
  <2> QED BY <2>3, <2>4 DEF Budget
<1>2. Init => Budget
  BY InitBudget
<1>3. IInv /\ Budget /\ [Next]_vars => Budget'
  BY BudgetStep DEF IInv
<1> QED BY <1>1, <1>2, <1>3, RetentionInvariant, PTL DEF Spec

\* Operations and the states of holds belong together.
THEOREM OperationsMatch == Spec => []OperationHasHold
BY RetentionInvariant, PTL DEF IInv, HoldInv, OpShape

\* Where there is a hold, no deletion is under way or done.
THEOREM HoldsExcludeDeletion == Spec => []DeletionExcludesHold
BY RetentionInvariant, PTL DEF IInv, HoldInv

\* Objects go only while a deletion is admitted, although the drain never asks.
THEOREM NothingGoesUnadmitted == Spec => DeletedOnlyWhileDeleting
<1>1. IInv /\ [Next]_vars => [stored' # stored /\ stored' \subseteq stored => archive = "deleting"]_vars
  <2> SUFFICES ASSUME IInv, [Next]_vars, stored' # stored, stored' \subseteq stored
               PROVE archive = "deleting"
    OBVIOUS
  <2> USE DEF IInv, TypeOK, Drained
  <2>1. ASSUME NEW r \in Requests, Request(r) PROVE FALSE
    BY <2>1, RequestSpares
  <2>2. CASE Expire \/ BeginDelete \/ PlanDelete \/ CloseEgress \/ \E v \in Versions : Upload(v)
    BY <2>2 DEF Expire, BeginDelete, PlanDelete, CloseEgress, Upload, bucketVars
  <2>3. ASSUME NEW e \in Epochs, StartDrain(e) \/ Notify(e) \/ GiveUp(e) PROVE FALSE
    BY <2>3 DEF StartDrain, Notify, GiveUp, bucketVars
  <2>4. ASSUME NEW e \in Epochs, Drain(e) \/ DrainFails(e) PROVE archive = "deleting"
    <3>1. effect[e] # "none" /\ stored # {}
      BY <2>4 DEF Drain, DrainFails, DeleteSome
    <3>3. e \in Nat /\ e > 0 /\ epoch \in Nat
      BY BoundsAssumption DEF Epochs
    <3>2. epoch > 0
      BY <3>1, <3>3
    <3> QED BY <3>1, <3>2
  <2>5. ASSUME NEW e \in Epochs, NEW call \in Calls,
               ScanOnce(e, call) \/ ScanFails(e, call) \/ Complete(e, call)
        PROVE FALSE
    BY <2>5 DEF ScanOnce, ScanFails, Complete, bucketVars
  <2>6. CASE UNCHANGED vars
    BY <2>6 DEF vars, bucketVars
  <2> QED BY <2>1, <2>2, <2>3, <2>4, <2>5, <2>6 DEF Next, Deletion
<1> QED BY <1>1, RetentionInvariant, PTL DEF Spec, DeletedOnlyWhileDeleting

-----------------------------------------------------------------------------
(* An admitted deletion is carried on *)

\* Once its writers are drained, an admitted deletion waits for its effect to
\* be planned, started or drained, or for a scan of its own whose answer the
\* runner awaits: neither a failed deletion, nor a call given up, nor the scan
\* such a call left running takes it out of everybody's hands.
DeletionGoesOn ==
  archive = "deleting" /\ ~open =>
    /\ epoch \in Epochs
    /\ \/ effect[epoch] \in {"none", "planned", "drain"}
       \/ effect[epoch] = "calling" /\ scan[<<epoch, "awaited">>] # "none"

\* The runner waits for a scan exactly while it runs, and the effect of the
\* deletion that is on has not ended.
Carried ==
  /\ \A e \in Epochs : effect[e] = "calling" <=> scan[<<e, "awaited">>] # "none"
  /\ archive = "deleting" => epoch \in Epochs /\ effect[epoch] \notin {"failed", "done"}

\* An awaited scan that ends ends the effect of its own deletion only.
LEMMA ReturnCarries ==
  ASSUME TypeOK, Carried, NEW e \in Epochs, NEW call \in Calls, NEW state \in {"failed", "done"},
         Return(e, call, state), scan[<<e, call>>] # "none", epoch' = epoch,
         archive' = "deleting" => archive = "deleting" /\ epoch # e
  PROVE  Carried'
<1>1. <<e, call>> \in Epochs \X Calls /\ \A d \in Epochs : <<d, "awaited">> \in Epochs \X Calls
  BY DEF Calls
<1>2. /\ scan' = [scan EXCEPT ![<<e, call>>] = "none"]
      /\ effect' = IF call = "awaited" THEN [effect EXCEPT ![e] = state] ELSE effect
  BY DEF Return
<1>3. \A d \in Epochs \ {e} : effect'[d] = effect[d] /\ scan'[<<d, "awaited">>] = scan[<<d, "awaited">>]
  BY <1>1, <1>2 DEF TypeOK
<1>4. effect'[e] = "calling" <=> scan'[<<e, "awaited">>] # "none"
  <2>1. CASE call = "awaited"
    BY <1>1, <1>2, <2>1 DEF TypeOK
  <2>2. CASE call # "awaited"
    BY <1>1, <1>2, <2>2 DEF TypeOK, Carried
  <2> QED BY <2>1, <2>2
<1> QED BY <1>3, <1>4 DEF Carried

\* A step that leaves the scans alone, and effects out of "calling" and of an
\* end, leaves the deletion where it is.
LEMMA SameScansCarry ==
  ASSUME TypeOK, Carried, UNCHANGED <<scan, archive, epoch>>,
         \A d \in Epochs : effect'[d] # effect[d] =>
           effect[d] # "calling" /\ effect'[d] \notin {"calling", "failed", "done"}
  PROVE  Carried'
BY DEF Carried

LEMMA CarriedStep ==
  ASSUME TypeOK, Drained, Carried, [Next]_vars
  PROVE  Carried'
<1>0. \A d \in Epochs : <<d, "awaited">> \in Epochs \X Calls /\ <<d, "lost">> \in Epochs \X Calls
  BY DEF Calls
<1>1. CASE \/ \E r \in Requests : Request(r)
           \/ Expire \/ CloseEgress \/ (\E v \in Versions : Upload(v)) \/ UNCHANGED vars
  <2>1. UNCHANGED <<archive, epoch, effect, scan>>
    BY <1>1, RequestSpares DEF Expire, CloseEgress, Upload, vars, rowVars, drainVars
  <2> QED BY <2>1 DEF Carried
<1>2. CASE BeginDelete
  <2>1. epoch' = epoch + 1 /\ epoch < MaxEpoch /\ UNCHANGED <<effect, scan>>
    BY <1>2 DEF BeginDelete, drainVars
  <2>2. epoch \in Nat /\ epoch' \in Epochs /\ ~(epoch' \leq epoch)
    BY <2>1, BoundsAssumption DEF TypeOK, Epochs
  <2>3. effect'[epoch'] = "none"
    BY <2>1, <2>2 DEF Drained
  <2> QED BY <2>1, <2>2, <2>3 DEF Carried
<1>3. CASE PlanDelete
  <2>1. UNCHANGED <<scan, archive, epoch>> /\ effect[epoch] = "none"
        /\ effect' = [effect EXCEPT ![epoch] = "planned"]
    BY <1>3 DEF PlanDelete, rowVars
  <2>2. \A d \in Epochs : effect'[d] = IF d = epoch THEN "planned" ELSE effect[d]
    BY <2>1 DEF TypeOK
  <2> QED BY <2>1, <2>2, SameScansCarry
<1>4. ASSUME NEW e \in Epochs, StartDrain(e) \/ Drain(e) \/ DrainFails(e) PROVE Carried'
  <2>1. UNCHANGED <<scan, archive, epoch>> /\ effect[e] \in {"planned", "drain"}
        /\ (effect' = effect \/ \E s \in {"planned", "drain"} : effect' = [effect EXCEPT ![e] = s])
    BY <1>4 DEF StartDrain, Drain, DrainFails, rowVars
  <2>2. \A d \in Epochs : effect'[d] # effect[d] => d = e /\ effect'[d] \in {"planned", "drain"}
    BY <2>1 DEF TypeOK
  <2> QED BY <2>1, <2>2, SameScansCarry
<1>5. ASSUME NEW e \in Epochs, Notify(e) PROVE Carried'
  <2>1. UNCHANGED <<archive, epoch>> /\ effect[e] = "drain"
    BY <1>5 DEF Notify, rowVars
  <2>2. scan[<<e, "awaited">>] = "none"
    BY <2>1 DEF Carried
  <2>3. CASE UNCHANGED scan /\ \E s \in {"done", "planned"} : effect' = [effect EXCEPT ![e] = s]
    <3>1. \A d \in Epochs : effect'[d] = effect[d] \/ (d = e /\ effect'[d] # "calling")
      BY <2>3 DEF TypeOK
    <3>2. archive = "deleting" /\ epoch = e => effect' = [effect EXCEPT ![e] = "planned"]
                                            \/ effect' = [effect EXCEPT ![e] = "calling"]
      BY <1>5 DEF Notify
    <3>3. archive = "deleting" => effect'[epoch] \notin {"failed", "done"}
      BY <2>1, <2>3, <3>2 DEF TypeOK, Carried
    <3> QED BY <2>1, <2>2, <2>3, <3>1, <3>3 DEF Carried
  <2>4. CASE /\ effect' = [effect EXCEPT ![e] = "calling"]
             /\ scan' = [scan EXCEPT ![<<e, "awaited">>] = "first"]
    <3>1. \A d \in Epochs : /\ effect'[d] = IF d = e THEN "calling" ELSE effect[d]
                            /\ scan'[<<d, "awaited">>] = IF d = e THEN "first" ELSE scan[<<d, "awaited">>]
      BY <1>0, <2>4 DEF TypeOK
    <3> QED BY <2>1, <3>1 DEF Carried
  <2> QED BY <1>5, <2>3, <2>4 DEF Notify
<1>6. ASSUME NEW e \in Epochs, GiveUp(e) PROVE Carried'
  <2>1. UNCHANGED <<archive, epoch>> /\ effect' = [effect EXCEPT ![e] = "planned"]
        /\ scan' = [scan EXCEPT ![<<e, "lost">>] = scan[<<e, "awaited">>], ![<<e, "awaited">>] = "none"]
    BY <1>6 DEF GiveUp, rowVars
  <2>2. \A d \in Epochs : /\ effect'[d] = IF d = e THEN "planned" ELSE effect[d]
                          /\ scan'[<<d, "awaited">>] = IF d = e THEN "none" ELSE scan[<<d, "awaited">>]
    BY <1>0, <2>1 DEF TypeOK
  <2>3. \A d \in Epochs : effect'[d] = "calling" <=> scan'[<<d, "awaited">>] # "none"
    BY <2>2 DEF Carried
  <2>4. archive' = "deleting" => epoch' \in Epochs /\ effect'[epoch'] \notin {"failed", "done"}
    BY <2>1, <2>2 DEF Carried
  <2> QED BY <2>3, <2>4 DEF Carried
<1>7. ASSUME NEW e \in Epochs, NEW call \in Calls, ScanOnce(e, call) PROVE Carried'
  <2>1. scan[<<e, call>>] \in {"first", "second"} /\ UNCHANGED <<archive, epoch>>
    BY <1>7 DEF ScanOnce, rowVars
  <2>2. CASE IsDeleting(e)
    <3>1. effect' = effect /\ \E s \in {"second", "complete"} : scan' = [scan EXCEPT ![<<e, call>>] = s]
      BY <1>7, <2>2 DEF ScanOnce
    <3>2. \A d \in Epochs : scan'[<<d, "awaited">>] # "none" <=> scan[<<d, "awaited">>] # "none"
      BY <1>0, <2>1, <3>1 DEF TypeOK, Calls
    <3> QED BY <2>1, <3>1, <3>2 DEF Carried
  <2>3. CASE ~IsDeleting(e)
    BY <1>7, <2>1, <2>3, ReturnCarries DEF ScanOnce, IsDeleting
  <2> QED BY <2>2, <2>3
<1>8. ASSUME NEW e \in Epochs, NEW call \in Calls, ScanFails(e, call) PROVE Carried'
  BY <1>8, ReturnCarries DEF ScanFails, IsDeleting
<1>9. ASSUME NEW e \in Epochs, NEW call \in Calls, Complete(e, call) PROVE Carried'
  <2>1. \E s \in {"failed", "done"} : Return(e, call, s)
    BY <1>9 DEF Complete
  <2> QED BY <1>9, <2>1, ReturnCarries DEF Complete, IsDeleting
<1> QED BY <1>1, <1>2, <1>3, <1>4, <1>5, <1>6, <1>7, <1>8, <1>9 DEF Next, Deletion

\* The safety half of DeletionSettles: no admitted deletion is ever left to
\* nobody, however often it is given up, repeated or overtaken by a failed one.
THEOREM NoDeletionIsDropped == Spec => []DeletionGoesOn
<1>1. Init => Carried
  BY DEF Init, Carried, Calls
<1>2. IInv /\ Carried /\ [Next]_vars => Carried'
  BY CarriedStep DEF IInv
<1>3. IInv /\ Carried => DeletionGoesOn
  BY DEF IInv, TypeOK, Carried, DeletionGoesOn
<1> QED BY <1>1, <1>2, <1>3, RetentionInvariant, PTL DEF Spec
=============================================================================
