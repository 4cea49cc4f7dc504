----------------------------- MODULE SpoolDelivery -----------------------------
(***************************************************************************)
(* The spool drainer (services/spool-drainer) between the spool of one     *)
(* worker tuple and the control plane that registers its objects, accepts  *)
(* its checkpoint chains and ends its epoch (server-core,                  *)
(* application-operations-workers.ts).  One drainer process runs one cycle *)
(* after another: records, checkpoints, the completion of a sealed tuple,  *)
(* then recovery of an expired one.                                        *)
(*                                                                         *)
(* A call to the control plane is one step, the write of its outcome to    *)
(* the spool the next; the process may stop between any two steps.  A call *)
(* that fails may have taken effect.                                       *)
(***************************************************************************)
EXTENDS SpoolStore, Sequences

CONSTANTS
  MaxRejects  \* bound on objects the archive or the control plane refuses

ASSUME RejectsAssumption == MaxRejects \in Nat

VARIABLES
  epoch,       \* the worker's epoch in the control plane
  expired,     \* worker_reservations.lease_expires_at < now()
  registered,  \* evidence in archive_objects
  accepted,    \* worker_checkpoints the worker wrote
  rejects,     \* refusals so far
  pc,          \* what the drainer does next
  todo,        \* rows listed and not yet handled
  deferred,    \* a retryable error was collected in this phase
  seen         \* the handoff state read before the authority was taken

controlVars == <<epoch, expired, registered, accepted>>
cycleVars == <<pc, todo, deferred, seen>>
vars == <<spoolVars, controlVars, rejects, cycleVars>>

Pcs == {"cycle", "records", "uploaded", "unlink", "list", "checkpoints",
        "delivered", "completion", "completed", "expired", "acquire", "decide",
        "abandon", "abandoned", "release"}

\* Each variable holds what the tables, the control plane and the drainer's
\* locals can hold.
TypeOK ==
  /\ SpoolTypeOK
  /\ epoch \in {"live", "completed", "abandoned", "fenced"}
  /\ expired \in BOOLEAN
  /\ registered \subseteq Evidence
  /\ accepted \subseteq Checkpoints
  /\ rejects \in 0..MaxRejects
  /\ pc \in Pcs
  /\ todo \in Seq(Evidence \cup Checkpoints)
  /\ deferred \in BOOLEAN
  /\ seen \in {"none", "active", "settling", "sealed", "relinquished"}

Init ==
  /\ SpoolInit
  /\ epoch = "live"
  /\ expired = FALSE
  /\ registered = {}
  /\ accepted = {}
  /\ rejects = 0
  /\ pc = "cycle"
  /\ todo = <<>>
  /\ deferred = FALSE
  /\ seen = "none"

-----------------------------------------------------------------------------
(* The control plane. *)

\* recordSpoolObject: an object already registered is registered again, a new
\* one needs the live tuple.
CanRegister(e) == e \in registered \/ epoch = "live"

\* The newest accepted checkpoint of a direction.  The rows of a direction
\* form one chain, so it has at most one head.
Heads(d) == {c \in accepted : c[1] = d /\ \A k \in accepted : previous[k] # c}

\* Mutant: neither the head of the chain nor its terminal is asked for.
CanAcceptAnyChain(c) == c \in accepted \/ epoch = "live"

\* checkpoint: a replay is accepted; a new row continues the head of an epoch
\* that is live and has no terminal row in this direction.
CanAccept(c) ==
  \/ c \in accepted
  \/ /\ epoch = "live"
     /\ Cardinality(Heads(c[1])) <= 1
     /\ Heads(c[1]) = {previous[c]} \ {Root}
     /\ Terminal(c[1]) \notin accepted

\* completeWorkerEpoch: a replay, or both terminals of a live epoch.
CanComplete == epoch = "completed" \/ (epoch = "live" /\ Terminals \subseteq accepted)

\* abandonWorkerEpoch: fewer than two terminals; its own terminal rows violate
\* the unique index when the worker's row of that direction is there.
AbandonAdmitted == epoch = "live" /\ expired /\ Cardinality(Terminals \cap accepted) < 2
\* Mutant: the unique index on a direction's terminal is not there.
CanAbandonAnyway == AbandonAdmitted

CanAbandon == AbandonAdmitted /\ Terminals \cap accepted = {}

\* The worker's heartbeats stop, or come back before anyone abandoned it.
LeaseExpires ==
  /\ epoch = "live"
  /\ ~expired
  /\ handoff # "none"
  /\ expired' = TRUE
  /\ UNCHANGED <<spoolVars, epoch, registered, accepted, rejects, cycleVars>>

Heartbeat ==
  /\ epoch = "live"
  /\ expired
  /\ holder = "worker"
  /\ expired' = FALSE
  /\ UNCHANGED <<spoolVars, epoch, registered, accepted, rejects, cycleVars>>

\* The consultation moves to another generation.
ControlFences ==
  /\ epoch = "live"
  /\ epoch' = "fenced"
  /\ UNCHANGED <<spoolVars, expired, registered, accepted, rejects, cycleVars>>

-----------------------------------------------------------------------------
(* Steps of the drainer. *)

At(p) == pc = p
GoTo(p) == pc' = p
Refusal == rejects < MaxRejects /\ rejects' = rejects + 1

\* A cycle ends and the next begins.
CycleEnds == GoTo("cycle") /\ todo' = <<>> /\ deferred' = FALSE /\ seen' = "none"

\* The process starts again.
Restart ==
  /\ CycleEnds
  /\ Reopen

DrainerCrash ==
  /\ ~At("cycle")
  /\ Restart
  /\ Fault
  /\ UNCHANGED <<controlVars, rejects>>

\* The rows S of a query, in the order its ORDER BY gives them.
Ordered(S, order) ==
  {s \in [1..Cardinality(S) -> S] :
     \A i, j \in 1..Cardinality(S) : i < j => <<s[i], s[j]>> \in order}

ByOrdinal == {r \in Evidence \X Evidence : ordinal[r[1]] < ordinal[r[2]]}
ByChain == {r \in Checkpoints \X Checkpoints :
              \/ r[1][1] < r[2][1]
              \/ r[1][1] = r[2][1] /\ Place(r[1]) < Place(r[2])}

\* list_record_deliveries(committed), in ordinal order.
ListRecords ==
  /\ At("cycle")
  /\ GoTo("records")
  /\ todo' \in Ordered({e \in Evidence : record[e] = "committed"}, ByOrdinal)
  /\ UNCHANGED <<spoolVars, controlVars, rejects, deferred, seen>>

Listed(p) == At(p) /\ todo # <<>>

\* put_create_once and archive_object succeed; the mark is the next step.
RegisterRecord ==
  /\ Listed("records")
  /\ CanRegister(Head(todo))
  /\ registered' = registered \cup {Head(todo)}
  /\ GoTo("uploaded")
  /\ UNCHANGED <<spoolVars, epoch, expired, accepted, rejects, todo, deferred, seen>>

MarkUploaded ==
  /\ At("uploaded")
  /\ MarkRecordUploaded(Head(todo))
  /\ GoTo("records")
  /\ todo' = Tail(todo)
  /\ UNCHANGED <<faults, controlVars, rejects, deferred, seen>>

\* The tuple is fenced, or the archive or the control plane refuses the object.
RejectRecord ==
  /\ Listed("records")
  /\ Head(todo) \notin registered
  /\ IF CanRegister(Head(todo)) THEN Refusal ELSE UNCHANGED rejects
  /\ MarkRecordPermanent(Head(todo))
  /\ todo' = Tail(todo)
  /\ UNCHANGED <<faults, controlVars, pc, deferred, seen>>

\* Any other error keeps the record for the next cycle.
DeferRecord ==
  /\ Listed("records")
  /\ \/ registered' = registered
     \/ CanRegister(Head(todo)) /\ registered' = registered \cup {Head(todo)}
  /\ Fault
  /\ todo' = Tail(todo)
  /\ deferred' = TRUE
  /\ UNCHANGED <<tupleVars, journalVars, chainVars, sealVars>>
  /\ UNCHANGED <<epoch, expired, accepted, rejects, pc, seen>>

QuarantineRecord ==
  /\ Listed("records")
  /\ Quarantine(Head(todo))
  /\ Fault
  /\ todo' = Tail(todo)
  /\ deferred' = TRUE
  /\ UNCHANGED <<controlVars, rejects, pc, seen>>

CompactEnvelopes ==
  /\ At("records")
  /\ todo = <<>>
  /\ Compact
  /\ GoTo("unlink")
  /\ UNCHANGED <<faults, controlVars, rejects, todo, deferred, seen>>

\* Retryable errors of the records end the delivery of this cycle.
UnlinkEnvelopes ==
  /\ At("unlink")
  /\ Unlink
  /\ GoTo(IF deferred THEN "expired" ELSE "list")
  /\ UNCHANGED <<faults, controlVars, rejects, todo, deferred, seen>>

\* list_checkpoint_deliveries: chain after chain, each in ordinal order.
ListCheckpoints ==
  /\ At("list")
  /\ GoTo("checkpoints")
  /\ todo' \in Ordered(Registered(1) \cup Registered(2), ByChain)
  /\ UNCHANGED <<spoolVars, controlVars, rejects, deferred, seen>>

\* The rest of the chain waits for another cycle.
DropChain ==
  \E n \in 1..Len(todo) :
    /\ \A i \in 1..Len(todo) : i <= n <=> todo[i][1] = Head(todo)[1]
    /\ todo' = SubSeq(todo, n + 1, Len(todo))

Undeliverable == {e \in Evidence : record[e] \in {"permanent", "quarantined"}}

\* _terminal_delivery_blocked, for a terminal of a sealed handoff.
Blocked == \/ \E e \in Undeliverable : ordinal[e] <= boundary
           \/ \E c \in Checkpoints : delivery[c] = "permanent"

Deliverable(c) ==
  /\ delivery[c] = "pending"
  /\ c \in Terminals => handoff = "sealed" /\ ~Blocked

SkipCheckpoint ==
  /\ Listed("checkpoints")
  /\ delivery[Head(todo)] = "acknowledged"
  /\ todo' = Tail(todo)
  /\ UNCHANGED <<spoolVars, controlVars, rejects, pc, deferred, seen>>

\* A refused predecessor ends its chain, and so does a blocked terminal; a
\* terminal of a handoff that is not sealed is worth another cycle.
StopChain ==
  /\ Listed("checkpoints")
  /\ delivery[Head(todo)] # "acknowledged"
  /\ ~Deliverable(Head(todo))
  /\ DropChain
  /\ deferred' = (deferred \/ (delivery[Head(todo)] = "pending" /\ handoff # "sealed"))
  /\ UNCHANGED <<spoolVars, controlVars, rejects, pc, seen>>

\* archive_object and checkpoint are accepted; the mark is the next step.
DeliverCheckpoint ==
  /\ Listed("checkpoints")
  /\ Deliverable(Head(todo))
  /\ CanAccept(Head(todo))
  /\ accepted' = accepted \cup {Head(todo)}
  /\ GoTo("delivered")
  /\ UNCHANGED <<spoolVars, epoch, expired, registered, rejects, todo, deferred, seen>>

AcknowledgeCheckpoint ==
  /\ At("delivered")
  /\ MarkCheckpoint(Head(todo), "acknowledged")
  /\ GoTo("checkpoints")
  /\ todo' = Tail(todo)
  /\ UNCHANGED <<faults, controlVars, rejects, deferred, seen>>

\* The tuple is fenced, the chain does not continue, or the body is refused.
RejectCheckpoint ==
  /\ Listed("checkpoints")
  /\ Deliverable(Head(todo))
  /\ Head(todo) \notin accepted
  /\ IF CanAccept(Head(todo)) THEN Refusal ELSE UNCHANGED rejects
  /\ MarkCheckpoint(Head(todo), "permanent")
  /\ DropChain
  /\ UNCHANGED <<faults, controlVars, pc, deferred, seen>>

DeferCheckpoint ==
  /\ Listed("checkpoints")
  /\ Deliverable(Head(todo))
  /\ \/ accepted' = accepted
     \/ CanAccept(Head(todo)) /\ accepted' = accepted \cup {Head(todo)}
  /\ Fault
  /\ DropChain
  /\ deferred' = TRUE
  /\ UNCHANGED <<tupleVars, journalVars, chainVars, sealVars>>
  /\ UNCHANGED <<epoch, expired, registered, rejects, pc, seen>>

\* A pending seal whose terminals are both acknowledged locally.
SealReady == seal = "pending" /\ \A c \in Terminals : delivery[c] = "acknowledged"

EndCheckpoints ==
  /\ At("checkpoints")
  /\ todo = <<>>
  /\ GoTo(IF SealReady THEN "completion" ELSE "expired")
  /\ UNCHANGED <<spoolVars, controlVars, rejects, todo, deferred, seen>>

Complete ==
  /\ At("completion")
  /\ CanComplete
  /\ epoch' = "completed"
  /\ GoTo("completed")
  /\ UNCHANGED <<spoolVars, expired, registered, accepted, rejects, todo, deferred, seen>>

AcknowledgeCompletion ==
  /\ At("completed")
  /\ MarkCompletion
  /\ GoTo("expired")
  /\ UNCHANGED <<faults, controlVars, rejects, todo, deferred, seen>>

\* Mutant: a completion that failed is acknowledged like one that succeeded.
DeferCompletionAnyway ==
  /\ At("completion")
  /\ epoch' \in {epoch} \cup (IF CanComplete THEN {"completed"} ELSE {})
  /\ Fault
  /\ GoTo("completed")
  /\ UNCHANGED <<tupleVars, journalVars, chainVars, sealVars>>
  /\ UNCHANGED <<expired, registered, accepted, rejects, todo, deferred, seen>>

DeferCompletion ==
  /\ At("completion")
  /\ epoch' \in {epoch} \cup (IF CanComplete THEN {"completed"} ELSE {})
  /\ Fault
  /\ GoTo("expired")
  /\ UNCHANGED <<tupleVars, journalVars, chainVars, sealVars>>
  /\ UNCHANGED <<expired, registered, accepted, rejects, todo, deferred, seen>>

\* DeliveryPermanent leaves the main loop and ends the process.
CompletionRefused ==
  /\ At("completion")
  /\ ~CanComplete
  /\ Restart
  /\ UNCHANGED <<faults, controlVars, rejects>>

-----------------------------------------------------------------------------
(* _recover_one: an expired epoch is taken over from a producer that is gone. *)

Recoverable == epoch = "live" /\ expired /\ handoff # "none"

NothingExpired ==
  /\ At("expired")
  /\ ~Recoverable
  /\ CycleEnds
  /\ UNCHANGED <<spoolVars, controlVars, rejects>>

ReadHandoff ==
  /\ At("expired")
  /\ Recoverable
  /\ seen' = handoff
  /\ GoTo("acquire")
  /\ UNCHANGED <<spoolVars, controlVars, rejects, todo, deferred>>

Acquire ==
  /\ At("acquire")
  /\ AcquireRecovery
  /\ GoTo("decide")
  /\ UNCHANGED <<faults, controlVars, rejects, todo, deferred, seen>>

ProducerAlive ==
  /\ At("acquire")
  /\ holder = "worker"
  /\ CycleEnds
  /\ UNCHANGED <<spoolVars, controlVars, rejects>>

\* Mutant: a sealed tuple stays sealed whatever its evidence has become.
StaysSealedAnyway == seen = "sealed"

StaysSealed == seen = "sealed" /\ Undeliverable = {}

LeaveSealed ==
  /\ At("decide")
  /\ StaysSealed
  /\ Release
  /\ CycleEnds
  /\ UNCHANGED <<faults, controlVars, rejects>>

RelinquishUnsealed ==
  /\ At("decide")
  /\ ~StaysSealed
  /\ seen # "relinquished"
  /\ RelinquishExpired
  /\ GoTo("abandon")
  /\ UNCHANGED <<faults, controlVars, rejects, todo, deferred, seen>>

AlreadyRelinquished ==
  /\ At("decide")
  /\ seen = "relinquished"
  /\ GoTo("abandon")
  /\ UNCHANGED <<spoolVars, controlVars, rejects, todo, deferred, seen>>

\* The producer relinquished for its own reason after the handoff was read.
OtherReason ==
  /\ At("decide")
  /\ seen # "relinquished"
  /\ handoff = "relinquished"
  /\ Restart
  /\ UNCHANGED <<faults, controlVars, rejects>>

Abandon ==
  /\ At("abandon")
  /\ CanAbandon
  /\ epoch' = "abandoned"
  /\ GoTo("abandoned")
  /\ UNCHANGED <<spoolVars, expired, registered, accepted, rejects, todo, deferred, seen>>

\* The insert of a second terminal row fails: answered as a server error.
AbandonFails ==
  /\ At("abandon")
  /\ AbandonAdmitted
  /\ ~CanAbandon
  /\ Release
  /\ CycleEnds
  /\ UNCHANGED <<faults, controlVars, rejects>>

\* WORKER_ABANDONMENT_FENCED leaves the main loop and ends the process.
AbandonRefused ==
  /\ At("abandon")
  /\ ~AbandonAdmitted
  /\ Restart
  /\ UNCHANGED <<faults, controlVars, rejects>>

DeferAbandon ==
  /\ At("abandon")
  /\ epoch' \in {epoch} \cup (IF CanAbandon THEN {"abandoned"} ELSE {})
  /\ Fault
  /\ Release
  /\ CycleEnds
  /\ UNCHANGED <<expired, registered, accepted, rejects>>

AcknowledgeAbandon ==
  /\ At("abandoned")
  /\ MarkCompletion
  /\ GoTo("release")
  /\ UNCHANGED <<faults, controlVars, rejects, todo, deferred, seen>>

ReleaseRecovery ==
  /\ At("release")
  /\ Release
  /\ CycleEnds
  /\ UNCHANGED <<faults, controlVars, rejects>>

-----------------------------------------------------------------------------
Deliver ==
  \/ ListRecords \/ RegisterRecord \/ MarkUploaded \/ RejectRecord
  \/ CompactEnvelopes \/ UnlinkEnvelopes
  \/ ListCheckpoints \/ SkipCheckpoint \/ StopChain
  \/ DeliverCheckpoint \/ AcknowledgeCheckpoint \/ RejectCheckpoint \/ EndCheckpoints
  \/ Complete \/ AcknowledgeCompletion \/ CompletionRefused

Recover ==
  \/ NothingExpired \/ ReadHandoff \/ Acquire \/ ProducerAlive
  \/ LeaveSealed \/ RelinquishUnsealed \/ AlreadyRelinquished \/ OtherReason
  \/ Abandon \/ AbandonFails \/ AbandonRefused
  \/ AcknowledgeAbandon \/ ReleaseRecovery

CallsFail ==
  \/ DeferRecord \/ QuarantineRecord \/ DeferCheckpoint \/ DeferCompletion
  \/ DeferAbandon \/ DrainerCrash

Work == Producer /\ UNCHANGED <<controlVars, rejects, cycleVars>>

Next == Work \/ Deliver \/ Recover \/ CallsFail \/ LeaseExpires \/ Heartbeat \/ ControlFences

Spec == Init /\ [][Next]_vars

\* The drainer's loop goes on, a running job comes to its end, and the lease
\* of an epoch nobody renews runs out.
FairSpec ==
  /\ Spec
  /\ WF_vars(Deliver \/ Recover)
  /\ WF_vars(BeginSettlement /\ Work)
  /\ WF_vars(SealCommits /\ Work)
  /\ WF_vars(Close /\ Work)
  /\ WF_vars(LeaseExpires)

-----------------------------------------------------------------------------
(* Properties. *)

\* What the spool records as done is done: a record is marked uploaded only
\* when the control plane has registered it, a checkpoint acknowledged only
\* when its row is there, a completion only when the epoch has ended; crashes
\* and lost answers leave the spool behind, never ahead (delivery.py 264-531).
SpoolNeverAhead ==
  /\ \A e \in Evidence : record[e] = "uploaded" => e \in registered
  /\ \A c \in Checkpoints : delivery[c] = "acknowledged" => c \in accepted
  /\ seal = "acknowledged" => epoch \in {"completed", "abandoned"}

\* Evidence the spool took is never lost: whatever crashes, refusals, damage
\* and compaction follow, its file is still there or the archive has it, and
\* what must be replayed keeps its file (_store.py 1406-1438).
EvidenceKept ==
  \A e \in Evidence : record[e] # "absent" =>
    e \in files \/ (e \in registered \ Replayable)

\* The rows the control plane accepted form one chain per direction: each
\* continues an accepted row, no two continue the same one, and none follows
\* a terminal, even when the spool holds a fork (application-operations-
\* workers.ts 149-207).
AcceptedChains ==
  \A c \in accepted :
    /\ previous[c] \in accepted \cup {Root}
    /\ previous[c] \notin Terminals
    /\ \A b \in accepted : b[1] = c[1] /\ previous[b] = previous[c] => b = c

\* An epoch ends in one way: by the worker's two terminals of a sealed tuple,
\* or by the supervisor's, never with terminals of both (402-666).
OneTerminalPair ==
  /\ epoch = "completed" => Terminals \subseteq accepted /\ seal # "none"
  /\ epoch = "abandoned" => Terminals \cap accepted = {} /\ handoff = "relinquished"

\* A half-delivered pair: a terminal row of the worker is there, and the tuple
\* cannot complete because the other is blocked or not sealed any more.
HalfDelivered == Terminals \cap accepted # {} /\ (Blocked \/ handoff = "relinquished")

\* A checkpoint was refused: its chain and both terminals wait for ever.
CheckpointRefused == \E c \in Checkpoints : delivery[c] = "permanent"

\* Every tuple a producer opened ends: its epoch is completed, abandoned or
\* fenced, whatever crashes and refusals come, in all but the two situations
\* above, which nobody resolves (runtime.py 68-244, delivery.py 264-597).
EpochEnds ==
  handoff # "none" ~> (epoch # "live" \/ HalfDelivered \/ CheckpointRefused)

\* README 945-947: permanent or quarantined evidence before the seal boundary
\* blocks the terminals and leads to abandonWorkerEpoch.
BlockedSealIsAbandoned ==
  (/\ handoff = "sealed"
   /\ \E e \in Undeliverable : ordinal[e] <= boundary) ~> epoch # "live"

=============================================================================
