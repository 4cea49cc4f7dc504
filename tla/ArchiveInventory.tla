--------------------------- MODULE ArchiveInventory ---------------------------
(***************************************************************************)
(* The end of one consultation's archive: the ARCHIVE_RECONCILE effect as  *)
(* the control workers run it (orchestration/effect-runner.ts) over the    *)
(* statements of postgres-store/archives.ts and the bucket behind          *)
(* s3-archive.ts.  It compares what was expected with what is there and    *)
(* writes the final inventory, an object that can be created only once.    *)
(*                                                                         *)
(* The room has been drained: the worker's epoch is over, so the control   *)
(* plane registers nothing more by itself.  But LiveKit may still upload   *)
(* recordings and report their ends, and what a drainer uploaded before    *)
(* the control plane refused it may still reach the bucket.                *)
(*                                                                         *)
(* A reconciler is one activation of EffectRunner.run.  Its awaits are its *)
(* steps; a failed one and the markFailed that follows are one step.       *)
(***************************************************************************)
EXTENDS Naturals, FiniteSets

CONSTANTS
  Reconcilers,   \* control workers
  Captures,      \* egress jobs; also names the object each one records
  Evidence,      \* objects of the worker's spool
  Captions,      \* those that carry final captions
  Required,      \* those that checkpoints and provider attempts call for
  ProviderGaps,  \* failed provider attempts nothing retried
  NoOwner,
  MaxFaults      \* bound on crashes, lost leases and failed calls

ASSUME EvidenceAssumption == Captions \subseteq Evidence /\ Required \subseteq Evidence
ASSUME KindsAssumption == Captures \cap Evidence = {}
ASSUME OwnerAssumption == NoOwner \notin Reconcilers
ASSUME FaultsAssumption == MaxFaults \in Nat

VARIABLES
  archive,     \* archives.state
  due,         \* whether reconciliation_deadline_at has passed
  roomClosed,  \* the ROOM_DELETE effect is done
  ended,       \* egress_jobs with a terminal_result
  registered,  \* rows of archive_objects
  stored,      \* objects in the bucket
  vtt,         \* the captions final.vtt was rendered from, {} before it exists
  final,       \* what final.json says, or Nothing
  inventory,   \* the row of final_inventories, or Nothing
  effect,      \* the ARCHIVE_RECONCILE row: its state and its lease
  task,        \* what each reconciler is doing
  faults

rowVars == <<archive, due, roomClosed, ended, registered, inventory, effect>>
bucketVars == <<stored, vtt, final>>
vars == <<rowVars, bucketVars, task, faults>>

Objects == Captures \cup Evidence

\* One entry of an inventory's `missing`.
Gap == [kind : {"expectation", "object", "egress_terminal", "egress_object"}, of : Objects]
  \cup [kind : {"provider_terminal"}, of : ProviderGaps]
  \cup [kind : {"room_close"}, of : {"room"}]
Inventories ==
  [objects : SUBSET Objects, vtt : SUBSET Captions, ended : SUBSET Captures,
   room : BOOLEAN, missing : SUBSET Gap]
Nothing == [missing |-> {}]

Steps == {"idle", "snapshot", "discover", "decide", "vtt", "final", "complete"}
Snapshots == [registered : SUBSET Objects, ended : SUBSET Captures, room : BOOLEAN]
NoSnapshot == [registered |-> {}, ended |-> {}, room |-> FALSE]
Idle == [pc |-> "idle", snap |-> NoSnapshot, found |-> {}, invalid |-> {}]
Tasks == [pc : Steps, snap : Snapshots, found : SUBSET Objects, invalid : SUBSET Objects]
Rows == [state : {"planned", "calling", "done"}, owner : Reconcilers \cup {NoOwner}, live : BOOLEAN]

TypeOK ==
  /\ archive \in {"reconciling", "complete", "incomplete"}
  /\ due \in BOOLEAN /\ roomClosed \in BOOLEAN
  /\ ended \in SUBSET Captures
  /\ registered \in SUBSET Objects /\ stored \in SUBSET Objects
  /\ vtt \in SUBSET Captions
  /\ final \in Inventories \cup {Nothing} /\ inventory \in Inventories \cup {Nothing}
  /\ effect \in Rows
  /\ task \in [Reconcilers -> Tasks]
  /\ faults \in 0..MaxFaults

-----------------------------------------------------------------------------
(* What an inventory says *)

\* Mutant: what the bucket does not have any more counts as there.
MissingUnverified(snap, objects, invalid) ==
  [kind : {"expectation"}, of : {c \in Captures : c \notin objects}]
    \cup [kind : {"object"}, of : Required \ objects]
    \cup [kind : {"egress_terminal"}, of : Captures \ snap.ended]
    \cup [kind : {"egress_object"}, of : snap.ended \ objects]
    \cup [kind : {"provider_terminal"}, of : ProviderGaps]
    \cup [kind : {"room_close"}, of : IF snap.room THEN {} ELSE {"room"}]

\* missingInventoryEntries: a recording is looked for by its prefix, a spool
\* object by what refers to it; `invalid` are the objects that did not verify.
Missing(snap, objects, invalid) ==
  [kind : {"expectation"}, of : {c \in Captures : c \notin objects}]
    \cup [kind : {"object"}, of : (Required \ objects) \cup invalid]
    \cup [kind : {"egress_terminal"}, of : Captures \ snap.ended]
    \cup [kind : {"egress_object"}, of : snap.ended \ objects]
    \cup [kind : {"provider_terminal"}, of : ProviderGaps]
    \cup [kind : {"room_close"}, of : IF snap.room THEN {} ELSE {"room"}]

Content(snap, found, invalid) ==
  LET objects == snap.registered \cup found
  IN [objects |-> objects, vtt |-> Captions \cap objects, ended |-> snap.ended,
      room |-> snap.room, missing |-> Missing(snap, objects, invalid)]

ContentOf(t) == Content(t.snap, t.found, t.invalid)
Status(content) == IF content.missing = {} THEN "complete" ELSE "incomplete"

-----------------------------------------------------------------------------
(* The world outside *)

\* A recording is uploaded before LiveKit ends its egress; a failed one has none.
Upload(c) ==
  /\ c \notin ended /\ c \notin stored
  /\ stored' = stored \cup {c}
  /\ UNCHANGED <<rowVars, vtt, final, task, faults>>

\* EGRESS_ENDED or EGRESS_FAILED arrives.
EndEgress(c) ==
  /\ c \notin ended
  /\ ended' = ended \cup {c}
  /\ UNCHANGED <<archive, due, roomClosed, registered, inventory, effect, bucketVars, task, faults>>

\* A drainer's upload whose registration the control plane refuses.
LateObject(o) ==
  /\ o \notin stored \cup registered
  /\ stored' = stored \cup {o}
  /\ UNCHANGED <<rowVars, vtt, final, task, faults>>

\* The reconciliation is planned when ROOM_DELETE is applied; the runner marks
\* the deletion done afterwards.
RoomDeleteDone ==
  /\ ~roomClosed
  /\ roomClosed' = TRUE
  /\ UNCHANGED <<archive, due, ended, registered, inventory, effect, bucketVars, task, faults>>

Deadline ==
  /\ ~due
  /\ due' = TRUE
  /\ UNCHANGED <<archive, roomClosed, ended, registered, inventory, effect, bucketVars, task, faults>>

-----------------------------------------------------------------------------
(* A reconciler *)

At(r, pc) == task[r].pc = pc
Released(state) == [state |-> state, owner |-> NoOwner, live |-> FALSE]
GoTo(r, pc) == task' = [task EXCEPT ![r].pc = pc]

\* Mutant: the row is failed for good, although the next attempt may succeed.
FailStepForGood(r) ==
  /\ effect' = IF effect.owner = r THEN Released("failed") ELSE effect
  /\ task' = [task EXCEPT ![r] = Idle]

\* markFailed with a retry after a second: only the owner's row goes back.
FailStep(r) ==
  /\ effect' = IF effect.owner = r THEN Released("calling") ELSE effect
  /\ task' = [task EXCEPT ![r] = Idle]

\* The tick claims a due row, or one whose lease has expired.
Claim(r) ==
  /\ At(r, "idle") /\ effect.state # "done" /\ ~effect.live
  /\ effect' = [state |-> "calling", owner |-> r, live |-> TRUE]
  /\ GoTo(r, "snapshot")
  /\ UNCHANGED <<archive, due, roomClosed, ended, registered, inventory, bucketVars, faults>>

\* reconciliationSnapshot; an archive no longer reconciling ends the effect.
TakeSnapshot(r) ==
  /\ At(r, "snapshot")
  /\ \/ /\ archive = "reconciling"
        /\ task' = [task EXCEPT ![r].pc = "discover",
             ![r].snap = [registered |-> registered, ended |-> ended, room |-> roomClosed]]
        /\ UNCHANGED effect
     \/ /\ archive # "reconciling"
        /\ effect' = IF effect.owner = r THEN Released("done") ELSE effect
        /\ task' = [task EXCEPT ![r] = Idle]
  /\ UNCHANGED <<archive, due, roomClosed, ended, registered, inventory, bucketVars, faults>>

\* discoverArchiveObjects lists the bucket; verifyObjects asks for every object
\* of the rows and of the listing, and one that is gone or differs is invalid.
Discover(r) ==
  /\ At(r, "discover")
  /\ task' = [task EXCEPT ![r].pc = "decide",
       ![r].found = stored \ task[r].snap.registered,
       ![r].invalid = task[r].snap.registered \ stored]
  /\ UNCHANGED <<rowVars, bucketVars, faults>>

\* Mutants: the deadline is not asked for; it makes no difference.
DecideAtOnce(r) ==
  /\ At(r, "decide")
  /\ GoTo(r, "vtt")
  /\ UNCHANGED <<rowVars, bucketVars, faults>>

DecideNever(r) ==
  /\ At(r, "decide")
  /\ \/ /\ ContentOf(task[r]).missing = {}
        /\ GoTo(r, "vtt") /\ UNCHANGED effect
     \/ /\ ContentOf(task[r]).missing # {}
        /\ FailStep(r)
  /\ UNCHANGED <<archive, due, roomClosed, ended, registered, inventory, bucketVars, faults>>

\* Anything missing is waited for until the deadline has passed.
Decide(r) ==
  /\ At(r, "decide")
  /\ \/ /\ ContentOf(task[r]).missing = {} \/ due
        /\ GoTo(r, "vtt") /\ UNCHANGED effect
     \/ /\ ContentOf(task[r]).missing # {} /\ ~due
        /\ FailStep(r)
  /\ UNCHANGED <<archive, due, roomClosed, ended, registered, inventory, bucketVars, faults>>

\* renderVtt reads every caption object and puts final.vtt create-once: an
\* existing one is adopted if it is the same, and fails the attempt otherwise.
PutVtt(r) ==
  LET captions == ContentOf(task[r]).vtt IN
  /\ At(r, "vtt")
  /\ \/ /\ captions \subseteq stored /\ (captions = {} \/ vtt \in {{}, captions})
        /\ vtt' = IF captions = {} THEN vtt ELSE captions
        /\ GoTo(r, "final") /\ UNCHANGED effect
     \/ /\ ~(captions \subseteq stored) \/ (captions # {} /\ vtt \notin {{}, captions})
        /\ FailStep(r) /\ UNCHANGED vtt
  /\ UNCHANGED <<archive, due, roomClosed, ended, registered, inventory, stored, final, faults>>

\* Mutant: final.json is written whether or not it exists.
PutFinalAnyway(r) ==
  /\ At(r, "final")
  /\ final' = ContentOf(task[r])
  /\ GoTo(r, "complete")
  /\ UNCHANGED <<rowVars, stored, vtt, faults>>

\* putArchiveObject of final.json, create-once as well.
PutFinal(r) ==
  /\ At(r, "final")
  /\ \/ /\ final \in {Nothing, ContentOf(task[r])}
        /\ final' = ContentOf(task[r])
        /\ GoTo(r, "complete") /\ UNCHANGED effect
     \/ /\ final \notin {Nothing, ContentOf(task[r])}
        /\ FailStep(r) /\ UNCHANGED final
  /\ UNCHANGED <<archive, due, roomClosed, ended, registered, inventory, stored, vtt, faults>>

\* Mutant: the objects found in the bucket are listed and not registered.
CompleteUnregistered(r) ==
  LET content == ContentOf(task[r]) IN
  /\ At(r, "complete")
  /\ \/ /\ effect.owner = r /\ effect.live /\ archive = "reconciling"
        /\ inventory' = content
        /\ archive' = Status(content)
        /\ effect' = Released("done")
        /\ task' = [task EXCEPT ![r] = Idle]
     \/ /\ ~(effect.owner = r /\ effect.live /\ archive = "reconciling")
        /\ FailStep(r)
        /\ UNCHANGED <<inventory, archive>>
  /\ UNCHANGED <<due, roomClosed, ended, registered, bucketVars, faults>>

\* requireOwnership and completeReconciliation: one transaction for the owner
\* of a live lease registers what was found, records the inventory, moves the
\* archive and ends the effect.
Complete(r) ==
  LET content == ContentOf(task[r]) IN
  /\ At(r, "complete")
  /\ \/ /\ effect.owner = r /\ effect.live /\ archive = "reconciling"
        /\ registered' = registered \cup content.objects
        /\ inventory' = content
        /\ archive' = Status(content)
        /\ effect' = Released("done")
        /\ task' = [task EXCEPT ![r] = Idle]
     \/ /\ ~(effect.owner = r /\ effect.live /\ archive = "reconciling")
        /\ FailStep(r)
        /\ UNCHANGED <<registered, inventory, archive>>
  /\ UNCHANGED <<due, roomClosed, ended, bucketVars, faults>>

-----------------------------------------------------------------------------
(* Faults *)

Fault == faults < MaxFaults /\ faults' = faults + 1

\* A remote call or statement throws; what a put did remains (PutVtt and
\* PutFinal precede it).
CallFails(r) ==
  /\ Fault
  /\ ~At(r, "idle")
  /\ FailStep(r)
  /\ UNCHANGED <<archive, due, roomClosed, ended, registered, inventory, bucketVars>>

Crash(r) ==
  /\ Fault
  /\ ~At(r, "idle")
  /\ task' = [task EXCEPT ![r] = Idle]
  /\ effect' = IF effect.owner = r THEN [effect EXCEPT !.live = FALSE] ELSE effect
  /\ UNCHANGED <<archive, due, roomClosed, ended, registered, inventory, bucketVars>>

\* The owner stalls for longer than its lease and then goes on.
LeaseExpires ==
  /\ Fault
  /\ effect.live
  /\ effect' = [effect EXCEPT !.live = FALSE]
  /\ UNCHANGED <<archive, due, roomClosed, ended, registered, inventory, bucketVars, task>>

-----------------------------------------------------------------------------
\* Damage is there from the start: rows whose object is not in the bucket.
Init ==
  /\ archive = "reconciling" /\ due = FALSE /\ roomClosed = FALSE /\ ended = {}
  /\ registered \in SUBSET Evidence
  /\ stored \in SUBSET registered
  /\ vtt = {} /\ final = Nothing /\ inventory = Nothing
  /\ effect = Released("planned")
  /\ task = [r \in Reconcilers |-> Idle]
  /\ faults = 0

Step(r) ==
  TakeSnapshot(r) \/ Discover(r) \/ Decide(r) \/ PutVtt(r) \/ PutFinal(r) \/ Complete(r)

Next ==
  \/ \E r \in Reconcilers : Claim(r) \/ Step(r) \/ CallFails(r) \/ Crash(r)
  \/ \E c \in Captures : Upload(c) \/ EndEgress(c)
  \/ \E o \in Evidence : LateObject(o)
  \/ RoomDeleteDone \/ Deadline \/ LeaseExpires

Spec == Init /\ [][Next]_vars

\* A control worker claims what is due, goes on with what it runs, and time
\* passes.  Nothing is assumed of LiveKit or of a drainer's late uploads.
FairSpec ==
  /\ Spec
  /\ WF_vars(Deadline)
  /\ WF_vars(\E r \in Reconcilers : Claim(r))
  /\ \A r \in Reconcilers : WF_vars(Step(r))

-----------------------------------------------------------------------------
(* Properties *)

\* The row of final_inventories says what final.json says, whatever other
\* reconcilers of the same archive have found and put in the meantime.
InventoryIsStored == inventory # Nothing => inventory = final

\* A complete archive has the ends and the objects of all its recordings, every
\* required object, each registered object in the bucket, and a closed room.
CompleteIsProof ==
  archive = "complete" =>
    /\ roomClosed /\ ended = Captures /\ ProviderGaps = {}
    /\ Captures \cup Required \subseteq registered
    /\ registered \subseteq stored

\* An archive is given up only after its deadline, and then its inventory names
\* what is missing.
IncompleteNamesGap ==
  archive = "incomplete" => due /\ inventory # Nothing /\ inventory.missing # {}

\* Once the archive has its inventory, the rows are what the inventory lists:
\* what a reconciler found only in the bucket was registered with it.
InventoryCoversRows == inventory # Nothing => registered = inventory.objects

\* What keeps a reconciliation from ever ending: a registered caption whose
\* object cannot be read, a final.vtt rendered from other captions than those
\* there are now, or a final.json that says something else than would be said now.
Present ==
  Content([registered |-> registered, ended |-> ended, room |-> roomClosed],
          stored \ registered, registered \ stored)
CaptionUnreadable == ~(Captions \cap registered \subseteq stored)
VttCollides == vtt \notin {{}, Present.vtt}
FinalCollides == final \notin {Nothing, Present}

\* A reconciling archive becomes complete or incomplete, unless one of these is the case.
EndsUnlessStuck ==
  archive = "reconciling" ~>
    (archive # "reconciling" \/ CaptionUnreadable \/ VttCollides \/ FinalCollides)

\* The state machine of the documentation has no other way: a reconciling
\* archive becomes complete or incomplete.
ReconciliationEnds == archive = "reconciling" ~> archive # "reconciling"
=============================================================================
