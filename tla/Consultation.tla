----------------------------- MODULE Consultation -----------------------------
(***************************************************************************)
(* The life of one consultation: the web application moves it on behalf of *)
(* its users and of LiveKit's webhooks (server-core, consultations/ and    *)
(* rooms/), the control worker's coordinator consumes the outbox items and *)
(* deadlines this leaves (orchestration/coordinator.ts) and plans external *)
(* effects, the effect runner applies those, and the worker and the spool  *)
(* drainer end the worker's epoch.                                         *)
(*                                                                         *)
(* Every step is one transaction or one remote call.  A handler of the     *)
(* coordinator that makes several is a record of `busy` between them; what *)
(* it has read by then may be stale.  One handler at a time holds an item: *)
(* its lease outlasts the attempt.  How an effect is claimed, fenced and   *)
(* compensated is EffectRunner's subject, how the epoch is settled         *)
(* SpoolDelivery's; here an effect of the current generation applies, and  *)
(* is done, in one step, and one of an older generation never does.        *)
(***************************************************************************)
EXTENDS Naturals, FiniteSets

CONSTANTS
  Participants, \* LiveKit identities of the two humans
  Failures,     \* what may fail: "replay", "partial", "abort", "egress",
                \* "worker", and "leave": a participant goes away
  MaxFaults     \* bound on the failures of all kinds together

ASSUME FaultsAssumption == MaxFaults \in Nat
ASSUME ParticipantsAssumption == "composite" \notin Participants
ASSUME SomeoneAssumption == Participants # {}

VARIABLES
  state,       \* consultations.state
  generation,  \* consultations.generation
  granted,     \* consultation_participants.publication_granted
  epoch,       \* worker_job_epochs of generation 1
  egress,      \* egress_jobs without terminal_at
  deadlines,   \* orchestration_deadlines of generation 1
  outbox,      \* undelivered outbox items
  planned,     \* external_effects
  done,        \* those applied
  deleteDeps,  \* dependsOnEffectIds of the ROOM_DELETE of each generation
  busy,        \* handlers between two of their steps
  room,        \* LiveKit's room
  seat,        \* each participant's way into it
  joining,     \* join webhooks LiveKit has still to deliver
  publish,     \* participants LiveKit lets publish
  over,        \* egresses whose terminal webhook was accepted
  worker,      \* the worker process
  faults       \* failures so far

consultationVars == <<state, generation, granted>>
workVars == <<deadlines, outbox, busy>>
effectVars == <<planned, done, deleteDeps>>
roomVars == <<room, seat, joining, publish, over>>
vars == <<consultationVars, epoch, egress, workVars, effectVars, roomVars,
          worker, faults>>

Generations == 0..2
Egresses == Participants \cup {"composite"}
Subjects == Egresses \cup {"consultation"}

\* What the coordinator works on: outbox items, and deadlines in `busy`.
Kinds == {"ROOM_CREATE", "ROOM_COMPOSITE_EGRESS", "WORKER_DISPATCH",
          "PARTICIPANT_EGRESS", "PARTICIPANT_GRANT", "EGRESS_STOP",
          "PARTICIPANT_REMOVE", "ROOM_DELETE"}
Topics == {"provisioning", "finalization", "plan", "applied", "cancelled",
           "archive_failed", "egress_complete", "egress_failed", "ready",
           "finalize"}
Works == [topic : Topics, kind : Kinds \cup {"none"}, subj : Subjects,
          gen : Generations]
Work(topic, kind, subj, gen) ==
  [topic |-> topic, kind |-> kind, subj |-> subj, gen |-> gen]
Request(topic, gen) == Work(topic, "none", "consultation", gen)

\* An effect.  Its identity is a hash of the request; one with a notBeforeMs is
\* another effect at each attempt, so it carries the work and the attempt,
\* numbered by the failures before it.  DISPATCH_DELETE waits for the worker's
\* end and nothing waits for it: it is left out.
Stamps == Works \X (0..MaxFaults)
Effects == [kind : Kinds, subj : Subjects, gen : Generations, stamp : Stamps]
Effect(kind, subj, gen, stamp) ==
  [kind |-> kind, subj |-> subj, gen |-> gen, stamp |-> stamp]
Stable == <<Request("plan", 0), 0>>
RoomCreate == Effect("ROOM_CREATE", "consultation", 1, Stable)
Composite == Effect("ROOM_COMPOSITE_EGRESS", "consultation", 1, Stable)
Dispatch == Effect("WORKER_DISPATCH", "consultation", 1, Stable)
ParticipantEgress(p) == Effect("PARTICIPANT_EGRESS", p, 1, Stable)
Grant(p) == Effect("PARTICIPANT_GRANT", p, 1, Stable)
RoomDelete(g) == Effect("ROOM_DELETE", "consultation", g, Stable)

\* A handler between two of its steps, and the step that is next.
Handlers == [work : Works, step : {"create", "seed", "dispatch", "grant", "admit",
                                   "failure"}]

\* Each variable holds what the tables, LiveKit and the handlers can hold.
TypeOK ==
  /\ state \in {"invited", "ready", "active", "finalizing", "ended", "cancelled"}
  /\ generation \in Generations
  /\ granted \subseteq Participants
  /\ epoch \in {"none", "reserved", "opened", "terminal"}
  /\ egress \subseteq Egresses
  /\ deadlines \in [{"ready", "finalize"} -> {"none", "armed", "done"}]
  /\ outbox \subseteq Works
  /\ planned \subseteq Effects
  /\ done \subseteq planned
  /\ deleteDeps \in [Generations -> SUBSET Effects]
  /\ busy \subseteq Handlers
  /\ room \in {"none", "live", "closed", "deleted"}
  /\ seat \in [Participants -> {"out", "token", "in", "left"}]
  /\ joining \subseteq Participants
  /\ publish \subseteq Participants
  /\ over \subseteq Egresses
  /\ worker \in {"none", "running", "clean", "failed", "lost"}
  /\ faults \in 0..MaxFaults

Init ==
  /\ state = "invited"
  /\ generation = 0
  /\ granted = {}
  /\ epoch = "none"
  /\ egress = {}
  /\ deadlines = [k \in {"ready", "finalize"} |-> "none"]
  /\ outbox = {}
  /\ planned = {}
  /\ done = {}
  /\ deleteDeps = [g \in Generations |-> {}]
  /\ busy = {}
  /\ room = "none"
  /\ seat = [p \in Participants |-> "out"]
  /\ joining = {}
  /\ publish = {}
  /\ over = {}
  /\ worker = "none"
  /\ faults = 0

Fault(what) == what \in Failures /\ faults < MaxFaults /\ faults' = faults + 1
Publishable == state \in {"ready", "active"}

-----------------------------------------------------------------------------
(* The users, through the web application. *)

\* join: the snapshot both consented to is still the frozen one.
Join ==
  /\ state = "invited"
  /\ state' = "ready"
  /\ generation' = generation + 1
  /\ outbox' = outbox \cup {Request("provisioning", generation + 1)}
  /\ UNCHANGED <<granted, epoch, egress, deadlines, busy, effectVars, roomVars,
                 worker, faults>>

\* cancel: only before the consultation became active.
Cancel ==
  /\ state \in {"invited", "ready"}
  /\ state' = "cancelled"
  /\ generation' = generation + 1
  /\ outbox' = outbox \cup {Request("cancelled", generation + 1)}
  /\ UNCHANGED <<granted, epoch, egress, deadlines, busy, effectVars, roomVars,
                 worker, faults>>

\* end: the generation stays, so effects in flight still apply.
End ==
  /\ state = "active"
  /\ state' = "finalizing"
  /\ outbox' = outbox \cup {Request("finalization", generation)}
  /\ UNCHANGED <<generation, granted, epoch, egress, deadlines, busy,
                 effectVars, roomVars, worker, faults>>

\* issueLiveKitToken: the room has a sid.
IssueToken(p) ==
  /\ Publishable
  /\ RoomCreate \in done
  /\ seat[p] = "out"
  /\ seat' = [seat EXCEPT ![p] = "token"]
  /\ UNCHANGED <<consultationVars, epoch, egress, workVars, effectVars, room,
                 joining, publish, over, worker, faults>>

\* A participant connects with a token (rooms are not created by joining:
\* auto_create is false) and LiveKit owes a webhook.  Each enters once.
Enter(p) ==
  /\ seat[p] = "token"
  /\ room = "live"
  /\ seat' = [seat EXCEPT ![p] = "in"]
  /\ joining' = joining \cup {p}
  /\ UNCHANGED <<consultationVars, epoch, egress, workVars, effectVars, room,
                 publish, over, worker, faults>>

Leave(p) ==
  /\ seat[p] = "in"
  /\ Fault("leave")
  /\ seat' = [seat EXCEPT ![p] = "left"]
  /\ publish' = publish \ {p}
  /\ UNCHANGED <<consultationVars, epoch, egress, workVars, effectVars, room,
                 joining, over, worker>>

-----------------------------------------------------------------------------
(* LiveKit, and its webhooks (RoomService.acceptWebhook). *)

\* A room nobody has joined for empty_timeout, or everybody has left for
\* departure_timeout, goes away; egresses and the worker do not keep it.  Once
\* the consultation is not publishable any more a drain does the same to it.
CloseRoom ==
  /\ room = "live" /\ Publishable
  /\ \A p \in Participants : seat[p] # "in"
  /\ room' = "closed"
  /\ UNCHANGED <<consultationVars, epoch, egress, workVars, effectVars, seat,
                 joining, publish, over, worker, faults>>

\* Mutant: a participant who joined is granted publication at once.
AcceptJoinGrants(p) ==
  /\ p \in joining
  /\ joining' = joining \ {p}
  /\ LET kind == IF generation = 1 THEN "PARTICIPANT_GRANT" ELSE "PARTICIPANT_REMOVE"
     IN outbox' = outbox \cup {Work("plan", kind, p, generation)}
  /\ UNCHANGED <<consultationVars, epoch, egress, deadlines, busy, effectVars,
                 room, seat, publish, over, worker, faults>>

\* participant_joined: one of an older generation is thrown out, any other is
\* recorded, whatever the state.
AcceptJoin(p) ==
  /\ p \in joining
  /\ joining' = joining \ {p}
  /\ LET kind == IF generation = 1 THEN "PARTICIPANT_EGRESS" ELSE "PARTICIPANT_REMOVE"
     IN outbox' = outbox \cup {Work("plan", kind, p, generation)}
  /\ UNCHANGED <<consultationVars, epoch, egress, deadlines, busy, effectVars,
                 room, seat, publish, over, worker, faults>>

\* An egress can report before the control worker has its row.
Reports(x) ==
  IF x = "composite" THEN Composite \in planned ELSE ParticipantEgress(x) \in planned

\* egress_complete, of an egress whose subject is gone.
EgressCompletes(x) ==
  /\ generation = 1 /\ x \in egress \ over
  /\ \/ room \in {"closed", "deleted"}
     \/ x \in Participants /\ seat[x] = "left"
  /\ over' = over \cup {x}
  /\ outbox' = outbox \cup {Work("egress_complete", "none", x, 1)}
  /\ UNCHANGED <<consultationVars, epoch, egress, deadlines, busy, effectVars,
                 room, seat, joining, publish, worker, faults>>

\* egress_failed: the verified event is queued, and an active consultation is
\* finalized in the next generation.  Of another generation it is refused.
EgressFails(x) ==
  /\ generation = 1 /\ Reports(x) /\ x \notin over
  /\ Fault("egress")
  /\ over' = over \cup {x}
  /\ LET verified == Work("egress_failed", "none", x, 1)
     IN IF state = "active"
        THEN /\ state' = "finalizing"
             /\ generation' = 2
             /\ outbox' = outbox \cup {verified, Request("archive_failed", 2)}
        ELSE /\ outbox' = outbox \cup {verified}
             /\ UNCHANGED <<state, generation>>
  /\ UNCHANGED <<granted, epoch, egress, deadlines, busy, effectVars, room,
                 seat, joining, publish, worker>>

-----------------------------------------------------------------------------
(* The coordinator's outbox handlers.  A failed attempt changes nothing and *)
(* is made again, so a guard stands for every check that throws.            *)

Claimable(w, topics) ==
  /\ w \in outbox /\ w.topic \in topics
  /\ \A h \in busy : h.work # w
At(h, step) == h \in busy /\ h.step = step

\* completeOutbox.  The process may stop just before it and handle the item
\* again; left out where that inserts only what is already there.
Complete(w) == outbox' = outbox \ {w} /\ UNCHANGED faults
Settle(w) == Complete(w) \/ (Fault("replay") /\ UNCHANGED outbox)
Begin(w, step) == busy' = busy \cup {[work |-> w, step |-> step]}
Move(h, step) == busy' = (busy \ {h}) \cup {[h EXCEPT !.step = step]}
Finish(h) == busy' = busy \ {h} /\ Complete(h.work)

\* insertPlannedEffects: the first insertion of a key is the one that counts.
Insert(new, deps) ==
  /\ planned' = planned \cup new
  /\ deleteDeps' = [g \in Generations |->
       IF RoomDelete(g) \in new \ planned THEN deps ELSE deleteDeps[g]]
  /\ UNCHANGED done
InsertOne(e) == Insert({e}, {})

\* drainEffects, from the rows as they are now, for the room of generation 1.
\* A row that changes after this was read changes as well after the insertion.
Attempt(w) == IF w.topic = "finalization" THEN <<w, 0>> ELSE <<w, faults>>
Cleanup(w) ==
  {Effect("EGRESS_STOP", x, w.gen, Attempt(w)) : x \in egress}
    \cup {Effect("PARTICIPANT_REMOVE", p, w.gen, Attempt(w)) : p \in Participants}
PlanDrain(w) == Insert(Cleanup(w) \cup {RoomDelete(w.gen)}, Cleanup(w))

\* Promise.all over one transaction per effect: one fails, the others go on.
PlanSomeDrain(w) ==
  /\ Fault("partial")
  /\ LET drain == Cleanup(w) \cup {RoomDelete(w.gen)}
     IN \E lost \in drain : Insert(drain \ {lost}, Cleanup(w))

\* seedDeadlines
SeedDeadlines(g) ==
  deadlines' = [k \in {"ready", "finalize"} |->
    IF /\ deadlines[k] = "none" /\ g = generation
       /\ IF k = "ready" THEN Publishable ELSE state = "finalizing"
    THEN "armed" ELSE deadlines[k]]

\* provisioning.requested: reserveWorker, then the room, then the deadline.
\* Capacity is granted.
ReserveWorker(w) ==
  /\ Claimable(w, {"provisioning"})
  /\ state = "ready" /\ generation = w.gen
  /\ epoch' = IF epoch = "none" THEN "reserved" ELSE epoch
  /\ Begin(w, "create")
  /\ UNCHANGED <<consultationVars, egress, deadlines, outbox, effectVars,
                 roomVars, worker, faults>>

PlanRoom(h) ==
  /\ At(h, "create")
  /\ InsertOne(RoomCreate)
  /\ Move(h, "seed")
  /\ UNCHANGED <<consultationVars, epoch, egress, deadlines, outbox, roomVars,
                 worker, faults>>

SeedReady(h) ==
  /\ At(h, "seed")
  /\ SeedDeadlines(h.work.gen)
  /\ Finish(h)
  /\ UNCHANGED <<consultationVars, epoch, egress, effectVars, roomVars,
                 worker>>

\* effect.plan
PlanEffect(w) ==
  /\ Claimable(w, {"plan"})
  /\ InsertOne(Effect(w.kind, w.subj, w.gen, Stable))
  /\ Complete(w)
  /\ UNCHANGED <<consultationVars, epoch, egress, deadlines, busy, roomVars,
                 worker>>

Applied(w, kind) == Claimable(w, {"applied"}) /\ w.kind = kind

\* effect.applied of ROOM_CREATE
PlanComposite(w) ==
  /\ Applied(w, "ROOM_CREATE")
  /\ InsertOne(Composite)
  /\ Complete(w)
  /\ UNCHANGED <<consultationVars, epoch, egress, deadlines, busy, roomVars,
                 worker>>

\* effect.applied of ROOM_COMPOSITE_EGRESS: workerDispatchMetadata, then plan.
ReadDispatchMetadata(w) ==
  /\ Applied(w, "ROOM_COMPOSITE_EGRESS")
  /\ Publishable /\ generation = w.gen
  /\ Begin(w, "dispatch")
  /\ UNCHANGED <<consultationVars, epoch, egress, deadlines, outbox, effectVars,
                 roomVars, worker, faults>>

PlanDispatch(h) ==
  /\ At(h, "dispatch")
  /\ InsertOne(Dispatch)
  /\ Finish(h)
  /\ UNCHANGED <<consultationVars, epoch, egress, deadlines, roomVars,
                 worker>>

\* effect.applied of PARTICIPANT_EGRESS: requirePublishableState, then plan.
RequirePublishable(w) ==
  /\ Applied(w, "PARTICIPANT_EGRESS")
  /\ Publishable
  /\ Begin(w, "grant")
  /\ UNCHANGED <<consultationVars, epoch, egress, deadlines, outbox, effectVars,
                 roomVars, worker, faults>>

PlanGrant(h) ==
  /\ At(h, "grant")
  /\ InsertOne(Grant(h.work.subj))
  /\ Finish(h)
  /\ UNCHANGED <<consultationVars, epoch, egress, deadlines, roomVars,
                 worker>>

\* Mutant: a capture barrier that opens late reactivates the consultation.
MarkCaptureReadyLate(w) ==
  /\ Applied(w, "PARTICIPANT_GRANT")
  /\ generation = w.gen
  /\ state' = "active"
  /\ granted' = granted \cup {w.subj}
  /\ Settle(w)
  /\ UNCHANGED <<generation, epoch, egress, deadlines, busy, effectVars,
                 roomVars, worker>>

\* effect.applied of PARTICIPANT_GRANT: the first participant activates.
MarkCaptureReady(w) ==
  /\ Applied(w, "PARTICIPANT_GRANT")
  /\ Publishable /\ generation = w.gen
  /\ state' = "active"
  /\ granted' = granted \cup {w.subj}
  /\ Settle(w)
  /\ UNCHANGED <<generation, epoch, egress, deadlines, busy, effectVars,
                 roomVars, worker>>

\* Mutant: any applied effect of the generation counts as the drain's last.
CompleteAnyDrain(w) ==
  /\ Claimable(w, {"applied"})
  /\ state' = IF state = "finalizing" /\ generation = w.gen THEN "ended" ELSE state
  /\ Settle(w)
  /\ UNCHANGED <<generation, granted, epoch, egress, deadlines, busy, effectVars,
                 roomVars, worker>>

\* effect.applied of ROOM_DELETE: completeRoomDrain.
CompleteRoomDrain(w) ==
  /\ Applied(w, "ROOM_DELETE")
  /\ state' = IF state = "finalizing" /\ generation = w.gen THEN "ended" ELSE state
  /\ deadlines' = [k \in {"ready", "finalize"} |->
       IF w.gen = 1 /\ deadlines[k] = "armed" THEN "done" ELSE deadlines[k]]
  /\ Settle(w)
  /\ UNCHANGED <<generation, granted, epoch, egress, busy, effectVars,
                 roomVars, worker>>

\* Mutant: the drain is planned and the epoch left open.
CancelledUnfenced(w) ==
  /\ Claimable(w, {"cancelled"})
  /\ state = "cancelled" /\ generation = w.gen
  /\ IF RoomCreate \in done THEN PlanDrain(w) ELSE UNCHANGED effectVars
  /\ Settle(w)
  /\ UNCHANGED <<consultationVars, epoch, egress, deadlines, busy, roomVars,
                 worker>>

\* consultation.cancelled: what was created is drained and the epoch ended in
\* one transaction.  Its reads cannot go stale: no effect of an older
\* generation applies any more.
Cancelled(w) ==
  /\ Claimable(w, {"cancelled"})
  /\ state = "cancelled" /\ generation = w.gen
  /\ IF RoomCreate \in done THEN PlanDrain(w) ELSE UNCHANGED effectVars
  /\ epoch' = IF epoch \in {"reserved", "opened"} THEN "terminal" ELSE epoch
  /\ deadlines' = [k \in {"ready", "finalize"} |->
       IF deadlines[k] = "armed" THEN "done" ELSE deadlines[k]]
  /\ Settle(w)
  /\ UNCHANGED <<consultationVars, egress, busy, roomVars, worker>>

\* archive.failed: the drain of the next generation, in one transaction.  Its
\* reads cannot go stale either.
ArchiveFailed(w) ==
  /\ Claimable(w, {"archive_failed"})
  /\ state \in {"active", "finalizing"} /\ generation = w.gen
  /\ PlanDrain(w)
  /\ Settle(w)
  /\ UNCHANGED <<consultationVars, epoch, egress, deadlines, busy, roomVars,
                 worker>>

\* Mutant: the item counts as handled although an insertion failed.
FinalizeLoosely(w) ==
  /\ Claimable(w, {"finalization"})
  /\ \/ PlanDrain(w) /\ SeedDeadlines(w.gen) /\ Settle(w)
     \/ PlanSomeDrain(w) /\ outbox' = outbox \ {w} /\ UNCHANGED deadlines
  /\ UNCHANGED <<consultationVars, epoch, egress, busy, roomVars, worker>>

\* finalization.requested: the drain, then the deadlines.
Finalize(w) ==
  /\ Claimable(w, {"finalization"})
  /\ \/ PlanDrain(w) /\ SeedDeadlines(w.gen) /\ Settle(w)
     \/ PlanSomeDrain(w) /\ UNCHANGED <<deadlines, outbox>>
  /\ UNCHANGED <<consultationVars, epoch, egress, busy, roomVars, worker>>

\* livekit.webhook.verified of a terminal egress.  applyVerifiedWebhook ends
\* the row if there is one and it is open; anything else is ignored.
ApplyTerminal(w) ==
  /\ Claimable(w, {"egress_complete", "egress_failed"})
  /\ egress' = egress \ {w.subj}
  /\ IF w.topic = "egress_failed" /\ w.subj \in egress
     THEN Begin(w, "failure") /\ UNCHANGED <<outbox, faults>>
     ELSE Complete(w) /\ UNCHANGED busy
  /\ UNCHANGED <<consultationVars, epoch, deadlines, effectVars, roomVars,
                 worker>>

\* handleTerminalEgressFailure: the drain in one transaction, and the
\* consultation stays as it is, ...
PlanFailureEffects(h) ==
  /\ At(h, "failure")
  /\ generation = 1 /\ state \in {"active", "finalizing"}
  /\ PlanDrain(h.work)
  /\ busy' = busy \ {h} /\ Settle(h.work)
  /\ UNCHANGED <<consultationVars, epoch, egress, deadlines, roomVars, worker>>

\* ... leaves the failure to a newer generation, ...
IgnoreFailure(h) ==
  /\ At(h, "failure") /\ generation # 1
  /\ Finish(h)
  /\ UNCHANGED <<consultationVars, epoch, egress, deadlines, effectVars,
                 roomVars, worker>>

\* ... or throws in any other state; the next attempt finds the row ended.
RefuseFailure(h) ==
  /\ At(h, "failure")
  /\ generation = 1 /\ state \notin {"active", "finalizing"}
  /\ busy' = busy \ {h}
  /\ UNCHANGED <<consultationVars, epoch, egress, deadlines, outbox, effectVars,
                 roomVars, worker, faults>>

-----------------------------------------------------------------------------
(* The coordinator's deadlines, due at any time after they are armed. *)

Due(k) == deadlines[k] = "armed" /\ \A h \in busy : h.work.topic # k
CompleteDeadline(k) == deadlines' = [deadlines EXCEPT ![k] = "done"]

\* consumeDeadline: of another generation, or nothing left to do.
SkipDeadline(k) ==
  /\ Due(k)
  /\ \/ generation # 1
     \/ state \notin IF k = "ready" THEN {"ready", "finalizing"} ELSE {"finalizing"}
  /\ CompleteDeadline(k)
  /\ UNCHANGED <<consultationVars, epoch, egress, outbox, busy, effectVars,
                 roomVars, worker, faults>>

\* handleRoomDeadline: a finalizing consultation is drained, ...
DrainAtDeadline(k) ==
  /\ Due(k)
  /\ generation = 1 /\ state = "finalizing"
  /\ \/ PlanDrain(Request(k, 1)) /\ CompleteDeadline(k) /\ UNCHANGED faults
     \/ PlanSomeDrain(Request(k, 1)) /\ UNCHANGED deadlines
  /\ UNCHANGED <<consultationVars, epoch, egress, outbox, busy, roomVars, worker>>

\* ... one not yet active is to be admitted to finalization ...
ObserveReady ==
  /\ Due("ready")
  /\ generation = 1 /\ state = "ready"
  /\ Begin(Request("ready", 1), "admit")
  /\ UNCHANGED <<consultationVars, epoch, egress, deadlines, outbox, effectVars,
                 roomVars, worker, faults>>

\* ... (admitFinalization: active counts as well by now), and then drained.
AdmitFinalization(h) ==
  /\ At(h, "admit")
  /\ busy' = busy \ {h}
  /\ IF generation = 1 /\ state \in {"ready", "active", "finalizing"}
     THEN state' = "finalizing" /\ UNCHANGED deadlines
     ELSE CompleteDeadline("ready") /\ UNCHANGED state
  /\ UNCHANGED <<generation, granted, epoch, egress, outbox, effectVars, roomVars,
                 worker, faults>>

\* A handler fails or its process stops between two steps: its lease expires
\* and the item or deadline is handled again from the start.
Abort(h) ==
  /\ h \in busy
  /\ Fault("abort")
  /\ busy' = busy \ {h}
  /\ UNCHANGED <<consultationVars, epoch, egress, deadlines, outbox, effectVars,
                 roomVars, worker>>

-----------------------------------------------------------------------------
(* The effect runner: an effect of the current generation whose gates are   *)
(* open takes place at LiveKit and is marked applied.                       *)

Reported == {"ROOM_CREATE", "ROOM_COMPOSITE_EGRESS", "PARTICIPANT_EGRESS",
             "PARTICIPANT_GRANT", "ROOM_DELETE"}

\* Effects that differ in their stamp alone take place together.
Same(c, e) == c.kind = e.kind /\ c.subj = e.subj /\ c.gen = e.gen

\* Mutant: the consultation's generation is not compared under its row lock.
ApplyAnyGeneration(e, kind) ==
  /\ e \in planned \ done /\ e.kind = kind
  /\ done' = done \cup {c \in planned : Same(c, e)}
  /\ outbox' = IF kind \in Reported
               THEN outbox \cup {Work("applied", kind, e.subj, e.gen)} ELSE outbox
  /\ UNCHANGED <<planned, deleteDeps>>

\* The rows some handler looks for in effect.applied; it skips the others.
Apply(e, kind) ==
  /\ e \in planned \ done
  /\ e.kind = kind /\ e.gen = generation
  /\ done' = done \cup {c \in planned : Same(c, e)}
  /\ outbox' = IF kind \in Reported
               THEN outbox \cup {Work("applied", kind, e.subj, e.gen)} ELSE outbox
  /\ UNCHANGED <<planned, deleteDeps>>

WorkerTerminal == epoch \notin {"reserved", "opened"}

CreateRoom(e) ==
  /\ Apply(e, "ROOM_CREATE")
  /\ room = "none"
  /\ room' = "live"
  /\ UNCHANGED <<consultationVars, epoch, egress, deadlines, busy, seat,
                 joining, publish, over, worker, faults>>

StartEgress(e) ==
  /\ room = "live"
  /\ \/ /\ Apply(e, "ROOM_COMPOSITE_EGRESS")
        /\ egress' = egress \cup {"composite"}
     \/ /\ Apply(e, "PARTICIPANT_EGRESS")
        /\ seat[e.subj] = "in"
        /\ egress' = egress \cup {e.subj}
  /\ UNCHANGED <<consultationVars, epoch, deadlines, busy, roomVars,
                 worker, faults>>

DispatchWorker(e) ==
  /\ Apply(e, "WORKER_DISPATCH")
  /\ room = "live"
  /\ UNCHANGED <<consultationVars, epoch, egress, deadlines, busy, roomVars,
                 worker, faults>>

GrantPublication(e) ==
  /\ Apply(e, "PARTICIPANT_GRANT")
  /\ room = "live" /\ seat[e.subj] = "in"
  /\ publish' = publish \cup {e.subj}
  /\ UNCHANGED <<consultationVars, epoch, egress, deadlines, busy, room,
                 seat, joining, over, worker, faults>>

StopEgress(e) ==
  /\ Apply(e, "EGRESS_STOP")
  /\ egress' = egress \ {e.subj}
  /\ UNCHANGED <<consultationVars, epoch, deadlines, busy, roomVars,
                 worker, faults>>

RemoveParticipant(e) ==
  /\ Apply(e, "PARTICIPANT_REMOVE")
  /\ seat' = [seat EXCEPT ![e.subj] = IF @ = "in" THEN "left" ELSE @]
  /\ publish' = publish \ {e.subj}
  /\ UNCHANGED <<consultationVars, epoch, egress, deadlines, busy, room,
                 joining, over, worker, faults>>

\* Mutant: the deletion does not wait for the worker's epoch.
DeleteRoomEarly(e) ==
  /\ Apply(e, "ROOM_DELETE")
  /\ deleteDeps[e.gen] \subseteq done
  /\ room' = "deleted"
  /\ seat' = [p \in Participants |-> IF seat[p] = "in" THEN "left" ELSE seat[p]]
  /\ publish' = {}
  /\ UNCHANGED <<consultationVars, epoch, egress, deadlines, busy, joining,
                 over, worker, faults>>

\* The last effect of a drain puts everybody out.
DeleteRoom(e) ==
  /\ Apply(e, "ROOM_DELETE")
  /\ WorkerTerminal /\ deleteDeps[e.gen] \subseteq done
  /\ room' = "deleted"
  /\ seat' = [p \in Participants |-> IF seat[p] = "in" THEN "left" ELSE seat[p]]
  /\ publish' = {}
  /\ UNCHANGED <<consultationVars, epoch, egress, deadlines, busy, joining,
                 over, worker, faults>>

-----------------------------------------------------------------------------
(* The worker and the end of its epoch. *)

WorkerStarts ==
  /\ Dispatch \in done /\ room = "live"
  /\ worker = "none" /\ epoch = "reserved"
  /\ worker' = "running"
  /\ epoch' = "opened"
  /\ UNCHANGED <<consultationVars, egress, workVars, effectVars, roomVars,
                 faults>>

\* A refused heartbeat or the end of the room drains the worker, which seals.
WorkerSeals ==
  /\ worker = "running"
  /\ \/ ~Publishable \/ generation # 1 \/ epoch = "terminal"
     \/ room \in {"closed", "deleted"}
  /\ worker' = "clean"
  /\ UNCHANGED <<consultationVars, epoch, egress, workVars, effectVars,
                 roomVars, faults>>

WorkerFails ==
  /\ worker = "running"
  /\ Fault("worker")
  /\ worker' \in {"failed", "lost"}
  /\ UNCHANGED <<consultationVars, epoch, egress, workVars, effectVars, roomVars>>

\* Mutant: nobody is told of the new generation.
FailEpochSilently ==
  /\ state' = "finalizing"
  /\ generation' = generation + 1
  /\ UNCHANGED <<granted, outbox>>

\* The consultation goes on to the next generation, whatever its state.
FailEpoch ==
  /\ state' = "finalizing"
  /\ generation' = generation + 1
  /\ outbox' = outbox \cup {Request("archive_failed", generation + 1)}
  /\ UNCHANGED granted

\* completeWorkerEpoch, on the drainer's call for a sealed spool.
CompleteEpoch ==
  /\ worker \in {"clean", "failed"}
  /\ generation = 1 /\ epoch = "opened"
  /\ epoch' = "terminal"
  /\ IF worker = "failed" THEN FailEpoch ELSE UNCHANGED <<consultationVars, outbox>>
  /\ UNCHANGED <<egress, deadlines, busy, effectVars, roomVars, worker,
                 faults>>

\* Mutant: the generation of the consultation is not compared.
AbandonAnyEpoch ==
  /\ worker \in {"clean", "failed", "lost"}
  /\ epoch' = "terminal"
  /\ FailEpoch
  /\ UNCHANGED <<egress, deadlines, busy, effectVars, roomVars, worker,
                 faults>>

\* abandonWorkerEpoch, once the reservation's lease has expired.
AbandonEpoch ==
  /\ worker \in {"clean", "failed", "lost"}
  /\ generation = 1 /\ epoch = "opened"
  /\ epoch' = "terminal"
  /\ FailEpoch
  /\ UNCHANGED <<egress, deadlines, busy, effectVars, roomVars, worker,
                 faults>>

-----------------------------------------------------------------------------
User ==
  \/ Join \/ Cancel \/ End
  \/ \E p \in Participants : IssueToken(p) \/ Enter(p) \/ Leave(p)

LiveKit ==
  \/ CloseRoom
  \/ \E p \in Participants : AcceptJoin(p)
  \/ \E x \in Egresses : EgressCompletes(x) \/ EgressFails(x)

Coordinator ==
  \/ \E w \in outbox :
       \/ ReserveWorker(w) \/ PlanEffect(w) \/ PlanComposite(w)
       \/ ReadDispatchMetadata(w) \/ RequirePublishable(w) \/ MarkCaptureReady(w)
       \/ CompleteRoomDrain(w) \/ Cancelled(w) \/ ArchiveFailed(w) \/ Finalize(w)
       \/ ApplyTerminal(w)
  \/ \E h \in busy :
       \/ PlanRoom(h) \/ SeedReady(h) \/ PlanDispatch(h) \/ PlanGrant(h)
       \/ PlanFailureEffects(h) \/ IgnoreFailure(h) \/ RefuseFailure(h)
       \/ AdmitFinalization(h)
  \/ \E k \in {"ready", "finalize"} : SkipDeadline(k) \/ DrainAtDeadline(k)
  \/ ObserveReady

Runner ==
  \E e \in planned :
    \/ CreateRoom(e) \/ StartEgress(e) \/ DispatchWorker(e) \/ GrantPublication(e)
    \/ StopEgress(e) \/ RemoveParticipant(e) \/ DeleteRoom(e)

Drainer == CompleteEpoch \/ AbandonEpoch

Next ==
  \/ User \/ LiveKit \/ Coordinator \/ Runner \/ Drainer
  \/ WorkerStarts \/ WorkerSeals \/ WorkerFails
  \/ \E h \in busy : Abort(h)

Spec == Init /\ [][Next]_vars

\* The control worker's two loops, the drainer's and a worker's heartbeat go
\* on; nobody has to join, to end or to start a worker.  No step can be taken
\* for ever, so one condition does for the four.
System == Coordinator \/ Runner \/ Drainer \/ WorkerSeals
FairSpec == Spec /\ WF_vars(System)
StartSpec == FairSpec /\ WF_vars(WorkerStarts)

-----------------------------------------------------------------------------
(* Properties. *)

\* A consultation that ended has no room, no worker epoch still open, and
\* nobody who may publish (completeRoomDrain runs on effect.applied alone).
EndedIsDrained ==
  state = "ended" => room = "deleted" /\ WorkerTerminal /\ publish = {}

\* The room outlives the worker: it is deleted only after the epoch is
\* terminal, whichever drain deletes it (waitForWorkerTerminal).
RoomOutlivesWorker == room = "deleted" => epoch = "terminal"

\* LiveKit lets a participant publish, and the consultation counts them as
\* captured, only after their own egress has started (the capture barrier).
CaptureNeedsEgress ==
  \A p \in publish \cup granted : ParticipantEgress(p) \in done

\* The documented moves; a finished consultation is never revived, whichever
\* of the web application, the control worker and the drainer writes last.
Documented ==
  {<<"invited", "ready">>, <<"invited", "cancelled">>, <<"ready", "active">>,
   <<"ready", "finalizing">>, <<"ready", "cancelled">>, <<"active", "finalizing">>,
   <<"finalizing", "ended">>}
StateMoves == [][state' # state => <<state, state'>> \in Documented]_vars

\* The ways a finalizing consultation is known to stay so.
EpochStranded ==  \* no drain waits no longer than the worker's epoch is open
  \/ epoch = "reserved"
  \/ epoch = "opened" /\ generation = 2
DeleteOrphaned == \* the ROOM_DELETE waits for an effect nobody planned
  /\ RoomDelete(generation) \in planned
  /\ ~(deleteDeps[generation] \subseteq planned)
DeleteSpent ==    \* the drain for a failed egress has used up the ROOM_DELETE
  /\ RoomDelete(generation) \in done
  /\ \E e \in deleteDeps[generation] : e.stamp[1].topic = "egress_failed"

Stranded == EpochStranded \/ DeleteOrphaned \/ DeleteSpent

\* Otherwise a consultation being finalized ends: its drain is planned, its
\* worker settles, its room is deleted and it is marked ended.
EndsUnlessStranded == state = "finalizing" ~> (state = "ended" \/ Stranded)

\* The steps of a drain, by their guards: of a handler between two steps, of an
\* item or a deadline nobody handles, of the runner, of the worker and drainer.
DrainItem(w) ==
  \/ w.topic = "finalization" \/ (w.topic = "applied" /\ w.kind = "ROOM_DELETE")
  \/ w.topic = "archive_failed" /\ state = "finalizing" /\ w.gen = generation
  \/ w.topic = "cancelled" /\ state = "cancelled" /\ w.gen = generation
DrainEffect(e) ==
  /\ e.gen = generation
  /\ \/ e.kind \in {"EGRESS_STOP", "PARTICIPANT_REMOVE"}
     \/ e.kind = "ROOM_DELETE" /\ WorkerTerminal /\ deleteDeps[generation] \subseteq done
EpochSettles ==
  \/ worker = "running" /\ ~Publishable
  \/ worker \in {"clean", "failed", "lost"} /\ epoch = "opened" /\ generation = 1

DrainGoesOn ==
  \/ busy # {}
  \/ \E w \in outbox : DrainItem(w)
  \/ deadlines["ready"] = "armed" /\ generation = 1 /\ state = "finalizing"
  \/ \E e \in planned \ done : DrainEffect(e)
  \/ EpochSettles

\* Whatever failed, somebody still has a step to take until the consultation
\* ended or is stranded, or until nothing is left of a cancelled one.
QuietIsFinished ==
  \/ DrainGoesOn
  \/ state \notin {"finalizing", "cancelled"}
  \/ state = "finalizing" /\ Stranded
  \/ state = "cancelled" /\ room # "live" /\ WorkerTerminal /\ egress = {}

\* README, of ending an active consultation: "Danach werden Worker und Egress
\* kontrolliert gestoppt, alle bekannten Objekte abgeglichen und ein finales
\* Archiv-Inventar erzeugt".  It need not happen, even if a dispatched worker
\* always starts.
EndIsCarriedOut == (Request("finalization", 1) \in outbox) ~> (state = "ended")

\* A cancelled consultation leaves no room, no recording and no open epoch.
CancelledLeavesNothing ==
  state = "cancelled" ~> room # "live" /\ WorkerTerminal /\ egress = {}
=============================================================================
