-------------------------- MODULE ConsultationProofs --------------------------
(* Safety of Consultation, proved for any participants, any kinds of failure   *)
(* and any number of them.                                                     *)
EXTENDS Consultation, TLAPS

-----------------------------------------------------------------------------
(* The inductive invariant *)

\* The first two states of a consultation have one generation each, and nothing
\* is reserved for the first.
GenerationFits ==
  /\ state = "invited" => generation = 0 /\ epoch = "none"
  /\ state = "ready" => generation = 1

\* Until its worker is reserved nothing of a consultation exists but the
\* requests that reserve it, and once cancelled an open epoch is of an older
\* generation.
NothingYet ==
  epoch = "none" =>
    /\ state \in {"invited", "ready", "cancelled"}
    /\ \A w \in outbox : w.topic \in {"provisioning", "cancelled"}
    /\ planned = {} /\ busy = {} /\ egress = {} /\ joining = {} /\ room = "none"
    /\ \A k \in {"ready", "finalize"} : deadlines[k] = "none"
CancelledMovedOn == state = "cancelled" /\ epoch # "none" => generation = 2

\* The room is deleted after the worker's end, and with it everybody's right
\* to publish; a handler who hears of it, and an ended consultation, come later.
DeletedIsOver ==
  /\ room = "deleted" => epoch = "terminal" /\ publish = {}
  /\ \A w \in outbox : w.topic = "applied" /\ w.kind = "ROOM_DELETE" => room = "deleted"
  /\ state = "ended" => room = "deleted"

\* What concerns a participant names one of the two.
PersonKinds == {"PARTICIPANT_EGRESS", "PARTICIPANT_GRANT", "PARTICIPANT_REMOVE"}
NamesPerson(x) == x.kind \in PersonKinds => x.subj \in Participants

\* The capture barrier: a grant is planned, applied and recorded only after the
\* participant's egress was.
Captured(p) == ParticipantEgress(p) \in done
BarrierHolds ==
  /\ \A e \in planned :
       /\ NamesPerson(e)
       /\ e.kind = "PARTICIPANT_EGRESS" => e = ParticipantEgress(e.subj)
       /\ e.kind = "PARTICIPANT_GRANT" => Captured(e.subj)
  /\ \A w \in outbox :
       /\ NamesPerson(w)
       /\ w.topic = "plan" => w.kind \in {"PARTICIPANT_REMOVE", "PARTICIPANT_EGRESS"}
       /\ w.topic = "plan" /\ w.kind = "PARTICIPANT_EGRESS" => w.gen = 1
       /\ w.topic = "applied" /\ w.kind \in {"PARTICIPANT_EGRESS", "PARTICIPANT_GRANT"}
            => Captured(w.subj)
  /\ \A h \in busy : h.step = "grant" => h.work.subj \in Participants /\ Captured(h.work.subj)
  /\ CaptureNeedsEgress

IInv == TypeOK /\ GenerationFits /\ NothingYet /\ CancelledMovedOn /\ DeletedIsOver /\ BarrierHolds

-----------------------------------------------------------------------------
(* Records *)

LEMMA WorkType ==
  ASSUME NEW topic \in Topics, NEW kind \in Kinds \cup {"none"}, NEW subj \in Subjects,
         NEW gen \in Generations
  PROVE  /\ Work(topic, kind, subj, gen) \in Works
         /\ Work(topic, kind, subj, gen).topic = topic
         /\ Work(topic, kind, subj, gen).kind = kind
         /\ Work(topic, kind, subj, gen).subj = subj
         /\ Work(topic, kind, subj, gen).gen = gen
BY DEF Work, Works

LEMMA EffectType ==
  ASSUME NEW kind \in Kinds, NEW subj \in Subjects, NEW gen \in Generations,
         NEW stamp \in Stamps
  PROVE  /\ Effect(kind, subj, gen, stamp) \in Effects
         /\ Effect(kind, subj, gen, stamp).kind = kind
         /\ Effect(kind, subj, gen, stamp).subj = subj
         /\ Effect(kind, subj, gen, stamp).gen = gen
         /\ Effect(kind, subj, gen, stamp).stamp = stamp
BY DEF Effect, Effects

LEMMA StableType == Stable \in Stamps
BY FaultsAssumption, "none" \in Kinds \cup {"none"}
   DEF Stable, Stamps, Request, Work, Works, Topics, Subjects, Generations

LEMMA CleanupType ==
  ASSUME TypeOK, NEW w \in Works
  PROVE  /\ Cleanup(w) \subseteq Effects
         /\ \A e \in Cleanup(w) : /\ e.kind \in {"EGRESS_STOP", "PARTICIPANT_REMOVE"}
                                  /\ NamesPerson(e)
<1>1. Attempt(w) \in Stamps
  BY FaultsAssumption DEF Attempt, Stamps, TypeOK
<1>2. w.gen \in Generations
  BY DEF Works
<1>3. \A x \in egress : Effect("EGRESS_STOP", x, w.gen, Attempt(w)) \in Effects
                       /\ Effect("EGRESS_STOP", x, w.gen, Attempt(w)).kind = "EGRESS_STOP"
  <2> TAKE x \in egress
  <2>1. x \in Subjects /\ "EGRESS_STOP" \in Kinds
    BY DEF TypeOK, Subjects, Kinds
  <2> QED
    BY <1>1, <1>2, <2>1, EffectType
<1>4. \A p \in Participants :
        LET e == Effect("PARTICIPANT_REMOVE", p, w.gen, Attempt(w))
        IN e \in Effects /\ e.kind = "PARTICIPANT_REMOVE" /\ e.subj = p
  <2> TAKE p \in Participants
  <2>1. p \in Subjects /\ "PARTICIPANT_REMOVE" \in Kinds
    BY DEF Subjects, Egresses, Kinds
  <2> QED
    BY <1>1, <1>2, <2>1, EffectType
<1> QED
  BY <1>3, <1>4 DEF Cleanup, NamesPerson, PersonKinds

-----------------------------------------------------------------------------
(* What the planning of effects does to them *)

EffectsTyped ==
  /\ planned \subseteq Effects
  /\ done \subseteq planned
  /\ deleteDeps \in [Generations -> SUBSET Effects]

LEMMA InsertType ==
  ASSUME TypeOK, NEW new \in SUBSET Effects, NEW deps \in SUBSET Effects, Insert(new, deps)
  PROVE  EffectsTyped' /\ planned' = planned \cup new /\ done' = done
BY DEF Insert, TypeOK, EffectsTyped

LEMMA DeleteType ==
  ASSUME NEW g \in Generations
  PROVE  RoomDelete(g) \in Effects /\ RoomDelete(g).kind = "ROOM_DELETE"
<1>1. "ROOM_DELETE" \in Kinds /\ "consultation" \in Subjects
  BY DEF Kinds, Subjects
<1> QED
  BY <1>1, StableType, EffectType DEF RoomDelete

DrainKinds == {"EGRESS_STOP", "PARTICIPANT_REMOVE", "ROOM_DELETE"}

\* A drain, whole or in part, adds stops, removals and the deletion alone.
LEMMA DrainType ==
  ASSUME TypeOK, NEW w \in Works, PlanDrain(w) \/ PlanSomeDrain(w)
  PROVE  /\ EffectsTyped' /\ planned \subseteq planned' /\ done' = done
         /\ \A e \in planned' \ planned : e.kind \in DrainKinds /\ NamesPerson(e)
<1> DEFINE drain == Cleanup(w) \cup {RoomDelete(w.gen)}
<1>1. w.gen \in Generations
  BY DEF Works
<1>2. /\ drain \subseteq Effects
      /\ \A e \in drain : e.kind \in DrainKinds /\ NamesPerson(e)
  BY <1>1, CleanupType, DeleteType DEF DrainKinds, NamesPerson, PersonKinds
<1>3. PICK new \in SUBSET drain : Insert(new, Cleanup(w))
  BY DEF PlanDrain, PlanSomeDrain
<1>4. EffectsTyped' /\ planned' = planned \cup new /\ done' = done
  BY <1>2, <1>3, CleanupType, InsertType
<1> QED
  BY <1>2, <1>4

\* One effect planned on its own.
LEMMA PlanType ==
  ASSUME TypeOK, NEW kind \in Kinds, NEW subj \in Subjects, NEW gen \in Generations,
         InsertOne(Effect(kind, subj, gen, Stable))
  PROVE  /\ EffectsTyped' /\ done' = done
         /\ planned' = planned \cup {Effect(kind, subj, gen, Stable)}
<1>1. Effect(kind, subj, gen, Stable) \in Effects
  BY EffectType, StableType
<1>2. Insert({Effect(kind, subj, gen, Stable)}, {})
  BY DEF InsertOne
<1>3. /\ EffectsTyped' /\ done' = done
      /\ planned' = planned \cup {Effect(kind, subj, gen, Stable)}
  <2> DEFINE new == {Effect(kind, subj, gen, Stable)}
  <2>1. new \subseteq Effects /\ {} \subseteq Effects /\ Insert(new, {})
    BY <1>1, <1>2
  <2> HIDE DEF new
  <2>2. EffectsTyped' /\ planned' = planned \cup new /\ done' = done
    BY <2>1, InsertType
  <2> QED
    BY <2>2 DEF new
<1> QED
  BY <1>3

\* An effect that takes place is done, and may be reported.
LEMMA ApplyType ==
  ASSUME TypeOK, NEW e \in planned, NEW kind \in Kinds, Apply(e, kind)
  PROVE  /\ EffectsTyped' /\ planned' = planned /\ done \subseteq done' /\ e \in done'
         /\ outbox \subseteq outbox' /\ outbox' \subseteq Works
         /\ \A w \in outbox' \ outbox :
              w.topic = "applied" /\ w.kind = kind /\ w.subj = e.subj /\ w.gen = e.gen
<1>1. e \in Effects /\ kind \in Kinds \cup {"none"} /\ "applied" \in Topics
  BY DEF TypeOK, Topics
<1>2. e.subj \in Subjects /\ e.gen \in Generations
  BY <1>1 DEF Effects
<1> DEFINE new == Work("applied", kind, e.subj, e.gen)
<1>3. /\ new \in Works
      /\ new.topic = "applied" /\ new.kind = kind /\ new.subj = e.subj /\ new.gen = e.gen
  BY <1>1, <1>2, WorkType
<1> QED
  BY <1>3 DEF Apply, Same, TypeOK, EffectsTyped

-----------------------------------------------------------------------------
(* Types *)

LEMMA UserTypes ==
  ASSUME IInv, User
  PROVE  TypeOK'
<1> USE DEF IInv, TypeOK, GenerationFits, consultationVars, workVars, effectVars, roomVars
<1>1. CASE Join
  <2>1. generation + 1 \in Generations /\ "provisioning" \in Topics
    BY <1>1 DEF Join, Generations, Topics
  <2>2. Request("provisioning", generation + 1) \in Works
    BY <2>1, WorkType, "consultation" \in Subjects DEF Request, Subjects
  <2> QED
    BY <1>1, <2>1, <2>2 DEF Join
<1>2. CASE Cancel
  <2>1. generation + 1 \in Generations /\ "cancelled" \in Topics
    BY <1>2 DEF Cancel, Generations, Topics
  <2>2. Request("cancelled", generation + 1) \in Works
    BY <2>1, WorkType, "consultation" \in Subjects DEF Request, Subjects
  <2> QED
    BY <1>2, <2>1, <2>2 DEF Cancel
<1>3. CASE End
  <2>1. Request("finalization", generation) \in Works
    BY WorkType, "consultation" \in Subjects, "finalization" \in Topics
       DEF Request, Subjects, Topics
  <2> QED
    BY <1>3, <2>1 DEF End
<1>4. ASSUME NEW p \in Participants, IssueToken(p) \/ Enter(p) \/ Leave(p)
      PROVE  TypeOK'
  BY <1>4, FaultsAssumption DEF IssueToken, Enter, Leave, Fault
<1> QED
  BY <1>1, <1>2, <1>3, <1>4 DEF User

LEMMA LiveKitTypes ==
  ASSUME IInv, LiveKit
  PROVE  TypeOK'
<1> USE DEF IInv, TypeOK, consultationVars, workVars, effectVars, roomVars
<1>1. ASSUME NEW p \in Participants, AcceptJoin(p)
      PROVE  TypeOK'
  <2>1. p \in Subjects /\ "plan" \in Topics
    BY DEF Subjects, Egresses, Topics
  <2>2. \A kind \in {"PARTICIPANT_EGRESS", "PARTICIPANT_REMOVE"} :
          Work("plan", kind, p, generation) \in Works
    BY <2>1, WorkType DEF Kinds
  <2> QED
    BY <1>1, <2>2 DEF AcceptJoin
<1>2. ASSUME NEW x \in Egresses, EgressCompletes(x)
      PROVE  TypeOK'
  <2>1. Work("egress_complete", "none", x, 1) \in Works
    BY WorkType DEF Subjects, Topics, Generations
  <2> QED
    BY <1>2, <2>1 DEF EgressCompletes
<1>3. ASSUME NEW x \in Egresses, EgressFails(x)
      PROVE  TypeOK'
  <2>1. /\ Work("egress_failed", "none", x, 1) \in Works
        /\ Request("archive_failed", 2) \in Works
    BY WorkType DEF Request, Subjects, Topics, Generations
  <2>2. faults' \in 0..MaxFaults
    BY <1>3, FaultsAssumption DEF EgressFails, Fault
  <2> QED
    BY <1>3, <2>1, <2>2 DEF EgressFails, Generations
<1>4. CASE CloseRoom
  BY <1>4 DEF CloseRoom
<1> QED
  BY <1>1, <1>2, <1>3, <1>4 DEF LiveKit

\* Completing an item, or failing to, keeps the items and the count typed.
LEMMA SettleType ==
  ASSUME TypeOK, NEW w, Complete(w) \/ Settle(w)
  PROVE  outbox' \subseteq outbox /\ faults' \in 0..MaxFaults
BY FaultsAssumption DEF Complete, Settle, Fault, TypeOK

LEMMA HandlerType ==
  ASSUME TypeOK, NEW w \in Works, NEW step, step \in {"create", "seed", "dispatch",
                                                     "grant", "admit", "failure"}
  PROVE  Begin(w, step) => busy' \subseteq Handlers
BY DEF Begin, Handlers, TypeOK

\* The handlers that change no effect but those they plan.
LEMMA OutboxTypes ==
  ASSUME IInv, NEW w \in outbox,
         \/ ReserveWorker(w) \/ ReadDispatchMetadata(w) \/ RequirePublishable(w)
         \/ MarkCaptureReady(w) \/ CompleteRoomDrain(w) \/ ApplyTerminal(w)
  PROVE  TypeOK'
<1> USE DEF IInv, TypeOK, consultationVars, workVars, effectVars, roomVars
<1>1. w \in Works
  OBVIOUS
<1>2. CASE ReserveWorker(w)
  BY <1>1, <1>2, HandlerType DEF ReserveWorker
<1>3. CASE ReadDispatchMetadata(w)
  BY <1>1, <1>3, HandlerType DEF ReadDispatchMetadata
<1>4. CASE RequirePublishable(w)
  BY <1>1, <1>4, HandlerType DEF RequirePublishable
<1>5. CASE MarkCaptureReady(w)
  <2>1. w.subj \in Participants
    BY <1>5 DEF MarkCaptureReady, Applied, BarrierHolds, NamesPerson, PersonKinds
  <2> QED
    BY <1>5, <2>1, SettleType DEF MarkCaptureReady
<1>6. CASE CompleteRoomDrain(w)
  <2>1. deadlines' \in [{"ready", "finalize"} -> {"none", "armed", "done"}]
    BY <1>6 DEF CompleteRoomDrain
  <2> QED
    BY <1>6, <2>1, SettleType DEF CompleteRoomDrain
<1>7. CASE ApplyTerminal(w)
  <2>1. busy' \subseteq Handlers
    BY <1>1, <1>7, HandlerType DEF ApplyTerminal
  <2>2. outbox' \subseteq Works /\ faults' \in 0..MaxFaults
    BY <1>7, SettleType DEF ApplyTerminal
  <2> QED
    BY <1>7, <2>1, <2>2 DEF ApplyTerminal
<1> QED
  BY <1>2, <1>3, <1>4, <1>5, <1>6, <1>7

LEMMA SeedType ==
  ASSUME TypeOK, NEW g, SeedDeadlines(g)
  PROVE  deadlines' \in [{"ready", "finalize"} -> {"none", "armed", "done"}]
BY DEF SeedDeadlines, TypeOK

\* The handlers that plan effects.
LEMMA PlanningTypes ==
  ASSUME IInv, NEW w \in outbox,
         \/ PlanEffect(w) \/ PlanComposite(w) \/ Cancelled(w) \/ ArchiveFailed(w)
         \/ Finalize(w)
  PROVE  TypeOK'
<1> USE DEF IInv, TypeOK, consultationVars, workVars, effectVars, roomVars
<1>1. w \in Works
  OBVIOUS
<1>2. CASE PlanEffect(w)
  <2>1. w.kind \in Kinds /\ w.subj \in Subjects /\ w.gen \in Generations
    BY <1>1, <1>2 DEF PlanEffect, Claimable, BarrierHolds, Works, Kinds
  <2>2. EffectsTyped'
    BY <1>2, <2>1, PlanType DEF PlanEffect
  <2> QED
    BY <1>2, <2>2, SettleType DEF PlanEffect, EffectsTyped
<1>3. CASE PlanComposite(w)
  <2>1. EffectsTyped'
    BY <1>3, PlanType DEF PlanComposite, Composite, Kinds, Subjects, Generations
  <2> QED
    BY <1>3, <2>1, SettleType DEF PlanComposite, EffectsTyped
<1>4. CASE Cancelled(w)
  <2>1. EffectsTyped'
    BY <1>1, <1>4, DrainType DEF Cancelled, EffectsTyped
  <2>2. deadlines' \in [{"ready", "finalize"} -> {"none", "armed", "done"}]
    BY <1>4 DEF Cancelled
  <2> QED
    BY <1>4, <2>1, <2>2, SettleType DEF Cancelled, EffectsTyped
<1>5. CASE ArchiveFailed(w)
  <2>1. EffectsTyped'
    BY <1>1, <1>5, DrainType DEF ArchiveFailed
  <2> QED
    BY <1>5, <2>1, SettleType DEF ArchiveFailed, EffectsTyped
<1>6. CASE Finalize(w)
  <2>1. EffectsTyped'
    BY <1>1, <1>6, DrainType DEF Finalize
  <2>2. deadlines' \in [{"ready", "finalize"} -> {"none", "armed", "done"}]
    BY <1>6, SeedType DEF Finalize
  <2>3. outbox' \subseteq Works /\ faults' \in 0..MaxFaults
    BY <1>6, SettleType, FaultsAssumption DEF Finalize, PlanSomeDrain, Fault
  <2> QED
    BY <1>6, <2>1, <2>2, <2>3 DEF Finalize, EffectsTyped
<1> QED
  BY <1>2, <1>3, <1>4, <1>5, <1>6

\* The second steps of handlers, and an abort.
LEMMA HandlerTypes ==
  ASSUME IInv, NEW h \in busy,
         \/ PlanRoom(h) \/ SeedReady(h) \/ PlanDispatch(h) \/ PlanGrant(h)
         \/ PlanFailureEffects(h) \/ IgnoreFailure(h) \/ RefuseFailure(h)
         \/ AdmitFinalization(h) \/ Abort(h)
  PROVE  TypeOK'
<1> USE DEF IInv, TypeOK, consultationVars, workVars, effectVars, roomVars
<1>1. h \in Handlers /\ h.work \in Works
  BY DEF Handlers
<1>2. ASSUME Finish(h)
      PROVE  busy' \subseteq Handlers /\ outbox' \subseteq Works /\ faults' \in 0..MaxFaults
  BY <1>2, SettleType DEF Finish
<1>3. CASE PlanRoom(h)
  <2>1. EffectsTyped'
    BY <1>3, PlanType DEF PlanRoom, RoomCreate, Kinds, Subjects, Generations
  <2>2. busy' \subseteq Handlers
    BY <1>1, <1>3 DEF PlanRoom, Move, Handlers
  <2> QED
    BY <1>3, <2>1, <2>2 DEF PlanRoom, EffectsTyped
<1>4. CASE SeedReady(h)
  BY <1>2, <1>4, SeedType DEF SeedReady
<1>5. CASE PlanDispatch(h)
  <2>1. EffectsTyped'
    BY <1>5, PlanType DEF PlanDispatch, Dispatch, Kinds, Subjects, Generations
  <2> QED
    BY <1>2, <1>5, <2>1 DEF PlanDispatch, EffectsTyped
<1>6. CASE PlanGrant(h)
  <2>1. h.work.subj \in Subjects
    BY <1>1 DEF Works
  <2>2. EffectsTyped'
    BY <1>6, <2>1, PlanType DEF PlanGrant, Grant, Kinds, Generations
  <2> QED
    BY <1>2, <1>6, <2>2 DEF PlanGrant, EffectsTyped
<1>7. CASE PlanFailureEffects(h)
  <2>1. EffectsTyped'
    BY <1>1, <1>7, DrainType DEF PlanFailureEffects
  <2>2. outbox' \subseteq Works /\ faults' \in 0..MaxFaults
    BY <1>7, SettleType DEF PlanFailureEffects
  <2> QED
    BY <1>7, <2>1, <2>2 DEF PlanFailureEffects, EffectsTyped
<1>8. CASE IgnoreFailure(h)
  BY <1>2, <1>8 DEF IgnoreFailure
<1>9. CASE RefuseFailure(h)
  BY <1>9 DEF RefuseFailure
<1>10. CASE AdmitFinalization(h)
  <2>1. deadlines' \in [{"ready", "finalize"} -> {"none", "armed", "done"}]
    BY <1>10 DEF AdmitFinalization, CompleteDeadline
  <2> QED
    BY <1>10, <2>1 DEF AdmitFinalization
<1>11. CASE Abort(h)
  BY <1>11, FaultsAssumption DEF Abort, Fault
<1> QED
  BY <1>3, <1>4, <1>5, <1>6, <1>7, <1>8, <1>9, <1>10, <1>11

LEMMA DeadlineTypes ==
  ASSUME IInv,
         \/ \E k \in {"ready", "finalize"} : SkipDeadline(k) \/ DrainAtDeadline(k)
         \/ ObserveReady
  PROVE  TypeOK'
<1> USE DEF IInv, TypeOK, consultationVars, workVars, effectVars, roomVars
<1>1. \A k \in {"ready", "finalize"} : Request(k, 1) \in Works
  BY WorkType DEF Request, Topics, Subjects, Generations
<1>2. ASSUME NEW k \in {"ready", "finalize"}, SkipDeadline(k)
      PROVE  TypeOK'
  BY <1>2 DEF SkipDeadline, CompleteDeadline
<1>3. ASSUME NEW k \in {"ready", "finalize"}, DrainAtDeadline(k)
      PROVE  TypeOK'
  <2>1. EffectsTyped'
    BY <1>1, <1>3, DrainType DEF DrainAtDeadline
  <2>2. deadlines' \in [{"ready", "finalize"} -> {"none", "armed", "done"}]
    BY <1>3 DEF DrainAtDeadline, CompleteDeadline
  <2>3. faults' \in 0..MaxFaults
    BY <1>3, FaultsAssumption DEF DrainAtDeadline, PlanSomeDrain, Fault
  <2> QED
    BY <1>3, <2>1, <2>2, <2>3 DEF DrainAtDeadline, EffectsTyped
<1>4. CASE ObserveReady
  BY <1>1, <1>4, HandlerType DEF ObserveReady
<1> QED
  BY <1>2, <1>3, <1>4

LEMMA RunnerTypes ==
  ASSUME IInv, Runner
  PROVE  TypeOK'
<1> USE DEF IInv, TypeOK, consultationVars, workVars, effectVars, roomVars
<1>1. PICK e \in planned :
        \/ CreateRoom(e) \/ StartEgress(e) \/ DispatchWorker(e) \/ GrantPublication(e)
        \/ StopEgress(e) \/ RemoveParticipant(e) \/ DeleteRoom(e)
  BY DEF Runner
<1>2. PICK kind \in Kinds : Apply(e, kind)
  BY <1>1 DEF Kinds, CreateRoom, StartEgress, DispatchWorker, GrantPublication,
              StopEgress, RemoveParticipant, DeleteRoom
<1>3. EffectsTyped' /\ outbox' \subseteq Works
  BY <1>2, ApplyType
<1>4. e.kind = kind
  BY <1>2 DEF Apply
<1>5. e.kind \in PersonKinds => e.subj \in Participants
  BY DEF BarrierHolds, NamesPerson
<1>6. CASE CreateRoom(e)
  BY <1>3, <1>6 DEF CreateRoom, EffectsTyped
<1>7. CASE StartEgress(e)
  <2>1. egress' \subseteq Egresses
    BY <1>5, <1>7 DEF StartEgress, Apply, PersonKinds, Egresses
  <2> QED
    BY <1>3, <1>7, <2>1 DEF StartEgress, EffectsTyped
<1>8. CASE DispatchWorker(e)
  BY <1>3, <1>8 DEF DispatchWorker, EffectsTyped
<1>9. CASE GrantPublication(e)
  <2>1. publish' \subseteq Participants
    BY <1>5, <1>9 DEF GrantPublication, Apply, PersonKinds
  <2> QED
    BY <1>3, <1>9, <2>1 DEF GrantPublication, EffectsTyped
<1>10. CASE StopEgress(e)
  BY <1>3, <1>10 DEF StopEgress, EffectsTyped
<1>11. CASE RemoveParticipant(e)
  BY <1>3, <1>11 DEF RemoveParticipant, EffectsTyped
<1>12. CASE DeleteRoom(e)
  BY <1>3, <1>12 DEF DeleteRoom, EffectsTyped
<1> QED
  BY <1>1, <1>6, <1>7, <1>8, <1>9, <1>10, <1>11, <1>12

LEMMA WorkerTypes ==
  ASSUME IInv, Drainer \/ WorkerStarts \/ WorkerSeals \/ WorkerFails
  PROVE  TypeOK'
<1> USE DEF IInv, TypeOK, consultationVars, workVars, effectVars, roomVars
<1>1. Request("archive_failed", 2) \in Works
  BY WorkType DEF Request, Subjects, Topics, Generations
<1>2. CASE CompleteEpoch
  BY <1>1, <1>2 DEF CompleteEpoch, FailEpoch, Generations
<1>3. CASE AbandonEpoch
  BY <1>1, <1>3 DEF AbandonEpoch, FailEpoch, Generations
<1>4. CASE WorkerStarts
  BY <1>4 DEF WorkerStarts
<1>5. CASE WorkerSeals
  BY <1>5 DEF WorkerSeals
<1>6. CASE WorkerFails
  BY <1>6, FaultsAssumption DEF WorkerFails, Fault
<1> QED
  BY <1>2, <1>3, <1>4, <1>5, <1>6 DEF Drainer

\* Whoever takes it, a step keeps the types.
LEMMA TypesKept ==
  ASSUME IInv, Next
  PROVE  TypeOK'
<1>1. CASE Coordinator
  BY <1>1, OutboxTypes, PlanningTypes, HandlerTypes, DeadlineTypes DEF Coordinator
<1> QED
  BY <1>1, UserTypes, LiveKitTypes, RunnerTypes, WorkerTypes, HandlerTypes DEF Next

-----------------------------------------------------------------------------
(* States, generations and the worker's epoch *)

\* The steps that move the consultation or the epoch.
Moves ==
  \/ Join \/ Cancel \/ End \/ CompleteEpoch \/ AbandonEpoch \/ WorkerStarts
  \/ \E x \in Egresses : EgressFails(x)
  \/ \E w \in outbox : ReserveWorker(w) \/ MarkCaptureReady(w) \/ CompleteRoomDrain(w)
                         \/ Cancelled(w)
  \/ \E h \in busy : AdmitFinalization(h)

LEMMA OthersDoNotMove ==
  ASSUME Next
  PROVE  Moves \/ UNCHANGED <<state, generation, epoch>>
<1> USE DEF consultationVars
<1>1. CASE User
  BY <1>1 DEF User, Moves, IssueToken, Enter, Leave
<1>2. CASE LiveKit
  BY <1>2 DEF LiveKit, Moves, CloseRoom, AcceptJoin, EgressCompletes
<1>3. ASSUME NEW w \in outbox,
             \/ PlanEffect(w) \/ PlanComposite(w) \/ ReadDispatchMetadata(w)
             \/ RequirePublishable(w) \/ ArchiveFailed(w) \/ Finalize(w) \/ ApplyTerminal(w)
      PROVE  UNCHANGED <<state, generation, epoch>>
  BY <1>3 DEF PlanEffect, PlanComposite, ReadDispatchMetadata, RequirePublishable,
              ArchiveFailed, Finalize, ApplyTerminal
<1>4. ASSUME NEW h \in busy,
             \/ PlanRoom(h) \/ SeedReady(h) \/ PlanDispatch(h) \/ PlanGrant(h)
             \/ PlanFailureEffects(h) \/ IgnoreFailure(h) \/ RefuseFailure(h) \/ Abort(h)
      PROVE  UNCHANGED <<state, generation, epoch>>
  BY <1>4 DEF PlanRoom, SeedReady, PlanDispatch, PlanGrant, PlanFailureEffects,
              IgnoreFailure, RefuseFailure, Abort
<1>5. ASSUME NEW k \in {"ready", "finalize"},
             SkipDeadline(k) \/ DrainAtDeadline(k) \/ ObserveReady
      PROVE  UNCHANGED <<state, generation, epoch>>
  BY <1>5 DEF SkipDeadline, DrainAtDeadline, ObserveReady
<1>6. CASE Coordinator
  BY <1>3, <1>4, <1>5, <1>6 DEF Coordinator, Moves
<1>7. CASE Runner
  BY <1>7 DEF Runner, CreateRoom, StartEgress, DispatchWorker, GrantPublication,
              StopEgress, RemoveParticipant, DeleteRoom
<1>8. CASE WorkerSeals \/ WorkerFails
  BY <1>8 DEF WorkerSeals, WorkerFails
<1> QED
  BY <1>1, <1>2, <1>4, <1>6, <1>7, <1>8 DEF Next, Drainer, Moves

\* What a move changes, and from where.
LEMMA MoveCases ==
  ASSUME IInv, Moves
  PROVE  /\ state' # state => <<state, state'>> \in Documented
         /\ epoch = "terminal" => epoch' = "terminal"
         /\ epoch # "none" => epoch' # "none"
         /\ epoch = "none" => state' # "finalizing" /\ epoch' \in {"none", "reserved"}
         /\ state' = "invited" => state = "invited" /\ UNCHANGED <<generation, epoch>>
         /\ state' = "ready" => generation' = 1
         /\ state' = "cancelled" /\ epoch' # "none" => generation' = 2
<1> USE DEF IInv, GenerationFits, NothingYet, CancelledMovedOn, Documented, consultationVars
<1>1. CASE Join
  BY <1>1 DEF Join
<1>2. CASE Cancel
  BY <1>2 DEF Cancel
<1>3. CASE End
  BY <1>3 DEF End
<1>4. CASE CompleteEpoch \/ AbandonEpoch
  BY <1>4 DEF CompleteEpoch, AbandonEpoch, FailEpoch, DeletedIsOver, TypeOK
<1>5. CASE WorkerStarts
  BY <1>5 DEF WorkerStarts
<1>6. ASSUME NEW x \in Egresses, EgressFails(x)
      PROVE  /\ state' # state => <<state, state'>> \in Documented
             /\ epoch' = epoch
             /\ epoch = "none" => state' # "finalizing"
             /\ state' = "invited" => state = "invited" /\ UNCHANGED <<generation, epoch>>
             /\ state' = "ready" => generation' = 1
             /\ state' = "cancelled" /\ epoch' # "none" => generation' = 2
  BY <1>6 DEF EgressFails
<1>7. ASSUME NEW w \in outbox,
             ReserveWorker(w) \/ MarkCaptureReady(w) \/ CompleteRoomDrain(w) \/ Cancelled(w)
      PROVE  /\ state' # state => <<state, state'>> \in Documented
             /\ epoch = "terminal" => epoch' = "terminal"
             /\ epoch # "none" => epoch' # "none"
             /\ epoch = "none" => state' # "finalizing" /\ epoch' \in {"none", "reserved"}
             /\ state' = "invited" => state = "invited" /\ UNCHANGED <<generation, epoch>>
             /\ state' = "ready" => generation' = 1
             /\ state' = "cancelled" /\ epoch' # "none" => generation' = 2
  <2>1. CASE ReserveWorker(w)
    BY <2>1 DEF ReserveWorker
  <2>2. CASE MarkCaptureReady(w)
    BY <2>2 DEF MarkCaptureReady, Applied, Claimable, Publishable
  <2>3. CASE CompleteRoomDrain(w)
    BY <2>3 DEF CompleteRoomDrain, Applied, Claimable
  <2>4. CASE Cancelled(w)
    BY <2>4 DEF Cancelled
  <2> QED
    BY <1>7, <2>1, <2>2, <2>3, <2>4
<1>8. ASSUME NEW h \in busy, AdmitFinalization(h)
      PROVE  /\ state' # state => <<state, state'>> \in Documented
             /\ epoch' = epoch /\ epoch # "none"
             /\ state' = "invited" => state = "invited" /\ UNCHANGED <<generation, epoch>>
             /\ state' = "ready" => generation' = 1
             /\ state' = "cancelled" => generation' = 2
  BY <1>8 DEF AdmitFinalization
<1> QED
  BY <1>1, <1>2, <1>3, <1>4, <1>5, <1>6, <1>7, <1>8 DEF Moves

LEMMA MovesKept ==
  ASSUME IInv, Next
  PROVE  GenerationFits' /\ CancelledMovedOn' /\ (state' # state => <<state, state'>> \in Documented)
<1>1. CASE Moves
  BY <1>1, MoveCases DEF IInv, GenerationFits, CancelledMovedOn
<1>2. CASE UNCHANGED <<state, generation, epoch>>
  BY <1>2 DEF IInv, GenerationFits, CancelledMovedOn
<1> QED
  BY <1>1, <1>2, OthersDoNotMove

\* The epoch is reserved first and terminal last.
LEMMA EpochGoesOn ==
  ASSUME IInv, Next
  PROVE  /\ epoch = "terminal" => epoch' = "terminal"
         /\ epoch # "none" => epoch' # "none"
BY OthersDoNotMove, MoveCases

-----------------------------------------------------------------------------
(* Before the worker is reserved *)

LEMMA NothingYetKept ==
  ASSUME IInv, Next
  PROVE  NothingYet'
<1> SUFFICES ASSUME epoch' = "none"
             PROVE  /\ state' \in {"invited", "ready", "cancelled"}
                    /\ \A w \in outbox' : w.topic \in {"provisioning", "cancelled"}
                    /\ planned' = {} /\ busy' = {} /\ egress' = {} /\ joining' = {}
                    /\ room' = "none"
                    /\ \A k \in {"ready", "finalize"} : deadlines'[k] = "none"
  BY DEF NothingYet
<1> USE DEF consultationVars, workVars, effectVars, roomVars
<1>1. epoch = "none"
  BY EpochGoesOn
<1>2. /\ state \in {"invited", "ready", "cancelled"}
      /\ \A w \in outbox : w.topic \in {"provisioning", "cancelled"}
      /\ planned = {} /\ done = {} /\ busy = {} /\ egress = {} /\ joining = {}
      /\ room = "none"
      /\ \A k \in {"ready", "finalize"} : deadlines[k] = "none"
  BY <1>1 DEF IInv, NothingYet, TypeOK
<1>3. CASE Join \/ Cancel
  BY <1>2, <1>3 DEF Join, Cancel, Request, Work
<1>4. CASE \E p \in Participants : IssueToken(p) \/ Enter(p) \/ Leave(p)
  BY <1>2, <1>4 DEF IssueToken, Enter, Leave
<1>5. CASE User
  BY <1>2, <1>3, <1>4, <1>5 DEF User, End
<1>6. ~LiveKit
  BY <1>2 DEF LiveKit, CloseRoom, AcceptJoin, EgressFails, Reports, EgressCompletes
<1>7. ASSUME NEW w \in outbox, Cancelled(w)
      PROVE  /\ UNCHANGED <<state, planned, busy, egress, joining, room>>
             /\ outbox' \subseteq outbox
             /\ \A k \in {"ready", "finalize"} : deadlines'[k] = "none"
  BY <1>2, <1>7 DEF Cancelled, Settle, Complete
<1>8. CASE Coordinator
  <2>1. PICK w \in outbox :
          \/ ReserveWorker(w) \/ PlanEffect(w) \/ PlanComposite(w)
          \/ ReadDispatchMetadata(w) \/ RequirePublishable(w) \/ MarkCaptureReady(w)
          \/ CompleteRoomDrain(w) \/ Cancelled(w) \/ ArchiveFailed(w) \/ Finalize(w)
          \/ ApplyTerminal(w)
    BY <1>2, <1>8 DEF Coordinator, SkipDeadline, DrainAtDeadline, ObserveReady, Due
  <2>2. ~ReserveWorker(w)
    BY <1>1 DEF ReserveWorker
  <2>3. Cancelled(w)
    BY <1>2, <2>1, <2>2 DEF PlanEffect, PlanComposite, ReadDispatchMetadata,
       RequirePublishable, MarkCaptureReady, CompleteRoomDrain, ArchiveFailed, Finalize,
       ApplyTerminal, Applied, Claimable
  <2> QED
    BY <1>2, <1>7, <2>3
<1>9. CASE WorkerSeals \/ WorkerFails
  BY <1>2, <1>9 DEF WorkerSeals, WorkerFails
<1>10. ~Runner /\ ~Drainer /\ ~WorkerStarts /\ ~(\E h \in busy : Abort(h))
  BY <1>1, <1>2 DEF Runner, Drainer, CompleteEpoch, AbandonEpoch, WorkerStarts
<1> QED
  BY <1>5, <1>6, <1>8, <1>9, <1>10 DEF Next

-----------------------------------------------------------------------------
(* The room *)

\* A step that leaves what DeletedIsOver is about alone, or shrinks it.
LEMMA RoomLeftAlone ==
  ASSUME IInv, Next, UNCHANGED room, publish' \subseteq publish,
         state' = "ended" => state = "ended",
         \A w \in outbox' \ outbox : w.topic = "applied" => w.kind # "ROOM_DELETE"
  PROVE  DeletedIsOver'
BY EpochGoesOn DEF IInv, DeletedIsOver

\* A room that closes by itself is not one that was deleted.
LEMMA RoomCloses ==
  ASSUME IInv, CloseRoom
  PROVE  DeletedIsOver'
BY DEF IInv, DeletedIsOver, CloseRoom, consultationVars, workVars, Publishable

\* Of the steps before the runner's, one alone may end the consultation.
LEMMA CoordinatorRoom ==
  ASSUME IInv, Coordinator \/ \E h \in busy : Abort(h)
  PROVE  /\ UNCHANGED <<room, publish, joining, seat>>
         /\ outbox' \subseteq outbox
         /\ state' = "ended" => state = "ended" \/ \E w \in outbox : CompleteRoomDrain(w)
<1> USE DEF consultationVars, roomVars, Complete, Settle, Finish
<1>1. ASSUME NEW w \in outbox,
             \/ ReserveWorker(w) \/ PlanEffect(w) \/ PlanComposite(w)
             \/ ReadDispatchMetadata(w) \/ RequirePublishable(w) \/ MarkCaptureReady(w)
             \/ CompleteRoomDrain(w)
      PROVE  /\ UNCHANGED <<room, publish, joining, seat>>
             /\ outbox' \subseteq outbox
             /\ state' = "ended" => state = "ended" \/ CompleteRoomDrain(w)
  BY <1>1 DEF ReserveWorker, PlanEffect, PlanComposite, ReadDispatchMetadata,
              RequirePublishable, MarkCaptureReady, CompleteRoomDrain
<1>2. ASSUME NEW w \in outbox,
             Cancelled(w) \/ ArchiveFailed(w) \/ Finalize(w) \/ ApplyTerminal(w)
      PROVE  /\ UNCHANGED <<room, publish, joining, seat, state>>
             /\ outbox' \subseteq outbox
  BY <1>2 DEF Cancelled, ArchiveFailed, Finalize, ApplyTerminal
<1>3. ASSUME NEW h \in busy,
             \/ PlanRoom(h) \/ SeedReady(h) \/ PlanDispatch(h) \/ PlanGrant(h)
             \/ PlanFailureEffects(h) \/ IgnoreFailure(h) \/ RefuseFailure(h)
             \/ AdmitFinalization(h) \/ Abort(h)
      PROVE  /\ UNCHANGED <<room, publish, joining, seat>>
             /\ outbox' \subseteq outbox
             /\ state' = "ended" => state = "ended"
  BY <1>3 DEF PlanRoom, SeedReady, PlanDispatch, PlanGrant, PlanFailureEffects,
              IgnoreFailure, RefuseFailure, AdmitFinalization, Abort
<1>4. ASSUME NEW k \in {"ready", "finalize"},
             SkipDeadline(k) \/ DrainAtDeadline(k) \/ ObserveReady
      PROVE  UNCHANGED <<room, publish, joining, seat, state, outbox>>
  BY <1>4 DEF SkipDeadline, DrainAtDeadline, ObserveReady
<1> QED
  BY <1>1, <1>2, <1>3, <1>4 DEF Coordinator

LEMMA RoomKept ==
  ASSUME IInv, Next
  PROVE  DeletedIsOver'
<1> USE DEF consultationVars, workVars, effectVars, roomVars
<1>1. CASE User
  <2>1. /\ UNCHANGED room /\ publish' \subseteq publish
        /\ state' = "ended" => state = "ended"
        /\ \A w \in outbox' \ outbox : w.topic # "applied"
    BY <1>1 DEF User, Join, Cancel, End, IssueToken, Enter, Leave, Request, Work
  <2> QED
    BY <2>1, RoomLeftAlone
<1>2. CASE LiveKit
  <2>1. CASE CloseRoom
    BY <2>1, RoomCloses
  <2>2. CASE ~CloseRoom
    <3>1. /\ UNCHANGED <<room, publish>>
          /\ state' = "ended" => state = "ended"
          /\ \A w \in outbox' \ outbox : w.topic # "applied"
      BY <1>2, <2>2 DEF LiveKit, AcceptJoin, EgressCompletes, EgressFails, Request, Work
    <3> QED
      BY <3>1, RoomLeftAlone
  <2> QED
    BY <2>1, <2>2
<1>3. CASE Coordinator \/ \E h \in busy : Abort(h)
  <2>1. CASE \E w \in outbox : CompleteRoomDrain(w)
    BY <1>3, <2>1, CoordinatorRoom, EpochGoesOn
       DEF IInv, DeletedIsOver, CompleteRoomDrain, Applied, Claimable
  <2>2. CASE ~\E w \in outbox : CompleteRoomDrain(w)
    BY <1>3, <2>2, CoordinatorRoom, RoomLeftAlone
  <2> QED
    BY <2>1, <2>2
<1>4. CASE Runner
  <2>1. PICK e \in planned :
          \/ CreateRoom(e) \/ StartEgress(e) \/ DispatchWorker(e) \/ GrantPublication(e)
          \/ StopEgress(e) \/ RemoveParticipant(e) \/ DeleteRoom(e)
    BY <1>4 DEF Runner
  <2>2. PICK kind \in Kinds : Apply(e, kind)
    BY <2>1 DEF Kinds, CreateRoom, StartEgress, DispatchWorker, GrantPublication,
                StopEgress, RemoveParticipant, DeleteRoom
  <2>3. /\ e.kind = kind
        /\ \A w \in outbox' \ outbox : w.kind = e.kind
    BY <2>2, ApplyType DEF Apply, IInv
  <2>4. CASE DeleteRoom(e)
    <3>1. epoch = "terminal"
      BY <2>4 DEF DeleteRoom, WorkerTerminal, IInv, NothingYet, TypeOK
    <3> QED
      BY <2>4, <3>1 DEF DeleteRoom, DeletedIsOver
  <2>5. CASE CreateRoom(e)
    BY <2>3, <2>5 DEF CreateRoom, Apply, IInv, DeletedIsOver
  <2>6. CASE GrantPublication(e)
    BY <2>3, <2>6 DEF GrantPublication, Apply, IInv, DeletedIsOver
  <2>7. CASE StartEgress(e) \/ DispatchWorker(e) \/ StopEgress(e) \/ RemoveParticipant(e)
    <3>1. UNCHANGED <<room, state>> /\ publish' \subseteq publish /\ e.kind # "ROOM_DELETE"
      BY <2>7 DEF StartEgress, DispatchWorker, StopEgress, RemoveParticipant, Apply
    <3> QED
      BY <2>3, <3>1, RoomLeftAlone
  <2> QED
    BY <2>1, <2>4, <2>5, <2>6, <2>7
<1>5. CASE Drainer \/ WorkerStarts \/ WorkerSeals \/ WorkerFails
  <2>1. /\ UNCHANGED <<room, publish>>
        /\ state' = "ended" => state = "ended"
        /\ \A w \in outbox' \ outbox : w.topic # "applied"
    BY <1>5 DEF Drainer, CompleteEpoch, AbandonEpoch, FailEpoch, WorkerStarts, WorkerSeals,
                WorkerFails, Request, Work
  <2> QED
    BY <2>1, RoomLeftAlone
<1> QED
  BY <1>1, <1>2, <1>3, <1>4, <1>5 DEF Next

-----------------------------------------------------------------------------
(* The capture barrier *)

\* What a new effect, outbox item or handler must satisfy.
EffectFits(e) ==
  /\ NamesPerson(e)
  /\ e.kind = "PARTICIPANT_EGRESS" => e = ParticipantEgress(e.subj)
  /\ e.kind = "PARTICIPANT_GRANT" => Captured(e.subj)
WorkFits(w) ==
  /\ NamesPerson(w)
  /\ w.topic = "plan" => w.kind \in {"PARTICIPANT_REMOVE", "PARTICIPANT_EGRESS"}
  /\ w.topic = "plan" /\ w.kind = "PARTICIPANT_EGRESS" => w.gen = 1
  /\ w.topic = "applied" /\ w.kind \in {"PARTICIPANT_EGRESS", "PARTICIPANT_GRANT"}
       => Captured(w.subj)
HandlerFits(h) ==
  h.step = "grant" => h.work.subj \in Participants /\ Captured(h.work.subj)

\* The barrier survives a step that adds nothing unfit.
LEMMA BarrierFrame ==
  ASSUME BarrierHolds, done \subseteq done',
         \A e \in planned' \ planned : EffectFits(e)',
         \A w \in outbox' \ outbox : WorkFits(w)',
         \A h \in busy' \ busy : HandlerFits(h)',
         \A p \in publish' \ publish : Captured(p)',
         \A p \in granted' \ granted : Captured(p)'
  PROVE  BarrierHolds'
BY DEF BarrierHolds, EffectFits, WorkFits, HandlerFits, Captured, CaptureNeedsEgress,
       NamesPerson

LEMMA UserBarrier ==
  ASSUME IInv, User \/ LiveKit
  PROVE  BarrierHolds'
<1> USE DEF consultationVars, workVars, effectVars, roomVars
<1>1. CASE User
  <2>1. /\ UNCHANGED <<planned, done, busy, granted>> /\ publish' \subseteq publish
        /\ \A w \in outbox' \ outbox : w.topic \notin {"plan", "applied"} /\ w.kind = "none"
    BY <1>1 DEF User, Join, Cancel, End, IssueToken, Enter, Leave, Request, Work
  <2> QED
    BY <2>1, BarrierFrame DEF IInv, WorkFits, NamesPerson, PersonKinds
<1>2. CASE LiveKit
  <2>1. UNCHANGED <<planned, done, busy, granted, publish>>
    BY <1>2 DEF LiveKit, CloseRoom, AcceptJoin, EgressCompletes, EgressFails
  <2>2. \A w \in outbox' \ outbox :
          \/ w.topic \notin {"plan", "applied"} /\ w.kind = "none"
          \/ /\ w.topic = "plan" /\ w.subj \in Participants
             /\ \/ w.kind = "PARTICIPANT_EGRESS" /\ w.gen = 1
                \/ w.kind = "PARTICIPANT_REMOVE"
    BY <1>2 DEF LiveKit, CloseRoom, AcceptJoin, EgressCompletes, EgressFails, Request, Work
  <2> QED
    BY <2>1, <2>2, BarrierFrame DEF IInv, WorkFits, NamesPerson, PersonKinds
<1> QED
  BY <1>1, <1>2

\* What drains and single plans add is fit.
LEMMA DrainFits ==
  ASSUME IInv, NEW w \in Works, PlanDrain(w) \/ PlanSomeDrain(w)
  PROVE  done' = done /\ \A e \in planned' \ planned : EffectFits(e)'
BY DrainType DEF IInv, DrainKinds, EffectFits, NamesPerson, PersonKinds

LEMMA PlanFits ==
  ASSUME IInv, NEW kind \in Kinds, NEW subj \in Subjects, NEW gen \in Generations,
         InsertOne(Effect(kind, subj, gen, Stable)),
         kind \in PersonKinds => subj \in Participants,
         kind = "PARTICIPANT_EGRESS" => gen = 1,
         kind = "PARTICIPANT_GRANT" => Captured(subj)
  PROVE  done' = done /\ \A e \in planned' \ planned : EffectFits(e)'
<1> DEFINE new == Effect(kind, subj, gen, Stable)
<1>1. done' = done /\ planned' = planned \cup {new}
  BY PlanType DEF IInv
<1>2. new.kind = kind /\ new.subj = subj
  BY EffectType, StableType
<1>3. kind = "PARTICIPANT_EGRESS" => new = ParticipantEgress(subj)
  BY DEF ParticipantEgress
<1>4. EffectFits(new)'
  BY <1>1, <1>2, <1>3 DEF EffectFits, NamesPerson, Captured
<1> QED
  BY <1>1, <1>4

LEMMA OutboxBarrier ==
  ASSUME IInv, NEW w \in outbox,
         \/ ReserveWorker(w) \/ PlanEffect(w) \/ PlanComposite(w)
         \/ ReadDispatchMetadata(w) \/ RequirePublishable(w) \/ MarkCaptureReady(w)
         \/ CompleteRoomDrain(w) \/ Cancelled(w) \/ ArchiveFailed(w) \/ Finalize(w)
         \/ ApplyTerminal(w)
  PROVE  BarrierHolds'
<1> USE DEF consultationVars, workVars, effectVars, roomVars, Complete, Settle
<1>1. w \in Works /\ WorkFits(w) /\ BarrierHolds
  BY DEF IInv, TypeOK, BarrierHolds, WorkFits
<1>2. CASE \/ ReserveWorker(w) \/ ReadDispatchMetadata(w) \/ CompleteRoomDrain(w)
           \/ ApplyTerminal(w)
  <2>1. /\ UNCHANGED <<planned, done, publish, granted>> /\ outbox' \subseteq outbox
        /\ \A h \in busy' \ busy : h.step # "grant"
    BY <1>2 DEF ReserveWorker, ReadDispatchMetadata, CompleteRoomDrain, ApplyTerminal, Begin
  <2> QED
    BY <1>1, <2>1, BarrierFrame DEF HandlerFits
<1>3. CASE RequirePublishable(w)
  <2>1. Captured(w.subj) /\ w.subj \in Participants
    BY <1>1, <1>3 DEF RequirePublishable, Applied, Claimable, WorkFits, NamesPerson, PersonKinds
  <2>2. /\ UNCHANGED <<planned, done, publish, granted, outbox>>
        /\ \A h \in busy' \ busy : h.work = w
    BY <1>3 DEF RequirePublishable, Begin
  <2> QED
    BY <1>1, <2>1, <2>2, BarrierFrame DEF HandlerFits, Captured
<1>4. CASE MarkCaptureReady(w)
  <2>1. Captured(w.subj)
    BY <1>1, <1>4 DEF MarkCaptureReady, Applied, Claimable, WorkFits
  <2>2. /\ UNCHANGED <<planned, done, publish, busy>> /\ outbox' \subseteq outbox
        /\ granted' = granted \cup {w.subj}
    BY <1>4 DEF MarkCaptureReady
  <2> QED
    BY <1>1, <2>1, <2>2, BarrierFrame DEF Captured
<1>5. CASE PlanEffect(w)
  <2>1. /\ w.kind \in Kinds /\ w.subj \in Subjects /\ w.gen \in Generations
        /\ w.kind \in PersonKinds => w.subj \in Participants
        /\ w.kind = "PARTICIPANT_EGRESS" => w.gen = 1
        /\ w.kind # "PARTICIPANT_GRANT"
    BY <1>1, <1>5 DEF PlanEffect, Claimable, WorkFits, NamesPerson, Works, Kinds
  <2>2. done' = done /\ \A e \in planned' \ planned : EffectFits(e)'
    BY <1>5, <2>1, PlanFits DEF PlanEffect
  <2>3. UNCHANGED <<publish, granted, busy>> /\ outbox' \subseteq outbox
    BY <1>5 DEF PlanEffect
  <2> QED
    BY <1>1, <2>2, <2>3, BarrierFrame
<1>6. CASE PlanComposite(w)
  <2>1. done' = done /\ \A e \in planned' \ planned : EffectFits(e)'
    BY <1>6, PlanFits DEF PlanComposite, Composite, Kinds, Subjects, Generations, PersonKinds
  <2>2. UNCHANGED <<publish, granted, busy>> /\ outbox' \subseteq outbox
    BY <1>6 DEF PlanComposite
  <2> QED
    BY <1>1, <2>1, <2>2, BarrierFrame
<1>7. CASE Cancelled(w) \/ ArchiveFailed(w) \/ Finalize(w)
  <2>1. done' = done /\ \A e \in planned' \ planned : EffectFits(e)'
    BY <1>1, <1>7, DrainFits DEF Cancelled, ArchiveFailed, Finalize
  <2>2. UNCHANGED <<publish, granted, busy>> /\ outbox' \subseteq outbox
    BY <1>7 DEF Cancelled, ArchiveFailed, Finalize
  <2> QED
    BY <1>1, <2>1, <2>2, BarrierFrame
<1> QED
  BY <1>2, <1>3, <1>4, <1>5, <1>6, <1>7

LEMMA HandlerBarrier ==
  ASSUME IInv, NEW h \in busy,
         \/ PlanRoom(h) \/ SeedReady(h) \/ PlanDispatch(h) \/ PlanGrant(h)
         \/ PlanFailureEffects(h) \/ IgnoreFailure(h) \/ RefuseFailure(h)
         \/ AdmitFinalization(h) \/ Abort(h)
  PROVE  BarrierHolds'
<1> USE DEF consultationVars, workVars, effectVars, roomVars, Finish, Complete, Settle
<1>1. h.work \in Works /\ HandlerFits(h) /\ BarrierHolds
  BY DEF IInv, TypeOK, Handlers, BarrierHolds, HandlerFits
<1>2. /\ UNCHANGED <<publish, granted>> /\ outbox' \subseteq outbox
      /\ \A g \in busy' \ busy : g.step # "grant"
  <2>1. CASE PlanRoom(h)
    <3>1. [h EXCEPT !.step = "seed"].step = "seed"
      BY DEF IInv, TypeOK, Handlers
    <3> QED
      BY <2>1, <3>1 DEF PlanRoom, Move
  <2>2. CASE SeedReady(h) \/ PlanDispatch(h) \/ PlanGrant(h) \/ PlanFailureEffects(h)
    BY <2>2 DEF SeedReady, PlanDispatch, PlanGrant, PlanFailureEffects
  <2>3. CASE IgnoreFailure(h) \/ RefuseFailure(h) \/ AdmitFinalization(h) \/ Abort(h)
    BY <2>3 DEF IgnoreFailure, RefuseFailure, AdmitFinalization, Abort
  <2> QED
    BY <2>1, <2>2, <2>3
<1>3. done' = done /\ \A e \in planned' \ planned : EffectFits(e)'
  <2>1. CASE PlanRoom(h)
    BY <2>1, PlanFits DEF PlanRoom, RoomCreate, Kinds, Subjects, Generations, PersonKinds
  <2>2. CASE PlanDispatch(h)
    BY <2>2, PlanFits DEF PlanDispatch, Dispatch, Kinds, Subjects, Generations, PersonKinds
  <2>3. CASE PlanGrant(h)
    <3>1. h.work.subj \in Subjects /\ h.work.subj \in Participants /\ Captured(h.work.subj)
      BY <1>1, <2>3 DEF Works, PlanGrant, At, HandlerFits
    <3> QED
      BY <2>3, <3>1, PlanFits DEF PlanGrant, Grant, Kinds, Generations
  <2>4. CASE PlanFailureEffects(h)
    BY <1>1, <2>4, DrainFits DEF PlanFailureEffects
  <2>5. CASE \/ SeedReady(h) \/ IgnoreFailure(h) \/ RefuseFailure(h)
             \/ AdmitFinalization(h) \/ Abort(h)
    BY <2>5 DEF SeedReady, IgnoreFailure, RefuseFailure, AdmitFinalization, Abort
  <2> QED
    BY <2>1, <2>2, <2>3, <2>4, <2>5
<1> QED
  BY <1>1, <1>2, <1>3, BarrierFrame DEF HandlerFits

LEMMA DeadlineBarrier ==
  ASSUME IInv,
         \/ \E k \in {"ready", "finalize"} : SkipDeadline(k) \/ DrainAtDeadline(k)
         \/ ObserveReady
  PROVE  BarrierHolds'
<1> USE DEF consultationVars, workVars, effectVars, roomVars
<1>1. /\ UNCHANGED <<publish, granted, outbox>>
      /\ \A h \in busy' \ busy : h.step # "grant"
  BY DEF SkipDeadline, DrainAtDeadline, ObserveReady, Begin
<1>2. done' = done /\ \A e \in planned' \ planned : EffectFits(e)'
  <2>1. \A k \in {"ready", "finalize"} : Request(k, 1) \in Works
    BY WorkType DEF Request, Topics, Subjects, Generations
  <2>2. CASE \E k \in {"ready", "finalize"} : DrainAtDeadline(k)
    BY <2>1, <2>2, DrainFits DEF DrainAtDeadline
  <2>3. CASE ObserveReady \/ \E k \in {"ready", "finalize"} : SkipDeadline(k)
    BY <2>3 DEF ObserveReady, SkipDeadline
  <2> QED
    BY <2>2, <2>3
<1> QED
  BY <1>1, <1>2, BarrierFrame DEF IInv, HandlerFits

LEMMA RunnerBarrier ==
  ASSUME IInv, Runner
  PROVE  BarrierHolds'
<1> USE DEF consultationVars, workVars, effectVars, roomVars
<1>1. PICK e \in planned :
        \/ CreateRoom(e) \/ StartEgress(e) \/ DispatchWorker(e) \/ GrantPublication(e)
        \/ StopEgress(e) \/ RemoveParticipant(e) \/ DeleteRoom(e)
  BY DEF Runner
<1>2. PICK kind \in Kinds : Apply(e, kind)
  BY <1>1 DEF Kinds, CreateRoom, StartEgress, DispatchWorker, GrantPublication,
              StopEgress, RemoveParticipant, DeleteRoom
<1>3. /\ planned' = planned /\ done \subseteq done' /\ e \in done'
      /\ \A w \in outbox' \ outbox :
           w.topic = "applied" /\ w.kind = kind /\ w.subj = e.subj /\ w.gen = e.gen
  BY <1>2, ApplyType DEF IInv
<1>4. e.kind = kind /\ EffectFits(e) /\ BarrierHolds
  BY <1>2 DEF Apply, EffectFits, BarrierHolds, IInv
<1>5. \A w \in outbox' \ outbox : WorkFits(w)'
  BY <1>3, <1>4 DEF WorkFits, EffectFits, NamesPerson, PersonKinds, Captured
<1>6. UNCHANGED <<busy, granted>>
  BY <1>1 DEF CreateRoom, StartEgress, DispatchWorker, GrantPublication, StopEgress,
              RemoveParticipant, DeleteRoom
<1>7. \A p \in publish' \ publish : Captured(p)'
  <2>1. CASE GrantPublication(e)
    BY <1>3, <1>4, <2>1 DEF GrantPublication, Apply, EffectFits, Captured
  <2>2. CASE ~GrantPublication(e)
    BY <1>1, <2>2 DEF CreateRoom, StartEgress, DispatchWorker, StopEgress,
                      RemoveParticipant, DeleteRoom
  <2> QED
    BY <2>1, <2>2
<1> QED
  BY <1>3, <1>4, <1>5, <1>6, <1>7, BarrierFrame

LEMMA WorkerBarrier ==
  ASSUME IInv, Drainer \/ WorkerStarts \/ WorkerSeals \/ WorkerFails
  PROVE  BarrierHolds'
<1>1. /\ UNCHANGED <<planned, done, busy, granted, publish>>
      /\ \A w \in outbox' \ outbox : w.topic = "archive_failed" /\ w.kind = "none"
  BY DEF Drainer, CompleteEpoch, AbandonEpoch, FailEpoch, WorkerStarts, WorkerSeals,
         WorkerFails, Request, Work, consultationVars, workVars, effectVars, roomVars
<1> QED
  BY <1>1, BarrierFrame DEF IInv, WorkFits, NamesPerson, PersonKinds

LEMMA BarrierKept ==
  ASSUME IInv, Next
  PROVE  BarrierHolds'
<1>1. CASE Coordinator
  BY <1>1, OutboxBarrier, HandlerBarrier, DeadlineBarrier DEF Coordinator
<1> QED
  BY <1>1, UserBarrier, RunnerBarrier, WorkerBarrier, HandlerBarrier DEF Next

-----------------------------------------------------------------------------
(* The theorems *)

LEMMA InitHolds == Init => IInv
<1> SUFFICES ASSUME Init PROVE IInv
  OBVIOUS
<1>1. TypeOK
  BY FaultsAssumption DEF Init, TypeOK, Generations
<1> QED
  BY <1>1 DEF Init, IInv, GenerationFits, NothingYet, CancelledMovedOn, DeletedIsOver,
              BarrierHolds, CaptureNeedsEgress

LEMMA StepKeeps == IInv /\ [Next]_vars => IInv'
<1> SUFFICES ASSUME IInv, [Next]_vars PROVE IInv'
  OBVIOUS
<1>1. CASE Next
  BY <1>1, TypesKept, MovesKept, NothingYetKept, RoomKept, BarrierKept DEF IInv
<1>2. CASE UNCHANGED vars
  BY <1>2 DEF vars, consultationVars, workVars, effectVars, roomVars, IInv, TypeOK,
     GenerationFits, NothingYet, CancelledMovedOn, DeletedIsOver, BarrierHolds,
     CaptureNeedsEgress, Captured, NamesPerson
<1> QED
  BY <1>1, <1>2

\* The inductive invariant of the web application, the control worker, LiveKit
\* and the drainer together, in every interleaving of their steps.
THEOREM ConsultationInvariant == Spec => []IInv
BY InitHolds, StepKeeps, PTL DEF Spec

\* The rows, rooms and handlers keep their types (consultations, external_effects
\* and outbox of the schema), so generations never pass 2.
THEOREM ConsultationTypes == Spec => []TypeOK
BY ConsultationInvariant, PTL DEF IInv

\* The room is deleted only after the worker's epoch is terminal, whichever
\* drain deletes it (waitForWorkerTerminal in claimEffects).
THEOREM RoomIsLast == Spec => []RoomOutlivesWorker
<1>1. IInv => RoomOutlivesWorker
  BY DEF IInv, DeletedIsOver, RoomOutlivesWorker
<1> QED
  BY <1>1, ConsultationInvariant, PTL

\* A consultation is ended only when its room is gone, its epoch terminal and
\* nobody may publish (completeRoomDrain).
THEOREM EndComesLast == Spec => []EndedIsDrained
<1>1. IInv => EndedIsDrained
  BY DEF IInv, DeletedIsOver, EndedIsDrained, WorkerTerminal
<1> QED
  BY <1>1, ConsultationInvariant, PTL

\* Nobody publishes, or counts as captured, whose own egress has not started
\* (planParticipantGrant, markCaptureReady).
THEOREM CaptureBarrier == Spec => []CaptureNeedsEgress
<1>1. IInv => CaptureNeedsEgress
  BY DEF IInv, BarrierHolds
<1> QED
  BY <1>1, ConsultationInvariant, PTL

\* The state takes documented moves alone: a finished consultation is never
\* revived, neither by a late capture barrier nor by a late epoch failure.
THEOREM StatesFollowDocument == Spec => StateMoves
<1>1. IInv /\ [Next]_vars => [state' # state => <<state, state'>> \in Documented]_vars
  <2> SUFFICES ASSUME IInv, Next
               PROVE  state' # state => <<state, state'>> \in Documented
    OBVIOUS
  <2> QED
    BY MovesKept
<1> QED
  BY <1>1, ConsultationInvariant, PTL DEF Spec, StateMoves

-----------------------------------------------------------------------------
(* The drain is never dropped: what else holds of it *)

\* The epoch is of a consultation that was provisioned, and opened by a worker.
EpochFits ==
  /\ epoch # "none" => generation \in {1, 2}
  /\ state = "active" => generation = 1
  /\ epoch = "opened" => worker # "none"

\* The items of a drain are the ones somebody has asked for.
ItemFits(w) ==
  /\ w.gen <= generation
  /\ w.topic = "finalization" =>
       w = Request("finalization", 1) /\ state \in {"finalizing", "ended"}
  /\ w.topic = "archive_failed" => w = Request("archive_failed", 2)
  /\ w.topic = "applied" /\ w.kind = "ROOM_DELETE" =>
       /\ w = Work("applied", "ROOM_DELETE", "consultation", w.gen)
       /\ RoomDelete(w.gen) \in done
ItemsFit == \A w \in outbox : ItemFits(w)

\* A drain is one step of its item; the handlers that take several are of other
\* items, and one that admits to finalization has its deadline to come back to.
HandlerHolds(h) ==
  /\ h.work.gen <= generation
  /\ h.work.topic \in {"provisioning", "applied", "egress_failed", "ready"}
  /\ h.work.topic = "applied" => h.work.kind # "ROOM_DELETE"
  /\ h.step = "failure" => h.work.topic = "egress_failed"
  /\ h.step = "admit" =>
       /\ h.work = Request("ready", 1)
       /\ deadlines["ready"] = "armed" \/ RoomDelete(1) \in planned \/ generation = 2
HandlersHold == \A h \in busy : HandlerHolds(h)

\* A room is created and deleted under one identity for each generation; its
\* deletion waits for stops and removals of that generation.
DrainStops == {"EGRESS_STOP", "PARTICIPANT_REMOVE"}
EffectHolds(e) ==
  /\ e.gen <= generation
  /\ e.kind = "ROOM_DELETE" => e = RoomDelete(e.gen)
  /\ e.kind = "ROOM_CREATE" => e = RoomCreate
  /\ e.kind = "ROOM_COMPOSITE_EGRESS" => e.gen = 1
EffectsHold ==
  /\ \A e \in planned : EffectHolds(e)
  /\ \A g \in Generations : RoomDelete(g) \in planned =>
       \A e \in deleteDeps[g] : e.gen = g /\ e.kind \in DrainStops
  /\ room = "live" \/ egress # {} => RoomCreate \in done
  /\ \A g \in Generations : RoomDelete(g) \in done => room = "deleted"

\* A consultation being finalized whose room nobody plans to delete yet still
\* has the request, or the deadline, that will.
FinalizingHeld ==
  state = "finalizing" /\ RoomDelete(generation) \notin planned =>
    \/ generation = 1 /\ Request("finalization", 1) \in outbox
    \/ generation = 1 /\ deadlines["ready"] = "armed"
    \/ generation = 2 /\ Request("archive_failed", 2) \in outbox

\* Its ROOM_DELETE, once done, is reported to the coordinator, or was spent by
\* a failed egress's drain: the only one a consultation not yet being finalized
\* can have.
SpentBy(g) == \E e \in deleteDeps[g] : e.stamp[1].topic = "egress_failed"
DeleteReported ==
  /\ state = "finalizing" /\ RoomDelete(generation) \in done =>
       \/ Work("applied", "ROOM_DELETE", "consultation", generation) \in outbox
       \/ SpentBy(generation)
  /\ state \in {"ready", "active"} /\ RoomDelete(1) \in planned => SpentBy(1)

\* What is left of a cancelled consultation has its drain: planned whole, once
\* its request was handled, with a stop for each egress that still runs.
StopOf(x) == {e \in planned : e.kind = "EGRESS_STOP" /\ e.subj = x /\ e.gen = generation}
CancelledHeld ==
  state = "cancelled" =>
    /\ RoomDelete(generation) \in planned => deleteDeps[generation] \subseteq planned
    /\ \A e \in done : e.kind = "EGRESS_STOP" /\ e.gen = generation => e.subj \notin egress
    /\ Request("cancelled", generation) \notin outbox =>
         /\ WorkerTerminal
         /\ RoomCreate \in done =>
              RoomDelete(generation) \in planned /\ \A x \in egress : StopOf(x) # {}

Baton ==
  /\ EpochFits /\ ItemsFit /\ HandlersHold /\ EffectsHold
  /\ FinalizingHeld /\ DeleteReported /\ CancelledHeld
Held == IInv /\ Baton

-----------------------------------------------------------------------------
(* Requests, deletions and drains *)

LEMMA RequestType ==
  ASSUME NEW topic \in Topics, NEW gen \in Generations
  PROVE  /\ Request(topic, gen) \in Works
         /\ Request(topic, gen).topic = topic
         /\ Request(topic, gen).kind = "none"
         /\ Request(topic, gen).gen = gen
BY WorkType, "consultation" \in Subjects DEF Request, Subjects

LEMMA RoomEffects ==
  /\ \A g \in Generations :
       /\ RoomDelete(g) \in Effects
       /\ RoomDelete(g).kind = "ROOM_DELETE"
       /\ RoomDelete(g).subj = "consultation"
       /\ RoomDelete(g).gen = g
  /\ RoomCreate \in Effects /\ RoomCreate.kind = "ROOM_CREATE" /\ RoomCreate.gen = 1
<1>1. "ROOM_DELETE" \in Kinds /\ "ROOM_CREATE" \in Kinds /\ "consultation" \in Subjects
      /\ 1 \in Generations
  BY DEF Kinds, Subjects, Generations
<1> QED
  BY <1>1, StableType, EffectType DEF RoomDelete, RoomCreate

LEMMA CleanupFields ==
  ASSUME TypeOK, NEW w \in Works
  PROVE  /\ \A e \in Cleanup(w) :
              e.gen = w.gen /\ e.kind \in DrainStops /\ e.stamp[1] = w
         /\ \A x \in egress : \E e \in Cleanup(w) : e.kind = "EGRESS_STOP" /\ e.subj = x
         /\ Cleanup(w) # {}
<1>1. Attempt(w) \in Stamps /\ Attempt(w)[1] = w
  BY FaultsAssumption DEF Attempt, Stamps, TypeOK
<1>2. w.gen \in Generations
  BY DEF Works
<1> DEFINE stop(x) == Effect("EGRESS_STOP", x, w.gen, Attempt(w))
           removal(p) == Effect("PARTICIPANT_REMOVE", p, w.gen, Attempt(w))
<1>3. \A x \in egress :
        /\ stop(x).kind = "EGRESS_STOP" /\ stop(x).subj = x /\ stop(x).gen = w.gen
        /\ stop(x).stamp = Attempt(w)
  BY <1>1, <1>2, EffectType DEF TypeOK, Subjects, Kinds
<1>4. \A p \in Participants :
        /\ removal(p).kind = "PARTICIPANT_REMOVE" /\ removal(p).gen = w.gen
        /\ removal(p).stamp = Attempt(w)
  BY <1>1, <1>2, EffectType DEF Subjects, Egresses, Kinds
<1>5. Cleanup(w) = {stop(x) : x \in egress} \cup {removal(p) : p \in Participants}
  BY DEF Cleanup
<1> HIDE DEF stop, removal
<1> QED
  BY <1>1, <1>3, <1>4, <1>5, SomeoneAssumption DEF DrainStops

\* One effect planned on its own leaves the deletions alone.
LEMMA OneFields ==
  ASSUME TypeOK, NEW e, e.kind # "ROOM_DELETE", InsertOne(e)
  PROVE  planned' = planned \cup {e} /\ done' = done /\ deleteDeps' = deleteDeps
<1>1. \A g \in Generations : RoomDelete(g) # e
  BY RoomEffects
<1>2. deleteDeps' = [g \in Generations |-> deleteDeps[g]]
  BY <1>1 DEF InsertOne, Insert
<1> QED
  BY <1>2 DEF InsertOne, Insert, TypeOK

\* A drain plans the deletion of its own generation, waiting for its own stops.
LEMMA DrainFields ==
  ASSUME TypeOK, NEW w \in Works, PlanDrain(w) \/ PlanSomeDrain(w)
  PROVE  /\ planned \subseteq planned' /\ done' = done
         /\ \A e \in planned' \ planned :
              e.gen = w.gen /\ (e.kind \in DrainStops \/ e = RoomDelete(w.gen))
         /\ \A g \in Generations : RoomDelete(g) \in planned' \ planned =>
              g = w.gen /\ deleteDeps'[g] = Cleanup(w)
         /\ \A g \in Generations : RoomDelete(g) \in planned \/ g # w.gen =>
              deleteDeps'[g] = deleteDeps[g]
         /\ PlanDrain(w) =>
              Cleanup(w) \subseteq planned' /\ RoomDelete(w.gen) \in planned'
<1> DEFINE drain == Cleanup(w) \cup {RoomDelete(w.gen)}
<1>1. w.gen \in Generations
  BY DEF Works
<1>2. /\ \A e \in drain :
           e.gen = w.gen /\ (e.kind \in DrainStops \/ e = RoomDelete(w.gen))
      /\ \A g \in Generations : RoomDelete(g) \in drain => g = w.gen
  BY <1>1, CleanupFields, RoomEffects
<1>3. PICK new \in SUBSET drain : /\ Insert(new, Cleanup(w))
                                  /\ PlanDrain(w) => new = drain
  <2>1. CASE PlanDrain(w)
    BY <2>1 DEF PlanDrain
  <2>2. CASE PlanSomeDrain(w) /\ ~PlanDrain(w)
    BY <2>2 DEF PlanSomeDrain
  <2> QED
    BY <2>1, <2>2
<1> HIDE DEF drain
<1>4. /\ planned' = planned \cup new /\ done' = done
      /\ \A g \in Generations : deleteDeps'[g] =
           IF RoomDelete(g) \in new \ planned THEN Cleanup(w) ELSE deleteDeps[g]
  BY <1>3 DEF Insert
<1>5. PlanDrain(w) => Cleanup(w) \subseteq planned' /\ RoomDelete(w.gen) \in planned'
  BY <1>3, <1>4 DEF drain
<1> QED
  BY <1>2, <1>3, <1>4, <1>5

-----------------------------------------------------------------------------
(* How a step changes effects, rooms, items and handlers *)

KeepsEffects == UNCHANGED <<planned, done, deleteDeps>>
KeepsRest == UNCHANGED <<state, generation, egress, room>>

PlansOne(e) ==
  /\ InsertOne(e) /\ KeepsRest
  /\ e.kind \notin {"ROOM_DELETE", "EGRESS_STOP"} /\ EffectHolds(e)
PlansDrain(w) ==
  /\ PlanDrain(w) \/ PlanSomeDrain(w)
  /\ KeepsRest
  /\ w.gen <= generation
  /\ \/ PlanDrain(w) /\ state = "cancelled" /\ w.gen = generation
     \/ PlanDrain(w) /\ state \in {"active", "finalizing"} /\ w.topic = "egress_failed"
     \/ state \in {"finalizing", "ended"}
Applies(e) == (\E kind \in Kinds : Apply(e, kind)) /\ UNCHANGED <<state, generation>>

\* Whatever is left to handle, the epoch was reserved.
LEMMA WorkIsReserved ==
  ASSUME Held
  PROVE  /\ \A w \in outbox : w.topic \in {"provisioning", "cancelled"} \/ generation \in {1, 2}
         /\ \A h \in busy : generation \in {1, 2}
         /\ planned # {} => generation \in {1, 2}
BY DEF Held, Baton, IInv, NothingYet, EpochFits

LEMMA OutboxEffects ==
  ASSUME Held, NEW w \in outbox,
         \/ ReserveWorker(w) \/ PlanEffect(w) \/ PlanComposite(w)
         \/ ReadDispatchMetadata(w) \/ RequirePublishable(w) \/ MarkCaptureReady(w)
         \/ CompleteRoomDrain(w) \/ Cancelled(w) \/ ArchiveFailed(w) \/ Finalize(w)
         \/ ApplyTerminal(w)
  PROVE  KeepsEffects \/ (\E e \in Effects : PlansOne(e)) \/ (\E x \in Works : PlansDrain(x))
<1> USE DEF consultationVars, workVars, effectVars, roomVars, KeepsEffects, KeepsRest
<1>1. w \in Works /\ ItemFits(w) /\ WorkFits(w)
  BY DEF Held, Baton, ItemsFit, IInv, TypeOK, BarrierHolds, WorkFits
<1>2. CASE \/ ReserveWorker(w) \/ ReadDispatchMetadata(w) \/ RequirePublishable(w)
           \/ MarkCaptureReady(w) \/ CompleteRoomDrain(w) \/ ApplyTerminal(w)
  BY <1>2 DEF ReserveWorker, ReadDispatchMetadata, RequirePublishable, MarkCaptureReady,
              CompleteRoomDrain, ApplyTerminal
<1>3. CASE PlanEffect(w)
  <2> DEFINE e == Effect(w.kind, w.subj, w.gen, Stable)
  <2>1. /\ w.kind \in Kinds /\ w.subj \in Subjects /\ w.gen \in Generations
        /\ w.kind \in {"PARTICIPANT_REMOVE", "PARTICIPANT_EGRESS"}
    BY <1>1, <1>3 DEF PlanEffect, Claimable, WorkFits, Works, Kinds
  <2>2. e \in Effects /\ e.kind = w.kind /\ e.gen = w.gen
    BY <2>1, EffectType, StableType
  <2>3. InsertOne(e) /\ KeepsRest
    BY <1>3 DEF PlanEffect
  <2> HIDE DEF e
  <2>4. PlansOne(e)
    BY <1>1, <2>1, <2>2, <2>3 DEF PlansOne, EffectHolds, ItemFits
  <2> QED
    BY <2>2, <2>4
<1>4. CASE PlanComposite(w)
  <2>1. Composite \in Effects /\ Composite.kind = "ROOM_COMPOSITE_EGRESS" /\ Composite.gen = 1
    <3>1. /\ "ROOM_COMPOSITE_EGRESS" \in Kinds /\ "consultation" \in Subjects
          /\ 1 \in Generations
      BY DEF Kinds, Subjects, Generations
    <3> QED
      BY <3>1, EffectType, StableType DEF Composite
  <2>2. 1 <= generation
    BY <1>4, WorkIsReserved DEF PlanComposite, Applied, Claimable
  <2>3. InsertOne(Composite) /\ KeepsRest
    BY <1>4 DEF PlanComposite
  <2>4. PlansOne(Composite)
    BY <2>1, <2>2, <2>3 DEF PlansOne, EffectHolds
  <2> QED
    BY <2>1, <2>4
<1>5. CASE Cancelled(w)
  <2>1. CASE RoomCreate \in done
    <3>1. PlansDrain(w)
      BY <1>1, <1>5, <2>1 DEF Cancelled, PlansDrain, ItemFits
    <3> QED
      BY <1>1, <3>1
  <2>2. CASE RoomCreate \notin done
    BY <1>5, <2>2 DEF Cancelled
  <2> QED
    BY <2>1, <2>2
<1>6. CASE ArchiveFailed(w)
  <2>1. w.gen = 2
    BY <1>1, <1>6, RequestType DEF ArchiveFailed, Claimable, ItemFits, Topics, Generations
  <2>2. state = "finalizing"
    BY <1>6, <2>1 DEF ArchiveFailed, Held, Baton, EpochFits
  <2>3. PlansDrain(w)
    BY <1>1, <1>6, <2>2 DEF ArchiveFailed, PlansDrain, ItemFits
  <2> QED
    BY <1>1, <2>3
<1>7. CASE Finalize(w)
  <2>1. PlansDrain(w)
    BY <1>1, <1>7 DEF Finalize, Claimable, PlansDrain, ItemFits
  <2> QED
    BY <1>1, <2>1
<1> QED
  BY <1>2, <1>3, <1>4, <1>5, <1>6, <1>7

LEMMA HandlerEffects ==
  ASSUME Held, NEW h \in busy,
         \/ PlanRoom(h) \/ SeedReady(h) \/ PlanDispatch(h) \/ PlanGrant(h)
         \/ PlanFailureEffects(h) \/ IgnoreFailure(h) \/ RefuseFailure(h)
         \/ AdmitFinalization(h) \/ Abort(h)
  PROVE  KeepsEffects \/ (\E e \in Effects : PlansOne(e)) \/ (\E x \in Works : PlansDrain(x))
<1> USE DEF consultationVars, workVars, effectVars, roomVars, KeepsEffects, KeepsRest
<1>1. h.work \in Works /\ HandlerHolds(h) /\ 1 <= generation
  BY WorkIsReserved DEF Held, Baton, HandlersHold, IInv, TypeOK, Handlers
<1>2. CASE \/ SeedReady(h) \/ IgnoreFailure(h) \/ RefuseFailure(h) \/ AdmitFinalization(h)
           \/ Abort(h)
  BY <1>2 DEF SeedReady, IgnoreFailure, RefuseFailure, AdmitFinalization, Abort
<1>3. CASE PlanRoom(h)
  <2>1. InsertOne(RoomCreate) /\ KeepsRest
    BY <1>3 DEF PlanRoom
  <2>2. PlansOne(RoomCreate)
    BY <1>1, <2>1, RoomEffects DEF PlansOne, EffectHolds
  <2> QED
    BY <2>2, RoomEffects
<1>4. CASE PlanDispatch(h)
  <2>1. Dispatch \in Effects /\ Dispatch.kind = "WORKER_DISPATCH" /\ Dispatch.gen = 1
    <3>1. "WORKER_DISPATCH" \in Kinds /\ "consultation" \in Subjects /\ 1 \in Generations
      BY DEF Kinds, Subjects, Generations
    <3> QED
      BY <3>1, EffectType, StableType DEF Dispatch
  <2>2. InsertOne(Dispatch) /\ KeepsRest
    BY <1>4 DEF PlanDispatch
  <2>3. PlansOne(Dispatch)
    BY <1>1, <2>1, <2>2 DEF PlansOne, EffectHolds
  <2> QED
    BY <2>1, <2>3
<1>5. CASE PlanGrant(h)
  <2> DEFINE e == Grant(h.work.subj)
  <2>1. e \in Effects /\ e.kind = "PARTICIPANT_GRANT" /\ e.gen = 1
    <3>1. "PARTICIPANT_GRANT" \in Kinds /\ h.work.subj \in Subjects /\ 1 \in Generations
      BY <1>1 DEF Kinds, Generations, Works
    <3> QED
      BY <3>1, EffectType, StableType DEF Grant
  <2>2. InsertOne(e) /\ KeepsRest
    BY <1>5 DEF PlanGrant
  <2> HIDE DEF e
  <2>3. PlansOne(e)
    BY <1>1, <2>1, <2>2 DEF PlansOne, EffectHolds
  <2> QED
    BY <2>1, <2>3
<1>6. CASE PlanFailureEffects(h)
  <2>1. h.work.topic = "egress_failed" /\ h.work.gen <= generation
    BY <1>1, <1>6 DEF PlanFailureEffects, At, HandlerHolds
  <2>2. PlansDrain(h.work)
    BY <1>6, <2>1 DEF PlanFailureEffects, PlansDrain
  <2> QED
    BY <1>1, <2>2
<1> QED
  BY <1>2, <1>3, <1>4, <1>5, <1>6

LEMMA DeadlineEffects ==
  ASSUME Held,
         \/ \E k \in {"ready", "finalize"} : SkipDeadline(k) \/ DrainAtDeadline(k)
         \/ ObserveReady
  PROVE  KeepsEffects \/ (\E x \in Works : PlansDrain(x))
<1> USE DEF consultationVars, workVars, effectVars, roomVars, KeepsEffects, KeepsRest
<1>1. CASE ObserveReady \/ \E k \in {"ready", "finalize"} : SkipDeadline(k)
  BY <1>1 DEF ObserveReady, SkipDeadline
<1>2. ASSUME NEW k \in {"ready", "finalize"}, DrainAtDeadline(k)
      PROVE  \E x \in Works : PlansDrain(x)
  <2>1. Request(k, 1) \in Works /\ Request(k, 1).gen = 1
    BY RequestType DEF Topics, Generations
  <2>2. PlansDrain(Request(k, 1))
    BY <1>2, <2>1 DEF DrainAtDeadline, PlansDrain
  <2> QED
    BY <2>1, <2>2
<1> QED
  BY <1>1, <1>2

\* Effects are planned one by one, by a drain, or take place; or nothing happens
\* to them.
LEMMA HowEffectsChange ==
  ASSUME Held, Next
  PROVE  \/ KeepsEffects
         \/ \E e \in Effects : PlansOne(e)
         \/ \E w \in Works : PlansDrain(w)
         \/ \E e \in planned : Applies(e)
<1> USE DEF consultationVars, workVars, effectVars, roomVars
<1>1. CASE User
  BY <1>1 DEF User, Join, Cancel, End, IssueToken, Enter, Leave, KeepsEffects
<1>2. CASE LiveKit
  BY <1>2 DEF LiveKit, CloseRoom, AcceptJoin, EgressCompletes, EgressFails, KeepsEffects
<1>3. CASE Coordinator \/ \E h \in busy : Abort(h)
  BY <1>3, OutboxEffects, HandlerEffects, DeadlineEffects DEF Coordinator
<1>4. CASE Runner
  <2>1. PICK e \in planned :
          \/ CreateRoom(e) \/ StartEgress(e) \/ DispatchWorker(e) \/ GrantPublication(e)
          \/ StopEgress(e) \/ RemoveParticipant(e) \/ DeleteRoom(e)
    BY <1>4 DEF Runner
  <2>2. \E kind \in Kinds : Apply(e, kind)
    BY <2>1 DEF Kinds, CreateRoom, StartEgress, DispatchWorker, GrantPublication,
                StopEgress, RemoveParticipant, DeleteRoom
  <2>3. UNCHANGED <<state, generation>>
    BY <2>1 DEF CreateRoom, StartEgress, DispatchWorker, GrantPublication, StopEgress,
                RemoveParticipant, DeleteRoom
  <2> QED
    BY <2>2, <2>3 DEF Applies
<1>5. CASE Drainer \/ WorkerStarts \/ WorkerSeals \/ WorkerFails
  BY <1>5 DEF Drainer, CompleteEpoch, AbandonEpoch, WorkerStarts, WorkerSeals, WorkerFails,
              KeepsEffects
<1> QED
  BY <1>1, <1>2, <1>3, <1>4, <1>5 DEF Next

\* What takes place is of the current generation, and only its like with it.
LEMMA ApplyFields ==
  ASSUME TypeOK, NEW e \in planned, Applies(e)
  PROVE  /\ UNCHANGED <<planned, deleteDeps, state, generation>>
         /\ done \subseteq done' /\ e \in done' /\ e.gen = generation
         /\ \A c \in done' \ done : c.kind = e.kind /\ c.subj = e.subj /\ c.gen = e.gen
         /\ outbox \subseteq outbox'
BY DEF Applies, Apply, Same, TypeOK

LEMMA EffectsGrow ==
  ASSUME Held, Next
  PROVE  /\ planned \subseteq planned' /\ done \subseteq done'
         /\ generation \in Generations
         /\ \A g \in Generations : RoomDelete(g) \in planned => deleteDeps'[g] = deleteDeps[g]
<1>1. TypeOK /\ generation \in Generations
  BY DEF Held, IInv, TypeOK
<1>2. CASE KeepsEffects
  BY <1>1, <1>2 DEF KeepsEffects
<1>3. CASE \E e \in Effects : PlansOne(e)
  BY <1>1, <1>3, OneFields DEF PlansOne
<1>4. CASE \E w \in Works : PlansDrain(w)
  BY <1>1, <1>4, DrainFields DEF PlansDrain
<1>5. CASE \E e \in planned : Applies(e)
  BY <1>1, <1>5, ApplyFields
<1> QED
  BY <1>1, <1>2, <1>3, <1>4, <1>5, HowEffectsChange

\* Where the state and the generation go, and what is left to go on from there.
LEMMA HowStateMoves ==
  ASSUME Held, Next
  PROVE  /\ \/ generation' = generation
            \/ generation' = generation + 1 /\ KeepsEffects /\ generation' \in Generations
         /\ state' = "active" => generation' = generation /\ state \in {"ready", "active"}
         /\ state' = "ready" /\ state # "ready" => epoch = "none" /\ KeepsEffects
         /\ state' = "cancelled" => \/ UNCHANGED <<state, generation>>
                                    \/ /\ generation' = generation + 1
                                       /\ Request("cancelled", generation') \in outbox'
         /\ state \in {"finalizing", "ended"} => state' \in {"finalizing", "ended"}
         /\ state' = "finalizing" /\ generation' # generation =>
              generation' = 2 /\ Request("archive_failed", 2) \in outbox'
         /\ state' = "finalizing" /\ state # "finalizing" /\ generation' = generation =>
              /\ state \in {"ready", "active"} /\ generation = 1 /\ KeepsEffects
              /\ UNCHANGED deadlines
              /\ \/ Request("finalization", 1) \in outbox'
                 \/ deadlines["ready"] = "armed" \/ RoomDelete(1) \in planned
<1> USE DEF consultationVars, workVars, effectVars, roomVars, KeepsEffects, Held, Baton, EpochFits
<1>1. /\ generation \in Generations /\ generation' \in Generations
      /\ state' # state => <<state, state'>> \in Documented
      /\ GenerationFits
  BY TypesKept, MovesKept DEF IInv, TypeOK
<1>2. \A h \in busy : HandlerHolds(h)
  BY DEF HandlersHold
<1>3. CASE Join \/ Cancel \/ End
  BY <1>1, <1>3 DEF Join, Cancel, End, GenerationFits
<1>4. CASE CompleteEpoch \/ AbandonEpoch
  BY <1>1, <1>4 DEF CompleteEpoch, AbandonEpoch, FailEpoch, Documented
<1>5. ASSUME NEW x \in Egresses, EgressFails(x)
      PROVE  \/ UNCHANGED <<state, generation>>
             \/ /\ generation = 1 /\ state' = "finalizing" /\ generation' = 2 /\ KeepsEffects
                /\ Request("archive_failed", 2) \in outbox'
  BY <1>5 DEF EgressFails
<1>6. ASSUME NEW w \in outbox,
             ReserveWorker(w) \/ MarkCaptureReady(w) \/ CompleteRoomDrain(w) \/ Cancelled(w)
      PROVE  /\ UNCHANGED generation
             /\ \/ UNCHANGED state
                \/ state' = "active" /\ state \in {"ready", "active"}
                \/ state' = "ended"
  BY <1>6 DEF ReserveWorker, MarkCaptureReady, CompleteRoomDrain, Cancelled, Publishable
<1>7. ASSUME NEW h \in busy, AdmitFinalization(h)
      PROVE  /\ UNCHANGED <<generation, planned, done, deleteDeps>>
             /\ \/ UNCHANGED state
                \/ /\ state' = "finalizing" /\ generation = 1 /\ UNCHANGED deadlines
                   /\ state \in {"ready", "active", "finalizing"}
                   /\ deadlines["ready"] = "armed" \/ RoomDelete(1) \in planned
  BY <1>2, <1>7 DEF AdmitFinalization, At, HandlerHolds
<1>8. CASE UNCHANGED <<state, generation>>
  BY <1>1, <1>8
<1>9. CASE WorkerStarts
  BY <1>8, <1>9 DEF WorkerStarts
<1>10. CASE \E x \in Egresses : EgressFails(x)
  BY <1>1, <1>5, <1>10
<1>11. CASE \E w \in outbox : ReserveWorker(w) \/ MarkCaptureReady(w) \/ CompleteRoomDrain(w)
                                \/ Cancelled(w)
  BY <1>1, <1>6, <1>11 DEF Documented
<1>12. CASE \E h \in busy : AdmitFinalization(h)
  BY <1>1, <1>7, <1>12
<1> QED
  BY <1>3, <1>4, <1>8, <1>9, <1>10, <1>11, <1>12, OthersDoNotMove DEF Moves

\* The worker is started once, by whom the epoch was reserved for.
LEMMA WorkerLeftAlone ==
  ASSUME Next
  PROVE  UNCHANGED worker \/ WorkerStarts \/ WorkerSeals \/ WorkerFails
<1>1. CASE User
  BY <1>1 DEF User, Join, Cancel, End, IssueToken, Enter, Leave
<1>2. CASE LiveKit
  BY <1>2 DEF LiveKit, CloseRoom, AcceptJoin, EgressCompletes, EgressFails
<1>3. ASSUME NEW w \in outbox,
             \/ ReserveWorker(w) \/ PlanEffect(w) \/ PlanComposite(w)
             \/ ReadDispatchMetadata(w) \/ RequirePublishable(w) \/ MarkCaptureReady(w)
             \/ CompleteRoomDrain(w) \/ Cancelled(w) \/ ArchiveFailed(w) \/ Finalize(w)
             \/ ApplyTerminal(w)
      PROVE  UNCHANGED worker
  BY <1>3 DEF ReserveWorker, PlanEffect, PlanComposite, ReadDispatchMetadata,
              RequirePublishable, MarkCaptureReady, CompleteRoomDrain, Cancelled,
              ArchiveFailed, Finalize, ApplyTerminal
<1>4. ASSUME NEW h \in busy,
             \/ PlanRoom(h) \/ SeedReady(h) \/ PlanDispatch(h) \/ PlanGrant(h)
             \/ PlanFailureEffects(h) \/ IgnoreFailure(h) \/ RefuseFailure(h)
             \/ AdmitFinalization(h) \/ Abort(h)
      PROVE  UNCHANGED worker
  BY <1>4 DEF PlanRoom, SeedReady, PlanDispatch, PlanGrant, PlanFailureEffects,
              IgnoreFailure, RefuseFailure, AdmitFinalization, Abort
<1>5. ASSUME NEW k \in {"ready", "finalize"},
             SkipDeadline(k) \/ DrainAtDeadline(k) \/ ObserveReady
      PROVE  UNCHANGED worker
  BY <1>5 DEF SkipDeadline, DrainAtDeadline, ObserveReady
<1>6. CASE Coordinator
  BY <1>3, <1>4, <1>5, <1>6 DEF Coordinator
<1>7. CASE Runner
  BY <1>7 DEF Runner, CreateRoom, StartEgress, DispatchWorker, GrantPublication,
              StopEgress, RemoveParticipant, DeleteRoom
<1>8. CASE Drainer
  BY <1>8 DEF Drainer, CompleteEpoch, AbandonEpoch
<1> QED
  BY <1>1, <1>2, <1>4, <1>6, <1>7, <1>8 DEF Next

LEMMA EpochMoves ==
  ASSUME Held, Next
  PROVE  /\ epoch = "none" /\ epoch' # "none" => state = "ready" /\ generation' = generation
         /\ epoch' = "opened" => epoch = "opened" \/ WorkerStarts
         /\ epoch' = "reserved" => epoch = "reserved" \/ state = "ready"
<1> USE DEF consultationVars, workVars, effectVars, roomVars
<1>1. CASE Join \/ Cancel \/ End
  BY <1>1 DEF Join, Cancel, End
<1>2. CASE CompleteEpoch \/ AbandonEpoch
  BY <1>2 DEF CompleteEpoch, AbandonEpoch
<1>3. CASE \E x \in Egresses : EgressFails(x)
  BY <1>3 DEF EgressFails
<1>4. ASSUME NEW w \in outbox,
             ReserveWorker(w) \/ MarkCaptureReady(w) \/ CompleteRoomDrain(w) \/ Cancelled(w)
      PROVE  \/ UNCHANGED epoch
             \/ epoch = "none" /\ epoch' = "reserved" /\ state = "ready" /\ UNCHANGED generation
             \/ epoch # "none" /\ epoch' = "terminal"
  BY <1>4 DEF ReserveWorker, MarkCaptureReady, CompleteRoomDrain, Cancelled
<1>5. CASE \E h \in busy : AdmitFinalization(h)
  BY <1>5 DEF AdmitFinalization
<1>6. CASE UNCHANGED epoch
  BY <1>6
<1>7. CASE WorkerStarts
  BY <1>7 DEF WorkerStarts
<1>8. CASE \E w \in outbox : ReserveWorker(w) \/ MarkCaptureReady(w) \/ CompleteRoomDrain(w)
                               \/ Cancelled(w)
  BY <1>4, <1>8
<1> QED
  BY <1>1, <1>2, <1>3, <1>5, <1>6, <1>7, <1>8, OthersDoNotMove DEF Moves

LEMMA EpochFitsKept ==
  ASSUME Held, Next
  PROVE  EpochFits'
<1>1. epoch' # "none" => generation' \in {1, 2}
  <2>1. generation \in Generations /\ generation' \in Generations
    BY TypesKept DEF Held, IInv, TypeOK
  <2>2. epoch # "none" => generation \in {1, 2}
    BY DEF Held, Baton, EpochFits
  <2>3. state = "ready" => generation = 1
    BY DEF Held, IInv, GenerationFits
  <2> QED
    BY <2>1, <2>2, <2>3, HowStateMoves, EpochMoves DEF Generations
<1>2. state' = "active" => generation' = 1
  BY HowStateMoves DEF Held, Baton, EpochFits, IInv, GenerationFits
<1>3. epoch' = "opened" => worker' # "none"
  <2>1. epoch = "opened" => worker # "none"
    BY DEF Held, Baton, EpochFits
  <2>2. worker # "none" => worker' # "none"
    BY WorkerLeftAlone DEF WorkerStarts, WorkerSeals, WorkerFails
  <2>3. WorkerStarts => worker' # "none"
    BY DEF WorkerStarts
  <2> QED
    BY <2>1, <2>2, <2>3, EpochMoves
<1> QED
  BY <1>1, <1>2, <1>3 DEF EpochFits

-----------------------------------------------------------------------------
(* Items and handlers *)

\* What a new item is; the ones left fit as they did.
LEMMA NewItems ==
  ASSUME Held, Next
  PROVE  \A w \in outbox' \ outbox : ItemFits(w)'
<1> USE DEF consultationVars, workVars, effectVars, roomVars
<1>1. /\ TypeOK /\ generation \in Generations /\ generation' \in Generations
      /\ \A t \in Topics, g \in Generations :
           Request(t, g).topic = t /\ Request(t, g).gen = g
      /\ \A e \in planned : EffectHolds(e)
      /\ state = "active" => generation = 1
  BY TypesKept, RequestType DEF Held, Baton, EffectsHold, EpochFits, IInv, TypeOK
<1>2. ASSUME NEW t \in {"provisioning", "cancelled"}, NEW g \in Generations, g <= generation',
             outbox' \subseteq outbox \cup {Request(t, g)}
      PROVE  \A w \in outbox' \ outbox : ItemFits(w)'
  BY <1>1, <1>2 DEF ItemFits, Topics
<1>3. CASE User
  <2>1. CASE Join
    BY <1>1, <1>2, <2>1 DEF Join, Generations
  <2>2. CASE Cancel
    BY <1>1, <1>2, <2>2 DEF Cancel, Generations
  <2>3. CASE End
    BY <1>1, <2>3 DEF End, ItemFits, Topics
  <2>4. CASE \E p \in Participants : IssueToken(p) \/ Enter(p) \/ Leave(p)
    BY <2>4 DEF IssueToken, Enter, Leave
  <2> QED
    BY <1>3, <2>1, <2>2, <2>3, <2>4 DEF User
<1>4. ASSUME generation' = 2, NEW w, w = Request("archive_failed", 2)
      PROVE  ItemFits(w)'
  BY <1>1, <1>4 DEF ItemFits, Topics, Generations
<1>5. CASE LiveKit
  <2>1. ASSUME NEW p \in Participants, AcceptJoin(p)
        PROVE  \A w \in outbox' \ outbox : ItemFits(w)'
    <3>1. \A w \in outbox' \ outbox : w.topic = "plan" /\ w.gen = generation'
      BY <2>1 DEF AcceptJoin, Work
    <3> QED
      BY <1>1, <3>1 DEF ItemFits, Generations
  <2>2. ASSUME NEW x \in Egresses, EgressCompletes(x)
        PROVE  \A w \in outbox' \ outbox : ItemFits(w)'
    <3>1. \A w \in outbox' \ outbox : w.topic = "egress_complete" /\ w.gen = 1
      BY <2>2 DEF EgressCompletes, Work
    <3>2. generation' = 1
      BY <2>2 DEF EgressCompletes
    <3> QED
      BY <3>1, <3>2 DEF ItemFits
  <2>3. ASSUME NEW x \in Egresses, EgressFails(x)
        PROVE  \A w \in outbox' \ outbox : ItemFits(w)'
    <3>1. \A w \in outbox' \ outbox :
            \/ w.topic = "egress_failed" /\ w.gen = 1
            \/ w = Request("archive_failed", 2) /\ generation' = 2
      BY <2>3 DEF EgressFails, Work
    <3>2. 1 <= generation'
      BY <2>3 DEF EgressFails
    <3> QED
      BY <1>4, <3>1, <3>2 DEF ItemFits
  <2>4. CASE CloseRoom
    BY <2>4 DEF CloseRoom
  <2> QED
    BY <1>5, <2>1, <2>2, <2>3, <2>4 DEF LiveKit
<1>6. CASE Coordinator \/ \E h \in busy : Abort(h)
  BY <1>6, CoordinatorRoom DEF Held
<1>7. CASE Runner
  <2>1. PICK e \in planned :
          \/ CreateRoom(e) \/ StartEgress(e) \/ DispatchWorker(e) \/ GrantPublication(e)
          \/ StopEgress(e) \/ RemoveParticipant(e) \/ DeleteRoom(e)
    BY <1>7 DEF Runner
  <2>2. PICK kind \in Kinds : Apply(e, kind)
    BY <2>1 DEF Kinds, CreateRoom, StartEgress, DispatchWorker, GrantPublication,
                StopEgress, RemoveParticipant, DeleteRoom
  <2>3. generation' = generation
    BY <2>1 DEF CreateRoom, StartEgress, DispatchWorker, GrantPublication, StopEgress,
                RemoveParticipant, DeleteRoom
  <2>4. /\ e.kind = kind /\ e.gen = generation /\ e \in done'
        /\ \A w \in outbox' \ outbox :
             w = Work("applied", kind, e.subj, e.gen) /\ w.topic = "applied" /\ w.gen = e.gen
                /\ w.kind = kind
    BY <1>1, <2>2, ApplyType DEF Apply
  <2>5. kind = "ROOM_DELETE" => e = RoomDelete(e.gen) /\ e.subj = "consultation"
    BY <1>1, <2>4, RoomEffects DEF EffectHolds
  <2> QED
    BY <1>1, <2>3, <2>4, <2>5 DEF ItemFits, Generations
<1>8. CASE Drainer \/ WorkerStarts \/ WorkerSeals \/ WorkerFails
  <2>1. \A w \in outbox' \ outbox : w = Request("archive_failed", 2) /\ generation' = 2
    BY <1>8 DEF Drainer, CompleteEpoch, AbandonEpoch, FailEpoch, WorkerStarts,
                WorkerSeals, WorkerFails
  <2> QED
    BY <1>4, <2>1
<1> QED
  BY <1>3, <1>5, <1>6, <1>7, <1>8 DEF Next

LEMMA ItemsFitKept ==
  ASSUME Held, Next
  PROVE  ItemsFit'
<1>1. ASSUME NEW w \in outbox
      PROVE  ItemFits(w)'
  <2>1. ItemFits(w) /\ w.gen \in Generations
    BY DEF Held, Baton, ItemsFit, IInv, TypeOK, Works
  <2>2. generation \in Generations /\ (generation' = generation \/ generation' = generation + 1)
    BY HowStateMoves, EffectsGrow
  <2>3. w.gen <= generation'
    BY <2>1, <2>2 DEF ItemFits, Generations
  <2> QED
    BY <2>1, <2>3, HowStateMoves, EffectsGrow DEF ItemFits
<1> QED
  BY <1>1, NewItems DEF ItemsFit

\* An item of a drain goes when the drain is planned or has ended.
LEMMA RemovedItems ==
  ASSUME Held, Next
  PROVE  \A w \in outbox \ outbox' :
           /\ w.topic \in {"finalization", "archive_failed"} => RoomDelete(w.gen) \in planned'
           /\ w.topic = "cancelled" => Cancelled(w)
           /\ w.topic = "applied" /\ w.kind = "ROOM_DELETE" => CompleteRoomDrain(w)
<1> USE DEF consultationVars, workVars, effectVars, roomVars
<1>1. CASE User
  BY <1>1 DEF User, Join, Cancel, End, IssueToken, Enter, Leave
<1>2. CASE LiveKit
  BY <1>2 DEF LiveKit, CloseRoom, AcceptJoin, EgressCompletes, EgressFails
<1>3. ASSUME NEW w \in outbox, PlanDrain(w)
      PROVE  RoomDelete(w.gen) \in planned'
  BY <1>3, DrainFields DEF Held, IInv, TypeOK
<1>4. ASSUME NEW w \in outbox,
             \/ ReserveWorker(w) \/ PlanEffect(w) \/ PlanComposite(w)
             \/ ReadDispatchMetadata(w) \/ RequirePublishable(w) \/ MarkCaptureReady(w)
             \/ ApplyTerminal(w)
      PROVE  /\ outbox \ outbox' \subseteq {w}
             /\ w.topic \notin {"finalization", "archive_failed", "cancelled"}
             /\ w.topic = "applied" => w.kind # "ROOM_DELETE"
  BY <1>4 DEF ReserveWorker, PlanEffect, PlanComposite, ReadDispatchMetadata,
              RequirePublishable, MarkCaptureReady, ApplyTerminal, Complete, Settle,
              Claimable, Applied
<1>5. ASSUME NEW w \in outbox,
             CompleteRoomDrain(w) \/ Cancelled(w) \/ ArchiveFailed(w) \/ Finalize(w)
      PROVE  /\ outbox \ outbox' \subseteq {w}
             /\ \/ w.topic = "applied" /\ CompleteRoomDrain(w)
                \/ w.topic = "cancelled" /\ Cancelled(w)
                \/ /\ w.topic \in {"finalization", "archive_failed"}
                   /\ outbox' = outbox \/ PlanDrain(w)
  BY <1>5 DEF CompleteRoomDrain, Cancelled, ArchiveFailed, Finalize, Complete, Settle,
              Claimable, Applied
<1>6. ASSUME NEW h \in busy,
             \/ PlanRoom(h) \/ SeedReady(h) \/ PlanDispatch(h) \/ PlanGrant(h)
             \/ PlanFailureEffects(h) \/ IgnoreFailure(h) \/ RefuseFailure(h)
             \/ AdmitFinalization(h) \/ Abort(h)
      PROVE  outbox \ outbox' \subseteq {h.work}
  BY <1>6 DEF PlanRoom, SeedReady, PlanDispatch, PlanGrant, PlanFailureEffects,
              IgnoreFailure, RefuseFailure, AdmitFinalization, Abort, Finish, Complete, Settle
<1>7. \A h \in busy : HandlerHolds(h)
  BY DEF Held, Baton, HandlersHold
<1>8. CASE \E w \in outbox :
             \/ ReserveWorker(w) \/ PlanEffect(w) \/ PlanComposite(w)
             \/ ReadDispatchMetadata(w) \/ RequirePublishable(w) \/ MarkCaptureReady(w)
             \/ ApplyTerminal(w)
  BY <1>4, <1>8
<1>9. CASE \E w \in outbox :
             CompleteRoomDrain(w) \/ Cancelled(w) \/ ArchiveFailed(w) \/ Finalize(w)
  BY <1>3, <1>5, <1>9
<1>10. CASE \E h \in busy :
             \/ PlanRoom(h) \/ SeedReady(h) \/ PlanDispatch(h) \/ PlanGrant(h)
             \/ PlanFailureEffects(h) \/ IgnoreFailure(h) \/ RefuseFailure(h)
             \/ AdmitFinalization(h) \/ Abort(h)
  BY <1>6, <1>7, <1>10 DEF HandlerHolds
<1>11. CASE \/ \E k \in {"ready", "finalize"} : SkipDeadline(k) \/ DrainAtDeadline(k)
            \/ ObserveReady
  BY <1>11 DEF SkipDeadline, DrainAtDeadline, ObserveReady
<1>12. CASE Runner
  <2>1. PICK e \in planned :
          \/ CreateRoom(e) \/ StartEgress(e) \/ DispatchWorker(e) \/ GrantPublication(e)
          \/ StopEgress(e) \/ RemoveParticipant(e) \/ DeleteRoom(e)
    BY <1>12 DEF Runner
  <2>2. PICK kind \in Kinds : Apply(e, kind)
    BY <2>1 DEF Kinds, CreateRoom, StartEgress, DispatchWorker, GrantPublication,
                StopEgress, RemoveParticipant, DeleteRoom
  <2> QED
    BY <2>2 DEF Apply
<1>13. CASE Drainer \/ WorkerStarts \/ WorkerSeals \/ WorkerFails
  BY <1>13 DEF Drainer, CompleteEpoch, AbandonEpoch, FailEpoch, WorkerStarts, WorkerSeals,
               WorkerFails
<1> QED
  BY <1>1, <1>2, <1>8, <1>9, <1>10, <1>11, <1>12, <1>13 DEF Next, Coordinator

\* The ready deadline passes with its drain planned, or with nothing to drain.
Dismissed(h) == AdmitFinalization(h) /\ (generation # 1 \/ state \notin {"ready", "active", "finalizing"})

LEMMA DeadlineKept ==
  ASSUME Held, Next, deadlines["ready"] = "armed"
  PROVE  \/ deadlines'["ready"] = "armed" \/ RoomDelete(1) \in planned' \/ generation' = 2
         \/ SkipDeadline("ready") \/ \E h \in busy : Dismissed(h)
<1> USE DEF consultationVars, workVars, effectVars, roomVars
<1>1. /\ TypeOK /\ planned \subseteq planned' /\ epoch # "none"
      /\ state = "cancelled" => generation = 2
  BY EffectsGrow DEF Held, IInv, NothingYet, CancelledMovedOn
<1>2. CASE UNCHANGED deadlines
  BY <1>2
<1>3. ASSUME SeedDeadlines(generation) \/ \E g : SeedDeadlines(g)
      PROVE  deadlines'["ready"] = "armed"
  BY <1>3 DEF SeedDeadlines
<1>4. CASE User
  BY <1>2, <1>4 DEF User, Join, Cancel, End, IssueToken, Enter, Leave
<1>5. CASE LiveKit
  BY <1>2, <1>5 DEF LiveKit, CloseRoom, AcceptJoin, EgressCompletes, EgressFails
<1>6. ASSUME NEW w \in outbox,
             \/ ReserveWorker(w) \/ PlanEffect(w) \/ PlanComposite(w)
             \/ ReadDispatchMetadata(w) \/ RequirePublishable(w) \/ MarkCaptureReady(w)
             \/ ArchiveFailed(w) \/ ApplyTerminal(w)
      PROVE  UNCHANGED deadlines
  BY <1>6 DEF ReserveWorker, PlanEffect, PlanComposite, ReadDispatchMetadata,
              RequirePublishable, MarkCaptureReady, ArchiveFailed, ApplyTerminal
<1>7. ASSUME NEW w \in outbox, CompleteRoomDrain(w)
      PROVE  deadlines'["ready"] = "armed" \/ RoomDelete(1) \in planned'
  <2>1. w.gen = 1 => RoomDelete(1) \in done
    BY <1>7 DEF CompleteRoomDrain, Applied, Claimable, Held, Baton, ItemsFit, ItemFits
  <2> QED
    BY <1>1, <1>7, <2>1 DEF CompleteRoomDrain, TypeOK
<1>8. ASSUME NEW w \in outbox, Cancelled(w)
      PROVE  generation' = 2
  BY <1>1, <1>8 DEF Cancelled
<1>9. ASSUME NEW w \in outbox, Finalize(w)
      PROVE  deadlines'["ready"] = "armed"
  BY <1>3, <1>9 DEF Finalize
<1>10. ASSUME NEW h \in busy,
             \/ PlanRoom(h) \/ PlanDispatch(h) \/ PlanGrant(h) \/ PlanFailureEffects(h)
             \/ IgnoreFailure(h) \/ RefuseFailure(h) \/ Abort(h)
      PROVE  UNCHANGED deadlines
  BY <1>10 DEF PlanRoom, PlanDispatch, PlanGrant, PlanFailureEffects, IgnoreFailure,
               RefuseFailure, Abort
<1>11. ASSUME NEW h \in busy, SeedReady(h)
       PROVE  deadlines'["ready"] = "armed"
  BY <1>3, <1>11 DEF SeedReady
<1>12. ASSUME NEW h \in busy, AdmitFinalization(h)
       PROVE  UNCHANGED deadlines \/ Dismissed(h)
  BY <1>12 DEF AdmitFinalization, Dismissed
<1>13. ASSUME NEW k \in {"ready", "finalize"}, DrainAtDeadline(k)
       PROVE  deadlines'["ready"] = "armed" \/ RoomDelete(1) \in planned'
  <2>1. Request(k, 1) \in Works /\ Request(k, 1).gen = 1
    BY RequestType DEF Topics, Generations
  <2>2. PlanDrain(Request(k, 1)) => RoomDelete(1) \in planned'
    BY <1>1, <2>1, DrainFields
  <2> QED
    BY <1>13, <2>2 DEF DrainAtDeadline
<1>14. ASSUME NEW k \in {"ready", "finalize"}, SkipDeadline(k)
       PROVE  deadlines'["ready"] = "armed" \/ SkipDeadline("ready")
  BY <1>1, <1>14 DEF SkipDeadline, CompleteDeadline, TypeOK
<1>15. CASE ObserveReady
  BY <1>2, <1>15 DEF ObserveReady
<1>16. CASE Coordinator
  BY <1>6, <1>7, <1>8, <1>9, <1>10, <1>11, <1>12, <1>13, <1>14, <1>15, <1>16 DEF Coordinator
<1>17. CASE Runner
  BY <1>17 DEF Runner, CreateRoom, StartEgress, DispatchWorker, GrantPublication,
               StopEgress, RemoveParticipant, DeleteRoom
<1>18. CASE Drainer \/ WorkerStarts \/ WorkerSeals \/ WorkerFails
  BY <1>18 DEF Drainer, CompleteEpoch, AbandonEpoch, WorkerStarts, WorkerSeals, WorkerFails
<1> QED
  BY <1>4, <1>5, <1>10, <1>16, <1>17, <1>18 DEF Next

\* Who begins a handler, and who is still at one.
LEMMA NewHandlers ==
  ASSUME Held, Next
  PROVE  \A h \in busy' \ busy : HandlerHolds(h)'
<1> USE DEF consultationVars, workVars, effectVars, roomVars
<1>1. /\ TypeOK
      /\ \A w \in outbox : w.gen <= generation
      /\ \A h \in busy : HandlerHolds(h)
  BY DEF Held, Baton, IInv, ItemsFit, ItemFits, HandlersHold
<1>2. CASE User
  BY <1>2 DEF User, Join, Cancel, End, IssueToken, Enter, Leave
<1>3. CASE LiveKit
  BY <1>3 DEF LiveKit, CloseRoom, AcceptJoin, EgressCompletes, EgressFails
<1>4. ASSUME NEW w \in outbox,
             \/ ReserveWorker(w) \/ ReadDispatchMetadata(w) \/ RequirePublishable(w)
             \/ ApplyTerminal(w)
      PROVE  /\ generation' = generation
             /\ \A h \in busy' \ busy :
                  /\ h.work = w /\ h.step \in {"create", "dispatch", "grant", "failure"}
                  /\ w.topic \in {"provisioning", "applied", "egress_failed"}
                  /\ w.topic = "applied" => w.kind # "ROOM_DELETE"
                  /\ h.step = "failure" => w.topic = "egress_failed"
  BY <1>4 DEF ReserveWorker, ReadDispatchMetadata, RequirePublishable, ApplyTerminal, Begin,
              Applied, Claimable
<1>5. ASSUME NEW w \in outbox,
             \/ PlanEffect(w) \/ PlanComposite(w) \/ MarkCaptureReady(w)
             \/ CompleteRoomDrain(w) \/ Cancelled(w) \/ ArchiveFailed(w) \/ Finalize(w)
      PROVE  UNCHANGED busy
  BY <1>5 DEF PlanEffect, PlanComposite, MarkCaptureReady, CompleteRoomDrain, Cancelled,
              ArchiveFailed, Finalize
<1>6. ASSUME NEW h \in busy, PlanRoom(h)
      PROVE  /\ generation' = generation
             /\ \A g \in busy' \ busy : g.work = h.work /\ g.step = "seed"
  <2>1. [h EXCEPT !.step = "seed"].step = "seed" /\ [h EXCEPT !.step = "seed"].work = h.work
    BY <1>1 DEF TypeOK, Handlers
  <2> QED
    BY <1>6, <2>1 DEF PlanRoom, Move
<1>7. ASSUME NEW h \in busy,
             \/ SeedReady(h) \/ PlanDispatch(h) \/ PlanGrant(h)
             \/ PlanFailureEffects(h) \/ IgnoreFailure(h) \/ RefuseFailure(h)
             \/ AdmitFinalization(h) \/ Abort(h)
      PROVE  busy' \subseteq busy
  BY <1>7 DEF SeedReady, PlanDispatch, PlanGrant, PlanFailureEffects, IgnoreFailure,
              RefuseFailure, AdmitFinalization, Abort, Finish
<1>8. ASSUME ObserveReady
      PROVE  \A h \in busy' \ busy : HandlerHolds(h)'
  <2>1. /\ \A h \in busy' \ busy : h.work = Request("ready", 1) /\ h.step = "admit"
        /\ generation' = 1 /\ deadlines'["ready"] = "armed"
    BY <1>8 DEF ObserveReady, Begin, Due
  <2>2. Request("ready", 1).topic = "ready" /\ Request("ready", 1).gen = 1
    BY RequestType DEF Topics, Generations
  <2> QED
    BY <2>1, <2>2 DEF HandlerHolds
<1>9. ASSUME NEW k \in {"ready", "finalize"}, SkipDeadline(k) \/ DrainAtDeadline(k)
      PROVE  UNCHANGED busy
  BY <1>9 DEF SkipDeadline, DrainAtDeadline
<1>10. ASSUME NEW w \in outbox,
             \/ ReserveWorker(w) \/ ReadDispatchMetadata(w) \/ RequirePublishable(w)
             \/ ApplyTerminal(w)
      PROVE  \A h \in busy' \ busy : HandlerHolds(h)'
  BY <1>1, <1>4, <1>10 DEF HandlerHolds
<1>11. ASSUME NEW h \in busy, PlanRoom(h)
      PROVE  \A g \in busy' \ busy : HandlerHolds(g)'
  BY <1>1, <1>6, <1>11 DEF HandlerHolds
<1>12. CASE Coordinator
  BY <1>5, <1>7, <1>8, <1>9, <1>10, <1>11, <1>12 DEF Coordinator
<1>13. CASE Runner
  BY <1>13 DEF Runner, CreateRoom, StartEgress, DispatchWorker, GrantPublication,
               StopEgress, RemoveParticipant, DeleteRoom
<1>14. CASE Drainer \/ WorkerStarts \/ WorkerSeals \/ WorkerFails
  BY <1>14 DEF Drainer, CompleteEpoch, AbandonEpoch, WorkerStarts, WorkerSeals, WorkerFails
<1> QED
  BY <1>2, <1>3, <1>7, <1>12, <1>13, <1>14 DEF Next

LEMMA HandlersHoldKept ==
  ASSUME Held, Next
  PROVE  HandlersHold'
<1>1. ASSUME NEW h \in busy, h \in busy'
      PROVE  HandlerHolds(h)'
  <2>1. /\ HandlerHolds(h) /\ h \in Handlers /\ h.work.gen \in Generations
        /\ generation \in Generations /\ generation' \in Generations
    BY TypesKept DEF Held, Baton, HandlersHold, IInv, TypeOK, Handlers, Works
  <2>2. h.work.gen <= generation'
    BY <2>1, HowStateMoves DEF HandlerHolds, Generations
  <2>3. ASSUME h.step = "admit"
        PROVE  deadlines'["ready"] = "armed" \/ RoomDelete(1) \in planned' \/ generation' = 2
    <3>1. /\ h.work = Request("ready", 1) /\ h.work.topic = "ready"
          /\ deadlines["ready"] = "armed" \/ RoomDelete(1) \in planned \/ generation = 2
      BY <2>1, <2>3, RequestType DEF HandlerHolds, Topics, Generations
    <3>2. generation = 2 => generation' = 2
      BY <2>1, HowStateMoves DEF Generations
    <3>3. ~SkipDeadline("ready")
      BY <3>1 DEF SkipDeadline, Due
    <3>4. ASSUME NEW g \in busy
          PROVE  ~Dismissed(g)
      <4>1. SUFFICES ASSUME AdmitFinalization(g) PROVE FALSE
        BY DEF Dismissed
      <4>2. g.step = "admit" /\ busy' = busy \ {g}
        BY <4>1 DEF AdmitFinalization, At
      <4>3. g.work = Request("ready", 1) /\ g \in Handlers
        BY <4>2 DEF Held, Baton, HandlersHold, HandlerHolds, IInv, TypeOK
      <4>4. g = h
        BY <2>1, <2>3, <3>1, <4>2, <4>3 DEF Handlers
      <4> QED
        BY <1>1, <4>2, <4>4
    <3> QED
      BY <3>1, <3>2, <3>3, <3>4, DeadlineKept, EffectsGrow
  <2> QED
    BY <2>1, <2>2, <2>3 DEF HandlerHolds
<1> QED
  BY <1>1, NewHandlers DEF HandlersHold

-----------------------------------------------------------------------------
(* Effects, the room and what was recorded *)

LEMMA DoneByRunner ==
  ASSUME Held, Next, ~Runner
  PROVE  done' = done
<1>1. TypeOK
  BY DEF Held, IInv
<1>2. CASE Coordinator \/ \E h \in busy : Abort(h)
  <2>1. \/ KeepsEffects \/ (\E e \in Effects : PlansOne(e)) \/ (\E w \in Works : PlansDrain(w))
    BY <1>2, OutboxEffects, HandlerEffects, DeadlineEffects DEF Coordinator
  <2> QED
    BY <1>1, <2>1, OneFields, DrainFields DEF KeepsEffects, PlansOne, PlansDrain
<1>3. CASE User
  BY <1>3 DEF User, Join, Cancel, End, IssueToken, Enter, Leave, effectVars
<1>4. CASE LiveKit
  BY <1>4 DEF LiveKit, CloseRoom, AcceptJoin, EgressCompletes, EgressFails, effectVars
<1>5. CASE Drainer \/ WorkerStarts \/ WorkerSeals \/ WorkerFails
  BY <1>5 DEF Drainer, CompleteEpoch, AbandonEpoch, WorkerStarts, WorkerSeals, WorkerFails,
              effectVars
<1> QED
  BY <1>2, <1>3, <1>4, <1>5 DEF Next

\* The room comes with its creation and goes with its deletion, a recording goes
\* with its stop.
LEMMA RoomMoves ==
  ASSUME Held, Next
  PROVE  /\ room = "deleted" => room' = "deleted"
         /\ room' = "live" => room = "live" \/ RoomCreate \in done'
         /\ egress' \subseteq egress \/ (room = "live" /\ generation = 1 /\ planned # {})
         /\ \A c \in done' \ done : /\ c.kind = "ROOM_DELETE" => room' = "deleted"
                                    /\ c.kind = "EGRESS_STOP" => c.subj \notin egress'
<1> USE DEF consultationVars, workVars, effectVars, roomVars
<1>1. CASE User
  <2>1. UNCHANGED <<room, egress, done>>
    BY <1>1 DEF User, Join, Cancel, End, IssueToken, Enter, Leave
  <2> QED
    BY <2>1
<1>2. CASE LiveKit
  <2>1. UNCHANGED <<egress, done>> /\ (UNCHANGED room \/ (room = "live" /\ room' = "closed"))
    BY <1>2 DEF LiveKit, CloseRoom, AcceptJoin, EgressCompletes, EgressFails
  <2> QED
    BY <2>1
<1>3. CASE (Coordinator \/ \E h \in busy : Abort(h)) /\ ~Runner
  <2>1. UNCHANGED room /\ done' = done
    BY <1>3, CoordinatorRoom, DoneByRunner DEF Held
  <2>2. ASSUME NEW w \in outbox,
               \/ ReserveWorker(w) \/ PlanEffect(w) \/ PlanComposite(w)
               \/ ReadDispatchMetadata(w) \/ RequirePublishable(w) \/ MarkCaptureReady(w)
               \/ CompleteRoomDrain(w) \/ Cancelled(w) \/ ArchiveFailed(w) \/ Finalize(w)
               \/ ApplyTerminal(w)
        PROVE  egress' \subseteq egress
    BY <2>2 DEF ReserveWorker, PlanEffect, PlanComposite, ReadDispatchMetadata,
                RequirePublishable, MarkCaptureReady, CompleteRoomDrain, Cancelled,
                ArchiveFailed, Finalize, ApplyTerminal
  <2>3. ASSUME NEW h \in busy,
               \/ PlanRoom(h) \/ SeedReady(h) \/ PlanDispatch(h) \/ PlanGrant(h)
               \/ PlanFailureEffects(h) \/ IgnoreFailure(h) \/ RefuseFailure(h)
               \/ AdmitFinalization(h) \/ Abort(h)
        PROVE  egress' = egress
    BY <2>3 DEF PlanRoom, SeedReady, PlanDispatch, PlanGrant, PlanFailureEffects,
                IgnoreFailure, RefuseFailure, AdmitFinalization, Abort
  <2>4. ASSUME NEW k \in {"ready", "finalize"},
               SkipDeadline(k) \/ DrainAtDeadline(k) \/ ObserveReady
        PROVE  egress' = egress
    BY <2>4 DEF SkipDeadline, DrainAtDeadline, ObserveReady
  <2>5. egress' \subseteq egress
    BY <1>3, <2>2, <2>3, <2>4 DEF Coordinator
  <2> QED
    BY <2>1, <2>5
<1>4. CASE Runner
  <2>1. PICK e \in planned :
          \/ CreateRoom(e) \/ StartEgress(e) \/ DispatchWorker(e) \/ GrantPublication(e)
          \/ StopEgress(e) \/ RemoveParticipant(e) \/ DeleteRoom(e)
    BY <1>4 DEF Runner
  <2>2. PICK kind \in Kinds : Apply(e, kind)
    BY <2>1 DEF Kinds, CreateRoom, StartEgress, DispatchWorker, GrantPublication,
                StopEgress, RemoveParticipant, DeleteRoom
  <2>3. /\ e \in done' /\ e.gen = generation
        /\ \A c \in done' \ done : c.kind = e.kind /\ c.subj = e.subj
    BY <2>2 DEF Apply, Same
  <2>4. EffectHolds(e) /\ EffectFits(e)
    BY DEF Held, Baton, EffectsHold, IInv, BarrierHolds, EffectFits
  <2>5. CASE CreateRoom(e)
    BY <2>3, <2>4, <2>5 DEF CreateRoom, Apply, EffectHolds
  <2>6. CASE StartEgress(e)
    <3>1. ParticipantEgress(e.subj).gen = 1 \/ e.kind # "PARTICIPANT_EGRESS"
      BY DEF ParticipantEgress, Effect
    <3> QED
      BY <2>3, <2>4, <2>6, <3>1 DEF StartEgress, Apply, EffectHolds, EffectFits
  <2>7. CASE DispatchWorker(e) \/ GrantPublication(e) \/ RemoveParticipant(e)
    BY <2>3, <2>7 DEF DispatchWorker, GrantPublication, RemoveParticipant, Apply
  <2>8. CASE StopEgress(e)
    BY <2>3, <2>8 DEF StopEgress, Apply
  <2>9. CASE DeleteRoom(e)
    BY <2>3, <2>9 DEF DeleteRoom, Apply
  <2> QED
    BY <2>1, <2>5, <2>6, <2>7, <2>8, <2>9
<1>5. CASE Drainer \/ WorkerStarts \/ WorkerSeals \/ WorkerFails
  <2>1. UNCHANGED <<room, egress, done>>
    BY <1>5 DEF Drainer, CompleteEpoch, AbandonEpoch, WorkerStarts, WorkerSeals, WorkerFails
  <2> QED
    BY <2>1
<1> QED
  BY <1>1, <1>2, <1>3, <1>4, <1>5 DEF Next

\* A deletion that is planned was planned by a drain.
LEMMA NewDelete ==
  ASSUME Held, Next, NEW g \in Generations, RoomDelete(g) \in planned' \ planned
  PROVE  \E w \in Works : PlansDrain(w) /\ w.gen = g /\ deleteDeps'[g] = Cleanup(w)
<1>1. TypeOK
  BY DEF Held, IInv
<1>2. ~(\E e \in Effects : PlansOne(e))
  BY <1>1, OneFields, RoomEffects DEF PlansOne
<1>3. ~(\E e \in planned : Applies(e))
  BY <1>1, ApplyFields
<1>4. PICK w \in Works : PlansDrain(w)
  BY <1>2, <1>3, HowEffectsChange DEF KeepsEffects
<1>5. g = w.gen /\ deleteDeps'[g] = Cleanup(w)
  BY <1>1, <1>4, DrainFields DEF PlansDrain
<1> QED
  BY <1>4, <1>5

LEMMA EffectsHoldKept ==
  ASSUME Held, Next
  PROVE  EffectsHold'
<1>1. /\ TypeOK /\ generation \in Generations
      /\ generation' = generation \/ generation' = generation + 1
      /\ \A e \in planned : EffectHolds(e) /\ e.gen \in Generations
  BY EffectsGrow, HowStateMoves DEF Held, Baton, EffectsHold, IInv, TypeOK, Effects
<1>2. \A e \in planned' : EffectHolds(e)'
  <2>1. \A e \in planned : EffectHolds(e)'
    BY <1>1 DEF EffectHolds, Generations
  <2>2. CASE planned' = planned
    BY <2>1, <2>2
  <2>3. ASSUME NEW e \in Effects, PlansOne(e)
        PROVE  \A c \in planned' : EffectHolds(c)'
    <3>1. planned' = planned \cup {e} /\ EffectHolds(e)'
      BY <1>1, <2>3, OneFields DEF PlansOne, KeepsRest, EffectHolds
    <3> QED
      BY <2>1, <3>1
  <2>4. ASSUME NEW w \in Works, PlansDrain(w)
        PROVE  \A c \in planned' : EffectHolds(c)'
    <3>1. /\ w.gen <= generation /\ generation' = generation /\ w.gen \in Generations
          /\ \A c \in planned' \ planned :
               c.gen = w.gen /\ (c.kind \in DrainStops \/ c = RoomDelete(w.gen))
      BY <1>1, <2>4, DrainFields DEF PlansDrain, KeepsRest, Works
    <3>2. \A c \in planned' \ planned : EffectHolds(c)'
      BY <3>1, RoomEffects DEF EffectHolds, DrainStops
    <3> QED
      BY <2>1, <3>2
  <2>5. ASSUME NEW e \in planned, Applies(e)
        PROVE  planned' = planned
    BY <1>1, <2>5, ApplyFields
  <2> QED
    BY <2>2, <2>3, <2>4, <2>5, HowEffectsChange DEF KeepsEffects
<1>3. ASSUME NEW g \in Generations, RoomDelete(g) \in planned'
      PROVE  \A e \in deleteDeps'[g] : e.gen = g /\ e.kind \in DrainStops
  <2>1. CASE RoomDelete(g) \in planned
    BY <2>1, EffectsGrow DEF Held, Baton, EffectsHold
  <2>2. CASE RoomDelete(g) \notin planned
    <3>1. PICK w \in Works : w.gen = g /\ deleteDeps'[g] = Cleanup(w)
      BY <1>3, <2>2, NewDelete
    <3> QED
      BY <1>1, <3>1, CleanupFields
  <2> QED
    BY <2>1, <2>2
<1>4. room' = "live" \/ egress' # {} => RoomCreate \in done'
  BY RoomMoves, EffectsGrow DEF Held, Baton, EffectsHold
<1>5. \A g \in Generations : RoomDelete(g) \in done' => room' = "deleted"
  BY RoomMoves, RoomEffects DEF Held, Baton, EffectsHold
<1> QED
  BY <1>2, <1>3, <1>4, <1>5 DEF EffectsHold

\* A deletion that takes place is reported, of the current generation.
LEMMA NewlyDone ==
  ASSUME Held, Next, NEW c \in done' \ done
  PROVE  /\ c.gen = generation /\ UNCHANGED <<planned, deleteDeps, state, generation>>
         /\ c.kind = "ROOM_DELETE" =>
              Work("applied", "ROOM_DELETE", "consultation", generation) \in outbox'
<1>1. TypeOK /\ \A e \in planned : EffectHolds(e)
  BY DEF Held, Baton, EffectsHold, IInv
<1>2. PICK e \in planned : Applies(e)
  BY <1>1, HowEffectsChange, OneFields, DrainFields DEF KeepsEffects, PlansOne, PlansDrain
<1>3. /\ UNCHANGED <<planned, deleteDeps, state, generation>>
      /\ e.gen = generation /\ c.kind = e.kind /\ c.gen = e.gen
  BY <1>1, <1>2, ApplyFields
<1>4. ASSUME c.kind = "ROOM_DELETE"
      PROVE  Work("applied", "ROOM_DELETE", "consultation", generation) \in outbox'
  <2>1. generation \in Generations /\ e = RoomDelete(generation)
    BY <1>1, <1>3, <1>4 DEF EffectHolds, TypeOK
  <2>2. e.subj = "consultation"
    BY <2>1, RoomEffects
  <2> QED
    BY <1>2, <1>3, <1>4, <2>2 DEF Applies, Apply, Reported
<1> QED
  BY <1>3, <1>4

\* What is planned is not of a generation yet to come.
LEMMA PlannedByNow ==
  ASSUME Held
  PROVE  /\ \A e \in planned : e.gen \in Generations /\ e.gen <= generation
         /\ \A e \in planned : e.gen # generation + 1
         /\ RoomDelete(generation + 1) \in planned => generation + 1 \notin Generations
<1>1. /\ generation \in Generations
      /\ \A e \in planned : e.gen \in Generations /\ e.gen <= generation
  BY DEF Held, Baton, EffectsHold, EffectHolds, IInv, TypeOK, Effects
<1>2. \A e \in planned : e.gen # generation + 1
  BY <1>1 DEF Generations
<1> QED
  BY <1>1, <1>2, RoomEffects

-----------------------------------------------------------------------------
(* The drain goes from hand to hand *)

LEMMA FinalizingHeldKept ==
  ASSUME Held, Next
  PROVE  FinalizingHeld'
<1> SUFFICES ASSUME state' = "finalizing", RoomDelete(generation') \notin planned'
             PROVE  \/ generation' = 1 /\ Request("finalization", 1) \in outbox'
                    \/ generation' = 1 /\ deadlines'["ready"] = "armed"
                    \/ generation' = 2 /\ Request("archive_failed", 2) \in outbox'
  BY DEF FinalizingHeld
<1>1. CASE generation' # generation
  BY <1>1, HowStateMoves
<1>2. CASE generation' = generation /\ state # "finalizing"
  BY <1>2, HowStateMoves DEF KeepsEffects
<1>3. CASE generation' = generation /\ state = "finalizing"
  <2>1. /\ RoomDelete(generation) \notin planned
        /\ \/ generation = 1 /\ Request("finalization", 1) \in outbox
           \/ generation = 1 /\ deadlines["ready"] = "armed"
           \/ generation = 2 /\ Request("archive_failed", 2) \in outbox
    BY <1>3, EffectsGrow DEF Held, Baton, FinalizingHeld
  <2>2. /\ Request("finalization", 1).topic = "finalization"
        /\ Request("finalization", 1).gen = 1
        /\ Request("archive_failed", 2).topic = "archive_failed"
        /\ Request("archive_failed", 2).gen = 2
    BY RequestType DEF Topics, Generations
  <2>3. ASSUME generation = 1, deadlines["ready"] = "armed"
        PROVE  deadlines'["ready"] = "armed"
    BY <1>3, <2>3, DeadlineKept DEF SkipDeadline, Dismissed
  <2> QED
    BY <1>3, <2>1, <2>2, <2>3, RemovedItems
<1> QED
  BY <1>1, <1>2, <1>3

LEMMA DeleteReportedKept ==
  ASSUME Held, Next
  PROVE  DeleteReported'
<1>1. /\ TypeOK /\ generation \in Generations /\ done \subseteq planned /\ 1 \in Generations
      /\ generation' \in Generations
  BY TypesKept DEF Held, IInv, TypeOK, Generations
<1>2. \A g \in Generations : RoomDelete(g) \in planned => SpentBy(g)' = SpentBy(g)
  BY EffectsGrow DEF SpentBy
<1>3. ASSUME state' = "finalizing", RoomDelete(generation') \in done'
      PROVE  \/ Work("applied", "ROOM_DELETE", "consultation", generation') \in outbox'
             \/ SpentBy(generation)'
  <2>1. generation' = generation
    <3>1. SUFFICES ASSUME generation' = generation + 1, KeepsEffects PROVE FALSE
      BY HowStateMoves
    <3> QED
      BY <1>1, <1>3, <3>1, PlannedByNow DEF KeepsEffects
  <2>2. CASE RoomDelete(generation) \notin done
    BY <1>1, <1>3, <2>1, <2>2, NewlyDone, RoomEffects
  <2>3. CASE RoomDelete(generation) \in done /\ state = "finalizing"
    <3> DEFINE w == Work("applied", "ROOM_DELETE", "consultation", generation)
    <3>1. w \in outbox \/ SpentBy(generation)
      BY <2>3 DEF Held, Baton, DeleteReported
    <3>2. w.topic = "applied" /\ w.kind = "ROOM_DELETE" /\ w.gen = generation
      BY DEF Work
    <3> HIDE DEF w
    <3>3. w \in outbox => w \in outbox'
      <4>1. SUFFICES ASSUME w \in outbox, CompleteRoomDrain(w) PROVE FALSE
        BY <3>2, RemovedItems
      <4> QED
        BY <1>3, <2>3, <3>2, <4>1 DEF CompleteRoomDrain
    <3> QED
      BY <1>1, <1>2, <2>1, <2>3, <3>1, <3>3 DEF w
  <2>4. CASE RoomDelete(generation) \in done /\ state # "finalizing"
    <3>1. state \in {"ready", "active"} /\ generation = 1
      BY <1>3, <2>1, <2>4, HowStateMoves
    <3> QED
      BY <1>1, <1>2, <2>1, <2>4, <3>1 DEF Held, Baton, DeleteReported
  <2> QED
    BY <2>2, <2>3, <2>4
<1>4. ASSUME state' \in {"ready", "active"}, RoomDelete(1) \in planned'
      PROVE  SpentBy(1)'
  <2>1. state \in {"ready", "active"}
    <3>1. CASE state' = "ready" /\ state # "ready"
      BY <1>4, <3>1, HowStateMoves DEF KeepsEffects, Held, IInv, NothingYet
    <3> QED
      BY <1>4, <3>1, HowStateMoves
  <2>2. CASE RoomDelete(1) \in planned
    BY <1>1, <1>2, <2>1, <2>2 DEF Held, Baton, DeleteReported
  <2>3. CASE RoomDelete(1) \notin planned
    <3>1. PICK w \in Works : PlansDrain(w) /\ deleteDeps'[1] = Cleanup(w)
      BY <1>1, <1>4, <2>3, NewDelete
    <3>2. w.topic = "egress_failed"
      BY <2>1, <3>1 DEF PlansDrain
    <3> QED
      BY <1>1, <3>1, <3>2, CleanupFields DEF SpentBy
  <2> QED
    BY <2>2, <2>3
<1> QED
  BY <1>3, <1>4 DEF DeleteReported

LEMMA CancelledHeldKept ==
  ASSUME Held, Next
  PROVE  CancelledHeld'
<1> SUFFICES ASSUME state' = "cancelled"
             PROVE  /\ RoomDelete(generation') \in planned' =>
                         deleteDeps'[generation'] \subseteq planned'
                    /\ \A e \in done' : e.kind = "EGRESS_STOP" /\ e.gen = generation' =>
                         e.subj \notin egress'
                    /\ Request("cancelled", generation') \notin outbox' =>
                         /\ WorkerTerminal'
                         /\ RoomCreate \in done' =>
                              /\ RoomDelete(generation') \in planned'
                              /\ \A x \in egress' : StopOf(x)' # {}
  BY DEF CancelledHeld
<1>1. /\ TypeOK /\ generation \in Generations /\ done \subseteq planned
      /\ planned \subseteq planned'
  BY EffectsGrow DEF Held, IInv, TypeOK
<1>2. CASE ~UNCHANGED <<state, generation>>
  <2>1. /\ generation' = generation + 1 /\ KeepsEffects /\ generation' \in Generations
        /\ Request("cancelled", generation') \in outbox'
    <3>1. generation' = generation + 1 /\ Request("cancelled", generation') \in outbox'
      BY <1>2, HowStateMoves
    <3> QED
      BY <1>1, <3>1, HowStateMoves DEF Generations
  <2> QED
    BY <1>1, <2>1, PlannedByNow DEF KeepsEffects
<1>3. CASE UNCHANGED <<state, generation>>
  <2>1. CancelledHeld /\ state = "cancelled"
    BY <1>3 DEF Held, Baton
  <2>2. planned = {} \/ generation = 2
    BY <2>1 DEF Held, IInv, NothingYet, CancelledMovedOn
  <2>3. egress' \subseteq egress
    BY <2>2, RoomMoves
  <2>4. ASSUME RoomDelete(generation) \in planned'
        PROVE  deleteDeps'[generation] \subseteq planned'
    <3>1. CASE RoomDelete(generation) \in planned
      BY <1>1, <2>1, <3>1, EffectsGrow DEF CancelledHeld
    <3>2. CASE RoomDelete(generation) \notin planned
      <4>1. PICK w \in Works : PlansDrain(w) /\ deleteDeps'[generation] = Cleanup(w)
        BY <1>1, <2>4, <3>2, NewDelete
      <4>2. PlanDrain(w)
        BY <2>1, <4>1 DEF PlansDrain
      <4> QED
        BY <1>1, <4>1, <4>2, DrainFields
    <3> QED
      BY <3>1, <3>2
  <2>5. \A e \in done' : e.kind = "EGRESS_STOP" /\ e.gen = generation => e.subj \notin egress'
    BY <2>1, <2>3, RoomMoves DEF CancelledHeld
  <2>6. RoomCreate \in done' => RoomCreate \in done
    <3>1. SUFFICES ASSUME RoomCreate \in done' \ done PROVE FALSE
      OBVIOUS
    <3>2. RoomCreate.gen = generation /\ planned' = planned
      BY <3>1, NewlyDone
    <3>3. RoomCreate \in planned'
      BY <3>1, TypesKept DEF Held, TypeOK
    <3> QED
      BY <2>2, <3>2, <3>3, RoomEffects
  <2>7. ASSUME Request("cancelled", generation) \notin outbox,
               Request("cancelled", generation) \notin outbox'
        PROVE  /\ WorkerTerminal'
               /\ RoomCreate \in done' =>
                    RoomDelete(generation) \in planned' /\ \A x \in egress' : StopOf(x)' # {}
    <3>1. /\ WorkerTerminal
          /\ RoomCreate \in done =>
               RoomDelete(generation) \in planned /\ \A x \in egress : StopOf(x) # {}
      BY <2>1, <2>7 DEF CancelledHeld
    <3>2. WorkerTerminal'
      BY <2>1, <3>1, EpochMoves DEF WorkerTerminal, WorkerStarts
    <3>3. RoomCreate \in done' => RoomCreate \in done
      BY <2>6
    <3>4. \A x \in egress : StopOf(x) \subseteq StopOf(x)'
      BY <1>1, <1>3 DEF StopOf
    <3> QED
      BY <1>1, <2>3, <3>1, <3>2, <3>3, <3>4
  <2>8. ASSUME Request("cancelled", generation) \in outbox,
               Request("cancelled", generation) \notin outbox'
        PROVE  /\ WorkerTerminal'
               /\ RoomCreate \in done' =>
                    RoomDelete(generation) \in planned' /\ \A x \in egress' : StopOf(x)' # {}
    <3> DEFINE w == Request("cancelled", generation)
    <3>1. w \in Works /\ w.topic = "cancelled" /\ w.gen = generation
      BY <1>1, RequestType DEF Topics
    <3> HIDE DEF w
    <3>2. Cancelled(w)
      BY <2>8, <3>1, RemovedItems DEF w
    <3>3. WorkerTerminal'
      BY <3>2 DEF Cancelled, WorkerTerminal
    <3>4. ASSUME RoomCreate \in done'
          PROVE  RoomDelete(generation) \in planned' /\ \A x \in egress' : StopOf(x)' # {}
      <4>1. RoomCreate \in done
        BY <2>6, <3>4
      <4>2. PlanDrain(w)
        BY <3>2, <4>1 DEF Cancelled
      <4>3. Cleanup(w) \subseteq planned' /\ RoomDelete(generation) \in planned'
        BY <1>1, <3>1, <4>2, DrainFields
      <4>4. ASSUME NEW x \in egress'
            PROVE  StopOf(x)' # {}
        <5>1. PICK e \in Cleanup(w) : e.kind = "EGRESS_STOP" /\ e.subj = x
          BY <1>1, <2>3, <3>1, <4>4, CleanupFields
        <5>2. e.gen = generation
          BY <1>1, <3>1, <5>1, CleanupFields
        <5> QED
          BY <1>3, <4>3, <5>1, <5>2 DEF StopOf
      <4> QED
        BY <4>3, <4>4
    <3> QED
      BY <3>3, <3>4
  <2> QED
    BY <1>3, <2>4, <2>5, <2>7, <2>8
<1> QED
  BY <1>2, <1>3

-----------------------------------------------------------------------------
(* Nobody is stuck *)

LEMMA InitHeld == Init => Held
<1> SUFFICES ASSUME Init PROVE Held
  OBVIOUS
<1>1. IInv
  BY InitHolds
<1>2. EpochFits /\ ItemsFit /\ HandlersHold
  BY DEF Init, EpochFits, ItemsFit, HandlersHold
<1>3. EffectsHold /\ FinalizingHeld /\ DeleteReported /\ CancelledHeld
  BY DEF Init, EffectsHold, FinalizingHeld, DeleteReported, CancelledHeld
<1> QED
  BY <1>1, <1>2, <1>3 DEF Held, Baton

LEMMA HeldKept == Held /\ [Next]_vars => Held'
<1> SUFFICES ASSUME Held, [Next]_vars PROVE Held'
  OBVIOUS
<1>1. IInv'
  BY StepKeeps DEF Held
<1>2. CASE Next
  BY <1>1, <1>2, EpochFitsKept, ItemsFitKept, HandlersHoldKept, EffectsHoldKept,
     FinalizingHeldKept, DeleteReportedKept, CancelledHeldKept DEF Held, Baton
<1>3. CASE UNCHANGED vars
  <2>1. /\ UNCHANGED <<state, generation, epoch, egress, deadlines, outbox, planned, done,
                       deleteDeps, busy, room, worker>>
    BY <1>3 DEF vars, consultationVars, workVars, effectVars, roomVars
  <2>2. (EpochFits /\ ItemsFit /\ HandlersHold)'
    BY <2>1 DEF Held, Baton, EpochFits, ItemsFit, ItemFits, HandlersHold, HandlerHolds
  <2>3. (EffectsHold /\ FinalizingHeld)'
    BY <2>1 DEF Held, Baton, EffectsHold, EffectHolds, FinalizingHeld
  <2>4. (DeleteReported /\ CancelledHeld)'
    BY <2>1 DEF Held, Baton, DeleteReported, SpentBy, CancelledHeld, StopOf, WorkerTerminal
  <2> QED
    BY <1>1, <2>2, <2>3, <2>4 DEF Held, Baton
<1> QED
  BY <1>2, <1>3

\* A deletion whose epoch is over is the next effect, or one it waits for is.
LEMMA DeletionGoesOn ==
  ASSUME Held, WorkerTerminal, RoomDelete(generation) \in planned \ done,
         deleteDeps[generation] \subseteq planned
  PROVE  \E e \in planned \ done : DrainEffect(e)
<1>1. generation \in Generations
  BY DEF Held, IInv, TypeOK
<1>2. \A e \in deleteDeps[generation] : e.gen = generation /\ e.kind \in DrainStops
  BY <1>1 DEF Held, Baton, EffectsHold
<1>3. CASE deleteDeps[generation] \subseteq done
  BY <1>1, <1>3, RoomEffects DEF DrainEffect
<1>4. CASE ~(deleteDeps[generation] \subseteq done)
  BY <1>2, <1>4 DEF DrainEffect, DrainStops
<1> QED
  BY <1>3, <1>4

LEMMA FinalizingGoesOn ==
  ASSUME Held, state = "finalizing", ~Stranded
  PROVE  DrainGoesOn
<1>1. /\ TypeOK /\ generation \in {1, 2} /\ generation \in Generations
      /\ epoch \in {"opened", "terminal"}
  BY DEF Held, Baton, EpochFits, IInv, NothingYet, TypeOK, Stranded, EpochStranded
<1>2. CASE epoch = "opened"
  <2>1. generation = 1 /\ worker \in {"running", "clean", "failed", "lost"}
    BY <1>1, <1>2 DEF Held, Baton, EpochFits, TypeOK, Stranded, EpochStranded
  <2> QED
    BY <1>2, <2>1 DEF DrainGoesOn, EpochSettles, Publishable
<1>3. CASE epoch = "terminal" /\ RoomDelete(generation) \notin planned
  <2>1. \/ generation = 1 /\ Request("finalization", 1) \in outbox
        \/ generation = 1 /\ deadlines["ready"] = "armed"
        \/ generation = 2 /\ Request("archive_failed", 2) \in outbox
    BY <1>3 DEF Held, Baton, FinalizingHeld
  <2>2. /\ Request("finalization", 1).topic = "finalization"
        /\ Request("archive_failed", 2).topic = "archive_failed"
        /\ Request("archive_failed", 2).gen = 2
    BY RequestType DEF Topics, Generations
  <2> QED
    BY <2>1, <2>2 DEF DrainGoesOn, DrainItem
<1>4. CASE epoch = "terminal" /\ RoomDelete(generation) \in planned \ done
  <2>1. deleteDeps[generation] \subseteq planned /\ WorkerTerminal
    BY <1>4 DEF Stranded, DeleteOrphaned, WorkerTerminal
  <2> QED
    BY <1>4, <2>1, DeletionGoesOn DEF DrainGoesOn
<1>5. CASE RoomDelete(generation) \in done
  <2> DEFINE w == Work("applied", "ROOM_DELETE", "consultation", generation)
  <2>1. w \in outbox
    BY <1>5 DEF Held, Baton, DeleteReported, SpentBy, Stranded, DeleteSpent
  <2>2. w.topic = "applied" /\ w.kind = "ROOM_DELETE"
    BY DEF Work
  <2> HIDE DEF w
  <2> QED
    BY <2>1, <2>2 DEF DrainGoesOn, DrainItem
<1> QED
  BY <1>1, <1>2, <1>3, <1>4, <1>5

LEMMA CancelledGoesOn ==
  ASSUME Held, state = "cancelled", ~(room # "live" /\ WorkerTerminal /\ egress = {})
  PROVE  DrainGoesOn
<1>1. generation \in Generations /\ CancelledHeld /\ EffectsHold /\ done \subseteq planned
  BY DEF Held, Baton, IInv, TypeOK
<1>2. CASE Request("cancelled", generation) \in outbox
  <2>1. /\ Request("cancelled", generation).topic = "cancelled"
        /\ Request("cancelled", generation).gen = generation
    BY <1>1, RequestType DEF Topics
  <2> QED
    BY <1>2, <2>1 DEF DrainGoesOn, DrainItem
<1>3. CASE Request("cancelled", generation) \notin outbox
  <2>1. WorkerTerminal /\ (room = "live" \/ egress # {})
    BY <1>1, <1>3 DEF CancelledHeld
  <2>2. /\ RoomDelete(generation) \in planned /\ deleteDeps[generation] \subseteq planned
        /\ \A x \in egress : StopOf(x) # {}
    BY <1>1, <1>3, <2>1 DEF CancelledHeld, EffectsHold
  <2>3. CASE room = "live"
    <3>1. RoomDelete(generation) \notin done
      BY <1>1, <2>3 DEF EffectsHold
    <3> QED
      BY <2>1, <2>2, <3>1, DeletionGoesOn DEF DrainGoesOn
  <2>4. CASE egress # {}
    <3> PICK x \in egress : TRUE
      BY <2>4
    <3>1. PICK e \in planned : e \in StopOf(x)
      BY <2>2 DEF StopOf
    <3>2. e \in planned \ done /\ DrainEffect(e)
      BY <1>1, <3>1 DEF StopOf, CancelledHeld, DrainEffect
    <3> QED
      BY <3>2 DEF DrainGoesOn
  <2> QED
    BY <2>1, <2>3, <2>4
<1> QED
  BY <1>2, <1>3

\* The drain of a consultation is never dropped: whatever failed, and however
\* handlers, runner and drainer interleave, one of them has a step of it to take
\* until it ended or is stranded in one of three ways, or nothing is left of it.
THEOREM NobodyIsStuck == Spec => []QuietIsFinished
<1>1. Held => QuietIsFinished
  BY FinalizingGoesOn, CancelledGoesOn DEF QuietIsFinished
<1> QED
  BY <1>1, InitHeld, HeldKept, PTL DEF Spec
=============================================================================
