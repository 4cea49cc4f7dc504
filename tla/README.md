# Verification of transhooter

transhooter runs interpreted video consultations: two people meet in a LiveKit room, a worker translates
between them, and everything said, heard and exchanged with a provider is archived. This directory holds a
TLA+ model of the parts that coordinate this, the TLC runs that check it, and proofs checked by TLAPS. Paths
below are relative to the repository; `control-worker` stands for `apps/control-worker/src`, `server-core` for
`packages/server-core/src`, `_store.py` for `packages/spool-store/src/transhooter_spool/_store.py`, and
`delivery.py`, `runtime.py` for the files of `services/spool-drainer/src/transhooter_spool_drainer`, `session.py`
for `services/translation-worker/src/transhooter_worker/application/session.py`.

## 1. Inventory

| Component | State | Operations |
| --- | --- | --- |
| Consultation service (`server-core/consultations`) | `consultations`, participants, consents | create, preferences, consent, join, issueLiveKitToken, end, cancel |
| Room service (`server-core/rooms`) | webhook ids, presence, egress bindings | acceptWebhook and what it enqueues |
| Worker epoch endpoints (`server-core/application-operations-workers.ts`) | `worker_job_epochs`, `worker_reservations`, `worker_checkpoints` | heartbeat, checkpoint, completeWorkerEpoch, abandonWorkerEpoch |
| Archive service (`server-core/archives`) | archives, objects, expectations, holds | record, reconcile, finalize, hold, delete |
| Coordinator (`control-worker/orchestration/coordinator.ts`) | outbox, `orchestration_deadlines` | one handler per topic and per deadline; plans external effects |
| Effect runner (`control-worker/orchestration/effect-runner.ts`) | `external_effects` with leases | claim, call, adopt, apply, compensate, fail |
| Worker job (`services/translation-worker/.../runtime/job.py`) | checkpoint chains, running sessions | start, heartbeat, append, checkpoint, seal |
| Direction session (`session.py`) | recent audio, committed watermark, the provider's current session, the future of a replacement | send_audio, boundary, replace a failed session, finish |
| Spool store (`packages/spool-store`) | files, SQLite journal, handoffs, seals | append, checkpoint, settle, seal, relinquish, compact, recover |
| Spool drainer (`services/spool-drainer`) | position in its cycle | deliver records, checkpoints, completions; recover expired tuples |
| Capacity and quotas | Redis sets with expiry | reserve, renew, release |
| LiveKit (external) | rooms, participants, egresses | answers calls, sends webhooks |

**How they interact.** A command of a user or a webhook is one transaction on the consultation that may insert
an outbox item. The coordinator leases items and deadlines and plans effects; the effect runner leases effects
and calls LiveKit; an applied effect inserts another outbox item. The worker, dispatched by one of the effects,
writes to a spool on its host; the drainer moves the spool's content to the archive and to the control plane
and ends the worker's epoch, which is what the deletion of the room waits for. A *generation* number fences
everything: what was planned in an older generation must not take place any more.

**Hard behaviours.** Several control workers take over each other's leases; a remote create may land without
an answer; handlers are several transactions long and are repeated from the start; webhooks, applied effects
and user commands arrive in any order; processes stop between the rename of a file and the row that indexes
it; answers of the control plane get lost; an epoch is ended by its worker and by a supervisor at the same
time; an inventory that can be written only once is put outside the transaction that records it; a hold is one S3 call per
version under a lease another request may take over; a provider's session fails while audio is on its way, and
again while its replacement is opened. PROJECT.json lists the single hazards, each at its line.

**What makes each component correct.** Effect runner: at most one remote resource per effect, none left behind
by a fence, every effect settles. Spool: nothing accepted is lost, the seal covers the evidence. Drainer and
epoch endpoints: the spool never runs ahead of the control plane, chains do not fork, an epoch ends once and
does end. Consultation, room service, coordinator: states move as documented, nobody publishes unrecorded, the
room outlives the worker, a consultation being finalized ends and a cancelled one leaves nothing behind.
Archive: the final inventory says what is there and it alone decides whether the archive is complete; a hold that is
active protects, and a hold and a deletion exclude each other. Direction session: a replacement takes over without a gap
or a repetition, a finish that returns leaves no session of a provider open, and every finish returns or raises.
Capacity: no more consultations than the pool, none reserved for ever.

## 2. Modules and how they correspond to the code

| Module | Models |
| --- | --- |
| `EffectRunner` | `EffectRunner.run` await by await over the statements of `postgres-store/effects.ts` |
| `EffectContract` | what the runner promises of an effect; abstract, implemented by `EffectRunner` |
| `SpoolStore` | the spool of one worker tuple: files, journal, authority, chains, seal |
| `SpoolDelivery` | the drainer's cycle and the control plane's side of the epoch; composes with `SpoolStore` (EXTENDS) and implements its specification |
| `Consultation` | one consultation across users, webhooks, coordinator, effects, worker and drainer |
| `ArchiveInventory` | the reconciliation of one archive: snapshot, listing, verification, the create-once objects, completion |
| `ArchiveRetention` | what follows the inventory: legal holds, deletion, their leases and scans |
| `DirectionSession` | one direction's speech recognition: audio, failing sessions, replay, end |
| `*Proofs` | theorems about the module of the same name |
| `MC*` | values for structured constants |

**EffectRunner.** `row[e]` is a row of `external_effects`, `task[r][e]` the activation of `run` for it in
control worker `r`; `pc` names the next await, and every database statement and remote call is a step of its
own. `resource` counts what the remote system holds. `Claim` is `tick` with its batch; `Land` and `Answer`
split a call into what it does and what it returns; `LeaseLost`, `CallFails` and `Crash` are the faults.
`CallsFitLease` assumes that a call ends before the lease of its runner does (60 s, renewed every 20 s):
between `adopt` and `execute` the code checks no ownership, so without it two resources are possible. The run
`EffectLeases` sets it to FALSE and shows what the rows keep even then.
Only effects that create one resource are modelled here; `ARCHIVE_RECONCILE` and `ARCHIVE_DELETE`, which create none, are
modelled with the archive.

**SpoolStore and SpoolDelivery.** One tuple (consultation, generation, worker, epoch) and one drainer process.
An operation of the store is one step, since it runs under the store's lock, but where the process can stop
inside it: after the rename and before the commit (`AppendInterrupted`, `CheckpointInterrupted`,
`SealInterrupted`; `Orphans` and `ImportOrphans` are what the next authority finds). A drainer's call is one step, the mark
in the spool the next; an answer is accepted, retryable (the call may have landed) or permanent. Registration of a
checkpoint's object and its acceptance are one step of the control plane. Damage of a file is found when it is delivered.
The reason given for a relinquishment is reduced to whether it is the drainer's. PCM frames, encryption and
pressure limits are left out.

**Consultation.** `state`, `generation` and `granted` are the consultation's row; `outbox`, `deadlines`,
`planned`, `done`, `egress` and `epoch` the tables the control worker reads; `room`, `seat`, `publish`, `over`
LiveKit's side; `busy` the handlers that have made a first step and not their last. Each action of the
coordinator is one transaction of the handler `map` names, an exception is an action that is not enabled (the item
stays), `Abort` and the second half of `Settle` are failures between transactions. Abstractions:

- effects of the same kind, subject and generation apply together, in one step, and one of an older generation
  never does (how an effect is fenced and compensated is `EffectRunner`'s subject, how an epoch is settled `SpoolDelivery`'s);
- a drain's rows are read and its effects inserted in one step, since no row read here can change in between
  without changing as well after the insertion; a partly failed drain (`Promise.all`) loses one insertion;
- capacity is always granted; each participant enters once;
- an item or a deadline has one handler at a time, its lease outlasts the attempt;
- LiveKit closes a live room in which nobody is (`CloseRoom`; `empty_timeout` and `departure_timeout` of
  `deploy/compose/livekit.yaml`, `auto_create: false`) only while the consultation is publishable. Afterwards a drain deletes
  the room anyway; this bound keeps the state space small, and leaves out a room that closes between two effects of
  the drain of a finalizing consultation;
- left out: the `STATUS_PACKET` that a drain sends first (it is sent, or skipped when the room is gone,
  `livekit-effects.ts:79-89`, so it only delays the effects behind it), `DISPATCH_DELETE`, the archive's effects (see below), presence and
  absence, topics without a producer, and `EGRESS_ACTIVE` webhooks (they plan what effect.applied plans).

**ArchiveInventory.** `task[r]` is one activation of `EffectRunner.run` with the `ARCHIVE_RECONCILE` effect in control worker
`r`. Its awaits are its steps, a failed one and the `markFailed` after it one step; `effect` is the row with its lease. `final` and
`vtt` are the two objects in the bucket that can be created only once, `inventory` the row the last transaction writes. An
object is registered, stored, both or neither, and `Missing` is `missingInventoryEntries` over these facts. The epoch is over,
so the control plane registers nothing more (`Init` chooses what is registered and what of it is there); recordings and
refused uploads of a drainer still arrive. Hashes, sizes, the text of the captions and the manifest's layout are left out:
two contents are the same exactly if they list the same.

**ArchiveRetention.** `hold`, `saved` and `op` are the holds' rows and the operation on the archive's row with its lease;
`task[r]` an administrator's request, `held` what S3 says. One call on a version and the renewal of the lease after it
are one step; a death, a takeover or a stall between two steps is a step of its own. `effect[e]` is the `ARCHIVE_DELETE` row of write epoch
`e`, of which there is one ever, `scan` the `drainDeletion` it waits for and one it gave up on. `slipped` is a history
variable: versions that a call left without a hold while the operation on the row does not know of it. There are three ways: a release that
threw, or whose request died, and landed all the same; a release of a request that stalled while its operation was taken over, answered before
the request found out; a hold that was refused. Holds are over
versions of one prefix; the listing of a release is one step. Retention periods and the audit rows are left out.

**DirectionSession.** Four asyncio tasks, each with a program counter (`sender`, `consumer`, `opening`, `closing`), and the lifecycle lock,
held over awaits as in the code. Audio is counted in frames of 250 ms; a boundary commits whole frames, so the clipping of a
frame at the watermark is left out. A provider's session is the frames it took and a boundary not handled yet. Whatever it
recognises, and the stages behind it (translation, synthesis, publication), only fail or do not. `cut` is a history variable: frames whose sender was cancelled
before it had an answer. Every await of `finish` before `TERMINAL` may raise: the cancellation of the candidate, the session's own `finish`,
the reports and the synthesis after the gather (`FinishRaises`, `closing = "raised"`); so may the cancellation of a replacement that was not
installed (`Drop`). `_drain_runtime` runs once (`drain_runtime_once` in `job.py`), so nobody calls `finish` again.

## 3. Runs

Sizes are distinct states; with two TLC workers every run ends within five minutes.

| Run | What it shows | Bounds and size |
| --- | --- | --- |
| `EffectTakeover` | the runner implements the contract | two runners, one effect, 3 generations, 5 faults; 124,551 |
| `EffectLeases` | dependencies, settled rows, ownership, and that every effect settles, with leases that may end in a call | two runners, a dependent pair, one of them colliding, 2 generations, 2 faults; 533,097 |
| `SpoolDelivery` | seven invariants of spool, archive and control plane | two records, one replayable, one interim checkpoint per direction, 1 fault, 1 refusal; 5.5 million |
| `SpoolEnds` | every opened tuple ends | one record, 2 faults, 1 refusal; 1.65 million |
| `SpoolBlockedSeal` | **violation**: blocked evidence after a first terminal is never abandoned | one record, 1 fault, 1 refusal |
| `ConsultationSafety` | five invariants and the documented moves | one participant, one failure of five kinds (an aborted handler is left to `ConsultationEnds` and to the proofs); 1,264,607 |
| `ConsultationEnds` | finalizing consultations end, cancelled ones leave nothing | one participant, one failure of four kinds; 403,533 |
| `ConsultationStuck` | **violation**: an ended consultation stays finalizing for ever | one participant, no failure |
| `ArchiveInventory` | the recorded inventory is the stored one and covers the rows, complete is proof, incomplete names a gap, reconciliation ends | two reconcilers, one recording, one caption, one required object, 2 faults; 1,067,461 |
| `ArchiveStuck` | **violation**: a reconciling archive never becomes complete or incomplete | one reconciler, 1 fault |
| `ArchiveRetention` | active holds protect all but what slipped, and one fault bares one version at most; operations and holds match, holds and deletion exclude each other, objects go only while a deletion is admitted, and it ends | 3 versions (one unregistered), 2 holds, 2 requests, 2 deletions, 2 faults; 878,027 |
| `DirectionSession` | no gap and no repetition, no session left open by a finish that returns, finish returns or raises, and senders are answered | 3 attempts, 3 frames, window of 2, 3 faults; 1,024,638 |

**Why the bounds are enough.** Two runners are the takeover; a third can only repeat it. Three generations
let an effect be planned, fenced and fenced again. Five faults cover a takeover on every path of `run`. One
interim checkpoint per direction gives a chain with a middle, and two records one on each side of the seal's
boundary. In `Consultation` no third generation is reachable (proved by `ConsultationTypes`); participants meet only in
`granted`, in the composite egress and in the drain, so one participant shows what a second repeats, and the
proofs hold for any number. Two reconcilers, and two requests with two holds, are a takeover and somebody who
comes back from a stall; the second deletion is the one that meets what the first left behind, and one given-up
`drainDeletion` per write epoch is enough to meet the awaited one. Three attempts are those of the code
(`FrozenRetryPolicy(3, 100, 2000)`): a replacement and the replacement of that one. A window of two frames among three is the
smallest that loses one. A consultation's run has one failure, of any kind and at any
point; with two the state space is too large for a run of minutes. The parameters that bound something are `MaxGeneration`, `MaxBatch`,
`MaxFaults`, `MaxInterim`, `MaxRejects`, `MaxEpoch`, `MaxFrames` and, standing for the 2 s of recent audio, `Window`; symmetry is used for the
runners of `EffectTakeover` only. Deadlock is not checked: a finished effect, epoch, consultation, archive or direction really stops.

**What the violations say.** Each one quotes its sentence in PROJECT.json.
`SpoolBlockedSeal`: the supervisor writes a
terminal for both directions and meets the unique index on the one the worker already wrote.
`ConsultationStuck`: the worker's dispatch is refused once the
consultation is finalizing, and then nobody ends the epoch that was reserved for it. `ArchiveStuck`: `final.json` is put before
the transaction that records it; if that one fails and anything arrives meanwhile, every later attempt has another content and
collides with the object, which can never be replaced.

**Met while modelling and not a run.**

- Effect runner: `markFailed` sets `calling` whatever the row's state was, so an applied row goes back to it when `markDone` fails
  after its commit (`effect-runner.ts:302-324`, against README.md:810 and 965-968). README.md:825-826 says a stale planned
  effect is not moved to `compensating`, `effect-runner.ts:96-117` does.
- Spool: the drainer decides on the handoff it read before it had the authority, so a tuple sealed meanwhile is
  relinquished (`runtime.py:159`); records are listed before, checkpoints after, a seal, so terminals
  may overtake evidence (`delivery.py:273`, against README.md:943-945).
- Consultation: README.md:93-98 describes publication after the worker is ready, and the grant asks only for a publishable state.
- Archive: two faults may leave an active hold without its S3 hold. A release stalls with a call in flight, its successor compensates
  and makes the hold active again, and then the call lands (`service.ts:1071`; `renewHoldLease` is asked after the call). The same with a release that
  threw and landed. A version that was refused its hold stays without one when the failed hold becomes `active` because its release was
  refused too. `HoldProtects` names these three, and `OneBarePerFault` bounds them. After a deletion that failed half way the versions
  are gone and their `archive_objects` rows remain, so that a later hold can neither be released nor make way for a deletion. Only the
  next administrator's request recovers a stale operation. The effect of an earlier write epoch is retried every second for ever, which
  changes nothing. `addSupplement` cannot record anything after the inventory (README.md:213-215).
- Direction session: audio that the window dropped while a replacement was opened is not replayed; a track published again after a
  frame was claimed and not accepted makes the direction fail (`cursor = sent + 1` can never hold again); a sender cancelled at its await leaves a gap (`cut`).
  A `finish` that raises (`session.py:256-304`; `tests/test_session_shutdown.py:40-58` has a provider whose shutdown does) leaves the direction
  `OPEN` or `DRAINING`, its event task not awaited and perhaps a provider's session open; the memoized drain never comes back to it, and only the end of the process does.

**Named exceptions of the liveness properties.** `EpochEnds` excepts `HalfDelivered` (the situation of `SpoolBlockedSeal`) and
`CheckpointRefused`. `EndsUnlessStranded` and `QuietIsFinished` except three: `EpochStranded`, an epoch that
was reserved and never opened, or whose consultation moved on without it; `DeleteOrphaned`, a `ROOM_DELETE`
that waits for effects the failed first attempt would have planned; `DeleteSpent`, a drain for a failed egress
that was planned while the consultation stayed active and used up the `ROOM_DELETE`. `EndsUnlessStuck` excepts `CaptionUnreadable` (a registered caption whose object is gone or differs: rendering throws at every
attempt), `VttCollides` and `FinalCollides` (a create-once object put by an attempt that saw less). `DeletionSettles` excepts a version whose
S3 hold no row accounts for, `SenderIsAnswered` a session that refused one frame and goes on working. Each is a way the code
gets stuck, so the properties say that there is no other.

## 4. Fairness

- `EffectLeases`: weak fairness of each runner's `Claim` and of each task's `Run` (the loop polls, every await
  returns or throws), of `LeaseExpires` and `GateOpens` (matters of time). Not of faults, fences or planning.
- `SpoolEnds`: weak fairness of the drainer's loop, of `BeginSettlement`, `SealCommits` and `Close` (a job comes to
  its end, `seal_once` retries and closes in `finally`) and of `LeaseExpires`. Not of appends, checkpoints, heartbeats or crashes.
- `ConsultationEnds`: weak fairness of `System`, the union of coordinator, runner, drainer and a worker's
  reaction to a refused heartbeat. One condition suffices because every behaviour makes finitely many of these
  steps: it says that they go on as long as there is one to take. Users, LiveKit, failures and the start
  of a worker are not obliged. `ConsultationStuck` obliges the start as well, so that its
  counterexample is not a worker that never came.
- `ArchiveInventory`: weak fairness of `Deadline` (time passes), of claiming the due row and of each reconciler's next
  await. Not of LiveKit's uploads and ends, a drainer's late objects, or the room's deletion.
- `ArchiveRetention`: weak fairness of planning, starting, draining, notifying and scanning a deletion (effects are claimed again until
  they end; a scan that runs returns). Not of any administrator's request: a hold operation may stay where it is.
- `DirectionSession`: weak fairness of the sender, the boundary under the lock, the event task, the opening and the closing
  (every call of the provider's client returns or throws; `finish` may end by one that throws), and of `Finish` once a failure is
  known (the job drains its sessions). Not of the track's next frame, the provider's boundaries, or a cancellation.

## 5. Proofs

Everything below holds for every value of the constants that satisfies the assumptions named in the modules.

- **`EffectRunnerProofs`**: type correctness; `SafetyInv` adds that rows are planned in generations that exist
  (`RowsWellFormed`) and that a task past the last comparison of generations was claimed with its dependencies
  done (`CallersEligible`), since `claimEffects` skips dependencies of stale rows. From it `RequestRespectsDeps`, `SettledIsFinal`,
  `OnlyOwnerWrites`, without any assumption about leases.
- **`EffectContractProofs`**: under `CallsFitLease`, `ContractInv` relates row, remote side (`RowFacts`), the owner's position
  (`OwnerFacts`) and calls in flight (`CallFacts`); with it every step of the runner is a step of `EffectContract` or a stutter.
- **`SpoolStoreProofs`**: type correctness, `IndexedHasFile`, and `SealCoversEvidence`, which is inductive only together with
  "a worker's authority has imported all orphans" and "no seal file before settlement" (`SealInv`). `RowsFit` (a checkpoint's delivery has
  its record, a terminal's and the seal's that of the seal) is what an import needs to touch no row that exists; from it `OutcomesStay`: delivered,
  refused, quarantined and acknowledged are final, and ordinals never change.
- **`SpoolDeliveryProofs`**: the composition implements `SpoolSpec` (`DeliveryUsesSpool`), so the store's theorems carry over. Then
  every invariant of the run `SpoolDelivery`: `SpoolNeverAhead` from `CursorInv` (what a position in the cycle knows),
  `EvidenceKept` from `CompactedKept`, `OneTerminalPair` from `TerminalsLate`, `AcceptedChains` from `HeadsExist` and the fact
  that the body of an accepted checkpoint is never written again. `MarksLand` says that no mark and no release of the drainer raises
  `SpoolUnavailable`, which nothing in a cycle catches; it follows from `RowsFound`: the listed records are committed and listed once (the order of
  the ordinals), the listed checkpoints have rows, and the drainer's place in a recovery tells who holds the authority.
- **`ConsultationProofs`**: `IInv` consists of types, `GenerationFits`, `NothingYet` (before the first join there is nothing),
  `CancelledMovedOn`, `DeletedIsOver` (a deleted room, and whoever hears of it, comes after the worker's end) and
  `BarrierHolds` (plans, items, handlers and grants of a participant come after the egress). From it `TypeOK`,
  `RoomOutlivesWorker`, `EndedIsDrained`, `CaptureNeedsEgress` and `StateMoves`, for any participants and failures. `Held` adds `Baton`: the
  drain is handed from the request or deadline that plans it to the planned `ROOM_DELETE` and its stops, from there to the report that the room is
  deleted, and an open epoch to its settlement. From it `QuietIsFinished`. It needs a participant (`SomeoneAssumption`): the drain of a failed egress is
  recognised by the removals it waits for.
- **`ArchiveInventoryProofs`**: `IInv` says of each program counter what a reconciler still knows: its snapshot is what the rows say as
  long as the archive is reconciling (`SnapshotHolds`), what it listed is in the bucket (`ListingHolds`), it goes on only without a gap or after
  the deadline (`DecisionHolds`), and once it has put `final.json` the object says what its task says (`PutHolds`). `FinalIsHonest` carries
  that over to an object whose writer has died. From it all four invariants of the run, and `InventoryStays`: what is recorded is never overwritten.
  `LeaseIsUsed` (a live lease has a reconciler at work) gives `ReconciliationGoesOn`, the safety half of `EndsUnlessStuck`.
- **`ArchiveRetentionProofs`**: `Cover` says which versions may be bare: with a hold that counts, none; during an operation, those its saved
  results do not claim. `OwnerCovers` says the same of what the owner has in hand, `OpShape` who the owner is, and `Drained` that
  a deletion which was scanned, failed or repeated has left nothing to delete. From `IInv`
  `HoldProtects`, `OperationHasHold`, `DeletionExcludesHold` and `DeletedOnlyWhileDeleting`. `OneBarePerFault` needs an account of the faults
  (`Budget`): the versions that slipped and are left, the requests that lost their operation and do not know yet (each may release one more), and
  a stalled owner are together never more than the faults so far. `Spends` lists how a step may move one of these into another. `Carried` (the runner waits
  for a scan exactly while it runs; the effect of the deletion that is on has not ended) gives `DeletionGoesOn`, the safety half of `DeletionSettles`.
- **`DirectionSessionProofs`**: `IInv` consists of types, `LockHeld` (who holds the lifecycle lock), `SenderPlaced` (a frame in flight was
  sent to the current session, one that is answered to an earlier one), `AttemptPlaced` (nobody has used a replacement before it is
  installed, and its announced start lies in the window), `EndPlaced` (which sessions can be open, and how a stop closes in on
  them), `Bounded` (nobody knows of a frame that was not accepted) and `Seamless`. The last says of the current session that it is
  `Gapless` up to its latest frame and that each later one is `Skipped` or `Awaited`; `NextFrame` is the lemma that one more frame, sent or
  replayed, leaves it so. From `IInv` all three invariants of the run, for any number of attempts and frames and any window. `Attended` adds
  who waits for whom: an unanswered sender has a future nobody has resolved (`Expected`), the event task and the sessions end for a reason the job
  hears of (`EndsForReason`), and the stop and the state tell how far `finish` has come (`StopFits`). From it `NobodyIsForgotten`, the
  safety half of `SessionSettles`: until `finish` returns or raises somebody has a step, and a finish that raised has still answered the sender.

Only model-checked: the liveness properties `EventuallySettled`, `EpochEnds`, `EndsUnlessStranded`,
`CancelledLeavesNothing`, `EndsUnlessStuck`, `DeletionSettles`, `SessionSettles`, since liveness and ENABLED are beyond the provers;
and the violations. Of five of them the safety half is proved, that somebody always has a step to take (the actions' own guards written out, not
ENABLED): `QuietIsFinished` for the two of `Consultation`, `ReconciliationGoesOn`, `DeletionGoesOn`, `NobodyIsForgotten`. That the steps
they name lead to the end is what TLC checks. Apart from `QuietIsFinished`, these and `OutcomesStay`, `MarksLand` and `InventoryStays` are stated
in the proof modules and are no properties of a run.

## 6. Not modelled

Transactions stand for themselves: PostgreSQL's locks and retries (`server-core/persistence`) are what makes a step
atomic. The user interface, schemas, generated clients (half of the lines of the implementation are generated Prisma
models, which hold no protocol), deployment, telemetry and admin scripts have no protocol of their own. Provider adapters are
represented by what `DirectionSession` assumes of a session: it takes frames, marks boundaries, fails or ends.

What has a protocol and is left for an extension, in the order of what a model would find out:

1. `Admission`: preferences, frozen snapshot, consent and join against each other (`snapshotHash`), and the order of presence webhooks.
2. `Capacity` and provider quotas: Redis scripts with expiry; reservation, renewal and rollback of provisioning.
3. PCM batches and covering checkpoints over `SpoolStore`; several tuples in one drainer.
4. The stages behind a direction's recognition: translation, synthesis and publication with their queues, and the final
   captions of a session that was replaced.
5. The supplement of an archive.

The composition of `Consultation` with `ArchiveInventory` is by their interface only: what the former ends with (room deleted, epoch
over) is the latter's `Init`, and `EffectRunner`'s contract is what `Consultation` assumes of an effect.
