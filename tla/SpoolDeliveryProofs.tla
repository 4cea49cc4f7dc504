------------------------- MODULE SpoolDeliveryProofs -------------------------
(* Safety of SpoolDelivery, proved for every finite set of records and every   *)
(* bound: the drainer uses the spool as SpoolStore allows, and never records   *)
(* more than the control plane has accepted.                                   *)
EXTENDS SpoolDelivery, SpoolStoreProofs

-----------------------------------------------------------------------------
(* Sequences of listed rows *)

LEMMA ListedHead ==
  ASSUME NEW S, NEW s \in Seq(S), s # <<>>
  PROVE  Head(s) \in S /\ Tail(s) \in Seq(S)
OBVIOUS

\* The rows of a query are a sequence of them.
LEMMA OrderedType ==
  ASSUME NEW S, IsFiniteSet(S), NEW s \in [1..Cardinality(S) -> S]
  PROVE  s \in Seq(S)
BY FS_CardinalityType

LEMMA DropChainType ==
  ASSUME NEW S, todo \in Seq(S), DropChain
  PROVE  todo' \in Seq(S)
<1>1. PICK n \in 1..Len(todo) : todo' = SubSeq(todo, n + 1, Len(todo))
  BY DEF DropChain
<1> QED
  BY <1>1

-----------------------------------------------------------------------------
(* What the drainer knows at each of its steps *)

\* The listed rows are of the kind the phase handles, what it is about to mark
\* has been accepted, and a handoff read as relinquished stays so.
CursorInv ==
  /\ pc \in {"records", "uploaded"} => todo \in Seq(Evidence)
  /\ pc \in {"checkpoints", "delivered"} => todo \in Seq(Checkpoints)
  /\ pc \in {"uploaded", "delivered"} => todo # <<>>
  /\ pc = "uploaded" => Head(todo) \in registered
  /\ pc = "delivered" => Head(todo) \in accepted
  /\ pc \in {"completion", "completed"} => seal # "none"
  /\ pc = "completed" => epoch = "completed"
  /\ pc = "abandoned" => epoch = "abandoned"
  /\ seen = "relinquished" => handoff = "relinquished"
  /\ pc \in {"abandon", "abandoned"} => handoff = "relinquished"

\* What a producer leaves alone: rows it did not find absent, deliveries and
\* seals but to make them pending, and a handoff that is relinquished.
LEMMA ProducerFrame ==
  ASSUME SpoolTypeOK, Producer
  PROVE  /\ \A e \in Evidence : record'[e] # record[e] => record'[e] = "committed"
         /\ compacted' = compacted
         /\ \A c \in Checkpoints : delivery'[c] # delivery[c] => delivery'[c] = "pending"
         /\ seal' # seal => seal' = "pending"
         /\ handoff = "relinquished" => handoff' = "relinquished"
         /\ handoff \in {"sealed", "relinquished"} => handoff' \in {"sealed", "relinquished"}
         /\ \A c \in Checkpoints : previous'[c] # previous[c] =>
              previous[c] = Unwritten \/ (c \in Terminals /\ handoff = "settling")
<1> USE ObjectKinds
<1>1. CASE Open
  <2>1. ImportOrphans("active") /\ "active" \in Handoffs /\ handoff \in {"none", "active"}
    BY <1>1 DEF Open, Handoffs
  <2>2. \A e \in Evidence : record'[e] # record[e] => e \in Orphans \ {Seal}
    BY <2>1, ImportEffect DEF Orphans
  <2> QED
    BY <2>1, <2>2, ImportEffect
<1>2. CASE Crash \/ BeginSettlement \/ Relinquish \/ Close
  BY <1>2 DEF Crash, BeginSettlement, Relinquish, Close, Producing, journalVars, chainVars, sealVars
<1>3. CASE \E e \in Evidence : AppendRecord(e) \/ AppendInterrupted(e)
  BY <1>3 DEF AppendRecord, AppendInterrupted, Producing, Index, Publish, SpoolTypeOK,
              tupleVars, chainVars, sealVars
<1>4. ASSUME NEW c \in Interim, Checkpoint(c) \/ CheckpointFails(c) \/ CheckpointInterrupted(c)
      PROVE  /\ \A e \in Evidence : record'[e] = record[e]
             /\ UNCHANGED <<handoff, compacted, seal>>
             /\ handoff \notin {"sealed", "relinquished"}
             /\ \A b \in Checkpoints : delivery'[b] # delivery[b] => delivery'[b] = "pending"
             /\ \A b \in Checkpoints : previous'[b] # previous[b] => previous[b] = Unwritten
  <2>1. \A e \in Evidence : record'[e] = record[e]
    BY <1>4 DEF Checkpoint, CheckpointFails, CheckpointInterrupted, Index, Publish, SpoolTypeOK
  <2>2. \A b \in Checkpoints : delivery'[b] # delivery[b] => delivery'[b] = "pending"
    BY <1>4 DEF Checkpoint, CheckpointFails, CheckpointInterrupted, SpoolTypeOK
  <2>3. \A b \in Checkpoints : previous'[b] # previous[b] => previous[b] = Unwritten
    BY <1>4 DEF Checkpoint, CheckpointFails, CheckpointInterrupted, Fresh, Chain, SpoolTypeOK
  <2> QED
    BY <1>4, <2>1, <2>2, <2>3
       DEF Checkpoint, CheckpointFails, CheckpointInterrupted, Producing, tupleVars, sealVars
<1>5. CASE SealCommits \/ SealFails \/ SealInterrupted
  <2>1. \A e \in Evidence : record'[e] = record[e]
    BY <1>5 DEF SealCommits, SealFails, SealInterrupted, Index, Publish, SpoolTypeOK
  <2>2. \A c \in Checkpoints : previous'[c] # previous[c] => c \in Terminals /\ handoff = "settling"
    BY <1>5 DEF SealCommits, SealFails, SealInterrupted, WriteSeal
  <2>3. \A c \in Checkpoints : delivery'[c] # delivery[c] => delivery'[c] = "pending"
    BY <1>5 DEF SealCommits, SealFails, SealInterrupted, Terminate
  <2>4. handoff = "settling" /\ compacted' = compacted /\ (seal' # seal => seal' = "pending")
    BY <1>5 DEF SealCommits, SealFails, SealInterrupted, WriteSeal
  <2> QED
    BY <2>1, <2>2, <2>3, <2>4
<1> QED
  BY <1>1, <1>2, <1>3, <1>4, <1>5 DEF Producer

\* The same of a recovery that takes the authority.
LEMMA RecoveryFrame ==
  ASSUME SpoolTypeOK, AcquireRecovery
  PROVE  /\ \A e \in Evidence : record'[e] # record[e] => record'[e] = "committed"
         /\ UNCHANGED <<compacted, previous>>
         /\ \A c \in Checkpoints : delivery'[c] # delivery[c] => delivery'[c] = "pending"
         /\ seal' # seal => seal' = "pending"
         /\ handoff \in {"sealed", "relinquished"} => handoff' = handoff
<1>1. ImportOrphans(handoff) /\ handoff \in Handoffs
  BY DEF AcquireRecovery, SpoolTypeOK, Handoffs
<1>2. \A e \in Evidence : record'[e] # record[e] => e \in Orphans \ {Seal}
  BY <1>1, ImportEffect, ObjectKinds DEF Orphans
<1> QED
  BY <1>1, <1>2, ImportEffect

-----------------------------------------------------------------------------
(* The drainer uses the spool as SpoolStore allows *)

\* Every step of the composition is a step of the spool or leaves it alone.
LEMMA SpoolStep ==
  ASSUME TypeOK, CursorInv, [Next]_vars
  PROVE  [SpoolNext]_spoolVars
<1> USE DEF spoolVars, SpoolNext
<1>1. CASE UNCHANGED vars
  BY <1>1 DEF vars
<1>2. CASE Work
  BY <1>2 DEF Work
<1>3. CASE LeaseExpires \/ Heartbeat \/ ControlFences
  BY <1>3 DEF LeaseExpires, Heartbeat, ControlFences
<1>4. CASE Deliver
  <2>1. CASE \/ ListRecords \/ RegisterRecord \/ ListCheckpoints \/ SkipCheckpoint \/ StopChain
             \/ DeliverCheckpoint \/ EndCheckpoints \/ Complete
    BY <2>1 DEF ListRecords, RegisterRecord, ListCheckpoints, SkipCheckpoint, StopChain,
                DeliverCheckpoint, EndCheckpoints, Complete
  <2>2. CASE MarkUploaded \/ RejectRecord
    <3>1. Head(todo) \in Evidence
      BY <2>2, ListedHead DEF MarkUploaded, RejectRecord, Listed, At, CursorInv
    <3> QED
      BY <2>2, <3>1 DEF MarkUploaded, RejectRecord, Drainer
  <2>3. CASE AcknowledgeCheckpoint \/ RejectCheckpoint
    <3>1. Head(todo) \in Checkpoints
      BY <2>3, ListedHead DEF AcknowledgeCheckpoint, RejectCheckpoint, Listed, At, CursorInv
    <3> QED
      BY <2>3, <3>1 DEF AcknowledgeCheckpoint, RejectCheckpoint, Drainer
  <2>4. CASE CompactEnvelopes \/ UnlinkEnvelopes \/ AcknowledgeCompletion
    BY <2>4 DEF CompactEnvelopes, UnlinkEnvelopes, AcknowledgeCompletion, Drainer
  <2>5. CASE CompletionRefused
    BY <2>5 DEF CompletionRefused, Restart, Drainer
  <2> QED
    BY <1>4, <2>1, <2>2, <2>3, <2>4, <2>5 DEF Deliver
<1>5. CASE Recover
  <2>1. CASE NothingExpired \/ ReadHandoff \/ ProducerAlive \/ AlreadyRelinquished \/ Abandon
    BY <2>1 DEF NothingExpired, ReadHandoff, ProducerAlive, AlreadyRelinquished, Abandon
  <2>2. CASE Acquire \/ LeaveSealed \/ RelinquishUnsealed \/ AbandonFails \/ AcknowledgeAbandon
             \/ ReleaseRecovery
    BY <2>2 DEF Acquire, LeaveSealed, RelinquishUnsealed, AbandonFails, AcknowledgeAbandon,
                ReleaseRecovery, Drainer
  <2>3. CASE OtherReason \/ AbandonRefused
    BY <2>3 DEF OtherReason, AbandonRefused, Restart, Drainer
  <2> QED
    BY <1>5, <2>1, <2>2, <2>3 DEF Recover
<1>6. CASE CallsFail
  <2>1. CASE DeferRecord \/ DeferCheckpoint \/ DeferCompletion
    BY <2>1 DEF DeferRecord, DeferCheckpoint, DeferCompletion, Elsewhere
  <2>2. CASE QuarantineRecord
    <3>1. Head(todo) \in Evidence
      BY <2>2, ListedHead DEF QuarantineRecord, Listed, At, CursorInv
    <3> QED
      BY <2>2, <3>1 DEF QuarantineRecord, Drainer
  <2>3. CASE DeferAbandon
    BY <2>3 DEF DeferAbandon, Drainer
  <2>4. CASE DrainerCrash
    BY <2>4 DEF DrainerCrash, Restart, Drainer
  <2> QED
    BY <1>6, <2>1, <2>2, <2>3, <2>4 DEF CallsFail
<1> QED
  BY <1>1, <1>2, <1>3, <1>4, <1>5, <1>6 DEF Next

-----------------------------------------------------------------------------
(* Type correctness and the cursor *)

\* A new cycle knows nothing of the last one.
LEMMA FreshCycle ==
  ASSUME CycleEnds
  PROVE  /\ pc' \in Pcs /\ todo' \in Seq(Evidence \cup Checkpoints) /\ deferred' \in BOOLEAN
         /\ seen' \in Handoffs
         /\ CursorInv'
<1>1. todo' = <<>> /\ <<>> \in Seq(Evidence \cup Checkpoints)
  BY DEF CycleEnds
<1>2. pc' = "cycle" /\ seen' = "none" /\ deferred' = FALSE
  BY DEF CycleEnds, GoTo
<1>3. CursorInv'
  BY <1>2 DEF CursorInv
<1> QED
  BY <1>1, <1>2, <1>3 DEF Pcs, Handoffs

\* Rows of one kind are rows.
LEMMA ListedType ==
  ASSUME todo' \in Seq(Evidence) \/ todo' \in Seq(Checkpoints)
  PROVE  todo' \in Seq(Evidence \cup Checkpoints)
OBVIOUS

\* Neither a producer nor the control plane disturbs what the drainer knows.
LEMMA ElsewhereKeepsCursor ==
  ASSUME TypeOK, CursorInv, SpoolTypeOK',
         Work \/ LeaseExpires \/ Heartbeat \/ ControlFences \/ UNCHANGED vars
  PROVE  TypeOK' /\ CursorInv'
<1>1. CASE Work
  BY <1>1, ProducerFrame DEF Work, TypeOK, CursorInv, controlVars, cycleVars
<1>2. CASE LeaseExpires \/ Heartbeat \/ ControlFences
  <2>1. UNCHANGED <<pc, todo, deferred, seen, registered, accepted, rejects>>
    BY <1>2 DEF LeaseExpires, Heartbeat, ControlFences, cycleVars
  <2>2. /\ epoch' \in {epoch, "fenced"} /\ (epoch # "live" => epoch' = epoch)
        /\ expired' \in BOOLEAN
    BY <1>2 DEF LeaseExpires, Heartbeat, ControlFences, TypeOK
  <2>3. UNCHANGED <<handoff, seal>>
    BY <1>2 DEF LeaseExpires, Heartbeat, ControlFences, spoolVars, tupleVars, sealVars
  <2>4. CursorInv'
    BY <2>1, <2>2, <2>3 DEF CursorInv
  <2> QED
    BY <2>1, <2>2, <2>4 DEF TypeOK
<1>3. CASE UNCHANGED vars
  BY <1>3 DEF vars, TypeOK, CursorInv, controlVars, cycleVars, spoolVars, tupleVars, sealVars
<1> QED
  BY <1>1, <1>2, <1>3

LEMMA RecordsKeepCursor ==
  ASSUME TypeOK, CursorInv, SpoolTypeOK',
         \/ ListRecords \/ RegisterRecord \/ MarkUploaded \/ RejectRecord \/ DeferRecord
         \/ QuarantineRecord \/ CompactEnvelopes \/ UnlinkEnvelopes
  PROVE  TypeOK' /\ CursorInv'
<1> USE DEF TypeOK, CursorInv, At, Listed, GoTo, Pcs
<1>1. CASE ListRecords
  <2>1. IsFiniteSet({e \in Evidence : record[e] = "committed"})
    BY EvidenceAssumption, FS_Subset
  <2>2. todo' \in Seq({e \in Evidence : record[e] = "committed"})
    BY <1>1, <2>1, OrderedType DEF ListRecords, Ordered
  <2>3. todo' \in Seq(Evidence)
    BY <2>2
  <2> QED
    BY <1>1, <2>3, ListedType DEF ListRecords, controlVars, spoolVars, tupleVars, sealVars
<1>2. ASSUME todo \in Seq(Evidence), todo # <<>>
      PROVE  Head(todo) \in Evidence /\ Tail(todo) \in Seq(Evidence)
  BY <1>2, ListedHead
<1>3. CASE RegisterRecord
  BY <1>2, <1>3 DEF RegisterRecord, spoolVars, tupleVars, sealVars
<1>4. CASE MarkUploaded
  BY <1>2, <1>4, ListedType DEF MarkUploaded, MarkRecordUploaded, SetRecord, controlVars, tupleVars, sealVars
<1>5. CASE RejectRecord
  BY <1>2, <1>5, RejectsAssumption, ListedType
     DEF RejectRecord, MarkRecordPermanent, SetRecord, Refusal, controlVars, tupleVars, sealVars
<1>6. CASE DeferRecord
  BY <1>2, <1>6, ListedType DEF DeferRecord, tupleVars, sealVars
<1>7. CASE QuarantineRecord
  BY <1>2, <1>7, ListedType DEF QuarantineRecord, Quarantine, SetRecord, controlVars, tupleVars, sealVars
<1>8. CASE CompactEnvelopes \/ UnlinkEnvelopes
  BY <1>8 DEF CompactEnvelopes, Compact, UnlinkEnvelopes, Unlink, controlVars, tupleVars, sealVars
<1> QED
  BY <1>1, <1>3, <1>4, <1>5, <1>6, <1>7, <1>8

\* A query of deliveries returns finitely many rows.
LEMMA RegisteredFinite == IsFiniteSet(Registered(1) \cup Registered(2))
<1>1. Terminals = {<<1, 0>>} \cup {<<2, 0>>}
  BY DEF Terminals, Terminal, Directions
<1>2. IsFiniteSet(Objects \cup Terminals)
  BY <1>1, FinitelyManyObjects, FS_Singleton, FS_Union
<1>3. Registered(1) \cup Registered(2) \subseteq Objects \cup Terminals
  BY DEF Registered, Checkpoints, Objects
<1> QED
  BY <1>2, <1>3, FS_Subset

LEMMA CheckpointsKeepCursor ==
  ASSUME TypeOK, CursorInv, SpoolTypeOK',
         \/ ListCheckpoints \/ SkipCheckpoint \/ StopChain \/ DeliverCheckpoint
         \/ AcknowledgeCheckpoint \/ RejectCheckpoint \/ DeferCheckpoint \/ EndCheckpoints
  PROVE  TypeOK' /\ CursorInv'
<1> USE DEF TypeOK, CursorInv, At, Listed, GoTo, Pcs
<1>1. CASE ListCheckpoints
  <2>1. Registered(1) \cup Registered(2) \subseteq Checkpoints
    BY DEF Registered
  <2>2. IsFiniteSet(Registered(1) \cup Registered(2))
    BY RegisteredFinite
  <2>3. todo' \in Seq(Registered(1) \cup Registered(2))
    BY <1>1, <2>2, OrderedType DEF ListCheckpoints, Ordered
  <2>4. todo' \in Seq(Checkpoints)
    BY <2>1, <2>3
  <2> QED
    BY <1>1, <2>4, ListedType DEF ListCheckpoints, controlVars, spoolVars, tupleVars, sealVars
<1>2. ASSUME todo \in Seq(Checkpoints), todo # <<>>
      PROVE  Head(todo) \in Checkpoints /\ Tail(todo) \in Seq(Checkpoints)
  BY <1>2, ListedHead
<1>3. CASE SkipCheckpoint
  BY <1>2, <1>3, ListedType DEF SkipCheckpoint, controlVars, spoolVars, tupleVars, sealVars
<1>4. CASE StopChain
  <2>1. todo' \in Seq(Checkpoints)
    BY <1>4, DropChainType DEF StopChain
  <2>2. deferred' \in BOOLEAN
    BY <1>4 DEF StopChain
  <2> QED
    BY <1>4, <2>1, <2>2, ListedType DEF StopChain, controlVars, spoolVars, tupleVars, sealVars
<1>5. CASE DeliverCheckpoint
  BY <1>2, <1>5 DEF DeliverCheckpoint, spoolVars, tupleVars, sealVars
<1>6. CASE AcknowledgeCheckpoint
  BY <1>2, <1>6, ListedType DEF AcknowledgeCheckpoint, MarkCheckpoint, controlVars, tupleVars, sealVars
<1>7. CASE RejectCheckpoint
  <2>1. todo' \in Seq(Checkpoints)
    BY <1>7, DropChainType DEF RejectCheckpoint
  <2> QED
    BY <1>7, <2>1, RejectsAssumption, ListedType
       DEF RejectCheckpoint, MarkCheckpoint, Refusal, controlVars, tupleVars, sealVars
<1>8. CASE DeferCheckpoint
  <2>1. todo' \in Seq(Checkpoints)
    BY <1>8, DropChainType DEF DeferCheckpoint
  <2> QED
    BY <1>2, <1>8, <2>1, ListedType DEF DeferCheckpoint, tupleVars, sealVars
<1>9. CASE EndCheckpoints
  BY <1>9 DEF EndCheckpoints, SealReady, controlVars, spoolVars, tupleVars, sealVars
<1> QED
  BY <1>1, <1>3, <1>4, <1>5, <1>6, <1>7, <1>8, <1>9

LEMMA EndingsKeepCursor ==
  ASSUME TypeOK, CursorInv, SpoolTypeOK',
         \/ Complete \/ AcknowledgeCompletion \/ DeferCompletion \/ CompletionRefused \/ Recover
         \/ DeferAbandon \/ DrainerCrash
  PROVE  TypeOK' /\ CursorInv'
<1>1. CASE Complete \/ AcknowledgeCompletion \/ DeferCompletion
  BY <1>1 DEF Complete, AcknowledgeCompletion, DeferCompletion, MarkCompletion, TypeOK, CursorInv, At, GoTo,
              Pcs, controlVars, spoolVars, tupleVars, sealVars
<1>2. ASSUME CycleEnds, epoch' \in {"live", "completed", "abandoned", "fenced"},
             UNCHANGED <<expired, registered, accepted, rejects>>
      PROVE  TypeOK' /\ CursorInv'
  BY <1>2, FreshCycle DEF TypeOK, Handoffs
<1>3. CASE CompletionRefused \/ DeferAbandon \/ DrainerCrash \/ NothingExpired \/ ProducerAlive
           \/ LeaveSealed \/ OtherReason \/ AbandonFails \/ AbandonRefused \/ ReleaseRecovery
  BY <1>2, <1>3 DEF CompletionRefused, DeferAbandon, DrainerCrash, NothingExpired, ProducerAlive,
                    LeaveSealed, OtherReason, AbandonFails, AbandonRefused, ReleaseRecovery, Restart,
                    TypeOK, controlVars
<1>4. CASE ReadHandoff \/ AlreadyRelinquished \/ Abandon
  BY <1>4 DEF ReadHandoff, AlreadyRelinquished, Abandon, TypeOK, SpoolTypeOK, CursorInv, At, GoTo, Pcs,
              controlVars, spoolVars, tupleVars, sealVars
<1>5. CASE Acquire
  <2>1. seen = "relinquished" => handoff' = "relinquished"
    BY <1>5, RecoveryFrame DEF Acquire, TypeOK, CursorInv
  <2> QED
    BY <1>5, <2>1 DEF Acquire, TypeOK, CursorInv, At, GoTo, Pcs, controlVars
<1>6. CASE RelinquishUnsealed \/ AcknowledgeAbandon
  BY <1>6 DEF RelinquishUnsealed, RelinquishExpired, AcknowledgeAbandon, MarkCompletion, TypeOK, CursorInv,
              At, GoTo, Pcs, controlVars, tupleVars, sealVars
<1> QED
  BY <1>1, <1>3, <1>4, <1>5, <1>6 DEF Recover

LEMMA CursorStep == TypeOK /\ CursorInv /\ [Next]_vars => TypeOK' /\ CursorInv'
<1> SUFFICES ASSUME TypeOK, CursorInv, [Next]_vars PROVE TypeOK' /\ CursorInv'
  OBVIOUS
<1>1. SpoolTypeOK'
  BY SpoolStep, TypeStep DEF TypeOK
<1> QED
  BY <1>1, ElsewhereKeepsCursor, RecordsKeepCursor, CheckpointsKeepCursor, EndingsKeepCursor
     DEF Next, Deliver, CallsFail

LEMMA CursorInit == Init => TypeOK /\ CursorInv
<1> SUFFICES ASSUME Init PROVE TypeOK /\ CursorInv
  OBVIOUS
<1>1. todo = <<>> /\ <<>> \in Seq(Evidence \cup Checkpoints)
  BY DEF Init
<1>2. SpoolTypeOK
  BY TypeInit DEF Init
<1>3. rejects \in 0..MaxRejects
  BY RejectsAssumption DEF Init
<1>4. TypeOK
  BY <1>1, <1>2, <1>3 DEF Init, TypeOK, Pcs
<1>5. CursorInv
  BY DEF Init, CursorInv
<1> QED
  BY <1>4, <1>5

\* Spool, control plane and drainer hold what their types allow, in every
\* interleaving of the worker, the drainer, recoveries and failures.
THEOREM TypeCorrect == Spec => []TypeOK
BY CursorInit, CursorStep, PTL DEF Spec

\* Composed with its drainer the spool still behaves as SpoolStore says.
THEOREM DeliveryUsesSpool == Spec => SpoolSpec
<1>1. Init => SpoolInit
  BY DEF Init
<1>2. TypeOK /\ CursorInv /\ [Next]_vars => [SpoolNext]_spoolVars
  BY SpoolStep
<1> QED
  BY <1>1, <1>2, CursorInit, CursorStep, PTL DEF Spec, SpoolSpec

\* Whatever a drainer crashes in, an indexed row has its file.
THEOREM DeliveryIndexedHasFile == Spec => []IndexedHasFile
BY DeliveryUsesSpool, IndexedRowsHaveFiles, PTL

\* Whatever a drainer and its recoveries do, a seal covers its evidence.
THEOREM DeliverySealsCover == Spec => []SealCoversEvidence
BY DeliveryUsesSpool, SealsCoverEvidence, PTL

-----------------------------------------------------------------------------
(* The spool and the control plane *)

\* Only what the archive has is compacted, never what is replayed.
CompactedKept == compacted \subseteq registered \ Replayable

\* A step of the spool that makes rows committed or pending only, and the
\* control plane's answers only grow.
LEMMA AheadFrame ==
  ASSUME TypeOK, SpoolNeverAhead, CompactedKept,
         \A e \in Evidence : record'[e] # record[e] => record'[e] # "uploaded",
         \A c \in Checkpoints : delivery'[c] # delivery[c] => delivery'[c] # "acknowledged",
         seal' # seal => seal' # "acknowledged",
         compacted' = compacted,
         registered \subseteq registered', accepted \subseteq accepted',
         epoch \in {"completed", "abandoned"} => epoch' \in {"completed", "abandoned"}
  PROVE  SpoolNeverAhead' /\ CompactedKept'
<1>1. CompactedKept'
  BY DEF CompactedKept
<1>2. \A e \in Evidence : record'[e] = "uploaded" => e \in registered'
  BY DEF SpoolNeverAhead
<1>3. \A c \in Checkpoints : delivery'[c] = "acknowledged" => c \in accepted'
  BY DEF SpoolNeverAhead
<1>4. seal' = "acknowledged" => epoch' \in {"completed", "abandoned"}
  BY DEF SpoolNeverAhead
<1> QED
  BY <1>1, <1>2, <1>3, <1>4 DEF SpoolNeverAhead

\* The control plane's rows and the end of its epoch are never taken back.
LEMMA ControlGrows ==
  ASSUME TypeOK, CursorInv, [Next]_vars
  PROVE  /\ registered \subseteq registered' /\ accepted \subseteq accepted'
         /\ epoch # "live" => epoch' = epoch
<1> USE DEF controlVars
<1>1. CASE Work \/ LeaseExpires \/ Heartbeat \/ ControlFences \/ UNCHANGED vars
  BY <1>1 DEF Work, LeaseExpires, Heartbeat, ControlFences, vars
<1>2. CASE Deliver
  BY <1>2 DEF Deliver, ListRecords, RegisterRecord, MarkUploaded, RejectRecord, CompactEnvelopes,
              UnlinkEnvelopes, ListCheckpoints, SkipCheckpoint, StopChain, DeliverCheckpoint,
              AcknowledgeCheckpoint, RejectCheckpoint, EndCheckpoints, Complete, AcknowledgeCompletion,
              CompletionRefused, CanComplete
<1>3. CASE Recover
  BY <1>3 DEF Recover, NothingExpired, ReadHandoff, Acquire, ProducerAlive, LeaveSealed,
              RelinquishUnsealed, AlreadyRelinquished, OtherReason, Abandon, AbandonFails,
              AbandonRefused, AcknowledgeAbandon, ReleaseRecovery, CanAbandon, AbandonAdmitted
<1>4. CASE CallsFail
  BY <1>4 DEF CallsFail, DeferRecord, QuarantineRecord, DeferCheckpoint, DeferCompletion, DeferAbandon,
              DrainerCrash, CanComplete, CanAbandon, AbandonAdmitted
<1> QED
  BY <1>1, <1>2, <1>3, <1>4 DEF Next

LEMMA AheadStep ==
  TypeOK /\ CursorInv /\ SpoolNeverAhead /\ CompactedKept /\ [Next]_vars
    => SpoolNeverAhead' /\ CompactedKept'
<1> SUFFICES ASSUME TypeOK, CursorInv, SpoolNeverAhead, CompactedKept, [Next]_vars
             PROVE  SpoolNeverAhead' /\ CompactedKept'
  OBVIOUS
<1> DEFINE Same == UNCHANGED <<record, compacted, delivery, seal>>
<1>0. /\ registered \subseteq registered' /\ accepted \subseteq accepted'
      /\ epoch # "live" => epoch' = epoch
  BY ControlGrows
<1>1. ASSUME Same PROVE SpoolNeverAhead' /\ CompactedKept'
  BY <1>0, <1>1, AheadFrame
<1>2. CASE Work
  BY <1>0, <1>2, ProducerFrame, AheadFrame DEF Work, TypeOK
<1>3. CASE Acquire
  BY <1>0, <1>3, RecoveryFrame, AheadFrame DEF Acquire, TypeOK
<1>4. CASE MarkUploaded
  <2>1. Head(todo) \in registered /\ SetRecord(Head(todo), "uploaded") /\ UNCHANGED controlVars
    BY <1>4 DEF MarkUploaded, MarkRecordUploaded, CursorInv, At
  <2>2. \A e \in Evidence : record'[e] = "uploaded" => e \in registered
    BY <2>1 DEF SetRecord, SpoolNeverAhead, TypeOK, SpoolTypeOK
  <2> QED
    BY <2>1, <2>2 DEF SetRecord, SpoolNeverAhead, CompactedKept, controlVars, chainVars, sealVars
<1>5. CASE RejectRecord \/ QuarantineRecord
  <2>1. PICK state \in {"permanent", "quarantined"} : SetRecord(Head(todo), state)
    BY <1>5 DEF RejectRecord, QuarantineRecord, MarkRecordPermanent, Quarantine
  <2>2. \A e \in Evidence : record'[e] # record[e] => record'[e] # "uploaded"
    BY <2>1 DEF SetRecord, TypeOK, SpoolTypeOK
  <2> QED
    BY <1>0, <2>1, <2>2, AheadFrame DEF SetRecord, chainVars, sealVars
<1>6. CASE CompactEnvelopes
  <2>1. \A e \in Compactable : e \in registered \ Replayable
    BY DEF Compactable, SpoolNeverAhead
  <2>2. compacted' = compacted \cup Compactable /\ UNCHANGED <<record, delivery, seal, controlVars>>
    BY <1>6 DEF CompactEnvelopes, Compact, chainVars, sealVars
  <2> QED
    BY <2>1, <2>2 DEF CompactedKept, SpoolNeverAhead, controlVars
<1>7. CASE AcknowledgeCheckpoint
  <2>1. Head(todo) \in accepted /\ MarkCheckpoint(Head(todo), "acknowledged") /\ UNCHANGED controlVars
    BY <1>7 DEF AcknowledgeCheckpoint, CursorInv, At
  <2>2. \A c \in Checkpoints : delivery'[c] = "acknowledged" => c \in accepted
    BY <2>1 DEF MarkCheckpoint, SpoolNeverAhead, TypeOK, SpoolTypeOK
  <2> QED
    BY <2>1, <2>2 DEF MarkCheckpoint, SpoolNeverAhead, CompactedKept, controlVars, journalVars, sealVars
<1>8. CASE RejectCheckpoint
  <2>1. MarkCheckpoint(Head(todo), "permanent")
    BY <1>8 DEF RejectCheckpoint
  <2>2. \A c \in Checkpoints : delivery'[c] # delivery[c] => delivery'[c] # "acknowledged"
    BY <2>1 DEF MarkCheckpoint, TypeOK, SpoolTypeOK
  <2> QED
    BY <1>0, <2>1, <2>2, AheadFrame DEF MarkCheckpoint, journalVars, sealVars
<1>9. CASE AcknowledgeCompletion \/ AcknowledgeAbandon
  <2>1. epoch \in {"completed", "abandoned"} /\ epoch' = epoch
    BY <1>9 DEF AcknowledgeCompletion, AcknowledgeAbandon, CursorInv, At, controlVars
  <2> QED
    BY <1>9, <2>1 DEF AcknowledgeCompletion, AcknowledgeAbandon, MarkCompletion, SpoolNeverAhead,
                      CompactedKept, controlVars, journalVars, chainVars
<1>10. CASE \/ UNCHANGED vars \/ LeaseExpires \/ Heartbeat \/ ControlFences
            \/ ListRecords \/ RegisterRecord \/ DeferRecord \/ UnlinkEnvelopes
            \/ ListCheckpoints \/ SkipCheckpoint \/ StopChain \/ DeliverCheckpoint \/ DeferCheckpoint
            \/ EndCheckpoints \/ Complete \/ DeferCompletion \/ CompletionRefused
  BY <1>1, <1>10
     DEF vars, LeaseExpires, Heartbeat, ControlFences, ListRecords, RegisterRecord, DeferRecord,
         UnlinkEnvelopes, Unlink, ListCheckpoints, SkipCheckpoint, StopChain, DeliverCheckpoint,
         DeferCheckpoint, EndCheckpoints, Complete, DeferCompletion, CompletionRefused, Restart, Reopen,
         spoolVars, journalVars, chainVars, sealVars
<1>11. CASE \/ NothingExpired \/ ReadHandoff \/ ProducerAlive \/ LeaveSealed \/ RelinquishUnsealed
            \/ AlreadyRelinquished \/ OtherReason \/ Abandon \/ AbandonFails \/ AbandonRefused
            \/ ReleaseRecovery \/ DeferAbandon \/ DrainerCrash
  BY <1>1, <1>11
     DEF NothingExpired, ReadHandoff, ProducerAlive, LeaveSealed, RelinquishUnsealed, RelinquishExpired,
         AlreadyRelinquished, OtherReason, Abandon, AbandonFails, AbandonRefused, ReleaseRecovery,
         DeferAbandon, DrainerCrash, Release, Restart, Reopen, spoolVars, journalVars, chainVars, sealVars
<1> QED
  BY <1>2, <1>3, <1>4, <1>5, <1>6, <1>7, <1>8, <1>9, <1>10, <1>11 DEF Next, Deliver, Recover, CallsFail

LEMMA AheadInit == Init => SpoolNeverAhead /\ CompactedKept
BY ObjectKinds DEF Init, SpoolInit, SpoolNeverAhead, CompactedKept

\* A crash or a lost answer between a call and its mark leaves the spool
\* behind the control plane, and nothing ever leaves it ahead.
THEOREM SpoolStaysBehind == Spec => []SpoolNeverAhead
BY AheadInit, CursorInit, CursorStep, AheadStep, PTL DEF Spec

\* Evidence that was indexed has its file or is archived, for good.
THEOREM EvidenceIsKept == Spec => []EvidenceKept
<1>1. IndexedHasFile /\ CompactedKept => EvidenceKept
  BY ObjectKinds DEF IndexedHasFile, CompactedKept, EvidenceKept
<1> QED
  BY <1>1, AheadInit, CursorInit, CursorStep, AheadStep, DeliveryIndexedHasFile, PTL DEF Spec

-----------------------------------------------------------------------------
(* How an epoch ends *)

\* A terminal is accepted only of a sealed tuple, which is never unsealed but
\* by its own recovery.
TerminalsLate == Terminals \cap accepted # {} => handoff \in {"sealed", "relinquished"}

\* New terminals come from a sealed tuple of a live epoch.
LEMMA NewTerminal ==
  ASSUME TypeOK, [Next]_vars, Terminals \cap accepted' # Terminals \cap accepted
  PROVE  epoch = "live" /\ epoch' = "live" /\ handoff = "sealed" /\ handoff' = "sealed"
<1> USE DEF controlVars
<1>1. CASE DeliverCheckpoint \/ DeferCheckpoint
  BY <1>1 DEF DeliverCheckpoint, DeferCheckpoint, Deliverable, CanAccept, spoolVars, tupleVars
<1>2. CASE Work \/ LeaseExpires \/ Heartbeat \/ ControlFences \/ UNCHANGED vars
  BY <1>2 DEF Work, LeaseExpires, Heartbeat, ControlFences, vars
<1>3. CASE Deliver /\ ~DeliverCheckpoint
  BY <1>3 DEF Deliver, ListRecords, RegisterRecord, MarkUploaded, RejectRecord, CompactEnvelopes,
              UnlinkEnvelopes, ListCheckpoints, SkipCheckpoint, StopChain,
              AcknowledgeCheckpoint, RejectCheckpoint, EndCheckpoints, Complete, AcknowledgeCompletion,
              CompletionRefused
<1>4. CASE Recover
  BY <1>4 DEF Recover, NothingExpired, ReadHandoff, Acquire, ProducerAlive, LeaveSealed,
              RelinquishUnsealed, AlreadyRelinquished, OtherReason, Abandon, AbandonFails,
              AbandonRefused, AcknowledgeAbandon, ReleaseRecovery
<1>5. CASE CallsFail /\ ~DeferCheckpoint
  BY <1>5 DEF CallsFail, DeferRecord, QuarantineRecord, DeferCompletion, DeferAbandon, DrainerCrash
<1> QED
  BY <1>1, <1>2, <1>3, <1>4, <1>5 DEF Next

\* The step of an epoch that ends is the call that ends it.
LEMMA EpochStep ==
  ASSUME TypeOK, CursorInv, [Next]_vars, epoch' # epoch
  PROVE  /\ epoch' = "completed" => Terminals \subseteq accepted /\ seal # "none" /\ UNCHANGED accepted
         /\ epoch' = "abandoned" => /\ Terminals \cap accepted = {} /\ handoff = "relinquished"
                                    /\ UNCHANGED <<accepted, handoff>>
<1> USE DEF controlVars
<1>1. CASE Complete \/ DeferCompletion
  BY <1>1 DEF Complete, DeferCompletion, CanComplete, CursorInv, At, TypeOK
<1>2. CASE Abandon \/ DeferAbandon
  BY <1>2 DEF Abandon, DeferAbandon, Release, CanAbandon, AbandonAdmitted, CursorInv, At, TypeOK,
              spoolVars, tupleVars
<1>3. CASE ControlFences
  BY <1>3 DEF ControlFences
<1>4. CASE Work \/ LeaseExpires \/ Heartbeat \/ UNCHANGED vars
  BY <1>4 DEF Work, LeaseExpires, Heartbeat, vars
<1>5. CASE Deliver /\ ~Complete
  BY <1>5 DEF Deliver, ListRecords, RegisterRecord, MarkUploaded, RejectRecord, CompactEnvelopes,
              UnlinkEnvelopes, ListCheckpoints, SkipCheckpoint, StopChain, DeliverCheckpoint,
              AcknowledgeCheckpoint, RejectCheckpoint, EndCheckpoints, AcknowledgeCompletion,
              CompletionRefused
<1>6. CASE Recover /\ ~Abandon
  BY <1>6 DEF Recover, NothingExpired, ReadHandoff, Acquire, ProducerAlive, LeaveSealed,
              RelinquishUnsealed, AlreadyRelinquished, OtherReason, AbandonFails,
              AbandonRefused, AcknowledgeAbandon, ReleaseRecovery
<1>7. CASE CallsFail /\ ~DeferCompletion /\ ~DeferAbandon
  BY <1>7 DEF CallsFail, DeferRecord, QuarantineRecord, DeferCheckpoint, DrainerCrash
<1> QED
  BY <1>1, <1>2, <1>3, <1>4, <1>5, <1>6, <1>7 DEF Next

\* A tuple that was sealed or relinquished is one or the other for good, one
\* that was relinquished stays so, and a seal is never taken back.
LEMMA SpoolEndsOnce ==
  ASSUME SpoolTypeOK, [SpoolNext]_spoolVars
  PROVE  /\ handoff \in {"sealed", "relinquished"} => handoff' \in {"sealed", "relinquished"}
         /\ handoff = "relinquished" => handoff' = "relinquished"
         /\ seal # "none" => seal' # "none"
<1>1. CASE UNCHANGED spoolVars \/ Elsewhere
  BY <1>1 DEF spoolVars, Elsewhere, tupleVars, sealVars
<1>2. CASE Producer
  BY <1>2, ProducerFrame
<1>3. CASE AcquireRecovery
  BY <1>3, RecoveryFrame
<1>4. CASE Drainer /\ ~AcquireRecovery
  BY <1>4 DEF Drainer, MarkRecordUploaded, MarkRecordPermanent, Quarantine, SetRecord, MarkCheckpoint,
              Compact, Unlink, MarkCompletion, RelinquishExpired, Release, Reopen, tupleVars, sealVars
<1> QED
  BY <1>1, <1>2, <1>3, <1>4 DEF SpoolNext

LEMMA TerminalStep ==
  TypeOK /\ CursorInv /\ TerminalsLate /\ OneTerminalPair /\ [Next]_vars
    => TerminalsLate' /\ OneTerminalPair'
<1> SUFFICES ASSUME TypeOK, CursorInv, TerminalsLate, OneTerminalPair, [Next]_vars
             PROVE  TerminalsLate' /\ OneTerminalPair'
  OBVIOUS
<1>1. /\ handoff \in {"sealed", "relinquished"} => handoff' \in {"sealed", "relinquished"}
      /\ handoff = "relinquished" => handoff' = "relinquished"
      /\ seal # "none" => seal' # "none"
  BY SpoolStep, SpoolEndsOnce DEF TypeOK
<1>2. TerminalsLate'
  <2>1. CASE Terminals \cap accepted' = Terminals \cap accepted
    BY <1>1, <2>1 DEF TerminalsLate
  <2>2. CASE Terminals \cap accepted' # Terminals \cap accepted
    BY <2>2, NewTerminal DEF TerminalsLate
  <2> QED
    BY <2>1, <2>2
<1>3. epoch' = "completed" => Terminals \subseteq accepted' /\ seal' # "none"
  <2>1. CASE epoch' = epoch
    BY <1>1, <2>1, ControlGrows DEF OneTerminalPair
  <2>2. CASE epoch' # epoch
    BY <1>1, <2>2, EpochStep
  <2> QED
    BY <2>1, <2>2
<1>4. epoch' = "abandoned" => Terminals \cap accepted' = {} /\ handoff' = "relinquished"
  <2>1. CASE epoch' = epoch
    BY <1>1, <2>1, NewTerminal DEF OneTerminalPair
  <2>2. CASE epoch' # epoch
    BY <2>2, EpochStep
  <2> QED
    BY <2>1, <2>2
<1> QED
  BY <1>2, <1>3, <1>4 DEF OneTerminalPair

\* No epoch ends twice: neither with terminals of the worker and of the
\* supervisor, nor with one terminal, however recovery and delivery race.
THEOREM EpochsEndOnce == Spec => []OneTerminalPair
<1>1. Init => TerminalsLate /\ OneTerminalPair
  BY DEF Init, TerminalsLate, OneTerminalPair
<1> QED
  BY <1>1, CursorInit, CursorStep, TerminalStep, PTL DEF Spec

-----------------------------------------------------------------------------
(* The chains the control plane accepts *)

\* A direction with accepted rows has a head.
HeadsExist == \A c \in accepted : Heads(c[1]) # {}

ChainInv == AcceptedChains /\ HeadsExist

\* A body does not change once its row is accepted: producers write the body
\* of a fresh checkpoint, or of the terminals while the tuple settles.
LEMMA AcceptedBodiesStay ==
  ASSUME TypeOK, TerminalsLate, ChainInv, [Next]_vars, CursorInv
  PROVE  \A c \in accepted : previous'[c] = previous[c]
<1>1. CASE Work
  <2>1. \A c \in accepted : c \in Checkpoints /\ previous[c] \in accepted \cup {Root}
    BY DEF TypeOK, ChainInv, AcceptedChains
  <2>2. accepted \subseteq Nat \X Nat
    BY BoundsAssumption DEF TypeOK, Checkpoints, Interim, Terminals, Terminal, Directions
  <2>3. \A c \in accepted : previous[c] # Unwritten
    BY <2>1, <2>2, BodiesAssumption
  <2>4. \A c \in accepted : c \in Terminals => handoff # "settling"
    BY DEF TerminalsLate
  <2> QED
    BY <1>1, <2>1, <2>3, <2>4, ProducerFrame DEF Work, TypeOK
<1>2. CASE UNCHANGED previous
  BY <1>2
<1>3. CASE Acquire
  BY <1>3, RecoveryFrame DEF Acquire, TypeOK
<1>4. CASE LeaseExpires \/ Heartbeat \/ ControlFences \/ UNCHANGED vars
  BY <1>2, <1>4 DEF LeaseExpires, Heartbeat, ControlFences, vars, spoolVars, chainVars
<1>5. CASE Deliver
  BY <1>2, <1>5
     DEF Deliver, ListRecords, RegisterRecord, MarkUploaded, MarkRecordUploaded, RejectRecord,
         MarkRecordPermanent, SetRecord, CompactEnvelopes, Compact, UnlinkEnvelopes, Unlink,
         ListCheckpoints, SkipCheckpoint, StopChain, DeliverCheckpoint, AcknowledgeCheckpoint,
         RejectCheckpoint, MarkCheckpoint, EndCheckpoints, Complete, AcknowledgeCompletion,
         MarkCompletion, CompletionRefused, Restart, Reopen, spoolVars, chainVars
<1>6. CASE Recover /\ ~Acquire
  BY <1>2, <1>6
     DEF Recover, NothingExpired, ReadHandoff, ProducerAlive, LeaveSealed, RelinquishUnsealed,
         RelinquishExpired, AlreadyRelinquished, OtherReason, Abandon, AbandonFails, AbandonRefused,
         AcknowledgeAbandon, MarkCompletion, ReleaseRecovery, Release, Restart, Reopen, spoolVars, chainVars
<1>7. CASE CallsFail
  BY <1>2, <1>7
     DEF CallsFail, DeferRecord, QuarantineRecord, Quarantine, SetRecord, DeferCheckpoint, DeferCompletion,
         DeferAbandon, DrainerCrash, Release, Restart, Reopen, chainVars
<1> QED
  BY <1>1, <1>3, <1>4, <1>5, <1>6, <1>7 DEF Next

\* A step accepts nothing, or the one checkpoint the control plane admits.
LEMMA AcceptedGrows ==
  ASSUME TypeOK, CursorInv, [Next]_vars, accepted' # accepted
  PROVE  \E c \in Checkpoints \ accepted :
           CanAccept(c) /\ accepted' = accepted \cup {c} /\ UNCHANGED previous
<1> USE DEF controlVars
<1>1. CASE DeliverCheckpoint \/ DeferCheckpoint
  <2>1. Head(todo) \in Checkpoints
    BY <1>1, ListedHead DEF DeliverCheckpoint, DeferCheckpoint, Listed, At, CursorInv
  <2> QED
    BY <1>1, <2>1 DEF DeliverCheckpoint, DeferCheckpoint, spoolVars, chainVars
<1>2. CASE Work \/ LeaseExpires \/ Heartbeat \/ ControlFences \/ UNCHANGED vars
  BY <1>2 DEF Work, LeaseExpires, Heartbeat, ControlFences, vars
<1>3. CASE Deliver /\ ~DeliverCheckpoint
  BY <1>3 DEF Deliver, ListRecords, RegisterRecord, MarkUploaded, RejectRecord, CompactEnvelopes,
              UnlinkEnvelopes, ListCheckpoints, SkipCheckpoint, StopChain,
              AcknowledgeCheckpoint, RejectCheckpoint, EndCheckpoints, Complete, AcknowledgeCompletion,
              CompletionRefused
<1>4. CASE Recover
  BY <1>4 DEF Recover, NothingExpired, ReadHandoff, Acquire, ProducerAlive, LeaveSealed,
              RelinquishUnsealed, AlreadyRelinquished, OtherReason, Abandon, AbandonFails,
              AbandonRefused, AcknowledgeAbandon, ReleaseRecovery
<1>5. CASE CallsFail /\ ~DeferCheckpoint
  BY <1>5 DEF CallsFail, DeferRecord, QuarantineRecord, DeferCompletion, DeferAbandon, DrainerCrash
<1> QED
  BY <1>1, <1>2, <1>3, <1>4, <1>5 DEF Next

\* Accepting a checkpoint the control plane admits continues its chain.
LEMMA AcceptContinues ==
  ASSUME TypeOK, ChainInv, NEW c \in Checkpoints \ accepted, CanAccept(c),
         accepted' = accepted \cup {c}, UNCHANGED previous
  PROVE  ChainInv'
<1> USE DEF ChainInv
<1>1. /\ Heads(c[1]) = {previous[c]} \ {Root}
      /\ Terminal(c[1]) \notin accepted
  BY DEF CanAccept
<1>2. Checkpoints \subseteq Nat \X Nat /\ Root \notin Nat \X Nat /\ accepted \subseteq Checkpoints
  BY BoundsAssumption, BodiesAssumption
     DEF TypeOK, Checkpoints, Interim, Terminals, Terminal, Directions
<1>3. /\ \A k \in accepted : previous[k] \in accepted \cup {Root}
      /\ \A k \in accepted : previous[k] # c
  BY <1>2 DEF AcceptedChains
<1>4. previous[c] # Root => /\ previous[c] \in accepted /\ previous[c][1] = c[1]
                            /\ \A k \in accepted : previous[k] # previous[c]
  BY <1>1 DEF Heads
<1>5. previous[c] = Root => \A k \in accepted : k[1] # c[1]
  BY <1>1 DEF HeadsExist
<1>6. \A d \in Directions : Terminal(d)[1] = d
  BY DEF Terminal
<1>7. previous[c] \notin Terminals
  <2>1. ASSUME NEW d \in Directions, previous[c] = Terminal(d) PROVE FALSE
    <3>1. previous[c] # Root
      BY <1>2, <2>1 DEF Checkpoints, Terminals
    <3>2. c[1] = d
      BY <1>4, <1>6, <2>1, <3>1
    <3> QED
      BY <1>1, <1>4, <2>1, <3>1, <3>2
  <2> QED
    BY <2>1 DEF Terminals
<1>8. AcceptedChains'
  <2> SUFFICES ASSUME NEW k \in accepted'
               PROVE  /\ previous'[k] \in accepted' \cup {Root}
                      /\ previous'[k] \notin Terminals
                      /\ \A b \in accepted' : b[1] = k[1] /\ previous'[b] = previous'[k] => b = k
    BY DEF AcceptedChains
  <2>1. previous'[k] \in accepted' \cup {Root}
    BY <1>3, <1>4
  <2>2. previous'[k] \notin Terminals
    BY <1>7 DEF AcceptedChains
  <2>3. ASSUME NEW b \in accepted', b[1] = k[1], previous[b] = previous[k] PROVE b = k
    <3>1. CASE b \in accepted /\ k \in accepted
      BY <2>3, <3>1 DEF AcceptedChains
    <3>2. CASE b = c /\ k = c
      BY <3>2
    <3>3. CASE b = c /\ k \in accepted
      BY <1>4, <1>5, <2>3, <3>3
    <3>4. CASE k = c /\ b \in accepted
      BY <1>4, <1>5, <2>3, <3>4
    <3> QED
      BY <3>1, <3>2, <3>3, <3>4
  <2> QED
    BY <2>1, <2>2, <2>3
<1>9. HeadsExist'
  <2>1. c \in Heads(c[1])'
    <3>1. previous[c] # c
      BY <1>2, <1>4
    <3> QED
      BY <1>3, <3>1 DEF Heads
  <2>2. ASSUME NEW k \in accepted, k[1] # c[1] PROVE Heads(k[1])' # {}
    <3>1. PICK h \in accepted : h[1] = k[1] /\ \A b \in accepted : previous[b] # h
      BY DEF HeadsExist, Heads
    <3>2. previous[c] # h
      BY <1>2, <1>4, <2>2, <3>1
    <3> QED
      BY <3>1, <3>2 DEF Heads
  <2> QED
    BY <2>1, <2>2 DEF HeadsExist
<1> QED
  BY <1>8, <1>9

LEMMA ChainStep ==
  TypeOK /\ CursorInv /\ TerminalsLate /\ ChainInv /\ [Next]_vars => ChainInv'
<1> SUFFICES ASSUME TypeOK, CursorInv, TerminalsLate, ChainInv, [Next]_vars PROVE ChainInv'
  OBVIOUS
<1>1. CASE accepted' = accepted
  <2>1. \A c \in accepted : previous'[c] = previous[c]
    BY AcceptedBodiesStay
  <2>2. \A d : Heads(d)' = Heads(d)
    BY <1>1, <2>1 DEF Heads
  <2> QED
    BY <1>1, <2>1, <2>2 DEF ChainInv, AcceptedChains, HeadsExist
<1>2. CASE accepted' # accepted
  BY <1>2, AcceptedGrows, AcceptContinues
<1> QED
  BY <1>1, <1>2

\* However the spool forks, the accepted rows of a direction are one chain
\* that ends with its terminal.
THEOREM AcceptedRowsChain == Spec => []AcceptedChains
<1>1. Init => TerminalsLate /\ OneTerminalPair /\ ChainInv
  BY DEF Init, TerminalsLate, OneTerminalPair, ChainInv, AcceptedChains, HeadsExist
<1>2. ChainInv => AcceptedChains
  BY DEF ChainInv
<1> QED
  BY <1>1, <1>2, CursorInit, CursorStep, TerminalStep, ChainStep, PTL DEF Spec

\* What was delivered, refused or quarantined stays so under the drainer, its
\* crashes and its recoveries too.
THEOREM DeliveryOutcomesAreFinal == Spec => [][OutcomesStay]_spoolVars
BY DeliveryUsesSpool, OutcomesAreFinal, PTL

-----------------------------------------------------------------------------
(* The drainer finds the rows it listed *)

\* From AcquireRecovery to Release the drainer holds the tuple's authority.
Recovering == {"decide", "abandon", "abandoned", "release"}

\* A store that does not find the row it is to mark, or is asked to release an
\* authority it does not hold, raises SpoolUnavailable, which nothing in the
\* cycle catches (_store.py 1342-1392, 1606-1653, 1740-1757): none of that
\* happens although the worker writes between the listing and the mark.
MarksLand ==
  /\ pc = "uploaded" => record[Head(todo)] = "committed"
  /\ pc = "delivered" => delivery[Head(todo)] = "pending"
  /\ pc \in Recovering => holder = "drainer" /\ handoff # "none"

\* The records still to do are committed and listed once.
RecordsFound ==
  pc \in {"records", "uploaded"} =>
    /\ \A i \in 1..Len(todo) : record[todo[i]] = "committed"
    /\ \A i, j \in 1..Len(todo) : todo[i] = todo[j] => i = j

\* The checkpoints still to do have their rows, and what was just accepted has
\* not been acknowledged yet.
CheckpointsFound ==
  /\ pc \in {"checkpoints", "delivered"} => \A i \in 1..Len(todo) : delivery[todo[i]] # "absent"
  /\ pc = "delivered" => delivery[Head(todo)] = "pending"

AuthorityHeld ==
  /\ holder = "drainer" <=> pc \in Recovering
  /\ pc \in Recovering \cup {"acquire"} => handoff # "none"

RowsFound == RecordsFound /\ CheckpointsFound /\ AuthorityHeld

\* What is left of a sequence without its head.
LEMMA TailOf ==
  ASSUME NEW S, NEW s \in Seq(S), s # <<>>
  PROVE  /\ Head(s) = s[1] /\ 1 \in 1..Len(s)
         /\ \A i \in 1..Len(Tail(s)) : i + 1 \in 1..Len(s) /\ Tail(s)[i] = s[i + 1]
<1>1. Len(s) \in Nat /\ Len(s) # 0
  OBVIOUS
<1>2. Len(Tail(s)) = Len(s) - 1
  BY <1>1
<1>3. \A i \in 1..Len(Tail(s)) : Tail(s)[i] = s[i + 1]
  OBVIOUS
<1> QED
  BY <1>1, <1>2, <1>3

\* The rows of a query are rows of its set.
LEMMA OrderedRows ==
  ASSUME NEW S, IsFiniteSet(S), NEW order, NEW s \in Ordered(S, order)
  PROVE  /\ s \in Seq(S)
         /\ \A i \in 1..Len(s) : s[i] \in S
         /\ \A i, j \in 1..Len(s) : i < j => <<s[i], s[j]>> \in order
<1>1. s \in [1..Cardinality(S) -> S] /\ Cardinality(S) \in Nat
  BY FS_CardinalityType DEF Ordered
<1>2. s \in Seq(S) /\ Len(s) = Cardinality(S)
  BY <1>1, OrderedType
<1> QED
  BY <1>1, <1>2 DEF Ordered

LEMMA DropChainRows ==
  ASSUME NEW S, todo \in Seq(S), DropChain
  PROVE  \A i \in 1..Len(todo') : \E j \in 1..Len(todo) : todo'[i] = todo[j]
<1>1. PICK n \in 1..Len(todo) : todo' = SubSeq(todo, n + 1, Len(todo))
  BY DEF DropChain
<1> SUFFICES ASSUME NEW i \in 1..Len(todo') PROVE \E j \in 1..Len(todo) : todo'[i] = todo[j]
  OBVIOUS
<1>2. Len(todo) \in Nat /\ n \in Nat /\ n >= 1 /\ n <= Len(todo)
  OBVIOUS
<1>3. Len(todo') = Len(todo) - n
  BY <1>1, <1>2
<1>4. n + i \in 1..Len(todo) /\ todo'[i] = todo[n + i]
  BY <1>1, <1>2, <1>3
<1> QED
  BY <1>4

\* A record that leaves the list takes no other record's row with it.
LEMMA NextRecord ==
  ASSUME TypeOK, CursorInv, RecordsFound, pc \in {"records", "uploaded"}, todo # <<>>,
         todo' = Tail(todo),
         \A e \in Evidence \ {Head(todo)} : record'[e] = record[e]
  PROVE  RecordsFound'
<1>1. todo \in Seq(Evidence)
  BY DEF CursorInv
<1>2. /\ Head(todo) = todo[1] /\ 1 \in 1..Len(todo)
      /\ \A i \in 1..Len(todo') : i + 1 \in 1..Len(todo) /\ todo'[i] = todo[i + 1]
  BY <1>1, TailOf
<1>3. /\ \A i \in 1..Len(todo) : todo[i] \in Evidence /\ record[todo[i]] = "committed"
      /\ \A i, j \in 1..Len(todo) : todo[i] = todo[j] => i = j
  BY <1>1 DEF RecordsFound
<1>4. ASSUME NEW i \in 1..Len(todo') PROVE record'[todo'[i]] = "committed"
  <2>1. i + 1 \in 1..Len(todo) /\ i + 1 # 1
    BY <1>2
  <2>2. todo[i + 1] # Head(todo)
    BY <1>2, <1>3, <2>1
  <2> QED
    BY <1>2, <1>3, <2>1, <2>2
<1>5. ASSUME NEW i \in 1..Len(todo'), NEW j \in 1..Len(todo'), todo'[i] = todo'[j] PROVE i = j
  <2>1. i + 1 = j + 1
    BY <1>2, <1>3, <1>5
  <2> QED
    BY <2>1
<1> QED
  BY <1>4, <1>5 DEF RecordsFound

\* Elsewhere rows only become committed, and the list stands.
LEMMA SameRecords ==
  ASSUME TypeOK, CursorInv, RecordsFound,
         pc' \in {"records", "uploaded"} => pc \in {"records", "uploaded"} /\ todo' = todo,
         \A e \in Evidence : record'[e] # record[e] => record'[e] = "committed"
  PROVE  RecordsFound'
<1> SUFFICES ASSUME pc' \in {"records", "uploaded"} PROVE RecordsFound'
  BY DEF RecordsFound
<1>1. /\ pc \in {"records", "uploaded"} /\ todo' = todo
      /\ \A i \in 1..Len(todo) : todo[i] \in Evidence
  BY DEF CursorInv
<1> QED
  BY <1>1 DEF RecordsFound

LEMMA ListingFindsRecords ==
  ASSUME TypeOK, ListRecords
  PROVE  RecordsFound'
<1> DEFINE S == {e \in Evidence : record[e] = "committed"}
<1>1. IsFiniteSet(S)
  BY EvidenceAssumption, FS_Subset
<1>2. todo' \in Ordered(S, ByOrdinal) /\ record' = record
  BY DEF ListRecords, spoolVars, journalVars
<1>3. /\ \A i \in 1..Len(todo') : todo'[i] \in S
      /\ \A i, j \in 1..Len(todo') : i < j => <<todo'[i], todo'[j]>> \in ByOrdinal
  BY <1>1, <1>2, OrderedRows
<1>4. ASSUME NEW i \in 1..Len(todo'), NEW j \in 1..Len(todo'), i < j PROVE todo'[i] # todo'[j]
  <2>1. ordinal[todo'[i]] < ordinal[todo'[j]]
    BY <1>3, <1>4 DEF ByOrdinal
  <2>2. todo'[i] \in Objects /\ todo'[j] \in Objects
    BY <1>3, ObjectKinds
  <2>3. ordinal[todo'[i]] \in Nat /\ ordinal[todo'[j]] \in Nat
    BY <2>2 DEF TypeOK, SpoolTypeOK
  <2> QED
    BY <2>1, <2>3
<1>5. \A i, j \in 1..Len(todo') : i < j \/ j < i \/ i = j
  OBVIOUS
<1> QED
  BY <1>2, <1>3, <1>4, <1>5 DEF RecordsFound

LEMMA RecordsFoundStep ==
  ASSUME TypeOK, CursorInv, RecordsFound, [Next]_vars
  PROVE  RecordsFound'
<1> USE DEF At, Listed, GoTo
<1>1. CASE Work \/ LeaseExpires \/ Heartbeat \/ ControlFences \/ UNCHANGED vars
  <2>1. UNCHANGED <<pc, todo>>
    BY <1>1 DEF Work, LeaseExpires, Heartbeat, ControlFences, vars, cycleVars
  <2>2. \A e \in Evidence : record'[e] # record[e] => record'[e] = "committed"
    <3>1. CASE Work
      BY <3>1, ProducerFrame DEF Work, TypeOK
    <3>2. CASE ~Work
      BY <1>1, <3>2 DEF LeaseExpires, Heartbeat, ControlFences, vars, spoolVars, journalVars
    <3> QED
      BY <3>1, <3>2
  <2> QED
    BY <2>1, <2>2, SameRecords
<1>2. CASE ListRecords
  BY <1>2, ListingFindsRecords
<1>3. CASE RegisterRecord
  BY <1>3, SameRecords DEF RegisterRecord, spoolVars, journalVars
<1>4. CASE MarkUploaded \/ RejectRecord \/ DeferRecord \/ QuarantineRecord
  <2>1. pc \in {"records", "uploaded"} /\ todo # <<>> /\ todo' = Tail(todo)
    BY <1>4 DEF MarkUploaded, RejectRecord, DeferRecord, QuarantineRecord, CursorInv
  <2>2. \A e \in Evidence \ {Head(todo)} : record'[e] = record[e]
    BY <1>4, ObjectKinds
       DEF MarkUploaded, RejectRecord, DeferRecord, QuarantineRecord, MarkRecordUploaded,
           MarkRecordPermanent, Quarantine, SetRecord, journalVars, TypeOK, SpoolTypeOK
  <2> QED
    BY <2>1, <2>2, NextRecord
<1>5. CASE CompactEnvelopes \/ UnlinkEnvelopes
  BY <1>5 DEF CompactEnvelopes, UnlinkEnvelopes, RecordsFound
<1>6. CASE \/ ListCheckpoints \/ SkipCheckpoint \/ StopChain \/ DeliverCheckpoint \/ AcknowledgeCheckpoint
           \/ RejectCheckpoint \/ DeferCheckpoint \/ EndCheckpoints
  BY <1>6 DEF ListCheckpoints, SkipCheckpoint, StopChain, DeliverCheckpoint, AcknowledgeCheckpoint,
              RejectCheckpoint, DeferCheckpoint, EndCheckpoints, RecordsFound
<1>7. CASE Complete \/ AcknowledgeCompletion \/ CompletionRefused \/ DeferCompletion \/ DrainerCrash
  BY <1>7 DEF Complete, AcknowledgeCompletion, CompletionRefused, DeferCompletion, DrainerCrash,
              Restart, CycleEnds, RecordsFound
<1>8. CASE Recover \/ DeferAbandon
  BY <1>8 DEF Recover, DeferAbandon, NothingExpired, ReadHandoff, Acquire, ProducerAlive, LeaveSealed,
              RelinquishUnsealed, AlreadyRelinquished, OtherReason, Abandon, AbandonFails,
              AbandonRefused, AcknowledgeAbandon, ReleaseRecovery, Restart, CycleEnds, RecordsFound
<1> QED
  BY <1>1, <1>2, <1>3, <1>4, <1>5, <1>6, <1>7, <1>8 DEF Next, Deliver, CallsFail

\* Rows of checkpoints stay, whatever is left of the list.
LEMMA FewerCheckpoints ==
  ASSUME TypeOK, CursorInv, CheckpointsFound, pc \in {"checkpoints", "delivered"}, pc' # "delivered",
         \A i \in 1..Len(todo') : \E j \in 1..Len(todo) : todo'[i] = todo[j],
         \A c \in Checkpoints : delivery[c] # "absent" => delivery'[c] # "absent"
  PROVE  CheckpointsFound'
<1>1. todo \in Seq(Checkpoints)
  BY DEF CursorInv
<1>2. \A j \in 1..Len(todo) : todo[j] \in Checkpoints /\ delivery[todo[j]] # "absent"
  BY <1>1 DEF CheckpointsFound
<1> QED
  BY <1>2 DEF CheckpointsFound

LEMMA CheckpointsFoundStep ==
  ASSUME TypeOK, CursorInv, CheckpointsFound, [Next]_vars
  PROVE  CheckpointsFound'
<1> USE DEF At, Listed, GoTo
<1>0. pc \in {"checkpoints", "delivered"} /\ todo # <<>> =>
        /\ \A i \in 1..Len(Tail(todo)) : \E j \in 1..Len(todo) : Tail(todo)[i] = todo[j]
        /\ Head(todo) \in Checkpoints
  BY TailOf, ListedHead DEF CursorInv
<1>1. CASE Work \/ LeaseExpires \/ Heartbeat \/ ControlFences \/ UNCHANGED vars
  <2>1. UNCHANGED <<pc, todo>>
    BY <1>1 DEF Work, LeaseExpires, Heartbeat, ControlFences, vars, cycleVars
  <2>2. \A c \in Checkpoints : delivery'[c] # delivery[c] => delivery'[c] = "pending"
    <3>1. CASE Work
      BY <3>1, ProducerFrame DEF Work, TypeOK
    <3>2. CASE ~Work
      BY <1>1, <3>2 DEF LeaseExpires, Heartbeat, ControlFences, vars, spoolVars, chainVars
    <3> QED
      BY <3>1, <3>2
  <2>3. CASE pc = "delivered"
    <3>1. delivery'[Head(todo)] = "pending"
      BY <1>0, <2>2, <2>3 DEF CheckpointsFound, CursorInv
    <3>2. \A i \in 1..Len(todo) : todo[i] \in Checkpoints
      BY <2>3 DEF CursorInv
    <3> QED
      BY <2>1, <2>2, <2>3, <3>1, <3>2 DEF CheckpointsFound
  <2>4. CASE pc = "checkpoints"
    BY <2>1, <2>2, <2>4, FewerCheckpoints
  <2> QED
    BY <2>1, <2>3, <2>4 DEF CheckpointsFound
<1>2. CASE ListCheckpoints
  <2> DEFINE S == Registered(1) \cup Registered(2)
  <2>1. IsFiniteSet(S)
    BY RegisteredFinite
  <2>2. todo' \in Ordered(S, ByChain) /\ delivery' = delivery /\ pc' = "checkpoints"
    BY <1>2 DEF ListCheckpoints, spoolVars, chainVars
  <2>3. \A i \in 1..Len(todo') : todo'[i] \in S
    BY <2>1, <2>2, OrderedRows
  <2> QED
    BY <2>2, <2>3 DEF CheckpointsFound, Registered
<1>3. CASE SkipCheckpoint
  BY <1>0, <1>3, FewerCheckpoints DEF SkipCheckpoint, spoolVars, chainVars
<1>4. CASE StopChain
  BY <1>4, DropChainRows, FewerCheckpoints DEF StopChain, spoolVars, chainVars, CursorInv
<1>5. CASE DeliverCheckpoint
  BY <1>5 DEF DeliverCheckpoint, Deliverable, spoolVars, chainVars, CheckpointsFound
<1>6. ASSUME NEW s \in {"acknowledged", "permanent"}, MarkCheckpoint(Head(todo), s)
      PROVE  \A c \in Checkpoints : delivery[c] # "absent" => delivery'[c] # "absent"
  BY <1>6 DEF MarkCheckpoint, TypeOK, SpoolTypeOK
<1>7. CASE AcknowledgeCheckpoint
  BY <1>0, <1>6, <1>7, FewerCheckpoints DEF AcknowledgeCheckpoint, CursorInv
<1>8. CASE RejectCheckpoint
  BY <1>6, <1>8, DropChainRows, FewerCheckpoints DEF RejectCheckpoint, CursorInv
<1>9. CASE DeferCheckpoint
  BY <1>9, DropChainRows, FewerCheckpoints DEF DeferCheckpoint, chainVars, CursorInv
<1>10. CASE EndCheckpoints
  BY <1>10 DEF EndCheckpoints, CheckpointsFound
<1>11. CASE \/ ListRecords \/ RegisterRecord \/ MarkUploaded \/ RejectRecord \/ DeferRecord
            \/ QuarantineRecord \/ CompactEnvelopes \/ UnlinkEnvelopes
  BY <1>11 DEF ListRecords, RegisterRecord, MarkUploaded, RejectRecord, DeferRecord, QuarantineRecord,
               CompactEnvelopes, UnlinkEnvelopes, CheckpointsFound
<1>12. CASE Complete \/ AcknowledgeCompletion \/ CompletionRefused \/ DeferCompletion \/ DrainerCrash
  BY <1>12 DEF Complete, AcknowledgeCompletion, CompletionRefused, DeferCompletion, DrainerCrash,
               Restart, CycleEnds, CheckpointsFound
<1>13. CASE Recover \/ DeferAbandon
  BY <1>13 DEF Recover, DeferAbandon, NothingExpired, ReadHandoff, Acquire, ProducerAlive, LeaveSealed,
               RelinquishUnsealed, AlreadyRelinquished, OtherReason, Abandon, AbandonFails,
               AbandonRefused, AcknowledgeAbandon, ReleaseRecovery, Restart, CycleEnds, CheckpointsFound
<1> QED
  BY <1>1, <1>2, <1>3, <1>4, <1>5, <1>7, <1>8, <1>9, <1>10, <1>11, <1>12, <1>13
     DEF Next, Deliver, CallsFail

\* No producer takes or gives back the drainer's authority, nor removes the
\* handoff.
LEMMA ProducerKeepsAuthority ==
  ASSUME SpoolTypeOK, Producer
  PROVE  /\ holder = "drainer" <=> holder' = "drainer"
         /\ handoff # "none" => handoff' # "none"
<1>1. CASE Open
  <2>1. handoff' # "none"
    <3>1. ImportOrphans("active") /\ "active" \in Handoffs
      BY <1>1 DEF Open, Handoffs
    <3> QED
      BY <3>1, ImportRows
  <2>2. holder # "drainer" /\ holder' # "drainer"
    BY <1>1 DEF Open
  <2> QED
    BY <2>1, <2>2
<1>2. CASE ~Open
  <2>1. holder = "worker" /\ holder' \in {"worker", "none"}
    BY <1>2 DEF Producer, Crash, AppendRecord, AppendInterrupted, Checkpoint, CheckpointFails,
                CheckpointInterrupted, BeginSettlement, SealCommits, SealFails, SealInterrupted,
                Relinquish, Close, Producing, WriteSeal, Stops, tupleVars
  <2>2. handoff' \in {handoff, "settling", "sealed", "relinquished"}
    BY <1>2 DEF Producer, Crash, AppendRecord, AppendInterrupted, Checkpoint, CheckpointFails,
                CheckpointInterrupted, BeginSettlement, SealCommits, SealFails, SealInterrupted,
                Relinquish, Close, tupleVars
  <2> QED
    BY <2>1, <2>2
<1> QED
  BY <1>1, <1>2

LEMMA AuthorityStep ==
  ASSUME TypeOK, CursorInv, AuthorityHeld, [Next]_vars
  PROVE  AuthorityHeld'
<1> USE DEF At, Listed, GoTo, Recovering
<1>1. CASE Work \/ LeaseExpires \/ Heartbeat \/ ControlFences \/ UNCHANGED vars
  <2>1. pc' = pc
    BY <1>1 DEF Work, LeaseExpires, Heartbeat, ControlFences, vars, cycleVars
  <2>2. (holder = "drainer" <=> holder' = "drainer") /\ (handoff # "none" => handoff' # "none")
    <3>1. CASE Work
      BY <3>1, ProducerKeepsAuthority DEF Work, TypeOK
    <3>2. CASE ~Work
      BY <1>1, <3>2 DEF LeaseExpires, Heartbeat, ControlFences, vars, spoolVars, tupleVars
    <3> QED
      BY <3>1, <3>2
  <2> QED
    BY <2>1, <2>2 DEF AuthorityHeld
<1>2. CASE \/ ListRecords \/ RegisterRecord \/ MarkUploaded \/ RejectRecord \/ DeferRecord
           \/ QuarantineRecord \/ CompactEnvelopes \/ UnlinkEnvelopes
  <2>1. UNCHANGED <<holder, handoff>>
    BY <1>2 DEF ListRecords, RegisterRecord, MarkUploaded, RejectRecord, DeferRecord, QuarantineRecord,
                CompactEnvelopes, UnlinkEnvelopes, MarkRecordUploaded, MarkRecordPermanent, Quarantine,
                SetRecord, Compact, Unlink, spoolVars, tupleVars
  <2>2. pc \notin Recovering /\ pc' \in {"records", "uploaded", "unlink", "list", "expired"}
    BY <1>2 DEF ListRecords, RegisterRecord, MarkUploaded, RejectRecord, DeferRecord, QuarantineRecord,
                CompactEnvelopes, UnlinkEnvelopes
  <2> QED
    BY <2>1, <2>2 DEF AuthorityHeld
<1>3. CASE \/ ListCheckpoints \/ SkipCheckpoint \/ StopChain \/ DeliverCheckpoint \/ AcknowledgeCheckpoint
           \/ RejectCheckpoint \/ DeferCheckpoint \/ EndCheckpoints
  <2>1. UNCHANGED <<holder, handoff>>
    BY <1>3 DEF ListCheckpoints, SkipCheckpoint, StopChain, DeliverCheckpoint, AcknowledgeCheckpoint,
                RejectCheckpoint, DeferCheckpoint, EndCheckpoints, MarkCheckpoint, spoolVars, tupleVars
  <2>2. pc \notin Recovering /\ pc' \in {"checkpoints", "delivered", "completion", "expired"}
    BY <1>3 DEF ListCheckpoints, SkipCheckpoint, StopChain, DeliverCheckpoint, AcknowledgeCheckpoint,
                RejectCheckpoint, DeferCheckpoint, EndCheckpoints
  <2> QED
    BY <2>1, <2>2 DEF AuthorityHeld
<1>4. CASE Complete \/ AcknowledgeCompletion \/ DeferCompletion
  BY <1>4 DEF Complete, AcknowledgeCompletion, DeferCompletion, MarkCompletion, spoolVars, tupleVars,
              AuthorityHeld
<1>5. CASE CompletionRefused \/ DrainerCrash \/ OtherReason \/ AbandonRefused
  <2>1. pc' = "cycle" /\ holder' # "drainer"
    BY <1>5 DEF CompletionRefused, DrainerCrash, OtherReason, AbandonRefused, Restart, CycleEnds, Reopen
  <2> QED
    BY <2>1 DEF AuthorityHeld
<1>6. CASE LeaveSealed \/ AbandonFails \/ DeferAbandon \/ ReleaseRecovery
  BY <1>6 DEF LeaveSealed, AbandonFails, DeferAbandon, ReleaseRecovery, CycleEnds, Release, AuthorityHeld
<1>7. CASE NothingExpired \/ ReadHandoff \/ ProducerAlive \/ AlreadyRelinquished \/ Abandon
  BY <1>7 DEF NothingExpired, ReadHandoff, ProducerAlive, AlreadyRelinquished, Abandon, Recoverable,
              CycleEnds, spoolVars, tupleVars, AuthorityHeld
<1>8. CASE Acquire
  <2>1. ImportOrphans(handoff) /\ handoff \in Handoffs /\ handoff # "none"
    BY <1>8 DEF Acquire, AcquireRecovery, TypeOK, SpoolTypeOK, Handoffs
  <2>2. handoff' # "none"
    BY <2>1, ImportRows DEF TypeOK
  <2> QED
    BY <1>8, <2>2 DEF Acquire, AcquireRecovery, AuthorityHeld
<1>9. CASE RelinquishUnsealed \/ AcknowledgeAbandon
  BY <1>9 DEF RelinquishUnsealed, RelinquishExpired, AcknowledgeAbandon, MarkCompletion, tupleVars,
              AuthorityHeld
<1> QED
  BY <1>1, <1>2, <1>3, <1>4, <1>5, <1>6, <1>7, <1>8, <1>9 DEF Next, Deliver, Recover, CallsFail

\* Every mark finds its row and every release its lock: no interleaving with
\* the worker stops the drainer with SpoolUnavailable.
THEOREM DrainerFindsItsRows == Spec => []MarksLand
<1>1. Init => RowsFound
  BY DEF Init, SpoolInit, RowsFound, RecordsFound, CheckpointsFound, AuthorityHeld, Recovering
<1>2. TypeOK /\ CursorInv /\ RowsFound /\ [Next]_vars => RowsFound'
  BY RecordsFoundStep, CheckpointsFoundStep, AuthorityStep DEF RowsFound
<1>3. TypeOK /\ CursorInv /\ RowsFound => MarksLand
  <2>1. ASSUME TypeOK, CursorInv, RowsFound, pc = "uploaded" PROVE record[Head(todo)] = "committed"
    BY <2>1, TailOf DEF CursorInv, RowsFound, RecordsFound
  <2> QED
    BY <2>1 DEF MarksLand, RowsFound, CheckpointsFound, AuthorityHeld
<1> QED
  BY <1>1, <1>2, <1>3, CursorInit, CursorStep, PTL DEF Spec
=============================================================================
