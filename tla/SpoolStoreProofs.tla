--------------------------- MODULE SpoolStoreProofs ---------------------------
(* Safety of SpoolStore, proved for every finite set of records, every bound   *)
(* on checkpoints and faults, and every order in which orphans are imported.   *)
EXTENDS SpoolStore, FiniteSetTheorems, TLAPS

-----------------------------------------------------------------------------
(* Data: the objects of a tuple, and what an import does to their rows. *)

\* A tuple has finitely many objects, so an import numbers them.
LEMMA FinitelyManyObjects == IsFiniteSet(Objects)
<1>1. IsFiniteSet(1..MaxInterim)
  BY FS_Interval, BoundsAssumption
<1>2. IsFiniteSet(Directions)
  <2>1. Directions = {1} \cup {2}
    BY DEF Directions
  <2>2. IsFiniteSet({1}) /\ IsFiniteSet({2})
    BY FS_Singleton
  <2> QED
    BY <2>1, <2>2, FS_Union
<1>3. IsFiniteSet(Interim)
  BY <1>1, <1>2, FS_Product DEF Interim
<1>4. IsFiniteSet({Seal})
  BY FS_Singleton
<1> QED
  BY <1>3, <1>4, EvidenceAssumption, FS_Union DEF Objects

\* The seal, the evidence and the checkpoints are different objects.
LEMMA ObjectKinds ==
  /\ Evidence \subseteq Objects /\ Interim \subseteq Objects /\ Seal \in Objects
  /\ Seal \notin Evidence /\ Seal \notin Interim /\ Evidence \cap Checkpoints = {}
  /\ Interim \subseteq Checkpoints /\ Terminals \subseteq Checkpoints
<1>1. Interim \subseteq Nat \X Nat
  BY BoundsAssumption DEF Interim, Directions
<1>2. Terminals \subseteq Nat \X Nat
  BY DEF Terminals, Terminal, Directions
<1> QED
  BY <1>1, <1>2, SealAssumption, EvidenceAssumption DEF Objects, Checkpoints

Handoffs == {"none", "active", "settling", "sealed", "relinquished"}

\* What an import leaves: rows that have their type, every orphan but a
\* refused seal indexed, the file of a refused seal set aside, and every other
\* row as it was.
LEMMA ImportEffect ==
  ASSUME SpoolTypeOK, NEW h \in Handoffs, ImportOrphans(h)
  PROVE  /\ ordinal' \in [Objects -> Nat] /\ record' \in [Objects -> RecordStates]
         /\ sequence' \in Nat /\ \A o \in Objects : ordinal'[o] <= sequence'
         /\ \A o \in Objects : ordinal'[o] = 0 <=> record'[o] = "absent"
         /\ files' \subseteq files
         /\ files \ files' \subseteq {Seal} \cap Orphans
         /\ \A o \in Objects : record'[o] # record[o] => o \in Orphans \cap files'
         /\ \A o \in Objects : record[o] # "absent" =>
              record'[o] = record[o] /\ ordinal'[o] = ordinal[o]
         /\ \A o \in Orphans \ {Seal} : record'[o] = "committed"
         /\ delivery' \in [Checkpoints -> DeliveryStates]
         /\ handoff' = IF Seal \in Orphans /\ h \in {"active", "settling"} THEN "sealed" ELSE h
         /\ seal' \in {"none", "pending", "acknowledged"}
         /\ seal' # seal => seal' = "pending"
         /\ \A c \in Checkpoints : delivery'[c] # delivery[c] => delivery'[c] = "pending"
         /\ UNCHANGED <<compacted, previous, boundary>>
<1> DEFINE sealed   == Seal \in Orphans /\ h \in {"active", "settling"}
           imported == IF sealed THEN Orphans ELSE Orphans \ {Seal}
<1>1. PICK rank \in [imported -> 1..Cardinality(imported)] :
        /\ ordinal' = [o \in Objects |-> IF o \in imported THEN sequence + rank[o] ELSE ordinal[o]]
        /\ sequence' = sequence + Cardinality(imported)
        /\ record' = [o \in Objects |-> IF o \in imported THEN "committed" ELSE record[o]]
        /\ files' = files \ (Orphans \ imported)
        /\ delivery' = [c \in Checkpoints |->
                          IF c \in imported \/ (sealed /\ c \in Terminals)
                          THEN "pending" ELSE delivery[c]]
        /\ handoff' = IF sealed THEN "sealed" ELSE h
        /\ seal' = IF sealed THEN "pending" ELSE seal
        /\ UNCHANGED <<compacted, previous, boundary>>
  BY Zenon DEF ImportOrphans
<1>2. imported \subseteq Orphans /\ Orphans \subseteq Objects
  BY DEF Orphans, SpoolTypeOK
<1>3. Cardinality(imported) \in Nat
  BY <1>2, FinitelyManyObjects, FS_Subset, FS_CardinalityType
<1>4. \A o \in imported : rank[o] \in 1..Cardinality(imported)
  BY <1>1
<1>5. \A o \in imported : record[o] = "absent" /\ o \in files
  BY <1>2 DEF Orphans
<1>6. ordinal' \in [Objects -> Nat] /\ sequence' \in Nat /\ \A o \in Objects : ordinal'[o] <= sequence'
  <2> HIDE DEF imported
  <2> QED
    BY <1>1, <1>3, <1>4 DEF SpoolTypeOK
<1>7. \A o \in Objects : ordinal'[o] = 0 <=> record'[o] = "absent"
  <2> HIDE DEF imported
  <2> QED
    BY <1>1, <1>3, <1>4 DEF SpoolTypeOK
<1>8. record' \in [Objects -> RecordStates] /\ delivery' \in [Checkpoints -> DeliveryStates]
  <2> HIDE DEF imported, sealed
  <2> QED
    BY <1>1 DEF SpoolTypeOK, RecordStates, DeliveryStates
<1>9. /\ files' \subseteq files
      /\ files \ files' \subseteq {Seal} \cap Orphans
      /\ \A o \in Objects : record'[o] # record[o] => o \in Orphans \cap files'
      /\ \A o \in Objects : record[o] # "absent" =>
           record'[o] = record[o] /\ ordinal'[o] = ordinal[o]
      /\ \A o \in Orphans \ {Seal} : record'[o] = "committed"
  BY <1>1, <1>2, <1>5
<1>10. /\ seal' \in {"none", "pending", "acknowledged"}
       /\ seal' # seal => seal' = "pending"
       /\ \A c \in Checkpoints : delivery'[c] # delivery[c] => delivery'[c] = "pending"
  <2> HIDE DEF imported, sealed
  <2> QED
    BY <1>1 DEF SpoolTypeOK
<1> QED
  BY <1>1, <1>6, <1>7, <1>8, <1>9, <1>10

-----------------------------------------------------------------------------
(* Type correctness *)

\* Indexing and publishing keep the journal's types.
LEMMA IndexType ==
  ASSUME SpoolTypeOK, NEW o \in Objects, Index(o)
  PROVE  /\ files' \subseteq Objects /\ sequence' \in Nat
         /\ ordinal' \in [Objects -> Nat] /\ record' \in [Objects -> RecordStates]
         /\ \A p \in Objects : ordinal'[p] <= sequence'
         /\ \A p \in Objects : ordinal'[p] = 0 <=> record'[p] = "absent"
BY DEF SpoolTypeOK, Index, RecordStates

LEMMA PublishType ==
  ASSUME SpoolTypeOK, NEW o \in Objects, Publish(o)
  PROVE  /\ files' \subseteq Objects /\ sequence' \in Nat
         /\ ordinal' \in [Objects -> Nat] /\ record' \in [Objects -> RecordStates]
         /\ \A p \in Objects : ordinal'[p] <= sequence'
         /\ \A p \in Objects : ordinal'[p] = 0 <=> record'[p] = "absent"
BY DEF SpoolTypeOK, Publish

\* The body of a seal has its types.
LEMMA SealType ==
  ASSUME SpoolTypeOK, WriteSeal
  PROVE  boundary' \in Nat /\ previous' \in [Checkpoints -> Bodies]
<1>1. boundary' \in Nat
  BY ObjectKinds DEF SpoolTypeOK, WriteSeal
<1>2. \A c \in Terminals : c[1] \in Directions
  BY DEF Terminals, Terminal
<1> QED
  BY <1>1, <1>2 DEF SpoolTypeOK, WriteSeal, Bodies

\* Every step of a producer keeps the variables in their types.
LEMMA ProducerType == SpoolTypeOK /\ Producer => SpoolTypeOK'
<1> SUFFICES ASSUME SpoolTypeOK, Producer PROVE SpoolTypeOK'
  OBVIOUS
<1>1. CASE Open
  <2>1. "active" \in Handoffs
    BY DEF Handoffs
  <2>2. head' \in [Directions -> Checkpoints \cup {Root}]
    <3>1. CASE Continuous'
      <4>1. head' = [d \in Directions |-> Newest(Registered(d))']
        BY <1>1, <3>1 DEF Open
      <4>2. \A d \in Directions : Newest(Registered(d))' \in Checkpoints \cup {Root}
        BY DEF Newest, Latest, Registered
      <4> QED
        BY <4>1, <4>2
    <3>2. CASE ~Continuous'
      BY <1>1, <3>2 DEF Open, SpoolTypeOK
    <3> QED
      BY <3>1, <3>2
  <2>3. holder' \in {"none", "worker", "drainer"} /\ faults' = faults
    BY <1>1 DEF Open, SpoolTypeOK
  <2>4. ImportOrphans("active")
    BY <1>1 DEF Open
  <2> QED
    BY <2>1, <2>2, <2>3, <2>4, ImportEffect DEF SpoolTypeOK, Handoffs
<1>2. CASE Crash
  BY <1>2, BoundsAssumption DEF Crash, Stops, Fault, SpoolTypeOK, journalVars, sealVars
<1>3. ASSUME NEW e \in Evidence, AppendRecord(e) PROVE SpoolTypeOK'
  BY <1>3, IndexType, ObjectKinds DEF AppendRecord, SpoolTypeOK, tupleVars, chainVars, sealVars
<1>4. ASSUME NEW e \in Evidence, AppendInterrupted(e) PROVE SpoolTypeOK'
  BY <1>4, PublishType, ObjectKinds, BoundsAssumption
     DEF AppendInterrupted, Stops, Fault, SpoolTypeOK, sealVars
<1>5. ASSUME NEW c \in Interim PROVE Chain(c) => previous' \in [Checkpoints -> Bodies]
  BY ObjectKinds DEF Chain, SpoolTypeOK, Bodies, Interim
<1>6. ASSUME NEW c \in Interim, Checkpoint(c) PROVE SpoolTypeOK'
  <2>1. delivery' \in [Checkpoints -> DeliveryStates] /\ head' \in [Directions -> Checkpoints \cup {Root}]
    BY <1>6, ObjectKinds DEF Checkpoint, SpoolTypeOK, DeliveryStates
  <2> QED
    BY <1>5, <1>6, <2>1, IndexType, ObjectKinds DEF Checkpoint, SpoolTypeOK, tupleVars, sealVars
<1>7. ASSUME NEW c \in Interim, CheckpointFails(c) PROVE SpoolTypeOK'
  BY <1>5, <1>7, PublishType, ObjectKinds, BoundsAssumption
     DEF CheckpointFails, Fault, SpoolTypeOK, tupleVars, sealVars
<1>8. ASSUME NEW c \in Interim, CheckpointInterrupted(c) PROVE SpoolTypeOK'
  BY <1>5, <1>8, PublishType, ObjectKinds, BoundsAssumption
     DEF CheckpointInterrupted, Stops, Fault, SpoolTypeOK, sealVars
<1>9. CASE BeginSettlement
  BY <1>9 DEF BeginSettlement, SpoolTypeOK, journalVars, chainVars, sealVars
<1>10. CASE SealCommits
  <2>1. delivery' \in [Checkpoints -> DeliveryStates]
    BY <1>10 DEF SealCommits, Terminate, SpoolTypeOK, DeliveryStates
  <2> QED
    BY <1>10, <2>1, IndexType, SealType, ObjectKinds DEF SealCommits, SpoolTypeOK
<1>11. CASE SealFails
  BY <1>11, PublishType, SealType, ObjectKinds, BoundsAssumption DEF SealFails, Fault, SpoolTypeOK, tupleVars
<1>12. CASE SealInterrupted
  BY <1>12, PublishType, SealType, ObjectKinds, BoundsAssumption DEF SealInterrupted, Stops, Fault, SpoolTypeOK
<1>13. CASE Relinquish
  BY <1>13 DEF Relinquish, SpoolTypeOK, journalVars, chainVars, sealVars
<1>14. CASE Close
  BY <1>14 DEF Close, Stops, SpoolTypeOK, journalVars, sealVars
<1> QED
  BY <1>1, <1>2, <1>3, <1>4, <1>6, <1>7, <1>8, <1>9, <1>10, <1>11, <1>12, <1>13, <1>14 DEF Producer

\* What a drainer does to the rows keeps their types.
LEMMA DrainerType ==
  ASSUME SpoolTypeOK, Drainer, Fault \/ UNCHANGED faults
  PROVE  SpoolTypeOK'
<1>0. faults' \in 0..MaxFaults
  BY BoundsAssumption DEF Fault, SpoolTypeOK
<1>1. ASSUME NEW e \in Evidence, NEW state \in RecordStates \ {"absent"},
             record[e] = "committed", SetRecord(e, state)
      PROVE  SpoolTypeOK'
  BY <1>0, <1>1, ObjectKinds DEF SetRecord, SpoolTypeOK, tupleVars, chainVars, sealVars
<1>2. ASSUME NEW e \in Evidence, MarkRecordUploaded(e) \/ MarkRecordPermanent(e) \/ Quarantine(e)
      PROVE  SpoolTypeOK'
  BY <1>1, <1>2 DEF MarkRecordUploaded, MarkRecordPermanent, Quarantine, RecordStates
<1>3. ASSUME NEW c \in Checkpoints, NEW s \in {"acknowledged", "permanent"}, MarkCheckpoint(c, s)
      PROVE  SpoolTypeOK'
  BY <1>0, <1>3 DEF MarkCheckpoint, SpoolTypeOK, DeliveryStates, tupleVars, journalVars, sealVars
<1>4. CASE Compact
  BY <1>0, <1>4 DEF Compact, Compactable, SpoolTypeOK, tupleVars, chainVars, sealVars
<1>5. CASE Unlink
  BY <1>0, <1>5 DEF Unlink, SpoolTypeOK, tupleVars, chainVars, sealVars
<1>6. CASE MarkCompletion
  BY <1>0, <1>6 DEF MarkCompletion, SpoolTypeOK, tupleVars, journalVars, chainVars
<1>7. CASE AcquireRecovery
  <2>1. handoff \in Handoffs /\ ImportOrphans(handoff)
    BY <1>7 DEF AcquireRecovery, SpoolTypeOK, Handoffs
  <2>2. holder' = "drainer" /\ head' = head
    BY <1>7 DEF AcquireRecovery
  <2> QED
    BY <1>0, <2>1, <2>2, ImportEffect DEF SpoolTypeOK, Handoffs
<1>8. CASE RelinquishExpired
  BY <1>0, <1>8 DEF RelinquishExpired, SpoolTypeOK, journalVars, chainVars, sealVars
<1>9. CASE Release
  BY <1>0, <1>9 DEF Release, SpoolTypeOK, journalVars, chainVars, sealVars
<1>10. CASE Reopen
  BY <1>0, <1>10 DEF Reopen, SpoolTypeOK, chainVars, sealVars
<1> QED
  BY <1>2, <1>3, <1>4, <1>5, <1>6, <1>7, <1>8, <1>9, <1>10 DEF Drainer

LEMMA TypeStep == SpoolTypeOK /\ [SpoolNext]_spoolVars => SpoolTypeOK'
<1> SUFFICES ASSUME SpoolTypeOK, [SpoolNext]_spoolVars PROVE SpoolTypeOK'
  OBVIOUS
<1>1. CASE UNCHANGED spoolVars
  BY <1>1 DEF SpoolTypeOK, spoolVars, tupleVars, journalVars, chainVars, sealVars
<1>2. CASE Elsewhere
  BY <1>2, BoundsAssumption DEF Elsewhere, Fault, SpoolTypeOK, tupleVars, journalVars, chainVars, sealVars
<1> QED
  BY <1>1, <1>2, ProducerType, DrainerType DEF SpoolNext

\* A tuple without rows has its types.
LEMMA TypeInit == SpoolInit => SpoolTypeOK
BY BoundsAssumption
   DEF SpoolInit, SpoolTypeOK, RecordStates, DeliveryStates, Bodies

\* The tables, the files and the producer's memory hold what their schema
\* allows, whatever is appended, imported, refused or interrupted.
THEOREM SpoolTypeCorrect == SpoolSpec => []SpoolTypeOK
BY TypeInit, TypeStep, PTL DEF SpoolSpec

-----------------------------------------------------------------------------
(* The index and the files *)

LEMMA IndexedStep ==
  ASSUME SpoolTypeOK, IndexedHasFile, [SpoolNext]_spoolVars
  PROVE  IndexedHasFile'
<1> USE ObjectKinds DEF IndexedHasFile
<1>1. CASE UNCHANGED spoolVars
  BY <1>1 DEF spoolVars, journalVars
<1>2. CASE Elsewhere
  BY <1>2 DEF Elsewhere, journalVars
<1>3. ASSUME NEW o \in Objects, Index(o) \/ Publish(o), compacted' = compacted PROVE IndexedHasFile'
  BY <1>3 DEF Index, Publish, SpoolTypeOK
<1>4. ASSUME NEW h \in Handoffs, ImportOrphans(h) PROVE IndexedHasFile'
  <2> SUFFICES ASSUME NEW o \in Objects, record'[o] # "absent", o \notin compacted'
               PROVE  o \in files'
    OBVIOUS
  <2>1. compacted' = compacted
    BY <1>4, ImportEffect
  <2>2. CASE record'[o] # record[o]
    BY <1>4, <2>2, ImportEffect
  <2>3. CASE record'[o] = record[o]
    <3>1. o \in files /\ o \notin Orphans
      BY <2>1, <2>3 DEF Orphans
    <3> QED
      BY <1>4, <3>1, ImportEffect
  <2> QED
    BY <2>2, <2>3
<1>5. CASE Producer
  <2>1. CASE Open
    BY <1>4, <2>1 DEF Open, Handoffs
  <2>2. CASE \E e \in Evidence : AppendRecord(e) \/ AppendInterrupted(e)
    BY <1>3, <2>2 DEF AppendRecord, AppendInterrupted
  <2>3. CASE \E c \in Interim : Checkpoint(c) \/ CheckpointFails(c) \/ CheckpointInterrupted(c)
    BY <1>3, <2>3 DEF Checkpoint, CheckpointFails, CheckpointInterrupted
  <2>4. CASE SealCommits \/ SealFails \/ SealInterrupted
    BY <1>3, <2>4 DEF SealCommits, SealFails, SealInterrupted
  <2>5. CASE Crash \/ BeginSettlement \/ Relinquish \/ Close
    BY <2>5 DEF Crash, BeginSettlement, Relinquish, Close, journalVars
  <2> QED
    BY <1>5, <2>1, <2>2, <2>3, <2>4, <2>5 DEF Producer
<1>6. CASE Drainer
  <2>1. CASE \E e \in Evidence : MarkRecordUploaded(e) \/ MarkRecordPermanent(e) \/ Quarantine(e)
    BY <2>1 DEF MarkRecordUploaded, MarkRecordPermanent, Quarantine, SetRecord, SpoolTypeOK
  <2>2. CASE Compact \/ Unlink \/ Reopen
    BY <2>2 DEF Compact, Unlink, Reopen
  <2>3. CASE AcquireRecovery
    BY <1>4, <2>3 DEF AcquireRecovery, SpoolTypeOK, Handoffs
  <2>4. CASE \/ \E c \in Checkpoints, s \in {"acknowledged", "permanent"} : MarkCheckpoint(c, s)
             \/ MarkCompletion \/ RelinquishExpired \/ Release
    BY <2>4 DEF MarkCheckpoint, MarkCompletion, RelinquishExpired, Release, journalVars
  <2> QED
    BY <1>6, <2>1, <2>2, <2>3, <2>4 DEF Drainer
<1> QED
  BY <1>1, <1>2, <1>5, <1>6 DEF SpoolNext

\* No crash, rollback, import or compaction ever leaves a row without the
\* file it stands for.
THEOREM IndexedRowsHaveFiles == SpoolSpec => []IndexedHasFile
<1>1. SpoolInit => IndexedHasFile
  BY DEF SpoolInit, IndexedHasFile
<1>2. SpoolTypeOK /\ IndexedHasFile /\ [SpoolNext]_spoolVars => IndexedHasFile'
  BY IndexedStep
<1> QED
  BY <1>1, <1>2, SpoolTypeCorrect, PTL DEF SpoolSpec

-----------------------------------------------------------------------------
(* What a seal covers *)

\* While a producer holds the tuple its evidence is indexed, for it imported
\* what earlier producers left; before settlement no seal was ever written.
SealInv ==
  /\ SealCoversEvidence
  /\ holder = "worker" => Evidence \cap Orphans = {}
  /\ handoff \in {"none", "active"} => Seal \notin files

LEMMA SealProducerStep ==
  ASSUME SpoolTypeOK, SealInv, Producer
  PROVE  SealInv'
<1> USE ObjectKinds DEF SealInv
<1>1. CASE Open
  <2>1. ImportOrphans("active") /\ "active" \in Handoffs /\ Seal \notin Orphans
    BY <1>1 DEF Open, Handoffs, Orphans
  <2>2. handoff' = "active" /\ Seal \notin files'
    BY <1>1, <2>1, ImportEffect DEF Open
  <2>3. ASSUME NEW e \in Evidence PROVE e \notin Orphans'
    <3>1. CASE e \in Orphans
      BY <2>1, <3>1, ImportEffect DEF Orphans
    <3>2. CASE e \notin Orphans
      <4>1. e \in files' => record[e] # "absent"
        BY <2>1, <3>2, ImportEffect DEF Orphans
      <4>2. record[e] # "absent" => record'[e] # "absent"
        BY <2>1, ImportEffect
      <4> QED
        BY <4>1, <4>2 DEF Orphans
    <3> QED
      BY <3>1, <3>2
  <2> QED
    BY <2>2, <2>3 DEF SealCoversEvidence
<1>2. CASE Crash \/ Close
  BY <1>2 DEF Crash, Close, Stops, journalVars, sealVars, SealCoversEvidence
<1>3. ASSUME NEW e \in Evidence, AppendRecord(e) PROVE SealInv'
  <2>1. handoff' = handoff /\ handoff # "sealed" /\ holder = "worker"
    BY <1>3 DEF AppendRecord, Producing, tupleVars
  <2>2. Evidence \cap Orphans' = {}
    BY <1>3, <2>1 DEF AppendRecord, Index, Orphans, SpoolTypeOK
  <2> QED
    BY <1>3, <2>1, <2>2 DEF AppendRecord, Index, SealCoversEvidence
<1>4. ASSUME NEW o \in Evidence \cup Interim, Publish(o), handoff' = handoff, holder' = "none"
      PROVE  SealInv'
  BY <1>4 DEF Publish, SealCoversEvidence
<1>5. ASSUME NEW c \in Interim, Checkpoint(c) \/ CheckpointFails(c)
      PROVE  SealInv'
  <2>1. UNCHANGED <<handoff, holder>> /\ handoff # "sealed" /\ holder = "worker"
    BY <1>5 DEF Checkpoint, CheckpointFails, Producing, tupleVars
  <2>2. files' = files \cup {c} /\ \A e \in Evidence : record[e] # "absent" => record'[e] # "absent"
    BY <1>5 DEF Checkpoint, CheckpointFails, Index, Publish, SpoolTypeOK
  <2>3. ASSUME NEW e \in Evidence PROVE e \notin Orphans'
    BY <1>5, <2>1, <2>2 DEF Orphans
  <2> QED
    BY <2>1, <2>2, <2>3 DEF SealCoversEvidence
<1>6. CASE BeginSettlement \/ Relinquish
  BY <1>6 DEF BeginSettlement, Relinquish, Producing, journalVars, SealCoversEvidence, Orphans
<1>7. ASSUME WriteSeal, Index(Seal) \/ Publish(Seal), handoff' \in {"settling", "sealed"}
      PROVE  SealInv'
  <2>1. holder = "worker" /\ Evidence \cap Orphans = {}
    BY <1>7 DEF WriteSeal
  <2>2. \A e \in Evidence : record'[e] = record[e] /\ ordinal'[e] = ordinal[e]
    BY <1>7 DEF Index, Publish, SpoolTypeOK
  <2>3. files' = files \cup {Seal}
    BY <1>7 DEF Index, Publish
  <2>4. Evidence \cap Orphans' = {}
    BY <2>1, <2>2, <2>3 DEF Orphans
  <2> QED
    BY <1>7, <2>2, <2>4 DEF WriteSeal, SealCoversEvidence
<1>8. CASE SealCommits \/ SealFails \/ SealInterrupted
  <2>1. WriteSeal /\ (Index(Seal) \/ Publish(Seal))
    BY <1>8 DEF SealCommits, SealFails, SealInterrupted
  <2>2. handoff' \in {"settling", "sealed"}
    BY <1>8 DEF SealCommits, SealFails, SealInterrupted, WriteSeal, tupleVars
  <2> QED
    BY <1>7, <2>1, <2>2
<1>9. ASSUME NEW e \in Evidence, AppendInterrupted(e) PROVE SealInv'
  BY <1>4, <1>9 DEF AppendInterrupted, Stops
<1>10. ASSUME NEW c \in Interim, CheckpointInterrupted(c) PROVE SealInv'
  BY <1>4, <1>10 DEF CheckpointInterrupted, Stops
<1> QED
  BY <1>1, <1>2, <1>3, <1>5, <1>6, <1>8, <1>9, <1>10 DEF Producer

LEMMA SealDrainerStep ==
  ASSUME SpoolTypeOK, SealInv, Drainer
  PROVE  SealInv'
<1> USE ObjectKinds DEF SealInv
<1>1. CASE \E e \in Evidence : MarkRecordUploaded(e) \/ MarkRecordPermanent(e) \/ Quarantine(e)
  <2>1. PICK e \in Evidence, state \in {"uploaded", "permanent", "quarantined"} :
          record[e] = "committed" /\ SetRecord(e, state)
    BY <1>1 DEF MarkRecordUploaded, MarkRecordPermanent, Quarantine
  <2>2. \A f \in Evidence : record'[f] = "absent" <=> record[f] = "absent"
    BY <2>1 DEF SetRecord, SpoolTypeOK
  <2>3. UNCHANGED <<handoff, holder, files, ordinal, boundary>>
    BY <2>1 DEF SetRecord, tupleVars, sealVars
  <2> QED
    BY <2>2, <2>3 DEF SealCoversEvidence, Orphans
<1>2. CASE AcquireRecovery
  <2>1. ImportOrphans(handoff) /\ handoff \in Handoffs /\ holder' = "drainer"
    BY <1>2 DEF AcquireRecovery, SpoolTypeOK, Handoffs
  <2>2. handoff' \in {"none", "active"} => handoff' = handoff
    BY <2>1, ImportEffect
  <2>3. files' \subseteq files
    BY <2>1, ImportEffect
  <2> QED
    BY <2>1, <2>2, <2>3 DEF SealCoversEvidence
<1>3. CASE Compact \/ Unlink \/ Reopen
  BY <1>3 DEF Compact, Unlink, Reopen, tupleVars, sealVars, SealCoversEvidence, Orphans
<1>4. CASE \/ \E c \in Checkpoints, s \in {"acknowledged", "permanent"} : MarkCheckpoint(c, s)
           \/ MarkCompletion \/ RelinquishExpired \/ Release
  BY <1>4 DEF MarkCheckpoint, MarkCompletion, RelinquishExpired, Release, tupleVars, journalVars,
              sealVars, SealCoversEvidence, Orphans
<1> QED
  BY <1>1, <1>2, <1>3, <1>4 DEF Drainer

LEMMA SealStep == SpoolTypeOK /\ SealInv /\ [SpoolNext]_spoolVars => SealInv'
<1> SUFFICES ASSUME SpoolTypeOK, SealInv, [SpoolNext]_spoolVars PROVE SealInv'
  OBVIOUS
<1>1. CASE UNCHANGED spoolVars \/ Elsewhere
  BY <1>1 DEF spoolVars, Elsewhere, tupleVars, journalVars, sealVars, SealInv, SealCoversEvidence, Orphans
<1> QED
  BY <1>1, SealProducerStep, SealDrainerStep DEF SpoolNext

\* The seal a producer leaves covers all evidence of its tuple, that of the
\* producers before it included.
THEOREM SealsCoverEvidence == SpoolSpec => []SealCoversEvidence
<1>1. SpoolInit => SealInv
  BY DEF SpoolInit, SealInv, SealCoversEvidence, Orphans
<1>2. SealInv => SealCoversEvidence
  BY DEF SealInv
<1> QED
  BY <1>1, <1>2, SpoolTypeCorrect, SealStep, PTL DEF SpoolSpec
-----------------------------------------------------------------------------
(* What has been decided of a row *)

\* Whatever is imported after a crash, an outcome stays: no row of a record or
\* of a delivery comes back to be delivered again, none is lost, and none
\* changes its place in the order (_store.py 1342-1392, 1606-1653, 1885-2075).
OutcomesStay ==
  /\ \A o \in Objects : record[o] # "absent" =>
       /\ record'[o] # "absent" /\ ordinal'[o] = ordinal[o]
       /\ record[o] # "committed" => record'[o] = record[o]
  /\ \A c \in Checkpoints : delivery[c] # "absent" =>
       /\ delivery'[c] # "absent"
       /\ delivery[c] # "pending" => delivery'[c] = delivery[c]
  /\ seal # "none" => seal' # "none"
  /\ seal = "acknowledged" => seal' = "acknowledged"

\* A checkpoint's delivery has the row of its record, a terminal's and the
\* seal's that of the seal, and a body that was never written has no file.
RowsFit ==
  /\ \A c \in Interim : previous[c] = Unwritten => c \notin files /\ record[c] = "absent"
  /\ \A c \in Interim : delivery[c] = "absent" <=> record[c] = "absent"
  /\ \A c \in Terminals : delivery[c] = "absent" <=> record[Seal] = "absent"
  /\ seal = "none" <=> record[Seal] = "absent"
  /\ record[Seal] # "absent" => handoff \in {"sealed", "relinquished"}

\* A terminal has no file of its own.
LEMMA TerminalsApart == Terminals \cap Objects = {}
<1>1. \A c \in Terminals : c \in Nat \X Nat /\ c[2] = 0
  BY DEF Terminals, Terminal, Directions
<1>2. \A c \in Interim : c[2] # 0
  BY DEF Interim
<1> QED
  BY <1>1, <1>2, EvidenceAssumption, SealAssumption DEF Objects

\* What an import does to deliveries and to the seal.
LEMMA ImportRows ==
  ASSUME SpoolTypeOK, NEW h \in Handoffs, ImportOrphans(h)
  PROVE  LET sealed == Seal \in Orphans /\ h \in {"active", "settling"} IN
         /\ \A c \in Interim : delivery'[c] = IF c \in Orphans THEN "pending" ELSE delivery[c]
         /\ \A c \in Interim : c \notin Orphans => record'[c] = record[c]
         /\ \A c \in Terminals : delivery'[c] = IF sealed THEN "pending" ELSE delivery[c]
         /\ record'[Seal] = IF sealed THEN "committed" ELSE record[Seal]
         /\ seal' = IF sealed THEN "pending" ELSE seal
         /\ handoff' = IF sealed THEN "sealed" ELSE h
<1> DEFINE sealed   == Seal \in Orphans /\ h \in {"active", "settling"}
           imported == IF sealed THEN Orphans ELSE Orphans \ {Seal}
<1>1. /\ record' = [o \in Objects |-> IF o \in imported THEN "committed" ELSE record[o]]
      /\ delivery' = [c \in Checkpoints |->
                        IF c \in imported \/ (sealed /\ c \in Terminals)
                        THEN "pending" ELSE delivery[c]]
      /\ handoff' = IF sealed THEN "sealed" ELSE h
      /\ seal' = IF sealed THEN "pending" ELSE seal
  BY Zenon DEF ImportOrphans
<1>2. \A c \in Interim : c \in Objects /\ c \in Checkpoints /\ c \notin Terminals /\ c # Seal
  BY ObjectKinds, TerminalsApart
<1>3. \A c \in Terminals : c \in Checkpoints /\ c \notin Orphans
  BY ObjectKinds, TerminalsApart DEF Orphans, SpoolTypeOK
<1>4. \A c \in Interim : c \in imported <=> c \in Orphans
  BY <1>2
<1>5. \A c \in Terminals : c \notin imported
  BY <1>3
<1>6. Seal \in imported <=> sealed
  OBVIOUS
<1> HIDE DEF imported, sealed
<1>7. \A c \in Interim : /\ delivery'[c] = IF c \in Orphans THEN "pending" ELSE delivery[c]
                         /\ c \notin Orphans => record'[c] = record[c]
  BY <1>1, <1>2, <1>4
<1>8. \A c \in Terminals : delivery'[c] = IF sealed THEN "pending" ELSE delivery[c]
  BY <1>1, <1>3, <1>5
<1>9. record'[Seal] = IF sealed THEN "committed" ELSE record[Seal]
  BY <1>1, <1>6, ObjectKinds
<1> QED
  BY <1>1, <1>7, <1>8, <1>9 DEF sealed

LEMMA ImportKeepsRows ==
  ASSUME SpoolTypeOK, RowsFit, NEW h \in Handoffs, ImportOrphans(h),
         record[Seal] # "absent" => h \in {"sealed", "relinquished"}
  PROVE  RowsFit' /\ OutcomesStay
<1> USE ObjectKinds
<1>1. \A o \in Objects : record[o] # "absent" => record'[o] = record[o] /\ ordinal'[o] = ordinal[o]
  BY ImportEffect
<1>2. \A o \in Orphans : record[o] = "absent" /\ o \in files
  BY DEF Orphans
<1>3. ASSUME NEW c \in Interim
      PROVE  /\ previous'[c] = Unwritten => c \notin files' /\ record'[c] = "absent"
             /\ delivery'[c] = "absent" <=> record'[c] = "absent"
             /\ delivery[c] # "absent" => delivery'[c] = delivery[c]
  <2>1. CASE c \in Orphans
    <3>1. delivery'[c] = "pending" /\ record'[c] = "committed"
      BY <2>1, ImportEffect, ImportRows
    <3>2. previous[c] # Unwritten /\ previous' = previous
      BY <1>2, <2>1, ImportEffect DEF RowsFit
    <3>3. delivery[c] = "absent"
      BY <1>2, <2>1 DEF RowsFit
    <3> QED
      BY <3>1, <3>2, <3>3
  <2>2. CASE c \notin Orphans
    <3>1. delivery'[c] = delivery[c] /\ record'[c] = record[c]
      BY <2>2, ImportRows
    <3>2. previous' = previous /\ files' \subseteq files
      BY ImportEffect
    <3> QED
      BY <3>1, <3>2 DEF RowsFit
  <2> QED
    BY <2>1, <2>2
<1>4. CASE Seal \in Orphans /\ h \in {"active", "settling"}
  <2>1. /\ \A c \in Terminals : delivery'[c] = "pending"
        /\ record'[Seal] = "committed" /\ seal' = "pending" /\ handoff' = "sealed"
    BY <1>4, ImportRows
  <2>2. record[Seal] = "absent"
    BY <1>2, <1>4
  <2>3. seal = "none" /\ \A c \in Terminals : delivery[c] = "absent"
    BY <2>2 DEF RowsFit
  <2> QED
    BY <1>1, <1>3, <2>1, <2>3 DEF RowsFit, OutcomesStay, Checkpoints
<1>5. CASE ~(Seal \in Orphans /\ h \in {"active", "settling"})
  <2>1. /\ \A c \in Terminals : delivery'[c] = delivery[c]
        /\ record'[Seal] = record[Seal] /\ seal' = seal /\ handoff' = h
    BY <1>5, ImportRows
  <2> QED
    BY <1>1, <1>3, <2>1 DEF RowsFit, OutcomesStay, Checkpoints
<1> QED
  BY <1>4, <1>5

LEMMA ProducerKeepsRows ==
  ASSUME SpoolTypeOK, RowsFit, Producer
  PROVE  RowsFit' /\ OutcomesStay
<1> USE ObjectKinds
<1>1. CASE Open
  <2>1. ImportOrphans("active") /\ "active" \in Handoffs /\ handoff \in {"none", "active"}
    BY <1>1 DEF Open, Handoffs
  <2>2. record[Seal] = "absent"
    BY <2>1 DEF RowsFit
  <2> QED
    BY <2>1, <2>2, ImportKeepsRows
<1>2. CASE Crash \/ Close
  BY <1>2 DEF Crash, Close, journalVars, sealVars, RowsFit, OutcomesStay
<1>3. CASE BeginSettlement \/ Relinquish
  BY <1>3 DEF BeginSettlement, Relinquish, Producing, journalVars, chainVars, sealVars, RowsFit, OutcomesStay
<1>4. ASSUME NEW e \in Evidence, AppendRecord(e) \/ AppendInterrupted(e)
      PROVE  RowsFit' /\ OutcomesStay
  <2>1. UNCHANGED <<handoff, delivery, previous, seal>> /\ record[e] = "absent"
    BY <1>4 DEF AppendRecord, AppendInterrupted, tupleVars, chainVars, sealVars
  <2>2. /\ files' = files \cup {e}
        /\ \A o \in Objects \ {e} : record'[o] = record[o] /\ ordinal'[o] = ordinal[o]
    BY <1>4 DEF AppendRecord, AppendInterrupted, Index, Publish, SpoolTypeOK
  <2>3. \A c \in Interim : c \in Objects \ {e} /\ (c \in files' <=> c \in files)
    BY <2>2
  <2>4. Seal \in Objects \ {e}
    OBVIOUS
  <2>5. RowsFit'
    BY <2>1, <2>2, <2>3, <2>4 DEF RowsFit
  <2>6. OutcomesStay
    BY <2>1, <2>2 DEF OutcomesStay
  <2> QED
    BY <2>5, <2>6
<1>5. ASSUME NEW c \in Interim, Checkpoint(c) \/ CheckpointFails(c) \/ CheckpointInterrupted(c)
      PROVE  RowsFit' /\ OutcomesStay
  <2>1. UNCHANGED <<handoff, seal>> /\ previous[c] = Unwritten /\ previous' = [previous EXCEPT ![c] = head[c[1]]]
    BY <1>5 DEF Checkpoint, CheckpointFails, CheckpointInterrupted, Fresh, Chain, tupleVars, sealVars
  <2>2. record[c] = "absent" /\ delivery[c] = "absent"
    BY <2>1 DEF RowsFit
  <2>3. previous'[c] # Unwritten
    <3>1. c[1] \in Directions
      BY DEF Interim
    <3>2. head[c[1]] \in Checkpoints \cup {Root} /\ Checkpoints \subseteq Nat \X Nat
      BY <3>1, BoundsAssumption DEF SpoolTypeOK, Checkpoints, Interim, Terminals, Terminal, Directions
    <3>3. head[c[1]] # Unwritten
      BY <3>2, BodiesAssumption
    <3> QED
      BY <2>1, <3>3 DEF SpoolTypeOK
  <2>4. /\ files' = files \cup {c}
        /\ \A o \in Objects \ {c} : record'[o] = record[o] /\ ordinal'[o] = ordinal[o]
        /\ \A b \in Checkpoints \ {c} : delivery'[b] = delivery[b] /\ previous'[b] = previous[b]
    BY <1>5, <2>1 DEF Checkpoint, CheckpointFails, CheckpointInterrupted, Index, Publish, SpoolTypeOK
  <2>5. delivery'[c] = "absent" <=> record'[c] = "absent"
    <3>1. CASE Checkpoint(c)
      BY <3>1 DEF Checkpoint, Index, SpoolTypeOK
    <3>2. CASE CheckpointFails(c) \/ CheckpointInterrupted(c)
      BY <2>2, <3>2 DEF CheckpointFails, CheckpointInterrupted, Publish
    <3> QED
      BY <1>5, <3>1, <3>2
  <2>6. c \notin Terminals /\ c # Seal
    BY TerminalsApart
  <2>7. RowsFit'
    BY <2>1, <2>3, <2>4, <2>5, <2>6 DEF RowsFit
  <2>8. OutcomesStay
    BY <2>1, <2>2, <2>4 DEF OutcomesStay
  <2> QED
    BY <2>7, <2>8
<1>6. CASE SealCommits \/ SealFails \/ SealInterrupted
  <2>1. WriteSeal /\ handoff = "settling"
    BY <1>6 DEF SealCommits, SealFails, SealInterrupted, WriteSeal
  <2>2. record[Seal] = "absent" /\ seal = "none" /\ \A c \in Terminals : delivery[c] = "absent"
    BY <2>1 DEF RowsFit
  <2>3. /\ files' = files \cup {Seal}
        /\ \A o \in Objects \ {Seal} : record'[o] = record[o] /\ ordinal'[o] = ordinal[o]
        /\ \A c \in Interim : delivery'[c] = delivery[c] /\ previous'[c] = previous[c]
    <3>1. \A c \in Interim : c \in Checkpoints /\ c \notin Terminals
      BY TerminalsApart
    <3> QED
      BY <1>6, <2>1, <3>1
         DEF SealCommits, SealFails, SealInterrupted, WriteSeal, Index, Publish, Terminate, SpoolTypeOK
  <2>4. \A c \in Interim : c \in Objects \ {Seal} /\ (c \in files' <=> c \in files)
    BY <2>3
  <2>5. CASE SealCommits
    <3>1. /\ record'[Seal] = "committed" /\ seal' = "pending" /\ handoff' = "sealed"
          /\ \A c \in Terminals : delivery'[c] = "pending"
      BY <2>5 DEF SealCommits, Index, Terminate, SpoolTypeOK
    <3> QED
      BY <2>2, <2>3, <2>4, <3>1 DEF RowsFit, OutcomesStay, Checkpoints
  <2>6. CASE SealFails \/ SealInterrupted
    <3>1. UNCHANGED <<record, ordinal, seal, handoff, delivery>>
      BY <2>6 DEF SealFails, SealInterrupted, Publish, tupleVars
    <3> QED
      BY <2>2, <2>3, <2>4, <3>1 DEF RowsFit, OutcomesStay
  <2> QED
    BY <1>6, <2>5, <2>6
<1> QED
  BY <1>1, <1>2, <1>3, <1>4, <1>5, <1>6 DEF Producer

LEMMA DrainerKeepsRows ==
  ASSUME SpoolTypeOK, RowsFit, Drainer
  PROVE  RowsFit' /\ OutcomesStay
<1> USE ObjectKinds
<1>1. ASSUME NEW e \in Evidence, MarkRecordUploaded(e) \/ MarkRecordPermanent(e) \/ Quarantine(e)
      PROVE  RowsFit' /\ OutcomesStay
  <2>1. UNCHANGED <<handoff, files, ordinal, delivery, previous, seal>> /\ record[e] = "committed"
    BY <1>1 DEF MarkRecordUploaded, MarkRecordPermanent, Quarantine, SetRecord, tupleVars, chainVars, sealVars
  <2>2. \A o \in Objects \ {e} : record'[o] = record[o]
    BY <1>1 DEF MarkRecordUploaded, MarkRecordPermanent, Quarantine, SetRecord, SpoolTypeOK
  <2>3. record'[e] # "absent"
    BY <1>1 DEF MarkRecordUploaded, MarkRecordPermanent, Quarantine, SetRecord, SpoolTypeOK
  <2>4. Seal \in Objects \ {e} /\ \A c \in Interim : c \in Objects \ {e}
    OBVIOUS
  <2>5. RowsFit'
    BY <2>1, <2>2, <2>4 DEF RowsFit
  <2>6. OutcomesStay
    BY <2>1, <2>2, <2>3 DEF OutcomesStay
  <2> QED
    BY <2>5, <2>6
<1>2. ASSUME NEW c \in Checkpoints, NEW s \in {"acknowledged", "permanent"}, MarkCheckpoint(c, s)
      PROVE  RowsFit' /\ OutcomesStay
  <2>1. /\ UNCHANGED <<handoff, files, record, ordinal, previous, seal>> /\ delivery[c] = "pending"
        /\ delivery' = [delivery EXCEPT ![c] = s]
    BY <1>2 DEF MarkCheckpoint, tupleVars, journalVars, sealVars
  <2>2. \A b \in Checkpoints : delivery'[b] = IF b = c THEN s ELSE delivery[b]
    BY <2>1 DEF SpoolTypeOK
  <2>3. \A b \in Checkpoints : delivery'[b] = "absent" <=> delivery[b] = "absent"
    BY <2>1, <2>2
  <2> QED
    BY <2>1, <2>2, <2>3 DEF RowsFit, OutcomesStay
<1>3. CASE AcquireRecovery
  <2>1. ImportOrphans(handoff) /\ handoff \in Handoffs
    BY <1>3 DEF AcquireRecovery, SpoolTypeOK, Handoffs
  <2> QED
    BY <2>1, ImportKeepsRows DEF RowsFit
<1>4. CASE MarkCompletion
  BY <1>4 DEF MarkCompletion, tupleVars, journalVars, chainVars, RowsFit, OutcomesStay
<1>5. CASE Compact \/ Unlink \/ Reopen
  BY <1>5 DEF Compact, Unlink, Reopen, tupleVars, chainVars, sealVars, RowsFit, OutcomesStay
<1>6. CASE RelinquishExpired \/ Release
  BY <1>6 DEF RelinquishExpired, Release, journalVars, chainVars, sealVars, RowsFit, OutcomesStay
<1> QED
  BY <1>1, <1>2, <1>3, <1>4, <1>5, <1>6 DEF Drainer

LEMMA RowsStep == SpoolTypeOK /\ RowsFit /\ [SpoolNext]_spoolVars => RowsFit' /\ OutcomesStay
<1> SUFFICES ASSUME SpoolTypeOK, RowsFit, [SpoolNext]_spoolVars PROVE RowsFit' /\ OutcomesStay
  OBVIOUS
<1>1. CASE UNCHANGED spoolVars \/ Elsewhere
  BY <1>1 DEF spoolVars, Elsewhere, tupleVars, journalVars, chainVars, sealVars, RowsFit, OutcomesStay
<1> QED
  BY <1>1, ProducerKeepsRows, DrainerKeepsRows DEF SpoolNext

\* What was delivered, refused or quarantined stays so, and every row keeps its
\* place: an import never brings a row back, although it makes every row it
\* writes one to be delivered.
THEOREM OutcomesAreFinal == SpoolSpec => [][OutcomesStay]_spoolVars
<1>1. SpoolInit => RowsFit
  BY ObjectKinds DEF SpoolInit, RowsFit
<1> QED
  BY <1>1, SpoolTypeCorrect, RowsStep, PTL DEF SpoolSpec
=============================================================================
