------------------------------ MODULE SpoolStore ------------------------------
(***************************************************************************)
(* The encrypted spool of one worker tuple (packages/spool-store): files   *)
(* published by rename, a SQLite journal that indexes them, the exclusive  *)
(* authority over the tuple, and the seal that ends its evidence.          *)
(*                                                                         *)
(* Every operation runs under the store's file lock, so it is one step,    *)
(* except where the process can stop inside it: between the rename of the  *)
(* file and the statement or transaction that indexes it.                  *)
(***************************************************************************)
EXTENDS Integers, FiniteSets

CONSTANTS
  Evidence,     \* raw records of the tuple, PCM frames left out
  Replayable,   \* records of a terminal stage, which are never compacted
  Seal,         \* the checkpoint-seal record
  Root,         \* previous_hash IS NULL
  Unwritten,    \* a checkpoint whose body has never been written
  MaxInterim,   \* bound on interim checkpoints per direction
  MaxFaults     \* bound on crashes, failed writes and failed calls

ASSUME ReplayableAssumption == Replayable \subseteq Evidence
ASSUME EvidenceAssumption == IsFiniteSet(Evidence) /\ Evidence \cap (Nat \X Nat) = {}
ASSUME SealAssumption == Seal \notin Evidence \cup (Nat \X Nat)
ASSUME BodiesAssumption == Root # Unwritten /\ {Root, Unwritten} \cap (Nat \X Nat) = {}
ASSUME BoundsAssumption == MaxInterim \in Nat /\ MaxFaults \in Nat

\* A consultation is interpreted in exactly two directions.
Directions  == {1, 2}
Terminal(d) == <<d, 0>>
Terminals   == {Terminal(d) : d \in Directions}
Interim     == Directions \X (1..MaxInterim)
Checkpoints == Interim \cup Terminals

\* What has a .wal file and a row of records: the seal carries both terminals.
Objects == Evidence \cup Interim \cup {Seal}

VARIABLES
  handoff,    \* consultation_handoffs.state, "none" without a row
  holder,     \* who holds the tuple's authority lock
  files,      \* objects whose .wal file is in the spool root
  ordinal,    \* records.ordinal, 0 without a row
  record,     \* records.state, "absent" without a row
  sequence,   \* the last ordinal SQLite assigned
  compacted,  \* compacted_envelopes
  delivery,   \* checkpoint_deliveries.delivery_state, "absent" without a row
  previous,   \* the previous hash in the body of a checkpoint
  head,       \* CheckpointChainState.hashes of the running producer
  boundary,   \* evidenceOrdinal in the body of the seal
  seal,       \* consultation_seals.completion_state, "none" without a row
  faults      \* faults that have happened

tupleVars == <<handoff, holder>>
journalVars == <<files, ordinal, sequence, record, compacted>>
chainVars == <<delivery, previous, head>>
sealVars == <<boundary, seal>>
spoolVars == <<tupleVars, journalVars, chainVars, sealVars, faults>>

RecordStates == {"absent", "committed", "uploaded", "permanent", "quarantined"}
DeliveryStates == {"absent", "pending", "acknowledged", "permanent"}
Bodies == Checkpoints \cup {Root, Unwritten}

\* Rows hold the states the schema's CHECKs allow, ordinals are assigned to
\* the objects that have a row, and faults stay within their bound.
SpoolTypeOK ==
  /\ handoff \in {"none", "active", "settling", "sealed", "relinquished"}
  /\ holder \in {"none", "worker", "drainer"}
  /\ files \subseteq Objects
  /\ ordinal \in [Objects -> Nat]
  /\ record \in [Objects -> RecordStates]
  /\ sequence \in Nat
  /\ \A o \in Objects : ordinal[o] <= sequence
  /\ \A o \in Objects : ordinal[o] = 0 <=> record[o] = "absent"
  /\ compacted \subseteq Evidence
  /\ delivery \in [Checkpoints -> DeliveryStates]
  /\ previous \in [Checkpoints -> Bodies]
  /\ head \in [Directions -> Checkpoints \cup {Root}]
  /\ boundary \in Nat
  /\ seal \in {"none", "pending", "acknowledged"}
  /\ faults \in 0..MaxFaults

SpoolInit ==
  /\ handoff = "none"
  /\ holder = "none"
  /\ files = {}
  /\ ordinal = [o \in Objects |-> 0]
  /\ sequence = 0
  /\ record = [o \in Objects |-> "absent"]
  /\ compacted = {}
  /\ delivery = [c \in Checkpoints |-> "absent"]
  /\ previous = [c \in Checkpoints |-> Unwritten]
  /\ head = [d \in Directions |-> Root]
  /\ boundary = 0
  /\ seal = "none"
  /\ faults = 0

Fault == faults < MaxFaults /\ faults' = faults + 1

\* The envelope of o is published and its row inserted.
Index(o) ==
  /\ files' = files \cup {o}
  /\ sequence' = sequence + 1
  /\ ordinal' = [ordinal EXCEPT ![o] = sequence + 1]
  /\ record' = [record EXCEPT ![o] = "committed"]

\* Mutants: an ordinal without its row; the row before its envelope.
PublishNumbered(o) ==
  /\ files' = files \cup {o}
  /\ sequence' = sequence + 1
  /\ ordinal' = [ordinal EXCEPT ![o] = sequence + 1]
  /\ UNCHANGED record

PublishRowFirst(o) ==
  /\ sequence' = sequence + 1
  /\ ordinal' = [ordinal EXCEPT ![o] = sequence + 1]
  /\ record' = [record EXCEPT ![o] = "committed"]
  /\ UNCHANGED files

\* The envelope of o is published and its row is not there.
Publish(o) ==
  /\ files' = files \cup {o}
  /\ UNCHANGED <<ordinal, sequence, record>>

-----------------------------------------------------------------------------
(* Orphans: published files without a row, imported by the next authority. *)

Orphans == {o \in files : record[o] = "absent"}

\* Mutant: an opening producer leaves the orphans where they are.
ImportNothing(h) ==
  /\ handoff' = h
  /\ UNCHANGED <<journalVars, delivery, previous, sealVars>>

\* Directory listings have no order, so neither has the import.  A checkpoint
\* is registered whatever the handoff says; a seal only while the handoff h
\* is open, and its file is set aside otherwise.
ImportOrphans(h) ==
  LET sealed   == Seal \in Orphans /\ h \in {"active", "settling"}
      imported == IF sealed THEN Orphans ELSE Orphans \ {Seal}
  IN \E rank \in [imported -> 1..Cardinality(imported)] :
       /\ \A o, p \in imported : rank[o] = rank[p] => o = p
       /\ ordinal' = [o \in Objects |-> IF o \in imported THEN sequence + rank[o] ELSE ordinal[o]]
       /\ sequence' = sequence + Cardinality(imported)
       /\ record' = [o \in Objects |-> IF o \in imported THEN "committed" ELSE record[o]]
       /\ files' = files \ (Orphans \ imported)
       /\ delivery' = [c \in Checkpoints |->
                         IF c \in imported \/ (sealed /\ c \in Terminals)
                         THEN "pending" ELSE delivery[c]]
       /\ handoff' = IF sealed THEN "sealed" ELSE h
       /\ seal' = IF sealed THEN "pending" ELSE seal
       /\ UNCHANGED <<compacted, previous, boundary>>

\* Rows of checkpoint_deliveries of a direction in ordinal order: the position
\* of a terminal is that of the seal.
Place(c) == IF c \in Terminals THEN ordinal[Seal] ELSE ordinal[c]
Registered(d) == {c \in Checkpoints : c[1] = d /\ delivery[c] # "absent"}
Before(c) == {b \in Registered(c[1]) : Place(b) < Place(c)}
Latest(S) == {c \in S : \A b \in S : Place(b) <= Place(c)}
Newest(S) == IF Latest(S) = {} THEN Root ELSE CHOOSE c \in Latest(S) : TRUE
Continuous == \A d \in Directions : \A c \in Registered(d) : previous[c] = Newest(Before(c))

-----------------------------------------------------------------------------
(* The producer: a worker job that holds the tuple's authority. *)

\* The authority is taken, orphans are imported, and the chains are restored;
\* a chain with a gap ends the job and gives the authority back.
Open ==
  /\ holder = "none"
  /\ handoff \in {"none", "active"}
  /\ ImportOrphans("active")
  /\ IF Continuous'
       THEN /\ holder' = "worker"
            /\ head' = [d \in Directions |-> Newest(Registered(d))']
       ELSE UNCHANGED <<holder, head>>
  /\ UNCHANGED faults

Producing == holder = "worker" /\ handoff \in {"active", "settling"}

\* The process is gone; what it held in memory and its lock go with it.
Stops == holder' = "none" /\ head' = [d \in Directions |-> Root]

Crash ==
  /\ holder = "worker"
  /\ Stops
  /\ Fault
  /\ UNCHANGED <<handoff, journalVars, delivery, previous, sealVars>>

AppendRecord(e) ==
  /\ Producing
  /\ record[e] = "absent"
  /\ Index(e)
  /\ UNCHANGED <<tupleVars, compacted, chainVars, sealVars, faults>>

AppendInterrupted(e) ==
  /\ Producing
  /\ record[e] = "absent"
  /\ Publish(e)
  /\ Stops
  /\ Fault
  /\ UNCHANGED <<handoff, compacted, delivery, previous, sealVars>>

\* Checkpoint ids are fresh; the bound's ids are used in order.
Fresh(c) == /\ previous[c] = Unwritten
            /\ \A b \in Interim : b[1] = c[1] /\ b[2] < c[2] => previous[b] # Unwritten

Chain(c) == previous' = [previous EXCEPT ![c] = head[c[1]]]

Checkpoint(c) ==
  /\ Producing
  /\ Fresh(c)
  /\ Chain(c)
  /\ Index(c)
  /\ delivery' = [delivery EXCEPT ![c] = "pending"]
  /\ head' = [head EXCEPT ![c[1]] = c]
  /\ UNCHANGED <<tupleVars, compacted, sealVars, faults>>

\* The transaction rolls back and the file of the checkpoint stays.
CheckpointFails(c) ==
  /\ Producing
  /\ Fresh(c)
  /\ Chain(c)
  /\ Publish(c)
  /\ Fault
  /\ UNCHANGED <<tupleVars, compacted, delivery, head, sealVars>>

CheckpointInterrupted(c) ==
  /\ Producing
  /\ Fresh(c)
  /\ Chain(c)
  /\ Publish(c)
  /\ Stops
  /\ Fault
  /\ UNCHANGED <<handoff, compacted, delivery, sealVars>>

BeginSettlement ==
  /\ holder = "worker"
  /\ handoff = "active"
  /\ handoff' = "settling"
  /\ UNCHANGED <<holder, journalVars, chainVars, sealVars, faults>>

\* The body of the seal: the newest evidence it covers and the terminals it
\* chains.
WriteSeal ==
  /\ holder = "worker"
  /\ handoff = "settling"
  /\ boundary' \in {0} \cup {ordinal[e] : e \in Evidence}
  /\ \A e \in Evidence : ordinal[e] <= boundary'
  /\ previous' = [c \in Checkpoints |-> IF c \in Terminals THEN head[c[1]] ELSE previous[c]]

Terminate == delivery' = [c \in Checkpoints |-> IF c \in Terminals THEN "pending" ELSE delivery[c]]

SealCommits ==
  /\ WriteSeal
  /\ Index(Seal)
  /\ Terminate
  /\ seal' = "pending"
  /\ handoff' = "sealed"
  /\ UNCHANGED <<holder, compacted, head, faults>>

\* The transaction rolls back; the job tries again until its deadline.
SealFails ==
  /\ WriteSeal
  /\ Publish(Seal)
  /\ Fault
  /\ UNCHANGED <<tupleVars, compacted, delivery, head, seal>>

SealInterrupted ==
  /\ WriteSeal
  /\ Publish(Seal)
  /\ Stops
  /\ Fault
  /\ UNCHANGED <<handoff, compacted, delivery, seal>>

\* Initialization failed, sealing failed or its deadline passed.
Relinquish ==
  /\ Producing
  /\ handoff' = "relinquished"
  /\ UNCHANGED <<holder, journalVars, chainVars, sealVars, faults>>

Close ==
  /\ holder = "worker"
  /\ handoff \in {"sealed", "relinquished"}
  /\ Stops
  /\ UNCHANGED <<handoff, journalVars, delivery, previous, sealVars, faults>>

Producer ==
  \/ Open
  \/ Crash
  \/ \E e \in Evidence : AppendRecord(e) \/ AppendInterrupted(e)
  \/ \E c \in Interim : Checkpoint(c) \/ CheckpointFails(c) \/ CheckpointInterrupted(c)
  \/ BeginSettlement
  \/ SealCommits
  \/ SealFails
  \/ SealInterrupted
  \/ Relinquish
  \/ Close

-----------------------------------------------------------------------------
(* What a drainer may do with the rows; SpoolDelivery says when it does. *)

SetRecord(e, state) ==
  /\ record' = [record EXCEPT ![e] = state]
  /\ UNCHANGED <<tupleVars, files, ordinal, sequence, compacted, chainVars, sealVars>>

MarkRecordUploaded(e) == record[e] = "committed" /\ SetRecord(e, "uploaded")
MarkRecordPermanent(e) == record[e] = "committed" /\ SetRecord(e, "permanent")

\* A read finds a missing, foreign or damaged envelope.
Quarantine(e) == record[e] = "committed" /\ SetRecord(e, "quarantined")

MarkCheckpoint(c, state) ==
  /\ delivery[c] = "pending"
  /\ delivery' = [delivery EXCEPT ![c] = state]
  /\ UNCHANGED <<tupleVars, journalVars, previous, head, sealVars>>

\* Mutant: the records of terminal stages are compacted like the others.
CompactableAll == {e \in Evidence \ compacted : record[e] = "uploaded"}

\* The rows are committed before the files are unlinked; a store that opens
\* in between unlinks what is left.
Compactable == {e \in Evidence \ (Replayable \cup compacted) : record[e] = "uploaded"}

Compact ==
  /\ compacted' = compacted \cup Compactable
  /\ UNCHANGED <<tupleVars, files, ordinal, sequence, record, chainVars, sealVars>>

Unlink ==
  /\ files' = files \ compacted
  /\ UNCHANGED <<tupleVars, ordinal, sequence, record, compacted, chainVars, sealVars>>

MarkCompletion ==
  /\ seal' = IF seal = "pending" THEN "acknowledged" ELSE seal
  /\ UNCHANGED <<tupleVars, journalVars, chainVars, boundary>>

AcquireRecovery ==
  /\ holder = "none"
  /\ handoff # "none"
  /\ holder' = "drainer"
  /\ ImportOrphans(handoff)
  /\ UNCHANGED head

RelinquishExpired ==
  /\ holder = "drainer"
  /\ handoff \in {"active", "settling", "sealed"}
  /\ handoff' = "relinquished"
  /\ UNCHANGED <<holder, journalVars, chainVars, sealVars>>

Release ==
  /\ holder = "drainer"
  /\ holder' = "none"
  /\ UNCHANGED <<handoff, journalVars, chainVars, sealVars>>

\* A drainer that starts again has lost its lock, and its store unlinks what
\* compaction left behind.
Reopen ==
  /\ files' = files \ compacted
  /\ holder' = IF holder = "drainer" THEN "none" ELSE holder
  /\ UNCHANGED <<handoff, ordinal, sequence, record, compacted, chainVars, sealVars>>

Drainer ==
  \/ \E e \in Evidence : MarkRecordUploaded(e) \/ MarkRecordPermanent(e) \/ Quarantine(e)
  \/ \E c \in Checkpoints, s \in {"acknowledged", "permanent"} : MarkCheckpoint(c, s)
  \/ Compact
  \/ Unlink
  \/ MarkCompletion
  \/ AcquireRecovery
  \/ RelinquishExpired
  \/ Release
  \/ Reopen

\* A failed call or a crash elsewhere may leave the spool as it was.
Elsewhere == Fault /\ UNCHANGED <<tupleVars, journalVars, chainVars, sealVars>>

SpoolNext == Producer \/ (Drainer /\ (Fault \/ UNCHANGED faults)) \/ Elsewhere
SpoolSpec == SpoolInit /\ [][SpoolNext]_spoolVars

-----------------------------------------------------------------------------
(* Properties. *)

\* When a producer has sealed its consultation, the seal covers every piece of
\* evidence any producer of the tuple ever published: none is indexed behind
\* the boundary, none waits in the spool root to be imported after it.  A seal
\* a recovery imports may be older than the newest evidence (_store.py
\* 1052-1064, 1885-1942).
SealCoversEvidence ==
  holder = "worker" /\ handoff = "sealed" =>
    \A e \in Evidence : (record[e] # "absent" => ordinal[e] <= boundary) /\ e \notin Orphans

\* An indexed record that is not compacted has its file: the store refuses to
\* open otherwise (_store.py 2077-2090), whatever failed or was interrupted.
IndexedHasFile ==
  \A o \in Objects : record[o] # "absent" /\ o \notin compacted => o \in files
=============================================================================
