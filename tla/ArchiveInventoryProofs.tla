----------------------- MODULE ArchiveInventoryProofs -----------------------
(* Safety of ArchiveInventory, proved for any reconcilers, captures, evidence *)
(* and any number of faults.                                                  *)
EXTENDS ArchiveInventory, TLAPS

-----------------------------------------------------------------------------
(* The inductive invariant *)

Looking == {"discover", "decide", "vtt", "final", "complete"}
Knowing == Looking \ {"discover"}
Decided == {"vtt", "final", "complete"}

\* What a reconciler has read is still so, or has only grown since.
SnapshotHolds(r) ==
  task[r].pc \in Looking =>
    /\ task[r].snap.registered \subseteq registered
    /\ archive = "reconciling" => task[r].snap.registered = registered
    /\ task[r].snap.ended \subseteq ended
    /\ task[r].snap.room => roomClosed
ListingHolds(r) ==
  task[r].pc \in Knowing =>
    /\ task[r].found \subseteq stored
    /\ task[r].snap.registered \ task[r].invalid \subseteq stored
DecisionHolds(r) ==
  task[r].pc \in Decided => ContentOf(task[r]).missing = {} \/ due
PutHolds(r) == task[r].pc = "complete" => final = ContentOf(task[r])

\* What completes an inventory.
Proven(objects) ==
  /\ roomClosed /\ ended = Captures /\ ProviderGaps = {}
  /\ Captures \cup Required \subseteq objects
  /\ objects \subseteq stored
FinalIsHonest ==
  final # Nothing => IF final.missing = {} THEN Proven(final.objects) ELSE due

Recorded ==
  IF archive = "reconciling" THEN inventory = Nothing
  ELSE inventory # Nothing /\ archive = Status(inventory)

\* The reconcilers and the archive, apart from their types.
Works ==
  /\ \A r \in Reconcilers :
       SnapshotHolds(r) /\ ListingHolds(r) /\ DecisionHolds(r) /\ PutHolds(r)
  /\ FinalIsHonest /\ Recorded /\ InventoryIsStored /\ InventoryCoversRows

IInv == TypeOK /\ Works

-----------------------------------------------------------------------------
(* Inventories *)

\* What a reconciler would write is an inventory, and never the absence of one.
LEMMA ContentType ==
  ASSUME NEW t \in Tasks
  PROVE ContentOf(t) \in Inventories /\ ContentOf(t) # Nothing
<1>1. t.snap \in Snapshots /\ t.found \in SUBSET Objects /\ t.invalid \in SUBSET Objects
  BY DEF Tasks
<1> DEFINE objects == t.snap.registered \cup t.found
<1>2. objects \in SUBSET Objects
  BY <1>1 DEF Snapshots
<1>3. Missing(t.snap, objects, t.invalid) \in SUBSET Gap
  <2>1. t.snap.ended \subseteq Captures /\ Required \subseteq Objects /\ Captures \subseteq Objects
    BY <1>1, EvidenceAssumption DEF Snapshots, Objects
  <2> QED BY <1>1, <1>2, <2>1 DEF Missing, Gap
<1>4. ContentOf(t) \in Inventories
  BY <1>1, <1>2, <1>3 DEF ContentOf, Content, Inventories, Snapshots
<1>5. ContentOf(t) # Nothing
  <2>1. "objects" \in DOMAIN ContentOf(t)
    BY DEF ContentOf, Content
  <2>2. "objects" \notin DOMAIN Nothing
    BY DEF Nothing
  <2> QED BY <2>1, <2>2
<1> QED BY <1>4, <1>5

\* An inventory without gaps: everything it asks for was seen.
LEMMA NothingMissing ==
  ASSUME NEW t \in Tasks, ContentOf(t).missing = {}
  PROVE /\ t.snap.room /\ Captures \subseteq t.snap.ended /\ ProviderGaps = {}
        /\ Captures \cup Required \subseteq ContentOf(t).objects
        /\ t.invalid = {}
<1> DEFINE objects == t.snap.registered \cup t.found
           m == Missing(t.snap, objects, t.invalid)
<1>1. m = {} /\ ContentOf(t).objects = objects
  BY DEF ContentOf, Content
<1>2. Captures \subseteq objects
  <2> SUFFICES ASSUME NEW c \in Captures, c \notin objects PROVE FALSE
    OBVIOUS
  <2>1. [kind |-> "expectation", of |-> c] \in m
    BY DEF Missing
  <2> QED BY <1>1, <2>1
<1>3. Required \subseteq objects /\ t.invalid = {}
  <2> SUFFICES ASSUME NEW o \in (Required \ objects) \cup t.invalid PROVE FALSE
    OBVIOUS
  <2>1. [kind |-> "object", of |-> o] \in m
    BY DEF Missing
  <2> QED BY <1>1, <2>1
<1>4. Captures \subseteq t.snap.ended
  <2> SUFFICES ASSUME NEW c \in Captures \ t.snap.ended PROVE FALSE
    OBVIOUS
  <2>1. [kind |-> "egress_terminal", of |-> c] \in m
    BY DEF Missing
  <2> QED BY <1>1, <2>1
<1>5. ProviderGaps = {}
  <2> SUFFICES ASSUME NEW g \in ProviderGaps PROVE FALSE
    OBVIOUS
  <2>1. [kind |-> "provider_terminal", of |-> g] \in m
    BY DEF Missing
  <2> QED BY <1>1, <2>1
<1>6. t.snap.room
  <2> SUFFICES ASSUME ~t.snap.room PROVE FALSE
    OBVIOUS
  <2>1. [kind |-> "room_close", of |-> "room"] \in m
    BY DEF Missing
  <2> QED BY <1>1, <2>1
<1> QED BY <1>1, <1>2, <1>3, <1>4, <1>5, <1>6

-----------------------------------------------------------------------------
(* Types *)

\* A released row is a row, and an idle reconciler a task.
LEMMA RowTypes ==
  /\ \A s \in {"planned", "calling", "done"} : Released(s) \in Rows
  /\ \A r \in Reconcilers : [state |-> "calling", owner |-> r, live |-> TRUE] \in Rows
  /\ \A e \in Rows : [e EXCEPT !.live = FALSE] \in Rows
  /\ Idle \in Tasks
BY DEF Released, Rows, Idle, Tasks, Steps, Snapshots, NoSnapshot

\* Failing an attempt touches the lease and the reconciler alone.
LEMMA FailType ==
  ASSUME NEW r \in Reconcilers, TypeOK, FailStep(r)
  PROVE effect' \in Rows /\ task' \in [Reconcilers -> Tasks]
BY RowTypes DEF TypeOK, FailStep

\* The variables start with their types: a reconciling archive whose room may
\* already have been closed.
LEMMA InitTypes == Init => TypeOK
<1> SUFFICES ASSUME Init PROVE TypeOK
  OBVIOUS
<1>1. effect \in Rows /\ task \in [Reconcilers -> Tasks]
  BY RowTypes DEF Init
<1>2. registered \in SUBSET Objects /\ stored \in SUBSET Objects
  BY DEF Init, Objects
<1>3. faults \in 0..MaxFaults
  BY FaultsAssumption DEF Init
<1>4. /\ archive \in {"reconciling", "complete", "incomplete"} /\ due \in BOOLEAN
      /\ roomClosed \in BOOLEAN /\ ended \in SUBSET Captures /\ vtt \in SUBSET Captions
      /\ final \in Inventories \cup {Nothing} /\ inventory \in Inventories \cup {Nothing}
  BY DEF Init
<1> QED BY <1>1, <1>2, <1>3, <1>4 DEF TypeOK

\* No step of a reconciler, of the egresses or of the deadline breaks a type.
LEMMA NextTypes == TypeOK /\ [Next]_vars => TypeOK'
<1> SUFFICES ASSUME TypeOK, [Next]_vars PROVE TypeOK'
  OBVIOUS
<1> USE DEF TypeOK
<1>1. ASSUME NEW r \in Reconcilers, Claim(r) PROVE TypeOK'
  BY <1>1, RowTypes DEF Claim, GoTo, Tasks, Steps, bucketVars
<1>2. ASSUME NEW r \in Reconcilers, TakeSnapshot(r) PROVE TypeOK'
  <2>1. effect' \in Rows
    BY <1>2, RowTypes DEF TakeSnapshot
  <2>2. [registered |-> registered, ended |-> ended, room |-> roomClosed] \in Snapshots
    BY DEF Snapshots
  <2>3. task' \in [Reconcilers -> Tasks]
    <3>1. CASE task' = [task EXCEPT ![r] = Idle]
      BY <3>1, RowTypes
    <3>2. CASE task' = [task EXCEPT ![r].pc = "discover",
                 ![r].snap = [registered |-> registered, ended |-> ended, room |-> roomClosed]]
      <4> DEFINE s == [registered |-> registered, ended |-> ended, room |-> roomClosed]
                 t == [task[r] EXCEPT !.pc = "discover", !.snap = s]
      <4>1. t \in Tasks
        BY <2>2 DEF Tasks, Steps
      <4>2. task' = [task EXCEPT ![r] = t]
        BY <3>2
      <4> QED BY <4>1, <4>2
    <3> QED BY <1>2, <3>1, <3>2 DEF TakeSnapshot
  <2> QED BY <1>2, <2>1, <2>3 DEF TakeSnapshot, bucketVars
<1>3. ASSUME NEW r \in Reconcilers, Discover(r) PROVE TypeOK'
  <2>1. task' \in [Reconcilers -> Tasks]
    <3> DEFINE f == stored \ task[r].snap.registered
               i == task[r].snap.registered \ stored
               t == [task[r] EXCEPT !.pc = "decide", !.found = f, !.invalid = i]
    <3>1. f \in SUBSET Objects /\ i \in SUBSET Objects
      BY DEF Tasks, Snapshots
    <3>2. t \in Tasks
      BY <3>1 DEF Tasks, Steps
    <3>3. task' = [task EXCEPT ![r] = t]
      BY <1>3 DEF Discover
    <3> QED BY <3>2, <3>3
  <2> QED BY <1>3, <2>1 DEF Discover, rowVars, bucketVars
<1>4. ASSUME NEW r \in Reconcilers, Decide(r) PROVE TypeOK'
  <2>1. CASE GoTo(r, "vtt") /\ UNCHANGED effect
    BY <1>4, <2>1 DEF Decide, GoTo, Tasks, Steps, bucketVars
  <2>2. CASE FailStep(r)
    BY <1>4, <2>2, FailType DEF Decide, bucketVars
  <2> QED BY <1>4, <2>1, <2>2 DEF Decide
<1>5. ASSUME NEW r \in Reconcilers, PutVtt(r) PROVE TypeOK'
  <2>1. CASE GoTo(r, "final") /\ UNCHANGED effect
    <3>1. ContentOf(task[r]).vtt \in SUBSET Captions
      BY DEF ContentOf, Content
    <3>2. vtt' \in SUBSET Captions
      BY <1>5, <3>1 DEF PutVtt
    <3> QED BY <1>5, <2>1, <3>2 DEF PutVtt, GoTo, Tasks, Steps
  <2>2. CASE FailStep(r) /\ UNCHANGED vtt
    BY <1>5, <2>2, FailType DEF PutVtt
  <2> QED BY <1>5, <2>1, <2>2 DEF PutVtt
<1>6. ASSUME NEW r \in Reconcilers, PutFinal(r) PROVE TypeOK'
  <2>1. CASE final' = ContentOf(task[r]) /\ GoTo(r, "complete") /\ UNCHANGED effect
    BY <1>6, <2>1, ContentType DEF PutFinal, GoTo, Tasks, Steps
  <2>2. CASE FailStep(r) /\ UNCHANGED final
    BY <1>6, <2>2, FailType DEF PutFinal
  <2> QED BY <1>6, <2>1, <2>2 DEF PutFinal
<1>7. ASSUME NEW r \in Reconcilers, Complete(r) PROVE TypeOK'
  <2>1. ContentOf(task[r]) \in Inventories
    BY ContentType
  <2>2. CASE /\ registered' = registered \cup ContentOf(task[r]).objects
             /\ inventory' = ContentOf(task[r])
             /\ archive' = Status(ContentOf(task[r]))
             /\ effect' = Released("done")
             /\ task' = [task EXCEPT ![r] = Idle]
    BY <1>7, <2>1, <2>2, RowTypes DEF Complete, Status, Inventories, bucketVars
  <2>3. CASE FailStep(r) /\ UNCHANGED <<registered, inventory, archive>>
    BY <1>7, <2>3, FailType DEF Complete, bucketVars
  <2> QED BY <1>7, <2>2, <2>3 DEF Complete
<1>8. ASSUME NEW r \in Reconcilers, CallFails(r) PROVE TypeOK'
  BY <1>8, FailType, FaultsAssumption DEF CallFails, Fault, bucketVars
<1>9. ASSUME NEW r \in Reconcilers, Crash(r) PROVE TypeOK'
  <2>1. effect' \in Rows /\ task' \in [Reconcilers -> Tasks]
    BY <1>9, RowTypes DEF Crash
  <2> QED BY <1>9, <2>1, FaultsAssumption DEF Crash, Fault, bucketVars
<1>10. ASSUME NEW c \in Captures, Upload(c) \/ EndEgress(c) PROVE TypeOK'
  BY <1>10 DEF Upload, EndEgress, rowVars, bucketVars, Objects
<1>11. ASSUME NEW o \in Evidence, LateObject(o) PROVE TypeOK'
  BY <1>11 DEF LateObject, rowVars, Objects
<1>12. CASE RoomDeleteDone \/ Deadline
  BY <1>12 DEF RoomDeleteDone, Deadline, bucketVars
<1>13. CASE LeaseExpires
  BY <1>13, RowTypes, FaultsAssumption DEF LeaseExpires, Fault, bucketVars
<1>14. CASE UNCHANGED vars
  BY <1>14 DEF vars, rowVars, bucketVars
<1> QED BY <1>1, <1>2, <1>3, <1>4, <1>5, <1>6, <1>7, <1>8, <1>9, <1>10, <1>11, <1>12, <1>13, <1>14 DEF Next, Step

-----------------------------------------------------------------------------
(* The invariant is inductive *)

Settled == <<archive, due, roomClosed, ended, registered, inventory, bucketVars>>

\* A reconciler that gives up leaves what is known of the others and the archive.
LEMMA ForgetKeeps ==
  ASSUME NEW r \in Reconcilers, IInv, task' = [task EXCEPT ![r] = Idle], UNCHANGED Settled
  PROVE Works'
<1>1. ASSUME NEW q \in Reconcilers
      PROVE (SnapshotHolds(q) /\ ListingHolds(q) /\ DecisionHolds(q) /\ PutHolds(q))'
  <2>1. CASE q = r
    <3>1. task'[q].pc = "idle"
      BY <2>1 DEF IInv, TypeOK, Idle
    <3> QED BY <3>1 DEF SnapshotHolds, ListingHolds, DecisionHolds, PutHolds, Looking, Knowing, Decided
  <2>2. CASE q # r
    <3>1. task'[q] = task[q]
      BY <2>2 DEF IInv, TypeOK
    <3> QED BY <3>1 DEF IInv, Works, Settled, bucketVars, SnapshotHolds, ListingHolds,
                        DecisionHolds, PutHolds, ContentOf
  <2> QED BY <2>1, <2>2
<1>2. (FinalIsHonest /\ Recorded /\ InventoryIsStored /\ InventoryCoversRows)'
  BY DEF IInv, Works, Settled, bucketVars, FinalIsHonest, Proven, Recorded, InventoryIsStored,
         InventoryCoversRows
<1> QED BY <1>1, <1>2 DEF Works

\* So does one that goes on, if what it knows now is so.
LEMMA AdvanceKeeps ==
  ASSUME NEW r \in Reconcilers, IInv, NEW t, task' = [task EXCEPT ![r] = t], UNCHANGED Settled,
         (SnapshotHolds(r) /\ ListingHolds(r) /\ DecisionHolds(r) /\ PutHolds(r))'
  PROVE Works'
<1>1. ASSUME NEW q \in Reconcilers, q # r
      PROVE (SnapshotHolds(q) /\ ListingHolds(q) /\ DecisionHolds(q) /\ PutHolds(q))'
  <2>1. task'[q] = task[q]
    BY <1>1 DEF IInv, TypeOK
  <2> QED BY <2>1 DEF IInv, Works, Settled, bucketVars, SnapshotHolds, ListingHolds,
                      DecisionHolds, PutHolds, ContentOf
<1>2. (FinalIsHonest /\ Recorded /\ InventoryIsStored /\ InventoryCoversRows)'
  BY DEF IInv, Works, Settled, bucketVars, FinalIsHonest, Proven, Recorded, InventoryIsStored,
         InventoryCoversRows
<1> QED BY <1>1, <1>2 DEF Works

\* The world only adds: recordings, their ends, late objects, the room's end,
\* the deadline.
LEMMA WorldKeeps ==
  ASSUME IInv, UNCHANGED <<archive, registered, inventory, vtt, final, task>>,
         ended \subseteq ended', ended' \subseteq Captures, stored \subseteq stored',
         due => due', roomClosed => roomClosed'
  PROVE Works'
<1>1. ASSUME NEW q \in Reconcilers
      PROVE (SnapshotHolds(q) /\ ListingHolds(q) /\ DecisionHolds(q) /\ PutHolds(q))'
  <2>1. SnapshotHolds(q) /\ ListingHolds(q) /\ DecisionHolds(q) /\ PutHolds(q)
    BY DEF IInv, Works
  <2>2. ContentOf(task'[q]) = ContentOf(task[q]) /\ task'[q] = task[q]
    OBVIOUS
  <2>3. SnapshotHolds(q)' /\ ListingHolds(q)'
    BY <2>1 DEF SnapshotHolds, ListingHolds
  <2>4. DecisionHolds(q)' /\ PutHolds(q)'
    BY <2>1, <2>2 DEF DecisionHolds, PutHolds
  <2> QED BY <2>3, <2>4
<1>2. FinalIsHonest'
  <2>1. FinalIsHonest
    BY DEF IInv, Works
  <2>2. \A objects : Proven(objects) => Proven(objects)'
    BY DEF Proven
  <2> QED BY <2>1, <2>2 DEF FinalIsHonest
<1>3. (Recorded /\ InventoryIsStored /\ InventoryCoversRows)'
  BY DEF IInv, Works, Recorded, InventoryIsStored, InventoryCoversRows
<1> QED BY <1>1, <1>2, <1>3 DEF Works

\* At the start no reconciler knows anything, and nothing is recorded.
LEMMA InitWorks == Init => Works
BY DEF Init, Works, SnapshotHolds, ListingHolds, DecisionHolds, PutHolds, FinalIsHonest, Recorded,
       InventoryIsStored, InventoryCoversRows, Idle, Looking, Knowing, Decided

\* What a reconciler knows from its snapshot, its listing and its upload stays
\* true while the world goes on, and what it records is what it knows.
LEMMA NextWorks == IInv /\ [Next]_vars => Works'
<1> SUFFICES ASSUME IInv, [Next]_vars PROVE Works'
  OBVIOUS
<1>0. TypeOK /\ \A r \in Reconcilers : task[r] \in Tasks
  BY DEF IInv, TypeOK
<1> DEFINE Good(r) == SnapshotHolds(r) /\ ListingHolds(r) /\ DecisionHolds(r) /\ PutHolds(r)
<1>1. ASSUME NEW r \in Reconcilers, Claim(r) PROVE Works'
  <2> DEFINE t == [task[r] EXCEPT !.pc = "snapshot"]
  <2>1. task' = [task EXCEPT ![r] = t] /\ task'[r].pc = "snapshot"
    BY <1>0, <1>1 DEF Claim, GoTo, TypeOK, Tasks
  <2>2. Good(r)'
    BY <2>1 DEF SnapshotHolds, ListingHolds, DecisionHolds, PutHolds, Looking, Knowing, Decided
  <2> QED BY <1>1, <2>1, <2>2, AdvanceKeeps DEF Claim, Settled
<1>2. ASSUME NEW r \in Reconcilers, TakeSnapshot(r) PROVE Works'
  <2>1. CASE task' = [task EXCEPT ![r] = Idle]
    BY <1>2, <2>1, ForgetKeeps DEF TakeSnapshot, Settled
  <2>2. CASE archive = "reconciling"
    <3> DEFINE s == [registered |-> registered, ended |-> ended, room |-> roomClosed]
               t == [task[r] EXCEPT !.pc = "discover", !.snap = s]
    <3>1. task' = [task EXCEPT ![r] = t] /\ task'[r].pc = "discover" /\ task'[r].snap = s
      BY <1>0, <1>2, <2>2 DEF TakeSnapshot, TypeOK, Tasks
    <3>2. Good(r)'
      BY <1>2, <3>1 DEF TakeSnapshot, SnapshotHolds, ListingHolds, DecisionHolds, PutHolds,
                        Looking, Knowing, Decided
    <3> QED BY <1>2, <3>1, <3>2, AdvanceKeeps DEF TakeSnapshot, Settled
  <2> QED BY <1>2, <2>1, <2>2 DEF TakeSnapshot
<1>3. ASSUME NEW r \in Reconcilers, Discover(r) PROVE Works'
  <2> DEFINE f == stored \ task[r].snap.registered
             i == task[r].snap.registered \ stored
             t == [task[r] EXCEPT !.pc = "decide", !.found = f, !.invalid = i]
  <2>1. /\ task' = [task EXCEPT ![r] = t] /\ task'[r].pc = "decide"
        /\ task'[r].snap = task[r].snap /\ task'[r].found = f /\ task'[r].invalid = i
    BY <1>0, <1>3 DEF Discover, TypeOK, Tasks
  <2>2. Good(r)'
    <3>1. SnapshotHolds(r) /\ task[r].pc \in Looking
      BY <1>3 DEF IInv, Works, Discover, At, Looking
    <3>2. SnapshotHolds(r)'
      BY <1>3, <2>1, <3>1 DEF SnapshotHolds, Discover, rowVars
    <3>3. ListingHolds(r)'
      BY <1>3, <2>1 DEF ListingHolds, Discover, bucketVars
    <3> QED BY <2>1, <3>2, <3>3 DEF DecisionHolds, PutHolds, Decided
  <2> QED BY <1>3, <2>1, <2>2, AdvanceKeeps DEF Discover, Settled, rowVars
<1>4. ASSUME NEW r \in Reconcilers, Decide(r) PROVE Works'
  <2>1. CASE FailStep(r)
    BY <1>4, <2>1, ForgetKeeps DEF Decide, FailStep, Settled
  <2>2. CASE GoTo(r, "vtt") /\ (ContentOf(task[r]).missing = {} \/ due)
    <3> DEFINE t == [task[r] EXCEPT !.pc = "vtt"]
    <3>1. /\ task' = [task EXCEPT ![r] = t] /\ task'[r].pc = "vtt"
          /\ task'[r].snap = task[r].snap /\ task'[r].found = task[r].found
          /\ task'[r].invalid = task[r].invalid
      BY <1>0, <2>2 DEF GoTo, TypeOK, Tasks
    <3>2. Good(r)'
      BY <1>4, <2>2, <3>1 DEF IInv, Works, Decide, At, SnapshotHolds, ListingHolds, DecisionHolds,
                              PutHolds, Looking, Knowing, Decided, ContentOf, bucketVars
    <3> QED BY <1>4, <3>1, <3>2, AdvanceKeeps DEF Decide, Settled
  <2> QED BY <1>4, <2>1, <2>2 DEF Decide
<1>5. ASSUME NEW r \in Reconcilers, PutVtt(r) PROVE Works'
  <2>1. FinalIsHonest' /\ (Recorded /\ InventoryIsStored /\ InventoryCoversRows)'
    BY <1>5 DEF PutVtt, IInv, Works, FinalIsHonest, Proven, Recorded, InventoryIsStored,
                InventoryCoversRows
  <2>2. ASSUME NEW q \in Reconcilers PROVE Good(q)'
    <3>1. Good(q)
      BY DEF IInv, Works
    <3>2. CASE q # r
      <4>1. task'[q] = task[q]
        BY <1>0, <1>5, <3>2 DEF PutVtt, FailStep, GoTo, TypeOK
      <4> QED BY <1>5, <3>1, <4>1 DEF PutVtt, SnapshotHolds, ListingHolds, DecisionHolds, PutHolds,
                                      ContentOf
    <3>3. CASE q = r /\ FailStep(r)
      <4>1. task'[q].pc = "idle"
        BY <1>0, <3>3 DEF FailStep, TypeOK, Idle
      <4> QED BY <4>1 DEF SnapshotHolds, ListingHolds, DecisionHolds, PutHolds, Looking, Knowing, Decided
    <3>4. CASE q = r /\ GoTo(r, "final")
      <4>1. /\ task[q].pc = "vtt" /\ task'[q].pc = "final"
            /\ task'[q].snap = task[q].snap /\ task'[q].found = task[q].found
            /\ task'[q].invalid = task[q].invalid
        BY <1>0, <1>5, <3>4 DEF PutVtt, At, GoTo, TypeOK, Tasks
      <4> QED BY <1>5, <3>1, <4>1 DEF PutVtt, SnapshotHolds, ListingHolds, DecisionHolds, PutHolds,
                                      Looking, Knowing, Decided, ContentOf
    <3> QED BY <1>5, <3>2, <3>3, <3>4 DEF PutVtt
  <2> QED BY <2>1, <2>2 DEF Works
<1>6. ASSUME NEW r \in Reconcilers, PutFinal(r) PROVE Works'
  <2>1. CASE FailStep(r) /\ UNCHANGED final
    BY <1>6, <2>1, ForgetKeeps DEF PutFinal, FailStep, Settled, bucketVars
  <2>2. CASE final \in {Nothing, ContentOf(task[r])} /\ final' = ContentOf(task[r]) /\ GoTo(r, "complete")
    <3> DEFINE content == ContentOf(task[r])
    <3>0. task[r].pc = "final" /\ Good(r) /\ content # Nothing
      BY <1>0, <1>6, ContentType DEF IInv, Works, PutFinal, At
    <3>1. FinalIsHonest'
      <4>1. content.missing # {} => due
        BY <3>0 DEF DecisionHolds, Decided
      <4>2. content.missing = {} => Proven(content.objects)
        <5> SUFFICES ASSUME content.missing = {} PROVE Proven(content.objects)
          OBVIOUS
        <5>1. /\ task[r].snap.room /\ Captures \subseteq task[r].snap.ended /\ ProviderGaps = {}
              /\ Captures \cup Required \subseteq content.objects /\ task[r].invalid = {}
          BY <1>0, NothingMissing
        <5>2. /\ task[r].snap.ended \subseteq ended
              /\ task[r].snap.room => roomClosed
              /\ task[r].found \subseteq stored
              /\ task[r].snap.registered \ task[r].invalid \subseteq stored
          BY <3>0 DEF SnapshotHolds, ListingHolds, Looking, Knowing
        <5>3. content.objects = task[r].snap.registered \cup task[r].found
          BY DEF ContentOf, Content
        <5>4. ended = Captures
          BY <1>0, <5>1, <5>2 DEF TypeOK
        <5>6. roomClosed
          BY <5>1, <5>2
        <5>5. content.objects \subseteq stored
          BY <5>1, <5>2, <5>3
        <5> QED BY <5>1, <5>4, <5>5, <5>6 DEF Proven
      <4> QED BY <1>6, <2>2, <4>1, <4>2 DEF PutFinal, FinalIsHonest, Proven
    <3>2. Recorded' /\ InventoryCoversRows' /\ InventoryIsStored'
      BY <1>6, <2>2 DEF PutFinal, IInv, Works, Recorded, InventoryIsStored, InventoryCoversRows
    <3>3. ASSUME NEW q \in Reconcilers PROVE Good(q)'
      <4>1. Good(q)
        BY DEF IInv, Works
      <4>2. CASE q # r
        <5>1. task'[q] = task[q]
          BY <1>0, <2>2, <4>2 DEF GoTo, TypeOK
        <5>2. PutHolds(q)'
          <6>1. ContentOf(task[q]) # Nothing
            BY <1>0, ContentType
          <6> QED BY <2>2, <4>1, <5>1, <6>1 DEF PutHolds, ContentOf
        <5> QED BY <1>6, <4>1, <5>1, <5>2 DEF PutFinal, SnapshotHolds, ListingHolds, DecisionHolds,
                                              ContentOf
      <4>3. CASE q = r
        <5>1. /\ task'[q].pc = "complete" /\ task'[q].snap = task[q].snap
              /\ task'[q].found = task[q].found /\ task'[q].invalid = task[q].invalid
          BY <1>0, <2>2, <4>3 DEF GoTo, TypeOK, Tasks
        <5> QED BY <1>6, <2>2, <3>0, <4>1, <4>3, <5>1 DEF PutFinal, SnapshotHolds, ListingHolds,
                     DecisionHolds, PutHolds, Looking, Knowing, Decided, ContentOf
      <4> QED BY <4>2, <4>3
    <3> QED BY <3>1, <3>2, <3>3 DEF Works
  <2> QED BY <1>6, <2>1, <2>2 DEF PutFinal
<1>7. ASSUME NEW r \in Reconcilers, Complete(r) PROVE Works'
  <2>1. CASE FailStep(r) /\ UNCHANGED <<registered, inventory, archive>>
    BY <1>7, <2>1, ForgetKeeps DEF Complete, FailStep, Settled
  <2>2. CASE /\ archive = "reconciling"
             /\ registered' = registered \cup ContentOf(task[r]).objects
             /\ inventory' = ContentOf(task[r])
             /\ archive' = Status(ContentOf(task[r]))
             /\ task' = [task EXCEPT ![r] = Idle]
    <3> DEFINE content == ContentOf(task[r])
    <3>0. task[r].pc = "complete" /\ Good(r) /\ content # Nothing
      BY <1>0, <1>7, ContentType DEF IInv, Works, Complete, At
    <3>1. final = content /\ UNCHANGED <<due, roomClosed, ended, stored, vtt, final>>
      BY <1>7, <3>0 DEF PutHolds, Complete, bucketVars
    <3>2. registered' = content.objects
      <4>1. task[r].snap.registered = registered
        BY <2>2, <3>0 DEF SnapshotHolds, Looking
      <4>2. content.objects = registered \cup task[r].found
        BY <4>1 DEF ContentOf, Content
      <4> QED BY <2>2, <4>2
    <3>3. archive' # "reconciling"
      BY <2>2 DEF Status
    <3>4. (FinalIsHonest /\ Recorded /\ InventoryIsStored /\ InventoryCoversRows)'
      BY <2>2, <3>0, <3>1, <3>2, <3>3 DEF IInv, Works, FinalIsHonest, Proven, Recorded,
           InventoryIsStored, InventoryCoversRows
    <3>5. ASSUME NEW q \in Reconcilers PROVE Good(q)'
      <4>1. CASE q = r
        <5>1. task'[q].pc = "idle"
          BY <1>0, <2>2, <4>1 DEF TypeOK, Idle
        <5> QED BY <5>1 DEF SnapshotHolds, ListingHolds, DecisionHolds, PutHolds, Looking, Knowing, Decided
      <4>2. CASE q # r
        <5>1. task'[q] = task[q] /\ Good(q)
          BY <1>0, <2>2, <4>2 DEF TypeOK, IInv, Works
        <5> QED BY <2>2, <3>1, <3>3, <5>1 DEF SnapshotHolds, ListingHolds, DecisionHolds, PutHolds,
                                              ContentOf
      <4> QED BY <4>1, <4>2
    <3> QED BY <3>4, <3>5 DEF Works
  <2> QED BY <1>7, <2>1, <2>2 DEF Complete
<1>8. ASSUME NEW r \in Reconcilers, CallFails(r) \/ Crash(r) PROVE Works'
  BY <1>8, ForgetKeeps DEF CallFails, Crash, FailStep, Settled
<1>9. ASSUME NEW c \in Captures, Upload(c) \/ EndEgress(c) PROVE Works'
  BY <1>0, <1>9, WorldKeeps DEF Upload, EndEgress, rowVars, bucketVars, TypeOK
<1>10. ASSUME NEW o \in Evidence, LateObject(o) PROVE Works'
  BY <1>0, <1>10, WorldKeeps DEF LateObject, rowVars, TypeOK
<1>11. CASE RoomDeleteDone \/ Deadline \/ LeaseExpires
  BY <1>0, <1>11, WorldKeeps DEF RoomDeleteDone, Deadline, LeaseExpires, bucketVars, TypeOK
<1>12. CASE UNCHANGED vars
  BY <1>0, <1>12, WorldKeeps DEF vars, rowVars, bucketVars, TypeOK
<1> QED BY <1>1, <1>2, <1>3, <1>4, <1>5, <1>6, <1>7, <1>8, <1>9, <1>10, <1>11, <1>12 DEF Next, Step

-----------------------------------------------------------------------------
(* The theorems *)

\* What reconcilers know and what they recorded fits together in every state.
THEOREM InventoryInvariant == Spec => []IInv
<1>1. Init => IInv
  BY InitTypes, InitWorks DEF IInv
<1>2. IInv /\ [Next]_vars => IInv'
  BY NextTypes, NextWorks DEF IInv
<1> QED BY <1>1, <1>2, PTL DEF Spec

\* The row of final_inventories always says what final.json says.
THEOREM RowIsObject == Spec => []InventoryIsStored
<1>1. IInv => InventoryIsStored
  BY DEF IInv, Works
<1> QED BY <1>1, InventoryInvariant, PTL

\* The rows of a finished archive are the objects its inventory lists.
THEOREM RowsAreListed == Spec => []InventoryCoversRows
<1>1. IInv => InventoryCoversRows
  BY DEF IInv, Works
<1> QED BY <1>1, InventoryInvariant, PTL

\* Complete is a proof: ends, objects and a closed room.
THEOREM CompleteProves == Spec => []CompleteIsProof
<1>1. IInv => CompleteIsProof
  <2> SUFFICES ASSUME IInv, archive = "complete" PROVE Proven(registered)
    BY DEF CompleteIsProof, Proven
  <2>1. inventory # Nothing /\ Status(inventory) = "complete"
    BY DEF IInv, Works, Recorded
  <2>2. inventory.missing = {} /\ inventory = final /\ registered = inventory.objects
    BY <2>1 DEF Status, IInv, Works, InventoryIsStored, InventoryCoversRows
  <2> QED BY <2>1, <2>2 DEF IInv, Works, FinalIsHonest
<1> QED BY <1>1, InventoryInvariant, PTL

\* An archive is given up after its deadline only, and its inventory says why.
THEOREM IncompleteSaysWhy == Spec => []IncompleteNamesGap
<1>1. IInv => IncompleteNamesGap
  BY DEF IInv, Works, Recorded, Status, InventoryIsStored, FinalIsHonest, IncompleteNamesGap
<1> QED BY <1>1, InventoryInvariant, PTL

\* The variables keep their types.
THEOREM TypesHold == Spec => []TypeOK
<1>1. IInv => TypeOK
  BY DEF IInv
<1> QED BY <1>1, InventoryInvariant, PTL

-----------------------------------------------------------------------------
(* After the inventory, and before it *)

\* A recorded inventory is the last word: reconcilers that lost their lease and
\* still put, list or complete change neither the archive, nor its rows, nor
\* final.json (effect-runner.ts 664-694, archives.ts completeReconciliation).
InventoryStays ==
  archive # "reconciling" => UNCHANGED <<archive, inventory, registered, final>>

THEOREM InventoryIsFinal == Spec => [][InventoryStays]_vars
<1>1. IInv /\ [Next]_vars => InventoryStays
  <2> SUFFICES ASSUME IInv, [Next]_vars, archive # "reconciling"
               PROVE  UNCHANGED <<archive, inventory, registered, final>>
    BY DEF InventoryStays
  <2>1. inventory # Nothing /\ final = inventory
    BY DEF IInv, Works, Recorded, InventoryIsStored
  <2>2. ASSUME NEW r \in Reconcilers, Claim(r) \/ Step(r) \/ CallFails(r) \/ Crash(r)
        PROVE  UNCHANGED <<archive, inventory, registered, final>>
    BY <2>1, <2>2 DEF Claim, Step, TakeSnapshot, Discover, Decide, PutVtt, PutFinal, Complete, CallFails,
                      Crash, rowVars, bucketVars
  <2>3. CASE \/ \E c \in Captures : Upload(c) \/ EndEgress(c)
             \/ \E o \in Evidence : LateObject(o)
             \/ RoomDeleteDone \/ Deadline \/ LeaseExpires \/ UNCHANGED vars
    BY <2>3 DEF Upload, EndEgress, LateObject, RoomDeleteDone, Deadline, LeaseExpires, vars, rowVars,
                bucketVars
  <2> QED BY <2>2, <2>3 DEF Next
<1> QED BY <1>1, InventoryInvariant, PTL DEF Spec

\* A reconciling archive is in nobody's way and in somebody's hands: its effect
\* is not over, and whoever holds a live lease on it is at work; without a live
\* lease any idle reconciler may claim it (Claim).
ReconciliationGoesOn ==
  archive = "reconciling" =>
    /\ effect.state # "done"
    /\ effect.live => effect.owner \in Reconcilers /\ ~At(effect.owner, "idle")

LeaseIsUsed ==
  /\ effect.state = "done" => archive # "reconciling"
  /\ effect.live => effect.owner \in Reconcilers /\ ~At(effect.owner, "idle")

\* A reconciler that stops working gives its lease back or loses it.
LEMMA StopReleases ==
  ASSUME TypeOK, LeaseIsUsed, NEW r \in Reconcilers, FailStep(r)
  PROVE  /\ effect'.state = "done" => effect.state = "done"
         /\ effect'.live => effect'.owner \in Reconcilers /\ task'[effect'.owner].pc # "idle"
<1>1. task' = [task EXCEPT ![r] = Idle]
  BY DEF FailStep
<1>2. CASE effect.owner = r
  BY <1>2 DEF FailStep, Released
<1>3. CASE effect.owner # r
  <2>1. effect' = effect
    BY <1>3 DEF FailStep
  <2>2. \A q \in Reconcilers \ {r} : task'[q] = task[q]
    BY <1>1 DEF TypeOK
  <2> QED BY <1>3, <2>1, <2>2 DEF LeaseIsUsed, At
<1> QED BY <1>2, <1>3

\* One that goes on keeps what it has.
LEMMA WorkKeepsLease ==
  ASSUME TypeOK, LeaseIsUsed, NEW r \in Reconcilers, UNCHANGED <<effect, archive>>,
         task'[r].pc # "idle", \A q \in Reconcilers \ {r} : task'[q] = task[q]
  PROVE  LeaseIsUsed'
BY DEF LeaseIsUsed, At

LEMMA LeaseStep ==
  ASSUME TypeOK, LeaseIsUsed, [Next]_vars
  PROVE  LeaseIsUsed'
<1>1. ASSUME NEW r \in Reconcilers, Claim(r) PROVE LeaseIsUsed'
  <2>1. /\ effect' = [state |-> "calling", owner |-> r, live |-> TRUE] /\ archive' = archive
        /\ task' = [task EXCEPT ![r].pc = "snapshot"]
    BY <1>1 DEF Claim, GoTo
  <2>2. task'[r].pc = "snapshot"
    BY <2>1 DEF TypeOK, Tasks
  <2> QED BY <2>1, <2>2 DEF LeaseIsUsed, At
<1>2. ASSUME NEW r \in Reconcilers, FailStep(r), archive' = archive PROVE LeaseIsUsed'
  BY <1>2, StopReleases DEF LeaseIsUsed, At
<1>3. ASSUME NEW r \in Reconcilers, NEW p \in Steps \ {"idle"}, GoTo(r, p), UNCHANGED <<effect, archive>>
      PROVE  LeaseIsUsed'
  <2>1. task'[r].pc = p /\ \A q \in Reconcilers \ {r} : task'[q] = task[q]
    BY <1>3 DEF GoTo, TypeOK, Tasks
  <2> QED BY <1>3, <2>1, WorkKeepsLease
<1>4. ASSUME NEW r \in Reconcilers, TakeSnapshot(r) PROVE LeaseIsUsed'
  <2>1. CASE archive = "reconciling"
    <3>1. task'[r].pc = "discover" /\ \A q \in Reconcilers \ {r} : task'[q] = task[q]
      BY <1>4, <2>1 DEF TakeSnapshot, TypeOK, Tasks
    <3> QED BY <1>4, <2>1, <3>1, WorkKeepsLease DEF TakeSnapshot
  <2>2. CASE archive # "reconciling"
    <3>1. /\ effect' = IF effect.owner = r THEN Released("done") ELSE effect
          /\ archive' # "reconciling" /\ task' = [task EXCEPT ![r] = Idle]
      BY <1>4, <2>2 DEF TakeSnapshot
    <3>2. \A q \in Reconcilers \ {r} : task'[q] = task[q]
      BY <3>1 DEF TypeOK
    <3> QED BY <3>1, <3>2 DEF LeaseIsUsed, At, Released
  <2> QED BY <2>1, <2>2
<1>5. ASSUME NEW r \in Reconcilers, Discover(r) PROVE LeaseIsUsed'
  <2>1. task'[r].pc = "decide" /\ \A q \in Reconcilers \ {r} : task'[q] = task[q]
    BY <1>5 DEF Discover, TypeOK, Tasks
  <2> QED BY <1>5, <2>1, WorkKeepsLease DEF Discover, rowVars
<1>6. ASSUME NEW r \in Reconcilers, Decide(r) \/ PutVtt(r) \/ PutFinal(r) PROVE LeaseIsUsed'
  <2>1. archive' = archive
    BY <1>6 DEF Decide, PutVtt, PutFinal
  <2>2. FailStep(r) \/ (UNCHANGED effect /\ \E p \in {"vtt", "final", "complete"} : GoTo(r, p))
    BY <1>6 DEF Decide, PutVtt, PutFinal
  <2> QED BY <1>2, <1>3, <2>1, <2>2 DEF Steps
<1>7. ASSUME NEW r \in Reconcilers, Complete(r) PROVE LeaseIsUsed'
  <2>1. CASE FailStep(r) /\ archive' = archive
    BY <1>2, <2>1
  <2>2. CASE effect' = Released("done") /\ archive' = Status(ContentOf(task[r]))
    BY <2>2 DEF Released, Status, LeaseIsUsed
  <2> QED BY <1>7, <2>1, <2>2 DEF Complete
<1>8. ASSUME NEW r \in Reconcilers, CallFails(r) PROVE LeaseIsUsed'
  BY <1>2, <1>8 DEF CallFails
<1>9. ASSUME NEW r \in Reconcilers, Crash(r) PROVE LeaseIsUsed'
  <2>1. /\ task' = [task EXCEPT ![r] = Idle] /\ archive' = archive
        /\ effect' = IF effect.owner = r THEN [effect EXCEPT !.live = FALSE] ELSE effect
    BY <1>9 DEF Crash
  <2>2. /\ effect'.state = effect.state /\ effect'.owner = effect.owner
        /\ effect'.live => effect.live /\ effect.owner # r
    BY <2>1 DEF TypeOK, Rows
  <2>3. \A q \in Reconcilers \ {r} : task'[q] = task[q]
    BY <2>1 DEF TypeOK
  <2> QED BY <2>1, <2>2, <2>3 DEF LeaseIsUsed, At
<1>10. CASE \/ \E c \in Captures : Upload(c) \/ EndEgress(c)
            \/ \E o \in Evidence : LateObject(o)
            \/ RoomDeleteDone \/ Deadline \/ UNCHANGED vars
  <2>1. UNCHANGED <<effect, archive, task>>
    BY <1>10 DEF Upload, EndEgress, LateObject, RoomDeleteDone, Deadline, vars, rowVars
  <2> QED BY <2>1 DEF LeaseIsUsed, At
<1>11. CASE LeaseExpires
  <2>1. ~effect'.live /\ effect'.state = effect.state /\ archive' = archive
    BY <1>11 DEF LeaseExpires, TypeOK, Rows
  <2> QED BY <2>1 DEF LeaseIsUsed
<1> QED BY <1>1, <1>4, <1>5, <1>6, <1>7, <1>8, <1>9, <1>10, <1>11 DEF Next, Step

\* The safety half of EndsUnlessStuck: no crash, lost lease or failed call
\* leaves a reconciling archive that nobody can go on with.
THEOREM NoReconciliationIsDropped == Spec => []ReconciliationGoesOn
<1>1. Init => LeaseIsUsed
  BY DEF Init, LeaseIsUsed, Released
<1>2. IInv /\ LeaseIsUsed /\ [Next]_vars => LeaseIsUsed'
  BY LeaseStep DEF IInv
<1>3. LeaseIsUsed => ReconciliationGoesOn
  BY DEF LeaseIsUsed, ReconciliationGoesOn
<1> QED BY <1>1, <1>2, <1>3, InventoryInvariant, PTL DEF Spec
=============================================================================
