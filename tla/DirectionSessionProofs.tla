------------------------ MODULE DirectionSessionProofs ------------------------
(***************************************************************************)
(* Proofs about DirectionSession, for any number of attempts, frames and   *)
(* faults and any window.                                                  *)
(***************************************************************************)
EXTENDS DirectionSession, SequenceTheorems, TLAPS

\* The lifecycle lock is held by whoever is where it takes it.
LockHeld ==
  /\ lock = "sender" <=> sender.pc \in {"gate", "sending"}
  /\ lock = "consumer" <=> consumer.pc = "replay"

\* The sender is at most one frame ahead, and a frame it waits with was sent to
\* a session that is not the one it will be told of.
SenderPlaced ==
  /\ sent <= cursor /\ (At("gate") => sent < cursor)
  /\ At("sending") => sender.cur = stt
  /\ sender.pc \in {"sending", "waiting"} => sent > 0
  /\ At("waiting") => sender.cur <= stt
  /\ At("waiting") /\ (sender.answer = "new" \/ Reading("replay")) => sender.cur < stt
  /\ At("recheck") => sender.cur < stt

\* An attempt is behind its replacement, which nobody has used before it is installed.
AttemptPlaced ==
  /\ stt <= attempt
  /\ Reading("delay") => attempt < MaxAttempts
  /\ consumer.pc \in {"prepare", "open", "install"} => stt < attempt
  /\ Reading("open") <=> opening # "none"
  /\ \A k \in Sessions : k > stt => session[k].got = <<>>
  /\ opening \in {"connecting", "opened"} \/ Reading("install") =>
       committed <= session[attempt].base /\ session[attempt].base < ReplayFrom
  /\ Reading("drop") /\ ~consumer.erred => ~Working

\* Only these sessions can be open, and a stop leaves fewer and fewer.
EndPlaced ==
  /\ \A k \in Sessions : session[k].state = "open" =>
       k = stt \/ (k = attempt /\ (opening = "opened" \/ consumer.pc \in {"install", "drop"}))
  /\ candidate # 0 =>
       consumer.pc \in {"install", "replay"} \/ (Reading("open") /\ opening = "opened")
  /\ closing # "no" => stop
  /\ stop => opening \notin {"gate", "connecting"}
  /\ closing \in {"drain", "gather", "returned"} => session[stt].state # "open"
  /\ life = "terminal" => closing = "returned"
  /\ closing = "returned" => Reading("done")

\* The frames that the current session will still be given.
Awaited(c) ==
  \/ c = sent /\ (At("sending") \/ (sender.pc \in {"waiting", "recheck"} /\ sender.cur = stt))
  \/ Reading("replay") /\ c >= consumer.next

\* The last frame it took, or the one before its first.
Latest(s) == IF s.got = <<>> THEN s.base ELSE s.got[Len(s.got)]

\* Up to its latest frame a session has everything in order, but for frames
\* gone with their sender, and for those the window of `last` frames lost before the first.
Gapless(s, gone, last) ==
  /\ \A i \in 1..Len(s.got) - 1 :
       /\ s.got[i] < s.got[i + 1]
       /\ \A c \in s.got[i] + 1 .. s.got[i + 1] - 1 : c \in gone
  /\ s.got # <<>> =>
       /\ s.base < s.got[1]
       /\ \A c \in s.base + 1 .. s.got[1] - 1 : c \in gone \/ c + Window <= last
  /\ \A c \in s.base + 1 .. Latest(s) :
       (\E i \in 1..Len(s.got) : s.got[i] = c) \/ c \in gone \/ c + Window <= last

\* A frame after its latest that it need not take any more.
Skipped(s, c, gone, last) == c \in gone \/ (s.got = <<>> /\ c + Window <= last)

Live == Working /\ ~failed /\ session[stt].state = "open" /\ ~Reading("drop")

\* A session knows of no frame that was not accepted.
Bounded ==
  /\ committed <= sent
  /\ \A k \in Sessions :
       /\ session[k].base <= sent /\ session[k].mark <= sent
       /\ \A i \in 1..Len(session[k].got) : session[k].got[i] <= sent

Below(s, n) == s.base < n /\ \A i \in 1..Len(s.got) : s.got[i] < n

\* The stream so far is gapless, and so is what follows it.
Seamless ==
  Live =>
    /\ Gapless(session[stt], cut, sent)
    /\ At("sending") => Below(session[stt], sent)
    /\ Reading("replay") => Below(session[stt], consumer.next)
    /\ session[stt].base < ReplayFrom
    /\ \A c \in Latest(session[stt]) + 1 .. sent :
         Skipped(session[stt], c, cut, sent) \/ Awaited(c)

Placed == LockHeld /\ SenderPlaced /\ AttemptPlaced /\ EndPlaced

IInv == TypeOK /\ Placed /\ Bounded /\ Seamless

-----------------------------------------------------------------------------
(* Types *)

\* The first frame of a replay is a frame or the next one, and never goes back.
LEMMA ReplayBegins ==
  ASSUME NEW c \in Frames, NEW n \in Frames
  PROVE  LET from == IF c + Window >= n THEN c + 1 ELSE (n + 1) - Window IN
         /\ from \in 1..MaxFrames + 1 /\ from - 1 \in Frames
         /\ n < from + Window /\ c < from
         /\ \A m \in Nat : m < from <=> m <= c \/ m + Window <= n
BY WindowAssumption, BoundsAssumption DEF Frames

\* The same of the replay that would begin now.
LEMMA ReplayBeginsNow ==
  ASSUME TypeOK
  PROVE  /\ ReplayFrom \in 1..MaxFrames + 1 /\ ReplayFrom - 1 \in Frames
         /\ sent < ReplayFrom + Window /\ committed < ReplayFrom
         /\ \A m \in Nat : m < ReplayFrom <=> m <= committed \/ m + Window <= sent
BY ReplayBegins DEF TypeOK, ReplayFrom

\* A session with one field changed is a session.
LEMMA SessionMoves ==
  ASSUME TypeOK, NEW k \in Sessions
  PROVE  /\ \A st \in {"none", "open", "failed", "ended"} :
              [session EXCEPT ![k].state = st] \in [Sessions -> SessionStates]
         /\ \A f \in Frames : /\ [session EXCEPT ![k].base = f] \in [Sessions -> SessionStates]
                              /\ [session EXCEPT ![k].mark = f] \in [Sessions -> SessionStates]
         /\ \A f \in 1..MaxFrames :
              [session EXCEPT ![k].got = Append(@, f)] \in [Sessions -> SessionStates]
         /\ [session EXCEPT ![k] = [NoSession EXCEPT !.state = "failed"]] \in [Sessions -> SessionStates]
<1>1. session[k] \in SessionStates
  BY DEF TypeOK
<1>2. \A st \in {"none", "open", "failed", "ended"} : [session[k] EXCEPT !.state = st] \in SessionStates
  BY <1>1 DEF SessionStates
<1>3. \A f \in Frames : /\ [session[k] EXCEPT !.base = f] \in SessionStates
                        /\ [session[k] EXCEPT !.mark = f] \in SessionStates
  BY <1>1 DEF SessionStates
<1>4. ASSUME NEW f \in 1..MaxFrames
      PROVE  [session[k] EXCEPT !.got = Append(@, f)] \in SessionStates
  <2>1. Append(session[k].got, f) \in Seq(1..MaxFrames)
    BY <1>1 DEF SessionStates
  <2> QED BY <1>1, <2>1 DEF SessionStates
<1>5. [NoSession EXCEPT !.state = "failed"] \in SessionStates
  <2>1. <<>> \in Seq(1..MaxFrames) /\ 0 \in Frames
    BY BoundsAssumption DEF Frames
  <2> QED BY <2>1 DEF NoSession, SessionStates
<1> QED BY <1>2, <1>3, <1>4, <1>5 DEF TypeOK

\* So is a sender or a consumer that moves on.
LEMMA TaskMoves ==
  ASSUME TypeOK
  PROVE  /\ \A pc \in {"idle", "enter", "gate", "sending", "waiting", "recheck", "sink", "over"} :
              [sender EXCEPT !.pc = pc] \in Senders
         /\ \A answer \in {"pending", "none", "new"} : [sender EXCEPT !.answer = answer] \in Senders
         /\ [sender EXCEPT !.pc = "waiting", !.answer = "pending"] \in Senders
         /\ \A k \in Sessions : [sender EXCEPT !.pc = "sending", !.cur = k] \in Senders
         /\ IdleSender \in Senders
         /\ \A pc \in {"events", "join", "delay", "prepare", "open", "install", "replay", "drop", "done"} :
              /\ [consumer EXCEPT !.pc = pc] \in Consumers
              /\ \A n \in 1..MaxFrames + 1 : [consumer EXCEPT !.pc = pc, !.next = n] \in Consumers
              /\ \A b \in BOOLEAN : [consumer EXCEPT !.pc = pc, !.erred = b] \in Consumers
         /\ \A n \in 1..MaxFrames + 1 : [consumer EXCEPT !.next = n] \in Consumers
<1>1. sender \in Senders /\ consumer \in Consumers
  BY DEF TypeOK
<1>2. IdleSender \in Senders
  BY AttemptsAssumption DEF IdleSender, Senders, Sessions
<1> QED BY <1>1, <1>2 DEF Senders, Consumers

\* Every step keeps the types: first what changes in a way of its own, then the rest.
LEMMA TypesKeptBySender ==
  ASSUME TypeOK, Placed, Claim \/ Sending \/ GateRefuses \/ CancelSender
  PROVE  TypeOK'
<1> USE DEF audioVars, replacementVars, endVars
<1>1. CASE Claim
  <2>1. sender' \in Senders
    BY <1>1, TaskMoves DEF Claim, SenderTo
  <2>2. cursor' \in Frames
    BY <1>1, BoundsAssumption DEF Claim, TypeOK, Frames
  <2> QED BY <1>1, <2>1, <2>2 DEF Claim, TypeOK
<1>2. CASE Enter
  <2>1. sender' \in Senders /\ failed' \in BOOLEAN
    BY <1>2, TaskMoves DEF Enter, SenderTo, Raise, TypeOK
  <2>2. lock' \in {"free", "sender", "consumer", "boundary"}
    BY <1>2 DEF Enter, TypeOK
  <2> QED BY <1>2, <2>1, <2>2 DEF Enter, TypeOK
<1>3. CASE Accept
  <2>1. sender' \in Senders
    BY <1>3, TaskMoves DEF Accept, TypeOK
  <2>2. sent' \in Frames
    BY <1>3, BoundsAssumption DEF Accept, TypeOK, Placed, SenderPlaced, Frames, At
  <2> QED BY <1>3, <2>1, <2>2 DEF Accept, TypeOK
<1>4. CASE SendLands
  <2>1. sender.cur \in Sessions /\ sent \in 1..MaxFrames
    BY <1>4 DEF SendLands, TypeOK, Senders, Placed, SenderPlaced, Frames, At
  <2>2. session' \in [Sessions -> SessionStates]
    BY <1>4, <2>1, SessionMoves DEF SendLands, Takes
  <2>3. sender' \in Senders /\ failed' \in BOOLEAN
    BY <1>4, TaskMoves DEF SendLands, SenderTo, Raise, TypeOK
  <2> QED BY <1>4, <2>2, <2>3 DEF SendLands, TypeOK
<1>5. CASE SendFails
  <2>1. sender' \in Senders /\ failed' \in BOOLEAN /\ ready' \in {"pending", "done"}
    BY <1>5, TaskMoves DEF SendFails, SenderTo, Raise, TypeOK
  <2>2. faults' \in 0..MaxFaults
    BY <1>5, BoundsAssumption DEF SendFails, TypeOK, Fault
  <2> QED BY <1>5, <2>1, <2>2 DEF SendFails, TypeOK
<1>6. CASE Answered
  <2>1. sender' \in Senders /\ failed' \in BOOLEAN
    BY <1>6, TaskMoves DEF Answered, SenderTo, Raise, TypeOK
  <2> QED BY <1>6, <2>1 DEF Answered, TypeOK
<1>7. CASE Recheck
  <2>1. sender' \in Senders /\ failed' \in BOOLEAN
    BY <1>7, TaskMoves DEF Recheck, SenderTo, Raise, TypeOK
  <2> QED BY <1>7, <2>1 DEF Recheck, TypeOK
<1>8. CASE Sink
  <2>1. sender' \in Senders
    BY <1>8, TaskMoves DEF Sink, SenderTo
  <2> QED BY <1>8, <2>1 DEF Sink, TypeOK
<1>9. CASE GateRefuses
  <2>1. sender' \in Senders /\ failed' \in BOOLEAN
    BY <1>9, TaskMoves DEF GateRefuses, SenderTo, Raise
  <2>2. faults' \in 0..MaxFaults
    BY <1>9, BoundsAssumption DEF GateRefuses, TypeOK, Fault
  <2> QED BY <1>9, <2>1, <2>2 DEF GateRefuses, TypeOK
<1>10. CASE CancelSender
  <2>1. session' \in [Sessions -> SessionStates]
    <3>1. CASE UNCHANGED session
      BY <3>1 DEF TypeOK
    <3>2. CASE At("sending") /\ Takes(sender.cur)
      <4>1. sender.cur \in Sessions /\ sent \in 1..MaxFrames
        BY <3>2 DEF TypeOK, Senders, Placed, SenderPlaced, Frames, At
      <4> QED BY <3>2, <4>1, SessionMoves DEF Takes
    <3> QED BY <1>10, <3>1, <3>2 DEF CancelSender
  <2>2. cut' \in SUBSET (1..MaxFrames)
    BY <1>10 DEF CancelSender, TypeOK, Placed, SenderPlaced, Frames, At
  <2>3. sender' \in Senders /\ ready' \in {"pending", "done"}
    BY <1>10, TaskMoves DEF CancelSender, TypeOK
  <2>4. faults' \in 0..MaxFaults
    BY <1>10, BoundsAssumption DEF CancelSender, TypeOK, Fault
  <2>5. lock' \in {"free", "sender", "consumer", "boundary"}
    BY <1>10 DEF CancelSender, TypeOK
  <2> QED BY <1>10, <2>1, <2>2, <2>3, <2>4, <2>5 DEF CancelSender, TypeOK
<1> QED BY <1>1, <1>2, <1>3, <1>4, <1>5, <1>6, <1>7, <1>8, <1>9, <1>10 DEF Sending

\* The provider and the boundaries keep the types.
LEMMA TypesKeptBySession ==
  ASSUME TypeOK, \/ \E k \in Sessions : Mark(k) \/ StreamFails(k)
                 \/ AskBoundary \/ BoundaryAsked
  PROVE  TypeOK'
<1> USE DEF audioVars, replacementVars, endVars
<1>1. ASSUME NEW k \in Sessions, Mark(k)
      PROVE  TypeOK'
  <2>1. session' \in [Sessions -> SessionStates]
    <3>1. PICK n \in Frames : session' = [session EXCEPT ![k].mark = n]
      BY <1>1 DEF Mark
    <3> QED BY <3>1, SessionMoves
  <2> QED BY <1>1, <2>1 DEF Mark, TypeOK
<1>2. ASSUME NEW k \in Sessions, StreamFails(k)
      PROVE  TypeOK'
  <2>1. session' \in [Sessions -> SessionStates]
    BY <1>2, SessionMoves DEF StreamFails
  <2>2. faults' \in 0..MaxFaults
    BY <1>2, BoundsAssumption DEF StreamFails, TypeOK, Fault
  <2> QED BY <1>2, <2>1, <2>2 DEF StreamFails, TypeOK
<1>3. CASE AskBoundary
  BY <1>3 DEF AskBoundary, TypeOK
<1>4. CASE BoundaryAsked
  <2>1. failed' \in BOOLEAN
    BY <1>4 DEF BoundaryAsked, TypeOK
  <2> QED BY <1>4, <2>1 DEF BoundaryAsked, TypeOK
<1> QED BY <1>1, <1>2, <1>3, <1>4

\* Whoever waits is answered, and nothing else happens to the sender.
LEMMA Resolved ==
  ASSUME TypeOK, NEW answer \in {"none", "new"}, Resolve(answer)
  PROVE  /\ sender' \in Senders /\ ready' \in {"pending", "done"}
         /\ sender'.pc = sender.pc /\ sender'.cur = sender.cur
         /\ sender'.answer # sender.answer => sender'.answer = answer /\ sender.pc = "waiting"
BY DEF TypeOK, Resolve, Senders, At

\* The event task ends.
LEMMA ConsumerEnded ==
  ASSUME TypeOK, ConsumerEnds
  PROVE  /\ sender' \in Senders /\ ready' \in {"pending", "done"} /\ consumer' \in Consumers
         /\ consumer'.pc = "done"
         /\ sender'.pc = sender.pc /\ sender'.cur = sender.cur
         /\ sender'.answer # sender.answer => sender'.answer = "none" /\ sender.pc = "waiting"
<1>1. consumer' \in Consumers /\ consumer'.pc = "done"
  BY DEF ConsumerEnds, ConsumerTo, TypeOK, Consumers
<1> QED BY <1>1, Resolved DEF ConsumerEnds

\* So does the task that reads the events.
LEMMA TypesKeptByConsumer ==
  ASSUME TypeOK, Placed, Consuming \/ StageFails
  PROVE  TypeOK'
<1> USE DEF audioVars, replacementVars, endVars
<1>0. stt \in Sessions /\ attempt \in Sessions
  BY DEF TypeOK
<1>1. CASE HandleBoundary
  <2>1. session' \in [Sessions -> SessionStates]
    <3>1. 0 \in Frames
      BY BoundsAssumption DEF Frames
    <3> QED BY <1>1, <1>0, <3>1, SessionMoves DEF HandleBoundary
  <2>2. committed' \in Frames
    BY <1>1, <1>0 DEF HandleBoundary, TypeOK, SessionStates
  <2> QED BY <1>1, <2>1, <2>2 DEF HandleBoundary, TypeOK
<1>2. CASE StageFails
  <2>1. sender' \in Senders /\ ready' \in {"pending", "done"} /\ consumer' \in Consumers
    BY <1>2, ConsumerEnded DEF StageFails
  <2>2. faults' \in 0..MaxFaults
    BY <1>2, BoundsAssumption DEF StageFails, TypeOK, Fault
  <2> QED BY <1>2, <2>1, <2>2 DEF StageFails, TypeOK
<1>3. CASE HandleTerminal
  <2>1. consumer' \in Consumers
    BY <1>3, TaskMoves DEF HandleTerminal, ConsumerTo
  <2> QED BY <1>3, <2>1 DEF HandleTerminal, TypeOK
<1>4. CASE Decide
  <2>1. sender' \in Senders /\ ready' \in {"pending", "done"} /\ consumer' \in Consumers /\ failed' \in BOOLEAN
    BY <1>4, ConsumerEnded, TaskMoves DEF Decide, ConsumerTo, TypeOK
  <2> QED BY <1>4, <2>1 DEF Decide, TypeOK
<1>5. CASE StreamOver
  <2>1. sender' \in Senders /\ ready' \in {"pending", "done"} /\ consumer' \in Consumers
    BY <1>5, ConsumerEnded DEF StreamOver
  <2> QED BY <1>5, <2>1 DEF StreamOver, TypeOK
<1>6. CASE Delay
  <2>1. sender' \in Senders /\ ready' \in {"pending", "done"} /\ consumer' \in Consumers
    BY <1>6, ConsumerEnded, TaskMoves DEF Delay, ConsumerTo, TypeOK
  <2>2. attempt' \in Sessions
    BY <1>6, <1>0, AttemptsAssumption DEF Delay, Placed, AttemptPlaced, Sessions
  <2> QED BY <1>6, <2>1, <2>2 DEF Delay, TypeOK
<1>7. CASE Prepare
  <2>1. sender' \in Senders /\ ready' \in {"pending", "done"} /\ consumer' \in Consumers
    BY <1>7, ConsumerEnded, TaskMoves DEF Prepare, ConsumerTo, TypeOK
  <2>2. opening' \in {"none", "gate", "connecting", "opened", "refused", "cancelled"}
    BY <1>7 DEF Prepare, TypeOK
  <2> QED BY <1>7, <2>1, <2>2 DEF Prepare, TypeOK
<1>8. CASE Opened
  <2>1. sender' \in Senders /\ ready' \in {"pending", "done"} /\ consumer' \in Consumers
    BY <1>8, ConsumerEnded, TaskMoves DEF Opened, ConsumerTo, TypeOK
  <2>2. candidate' \in {candidate, attempt} /\ failed' \in BOOLEAN /\ opening' = "none"
    BY <1>8 DEF Opened
  <2>4. candidate' \in {0} \cup Sessions
    BY <1>0, <2>2 DEF TypeOK
  <2>5. opening' \in {"none", "gate", "connecting", "opened", "refused", "cancelled"}
    BY <2>2
  <2>3. UNCHANGED <<audioVars, stt, attempt, session, lock, life, stop, closing, faults>>
    BY <1>8 DEF Opened
  <2> QED BY <2>1, <2>2, <2>3, <2>4, <2>5 DEF TypeOK
<1>9. CASE Install
  <2>1. session' \in [Sessions -> SessionStates]
    <3>1. CASE UNCHANGED session
      BY <3>1 DEF TypeOK
    <3>2. CASE session' = [session EXCEPT ![stt] = [NoSession EXCEPT !.state = "failed"]]
      BY <1>0, <3>2, SessionMoves
    <3> QED BY <1>9, <3>1, <3>2 DEF Install
  <2>2. consumer' \in Consumers
    BY <1>9, TaskMoves, ReplayBeginsNow DEF Install
  <2>3. candidate' \in {0} \cup Sessions /\ stt' \in Sessions
    BY <1>9, <1>0 DEF Install, TypeOK
  <2>4. lock' \in {"free", "sender", "consumer", "boundary"}
    BY <1>9 DEF Install, TypeOK
  <2> QED BY <1>9, <2>1, <2>2, <2>3, <2>4 DEF Install, TypeOK
<1>10. CASE ReplayOne
  <2>1. consumer.next \in 1..MaxFrames /\ consumer.next + 1 \in 1..MaxFrames + 1
    BY <1>10, BoundsAssumption DEF ReplayOne, TypeOK, Consumers, Frames
  <2>2. session' \in [Sessions -> SessionStates]
    BY <1>10, <1>0, <2>1, SessionMoves DEF ReplayOne
  <2>3. consumer' \in Consumers
    BY <1>10, <2>1, TaskMoves DEF ReplayOne
  <2> QED BY <1>10, <2>2, <2>3 DEF ReplayOne, TypeOK
<1>11. CASE ReplayFails
  <2>1. consumer' \in Consumers
    BY <1>11, TaskMoves DEF ReplayFails
  <2>2. faults' \in 0..MaxFaults
    BY <1>11, BoundsAssumption DEF ReplayFails, TypeOK, Fault
  <2> QED BY <1>11, <2>1, <2>2 DEF ReplayFails, TypeOK
<1>12. CASE Replayed
  <2>1. sender' \in Senders /\ ready' \in {"pending", "done"} /\ consumer' \in Consumers
    BY <1>12, Resolved, TaskMoves DEF Replayed, ConsumerTo, TypeOK
  <2> QED BY <1>12, <2>1 DEF Replayed, TypeOK
<1>13. CASE Drop
  <2>1. sender' \in Senders /\ ready' \in {"pending", "done"} /\ consumer' \in Consumers
    BY <1>13, ConsumerEnded DEF Drop
  <2>2. session' \in [Sessions -> SessionStates]
    BY <1>13, <1>0, SessionMoves DEF Drop, Ended, TypeOK
  <2>3. failed' \in BOOLEAN
    BY <1>13 DEF Drop, TypeOK
  <2>4. faults' \in 0..MaxFaults
    BY <1>13, BoundsAssumption DEF Drop, TypeOK, Fault
  <2> QED BY <1>13, <2>1, <2>2, <2>3, <2>4 DEF Drop, TypeOK
<1> QED BY <1>1, <1>2, <1>3, <1>4, <1>5, <1>6, <1>7, <1>8, <1>9, <1>10, <1>11, <1>12, <1>13 DEF Consuming

\* A session that ends or takes a frame is otherwise the same.
LEMMA SessionFields ==
  ASSUME TypeOK, NEW k \in Sessions
  PROVE  /\ \A st \in {"none", "open", "failed", "ended"}, j \in Sessions :
              session' = [session EXCEPT ![k].state = st] =>
                /\ session'[j].base = session[j].base /\ session'[j].got = session[j].got /\ session'[j].mark = session[j].mark
                /\ session'[j].state = IF j = k THEN st ELSE session[j].state
         /\ Ended(k) => \A j \in Sessions :
                /\ session'[j].base = session[j].base /\ session'[j].got = session[j].got /\ session'[j].mark = session[j].mark
                /\ session'[j].state = IF j = k /\ session[k].state = "open" THEN "ended"
                                       ELSE session[j].state
         /\ Takes(k) =>
              /\ session'[k].got = Append(session[k].got, sent)
              /\ \A j \in Sessions :
                   /\ session'[j].base = session[j].base /\ session'[j].state = session[j].state /\ session'[j].mark = session[j].mark
                   /\ j # k => session'[j].got = session[j].got
<1>1. session \in [Sessions -> SessionStates]
  BY DEF TypeOK
<1>2. \A st \in {"none", "open", "failed", "ended"}, j \in Sessions :
        session' = [session EXCEPT ![k].state = st] =>
          /\ session'[j].base = session[j].base /\ session'[j].got = session[j].got /\ session'[j].mark = session[j].mark
          /\ session'[j].state = IF j = k THEN st ELSE session[j].state
  BY <1>1 DEF SessionStates
<1>3. ASSUME Ended(k), NEW j \in Sessions
      PROVE  /\ session'[j].base = session[j].base /\ session'[j].got = session[j].got /\ session'[j].mark = session[j].mark
             /\ session'[j].state = IF j = k /\ session[k].state = "open" THEN "ended" ELSE session[j].state
  BY <1>2, <1>3 DEF Ended
<1>4. ASSUME Takes(k), NEW j \in Sessions
      PROVE  /\ session'[k].got = Append(session[k].got, sent)
             /\ session'[j].base = session[j].base /\ session'[j].state = session[j].state /\ session'[j].mark = session[j].mark
             /\ j # k => session'[j].got = session[j].got
  BY <1>1, <1>4 DEF Takes, SessionStates
<1> QED BY <1>2, <1>3, <1>4

\* A finish that raises has at most ended a session and forgotten the candidate.
LEMMA Raised ==
  ASSUME TypeOK, FinishRaises
  PROVE  /\ UNCHANGED <<audioVars, stt, attempt, ready, opening, lock, sender, consumer, life, stop, failed>>
         /\ closing \in {"candidate", "finish", "gather"} /\ closing' = "raised"
         /\ candidate' \in {0, candidate} /\ faults' \in 0..MaxFaults
         /\ session' \in [Sessions -> SessionStates]
         /\ \A j \in Sessions :
              /\ session'[j].base = session[j].base /\ session'[j].got = session[j].got
              /\ session'[j].mark = session[j].mark
              /\ \/ session'[j].state = session[j].state
                 \/ session[j].state = "open" /\ session'[j].state \in {"failed", "ended"}
              /\ session'[j].state # session[j].state => j = stt \/ session'[j].state = "ended"
<1>0. stt \in Sessions /\ session \in [Sessions -> SessionStates]
  BY DEF TypeOK
<1>1. faults' \in 0..MaxFaults
  BY BoundsAssumption DEF FinishRaises, TypeOK, Fault
<1> DEFINE Fits ==
      /\ session' \in [Sessions -> SessionStates]
      /\ \A j \in Sessions :
           /\ session'[j].base = session[j].base /\ session'[j].got = session[j].got
           /\ session'[j].mark = session[j].mark
           /\ \/ session'[j].state = session[j].state
              \/ session[j].state = "open" /\ session'[j].state \in {"failed", "ended"}
           /\ session'[j].state # session[j].state => j = stt \/ session'[j].state = "ended"
<1> HIDE DEF Fits
<1>2. ASSUME UNCHANGED session
      PROVE  Fits
  BY <1>0, <1>2 DEF Fits
<1>3. ASSUME NEW k \in Sessions, NEW how \in {"failed", "ended"}, session[k].state = "open",
             k = stt \/ how = "ended", session' = [session EXCEPT ![k].state = how]
      PROVE  Fits
  <2>1. session' = [session EXCEPT ![k].state = how] /\ how \in {"none", "open", "failed", "ended"}
    BY <1>3
  <2>2. session' \in [Sessions -> SessionStates]
    BY <2>1, SessionMoves
  <2>3. \A j \in Sessions :
          /\ session'[j].base = session[j].base /\ session'[j].got = session[j].got
          /\ session'[j].mark = session[j].mark
          /\ session'[j].state = IF j = k THEN how ELSE session[j].state
    BY <2>1, <1>0 DEF SessionStates
  <2> QED BY <1>3, <2>2, <2>3 DEF Fits
<1>4. ASSUME candidate # 0, Ended(candidate)
      PROVE  Fits
  <2>1. candidate \in Sessions
    BY <1>4 DEF TypeOK
  <2>2. \/ UNCHANGED session
        \/ session[candidate].state = "open" /\ session' = [session EXCEPT ![candidate].state = "ended"]
    BY <1>4 DEF Ended
  <2> QED BY <1>2, <1>3, <2>1, <2>2
<1>5. Fits
  <2>1. \/ candidate # 0 /\ Ended(candidate)
        \/ UNCHANGED session
        \/ /\ session[stt].state = "open"
           /\ \E how \in {"failed", "ended"} : session' = [session EXCEPT ![stt].state = how]
    BY DEF FinishRaises
  <2> QED BY <1>0, <1>2, <1>3, <1>4, <2>1
<1>6. /\ closing \in {"candidate", "finish", "gather"} /\ closing' = "raised"
      /\ candidate' \in {0, candidate}
      /\ UNCHANGED <<audioVars, stt, attempt, ready, opening, lock, sender, consumer, life, stop, failed>>
  BY DEF FinishRaises
<1> QED BY <1>1, <1>5, <1>6 DEF Fits

\* So do the opening of a replacement and finish.
LEMMA TypesKeptByEnd ==
  ASSUME TypeOK, Opening \/ OpenFails \/ Finish \/ Closing \/ FinishRaises
  PROVE  TypeOK'
<1> USE DEF audioVars, replacementVars, endVars
<1>0. stt \in Sessions /\ attempt \in Sessions
  BY DEF TypeOK
<1>1. CASE Connect
  <2>1. session' \in [Sessions -> SessionStates]
    BY <1>1, <1>0, SessionMoves, ReplayBeginsNow DEF Connect
  <2> QED BY <1>1, <2>1 DEF Connect, TypeOK
<1>2. CASE Connected
  <2>1. session' \in [Sessions -> SessionStates]
    BY <1>2, <1>0, SessionMoves DEF Connected
  <2> QED BY <1>2, <2>1 DEF Connected, TypeOK
<1>3. CASE OpenFails
  <2>1. faults' \in 0..MaxFaults
    BY <1>3, BoundsAssumption DEF OpenFails, TypeOK, Fault
  <2> QED BY <1>3, <2>1 DEF OpenFails, TypeOK
<1>4. CASE Finish
  <2>1. sender' \in Senders /\ ready' \in {"pending", "done"}
    BY <1>4, Resolved DEF Finish
  <2>2. opening' \in {"none", "gate", "connecting", "opened", "refused", "cancelled"}
        /\ candidate' \in {0} \cup Sessions /\ failed' \in BOOLEAN
    BY <1>4 DEF Finish, TypeOK
  <2> QED BY <1>4, <2>1, <2>2 DEF Finish, TypeOK
<1>5. CASE CancelCandidate
  <2>1. session' \in [Sessions -> SessionStates]
    <3>1. CASE UNCHANGED session
      BY <3>1 DEF TypeOK
    <3>2. CASE candidate # 0 /\ Ended(candidate)
      <4>1. candidate \in Sessions
        BY <3>2 DEF TypeOK
      <4>2. UNCHANGED session \/ session' = [session EXCEPT ![candidate].state = "ended"]
        BY <3>2 DEF Ended
      <4> DEFINE new == [session EXCEPT ![candidate].state = "ended"]
      <4>3. session \in [Sessions -> SessionStates]
        BY DEF TypeOK
      <4>4. new \in [Sessions -> SessionStates]
        BY <4>1, SessionMoves
      <4>5. UNCHANGED session \/ session' = new
        BY <4>2
      <4> HIDE DEF new
      <4> QED BY <4>3, <4>4, <4>5
    <3>3. UNCHANGED session \/ (candidate # 0 /\ Ended(candidate))
      BY <1>5 DEF CancelCandidate
    <3> QED BY <3>1, <3>2, <3>3
  <2>2. closing' = "finish" /\ candidate' = 0
        /\ UNCHANGED <<audioVars, stt, attempt, ready, opening, lock, sender, consumer, life, stop, failed, faults>>
    BY <1>5 DEF CancelCandidate
  <2> QED BY <2>1, <2>2 DEF TypeOK
<1>6. CASE FinishStream
  <2>1. session' \in [Sessions -> SessionStates]
    <3>1. CASE Ended(stt)
      BY <1>0, <3>1, SessionMoves DEF Ended, TypeOK
    <3>2. CASE session' = [session EXCEPT ![stt].state = "failed"]
      BY <1>0, <3>2, SessionMoves
    <3> QED BY <1>6, <3>1, <3>2 DEF FinishStream
  <2>2. faults' \in 0..MaxFaults
    BY <1>6, BoundsAssumption DEF FinishStream, TypeOK, Fault
  <2> QED BY <1>6, <2>1, <2>2 DEF FinishStream, TypeOK
<1>7. CASE Drain
  BY <1>7 DEF Drain, TypeOK
<1>8. CASE Gather
  BY <1>8 DEF Gather, TypeOK
<1>9. CASE FinishRaises
  BY <1>9, Raised DEF TypeOK
<1> QED BY <1>1, <1>2, <1>3, <1>4, <1>5, <1>6, <1>7, <1>8, <1>9 DEF Opening, Closing

\* No step breaks a type.
LEMMA TypesKept ==
  ASSUME TypeOK, Placed, [Next]_vars
  PROVE  TypeOK'
<1>1. CASE UNCHANGED vars
  BY <1>1 DEF TypeOK, vars, audioVars, replacementVars, endVars
<1> QED BY <1>1, TypesKeptBySender, TypesKeptBySession, TypesKeptByConsumer, TypesKeptByEnd DEF Next

-----------------------------------------------------------------------------
(* Places *)

\* The lock is taken and given back where the program says.
LEMMA LockHeldKept ==
  ASSUME TypeOK, TypeOK', Placed, Next
  PROVE  LockHeld'
<1> USE DEF Placed, LockHeld, SenderTo, ConsumerTo, Raise, At, Reading, TypeOK, Senders, Consumers
<1>1. CASE Claim
  BY <1>1 DEF Claim, audioVars, replacementVars, endVars
<1>2. CASE Enter
  BY <1>2 DEF Enter, audioVars, replacementVars, endVars
<1>3. CASE Accept
  BY <1>3 DEF Accept, audioVars, replacementVars, endVars
<1>4. CASE SendLands
  <2>1. lock' = "free" /\ sender'.pc \in {"over", "sink"} /\ consumer' = consumer
    BY <1>4 DEF SendLands
  <2>2. lock = "sender"
    BY <1>4 DEF SendLands
  <2> QED BY <2>1, <2>2
<1>5. CASE SendFails
  BY <1>5 DEF SendFails, audioVars, replacementVars, endVars
<1>6. CASE Answered
  BY <1>6 DEF Answered, audioVars, replacementVars, endVars
<1>7. CASE Recheck
  BY <1>7 DEF Recheck, audioVars, replacementVars, endVars
<1>8. CASE Sink
  BY <1>8 DEF Sink, audioVars, replacementVars, endVars
<1>9. CASE GateRefuses
  BY <1>9 DEF GateRefuses, audioVars, replacementVars, endVars
<1>10. CASE CancelSender
  BY <1>10 DEF CancelSender, IdleSender
<1>11. ASSUME NEW k \in Sessions, Mark(k)
       PROVE  LockHeld'
  BY <1>11 DEF Mark
<1>12. ASSUME NEW k \in Sessions, StreamFails(k)
       PROVE  LockHeld'
  BY <1>12 DEF StreamFails
<1>13. CASE AskBoundary
  BY <1>13 DEF AskBoundary, audioVars, replacementVars, endVars
<1>14. CASE BoundaryAsked
  BY <1>14 DEF BoundaryAsked, audioVars, replacementVars, endVars
<1>15. CASE HandleBoundary
  BY <1>15 DEF HandleBoundary, audioVars, replacementVars, endVars
<1>16. CASE StageFails
  BY <1>16, ConsumerEnded DEF StageFails
<1>17. CASE HandleTerminal
  BY <1>17 DEF HandleTerminal, audioVars, replacementVars, endVars
<1>18. CASE Decide
  BY <1>18, ConsumerEnded DEF Decide
<1>19. CASE StreamOver
  BY <1>19, ConsumerEnded DEF StreamOver
<1>20. CASE Delay
  BY <1>20, ConsumerEnded DEF Delay
<1>21. CASE Prepare
  BY <1>21, ConsumerEnded DEF Prepare
<1>22. CASE Opened
  BY <1>22, ConsumerEnded DEF Opened
<1>23. CASE Install
  BY <1>23 DEF Install, audioVars, replacementVars, endVars
<1>24. CASE ReplayOne
  BY <1>24 DEF ReplayOne, audioVars, replacementVars, endVars
<1>25. CASE ReplayFails
  BY <1>25 DEF ReplayFails, audioVars, replacementVars, endVars
<1>26. CASE Replayed
  <2>1. sender'.pc = sender.pc /\ consumer'.pc \in {"drop", "events"}
    BY <1>26, Resolved DEF Replayed
  <2> QED BY <1>26, <2>1 DEF Replayed
<1>27. CASE Drop
  BY <1>27, ConsumerEnded DEF Drop
<1>28. CASE Connect
  BY <1>28 DEF Connect, audioVars, replacementVars, endVars
<1>29. CASE Connected
  BY <1>29 DEF Connected, audioVars, replacementVars, endVars
<1>30. CASE OpenFails
  BY <1>30 DEF OpenFails, audioVars, replacementVars, endVars
<1>31. CASE Finish
  BY <1>31, Resolved DEF Finish
<1>32. CASE CancelCandidate
  BY <1>32 DEF CancelCandidate, audioVars, replacementVars, endVars
<1>33. CASE FinishStream
  BY <1>33 DEF FinishStream, audioVars, replacementVars, endVars
<1>34. CASE Drain
  BY <1>34 DEF Drain, audioVars, replacementVars, endVars
<1>35. CASE Gather
  BY <1>35 DEF Gather, audioVars, replacementVars, endVars
<1>36. CASE FinishRaises
  BY <1>36, Raised
<1> QED
  BY <1>1, <1>2, <1>3, <1>4, <1>5, <1>6, <1>7, <1>8, <1>9, <1>10, <1>11, <1>12, <1>13, <1>14,
     <1>15, <1>16, <1>17, <1>18, <1>19, <1>20, <1>21, <1>22, <1>23, <1>24, <1>25, <1>26, <1>27,
     <1>28, <1>29, <1>30, <1>31, <1>32, <1>33, <1>34, <1>35, <1>36 DEF Next, Sending, Consuming,
     Opening, Closing

\* The counters the sender compares are numbers.
LEMMA SenderNumbers ==
  ASSUME TypeOK
  PROVE  /\ cursor \in Nat /\ sent \in Nat /\ committed \in Nat
         /\ stt \in Nat /\ attempt \in Nat /\ sender \in Senders /\ sender.cur \in Nat
<1>1. cursor \in Nat /\ sent \in Nat /\ committed \in Nat
  BY DEF TypeOK, Frames
<1>2. stt \in Nat /\ attempt \in Nat
  BY DEF TypeOK, Sessions
<1>3. sender \in Senders
  BY DEF TypeOK
<1>4. sender.cur \in Nat
  BY <1>3 DEF Senders, Sessions
<1> QED BY <1>1, <1>2, <1>3, <1>4

\* A sender is told of a replacement of the session it has sent to.
LEMMA SenderPlacedKept ==
  ASSUME TypeOK, TypeOK', Placed, Next
  PROVE  SenderPlaced'
<1> USE DEF Placed, SenderPlaced, LockHeld, SenderTo, ConsumerTo, Raise, At, Reading
<1>0. cursor \in Nat /\ sent \in Nat /\ stt \in Nat /\ attempt \in Nat /\ sender \in Senders /\ sender.cur \in Nat
  BY SenderNumbers
<1>1. CASE Claim
  <2>1. sender'.pc = "enter" /\ cursor' = cursor + 1 /\ sent' = sent
    BY <1>1, <1>0 DEF Claim, Senders
  <2>2. UNCHANGED <<stt, consumer, lock>> /\ sent <= cursor
    BY <1>1 DEF Claim, replacementVars
  <2> QED BY <1>0, <2>1, <2>2
<1>2. CASE Enter
  BY <1>2, <1>0 DEF Enter, audioVars, replacementVars, endVars, Senders
<1>3. CASE Accept
  <2>1. sender'.pc = "sending" /\ sender'.cur = stt /\ sent' = sent + 1 /\ cursor' = cursor /\ stt' = stt
    BY <1>3, <1>0 DEF Accept, replacementVars, Senders
  <2>2. sent < cursor
    BY <1>3 DEF Accept
  <2> QED BY <1>0, <2>1, <2>2
<1>4. CASE SendLands
  <2>1. sender'.pc \in {"over", "sink"} /\ UNCHANGED <<sent, cursor, stt>>
    BY <1>4, <1>0 DEF SendLands, audioVars, replacementVars, Senders
  <2> QED BY <1>0, <2>1
<1>5. CASE SendFails
  <2>1. UNCHANGED <<sent, cursor, stt, consumer>> /\ sender.pc = "sending"
    BY <1>5 DEF SendFails, audioVars
  <2>2. ~Reading("replay")
    BY <2>1
  <2>3. sender'.pc = "over" \/ (sender'.pc = "waiting" /\ sender'.cur = sender.cur /\ sender'.answer = "pending")
    BY <1>5, <1>0 DEF SendFails, Senders
  <2> QED BY <1>0, <2>1, <2>2, <2>3
<1>6. CASE Answered
  BY <1>6 DEF Answered, audioVars, replacementVars, endVars, TypeOK, Senders, Consumers
<1>7. CASE Recheck
  BY <1>7 DEF Recheck, audioVars, replacementVars, endVars, TypeOK, Senders, Consumers
<1>8. CASE Sink
  BY <1>8 DEF Sink, audioVars, replacementVars, endVars, TypeOK, Senders, Consumers
<1>9. CASE GateRefuses
  BY <1>9 DEF GateRefuses, audioVars, replacementVars, endVars, TypeOK, Senders, Consumers
<1>10. CASE CancelSender
  BY <1>10, <1>0 DEF CancelSender, IdleSender
<1>11. ASSUME NEW k \in Sessions, Mark(k)
       PROVE  SenderPlaced'
  BY <1>11 DEF Mark, audioVars, replacementVars
<1>12. ASSUME NEW k \in Sessions, StreamFails(k)
       PROVE  SenderPlaced'
  BY <1>12 DEF StreamFails, audioVars, replacementVars
<1>13. CASE AskBoundary
  BY <1>13 DEF AskBoundary, audioVars, replacementVars, endVars, TypeOK, Senders, Consumers
<1>14. CASE BoundaryAsked
  BY <1>14 DEF BoundaryAsked, audioVars, replacementVars, endVars, TypeOK, Senders, Consumers
<1>15. CASE HandleBoundary
  BY <1>15 DEF HandleBoundary, audioVars, replacementVars, endVars, TypeOK, Senders, Consumers
<1>16. CASE StageFails
  <2>1. UNCHANGED <<sent, cursor, stt>>
    BY <1>16 DEF StageFails, audioVars, replacementVars
  <2>2. sender' = sender \/ ConsumerEnds
    BY <1>16 DEF StageFails
  <2>3. consumer'.pc # "replay"
    BY <1>16, ConsumerEnded DEF StageFails, TypeOK, Consumers
  <2> QED BY <2>1, <2>2, <2>3, ConsumerEnded
<1>17. CASE HandleTerminal
  BY <1>17 DEF HandleTerminal, audioVars, replacementVars, endVars, TypeOK, Senders, Consumers
<1>18. CASE Decide
  <2>1. UNCHANGED <<sent, cursor, stt>>
    BY <1>18 DEF Decide, audioVars, replacementVars
  <2>2. sender' = sender \/ ConsumerEnds
    BY <1>18 DEF Decide
  <2>3. consumer'.pc # "replay"
    BY <1>18, ConsumerEnded DEF Decide, TypeOK, Consumers
  <2> QED BY <2>1, <2>2, <2>3, ConsumerEnded
<1>19. CASE StreamOver
  <2>1. UNCHANGED <<sent, cursor, stt>>
    BY <1>19 DEF StreamOver, audioVars, replacementVars
  <2>2. sender' = sender \/ ConsumerEnds
    BY <1>19 DEF StreamOver
  <2>3. consumer'.pc # "replay"
    BY <1>19, ConsumerEnded DEF StreamOver, TypeOK, Consumers
  <2> QED BY <2>1, <2>2, <2>3, ConsumerEnded
<1>20. CASE Delay
  <2>1. UNCHANGED <<sent, cursor, stt>>
    BY <1>20 DEF Delay, audioVars, replacementVars
  <2>2. sender' = sender \/ ConsumerEnds
    BY <1>20 DEF Delay
  <2>3. consumer'.pc # "replay"
    BY <1>20, ConsumerEnded DEF Delay, TypeOK, Consumers
  <2> QED BY <2>1, <2>2, <2>3, ConsumerEnded
<1>21. CASE Prepare
  <2>1. UNCHANGED <<sent, cursor, stt>>
    BY <1>21 DEF Prepare, audioVars, replacementVars
  <2>2. sender' = sender \/ ConsumerEnds
    BY <1>21 DEF Prepare
  <2>3. consumer'.pc # "replay"
    BY <1>21, ConsumerEnded DEF Prepare, TypeOK, Consumers
  <2> QED BY <2>1, <2>2, <2>3, ConsumerEnded
<1>22. CASE Opened
  <2>1. UNCHANGED <<sent, cursor, stt>>
    BY <1>22 DEF Opened, audioVars, replacementVars
  <2>2. sender' = sender \/ ConsumerEnds
    BY <1>22 DEF Opened
  <2>3. consumer'.pc # "replay"
    BY <1>22, ConsumerEnded DEF Opened, TypeOK, Consumers
  <2> QED BY <2>1, <2>2, <2>3, ConsumerEnded
<1>23. CASE Install
  <2>1. sender' = sender /\ UNCHANGED <<sent, cursor>> /\ stt <= stt' /\ ~At("sending")
    BY <1>23, <1>0 DEF Install, audioVars, AttemptPlaced
  <2>2. consumer'.pc = "replay" => stt < stt'
    BY <1>23, <1>0 DEF Install, AttemptPlaced, TypeOK, Consumers
  <2> QED BY <1>0, <2>1, <2>2, TypeOK' DEF TypeOK, Sessions
<1>24. CASE ReplayOne
  BY <1>24 DEF ReplayOne, audioVars, replacementVars, TypeOK, Consumers
<1>25. CASE ReplayFails
  BY <1>25 DEF ReplayFails, audioVars, replacementVars, endVars, TypeOK, Senders, Consumers
<1>26. CASE Replayed
  <2>1. UNCHANGED <<sent, cursor, stt>> /\ consumer'.pc # "replay" /\ Reading("replay")
    BY <1>26 DEF Replayed, audioVars, TypeOK, Consumers
  <2>2. sender'.pc = sender.pc /\ sender'.cur = sender.cur
    BY <1>26, Resolved DEF Replayed
  <2> QED BY <2>1, <2>2
<1>27. CASE Drop
  <2>1. UNCHANGED <<sent, cursor, stt>>
    BY <1>27 DEF Drop, audioVars, replacementVars
  <2>2. sender' = sender \/ ConsumerEnds
    BY <1>27 DEF Drop
  <2>3. consumer'.pc # "replay"
    BY <1>27, ConsumerEnded DEF Drop, TypeOK, Consumers
  <2> QED BY <2>1, <2>2, <2>3, ConsumerEnded
<1>28. CASE Connect
  BY <1>28 DEF Connect, audioVars, replacementVars, endVars, TypeOK, Senders, Consumers
<1>29. CASE Connected
  BY <1>29 DEF Connected, audioVars, replacementVars, endVars, TypeOK, Senders, Consumers
<1>30. CASE OpenFails
  BY <1>30 DEF OpenFails, audioVars, replacementVars, endVars, TypeOK, Senders, Consumers
<1>31. CASE Finish
  <2>1. UNCHANGED <<sent, cursor, stt, consumer>>
    BY <1>31 DEF Finish, audioVars
  <2> QED BY <1>31, <2>1, Resolved DEF Finish
<1>32. CASE CancelCandidate
  BY <1>32 DEF CancelCandidate, audioVars, replacementVars, endVars, TypeOK, Senders, Consumers
<1>33. CASE FinishStream
  BY <1>33 DEF FinishStream, audioVars, replacementVars, endVars, TypeOK, Senders, Consumers
<1>34. CASE Drain
  BY <1>34 DEF Drain, audioVars, replacementVars, endVars, TypeOK, Senders, Consumers
<1>35. CASE Gather
  BY <1>35 DEF Gather, audioVars, replacementVars, endVars, TypeOK, Senders, Consumers
<1>36. CASE FinishRaises
  BY <1>36, Raised DEF audioVars
<1> QED
  BY <1>1, <1>2, <1>3, <1>4, <1>5, <1>6, <1>7, <1>8, <1>9, <1>10, <1>11, <1>12, <1>13, <1>14,
     <1>15, <1>16, <1>17, <1>18, <1>19, <1>20, <1>21, <1>22, <1>23, <1>24, <1>25, <1>26, <1>27,
     <1>28, <1>29, <1>30, <1>31, <1>32, <1>33, <1>34, <1>35, <1>36 DEF Next, Sending, Consuming,
     Opening, Closing

\* Frames accepted and committed only move the start of a replay forward.
LEMMA ReplayNeverGoesBack ==
  ASSUME TypeOK, TypeOK', sent <= sent', committed <= committed'
  PROVE  ReplayFrom <= ReplayFrom'
<1>1. \A c, d, n, m \in Nat : c <= d /\ n <= m =>
        (IF c + Window >= n THEN c + 1 ELSE (n + 1) - Window) <= (IF d + Window >= m THEN d + 1 ELSE (m + 1) - Window)
  BY WindowAssumption
<1>2. sent \in Nat /\ committed \in Nat /\ sent' \in Nat /\ committed' \in Nat
  BY DEF TypeOK, Frames
<1> QED BY <1>1, <1>2 DEF ReplayFrom

\* What a session was announced with, and what a later one has, stays.
Announced ==
  \A k \in Sessions : /\ session'[k].base = session[k].base
                      /\ k > stt => session'[k].got = session[k].got

\* A step that leaves the attempt and the replacement alone leaves them in place.
LEMMA AttemptStays ==
  ASSUME TypeOK, TypeOK', AttemptPlaced, Announced, sent <= sent', Working' => Working,
         UNCHANGED <<stt, attempt, opening, consumer, committed>>
  PROVE  AttemptPlaced'
<1>1. attempt \in Sessions /\ session[attempt].base \in Nat /\ ReplayFrom \in Nat /\ ReplayFrom' \in Nat
  <2>1. session[attempt] \in SessionStates
    BY DEF TypeOK
  <2>2. /\ sent \in Nat /\ committed \in Nat /\ sent' \in Nat /\ committed' \in Nat
        /\ \A f \in Frames : f \in Nat
    BY DEF TypeOK, Frames
  <2>3. \A c, n \in Nat : (IF c + Window >= n THEN c + 1 ELSE (n + 1) - Window) \in Nat
    BY WindowAssumption
  <2>4. ReplayFrom \in Nat /\ ReplayFrom' \in Nat
    BY <2>2, <2>3 DEF ReplayFrom
  <2> QED BY <2>1, <2>2, <2>4 DEF TypeOK, SessionStates
<1>2. ReplayFrom <= ReplayFrom'
  BY ReplayNeverGoesBack DEF TypeOK, Frames
<1> QED BY <1>1, <1>2 DEF AttemptPlaced, Announced, Reading

\* No session is used before it is installed, and then none that was tried later.
LEMMA AttemptPlacedKept ==
  ASSUME TypeOK, TypeOK', Placed, Next
  PROVE  AttemptPlaced'
<1> USE DEF Placed, ConsumerTo, Reading
<1>0. /\ sent \in Nat /\ committed \in Nat /\ stt \in Sessions /\ attempt \in Sessions
      /\ \A k \in Sessions : k \in Nat /\ session[k] \in SessionStates
      /\ session' \in [Sessions -> SessionStates] /\ session \in [Sessions -> SessionStates]
      /\ consumer \in Consumers /\ AttemptPlaced
  <2>1. session \in [Sessions -> SessionStates] /\ session' \in [Sessions -> SessionStates]
    BY DEF TypeOK
  <2>2. sent \in Nat /\ committed \in Nat /\ stt \in Sessions /\ attempt \in Sessions /\ consumer \in Consumers
    BY DEF TypeOK, Frames
  <2>3. \A k \in Sessions : k \in Nat
    BY DEF Sessions
  <2> QED BY <2>1, <2>2, <2>3 DEF Placed
<1>1. CASE Claim
  <2>1. Announced /\ UNCHANGED <<stt, attempt, opening, consumer, committed, sent>>
    BY <1>1 DEF Claim, Announced, audioVars, replacementVars
  <2> QED BY <2>1, <1>1, <1>0, AttemptStays DEF Claim, endVars, Working
<1>2. CASE Enter
  <2>1. Announced /\ UNCHANGED <<stt, attempt, opening, consumer, committed, sent>>
    BY <1>2 DEF Enter, Announced, audioVars, replacementVars
  <2> QED BY <2>1, <1>2, <1>0, AttemptStays DEF Enter, endVars, Working
<1>3. CASE Accept
  <2>1. Announced /\ UNCHANGED <<stt, attempt, opening, consumer, committed>> /\ sent <= sent'
    BY <1>3, <1>0 DEF Accept, Announced, replacementVars
  <2> QED BY <2>1, <1>3, AttemptStays DEF Accept, endVars, Working
<1>4. CASE SendLands
  <2>1. UNCHANGED <<stt, attempt, opening, consumer, committed, sent>> /\ sender.cur = stt /\ Takes(sender.cur)
    BY <1>4 DEF SendLands, audioVars, replacementVars, SenderPlaced
  <2>2. Announced
    BY <2>1, <1>0, SessionFields DEF Announced
  <2> QED BY <2>1, <2>2, <1>4, <1>0, AttemptStays DEF SendLands, Working
<1>5. CASE SendFails
  <2>1. Announced /\ UNCHANGED <<stt, attempt, opening, consumer, committed, sent>>
    BY <1>5 DEF SendFails, Announced, audioVars, replacementVars
  <2> QED BY <2>1, <1>5, <1>0, AttemptStays DEF SendFails, endVars, Working
<1>6. CASE Answered
  <2>1. Announced /\ UNCHANGED <<stt, attempt, opening, consumer, committed, sent>>
    BY <1>6 DEF Answered, Announced, audioVars, replacementVars
  <2> QED BY <2>1, <1>6, <1>0, AttemptStays DEF Answered, endVars, Working
<1>7. CASE Recheck
  <2>1. Announced /\ UNCHANGED <<stt, attempt, opening, consumer, committed, sent>>
    BY <1>7 DEF Recheck, Announced, audioVars, replacementVars
  <2> QED BY <2>1, <1>7, <1>0, AttemptStays DEF Recheck, endVars, Working
<1>8. CASE Sink
  <2>1. Announced /\ UNCHANGED <<stt, attempt, opening, consumer, committed, sent>>
    BY <1>8 DEF Sink, Announced, audioVars, replacementVars
  <2> QED BY <2>1, <1>8, <1>0, AttemptStays DEF Sink, endVars, Working
<1>9. CASE GateRefuses
  <2>1. Announced /\ UNCHANGED <<stt, attempt, opening, consumer, committed, sent>>
    BY <1>9 DEF GateRefuses, Announced, audioVars, replacementVars
  <2> QED BY <2>1, <1>9, <1>0, AttemptStays DEF GateRefuses, endVars, Working
<1>10. CASE CancelSender
  <2>1. UNCHANGED <<stt, attempt, opening, consumer, committed, sent>>
    BY <1>10 DEF CancelSender
  <2>2. UNCHANGED session \/ (sender.cur = stt /\ Takes(sender.cur))
    BY <1>10 DEF CancelSender, SenderPlaced
  <2>3. Announced
    BY <2>2, <1>0, SessionFields DEF Announced
  <2> QED BY <2>1, <2>3, <1>10, <1>0, AttemptStays DEF CancelSender, endVars, Working
<1>11. ASSUME NEW k \in Sessions, Mark(k)
       PROVE  AttemptPlaced'
  <2>0. PICK n \in Frames : session' = [session EXCEPT ![k].mark = n]
    BY <1>11 DEF Mark
  <2>1. Announced /\ UNCHANGED <<stt, attempt, opening, consumer, committed, sent>>
    BY <1>11, <1>0, <2>0 DEF Mark, Announced, audioVars, replacementVars
  <2> QED BY <2>1, <1>11, <1>0, AttemptStays DEF Mark, endVars, Working
<1>12. ASSUME NEW k \in Sessions, StreamFails(k)
       PROVE  AttemptPlaced'
  <2>1. Announced /\ UNCHANGED <<stt, attempt, opening, consumer, committed, sent>>
    BY <1>12, <1>0 DEF StreamFails, Announced, audioVars, replacementVars
  <2> QED BY <2>1, <1>12, <1>0, AttemptStays DEF StreamFails, endVars, Working
<1>13. CASE AskBoundary
  <2>1. Announced /\ UNCHANGED <<stt, attempt, opening, consumer, committed, sent>>
    BY <1>13 DEF AskBoundary, Announced, audioVars, replacementVars
  <2> QED BY <2>1, <1>13, <1>0, AttemptStays DEF AskBoundary, endVars, Working
<1>14. CASE BoundaryAsked
  <2>1. Announced /\ UNCHANGED <<stt, attempt, opening, consumer, committed, sent>>
    BY <1>14 DEF BoundaryAsked, Announced, audioVars, replacementVars
  <2> QED BY <2>1, <1>14, <1>0, AttemptStays DEF BoundaryAsked, endVars, Working
<1>15. CASE HandleBoundary
  <2>1. \A k \in Sessions : session'[k].got = session[k].got
    BY <1>15, <1>0 DEF HandleBoundary
  <2> QED BY <1>15, <2>1 DEF HandleBoundary, AttemptPlaced, replacementVars
<1>16. CASE StageFails
  <2>1. UNCHANGED <<stt, attempt, opening, session>> /\ consumer'.pc = "done"
    BY <1>16, ConsumerEnded DEF StageFails
  <2> QED BY <2>1, <1>16 DEF StageFails, AttemptPlaced
<1>17. CASE HandleTerminal
  <2>1. UNCHANGED <<stt, attempt, opening, session>> /\ consumer'.pc = "join"
    BY <1>17, <1>0 DEF HandleTerminal, replacementVars, Consumers
  <2> QED BY <2>1, <1>17 DEF HandleTerminal, AttemptPlaced
<1>18. CASE Decide
  <2>1. UNCHANGED <<stt, attempt, opening, session>> /\ Reading("join")
    BY <1>18 DEF Decide
  <2>2. consumer'.pc = "done" \/ (consumer'.pc = "delay" /\ attempt < MaxAttempts)
    BY <1>18, <1>0, ConsumerEnded DEF Decide, Consumers
  <2> QED BY <2>1, <2>2 DEF AttemptPlaced
<1>19. CASE StreamOver
  <2>1. UNCHANGED <<stt, attempt, opening, session>> /\ consumer'.pc = "done"
    BY <1>19, ConsumerEnded DEF StreamOver
  <2> QED BY <2>1, <1>19 DEF StreamOver, AttemptPlaced
<1>20. CASE Delay
  <2>1. UNCHANGED <<stt, opening, session>> /\ Reading("delay")
    BY <1>20 DEF Delay
  <2>2. \/ consumer'.pc = "done" /\ attempt' = attempt
        \/ consumer'.pc = "prepare" /\ attempt' = attempt + 1
    BY <1>20, <1>0, ConsumerEnded DEF Delay, Consumers
  <2>3. stt < attempt + 1
    BY <1>0 DEF AttemptPlaced
  <2> QED BY <1>0, <2>1, <2>2, <2>3 DEF AttemptPlaced
<1>21. CASE Prepare
  <2>1. UNCHANGED <<stt, attempt, session>> /\ Reading("prepare")
    BY <1>21 DEF Prepare
  <2>2. \/ consumer'.pc = "done" /\ opening' = opening
        \/ consumer'.pc = "open" /\ opening' = "gate"
    BY <1>21, <1>0, ConsumerEnded DEF Prepare, Consumers
  <2> QED BY <1>0, <2>1, <2>2 DEF AttemptPlaced
<1>22. CASE Opened
  <2>1. UNCHANGED <<stt, attempt, session, audioVars>> /\ Reading("open") /\ opening' = "none"
    BY <1>22 DEF Opened
  <2>2. \/ consumer'.pc = "done"
        \/ consumer'.pc = "install" /\ opening = "opened"
    BY <1>22, <1>0, ConsumerEnded DEF Opened, Consumers
  <2> QED BY <1>0, <2>1, <2>2 DEF AttemptPlaced, ReplayFrom, audioVars
<1>23. CASE Install
  <2>1. UNCHANGED <<attempt, opening>> /\ Reading("install") /\ stt < attempt
    BY <1>23 DEF Install, AttemptPlaced
  <2>2. CASE Working
    <3>1. stt' = attempt /\ consumer'.pc = "replay"
      BY <1>23, <1>0, <2>2 DEF Install, Consumers
    <3>2. \A k \in Sessions : k > attempt => session'[k].got = session[k].got
      BY <1>23, <1>0, <2>2, <2>1 DEF Install
    <3> QED BY <1>0, <2>1, <3>1, <3>2 DEF AttemptPlaced
  <2>3. CASE ~Working
    <3>1. UNCHANGED <<stt, session>> /\ consumer'.pc = "drop" /\ ~Working'
      BY <1>23, <1>0, <2>3 DEF Install, Consumers, endVars, Working
    <3> QED BY <1>0, <2>1, <3>1 DEF AttemptPlaced
  <2> QED BY <2>2, <2>3
<1>24. CASE ReplayOne
  <2>1. UNCHANGED <<stt, attempt, opening>> /\ Reading("replay") /\ consumer'.pc = "replay"
    BY <1>24, <1>0 DEF ReplayOne, replacementVars, Consumers
  <2>2. \A k \in Sessions : k > stt => session'[k].got = session[k].got
    BY <1>24, <1>0 DEF ReplayOne
  <2> QED BY <1>0, <2>1, <2>2 DEF AttemptPlaced
<1>25. CASE ReplayFails
  <2>1. UNCHANGED <<stt, attempt, opening, session>> /\ consumer'.pc = "drop" /\ consumer'.erred /\ Reading("replay")
    BY <1>25, <1>0 DEF ReplayFails, Consumers
  <2> QED BY <2>1 DEF AttemptPlaced
<1>26. CASE Replayed
  <2>1. UNCHANGED <<stt, attempt, opening, session>> /\ Reading("replay")
    BY <1>26 DEF Replayed
  <2>2. consumer'.pc = "events" \/ (consumer'.pc = "drop" /\ ~Working')
    BY <1>26, <1>0 DEF Replayed, Consumers, endVars, Working
  <2> QED BY <2>1, <2>2 DEF AttemptPlaced
<1>27. CASE Drop
  <2>1. UNCHANGED <<stt, attempt, opening>> /\ Reading("drop") /\ consumer'.pc = "done"
    BY <1>27, ConsumerEnded DEF Drop
  <2>2. \A k \in Sessions : session'[k].got = session[k].got
    BY <1>27, <1>0 DEF Drop, Ended
  <2> QED BY <1>0, <2>1, <2>2 DEF AttemptPlaced
<1>28. CASE Connect
  <2>1. attempt > stt /\ opening' = "connecting" /\ consumer.pc = "open"
    BY <1>28 DEF Connect, AttemptPlaced
  <2>2. session'[attempt].base = ReplayFrom - 1 /\ ReplayFrom' = ReplayFrom
    BY <1>28, <1>0 DEF Connect, ReplayFrom, audioVars
  <2>3. committed <= ReplayFrom - 1 /\ ReplayFrom - 1 < ReplayFrom
    BY ReplayBeginsNow, <1>0
  <2>4. \A k \in Sessions : session'[k].got = session[k].got
    BY <1>28, <1>0 DEF Connect
  <2> QED BY <1>28, <1>0, <2>1, <2>2, <2>3, <2>4 DEF Connect, AttemptPlaced, audioVars
<1>29. CASE Connected
  <2>1. \A k \in Sessions : session'[k].got = session[k].got /\ session'[k].base = session[k].base
    BY <1>29, <1>0 DEF Connected
  <2> QED BY <1>29, <1>0, <2>1 DEF Connected, AttemptPlaced, ReplayFrom, audioVars
<1>30. CASE OpenFails
  BY <1>30, <1>0 DEF OpenFails, AttemptPlaced, Working, ReplayFrom, audioVars, endVars
<1>31. CASE Finish
  BY <1>31, <1>0 DEF Finish, AttemptPlaced, Working, ReplayFrom, audioVars
<1>32. CASE CancelCandidate
  <2>1. UNCHANGED <<stt, attempt, opening, consumer, committed, sent>>
    BY <1>32 DEF CancelCandidate, audioVars
  <2>2. UNCHANGED session \/ (candidate \in Sessions /\ Ended(candidate))
    BY <1>32 DEF CancelCandidate, TypeOK
  <2>3. Announced
    BY <2>2, SessionFields DEF Announced
  <2> QED BY <2>1, <2>3, <1>32, <1>0, AttemptStays DEF CancelCandidate, Working
<1>33. CASE FinishStream
  <2>1. UNCHANGED <<stt, attempt, opening, consumer, committed, sent>>
    BY <1>33 DEF FinishStream, audioVars, replacementVars
  <2>2. Announced
    BY <1>33, <1>0, SessionFields DEF FinishStream, Announced
  <2> QED BY <2>1, <2>2, <1>33, <1>0, AttemptStays DEF FinishStream, Working
<1>34. CASE Drain
  <2>1. Announced /\ UNCHANGED <<stt, attempt, opening, consumer, committed, sent>>
    BY <1>34 DEF Drain, Announced, audioVars, replacementVars
  <2> QED BY <2>1, <1>34, <1>0, AttemptStays DEF Drain, endVars, Working
<1>35. CASE Gather
  <2>1. Announced /\ UNCHANGED <<stt, attempt, opening, consumer, committed, sent>>
    BY <1>35 DEF Gather, Announced, audioVars, replacementVars
  <2> QED BY <2>1, <1>35, <1>0, AttemptStays DEF Gather, endVars, Working
<1>36. CASE FinishRaises
  <2>1. UNCHANGED <<stt, attempt, opening, consumer, committed, sent>>
    BY <1>36, Raised DEF audioVars
  <2>2. Announced
    BY <1>36, Raised DEF Announced
  <2> QED BY <2>1, <2>2, <1>36, <1>0, AttemptStays, Raised DEF Working
<1> QED
  BY <1>1, <1>2, <1>3, <1>4, <1>5, <1>6, <1>7, <1>8, <1>9, <1>10, <1>11, <1>12, <1>13, <1>14,
     <1>15, <1>16, <1>17, <1>18, <1>19, <1>20, <1>21, <1>22, <1>23, <1>24, <1>25, <1>26, <1>27,
     <1>28, <1>29, <1>30, <1>31, <1>32, <1>33, <1>34, <1>35, <1>36 DEF Next, Sending, Consuming,
     Opening, Closing

\* What is open is known, and what finish has ended nobody opens again.
LEMMA EndPlacedKept ==
  ASSUME TypeOK, TypeOK', Placed, Next
  PROVE  EndPlaced'
<1> USE DEF Placed, ConsumerTo, Reading
<1>0. /\ stt \in Sessions /\ attempt \in Sessions /\ consumer \in Consumers
      /\ session \in [Sessions -> SessionStates]
      /\ LockHeld /\ AttemptPlaced /\ EndPlaced
  BY DEF TypeOK
<1>1. CASE Claim
  BY <1>1, <1>0 DEF Claim, EndPlaced, audioVars, replacementVars, endVars
<1>2. CASE Enter
  BY <1>2, <1>0 DEF Enter, EndPlaced, audioVars, replacementVars, endVars
<1>3. CASE Accept
  BY <1>3, <1>0 DEF Accept, EndPlaced, audioVars, replacementVars, endVars
<1>4. CASE SendLands
  <2>1. Takes(stt) /\ UNCHANGED <<replacementVars, consumer, life, stop, closing>>
    BY <1>4 DEF SendLands, SenderPlaced, At
  <2> QED BY <2>1, <1>0, SessionFields DEF EndPlaced, replacementVars
<1>5. CASE SendFails
  BY <1>5, <1>0 DEF SendFails, EndPlaced, audioVars, replacementVars, endVars
<1>6. CASE Answered
  BY <1>6, <1>0 DEF Answered, EndPlaced, audioVars, replacementVars, endVars
<1>7. CASE Recheck
  BY <1>7, <1>0 DEF Recheck, EndPlaced, audioVars, replacementVars, endVars
<1>8. CASE Sink
  BY <1>8, <1>0 DEF Sink, EndPlaced, audioVars, replacementVars, endVars
<1>9. CASE GateRefuses
  BY <1>9, <1>0 DEF GateRefuses, EndPlaced, audioVars, replacementVars, endVars
<1>10. CASE CancelSender
  <2>1. UNCHANGED session \/ Takes(stt)
    BY <1>10 DEF CancelSender, SenderPlaced, At
  <2>2. UNCHANGED <<stt, attempt, candidate, opening, consumer, life, stop, closing>>
    BY <1>10 DEF CancelSender, endVars
  <2> QED BY <2>1, <2>2, <1>0, SessionFields DEF EndPlaced
<1>11. ASSUME NEW k \in Sessions, Mark(k)
       PROVE  EndPlaced'
  <2>1. \A j \in Sessions : session'[j].state = session[j].state
    BY <1>11, <1>0 DEF Mark, SessionStates
  <2> QED BY <1>11, <1>0, <2>1 DEF Mark, EndPlaced, replacementVars, endVars
<1>12. ASSUME NEW k \in Sessions, StreamFails(k)
       PROVE  EndPlaced'
  <2>1. \A j \in Sessions : session'[j].state = "open" => session[j].state = "open"
    BY <1>12, <1>0, SessionFields DEF StreamFails
  <2> QED BY <1>12, <1>0, <2>1 DEF StreamFails, EndPlaced, replacementVars, endVars
<1>13. CASE AskBoundary
  BY <1>13, <1>0 DEF AskBoundary, EndPlaced, audioVars, replacementVars, endVars
<1>14. CASE BoundaryAsked
  BY <1>14, <1>0 DEF BoundaryAsked, EndPlaced, audioVars, replacementVars, endVars
<1>15. CASE HandleBoundary
  <2>1. \A j \in Sessions : session'[j].state = session[j].state
    BY <1>15, <1>0 DEF HandleBoundary, SessionStates
  <2> QED BY <1>15, <1>0, <2>1 DEF HandleBoundary, EndPlaced, replacementVars, endVars
<1>16. CASE StageFails
  <2>1. UNCHANGED <<stt, attempt, candidate, opening, session, life, stop, closing>> /\ consumer'.pc = "done"
    BY <1>16, ConsumerEnded DEF StageFails
  <2> QED BY <1>0, <2>1, <1>16 DEF StageFails, EndPlaced, AttemptPlaced
<1>17. CASE HandleTerminal
  <2>1. UNCHANGED <<stt, attempt, candidate, opening, session, life, stop, closing>> /\ consumer'.pc = "join"
    BY <1>17, <1>0 DEF HandleTerminal, Consumers, replacementVars, endVars
  <2> QED BY <1>0, <2>1, <1>17 DEF HandleTerminal, EndPlaced, AttemptPlaced
<1>18. CASE Decide
  <2>1. UNCHANGED <<stt, attempt, candidate, opening, session, life, stop, closing>> /\ consumer'.pc \in {"done", "delay"}
    BY <1>18, <1>0, ConsumerEnded DEF Decide, Consumers
  <2> QED BY <1>0, <2>1, <1>18 DEF Decide, EndPlaced, AttemptPlaced
<1>19. CASE StreamOver
  <2>1. UNCHANGED <<stt, attempt, candidate, opening, session, life, stop, closing>> /\ consumer'.pc = "done"
    BY <1>19, ConsumerEnded DEF StreamOver, endVars
  <2> QED BY <1>0, <2>1, <1>19 DEF StreamOver, EndPlaced, AttemptPlaced
<1>20. CASE Delay
  <2>1. UNCHANGED <<stt, candidate, opening, session, life, stop, closing>>
    BY <1>20 DEF Delay, endVars
  <2>2. Reading("delay") /\ consumer'.pc \in {"done", "prepare"}
    BY <1>20, <1>0, ConsumerEnded DEF Delay, Consumers
  <2>3. opening = "none"
    BY <1>0, <2>2 DEF AttemptPlaced
  <2> QED BY <1>0, <2>1, <2>2, <2>3 DEF EndPlaced
<1>21. CASE Prepare
  <2>1. UNCHANGED <<stt, attempt, candidate, session, life, stop, closing>> /\ Reading("prepare")
    BY <1>21 DEF Prepare, endVars
  <2>2. \/ consumer'.pc = "done" /\ opening' = opening
        \/ consumer'.pc = "open" /\ opening' = "gate" /\ ~stop
    BY <1>21, <1>0, ConsumerEnded DEF Prepare, Consumers, Working
  <2>3. opening = "none"
    BY <1>0, <2>1 DEF AttemptPlaced
  <2> QED BY <1>0, <2>1, <2>2, <2>3 DEF EndPlaced
<1>22. CASE Opened
  <2>1. UNCHANGED <<stt, attempt, session, life, stop, closing>> /\ Reading("open") /\ opening' = "none"
    BY <1>22 DEF Opened
  <2>2. \/ consumer'.pc = "done" /\ opening # "opened" /\ candidate' = candidate
        \/ consumer'.pc = "install" /\ opening = "opened"
    BY <1>22, <1>0, ConsumerEnded DEF Opened, Consumers
  <2> QED BY <1>0, <2>1, <2>2 DEF EndPlaced
<1>23. CASE Install
  <2>1. UNCHANGED <<attempt, opening, life, stop, closing>> /\ Reading("install") /\ opening = "none"
    BY <1>23, <1>0 DEF Install, AttemptPlaced, endVars
  <2>2. CASE Working
    <3>1. stt' = attempt /\ consumer'.pc = "replay" /\ ~stop
      BY <1>23, <1>0, <2>2 DEF Install, Consumers, Working
    <3>2. \A k \in Sessions : session'[k].state = "open" => k # stt /\ session[k].state = "open"
      <4>1. session' = [session EXCEPT ![stt] = [NoSession EXCEPT !.state = "failed"]]
        BY <1>23, <2>2 DEF Install
      <4>2. session'[stt].state = "failed" /\ \A k \in Sessions : k # stt => session'[k] = session[k]
        BY <1>0, <4>1 DEF NoSession
      <4> QED BY <4>2
    <3> QED BY <1>0, <2>1, <3>1, <3>2 DEF EndPlaced
  <2>3. CASE ~Working
    <3>1. UNCHANGED <<stt, session>> /\ consumer'.pc = "drop" /\ candidate' = 0
      BY <1>23, <1>0, <2>3 DEF Install, Consumers
    <3> QED BY <1>0, <2>1, <3>1 DEF EndPlaced
  <2> QED BY <2>2, <2>3
<1>24. CASE ReplayOne
  <2>1. consumer'.pc = "replay" /\ Reading("replay")
    BY <1>24, <1>0 DEF ReplayOne, Consumers
  <2>2. \A j \in Sessions : session'[j].state = session[j].state
    BY <1>24, <1>0 DEF ReplayOne, SessionStates
  <2> QED BY <1>24, <1>0, <2>1, <2>2 DEF ReplayOne, EndPlaced, replacementVars, endVars
<1>25. CASE ReplayFails
  <2>1. consumer'.pc = "drop" /\ Reading("replay") /\ candidate' = 0
    BY <1>25, <1>0 DEF ReplayFails, Consumers
  <2> QED BY <1>25, <1>0, <2>1 DEF ReplayFails, EndPlaced, endVars
<1>26. CASE Replayed
  <2>1. consumer'.pc \in {"drop", "events"} /\ Reading("replay") /\ candidate' = 0
    BY <1>26, <1>0 DEF Replayed, Consumers
  <2> QED BY <1>26, <1>0, <2>1 DEF Replayed, EndPlaced, endVars
<1>27. CASE Drop
  <2>1. UNCHANGED <<stt, attempt, candidate, opening, life, stop, closing>> /\ Reading("drop") /\ consumer'.pc = "done"
    BY <1>27, ConsumerEnded DEF Drop
  <2>2. session'[attempt].state # "open" /\ \A j \in Sessions : session'[j].state = "open" => session[j].state = "open"
    BY <1>27, <1>0, SessionFields DEF Drop
  <2>3. opening = "none"
    BY <1>0, <2>1 DEF AttemptPlaced
  <2> QED BY <1>0, <2>1, <2>2, <2>3 DEF EndPlaced
<1>28. CASE Connect
  <2>1. attempt # stt /\ \A j \in Sessions : session'[j].state = session[j].state
    <3>1. stt \in Nat /\ attempt \in Nat /\ stt < attempt
      BY <1>28, <1>0 DEF Connect, AttemptPlaced, Sessions
    <3>2. \A j \in Sessions : session'[j].state = session[j].state
      BY <1>28, <1>0 DEF Connect, SessionStates
    <3> QED BY <3>1, <3>2
  <2> QED BY <1>28, <1>0, <2>1 DEF Connect, EndPlaced, endVars
<1>29. CASE Connected
  <2>1. stt # attempt
    BY <1>29, <1>0 DEF Connected, AttemptPlaced, Sessions
  <2>2. \A j \in Sessions : session'[j].state = IF j = attempt THEN "open" ELSE session[j].state
    BY <1>29, <1>0, SessionFields DEF Connected
  <2>3. UNCHANGED <<stt, attempt, candidate, consumer, life, stop, closing>> /\ opening = "connecting" /\ opening' = "opened"
    BY <1>29 DEF Connected, endVars
  <2>4. ~stop /\ closing = "no" /\ Reading("open")
    BY <1>0, <2>3 DEF EndPlaced, AttemptPlaced
  <2> QED BY <1>0, <2>1, <2>2, <2>3, <2>4 DEF EndPlaced
<1>30. CASE OpenFails
  BY <1>30, <1>0 DEF OpenFails, EndPlaced, audioVars, replacementVars, endVars
<1>31. CASE Finish
  <2>1. Reading("open") <=> opening # "none"
    BY <1>0 DEF AttemptPlaced
  <2> QED BY <1>31, <1>0, <2>1 DEF Finish, EndPlaced, audioVars
<1>32. CASE CancelCandidate
  <2>1. \A j \in Sessions : session'[j].state = "open" => session[j].state = "open"
    <3>1. UNCHANGED session \/ (candidate \in Sessions /\ Ended(candidate))
      BY <1>32 DEF CancelCandidate, TypeOK
    <3> QED BY <3>1, SessionFields
  <2> QED BY <1>32, <1>0, <2>1 DEF CancelCandidate, EndPlaced
<1>33. CASE FinishStream
  <2>1. session'[stt].state # "open" /\ \A j \in Sessions : session'[j].state = "open" => session[j].state = "open"
    BY <1>33, <1>0, SessionFields DEF FinishStream
  <2> QED BY <1>33, <1>0, <2>1 DEF FinishStream, EndPlaced, replacementVars
<1>34. CASE Drain
  BY <1>34, <1>0 DEF Drain, EndPlaced, audioVars, replacementVars, endVars
<1>35. CASE Gather
  BY <1>35, <1>0 DEF Gather, EndPlaced, audioVars, replacementVars, endVars
<1>36. CASE FinishRaises
  <2>1. \A j \in Sessions : session'[j].state = "open" => session[j].state = "open"
    BY <1>36, Raised
  <2>2. UNCHANGED <<stt, attempt, opening, consumer, life, stop>>
        /\ candidate' \in {0, candidate} /\ closing # "no" /\ closing # "returned" /\ closing' = "raised"
    BY <1>36, Raised
  <2> QED BY <1>0, <2>1, <2>2 DEF EndPlaced
<1> QED
  BY <1>1, <1>2, <1>3, <1>4, <1>5, <1>6, <1>7, <1>8, <1>9, <1>10, <1>11, <1>12, <1>13, <1>14,
     <1>15, <1>16, <1>17, <1>18, <1>19, <1>20, <1>21, <1>22, <1>23, <1>24, <1>25, <1>26, <1>27,
     <1>28, <1>29, <1>30, <1>31, <1>32, <1>33, <1>34, <1>35, <1>36 DEF Next, Sending, Consuming,
     Opening, Closing

-----------------------------------------------------------------------------
(* The stream *)

\* A sequence and one more element.
LEMMA Appended ==
  ASSUME NEW got \in Seq(1..MaxFrames), NEW x \in 1..MaxFrames
  PROVE  /\ Len(got) \in Nat /\ Len(Append(got, x)) = Len(got) + 1 /\ Append(got, x) # <<>>
         /\ \A i \in 1..Len(got) : Append(got, x)[i] = got[i] /\ got[i] \in Nat
         /\ Append(got, x)[Len(got) + 1] = x
         /\ got = <<>> => Len(got) = 0
         /\ got # <<>> => Len(got) > 0
<1>1. Len(got) \in Nat /\ (got = <<>> => Len(got) = 0) /\ (got # <<>> => Len(got) > 0)
  <2>1. got # <<>> => Len(got) # 0
    BY EmptySeq
  <2> QED BY <2>1
<1>2. Append(got, x) \in Seq(1..MaxFrames) /\ Len(Append(got, x)) = Len(got) + 1
  OBVIOUS
<1>3. /\ \A i \in 1..Len(got) : Append(got, x)[i] = got[i]
      /\ Append(got, x)[Len(got) + 1] = x
  OBVIOUS
<1>4. ASSUME NEW i \in 1..Len(got) PROVE got[i] \in Nat
  <2>1. got[i] \in 1..MaxFrames
    BY ElementOfSeq
  <2> QED BY <2>1
<1>5. Append(got, x) # <<>>
  BY <1>1, <1>2
<1> QED BY <1>1, <1>2, <1>3, <1>4, <1>5

\* The next frame keeps a stream gapless, if what is between may be skipped.
LEMMA NextFrame ==
  ASSUME NEW s \in SessionStates, NEW t, NEW x \in 1..MaxFrames, NEW gone, NEW last \in Nat,
         t.got = Append(s.got, x), t.base = s.base,
         Gapless(s, gone, last), Below(s, x),
         \A c \in Latest(s) + 1 .. x - 1 : Skipped(s, c, gone, last)
  PROVE  Gapless(t, gone, last) /\ Latest(t) = x
<1> DEFINE n == Len(s.got)
<1>1. s.got \in Seq(1..MaxFrames) /\ s.base \in Nat
  BY DEF SessionStates, Frames
<1>2. /\ n \in Nat /\ Len(t.got) = n + 1 /\ t.got # <<>>
      /\ \A i \in 1..n : t.got[i] = s.got[i] /\ s.got[i] \in Nat
      /\ t.got[n + 1] = x
      /\ s.got = <<>> => n = 0
      /\ s.got # <<>> => n > 0
  <2>1. t.got = Append(s.got, x)
    OBVIOUS
  <2> QED BY <1>1, <2>1, Appended
<1> HIDE DEF n
<1>3. Latest(t) = x
  BY <1>2 DEF Latest
<1>4. Latest(s) \in Nat /\ Latest(s) < x
  <2>1. CASE s.got = <<>>
    BY <1>1, <2>1 DEF Latest, Below
  <2>2. CASE s.got # <<>>
    <3>1. n \in 1..n /\ Latest(s) = s.got[n]
      BY <1>2, <2>2 DEF Latest, n
    <3> QED BY <1>2, <3>1 DEF Below, n
  <2> QED BY <2>1, <2>2
<1>5. ASSUME NEW i \in 1..n
      PROVE  t.got[i] < t.got[i + 1] /\ \A c \in t.got[i] + 1 .. t.got[i + 1] - 1 : c \in gone
  <2>1. CASE i < n
    <3>1. i \in 1..n - 1 /\ i \in 1..n /\ i + 1 \in 1..n
      BY <1>2, <2>1
    <3> QED BY <1>2, <3>1 DEF Gapless, n
  <2>2. CASE i = n
    <3>1. t.got[i] = Latest(s) /\ t.got[i + 1] = x /\ s.got # <<>>
      BY <1>2, <2>2 DEF Latest, n
    <3> QED BY <1>4, <3>1 DEF Skipped
  <2> QED BY <1>2, <2>1, <2>2
<1>6. t.base < t.got[1] /\ \A c \in t.base + 1 .. t.got[1] - 1 : c \in gone \/ c + Window <= last
  <2>1. CASE s.got = <<>>
    <3>1. t.got[1] = x /\ Latest(s) = t.base
      BY <1>2, <2>1 DEF Latest
    <3> QED BY <1>4, <3>1 DEF Skipped
  <2>2. CASE s.got # <<>>
    <3>1. t.got[1] = s.got[1]
      BY <1>2, <2>2
    <3> QED BY <2>2, <3>1 DEF Gapless
  <2> QED BY <2>1, <2>2
<1>7. ASSUME NEW c \in t.base + 1 .. x
      PROVE  (\E i \in 1..n + 1 : t.got[i] = c) \/ c \in gone \/ c + Window <= last
  <2>1. CASE c <= Latest(s)
    <3>1. (\E i \in 1..n : s.got[i] = c) \/ c \in gone \/ c + Window <= last
      BY <1>1, <1>4, <2>1 DEF Gapless, n
    <3>2. 1..n \subseteq 1..n + 1
      BY <1>2
    <3>3. CASE \E i \in 1..n : s.got[i] = c
      <4>1. PICK i \in 1..n : s.got[i] = c
        BY <3>3
      <4>2. i \in 1..n + 1 /\ t.got[i] = c
        BY <1>2, <3>2, <4>1
      <4> QED BY <4>2
    <3> QED BY <3>1, <3>3
  <2>2. CASE Latest(s) < c /\ c < x
    <3>1. c \in Latest(s) + 1 .. x - 1
      BY <1>1, <1>4, <2>2
    <3> QED BY <3>1 DEF Skipped
  <2>3. CASE c = x
    <3>1. n + 1 \in 1..n + 1
      BY <1>2
    <3> QED BY <1>2, <2>3, <3>1
  <2>4. c <= Latest(s) \/ (Latest(s) < c /\ c < x) \/ c = x
    <3>1. c \in Int /\ c <= x
      BY <1>1
    <3> QED BY <1>4, <3>1
  <2> QED BY <2>1, <2>2, <2>3, <2>4
<1>8. Len(t.got) - 1 = n
  BY <1>2
<1> QED BY <1>2, <1>3, <1>5, <1>6, <1>7, <1>8 DEF Gapless

\* More frames gone or sent keep it gapless.
LEMMA GaplessGrows ==
  ASSUME NEW s \in SessionStates, NEW t, t.got = s.got, t.base = s.base, NEW gone, NEW gone2, NEW last \in Nat, NEW last2 \in Nat,
         Gapless(s, gone, last), gone \subseteq gone2, last <= last2
  PROVE  Gapless(t, gone2, last2)
<1>1. \A c \in Int : c + Window <= last => c + Window <= last2
  BY WindowAssumption
<1>2. s.base \in Int /\ (s.got # <<>> => s.got[1] \in Int) /\ Latest(s) \in Int
  <2>1. s.got # <<>> => s.got[1] \in 1..MaxFrames /\ s.got[Len(s.got)] \in 1..MaxFrames
    <3>1. s.got \in Seq(1..MaxFrames)
      BY DEF SessionStates
    <3>2. s.got # <<>> => 1 \in 1..Len(s.got) /\ Len(s.got) \in 1..Len(s.got)
      <4>1. Len(s.got) \in Nat /\ (s.got # <<>> => Len(s.got) # 0)
        BY <3>1, EmptySeq
      <4> QED BY <4>1
    <3> QED BY <3>1, <3>2, ElementOfSeq
  <2> QED BY <2>1 DEF SessionStates, Frames, Latest
<1> QED BY <1>1, <1>2 DEF Gapless, Latest

\* What a session or a watermark knows was accepted before.
LEMMA BoundedKept ==
  ASSUME TypeOK, TypeOK', Placed, Bounded, Next
  PROVE  Bounded'
<1>0. /\ stt \in Sessions /\ attempt \in Sessions /\ sent \in Nat /\ committed \in Nat
      /\ session \in [Sessions -> SessionStates] /\ \A k \in Sessions : session[k] \in SessionStates
      /\ Bounded
  BY DEF TypeOK, Frames
<1>0a. \A k \in Sessions : /\ session[k].base \in Nat /\ session[k].mark \in Nat
                           /\ session[k].got \in Seq(1..MaxFrames)
                           /\ \A i \in 1..Len(session[k].got) : session[k].got[i] \in Nat
  <2>1. \A k \in Sessions : /\ session[k].base \in Nat /\ session[k].mark \in Nat
                            /\ session[k].got \in Seq(1..MaxFrames)
    BY <1>0 DEF SessionStates, Frames
  <2>2. ASSUME NEW k \in Sessions, NEW i \in 1..Len(session[k].got)
        PROVE  session[k].got[i] \in Nat
    <3>1. session[k].got[i] \in 1..MaxFrames
      BY <2>1, ElementOfSeq
    <3> QED BY <3>1
  <2> QED BY <2>1, <2>2
\* One session takes a frame that was accepted.
<1>0b. ASSUME NEW x \in 1..MaxFrames, x <= sent, UNCHANGED <<sent, committed>>,
              session'[stt].got = Append(session[stt].got, x),
              \A j \in Sessions : /\ session'[j].base = session[j].base /\ session'[j].mark = session[j].mark
                                  /\ j # stt => session'[j].got = session[j].got
       PROVE  Bounded'
  <2>1. ASSUME NEW i \in 1..Len(session'[stt].got)
        PROVE  session'[stt].got[i] <= sent
    <3>1. Len(session[stt].got) \in Nat /\ Len(session'[stt].got) = Len(session[stt].got) + 1
      BY <1>0, <1>0a, <1>0b, Appended
    <3>2. CASE i <= Len(session[stt].got)
      <4>1. i \in 1..Len(session[stt].got)
        BY <3>1, <3>2
      <4>2. session'[stt].got[i] = session[stt].got[i]
        BY <1>0, <1>0a, <1>0b, <4>1, Appended
      <4> QED BY <1>0, <4>1, <4>2 DEF Bounded
    <3>3. CASE i = Len(session[stt].got) + 1
      BY <1>0, <1>0a, <1>0b, <3>3, Appended
    <3> QED BY <3>1, <3>2, <3>3
  <2>2. ASSUME NEW j \in Sessions
        PROVE  /\ session'[j].base <= sent /\ session'[j].mark <= sent
               /\ \A i \in 1..Len(session'[j].got) : session'[j].got[i] <= sent
    <3>1. session'[j].base <= sent /\ session'[j].mark <= sent
      <4>1. session'[j].base = session[j].base /\ session'[j].mark = session[j].mark
        BY <1>0b
      <4>2. session[j].base <= sent /\ session[j].mark <= sent
        BY <1>0 DEF Bounded
      <4> QED BY <4>1, <4>2
    <3>2. CASE j = stt
      BY <2>1, <3>1, <3>2
    <3>3. CASE j # stt
      <4>1. session'[j].got = session[j].got
        BY <1>0b, <3>3
      <4>2. \A i \in 1..Len(session[j].got) : session[j].got[i] <= sent
        BY <1>0 DEF Bounded
      <4> QED BY <3>1, <4>1, <4>2
    <3> QED BY <3>2, <3>3
  <2>3. sent' = sent /\ committed' = committed
    BY <1>0b
  <2> QED BY <1>0, <2>2, <2>3 DEF Bounded
<1>1. CASE Claim
  BY <1>1, <1>0 DEF Claim, Bounded, audioVars
<1>2. CASE Enter
  BY <1>2, <1>0 DEF Enter, Bounded, audioVars
<1>3. CASE Accept
  <2>1. sent' = sent + 1 /\ UNCHANGED <<committed, session>>
    BY <1>3 DEF Accept
  <2> QED BY <1>0, <1>0a, <2>1 DEF Bounded
<1>4. CASE SendLands
  <2>1. Takes(stt) /\ UNCHANGED <<sent, committed>> /\ sent \in 1..MaxFrames
    BY <1>4 DEF SendLands, Placed, SenderPlaced, At, audioVars, TypeOK, Frames
  <2> QED BY <1>0, <1>0b, <2>1, SessionFields
<1>5. CASE SendFails
  BY <1>5, <1>0 DEF SendFails, Bounded, audioVars
<1>6. CASE Answered
  BY <1>6, <1>0 DEF Answered, Bounded, audioVars
<1>7. CASE Recheck
  BY <1>7, <1>0 DEF Recheck, Bounded, audioVars
<1>8. CASE Sink
  BY <1>8, <1>0 DEF Sink, Bounded, audioVars
<1>9. CASE GateRefuses
  BY <1>9, <1>0 DEF GateRefuses, Bounded, audioVars
<1>10. CASE CancelSender
  <2>1. UNCHANGED <<sent, committed>>
    BY <1>10 DEF CancelSender
  <2>2. CASE UNCHANGED session
    BY <1>0, <2>1, <2>2 DEF Bounded
  <2>3. CASE At("sending") /\ Takes(sender.cur)
    <3>1. sender.cur = stt /\ sent \in 1..MaxFrames
      BY <2>3 DEF Placed, SenderPlaced, At, TypeOK, Frames
    <3> QED BY <1>0, <1>0b, <2>1, <2>3, <3>1, SessionFields
  <2> QED BY <1>10, <2>2, <2>3 DEF CancelSender
<1>11. ASSUME NEW k \in Sessions, Mark(k)
       PROVE  Bounded'
  <2>1. PICK n \in Frames : /\ n <= session[k].got[Len(session[k].got)]
                            /\ session' = [session EXCEPT ![k].mark = n]
    BY <1>11 DEF Mark
  <2>2. Len(session[k].got) \in 1..Len(session[k].got)
    <3>1. session[k].got # <<>>
      BY <1>11 DEF Mark
    <3>2. Len(session[k].got) \in Nat \ {0}
      BY <3>1, <1>0a, EmptySeq
    <3> QED BY <3>2
  <2>3. n <= sent
    <3>1. session[k].got[Len(session[k].got)] \in Nat /\ session[k].got[Len(session[k].got)] <= sent
      BY <1>0, <1>0a, <2>2 DEF Bounded
    <3> QED BY <1>0, <2>1, <3>1 DEF Frames
  <2>4. \A j \in Sessions : /\ session'[j].base = session[j].base /\ session'[j].got = session[j].got
                            /\ session'[j].mark = IF j = k THEN n ELSE session[j].mark
    BY <1>0, <2>1 DEF SessionStates
  <2> QED BY <1>11, <1>0, <2>3, <2>4 DEF Mark, Bounded, audioVars
<1>12. ASSUME NEW k \in Sessions, StreamFails(k)
       PROVE  Bounded'
  <2>1. \A j \in Sessions : /\ session'[j].base = session[j].base /\ session'[j].got = session[j].got
                            /\ session'[j].mark = session[j].mark
    BY <1>12, <1>0, SessionFields DEF StreamFails
  <2> QED BY <1>12, <2>1 DEF StreamFails, Bounded, audioVars
<1>13. CASE AskBoundary
  BY <1>13, <1>0 DEF AskBoundary, Bounded, audioVars
<1>14. CASE BoundaryAsked
  BY <1>14, <1>0 DEF BoundaryAsked, Bounded, audioVars
<1>15. CASE HandleBoundary
  <2>1. \A j \in Sessions : /\ session'[j].base = session[j].base /\ session'[j].got = session[j].got
                            /\ session'[j].mark = IF j = stt THEN 0 ELSE session[j].mark
    BY <1>15, <1>0 DEF HandleBoundary, SessionStates
  <2>2. committed' <= sent /\ sent' = sent
    BY <1>15, <1>0 DEF HandleBoundary, Bounded
  <2> QED BY <1>0, <2>1, <2>2 DEF Bounded
<1>16. CASE StageFails
  BY <1>16, <1>0 DEF StageFails, Bounded, audioVars
<1>17. CASE HandleTerminal
  BY <1>17, <1>0 DEF HandleTerminal, Bounded, audioVars
<1>18. CASE Decide
  BY <1>18, <1>0 DEF Decide, Bounded, audioVars
<1>19. CASE StreamOver
  BY <1>19, <1>0 DEF StreamOver, Bounded, audioVars
<1>20. CASE Delay
  BY <1>20, <1>0 DEF Delay, Bounded, audioVars
<1>21. CASE Prepare
  BY <1>21, <1>0 DEF Prepare, Bounded, audioVars
<1>22. CASE Opened
  BY <1>22, <1>0 DEF Opened, Bounded, audioVars
<1>23. CASE Install
  <2>1. UNCHANGED <<sent, committed>>
    <3>1. UNCHANGED audioVars
      BY <1>23 DEF Install
    <3> QED BY <3>1 DEF audioVars
  <2>2. CASE UNCHANGED session
    BY <1>0, <2>1, <2>2 DEF Bounded
  <2>3. CASE session' = [session EXCEPT ![stt] = [NoSession EXCEPT !.state = "failed"]]
    <3>1. session'[stt].base = 0 /\ session'[stt].mark = 0 /\ session'[stt].got = <<>>
      BY <1>0, <2>3 DEF NoSession
    <3>2. Len(session'[stt].got) = 0
      BY <3>1
    <3>3. \A j \in Sessions : j # stt => session'[j] = session[j]
      BY <1>0, <2>3
    <3> QED BY <1>0, <2>1, <3>1, <3>2, <3>3 DEF Bounded
  <2> QED BY <1>23, <2>2, <2>3 DEF Install
<1>24. CASE ReplayOne
  <2>1. UNCHANGED <<sent, committed>> /\ consumer.next \in 1..MaxFrames /\ consumer.next <= sent
    <3>1. UNCHANGED <<sent, committed>> /\ consumer.next <= sent
      BY <1>24 DEF ReplayOne, audioVars
    <3>2. consumer.next \in 1..MaxFrames + 1 /\ sent \in 0..MaxFrames
      BY DEF TypeOK, Frames, Consumers
    <3> QED BY <3>1, <3>2, BoundsAssumption
  <2>2. session'[stt].got = Append(session[stt].got, consumer.next)
    BY <1>24, <1>0 DEF ReplayOne, SessionStates
  <2>3. \A j \in Sessions : /\ session'[j].base = session[j].base /\ session'[j].mark = session[j].mark
                            /\ j # stt => session'[j].got = session[j].got
    BY <1>24, <1>0 DEF ReplayOne, SessionStates
  <2> QED BY <1>0b, <2>1, <2>2, <2>3
<1>25. CASE ReplayFails
  BY <1>25, <1>0 DEF ReplayFails, Bounded, audioVars
<1>26. CASE Replayed
  BY <1>26, <1>0 DEF Replayed, Bounded, audioVars
<1>27. CASE Drop
  <2>1. \A j \in Sessions : /\ session'[j].base = session[j].base /\ session'[j].got = session[j].got
                            /\ session'[j].mark = session[j].mark
    BY <1>27, <1>0, SessionFields DEF Drop
  <2> QED BY <1>27, <2>1 DEF Drop, Bounded, audioVars
<1>28. CASE Connect
  <2>1. ReplayFrom - 1 \in Nat /\ ReplayFrom - 1 <= sent
    <3>1. ReplayFrom - 1 \in Nat /\ ReplayFrom - 1 < ReplayFrom
      BY ReplayBeginsNow DEF Frames
    <3>2. ReplayFrom - 1 <= committed \/ (ReplayFrom - 1) + Window <= sent
      BY <3>1, ReplayBeginsNow
    <3> QED BY <1>0, <3>1, <3>2, WindowAssumption DEF Bounded
  <2>2. \A j \in Sessions : /\ session'[j].mark = session[j].mark /\ session'[j].got = session[j].got
                            /\ session'[j].base = IF j = attempt THEN ReplayFrom - 1 ELSE session[j].base
    BY <1>28, <1>0 DEF Connect, SessionStates
  <2> QED BY <1>28, <1>0, <2>1, <2>2 DEF Connect, Bounded, audioVars
<1>29. CASE Connected
  <2>1. \A j \in Sessions : /\ session'[j].base = session[j].base /\ session'[j].got = session[j].got
                            /\ session'[j].mark = session[j].mark
    BY <1>29, <1>0, SessionFields DEF Connected
  <2> QED BY <1>29, <2>1 DEF Connected, Bounded, audioVars
<1>30. CASE OpenFails
  BY <1>30, <1>0 DEF OpenFails, Bounded, audioVars
<1>31. CASE Finish
  BY <1>31, <1>0 DEF Finish, Bounded, audioVars
<1>32. CASE CancelCandidate
  <2>1. UNCHANGED session \/ (candidate \in Sessions /\ Ended(candidate))
    BY <1>32 DEF CancelCandidate, TypeOK
  <2>2. \A j \in Sessions : /\ session'[j].base = session[j].base /\ session'[j].got = session[j].got
                            /\ session'[j].mark = session[j].mark
    BY <2>1, SessionFields
  <2> QED BY <1>32, <1>0, <2>2 DEF CancelCandidate, Bounded, audioVars
<1>33. CASE FinishStream
  <2>1. \A j \in Sessions : /\ session'[j].base = session[j].base /\ session'[j].got = session[j].got
                            /\ session'[j].mark = session[j].mark
    BY <1>33, <1>0, SessionFields DEF FinishStream
  <2> QED BY <1>33, <2>1 DEF FinishStream, Bounded, audioVars
<1>34. CASE Drain
  BY <1>34, <1>0 DEF Drain, Bounded, audioVars
<1>35. CASE Gather
  BY <1>35, <1>0 DEF Gather, Bounded, audioVars
<1>36. CASE FinishRaises
  <2>1. UNCHANGED <<sent, committed>>
    BY <1>36, Raised DEF audioVars
  <2> QED BY <1>36, <2>1, Raised DEF Bounded
<1> QED
  BY <1>1, <1>2, <1>3, <1>4, <1>5, <1>6, <1>7, <1>8, <1>9, <1>10, <1>11, <1>12, <1>13, <1>14,
     <1>15, <1>16, <1>17, <1>18, <1>19, <1>20, <1>21, <1>22, <1>23, <1>24, <1>25, <1>26, <1>27,
     <1>28, <1>29, <1>30, <1>31, <1>32, <1>33, <1>34, <1>35, <1>36 DEF Next, Sending, Consuming,
     Opening, Closing

\* The latest frame is a frame.
LEMMA LatestIsFrame ==
  ASSUME NEW s \in SessionStates
  PROVE  Latest(s) \in Int
<1>1. s.got # <<>> => Len(s.got) \in 1..Len(s.got)
  BY EmptySeq DEF SessionStates
<1>2. s.got # <<>> => s.got[Len(s.got)] \in 1..MaxFrames
  BY <1>1, ElementOfSeq DEF SessionStates
<1> QED BY <1>2 DEF Latest, SessionStates, Frames

\* With one more frame, all of a session's frames are below the one after it.
LEMMA BelowNext ==
  ASSUME NEW s \in SessionStates, NEW t, NEW x \in 1..MaxFrames,
         t.got = Append(s.got, x), t.base = s.base, Below(s, x)
  PROVE  Below(t, x + 1)
<1>1. s.got \in Seq(1..MaxFrames) /\ s.base \in Nat
  BY DEF SessionStates, Frames
<1>2. /\ Len(s.got) \in Nat /\ Len(t.got) = Len(s.got) + 1 /\ t.got[Len(s.got) + 1] = x
      /\ \A i \in 1..Len(s.got) : t.got[i] = s.got[i] /\ s.got[i] \in Nat
  <2>1. t.got = Append(s.got, x)
    OBVIOUS
  <2> QED BY <1>1, <2>1, Appended
<1>3. ASSUME NEW i \in 1..Len(t.got) PROVE t.got[i] < x + 1
  <2>1. i \in 1..Len(s.got) \/ i = Len(s.got) + 1
    BY <1>2
  <2> QED BY <1>2, <2>1 DEF Below
<1> QED BY <1>1, <1>3 DEF Below

\* What the current session has taken and what it may still wait for stays.
Kept ==
  /\ UNCHANGED <<stt, sent>> /\ committed <= committed' /\ cut \subseteq cut'
  /\ session'[stt].got = session[stt].got /\ session'[stt].base = session[stt].base
  /\ At("sending")' => At("sending")
  /\ Reading("replay")' => Reading("replay") /\ consumer'.next = consumer.next
  /\ \A c \in Int : c <= sent /\ Awaited(c) => Awaited(c)' \/ c \in cut'

\* A step that keeps all this does not tear the stream.
LEMMA SeamlessStays ==
  ASSUME TypeOK, TypeOK', Seamless, Live' => Live, Kept
  PROVE  Seamless'
<1> SUFFICES ASSUME Live' PROVE Seamless'
  BY DEF Seamless
<1>0. Live /\ stt' = stt /\ sent' = sent /\ sent \in Nat /\ stt \in Sessions
  BY DEF Kept, TypeOK, Frames
<1> DEFINE s == session[stt]
           t == session'[stt]
<1>1. s \in SessionStates /\ t.got = s.got /\ t.base = s.base
  BY <1>0 DEF TypeOK, Kept
<1>2. Gapless(t, cut', sent)
  BY <1>0, <1>1, GaplessGrows DEF Seamless, Kept
<1>3. Below(s, sent) => Below(t, sent)
  BY <1>1 DEF Below
<1>4. Below(s, consumer.next) => Below(t, consumer.next)
  BY <1>1 DEF Below
<1>5. t.base < ReplayFrom'
  <2>1. ReplayFrom <= ReplayFrom'
    BY <1>0, ReplayNeverGoesBack DEF Kept
  <2>2. s.base \in Nat /\ ReplayFrom \in Nat /\ ReplayFrom' \in Nat
    <3>1. committed \in Nat /\ committed' \in Nat /\ sent' \in Nat
      BY DEF TypeOK, Frames
    <3>2. \A c, n \in Nat : (IF c + Window >= n THEN c + 1 ELSE (n + 1) - Window) \in Nat
      BY WindowAssumption
    <3>3. ReplayFrom \in Nat /\ ReplayFrom' \in Nat
      BY <1>0, <3>1, <3>2 DEF ReplayFrom
    <3>4. s.base \in Nat
      BY <1>1 DEF SessionStates, Frames
    <3> QED BY <3>3, <3>4
  <2> QED BY <1>0, <1>1, <2>1, <2>2 DEF Seamless
<1>6. ASSUME NEW c \in Latest(t) + 1 .. sent
      PROVE  Skipped(t, c, cut', sent) \/ Awaited(c)'
  <2>1. Latest(t) = Latest(s) /\ (Skipped(s, c, cut, sent) => Skipped(t, c, cut', sent))
    BY <1>1 DEF Latest, Skipped, Kept
  <2>2. c \in Int /\ c <= sent
    <3>1. Latest(t) \in Int
      BY <1>1, <2>1, LatestIsFrame
    <3> QED BY <1>0, <3>1
  <2>3. Skipped(s, c, cut, sent) \/ Awaited(c)
    BY <1>0, <2>1 DEF Seamless
  <2>4. c \in cut' => Skipped(t, c, cut', sent)
    BY DEF Skipped
  <2> QED BY <2>1, <2>2, <2>3, <2>4 DEF Kept
<1> QED BY <1>0, <1>2, <1>3, <1>4, <1>5, <1>6 DEF Seamless, Kept, At, Reading

\* No step tears the stream of the current session.
LEMMA SeamlessKept ==
  ASSUME TypeOK, TypeOK', Placed, Bounded, Seamless, Next
  PROVE  Seamless'
<1>0. /\ stt \in Sessions /\ attempt \in Sessions /\ sent \in Nat /\ committed \in Nat
      /\ session \in [Sessions -> SessionStates] /\ session[stt] \in SessionStates
      /\ sender \in Senders /\ consumer \in Consumers /\ failed \in BOOLEAN /\ failed' \in BOOLEAN
      /\ sender.cur \in Nat /\ stt \in Nat /\ attempt \in Nat
      /\ LockHeld /\ SenderPlaced /\ AttemptPlaced /\ EndPlaced
  <2>1. /\ stt \in Sessions /\ attempt \in Sessions
        /\ session \in [Sessions -> SessionStates] /\ session[stt] \in SessionStates
        /\ sender \in Senders /\ consumer \in Consumers /\ failed \in BOOLEAN /\ failed' \in BOOLEAN
    BY DEF TypeOK
  <2>2. sent \in Nat /\ committed \in Nat
    BY DEF TypeOK, Frames
  <2>3. stt \in Nat /\ attempt \in Nat
    BY <2>1 DEF Sessions
  <2>4. sender.cur \in Nat
    BY <2>1 DEF Sessions, Senders
  <2> QED BY <2>1, <2>2, <2>3, <2>4 DEF Placed
<1>1. CASE Claim
  <2>1. UNCHANGED <<stt, sent, committed, cut, session, consumer, life, stop>> /\ (failed => failed')
    BY <1>1, <1>0 DEF Claim, Raise, audioVars, replacementVars, endVars
  <2>2. sender.pc \notin {"sending", "waiting", "recheck"} /\ sender'.pc \notin {"sending", "waiting", "recheck"}
    BY <1>1, <1>0 DEF Claim, Raise, SenderTo, At, Senders
  <2> QED BY <1>0, <2>1, <2>2, SeamlessStays DEF Kept, Live, Working, Awaited, At, Reading
<1>2. CASE Enter
  <2>1. UNCHANGED <<stt, sent, committed, cut, session, consumer, life, stop>> /\ (failed => failed')
    BY <1>2, <1>0 DEF Enter, Raise, audioVars, replacementVars, endVars
  <2>2. sender.pc \notin {"sending", "waiting", "recheck"} /\ sender'.pc \notin {"sending", "waiting", "recheck"}
    BY <1>2, <1>0 DEF Enter, Raise, SenderTo, At, Senders
  <2> QED BY <1>0, <2>1, <2>2, SeamlessStays DEF Kept, Live, Working, Awaited, At, Reading
<1>3. CASE Accept
  <2>1. /\ UNCHANGED <<stt, committed, cut, session, consumer, life, stop, failed>> /\ sent' = sent + 1
        /\ sender.pc = "gate" /\ sender'.pc = "sending" /\ sender'.cur = stt
    BY <1>3, <1>0 DEF Accept, At, replacementVars, endVars, Senders
  <2>2. ~Reading("replay") /\ (Live' => Live)
    BY <1>0, <2>1 DEF LockHeld, Live, Working, Reading
  <2>3. Live => Gapless(session[stt], cut, sent + 1)
    BY <1>0, GaplessGrows DEF Seamless
  <2>4. Below(session[stt], sent + 1)
    <3>1. session[stt].base \in Nat /\ \A i \in 1..Len(session[stt].got) : session[stt].got[i] \in Nat
      <4>1. session[stt].got \in Seq(1..MaxFrames) /\ session[stt].base \in Nat
        BY <1>0 DEF SessionStates, Frames
      <4>2. \A i \in 1..Len(session[stt].got) : session[stt].got[i] \in 1..MaxFrames
        BY <4>1, ElementOfSeq
      <4> QED BY <4>1, <4>2
    <3>2. session[stt].base <= sent /\ \A i \in 1..Len(session[stt].got) : session[stt].got[i] <= sent
      BY <1>0 DEF Bounded
    <3>3. \A m \in Nat : m <= sent => m < sent + 1
      BY <1>0
    <3> QED BY <3>1, <3>2, <3>3 DEF Below
  <2>5. Live => session[stt].base < ReplayFrom'
    <3>1. ReplayFrom <= ReplayFrom'
      BY <1>0, <2>1, ReplayNeverGoesBack
    <3>2. ReplayFrom \in Nat /\ ReplayFrom' \in Nat
      <4>1. \A c, n \in Nat : (IF c + Window >= n THEN c + 1 ELSE (n + 1) - Window) \in Nat
        BY WindowAssumption
      <4> QED BY <1>0, <2>1, <4>1 DEF ReplayFrom
    <3>3. session[stt].base \in Nat
      BY <1>0 DEF SessionStates, Frames
    <3> QED BY <3>1, <3>2, <3>3 DEF Seamless
  <2>6. ASSUME Live, NEW c \in Latest(session[stt]) + 1 .. sent + 1
        PROVE  Skipped(session[stt], c, cut, sent + 1) \/ Awaited(c)'
    <3>1. Latest(session[stt]) \in Int
      BY <1>0, LatestIsFrame
    <3>2. CASE c = sent + 1
      BY <2>1, <3>2 DEF Awaited, At
    <3>3. CASE c <= sent
      <4>1. c \in Latest(session[stt]) + 1 .. sent /\ ~Awaited(c)
        BY <1>0, <2>1, <2>2, <3>1, <3>3 DEF Awaited, At
      <4>2. c + Window <= sent => c + Window <= sent + 1
        BY <1>0, <3>1, WindowAssumption
      <4> QED BY <2>6, <4>1, <4>2 DEF Seamless, Skipped
    <3> QED BY <1>0, <3>1, <3>2, <3>3
  <2> QED BY <2>1, <2>2, <2>3, <2>4, <2>5, <2>6 DEF Seamless, Reading
<1>4. CASE SendLands
  <2> SUFFICES ASSUME Live' PROVE Seamless'
    BY DEF Seamless
  <2>1. /\ UNCHANGED <<stt, sent, committed, cut, consumer, life, stop>> /\ Takes(stt)
        /\ sender.pc = "sending" /\ sender'.pc \in {"over", "sink"} /\ (failed => failed')
        /\ sent \in 1..MaxFrames /\ session[stt].state = "open"
    BY <1>4, <1>0 DEF SendLands, Raise, SenderTo, SenderPlaced, At, audioVars, replacementVars, Senders, TypeOK, Frames
  <2>2. ~Reading("replay") /\ Live
    BY <1>0, <2>1 DEF LockHeld, Live, Working, Reading
  <2>3. Gapless(session'[stt], cut, sent) /\ Latest(session'[stt]) = sent
    <3>1. \A c \in Latest(session[stt]) + 1 .. sent - 1 : Skipped(session[stt], c, cut, sent)
      <4>1. Latest(session[stt]) \in Int
        BY <1>0, LatestIsFrame
      <4> QED BY <1>0, <2>1, <2>2, <4>1 DEF Seamless, Awaited, At
    <3>2. session'[stt].got = Append(session[stt].got, sent) /\ session'[stt].base = session[stt].base
      BY <1>0, <2>1, SessionFields
    <3>3. Gapless(session[stt], cut, sent) /\ Below(session[stt], sent)
      BY <2>1, <2>2 DEF Seamless, At
    <3> QED BY <1>0, <2>1, <3>1, <3>2, <3>3, NextFrame
  <2>4. session'[stt].base < ReplayFrom' /\ ~Reading("replay")' /\ ~At("sending")'
    BY <1>0, <2>1, <2>2, SessionFields DEF Seamless, ReplayFrom, Reading, At
  <2> QED BY <1>0, <2>1, <2>3, <2>4 DEF Seamless
<1>5. CASE SendFails
  <2>1. UNCHANGED <<stt, sent, committed, cut, session, consumer, life, stop>> /\ (failed => failed')
    BY <1>5, <1>0 DEF SendFails, Raise, audioVars, replacementVars, endVars
  <2>2. ~failed' => /\ sender.pc = "sending" /\ sender.cur = stt
                    /\ sender'.pc = "waiting" /\ sender'.cur = sender.cur
    <3>1. sender.pc = "sending" /\ sender.cur = stt
      BY <1>5, <1>0 DEF SendFails, SenderPlaced, At
    <3>2. ~failed' => sender' = [sender EXCEPT !.pc = "waiting", !.answer = "pending"]
      BY <1>5 DEF SendFails, Raise
    <3> QED BY <1>0, <3>1, <3>2 DEF Senders
  <2>3. CASE failed'
    BY <2>3 DEF Seamless, Live
  <2>4. CASE ~failed'
    <3>1. \A c \in Int : Awaited(c) => Awaited(c)'
      BY <2>1, <2>2, <2>4 DEF Awaited, At, Reading
    <3>2. Kept
      BY <1>0, <2>1, <2>2, <2>4, <3>1 DEF Kept, At, Reading
    <3> QED BY <2>1, <3>2, SeamlessStays DEF Live, Working, Reading
  <2> QED BY <2>3, <2>4
<1>6. CASE Answered
  <2>1. UNCHANGED <<stt, sent, committed, cut, session, consumer, life, stop>> /\ (failed => failed')
    BY <1>6, <1>0 DEF Answered, Raise, audioVars, replacementVars, endVars
  <2>2. ~failed' => sender.pc = "waiting" /\ sender'.pc = "recheck" /\ sender'.cur = sender.cur
    <3>1. ~failed' => sender.pc = "waiting" /\ sender' = [sender EXCEPT !.pc = "recheck"]
      BY <1>6 DEF Answered, Raise, SenderTo, At
    <3> QED BY <1>0, <3>1 DEF Senders
  <2>3. CASE failed'
    BY <2>3 DEF Seamless, Live
  <2>4. CASE ~failed'
    <3>1. \A c \in Int : Awaited(c) => Awaited(c)'
      BY <2>1, <2>2, <2>4 DEF Awaited, At, Reading
    <3>2. Kept
      BY <1>0, <2>1, <2>2, <2>4, <3>1 DEF Kept, At, Reading
    <3> QED BY <2>1, <3>2, SeamlessStays DEF Live, Working, Reading
  <2> QED BY <2>3, <2>4
<1>7. CASE Recheck
  <2>1. UNCHANGED <<stt, sent, committed, cut, session, consumer, life, stop>> /\ (failed => failed')
    BY <1>7, <1>0 DEF Recheck, Raise, audioVars, replacementVars, endVars
  <2>2. ~failed' => sender.pc = "recheck" /\ sender.cur # stt /\ sender'.pc = "sink"
    <3>1. ~failed' => sender.pc = "recheck" /\ sender.cur # stt /\ sender' = [sender EXCEPT !.pc = "sink"]
      BY <1>7 DEF Recheck, Raise, SenderTo, At
    <3> QED BY <1>0, <3>1 DEF Senders
  <2>3. CASE failed'
    BY <2>3 DEF Seamless, Live
  <2>4. CASE ~failed'
    <3>1. \A c \in Int : Awaited(c) => Awaited(c)'
      BY <2>1, <2>2, <2>4 DEF Awaited, At, Reading
    <3>2. Kept
      BY <1>0, <2>1, <2>2, <2>4, <3>1 DEF Kept, At, Reading
    <3> QED BY <2>1, <3>2, SeamlessStays DEF Live, Working, Reading
  <2> QED BY <2>3, <2>4
<1>8. CASE Sink
  <2>1. UNCHANGED <<stt, sent, committed, cut, session, consumer, life, stop>> /\ (failed => failed')
    BY <1>8, <1>0 DEF Sink, Raise, audioVars, replacementVars, endVars
  <2>2. sender.pc \notin {"sending", "waiting", "recheck"} /\ sender'.pc \notin {"sending", "waiting", "recheck"}
    BY <1>8, <1>0 DEF Sink, Raise, SenderTo, At, Senders
  <2> QED BY <1>0, <2>1, <2>2, SeamlessStays DEF Kept, Live, Working, Awaited, At, Reading
<1>9. CASE GateRefuses
  <2>1. UNCHANGED <<stt, sent, committed, cut, session, consumer, life, stop>> /\ (failed => failed')
    BY <1>9, <1>0 DEF GateRefuses, Raise, audioVars, replacementVars, endVars
  <2>2. sender.pc \notin {"sending", "waiting", "recheck"} /\ sender'.pc \notin {"sending", "waiting", "recheck"}
    BY <1>9, <1>0 DEF GateRefuses, Raise, SenderTo, At, Senders
  <2> QED BY <1>0, <2>1, <2>2, SeamlessStays DEF Kept, Live, Working, Awaited, At, Reading
<1>10. CASE CancelSender
  <2>1. /\ UNCHANGED <<stt, sent, committed, consumer, life, stop, failed>>
        /\ cut' = IF At("sending") \/ At("waiting") THEN cut \cup {sent} ELSE cut
        /\ sender'.pc = "idle"
    BY <1>10 DEF CancelSender, IdleSender, endVars
  <2>2. CASE UNCHANGED session
    <3>1. \A c \in Int : Awaited(c) => Awaited(c)' \/ c \in cut'
      BY <1>0, <2>1 DEF Awaited, At, Reading, SenderPlaced
    <3> QED BY <1>0, <2>1, <2>2, <3>1, SeamlessStays DEF Kept, Live, Working, At, Reading
  <2>3. CASE At("sending") /\ session[sender.cur].state = "open" /\ Takes(sender.cur)
    <3> SUFFICES ASSUME Live' PROVE Seamless'
      BY DEF Seamless
    <3>1. Takes(stt) /\ sent \in 1..MaxFrames /\ cut \subseteq cut'
      BY <2>1, <2>3, <1>0 DEF SenderPlaced, TypeOK, Frames
    <3>2. ~Reading("replay") /\ Live
      BY <1>0, <2>1, <2>3, <3>1, SessionFields DEF LockHeld, Live, Working, Reading, At
    <3>3. Gapless(session'[stt], cut, sent) /\ Latest(session'[stt]) = sent
      <4>1. \A c \in Latest(session[stt]) + 1 .. sent - 1 : Skipped(session[stt], c, cut, sent)
        <5>1. Latest(session[stt]) \in Int
          BY <1>0, LatestIsFrame
        <5> QED BY <1>0, <2>3, <3>2, <5>1 DEF Seamless, Awaited, At
      <4>2. session'[stt].got = Append(session[stt].got, sent) /\ session'[stt].base = session[stt].base
        BY <1>0, <3>1, SessionFields
      <4>3. Gapless(session[stt], cut, sent) /\ Below(session[stt], sent)
        BY <2>3, <3>2 DEF Seamless
      <4> QED BY <1>0, <3>1, <4>1, <4>2, <4>3, NextFrame
    <3>4. Gapless(session'[stt], cut', sent)
      <4>1. session'[stt] \in SessionStates
        BY <1>0, <2>1 DEF TypeOK
      <4> QED BY <1>0, <3>1, <3>3, <4>1, GaplessGrows
    <3>5. session'[stt].base < ReplayFrom' /\ ~Reading("replay")' /\ ~At("sending")'
      BY <1>0, <2>1, <3>1, <3>2, SessionFields DEF Seamless, ReplayFrom, Reading, At
    <3> QED BY <1>0, <2>1, <3>3, <3>4, <3>5 DEF Seamless
  <2> QED BY <1>10, <2>2, <2>3 DEF CancelSender
<1>11. ASSUME NEW k \in Sessions, Mark(k)
       PROVE  Seamless'
  <2>1. UNCHANGED <<stt, sent, committed, cut, sender, consumer, life, stop>> /\ (failed => failed')
    BY <1>11, <1>0 DEF Mark, audioVars, replacementVars, endVars, TypeOK
  <2>2. session'[stt].got = session[stt].got /\ session'[stt].base = session[stt].base
        /\ (session'[stt].state = "open" => session[stt].state = "open")
    BY <1>11, <1>0 DEF Mark, SessionStates
  <2> QED BY <1>0, <2>1, <2>2, SeamlessStays DEF Kept, Live, Working, Awaited, At, Reading
<1>12. ASSUME NEW k \in Sessions, StreamFails(k)
       PROVE  Seamless'
  <2>1. UNCHANGED <<stt, sent, committed, cut, sender, consumer, life, stop>> /\ (failed => failed')
    BY <1>12, <1>0 DEF StreamFails, audioVars, replacementVars, endVars, TypeOK
  <2>2. session'[stt].got = session[stt].got /\ session'[stt].base = session[stt].base
        /\ (session'[stt].state = "open" => session[stt].state = "open")
    BY <1>12, <1>0, SessionFields DEF StreamFails
  <2> QED BY <1>0, <2>1, <2>2, SeamlessStays DEF Kept, Live, Working, Awaited, At, Reading
<1>13. CASE AskBoundary
  BY <1>13, <1>0 DEF AskBoundary, audioVars, replacementVars, endVars, Kept, Live, Working, Awaited, At, Reading, ReplayFrom, Seamless
<1>14. CASE BoundaryAsked
  <2>1. UNCHANGED <<stt, sent, committed, cut, session, sender, consumer, life, stop>> /\ (failed => failed')
    BY <1>14, <1>0 DEF BoundaryAsked, audioVars, replacementVars
  <2> QED BY <1>0, <2>1, SeamlessStays DEF Kept, Live, Working, Awaited, At, Reading
<1>15. CASE HandleBoundary
  <2>1. UNCHANGED <<stt, sent, cut, sender, consumer, failed, life, stop>> /\ committed <= committed'
    <3>1. session[stt].mark \in Nat
      BY <1>0 DEF SessionStates, Frames
    <3>2. UNCHANGED <<stt, sent, cut, sender, consumer, failed, life, stop>>
      BY <1>15 DEF HandleBoundary, replacementVars, endVars
    <3>3. committed <= committed'
      BY <1>15, <1>0, <3>1 DEF HandleBoundary
    <3> QED BY <3>2, <3>3
  <2>2. session'[stt].got = session[stt].got /\ session'[stt].base = session[stt].base
        /\ session'[stt].state = session[stt].state
    BY <1>15, <1>0 DEF HandleBoundary, SessionStates
  <2> QED BY <1>0, <2>1, <2>2, SeamlessStays DEF Kept, Live, Working, Awaited, At, Reading
<1>16. CASE StageFails
  <2>1. UNCHANGED <<stt, sent, committed, cut, session, life, stop>> /\ (failed => failed')
    BY <1>16, <1>0 DEF StageFails, audioVars, replacementVars, endVars, TypeOK
  <2>2. sender'.pc = sender.pc /\ sender'.cur = sender.cur
    BY <1>16, ConsumerEnded DEF StageFails
  <2>3. consumer.pc \notin {"replay", "drop"} /\ consumer'.pc \notin {"replay", "drop"}
    BY <1>16, <1>0, ConsumerEnded DEF StageFails, Reading, ConsumerTo, Consumers
  <2> QED BY <1>0, <2>1, <2>2, <2>3, SeamlessStays DEF Kept, Live, Working, Awaited, At, Reading
<1>17. CASE HandleTerminal
  <2>1. UNCHANGED <<stt, sent, committed, cut, session, life, stop>> /\ (failed => failed')
    BY <1>17, <1>0 DEF HandleTerminal, audioVars, replacementVars, endVars, TypeOK
  <2>2. sender'.pc = sender.pc /\ sender'.cur = sender.cur
    BY <1>17, ConsumerEnded DEF HandleTerminal
  <2>3. consumer.pc \notin {"replay", "drop"} /\ consumer'.pc \notin {"replay", "drop"}
    BY <1>17, <1>0, ConsumerEnded DEF HandleTerminal, Reading, ConsumerTo, Consumers
  <2> QED BY <1>0, <2>1, <2>2, <2>3, SeamlessStays DEF Kept, Live, Working, Awaited, At, Reading
<1>18. CASE Decide
  <2>1. UNCHANGED <<stt, sent, committed, cut, session, life, stop>> /\ (failed => failed')
    BY <1>18, <1>0 DEF Decide, audioVars, replacementVars, endVars, TypeOK
  <2>2. sender'.pc = sender.pc /\ sender'.cur = sender.cur
    BY <1>18, ConsumerEnded DEF Decide
  <2>3. consumer.pc \notin {"replay", "drop"} /\ consumer'.pc \notin {"replay", "drop"}
    BY <1>18, <1>0, ConsumerEnded DEF Decide, Reading, ConsumerTo, Consumers
  <2> QED BY <1>0, <2>1, <2>2, <2>3, SeamlessStays DEF Kept, Live, Working, Awaited, At, Reading
<1>19. CASE StreamOver
  <2>1. UNCHANGED <<stt, sent, committed, cut, session, life, stop>> /\ (failed => failed')
    BY <1>19, <1>0 DEF StreamOver, audioVars, replacementVars, endVars, TypeOK
  <2>2. sender'.pc = sender.pc /\ sender'.cur = sender.cur
    BY <1>19, ConsumerEnded DEF StreamOver
  <2>3. consumer.pc \notin {"replay", "drop"} /\ consumer'.pc \notin {"replay", "drop"}
    BY <1>19, <1>0, ConsumerEnded DEF StreamOver, Reading, ConsumerTo, Consumers
  <2> QED BY <1>0, <2>1, <2>2, <2>3, SeamlessStays DEF Kept, Live, Working, Awaited, At, Reading
<1>20. CASE Delay
  <2>1. UNCHANGED <<stt, sent, committed, cut, session, life, stop>> /\ (failed => failed')
    BY <1>20, <1>0 DEF Delay, audioVars, replacementVars, endVars, TypeOK
  <2>2. sender'.pc = sender.pc /\ sender'.cur = sender.cur
    BY <1>20, ConsumerEnded DEF Delay
  <2>3. consumer.pc \notin {"replay", "drop"} /\ consumer'.pc \notin {"replay", "drop"}
    BY <1>20, <1>0, ConsumerEnded DEF Delay, Reading, ConsumerTo, Consumers
  <2> QED BY <1>0, <2>1, <2>2, <2>3, SeamlessStays DEF Kept, Live, Working, Awaited, At, Reading
<1>21. CASE Prepare
  <2>1. UNCHANGED <<stt, sent, committed, cut, session, life, stop>> /\ (failed => failed')
    BY <1>21, <1>0 DEF Prepare, audioVars, replacementVars, endVars, TypeOK
  <2>2. sender'.pc = sender.pc /\ sender'.cur = sender.cur
    BY <1>21, ConsumerEnded DEF Prepare
  <2>3. consumer.pc \notin {"replay", "drop"} /\ consumer'.pc \notin {"replay", "drop"}
    BY <1>21, <1>0, ConsumerEnded DEF Prepare, Reading, ConsumerTo, Consumers
  <2> QED BY <1>0, <2>1, <2>2, <2>3, SeamlessStays DEF Kept, Live, Working, Awaited, At, Reading
<1>22. CASE Opened
  <2>1. UNCHANGED <<stt, sent, committed, cut, session, life, stop>> /\ (failed => failed')
    BY <1>22, <1>0 DEF Opened, audioVars, replacementVars, endVars, TypeOK
  <2>2. sender'.pc = sender.pc /\ sender'.cur = sender.cur
    BY <1>22, ConsumerEnded DEF Opened
  <2>3. consumer.pc \notin {"replay", "drop"} /\ consumer'.pc \notin {"replay", "drop"}
    BY <1>22, <1>0, ConsumerEnded DEF Opened, Reading, ConsumerTo, Consumers
  <2> QED BY <1>0, <2>1, <2>2, <2>3, SeamlessStays DEF Kept, Live, Working, Awaited, At, Reading
<1>23. CASE Install
  <2> SUFFICES ASSUME Live' PROVE Seamless'
    BY DEF Seamless
  <2>1. /\ UNCHANGED <<audioVars, attempt, sender>> /\ Working
        /\ stt' = attempt /\ lock = "free" /\ Reading("install")
        /\ session' = [session EXCEPT ![stt] = [NoSession EXCEPT !.state = "failed"]]
    BY <1>23, <1>0 DEF Install, Live, Working, endVars
  <2>2. consumer'.pc = "replay" /\ consumer'.next = ReplayFrom
    BY <1>23, <1>0, <2>1 DEF Install, Consumers
  <2>3. stt < attempt /\ session'[attempt] = session[attempt] /\ session[attempt].got = <<>>
    BY <1>0, <2>1 DEF AttemptPlaced, Reading
  <2> DEFINE s == session[attempt]
  <2>4. s.base \in Nat /\ committed <= s.base /\ s.base < ReplayFrom /\ ReplayFrom' = ReplayFrom /\ ReplayFrom \in Nat
    <3>1. session[attempt] \in SessionStates /\ ReplayFrom \in Nat
      BY <1>0, ReplayBeginsNow
    <3> QED BY <1>0, <2>1, <3>1 DEF AttemptPlaced, Reading, SessionStates, Frames, ReplayFrom, audioVars
  <2>5. Len(s.got) = 0 /\ Latest(s) = s.base
    BY <2>3 DEF Latest
  <2>6. Gapless(s, cut, sent) /\ Below(s, ReplayFrom)
    BY <2>3, <2>4, <2>5 DEF Gapless, Below
  <2>7. ~At("sending")'
    BY <1>0, <2>1 DEF LockHeld, At
  <2>8. ASSUME NEW c \in s.base + 1 .. sent
        PROVE  Skipped(s, c, cut, sent) \/ Awaited(c)'
    <3>1. CASE c >= ReplayFrom
      BY <2>2, <3>1 DEF Awaited, Reading
    <3>2. CASE c < ReplayFrom
      <4>1. c \in Nat /\ ~(c <= committed)
        BY <1>0, <2>4
      <4>2. c + Window <= sent
        BY <3>2, <4>1, ReplayBeginsNow
      <4> QED BY <2>3, <4>2 DEF Skipped
    <3> QED BY <1>0, <2>4, <3>1, <3>2
  <2> QED BY <2>1, <2>2, <2>3, <2>4, <2>5, <2>6, <2>7, <2>8 DEF Seamless, audioVars
<1>24. CASE ReplayOne
  <2> SUFFICES ASSUME Live' PROVE Seamless'
    BY DEF Seamless
  <2> DEFINE x == consumer.next
  <2>1. /\ UNCHANGED <<stt, sent, committed, cut, sender, life, stop, failed>>
        /\ Reading("replay") /\ x <= sent /\ session[stt].state = "open"
        /\ session' = [session EXCEPT ![stt].got = Append(@, consumer.next)]
        /\ consumer'.pc = "replay" /\ consumer'.next = x + 1
    BY <1>24, <1>0 DEF ReplayOne, audioVars, replacementVars, endVars, Reading, Consumers
  <2>2. x \in 1..MaxFrames
    <3>1. x \in 1..MaxFrames + 1 /\ sent \in 0..MaxFrames
      BY <1>0 DEF TypeOK, Frames, Consumers
    <3> QED BY <2>1, <3>1, BoundsAssumption
  <2>3. Live /\ sender.pc # "sending" /\ (sender.pc \in {"waiting", "recheck"} => sender.cur # stt)
    BY <1>0, <2>1 DEF Live, Working, Reading, LockHeld, SenderPlaced, At
  <2>4. /\ session'[stt].got = Append(session[stt].got, x)
        /\ session'[stt].base = session[stt].base
    BY <1>0, <2>1 DEF SessionStates
  <2>5. Gapless(session'[stt], cut, sent) /\ Latest(session'[stt]) = x
    <3>1. \A c \in Latest(session[stt]) + 1 .. x - 1 : Skipped(session[stt], c, cut, sent)
      <4>1. Latest(session[stt]) \in Int
        BY <1>0, LatestIsFrame
      <4> QED BY <1>0, <2>1, <2>2, <2>3, <4>1 DEF Seamless, Awaited, At
    <3> HIDE DEF x
    <3> QED BY <1>0, <2>1, <2>2, <2>3, <2>4, <3>1, NextFrame DEF Seamless, x
  <2>6. Below(session'[stt], x + 1)
    BY <1>0, <2>1, <2>2, <2>3, <2>4, BelowNext DEF Seamless
  <2>7. session'[stt].base < ReplayFrom'
    BY <2>1, <2>3, <2>4 DEF Seamless, ReplayFrom
  <2>8. \A c \in x + 1 .. sent : Awaited(c)'
    BY <2>1, <2>2, <1>0 DEF Awaited, Reading
  <2> QED BY <2>1, <2>3, <2>5, <2>6, <2>7, <2>8 DEF Seamless, At
<1>25. CASE ReplayFails
  <2>1. ~Live'
    BY <1>25, <1>0 DEF ReplayFails, Live, Reading, Consumers
  <2> QED BY <2>1 DEF Seamless
<1>26. CASE Replayed
  <2>1. UNCHANGED <<stt, sent, committed, cut, session, life, stop, failed>>
    BY <1>26 DEF Replayed, audioVars, endVars
  <2>2. sender'.pc = sender.pc /\ sender'.cur = sender.cur
    BY <1>26, Resolved DEF Replayed
  <2>3. Reading("replay") /\ sent < consumer.next /\ consumer'.pc # "replay"
    BY <1>26, <1>0 DEF Replayed, Reading, ConsumerTo, Consumers, TypeOK, Frames
  <2>4. Kept
    <3>1. \A c \in Int : c <= sent /\ Awaited(c) => Awaited(c)'
      <4>1. consumer.next \in Nat
        BY <1>0 DEF Consumers
      <4> QED BY <1>0, <2>1, <2>2, <2>3, <4>1 DEF Awaited, At, Reading
    <3> QED BY <1>0, <2>1, <2>2, <2>3, <3>1 DEF Kept, At, Reading
  <2> QED BY <2>1, <2>3, <2>4, SeamlessStays DEF Live, Working, Reading
<1>27. CASE Drop
  <2>1. ~Live'
    BY <1>27, <1>0 DEF Drop, Live, Working, AttemptPlaced, endVars
  <2> QED BY <2>1 DEF Seamless
<1>28. CASE Connect
  <2>1. UNCHANGED <<stt, sent, committed, cut, sender, consumer, life, stop>> /\ (failed => failed')
    BY <1>28, <1>0 DEF Connect, audioVars, replacementVars, endVars, TypeOK
  <2>2. session'[stt].got = session[stt].got /\ session'[stt].base = session[stt].base
        /\ (session'[stt].state = "open" => session[stt].state = "open")
    <3>1. stt # attempt
      BY <1>28, <1>0 DEF Connect, AttemptPlaced, Reading
    <3> QED BY <1>28, <1>0, <3>1 DEF Connect
  <2> QED BY <1>0, <2>1, <2>2, SeamlessStays DEF Kept, Live, Working, Awaited, At, Reading
<1>29. CASE Connected
  <2>1. UNCHANGED <<stt, sent, committed, cut, sender, consumer, life, stop>> /\ (failed => failed')
    BY <1>29, <1>0 DEF Connected, audioVars, replacementVars, endVars, TypeOK
  <2>2. session'[stt].got = session[stt].got /\ session'[stt].base = session[stt].base
        /\ (session'[stt].state = "open" => session[stt].state = "open")
    <3>1. stt # attempt
      BY <1>29, <1>0 DEF Connected, AttemptPlaced, Reading
    <3> QED BY <1>29, <1>0, <3>1, SessionFields DEF Connected
  <2> QED BY <1>0, <2>1, <2>2, SeamlessStays DEF Kept, Live, Working, Awaited, At, Reading
<1>30. CASE OpenFails
  <2>1. UNCHANGED <<stt, sent, committed, cut, sender, consumer, life, stop>> /\ (failed => failed')
    BY <1>30, <1>0 DEF OpenFails, audioVars, replacementVars, endVars, TypeOK
  <2>2. session'[stt].got = session[stt].got /\ session'[stt].base = session[stt].base
        /\ (session'[stt].state = "open" => session[stt].state = "open")
    BY <1>30, <1>0 DEF OpenFails
  <2> QED BY <1>0, <2>1, <2>2, SeamlessStays DEF Kept, Live, Working, Awaited, At, Reading
<1>31. CASE Finish
  <2>1. ~Live'
    BY <1>31 DEF Finish, Live, Working
  <2> QED BY <2>1 DEF Seamless
<1>32. CASE CancelCandidate
  <2>1. UNCHANGED <<stt, sent, committed, cut, sender, consumer, life, stop>> /\ (failed => failed')
    BY <1>32, <1>0 DEF CancelCandidate, audioVars, replacementVars, endVars, TypeOK
  <2>2. session'[stt].got = session[stt].got /\ session'[stt].base = session[stt].base
        /\ (session'[stt].state = "open" => session[stt].state = "open")
    <3>1. UNCHANGED session \/ (candidate \in Sessions /\ Ended(candidate))
      BY <1>32 DEF CancelCandidate, TypeOK
    <3> QED BY <1>0, <3>1, SessionFields
  <2> QED BY <1>0, <2>1, <2>2, SeamlessStays DEF Kept, Live, Working, Awaited, At, Reading
<1>33. CASE FinishStream
  <2>1. UNCHANGED <<stt, sent, committed, cut, sender, consumer, life, stop>> /\ (failed => failed')
    BY <1>33, <1>0 DEF FinishStream, audioVars, replacementVars, endVars, TypeOK
  <2>2. session'[stt].got = session[stt].got /\ session'[stt].base = session[stt].base
        /\ (session'[stt].state = "open" => session[stt].state = "open")
    BY <1>33, <1>0, SessionFields DEF FinishStream
  <2> QED BY <1>0, <2>1, <2>2, SeamlessStays DEF Kept, Live, Working, Awaited, At, Reading
<1>34. CASE Drain
  <2>1. ~Live'
    BY <1>34 DEF Drain, Live, Working
  <2> QED BY <2>1 DEF Seamless
<1>35. CASE Gather
  <2>1. ~Live'
    BY <1>35 DEF Gather, Live, Working
  <2> QED BY <2>1 DEF Seamless
<1>36. CASE FinishRaises
  <2>1. UNCHANGED <<stt, sent, committed, cut, sender, consumer, life, stop, failed>>
    BY <1>36, Raised DEF audioVars
  <2>2. session'[stt].got = session[stt].got /\ session'[stt].base = session[stt].base
        /\ (session'[stt].state = "open" => session[stt].state = "open")
    BY <1>36, <1>0, Raised
  <2> QED BY <1>0, <2>1, <2>2, SeamlessStays DEF Kept, Live, Working, Awaited, At, Reading
<1> QED
  BY <1>1, <1>2, <1>3, <1>4, <1>5, <1>6, <1>7, <1>8, <1>9, <1>10, <1>11, <1>12, <1>13, <1>14,
     <1>15, <1>16, <1>17, <1>18, <1>19, <1>20, <1>21, <1>22, <1>23, <1>24, <1>25, <1>26, <1>27,
     <1>28, <1>29, <1>30, <1>31, <1>32, <1>33, <1>34, <1>35, <1>36 DEF Next, Sending, Consuming,
     Opening, Closing

-----------------------------------------------------------------------------
(* The invariant and what follows from it *)

\* start leaves a session in which nothing was sent yet.
LEMMA SessionInit == Init => IInv
<1> SUFFICES ASSUME Init PROVE IInv
  OBVIOUS
<1>1. 1 \in Sessions /\ 0 \in Frames /\ 0 \in 0..MaxFaults /\ <<>> \in Seq(1..MaxFrames)
  BY AttemptsAssumption, BoundsAssumption DEF Sessions, Frames
<1>2. \A k \in Sessions : /\ session[k] \in SessionStates
                          /\ session[k].state = (IF k = 1 THEN "open" ELSE "none")
                          /\ session[k].base = 0 /\ session[k].got = <<>> /\ session[k].mark = 0
  BY <1>1 DEF Init, NoSession, SessionStates
<1>3. TypeOK
  <2>1. session \in [Sessions -> SessionStates]
    BY <1>2 DEF Init
  <2>2. sender \in Senders /\ consumer \in Consumers
    BY <1>1, BoundsAssumption DEF Init, IdleSender, Senders, Consumers
  <2> QED BY <1>1, <2>1, <2>2 DEF Init, TypeOK
<1>4. /\ sender.pc = "idle" /\ consumer.pc = "events" /\ stt = 1 /\ attempt = 1
      /\ sent = 0 /\ committed = 0 /\ cut = {} /\ stt \in Sessions
  BY <1>1 DEF Init, IdleSender
<1>5. Placed
  BY <1>2, <1>4 DEF Init, Placed, LockHeld, SenderPlaced, AttemptPlaced, EndPlaced, At, Reading
<1>6. \A k \in Sessions : Len(session[k].got) = 0
  BY <1>2
<1>7. Bounded
  BY <1>2, <1>4, <1>6 DEF Bounded
<1>8. Seamless
  <2>1. Latest(session[stt]) = 0
    BY <1>2, <1>4 DEF Latest
  <2>2. Gapless(session[stt], cut, sent)
    BY <1>2, <1>4, <1>6, <2>1 DEF Gapless
  <2>3. session[stt].base < ReplayFrom
    BY <1>2, <1>3, <1>4, ReplayBeginsNow
  <2> QED BY <1>4, <2>1, <2>2, <2>3 DEF Seamless, At, Reading
<1> QED BY <1>3, <1>5, <1>7, <1>8 DEF IInv

\* Every step of the four tasks keeps the invariant.
LEMMA SessionStep == IInv /\ [Next]_vars => IInv'
<1> SUFFICES ASSUME IInv, [Next]_vars PROVE IInv'
  OBVIOUS
<1>1. TypeOK'
  BY TypesKept DEF IInv
<1>2. CASE Next
  BY <1>1, <1>2, LockHeldKept, SenderPlacedKept, AttemptPlacedKept, EndPlacedKept, BoundedKept,
     SeamlessKept DEF IInv, Placed
<1>3. CASE UNCHANGED vars
  <2> USE <1>3 DEF IInv, vars, audioVars, replacementVars, endVars
  <2>1. LockHeld' /\ SenderPlaced'
    BY DEF Placed, LockHeld, SenderPlaced, At, Reading
  <2>2. AttemptPlaced'
    BY DEF Placed, AttemptPlaced, Reading, ReplayFrom, Working
  <2>3. EndPlaced'
    BY DEF Placed, EndPlaced, Reading
  <2>4. Bounded'
    BY DEF Bounded
  <2>5. Seamless'
    BY DEF Seamless, Live, Working, Reading, At, Awaited, ReplayFrom
  <2> QED BY <1>1, <2>1, <2>2, <2>3, <2>4, <2>5 DEF Placed
<1> QED BY <1>2, <1>3

\* The invariant holds whatever the track, the provider and finish do, and in
\* whatever order.
THEOREM SessionInvariant == Spec => []IInv
BY SessionInit, SessionStep, PTL DEF Spec

\* Every variable keeps its type; above all, no more sessions are opened than
\* the retry policy allows.
THEOREM SessionTypes == Spec => []TypeOK
<1>1. IInv => TypeOK
  BY DEF IInv
<1> QED BY <1>1, SessionInvariant, PTL

\* finish that reaches TERMINAL leaves no session open and nobody who would open
\* one.
THEOREM NothingIsLeftOpen == Spec => []NoStreamLeft
<1>1. IInv => NoStreamLeft
  <2> SUFFICES ASSUME IInv, life = "terminal" PROVE NoStreamLeft
    BY DEF NoStreamLeft
  <2>1. closing = "returned" /\ consumer.pc = "done"
    BY DEF IInv, Placed, EndPlaced, Reading
  <2>2. opening = "none"
    BY <2>1 DEF IInv, Placed, AttemptPlaced, Reading
  <2>3. candidate = 0
    BY <2>1 DEF IInv, Placed, EndPlaced, Reading
  <2>4. session[stt].state # "open"
    BY <2>1 DEF IInv, Placed, EndPlaced
  <2>5. \A k \in Sessions : session[k].state # "open"
    BY <2>1, <2>2, <2>4 DEF IInv, Placed, EndPlaced
  <2> QED BY <2>2, <2>3, <2>5 DEF NoStreamLeft
<1> QED BY <1>1, SessionInvariant, PTL

\* The current session misses no frame it should have, has none twice and none
\* out of order, across any number of failures and replacements.
THEOREM StreamNeverTears == Spec => []StreamIsSeamless
<1>1. IInv => StreamIsSeamless
  <2> SUFFICES ASSUME IInv, Live PROVE StreamIsSeamless
    BY DEF StreamIsSeamless, Live
  <2> DEFINE s == session[stt]
  <2>1. /\ s \in SessionStates /\ sent \in Nat /\ Latest(s) \in Int
        /\ s.base \in Nat /\ ReplayFrom \in Nat
    <3>1. s \in SessionStates /\ sent \in Nat
      BY DEF IInv, TypeOK, Frames
    <3>2. s.base \in Nat
      BY <3>1 DEF SessionStates, Frames
    <3>3. Latest(s) \in Int
      BY <3>1, LatestIsFrame DEF Frames
    <3>4. ReplayFrom \in Nat
      BY ReplayBeginsNow DEF IInv
    <3> QED BY <3>1, <3>2, <3>3, <3>4
  <2>2. Gapless(s, cut, sent) /\ s.base < ReplayFrom
    BY DEF IInv, Seamless
  <2>3. ASSUME NEW c \in ReplayFrom .. sent
        PROVE  c \in Got(stt) \cup cut \/ OnItsWay(c)
    <3>1. ~(c + Window <= sent)
      BY <2>1, ReplayBeginsNow, WindowAssumption DEF IInv
    <3>2. CASE c <= Latest(s)
      <4>1. c \in s.base + 1 .. Latest(s)
        BY <2>1, <2>2, <3>2
      <4> QED BY <2>2, <3>1, <4>1 DEF Gapless, Got
    <3>3. CASE c > Latest(s)
      <4>1. c \in Latest(s) + 1 .. sent
        BY <2>1, <3>3
      <4>2. Skipped(s, c, cut, sent) \/ Awaited(c)
        BY <4>1 DEF IInv, Seamless
      <4>3. Awaited(c) => OnItsWay(c)
        BY DEF Awaited, OnItsWay, At, Reading
      <4> QED BY <3>1, <4>2, <4>3 DEF Skipped
    <3> QED BY <2>1, <3>2, <3>3
  <2> QED BY <2>2, <2>3 DEF StreamIsSeamless, Gapless
<1> QED BY <1>1, SessionInvariant, PTL

-----------------------------------------------------------------------------
(* Nobody is forgotten: the safety half of SessionSettles *)

\* Audio waits for an answer that nobody has given yet.
Pending == At("waiting") /\ sender.answer = "pending"

\* Whoever waits can still be told, and until a replacement is installed the
\* session that refused the frame is the current one.
Expected ==
  /\ Pending => ready = "pending" /\ ~stop
  /\ Pending /\ consumer.pc \notin {"replay", "drop", "done"} => sender.cur = stt

\* The task that reads the events ends for a stop or a failure the job hears of,
\* and a session ends of itself for neither.
EndsForReason ==
  /\ Reading("done") => stop \/ failed
  /\ Reading("join") => session[stt].state \in {"failed", "ended"}
  /\ session[stt].state # "none"
  /\ opening = "opened" \/ Reading("install") => session[attempt].state # "none"
  /\ opening = "cancelled" => stop
  /\ \A k \in Sessions : session[k].state = "ended" => stop \/ Reading("done")

\* How far finish has come tells the stop and the state.
StopFits ==
  /\ stop <=> closing # "no"
  /\ closing \in {"no", "candidate", "finish", "drain"} => life = "open"
  /\ life = "terminal" <=> closing = "returned"

Attended == IInv /\ Expected /\ EndsForReason /\ StopFits

\* The task that reads the events, or the one that opens a replacement for it, has a step to take.
EventsGoOn ==
  \/ Reading("events") /\ session[stt].state \in {"failed", "ended"}
  \/ consumer.pc \in {"join", "delay", "open", "replay", "drop"}
  \/ consumer.pc \in {"prepare", "install"} /\ lock = "free"

\* Whoever holds the lock, but for a replay, has a step that brings it nearer to giving it back.
LockReturns ==
  \/ lock = "boundary"
  \/ lock = "sender" /\ sender.pc \in {"gate", "sending"}

StopGoesOn ==
  \/ closing \in {"candidate", "finish"}
  \/ closing = "drain" /\ lock = "free"
  \/ closing = "gather" /\ Reading("done")

\* From the stop until finish returns or raises one of the tasks it waits for has
\* a step to take; and audio that waits for a replacement can still be answered, by a
\* task that has a step to take, unless the session that refused it works on or
\* the job has heard of a failure.
NobodyIsForgotten ==
  /\ stop /\ closing \notin {"returned", "raised"} => StopGoesOn \/ LockReturns \/ EventsGoOn
  /\ Pending =>
       /\ ready = "pending" /\ ~stop
       /\ session[sender.cur].state = "open" \/ failed \/ LockReturns \/ EventsGoOn

\* An answer reaches whoever waits.
LEMMA AnswerArrives ==
  ASSUME TypeOK, Expected, NEW answer \in {"none", "new"}, Resolve(answer)
  PROVE  ~Pending'
<1>1. CASE ready = "pending" /\ At("waiting")
  <2>1. sender' = [sender EXCEPT !.answer = answer] /\ sender \in Senders
    BY <1>1 DEF Resolve, TypeOK
  <2>2. sender'.answer = answer
    BY <2>1 DEF Senders
  <2> QED BY <2>2 DEF Pending
<1>2. CASE ~(ready = "pending" /\ At("waiting"))
  BY <1>2 DEF Resolve, Expected, Pending, At
<1> QED BY <1>1, <1>2

\* Only finish changes how far it has come.
LEMMA StopFitsKept ==
  ASSUME StopFits, Next
  PROVE  StopFits'
<1> USE DEF endVars
<1>1. CASE Claim \/ GateRefuses \/ CancelSender
  BY <1>1 DEF Claim, GateRefuses, CancelSender, StopFits
<1>2. CASE Sending
  BY <1>2 DEF Sending, Enter, Accept, SendLands, SendFails, Answered, Recheck, Sink, StopFits
<1>3. CASE (\E k \in Sessions : Mark(k) \/ StreamFails(k)) \/ AskBoundary \/ BoundaryAsked
  BY <1>3 DEF Mark, StreamFails, AskBoundary, BoundaryAsked, StopFits
<1>4. CASE HandleBoundary \/ HandleTerminal \/ Decide \/ StreamOver \/ Delay \/ Prepare
  BY <1>4 DEF HandleBoundary, HandleTerminal, Decide, StreamOver, Delay, Prepare, StopFits
<1>5. CASE Opened \/ Install \/ ReplayOne \/ ReplayFails \/ Replayed \/ Drop \/ StageFails
  BY <1>5 DEF Opened, Install, ReplayOne, ReplayFails, Replayed, Drop, StageFails, StopFits
<1>6. CASE Opening \/ OpenFails
  BY <1>6 DEF Opening, Connect, Connected, OpenFails, StopFits
<1>7. CASE Finish
  BY <1>7 DEF Finish, StopFits
<1>8. CASE Closing
  BY <1>8 DEF Closing, CancelCandidate, FinishStream, Drain, Gather, StopFits
<1>9. CASE FinishRaises
  BY <1>9 DEF FinishRaises, StopFits
<1> QED BY <1>1, <1>2, <1>3, <1>4, <1>5, <1>6, <1>7, <1>8, <1>9 DEF Next, Consuming

\* A sender waits only after its session refused the frame, and nobody who may
\* answer goes away without an answer.
LEMMA ExpectedKept ==
  ASSUME TypeOK, Placed, Expected, Next
  PROVE  Expected'
<1>0. sender \in Senders /\ consumer \in Consumers
  BY DEF TypeOK
<1>0a. ASSUME NEW answer \in {"none", "new"}, Resolve(answer)
       PROVE  Expected'
  BY <1>0a, AnswerArrives DEF Expected
<1>0b. ASSUME sender'.pc # "waiting"
       PROVE  Expected'
  BY <1>0b DEF Expected, Pending, At
\* Nobody is answered, and the task that reads the events comes no nearer to a replay.
<1>0c. ASSUME sender' = sender, ready' \in {ready, "pending"}, stop' = stop, stt' = stt,
              consumer'.pc \in {"replay", "drop", "done"} \/ consumer.pc \notin {"replay", "drop", "done"}
       PROVE  Expected'
  BY <1>0c DEF Expected, Pending, At
<1>1. CASE Claim \/ GateRefuses
  BY <1>0, <1>0b, <1>1 DEF Claim, GateRefuses, SenderTo, Raise, Senders
<1>2. CASE CancelSender
  BY <1>0b, <1>2 DEF CancelSender, IdleSender
<1>3. CASE SendFails
  <2>1. CASE stop
    BY <1>0, <1>0b, <1>3, <2>1 DEF SendFails, Raise, SenderTo, Senders
  <2>2. CASE ~stop
    <3>1. sender' = [sender EXCEPT !.pc = "waiting", !.answer = "pending"] /\ sender.cur = stt
      BY <1>3, <2>2 DEF SendFails, Placed, SenderPlaced
    <3>2. sender'.cur = stt
      BY <1>0, <3>1 DEF Senders
    <3> QED BY <1>3, <2>2, <3>2 DEF SendFails, Expected
  <2> QED BY <2>1, <2>2
<1>4. CASE Enter
  <2>1. sender'.pc \in {"gate", "over"}
    BY <1>0, <1>4 DEF Enter, SenderTo, Raise, Senders
  <2> QED BY <2>1, <1>0b
<1>5. CASE Accept \/ Sink
  BY <1>0, <1>0b, <1>5 DEF Accept, Sink, SenderTo, Senders
<1>6. CASE SendLands \/ Answered \/ Recheck
  <2>1. sender'.pc \in {"over", "sink", "recheck"}
    BY <1>0, <1>6 DEF SendLands, Answered, Recheck, Raise, SenderTo, Senders
  <2> QED BY <2>1, <1>0b
<1>7. CASE (\E k \in Sessions : Mark(k) \/ StreamFails(k)) \/ AskBoundary \/ BoundaryAsked
  BY <1>7 DEF Mark, StreamFails, AskBoundary, BoundaryAsked, Expected, Pending, At, replacementVars, endVars
<1>8. CASE Opening \/ OpenFails
  BY <1>8 DEF Opening, Connect, Connected, OpenFails, Expected, Pending, At, endVars
<1>9. CASE HandleBoundary \/ HandleTerminal
  <2>1. sender' = sender /\ ready' = ready /\ stop' = stop /\ stt' = stt /\ consumer.pc = "events"
    BY <1>9 DEF HandleBoundary, HandleTerminal, Reading, replacementVars, endVars
  <2> QED BY <2>1, <1>0c
<1>10. CASE StageFails \/ StreamOver \/ Drop
  BY <1>10, <1>0a DEF StageFails, StreamOver, Drop, ConsumerEnds
<1>11. CASE Decide
  <2>1. CASE ConsumerTo("delay") /\ UNCHANGED <<ready, sender, failed>>
    BY <1>11, <2>1, <1>0c DEF Decide, Reading
  <2>2. CASE ConsumerEnds
    BY <2>2, <1>0a DEF ConsumerEnds
  <2> QED BY <1>11, <2>1, <2>2 DEF Decide
<1>12. CASE Delay
  <2>1. CASE ConsumerEnds
    BY <2>1, <1>0a DEF ConsumerEnds
  <2>2. CASE UNCHANGED <<ready, sender>>
    BY <1>12, <2>2, <1>0c DEF Delay, Reading, endVars
  <2> QED BY <1>12, <2>1, <2>2 DEF Delay
<1>13. CASE Prepare
  <2>1. CASE ConsumerEnds
    BY <2>1, <1>0a DEF ConsumerEnds
  <2>2. CASE ready' = "pending" /\ UNCHANGED sender
    BY <1>13, <2>2, <1>0c DEF Prepare, Reading, endVars
  <2> QED BY <1>13, <2>1, <2>2 DEF Prepare
<1>14. CASE Opened
  <2>1. CASE ConsumerEnds
    BY <2>1, <1>0a DEF ConsumerEnds
  <2>2. CASE UNCHANGED <<ready, sender>>
    BY <1>14, <2>2, <1>0c DEF Opened, Reading
  <2> QED BY <1>14, <2>1, <2>2 DEF Opened
<1>15. CASE Install
  <2>1. consumer'.pc \in {"replay", "drop"}
    BY <1>0, <1>15 DEF Install, Consumers
  <2> QED BY <1>15, <2>1 DEF Install, Expected, Pending, At, endVars
<1>16. CASE ReplayOne \/ ReplayFails
  <2>1. consumer'.pc \in {"replay", "drop"}
    BY <1>0, <1>16 DEF ReplayOne, ReplayFails, Reading, Consumers
  <2> QED BY <1>16, <2>1, <1>0c DEF ReplayOne, ReplayFails, replacementVars, endVars
<1>17. CASE Replayed
  <2>1. CASE stop
    <3>1. consumer'.pc = "drop"
      BY <1>0, <1>17, <2>1 DEF Replayed, Consumers
    <3> QED BY <1>17, <2>1, <3>1, <1>0c DEF Replayed, endVars
  <2>2. CASE ~stop
    BY <1>17, <2>2, <1>0a DEF Replayed
  <2> QED BY <2>1, <2>2
<1>18. CASE Finish
  BY <1>18, <1>0a DEF Finish
<1>19. CASE Closing \/ FinishRaises
  <2>1. sender' = sender /\ ready' = ready /\ stop' = stop /\ stt' = stt /\ consumer' = consumer
    BY <1>19 DEF Closing, CancelCandidate, FinishStream, Drain, Gather, FinishRaises, replacementVars
  <2> QED BY <2>1 DEF Expected, Pending, At
<1> QED
  BY <1>1, <1>2, <1>3, <1>4, <1>5, <1>6, <1>7, <1>8, <1>9, <1>10, <1>11, <1>12, <1>13, <1>14,
     <1>15, <1>16, <1>17, <1>18, <1>19 DEF Next, Sending, Consuming

\* The states of the sessions after one of them moved.
LEMMA StatesAfter ==
  ASSUME TypeOK, NEW k \in Sessions
  PROVE  /\ \A s \in {"open", "failed", "ended"} : session' = [session EXCEPT ![k].state = s] =>
              \A j \in Sessions : session'[j].state = (IF j = k THEN s ELSE session[j].state)
         /\ \A f : session' = [session EXCEPT ![k].mark = f] \/ session' = [session EXCEPT ![k].base = f]
                     \/ session' = [session EXCEPT ![k].got = Append(@, f)] =>
              \A j \in Sessions : session'[j].state = session[j].state
         /\ Ended(k) =>
              \A j \in Sessions : session'[j].state =
                IF j = k /\ session[k].state = "open" THEN "ended" ELSE session[j].state
         /\ session' = [session EXCEPT ![k] = [NoSession EXCEPT !.state = "failed"]] =>
              \A j \in Sessions : session'[j].state = (IF j = k THEN "failed" ELSE session[j].state)
<1>1. session \in [Sessions -> SessionStates] /\ \A j \in Sessions : session[j] \in SessionStates
  BY DEF TypeOK
<1>2. ASSUME NEW s \in {"open", "failed", "ended"}, session' = [session EXCEPT ![k].state = s]
      PROVE  \A j \in Sessions : session'[j].state = (IF j = k THEN s ELSE session[j].state)
  BY <1>1, <1>2 DEF SessionStates
<1>3. ASSUME NEW f, session' = [session EXCEPT ![k].mark = f]
      PROVE  \A j \in Sessions : session'[j].state = session[j].state
  BY <1>1, <1>3 DEF SessionStates
<1>4. ASSUME NEW f, session' = [session EXCEPT ![k].base = f]
      PROVE  \A j \in Sessions : session'[j].state = session[j].state
  BY <1>1, <1>4 DEF SessionStates
<1>5. ASSUME NEW f, session' = [session EXCEPT ![k].got = Append(@, f)]
      PROVE  \A j \in Sessions : session'[j].state = session[j].state
  BY <1>1, <1>5 DEF SessionStates
<1>6. Ended(k) => \A j \in Sessions : session'[j].state =
                    IF j = k /\ session[k].state = "open" THEN "ended" ELSE session[j].state
  BY <1>1, <1>2 DEF Ended
<1>7. [NoSession EXCEPT !.state = "failed"].state = "failed"
  BY DEF NoSession
<1>8. session' = [session EXCEPT ![k] = [NoSession EXCEPT !.state = "failed"]] =>
        \A j \in Sessions : session'[j].state = (IF j = k THEN "failed" ELSE session[j].state)
  BY <1>1, <1>7
<1> QED BY <1>2, <1>3, <1>4, <1>5, <1>6, <1>8

\* Whoever ends does so for a reason, whichever way the task that reads the events goes.
LEMMA EndsForReasonKept ==
  ASSUME TypeOK, Placed, StopFits, EndsForReason, Next
  PROVE  EndsForReason'
<1>0. /\ consumer \in Consumers /\ sender.cur \in Sessions /\ stt \in Sessions /\ attempt \in Sessions
      /\ stop \in BOOLEAN /\ failed \in BOOLEAN /\ candidate \in {0} \cup Sessions
  BY DEF TypeOK, Senders
\* Neither the task that reads the events nor a session's state moves.
<1>0a. ASSUME consumer' = consumer, \A j \in Sessions : session'[j].state = session[j].state,
              stt' = stt, attempt' = attempt, stop => stop', failed => failed',
              opening' \in {opening, "refused"} \/ opening' = "gate" \/ opening' = "connecting"
       PROVE  EndsForReason'
  BY <1>0, <1>0a DEF EndsForReason, Reading
\* The task that reads the events ends, of a stop or a failure.
<1>0b. ASSUME ConsumerEnds, stop' \/ failed', stt' = stt, attempt' = attempt, opening' \in {opening, "none"},
              stop' = stop,
              \A j \in Sessions : /\ session'[j].state = "none" => session[j].state = "none"
       PROVE  EndsForReason'
  <2>1. consumer'.pc = "done"
    BY <1>0, <1>0b DEF ConsumerEnds, ConsumerTo, Consumers
  <2> QED BY <1>0, <1>0b, <2>1 DEF EndsForReason, Reading
<1>1. CASE Claim \/ Accept \/ Sink
  BY <1>1, <1>0a DEF Claim, Accept, Sink, replacementVars, endVars
<1>2. CASE GateRefuses \/ Enter \/ SendFails \/ Answered \/ Recheck
  BY <1>2, <1>0a DEF GateRefuses, Enter, SendFails, Answered, Recheck, Raise, replacementVars
<1>3. CASE SendLands
  <2>1. \A j \in Sessions : session'[j].state = session[j].state
    BY <1>0, <1>3, StatesAfter DEF SendLands, Takes
  <2> QED BY <1>3, <2>1, <1>0a DEF SendLands, Raise, replacementVars
<1>4. CASE CancelSender
  <2>1. \A j \in Sessions : session'[j].state = session[j].state
    BY <1>0, <1>4, StatesAfter DEF CancelSender, Takes
  <2> QED BY <1>4, <2>1, <1>0a DEF CancelSender, endVars
<1>5. ASSUME NEW k \in Sessions, Mark(k)
      PROVE  EndsForReason'
  <2>1. \A j \in Sessions : session'[j].state = session[j].state
    BY <1>5, StatesAfter DEF Mark
  <2> QED BY <1>5, <2>1, <1>0a DEF Mark, replacementVars, endVars
<1>6. ASSUME NEW k \in Sessions, StreamFails(k)
      PROVE  EndsForReason'
  <2>1. \A j \in Sessions : session'[j].state = IF j = k THEN "failed" ELSE session[j].state
    <3>1. session' = [session EXCEPT ![k].state = "failed"]
      BY <1>6 DEF StreamFails
    <3> QED BY <1>6, <3>1, StatesAfter
  <2>2. UNCHANGED <<consumer, stt, attempt, opening, stop, failed>>
    BY <1>6 DEF StreamFails, replacementVars, endVars
  <2>3. "failed" # "none" /\ "failed" # "ended"
    OBVIOUS
  <2> QED BY <1>0, <2>1, <2>2, <2>3 DEF EndsForReason, Reading
<1>7. CASE AskBoundary \/ BoundaryAsked
  <2>1. /\ UNCHANGED <<consumer, session, stt, attempt, opening, stop>>
        /\ failed => failed'
    <3>1. CASE AskBoundary
      BY <3>1 DEF AskBoundary, replacementVars, endVars
    <3>2. CASE BoundaryAsked
      BY <3>2 DEF BoundaryAsked, replacementVars
    <3> QED BY <1>7, <3>1, <3>2
  <2> QED BY <2>1, <1>0a
<1>8. CASE HandleBoundary
  <2>1. \A j \in Sessions : session'[j].state = session[j].state
    BY <1>0, <1>8, StatesAfter DEF HandleBoundary
  <2> QED BY <1>8, <2>1, <1>0a DEF HandleBoundary, replacementVars, endVars
<1>9. CASE HandleTerminal
  <2>1. consumer'.pc = "join" /\ session[stt].state \in {"failed", "ended"}
    BY <1>0, <1>9 DEF HandleTerminal, ConsumerTo, Consumers
  <2> QED BY <1>9, <2>1 DEF HandleTerminal, EndsForReason, Reading, replacementVars, endVars
<1>10. CASE StageFails
  BY <1>10, <1>0b DEF StageFails
<1>11. CASE Decide
  <2>1. CASE ConsumerTo("delay") /\ UNCHANGED <<ready, sender, failed>>
    <3>1. consumer'.pc = "delay" /\ consumer.pc = "join"
      BY <1>0, <1>11, <2>1 DEF Decide, Reading, ConsumerTo, Consumers
    <3> QED BY <1>11, <2>1, <3>1 DEF Decide, EndsForReason, Reading
  <2>2. CASE ConsumerEnds /\ failed'
    BY <1>11, <2>2, <1>0b DEF Decide
  <2> QED BY <1>11, <2>1, <2>2 DEF Decide
<1>12. CASE StreamOver
  <2>1. stop
    BY <1>0, <1>12 DEF StreamOver, Reading, EndsForReason
  <2> QED BY <1>12, <2>1, <1>0b DEF StreamOver, endVars
<1>13. CASE Delay
  <2>1. CASE stop
    BY <1>13, <2>1, <1>0b DEF Delay, endVars
  <2>2. CASE ~stop
    <3>1. consumer'.pc = "prepare" /\ consumer.pc = "delay" /\ opening # "opened"
      BY <1>0, <1>13, <2>2 DEF Delay, Reading, ConsumerTo, Consumers, Placed, AttemptPlaced
    <3> QED BY <1>13, <2>2, <3>1 DEF Delay, EndsForReason, Reading, endVars
  <2> QED BY <2>1, <2>2
<1>14. CASE Prepare
  <2>1. CASE Working
    <3>1. consumer'.pc = "open" /\ opening' = "gate" /\ consumer.pc = "prepare"
      BY <1>0, <1>14, <2>1 DEF Prepare, Reading, ConsumerTo, Consumers
    <3> QED BY <1>14, <3>1 DEF Prepare, EndsForReason, Reading, endVars
  <2>2. CASE ~Working
    <3>1. stop
      BY <2>2 DEF Working, StopFits
    <3> QED BY <1>14, <2>2, <3>1, <1>0b DEF Prepare, endVars
  <2> QED BY <2>1, <2>2
<1>15. CASE Opened
  <2>1. CASE opening = "opened"
    <3>1. consumer'.pc = "install" /\ consumer.pc = "open"
      BY <1>0, <1>15, <2>1 DEF Opened, Reading, ConsumerTo, Consumers
    <3> QED BY <1>15, <2>1, <3>1 DEF Opened, EndsForReason, Reading
  <2>2. CASE opening = "refused"
    BY <1>15, <2>2, <1>0b DEF Opened
  <2>3. CASE opening = "cancelled"
    BY <1>15, <2>3, <1>0b DEF Opened, EndsForReason
  <2> QED BY <1>15, <2>1, <2>2, <2>3 DEF Opened
<1>16. CASE Install
  <2>1. CASE Working
    <3>1. /\ consumer'.pc = "replay" /\ consumer.pc = "install" /\ stt' = attempt /\ stt # attempt
          /\ \A j \in Sessions : session'[j].state = IF j = stt THEN "failed" ELSE session[j].state
      <4>1. consumer'.pc = "replay" /\ consumer.pc = "install" /\ stt' = attempt
        BY <1>0, <1>16, <2>1 DEF Install, Reading, Consumers
      <4>2. stt # attempt
        BY <1>0, <4>1 DEF Placed, AttemptPlaced, Sessions
      <4>3. \A j \in Sessions : session'[j].state = IF j = stt THEN "failed" ELSE session[j].state
        BY <1>0, <1>16, <2>1, StatesAfter DEF Install
      <4> QED BY <4>1, <4>2, <4>3
    <3>2. UNCHANGED <<attempt, opening, stop, failed>> /\ opening # "opened"
      BY <1>16, <3>1 DEF Install, endVars, Placed, AttemptPlaced, Reading
    <3> QED BY <1>0, <3>1, <3>2 DEF EndsForReason, Reading
  <2>2. CASE ~Working
    <3>1. consumer'.pc = "drop" /\ consumer.pc = "install"
      BY <1>0, <1>16, <2>2 DEF Install, Reading, Consumers
    <3> QED BY <1>16, <2>2, <3>1 DEF Install, EndsForReason, Reading, endVars
  <2> QED BY <2>1, <2>2
<1>17. CASE ReplayOne
  <2>1. consumer'.pc = "replay" /\ consumer.pc = "replay"
    BY <1>0, <1>17 DEF ReplayOne, Reading, Consumers
  <2>2. \A j \in Sessions : session'[j].state = session[j].state
    BY <1>0, <1>17, StatesAfter DEF ReplayOne
  <2> QED BY <1>0, <1>17, <2>1, <2>2 DEF ReplayOne, EndsForReason, Reading, replacementVars, endVars
<1>18. CASE ReplayFails \/ Replayed
  <2>1. consumer'.pc \in {"drop", "events", "done"} /\ consumer.pc = "replay"
    BY <1>0, <1>18 DEF ReplayFails, Replayed, Reading, ConsumerTo, Consumers
  <2>2. consumer'.pc # "done"
    BY <1>0, <1>18 DEF ReplayFails, Replayed, ConsumerTo, Consumers
  <2>3. UNCHANGED <<session, stt, attempt, opening, stop, failed>>
    BY <1>18 DEF ReplayFails, Replayed, endVars
  <2> QED BY <2>1, <2>2, <2>3 DEF EndsForReason, Reading
<1>19. CASE Drop
  <2>1. \A j \in Sessions : session'[j].state = "none" => session[j].state = "none"
    BY <1>0, <1>19, StatesAfter DEF Drop
  <2>2. stop \/ failed'
    <3>1. CASE consumer.erred
      BY <1>19, <3>1 DEF Drop
    <3>2. CASE ~consumer.erred
      BY <1>19, <3>2 DEF Drop, Placed, AttemptPlaced, Working, StopFits
    <3> QED BY <3>1, <3>2
  <2> QED BY <1>19, <2>1, <2>2, <1>0b DEF Drop
<1>20. CASE Connect \/ Connected
  <2>1. CASE Connect
    <3>1. \A j \in Sessions : session'[j].state = session[j].state
      BY <1>0, <2>1, StatesAfter DEF Connect
    <3> QED BY <2>1, <3>1, <1>0a DEF Connect, endVars
  <2>2. CASE Connected
    <3>1. \A j \in Sessions : session'[j].state = IF j = attempt THEN "open" ELSE session[j].state
      <4>1. session' = [session EXCEPT ![attempt].state = "open"]
        BY <2>2 DEF Connected
      <4> QED BY <1>0, <4>1, StatesAfter
    <3>2. consumer.pc = "open" /\ opening' = "opened" /\ UNCHANGED <<consumer, stt, attempt, stop, failed>>
      BY <2>2 DEF Connected, endVars, Placed, AttemptPlaced, Reading
    <3> QED BY <1>0, <3>1, <3>2 DEF EndsForReason, Reading
  <2> QED BY <1>20, <2>1, <2>2
<1>21. CASE OpenFails
  BY <1>21, <1>0a DEF OpenFails, endVars
<1>22. CASE Finish
  <2>1. stop' /\ UNCHANGED <<consumer, session, stt, attempt>> /\ opening' \in {opening, "cancelled"}
    BY <1>22 DEF Finish
  <2>2. failed => failed'
    BY <1>22 DEF Finish
  <2> QED BY <2>1, <2>2 DEF EndsForReason, Reading
<1>23. CASE CancelCandidate
  <2>1. stop /\ UNCHANGED <<consumer, stt, attempt, opening, stop, failed>>
    BY <1>23 DEF CancelCandidate, StopFits
  <2>2. \A j \in Sessions : session'[j].state \in {session[j].state, "ended"}
    BY <1>0, <1>23, StatesAfter DEF CancelCandidate
  <2> QED BY <1>0, <2>1, <2>2 DEF EndsForReason, Reading
<1>24. CASE FinishStream
  <2>1. stop /\ UNCHANGED <<consumer, stt, attempt, opening, stop, failed>>
    BY <1>24 DEF FinishStream, StopFits, replacementVars
  <2>2. \A j \in Sessions : \/ session'[j].state = session[j].state
                            \/ j = stt /\ session'[j].state \in {"ended", "failed"}
    <3>1. CASE Ended(stt)
      BY <1>0, <3>1, StatesAfter
    <3>2. CASE session' = [session EXCEPT ![stt].state = "failed"]
      BY <1>0, <3>2, StatesAfter
    <3> QED BY <1>24, <3>1, <3>2 DEF FinishStream
  <2>3. \A j \in Sessions : session'[j].state = "none" => session[j].state = "none"
    BY <2>2
  <2>4. session[stt].state \in {"failed", "ended"} => session'[stt].state \in {"failed", "ended"}
    BY <1>0, <2>2
  <2> QED BY <1>0, <2>1, <2>3, <2>4 DEF EndsForReason, Reading
<1>25. CASE Drain \/ Gather
  BY <1>25, <1>0a DEF Drain, Gather, replacementVars
<1>26. CASE FinishRaises
  <2>1. stop /\ UNCHANGED <<consumer, stt, attempt, opening, stop, failed>>
    BY <1>26, Raised DEF StopFits
  <2>2. \A j \in Sessions : \/ session'[j].state = session[j].state
                            \/ session[j].state = "open" /\ session'[j].state \in {"ended", "failed"}
    BY <1>26, Raised
  <2> QED BY <1>0, <2>1, <2>2 DEF EndsForReason, Reading
<1> QED
  BY <1>1, <1>2, <1>3, <1>4, <1>5, <1>6, <1>7, <1>8, <1>9, <1>10, <1>11, <1>12, <1>13, <1>14, <1>15, <1>16,
     <1>17, <1>18, <1>19, <1>20, <1>21, <1>22, <1>23, <1>24, <1>25, <1>26
  DEF Next, Sending, Consuming, Opening, Closing

\* Nobody who waits is left without somebody who will tell him.
THEOREM AttendedInvariant == Spec => []Attended
<1>1. Init => Attended
  <2> SUFFICES ASSUME Init PROVE Attended
    OBVIOUS
  <2>1. IInv
    BY SessionInit
  <2>2. 1 \in Sessions
    BY AttemptsAssumption DEF Sessions
  <2>3. \A k \in Sessions : session[k].state = IF k = 1 THEN "open" ELSE "none"
    BY DEF Init, NoSession
  <2>4. Expected /\ StopFits
    BY DEF Init, IdleSender, Expected, Pending, At, StopFits
  <2>5. EndsForReason
    BY <2>2, <2>3 DEF Init, EndsForReason, Reading
  <2> QED BY <2>1, <2>4, <2>5 DEF Attended
<1>2. Attended /\ [Next]_vars => Attended'
  <2> SUFFICES ASSUME Attended, [Next]_vars PROVE Attended'
    OBVIOUS
  <2>1. IInv'
    BY SessionStep DEF Attended
  <2>2. CASE Next
    BY <2>1, <2>2, ExpectedKept, EndsForReasonKept, StopFitsKept DEF Attended, IInv
  <2>3. CASE UNCHANGED vars
    BY <2>1, <2>3 DEF Attended, Expected, Pending, At, EndsForReason, Reading, StopFits,
       vars, replacementVars, endVars
  <2> QED BY <2>2, <2>3
<1> QED BY <1>1, <1>2, PTL DEF Spec

\* Whatever failed and whoever was cancelled, somebody has a step to take until
\* finish returns or raises and until waiting audio is answered.  That these steps are
\* taken is the fairness of FairSpec.
THEOREM SomebodyGoesOn == Spec => []NobodyIsForgotten
<1>1. Attended => NobodyIsForgotten
  <2> SUFFICES ASSUME Attended PROVE NobodyIsForgotten
    OBVIOUS
  <2>1. /\ session[stt].state \in {"open", "failed", "ended"}
        /\ consumer.pc \in {"events", "join", "delay", "prepare", "open", "install", "replay", "drop", "done"}
        /\ lock \in {"free", "sender", "consumer", "boundary"}
        /\ closing \in {"no", "candidate", "finish", "drain", "gather", "returned", "raised"}
    <3>1. session[stt] \in SessionStates /\ consumer \in Consumers
      BY DEF Attended, IInv, TypeOK
    <3> QED BY <3>1 DEF Attended, IInv, TypeOK, SessionStates, Consumers, EndsForReason
  <2>2. /\ lock = "sender" => LockReturns
        /\ lock = "boundary" => LockReturns
        /\ lock = "consumer" => EventsGoOn
    BY DEF Attended, IInv, Placed, LockHeld, LockReturns, EventsGoOn
  <2>3. consumer.pc \notin {"events", "done"} => EventsGoOn \/ LockReturns
    BY <2>1, <2>2 DEF EventsGoOn
  <2>4. ASSUME stop, closing \notin {"returned", "raised"}
        PROVE  StopGoesOn \/ LockReturns \/ EventsGoOn
    <3>1. closing \in {"candidate", "finish", "drain", "gather"}
      BY <2>1, <2>4 DEF Attended, StopFits
    <3>2. CASE closing \in {"candidate", "finish"}
      BY <3>2 DEF StopGoesOn
    <3>3. CASE closing = "drain"
      BY <2>1, <2>2, <3>3 DEF StopGoesOn
    <3>4. CASE closing = "gather"
      <4>1. CASE consumer.pc = "events"
        <5>1. session[stt].state # "open"
          BY <3>4 DEF Attended, IInv, Placed, EndPlaced
        <5> QED BY <2>1, <4>1, <5>1 DEF EventsGoOn, Reading
      <4>2. CASE consumer.pc = "done"
        BY <3>4, <4>2 DEF StopGoesOn, Reading
      <4> QED BY <2>3, <4>1, <4>2
    <3> QED BY <3>1, <3>2, <3>3, <3>4
  <2>5. ASSUME Pending
        PROVE  /\ ready = "pending" /\ ~stop
               /\ session[sender.cur].state = "open" \/ failed \/ LockReturns \/ EventsGoOn
    <3>1. ready = "pending" /\ ~stop
      BY <2>5 DEF Attended, Expected
    <3>2. CASE consumer.pc = "events"
      <4>1. sender.cur = stt
        BY <2>5, <3>2 DEF Attended, Expected
      <4> QED BY <2>1, <3>1, <3>2, <4>1 DEF EventsGoOn, Reading
    <3>3. CASE consumer.pc = "done"
      BY <3>1, <3>3 DEF Attended, EndsForReason, Reading
    <3> QED BY <2>3, <3>1, <3>2, <3>3
  <2> QED BY <2>4, <2>5 DEF NobodyIsForgotten
<1> QED BY <1>1, AttendedInvariant, PTL
=============================================================================
