--------------------------- MODULE DirectionSession ---------------------------
(***************************************************************************)
(* One direction's speech recognition in the translation worker: how       *)
(* DirectionSession (application/session.py) feeds audio to a provider's   *)
(* streaming session, replaces one that failed, replays what was not       *)
(* committed, and ends.                                                    *)
(*                                                                         *)
(* Four asyncio tasks share the object: the track's task in send_audio,    *)
(* the one that reads the session's events and opens replacements, the     *)
(* periodic boundaries, and finish.  A step runs from one await to the     *)
(* next; the lifecycle lock is held over awaits.                           *)
(*                                                                         *)
(* Audio is counted in frames of 250 ms, and a boundary commits whole      *)
(* frames: the clipping of a frame at the watermark is left out.  What a   *)
(* provider recognises and what is translated and spoken of it is left out *)
(* too, but that the stage queue behind it may fail.                       *)
(***************************************************************************)
EXTENDS Naturals, Sequences

CONSTANTS
  MaxAttempts,  \* FrozenRetryPolicy.maximum_attempts
  Window,       \* frames kept for a replay
  MaxFrames,    \* bound on the frames of the track
  MaxFaults     \* bound on failures and on tracks published again

ASSUME AttemptsAssumption == MaxAttempts \in Nat \ {0}
ASSUME WindowAssumption == Window \in Nat \ {0}
ASSUME BoundsAssumption == MaxFrames \in Nat /\ MaxFaults \in Nat

VARIABLES
  cursor,     \* frames the track has claimed (SourceTrackTimeline)
  sent,       \* _last_input
  committed,  \* _committed_input
  stt,        \* _stt, by the attempt that opened it
  attempt,    \* _stt_attempt
  session,    \* the provider's sessions, one per attempt
  ready,      \* _replacement_ready: the future senders wait for
  candidate,  \* _replacement_candidate, 0 for none
  opening,    \* _replacement_open_task
  lock,       \* who holds _lifecycle_lock
  sender,     \* the track's task
  consumer,   \* _events_task
  life,       \* _state
  stop,       \* _stop_requested
  failed,     \* the failure the job waits for, of the session or of the track
  closing,    \* how far finish has come
  cut,        \* history: frames whose sender was cancelled before its answer
  faults

audioVars == <<cursor, sent, committed, cut>>
replacementVars == <<stt, attempt, ready, candidate, opening>>
endVars == <<life, stop, failed, closing>>
vars == <<audioVars, replacementVars, session, lock, sender, consumer, endVars, faults>>

Sessions == 1..MaxAttempts
Frames == 0..MaxFrames

\* base: the frame before the one announced to the provider as its first; got:
\* the frames it took; mark: a boundary not handled yet, 0 for none.
SessionStates == [state : {"none", "open", "failed", "ended"}, base : Frames,
                  got : Seq(1..MaxFrames), mark : Frames]
NoSession == [state |-> "none", base |-> 0, got |-> <<>>, mark |-> 0]

IdleSender == [pc |-> "idle", cur |-> 1, answer |-> "pending"]
Senders == [pc : {"idle", "enter", "gate", "sending", "waiting", "recheck", "sink", "over"},
            cur : Sessions, answer : {"pending", "none", "new"}]
Consumers ==
  [pc : {"events", "join", "delay", "prepare", "open", "install", "replay", "drop", "done"},
   next : 1..MaxFrames + 1, erred : BOOLEAN]

TypeOK ==
  /\ cursor \in Frames /\ sent \in Frames /\ committed \in Frames
  /\ cut \in SUBSET (1..MaxFrames)
  /\ stt \in Sessions /\ attempt \in Sessions
  /\ session \in [Sessions -> SessionStates]
  /\ ready \in {"pending", "done"}
  /\ candidate \in {0} \cup Sessions
  /\ opening \in {"none", "gate", "connecting", "opened", "refused", "cancelled"}
  /\ lock \in {"free", "sender", "consumer", "boundary"}
  /\ sender \in Senders /\ consumer \in Consumers
  /\ life \in {"open", "draining", "terminal"}
  /\ stop \in BOOLEAN /\ failed \in BOOLEAN
  /\ closing \in {"no", "candidate", "finish", "drain", "gather", "returned", "raised"}
  /\ faults \in 0..MaxFaults

Fault == faults < MaxFaults /\ faults' = faults + 1

\* The first frame of _recent_audio that is not committed, or the next one.
ReplayFrom == IF committed + Window >= sent THEN committed + 1 ELSE (sent + 1) - Window

Working == life = "open" /\ ~stop

-----------------------------------------------------------------------------
(* The track's task: send_audio *)

At(pc) == sender.pc = pc
SenderTo(pc) == sender' = [sender EXCEPT !.pc = pc]

\* send_audio raises: the track's task is over, and the job hears of it.
Raise == SenderTo("over") /\ failed' = TRUE

\* A frame arrives and is claimed.
Claim ==
  /\ At("idle") /\ cursor < MaxFrames
  /\ cursor' = cursor + 1
  /\ SenderTo("enter")
  /\ UNCHANGED <<sent, committed, cut, replacementVars, session, lock, consumer, endVars, faults>>

\* Both locks are acquired; a frame out of order is refused.
Enter ==
  /\ At("enter") /\ lock = "free"
  /\ \/ /\ Working /\ cursor = sent + 1
        /\ lock' = "sender" /\ SenderTo("gate") /\ UNCHANGED failed
     \/ /\ ~(Working /\ cursor = sent + 1)
        /\ Raise /\ UNCHANGED lock
  /\ UNCHANGED <<audioVars, replacementVars, session, consumer, life, stop, closing, faults>>

\* The quota's gate lets the frame pass: it is recent audio, then on its way.
Accept ==
  /\ At("gate")
  /\ sent' = sent + 1
  /\ sender' = [sender EXCEPT !.pc = "sending", !.cur = stt]
  /\ UNCHANGED <<cursor, committed, cut, replacementVars, session, lock, consumer, endVars, faults>>

GateRefuses ==
  /\ At("gate") /\ Fault
  /\ Raise /\ lock' = "free"
  /\ UNCHANGED <<audioVars, replacementVars, session, consumer, life, stop, closing>>

Takes(k) == session' = [session EXCEPT ![k].got = Append(@, sent)]

SendLands ==
  /\ At("sending") /\ session[sender.cur].state = "open"
  /\ Takes(sender.cur)
  /\ lock' = "free"
  /\ IF stop THEN Raise ELSE SenderTo("sink") /\ UNCHANGED failed
  /\ UNCHANGED <<audioVars, replacementVars, consumer, life, stop, closing, faults>>

\* The session is over, or its journal or transport refuses the frame: the
\* sender waits for a replacement, outside the lifecycle lock.
SendFails ==
  /\ At("sending")
  /\ IF session[sender.cur].state = "open" THEN Fault ELSE UNCHANGED faults
  /\ lock' = "free"
  /\ IF stop
     THEN Raise /\ UNCHANGED ready
     ELSE /\ sender' = [sender EXCEPT !.pc = "waiting", !.answer = "pending"]
          /\ ready' = "pending" /\ UNCHANGED failed
  /\ UNCHANGED <<audioVars, stt, attempt, candidate, opening, session, consumer, life, stop, closing>>

\* _resolve_replacement_waiter
Resolve(answer) ==
  /\ ready' = "done"
  /\ sender' = IF ready = "pending" /\ At("waiting") THEN [sender EXCEPT !.answer = answer] ELSE sender

Answered ==
  /\ At("waiting") /\ sender.answer # "pending"
  /\ IF sender.answer = "none" THEN Raise ELSE SenderTo("recheck") /\ UNCHANGED failed
  /\ UNCHANGED <<audioVars, replacementVars, session, lock, consumer, life, stop, closing, faults>>

\* Mutant: the frame is sent once more, although the replay had it.
SendAgain ==
  /\ At("recheck") /\ lock = "free"
  /\ IF life # "open" \/ stt = sender.cur
     THEN Raise /\ UNCHANGED lock
     ELSE /\ sender' = [sender EXCEPT !.pc = "sending", !.cur = stt] /\ lock' = "sender"
          /\ UNCHANGED failed
  /\ UNCHANGED <<audioVars, replacementVars, session, consumer, life, stop, closing, faults>>

\* The replay has sent the frame, if there is another session now.
Recheck ==
  /\ At("recheck") /\ lock = "free"
  /\ IF life # "open" \/ stt = sender.cur THEN Raise ELSE SenderTo("sink") /\ UNCHANGED failed
  /\ UNCHANGED <<audioVars, replacementVars, session, lock, consumer, life, stop, closing, faults>>

\* The checkpoint is written.
Sink ==
  /\ At("sink") /\ SenderTo("idle")
  /\ UNCHANGED <<audioVars, replacementVars, session, lock, consumer, endVars, faults>>

\* on_track_subscribed or the drain cancels the task, at whatever await it is:
\* a frame on its way may be taken or not, and a future waited for is cancelled.
CancelSender ==
  /\ Fault
  /\ sender' = IdleSender
  /\ lock' = IF lock = "sender" THEN "free" ELSE lock
  /\ ready' = IF At("waiting") /\ sender.answer = "pending" THEN "done" ELSE ready
  /\ cut' = IF At("sending") \/ At("waiting") THEN cut \cup {sent} ELSE cut
  /\ \/ UNCHANGED session
     \/ At("sending") /\ session[sender.cur].state = "open" /\ Takes(sender.cur)
  /\ UNCHANGED <<cursor, sent, committed, stt, attempt, candidate, opening, consumer, endVars>>

-----------------------------------------------------------------------------
(* The provider's session *)

\* An utterance ends, or a boundary asked for is reached.
Mark(k) ==
  /\ session[k].state = "open" /\ session[k].got # <<>>
  /\ \E n \in Frames :
       /\ n > committed /\ n > session[k].mark /\ n <= session[k].got[Len(session[k].got)]
       /\ session' = [session EXCEPT ![k].mark = n]
  /\ UNCHANGED <<audioVars, replacementVars, lock, sender, consumer, endVars, faults>>

StreamFails(k) ==
  /\ session[k].state = "open" /\ Fault
  /\ session' = [session EXCEPT ![k].state = "failed"]
  /\ UNCHANGED <<audioVars, replacementVars, lock, sender, consumer, endVars>>

\* boundary: the request is made under the lifecycle lock, and needs a live session.
AskBoundary ==
  /\ lock = "free" /\ Working /\ sent > 0
  /\ lock' = "boundary"
  /\ UNCHANGED <<audioVars, replacementVars, session, sender, consumer, endVars, faults>>

BoundaryAsked ==
  /\ lock = "boundary"
  /\ lock' = "free"
  /\ failed' = (failed \/ session[stt].state # "open")
  /\ UNCHANGED <<audioVars, replacementVars, session, sender, consumer, life, stop, closing, faults>>

-----------------------------------------------------------------------------
(* The task that reads the session's events: _consume_stt *)

Reading(pc) == consumer.pc = pc
ConsumerTo(pc) == consumer' = [consumer EXCEPT !.pc = pc]

\* The task ends; its finally answers whoever waits.
ConsumerEnds == ConsumerTo("done") /\ Resolve("none")

HandleBoundary ==
  /\ Reading("events") /\ session[stt].mark > 0
  /\ committed' = IF session[stt].mark > committed THEN session[stt].mark ELSE committed
  /\ session' = [session EXCEPT ![stt].mark = 0]
  /\ UNCHANGED <<cursor, sent, cut, replacementVars, lock, sender, consumer, endVars, faults>>

\* Translation or synthesis has failed: an event's submit or the join raises.
StageFails ==
  /\ Reading("events") \/ Reading("join")
  /\ Fault
  /\ ConsumerEnds /\ failed' = TRUE
  /\ UNCHANGED <<audioVars, stt, attempt, candidate, opening, session, lock, life, stop, closing>>

HandleTerminal ==
  /\ Reading("events") /\ session[stt].state \in {"failed", "ended"} /\ session[stt].mark = 0
  /\ ConsumerTo("join")
  /\ UNCHANGED <<audioVars, replacementVars, session, lock, sender, endVars, faults>>

\* Mutant: the policy does not count the attempts.
DecideAlways ==
  /\ Reading("join") /\ session[stt].state = "failed"
  /\ ConsumerTo("delay")
  /\ UNCHANGED <<audioVars, replacementVars, session, lock, sender, endVars, faults>>

\* FrozenRetryPolicy.decide: retried unless the attempts or the advice forbid it.
Decide ==
  /\ Reading("join") /\ session[stt].state = "failed"
  /\ \/ /\ attempt < MaxAttempts
        /\ ConsumerTo("delay") /\ UNCHANGED <<ready, sender, failed>>
     \/ ConsumerEnds /\ failed' = TRUE
  /\ UNCHANGED <<audioVars, stt, attempt, candidate, opening, session, lock, life, stop, closing, faults>>

StreamOver ==
  /\ Reading("join") /\ session[stt].state = "ended"
  /\ ConsumerEnds
  /\ UNCHANGED <<audioVars, stt, attempt, candidate, opening, session, lock, endVars, faults>>

\* _wait_for_retry
Delay ==
  /\ Reading("delay")
  /\ IF stop
     THEN ConsumerEnds /\ UNCHANGED attempt
     ELSE attempt' = attempt + 1 /\ ConsumerTo("prepare") /\ UNCHANGED <<ready, sender>>
  /\ UNCHANGED <<audioVars, stt, candidate, opening, session, lock, endVars, faults>>

\* Under the lock a new future is made if the last one is over; the task that
\* opens the replacement is created.
Prepare ==
  /\ Reading("prepare") /\ lock = "free"
  /\ IF Working
     THEN /\ ready' = "pending" /\ opening' = "gate" /\ ConsumerTo("open") /\ UNCHANGED sender
     ELSE ConsumerEnds /\ UNCHANGED opening
  /\ UNCHANGED <<audioVars, stt, attempt, candidate, session, lock, endVars, faults>>

\* _open_replacement_stt after its gate: what is recent now is announced.
Connect ==
  /\ opening = "gate"
  /\ opening' = "connecting"
  /\ session' = [session EXCEPT ![attempt].base = ReplayFrom - 1]
  /\ UNCHANGED <<audioVars, stt, attempt, ready, candidate, lock, sender, consumer, endVars, faults>>

Connected ==
  /\ opening = "connecting"
  /\ opening' = "opened"
  /\ session' = [session EXCEPT ![attempt].state = "open"]
  /\ UNCHANGED <<audioVars, stt, attempt, ready, candidate, lock, sender, consumer, endVars, faults>>

OpenFails ==
  /\ opening \in {"gate", "connecting"} /\ Fault
  /\ opening' = "refused"
  /\ UNCHANGED <<audioVars, stt, attempt, ready, candidate, session, lock, sender, consumer, endVars>>

\* The consumer resumes with the task's outcome.
Opened ==
  /\ Reading("open") /\ opening \in {"opened", "refused", "cancelled"}
  /\ opening' = "none"
  /\ IF opening = "opened"
     THEN candidate' = attempt /\ ConsumerTo("install") /\ UNCHANGED <<ready, sender>>
     ELSE ConsumerEnds /\ UNCHANGED candidate
  /\ failed' = (failed \/ opening = "refused")
  /\ UNCHANGED <<audioVars, stt, attempt, session, lock, life, stop, closing, faults>>

\* _install_and_replay_stt: the replacement is current from here on, and what
\* its predecessor took is forgotten.
Install ==
  /\ Reading("install") /\ lock = "free"
  /\ IF Working
     THEN /\ stt' = attempt /\ lock' = "consumer"
          /\ consumer' = [consumer EXCEPT !.pc = "replay", !.next = ReplayFrom]
          /\ session' = [session EXCEPT ![stt] = [NoSession EXCEPT !.state = "failed"]]
          /\ UNCHANGED candidate
     ELSE /\ consumer' = [consumer EXCEPT !.pc = "drop", !.erred = FALSE]
          /\ candidate' = 0 /\ UNCHANGED <<session, stt, lock>>
  /\ UNCHANGED <<audioVars, attempt, ready, opening, sender, endVars, faults>>

ReplayOne ==
  /\ Reading("replay") /\ consumer.next <= sent /\ session[stt].state = "open"
  /\ session' = [session EXCEPT ![stt].got = Append(@, consumer.next)]
  /\ consumer' = [consumer EXCEPT !.next = @ + 1]
  /\ UNCHANGED <<audioVars, replacementVars, lock, sender, endVars, faults>>

ReplayFails ==
  /\ Reading("replay") /\ consumer.next <= sent
  /\ IF session[stt].state = "open" THEN Fault ELSE UNCHANGED faults
  /\ consumer' = [consumer EXCEPT !.pc = "drop", !.erred = TRUE]
  /\ candidate' = 0 /\ lock' = "free"
  /\ UNCHANGED <<audioVars, stt, attempt, ready, opening, session, sender, endVars>>

Replayed ==
  /\ Reading("replay") /\ consumer.next > sent
  /\ candidate' = 0 /\ lock' = "free"
  /\ IF stop
     THEN consumer' = [consumer EXCEPT !.pc = "drop", !.erred = FALSE] /\ UNCHANGED <<ready, sender>>
     ELSE ConsumerTo("events") /\ Resolve("new")
  /\ UNCHANGED <<audioVars, stt, attempt, opening, session, endVars, faults>>

Ended(k) == session' = IF session[k].state = "open" THEN [session EXCEPT ![k].state = "ended"] ELSE session

\* A replacement that was not installed is cancelled; a cancel or a report that
\* raises has ended the session before.
Drop ==
  /\ Reading("drop")
  /\ Ended(attempt)
  /\ ConsumerEnds
  /\ \/ failed' = (failed \/ (consumer.erred /\ ~stop)) /\ UNCHANGED faults
     \/ failed' = TRUE /\ Fault
  /\ UNCHANGED <<audioVars, stt, attempt, candidate, opening, lock, life, stop, closing>>

-----------------------------------------------------------------------------
(* finish *)

\* Mutant: nobody who waits for a replacement is told.
FinishUntold ==
  /\ closing = "no"
  /\ stop' = TRUE /\ closing' = "candidate"
  /\ opening' = IF opening \in {"gate", "connecting"} THEN "cancelled" ELSE opening
  /\ candidate' = IF opening = "opened" THEN attempt ELSE candidate
  /\ failed' = (failed \/ opening = "refused")
  /\ UNCHANGED <<audioVars, stt, attempt, session, ready, lock, sender, consumer, life, faults>>

\* The stop is set, whoever waits for a replacement is told, and the task that
\* opens one is cancelled; one that is open already becomes the candidate.
Finish ==
  /\ closing = "no"
  /\ stop' = TRUE /\ closing' = "candidate"
  /\ Resolve("none")
  /\ opening' = IF opening \in {"gate", "connecting"} THEN "cancelled" ELSE opening
  /\ candidate' = IF opening = "opened" THEN attempt ELSE candidate
  /\ failed' = (failed \/ opening = "refused")
  /\ UNCHANGED <<audioVars, stt, attempt, session, lock, consumer, life, faults>>

CancelCandidate ==
  /\ closing = "candidate"
  /\ closing' = "finish" /\ candidate' = 0
  /\ IF candidate # 0 THEN Ended(candidate) ELSE UNCHANGED session
  /\ UNCHANGED <<audioVars, stt, attempt, ready, opening, lock, sender, consumer, life, stop, failed, faults>>

\* The current session is asked to finish, and ends one way or the other.
FinishStream ==
  /\ closing = "finish"
  /\ closing' = "drain"
  /\ \/ Ended(stt) /\ UNCHANGED faults
     \/ /\ session[stt].state = "open" /\ Fault
        /\ session' = [session EXCEPT ![stt].state = "failed"]
  /\ UNCHANGED <<audioVars, replacementVars, lock, sender, consumer, life, stop, failed>>

Drain ==
  /\ closing = "drain" /\ lock = "free"
  /\ closing' = "gather" /\ life' = "draining"
  /\ UNCHANGED <<audioVars, replacementVars, session, lock, sender, consumer, stop, failed, faults>>

\* Mutant: finish does not wait for the task that reads the events.
GatherNothing ==
  /\ closing = "gather"
  /\ closing' = "returned" /\ life' = "terminal"
  /\ UNCHANGED <<audioVars, replacementVars, session, lock, sender, consumer, stop, failed, faults>>

\* The task that reads the events has ended, and the stages behind it.
Gather ==
  /\ closing = "gather" /\ Reading("done")
  /\ closing' = "returned" /\ life' = "terminal"
  /\ UNCHANGED <<audioVars, replacementVars, session, lock, sender, consumer, stop, failed, faults>>

\* finish raises out of the candidate's cancel, out of the session's finish,
\* which may have left it open, or out of a report or the synthesis behind the
\* gather.  _state stays as it is, and since the job drains once, nobody calls
\* finish again.
FinishRaises ==
  /\ Fault
  /\ closing' = "raised"
  /\ \/ /\ closing = "candidate" /\ candidate # 0
        /\ candidate' = 0 /\ Ended(candidate)
     \/ /\ closing = "finish" /\ UNCHANGED candidate
        /\ \/ UNCHANGED session
           \/ /\ session[stt].state = "open"
              /\ \E how \in {"failed", "ended"} : session' = [session EXCEPT ![stt].state = how]
     \/ closing = "gather" /\ Reading("done") /\ UNCHANGED <<candidate, session>>
  /\ UNCHANGED <<audioVars, stt, attempt, ready, opening, lock, sender, consumer, life, stop, failed>>

-----------------------------------------------------------------------------
\* start has opened the first session.
Init ==
  /\ cursor = 0 /\ sent = 0 /\ committed = 0 /\ cut = {}
  /\ stt = 1 /\ attempt = 1 /\ ready = "done" /\ candidate = 0 /\ opening = "none"
  /\ session = [k \in Sessions |-> [NoSession EXCEPT !.state = IF k = 1 THEN "open" ELSE "none"]]
  /\ lock = "free" /\ sender = IdleSender
  /\ consumer = [pc |-> "events", next |-> 1, erred |-> FALSE]
  /\ life = "open" /\ stop = FALSE /\ failed = FALSE /\ closing = "no"
  /\ faults = 0

Sending == Enter \/ Accept \/ SendLands \/ SendFails \/ Answered \/ Recheck \/ Sink
Consuming ==
  \/ HandleBoundary \/ HandleTerminal \/ Decide \/ StreamOver \/ Delay \/ Prepare
  \/ Opened \/ Install \/ ReplayOne \/ ReplayFails \/ Replayed \/ Drop
Opening == Connect \/ Connected
Closing == CancelCandidate \/ FinishStream \/ Drain \/ Gather

Next ==
  \/ Claim \/ Sending \/ GateRefuses \/ CancelSender
  \/ \E k \in Sessions : Mark(k) \/ StreamFails(k)
  \/ AskBoundary \/ BoundaryAsked
  \/ Consuming \/ StageFails \/ Opening \/ OpenFails
  \/ Finish \/ Closing \/ FinishRaises

Spec == Init /\ [][Next]_vars

\* Every call returns or raises, and a job that hears of a failure drains its
\* sessions.
FairSpec ==
  /\ Spec
  /\ WF_vars(Sending) /\ WF_vars(BoundaryAsked)
  /\ WF_vars(Consuming) /\ WF_vars(Opening)
  /\ WF_vars(failed /\ Finish) /\ WF_vars(Closing)

-----------------------------------------------------------------------------
(* Properties *)

Got(k) == {session[k].got[i] : i \in 1..Len(session[k].got)}
OnItsWay(c) ==
  \/ c = sent /\ sender.pc \in {"sending", "waiting", "recheck"}
  \/ consumer.pc = "replay" /\ c >= consumer.next

\* While the direction works, and no failed replay is about to end it, the
\* current session has taken, once and in order, every frame that is neither
\* committed nor older than the window, whatever was sent while its predecessor
\* failed and while it was opened; only a frame whose sender was cancelled may
\* be missing.  And it starts with the frame announced to it, but for those the
\* window lost while it was being opened.
StreamIsSeamless ==
  LET s == session[stt] IN
  Working /\ ~failed /\ s.state = "open" /\ ~Reading("drop") =>
    /\ \A c \in ReplayFrom..sent : c \in Got(stt) \cup cut \/ OnItsWay(c)
    /\ \A i \in 1..Len(s.got) - 1 :
         /\ s.got[i] < s.got[i + 1]
         /\ \A c \in s.got[i] + 1 .. s.got[i + 1] - 1 : c \in cut
    /\ s.got # <<>> =>
         /\ s.base < s.got[1]
         /\ \A c \in s.base + 1 .. s.got[1] - 1 : c \in cut \/ c + Window <= sent

\* When finish has reached TERMINAL, no session of a provider is open, and nobody opens
\* another: not one being opened, replayed or dropped when the stop came.
NoStreamLeft ==
  life = "terminal" =>
    /\ \A k \in Sessions : session[k].state # "open"
    /\ opening = "none" /\ candidate = 0

\* finish never waits for ever, whatever it meets: it reaches TERMINAL, or a call
\* of its own raises out of it, which leaves the session OPEN or DRAINING for
\* good.  And a sender that waits for a replacement is answered, unless the
\* session that refused its frame goes on working.
FinishEnds == stop ~> closing \in {"returned", "raised"}
SenderIsAnswered == sender.pc = "waiting" ~> sender.pc # "waiting" \/ session[sender.cur].state = "open"
SessionSettles == FinishEnds /\ SenderIsAnswered
=============================================================================
