------------------------------ MODULE SipCall -------------------------------
(***************************************************************************)
(* One call between two s22-sip user agents (tools/hardware/voip): the one *)
(* that runs `call' and the one that runs `listen'.                        *)
(*                                                                         *)
(* UDP: net is the set of datagrams ever sent.  A datagram may be received *)
(* at any time, again and again, or never, so a retransmission adds        *)
(* nothing to net.  A transaction that waits for an answer may also time   *)
(* out at any time.  Answers to BYE and CANCEL only end a transaction that *)
(* a timeout ends as well; they are left out, and so are the branches for  *)
(* peers that are not s22-sip: digest challenges, re-INVITE, INVITE        *)
(* without SDP.  Each end has a receiving thread and others that work on   *)
(* the same Call object; only _end takes the lock, and only to set the     *)
(* state: what it does to the media, it does after it.                     *)
(***************************************************************************)
EXTENDS Naturals, FiniteSets

CONSTANT KeepListening   \* --keep-listening: the callee stays up after a call

ASSUME SipAssumption == KeepListening \in BOOLEAN

\* The threads that may be in _end, and where: to look at call.rtp, to stop it, to close
\* its socket, to set call.ended.
Threads == {"rx", "ans", "main"}
Endings == {"no", "look", "stop", "close", "set"}
Nobody == [t \in Threads |-> "no"]

Datagrams == {"INVITE", "ACK", "ACK-refusal", "CANCEL", "BYE-caller",
              "180", "200", "refusal", "BYE-callee"}

VARIABLES
    net,
    ca,       \* where the caller's main thread is in call, _supervise, hangup
    cState,   \* the caller's call.state
    cEnded,   \* ... call.ended
    cAck,     \* ... call.last_ack is set
    cRtp,     \* ... call.rtp: none, idle (made or stopped) or running
    cSock,    \* ... call.rtp_sock
    cEnding,  \* where its threads are in _end
    admits,   \* the callee is free and allows the caller
    sState,   \* the callee's call.state
    sEnded, sAcked, sRtp, sSock, sEnding,
    ans,      \* the callee's _answer thread
    main,     \* the callee's main thread
    cancelled \* its receiving thread is between the 487 and _end

cMedia == <<cEnded, cRtp, cSock>>               \* what _end changes outside the lock
callerVars == <<ca, cState, cAck, cMedia, cEnding>>
sMedia == <<sEnded, sRtp, sSock>>
callVars == <<sState, sMedia, sEnding>>
calleeVars == <<callVars, sAcked, ans, main, cancelled>>
vars == <<net, callerVars, admits, calleeVars>>

Send(m) == net' = net \cup {m}

-----------------------------------------------------------------------------
(* The caller. *)

\* _end in thread t: the state, under the lock; a second call changes nothing ...
EndCaller(t) ==
    IF cState = "ended" THEN UNCHANGED <<cState, cEnding>>
    ELSE cState' = "ended" /\ cEnding' = [cEnding EXCEPT ![t] = "look"]

\* ... then the media, which _start_media may be about to start.
CallerStops(t) ==
    /\ ca # "done"
    /\ \/ /\ cEnding[t] = "look" /\ UNCHANGED cMedia
          /\ cEnding' = [cEnding EXCEPT ![t] = IF cRtp = "none" THEN "close" ELSE "stop"]
       \/ /\ cEnding[t] = "stop" /\ cEnding' = [cEnding EXCEPT ![t] = "close"]
          /\ cRtp' = "idle" /\ UNCHANGED <<cEnded, cSock>>
       \/ /\ cEnding[t] = "close" /\ cEnding' = [cEnding EXCEPT ![t] = "set"]
          /\ cSock' = "closed" /\ UNCHANGED <<cEnded, cRtp>>
       \/ /\ cEnding[t] = "set" /\ cEnding' = [cEnding EXCEPT ![t] = "no"]
          /\ cEnded' = TRUE /\ UNCHANGED <<cRtp, cSock>>
    /\ UNCHANGED <<net, ca, cState, cAck, admits, calleeVars>>

\* call: INVITE out, transact waits for its answer.
Invite ==
    /\ ca = "idle" /\ ca' = "invite" /\ cState' = "calling" /\ cSock' = "open" /\ Send("INVITE")
    /\ UNCHANGED <<cEnded, cRtp, cAck, cEnding, admits, calleeVars>>

\* prov: the state is set whatever it was.
Provisional ==
    /\ ca = "invite" /\ "180" \in net /\ cState' = "ringing"
    /\ UNCHANGED <<net, ca, cMedia, cAck, cEnding, admits, calleeVars>>

Refused ==
    /\ ca = "invite" /\ "refusal" \in net /\ ca' = "leave"
    /\ Send("ACK-refusal") /\ EndCaller("main")
    /\ UNCHANGED <<cMedia, cAck, admits, calleeVars>>

\* No final answer in time: cancel only what rings.
MutNoAnswer ==
    /\ ca = "invite" /\ ca' = "leave"
    /\ UNCHANGED <<net, cState, cEnding, cMedia, cAck, admits, calleeVars>>
NoAnswer ==
    /\ ca = "invite"
    /\ \/ cState = "ringing" /\ ca' = "cancel" /\ Send("CANCEL") /\ UNCHANGED <<cState, cEnding>>
       \/ cState # "ringing" /\ ca' = "leave" /\ EndCaller("main") /\ UNCHANGED net
    /\ UNCHANGED <<cMedia, cAck, admits, calleeVars>>

\* cancel: whatever answers on the INVITE's branch, or nothing, ends it.
CancelEnds ==
    /\ ca = "cancel" /\ ca' = "leave" /\ EndCaller("main")
    /\ UNCHANGED <<net, cMedia, cAck, admits, calleeVars>>

\* A 2xx: ACK first ...
MutAnswered == "180" \in net
Answered == "200" \in net

SendAck ==
    /\ ca = "invite" /\ Answered /\ ca' = "acked" /\ cAck' = TRUE /\ Send("ACK")
    /\ UNCHANGED <<cState, cMedia, cEnding, admits, calleeVars>>

\* ... then the state, whatever it is now.
Confirm(usable) ==
    /\ ca = "acked" /\ cState' = "confirmed" /\ ca' = IF usable THEN "media" ELSE "fail"
    /\ UNCHANGED <<net, cMedia, cAck, cEnding, admits, calleeVars>>

\* _start_media: the session, its threads, and the port, which a closed socket cannot
\* give: that raises, and run closes the agent.
CallerMedia ==
    /\ \/ ca = "media" /\ ca' = "start" /\ cRtp' = "idle"
       \/ ca = "start" /\ ca' = "port" /\ cRtp' = "run"
       \/ ca = "port" /\ ca' = (IF cSock = "closed" THEN "fail" ELSE "talk") /\ UNCHANGED cRtp
    /\ UNCHANGED <<net, cState, cEnded, cSock, cAck, cEnding, admits, calleeVars>>

\* hangup and close: unless the call is over.
CallerLeaves ==
    /\ IF cState = "ended" THEN ca' = "done" /\ UNCHANGED net
       ELSE ca' = "bye" /\ Send("BYE-caller")
    /\ UNCHANGED <<cState, cMedia, cAck, cEnding, admits, calleeVars>>
CallerFails == ca = "fail" /\ CallerLeaves

\* _supervise.
CalleeAudible == main # "exit" /\ sRtp = "run" /\ sSock = "open"
Duration == ca = "talk" /\ CallerLeaves
CallerSilence == ca = "talk" /\ (cEnded \/ ~CalleeAudible) /\ CallerLeaves

\* hangup: the BYE is answered or not.
CallerBye ==
    /\ ca = "bye" /\ ca' = "leave" /\ EndCaller("main")
    /\ UNCHANGED <<net, cMedia, cAck, admits, calleeVars>>

\* The main thread is out of _end, and the process goes.
CallerExits ==
    /\ ca = "leave" /\ cEnding["main"] = "no" /\ ca' = "done"
    /\ UNCHANGED <<net, cState, cMedia, cAck, cEnding, admits, calleeVars>>

\* The receiving thread: BYE.
CallerGetsBye ==
    /\ ca \notin {"idle", "done"} /\ cEnding["rx"] = "no" /\ "BYE-callee" \in net
    /\ cState # "ended" /\ EndCaller("rx")
    /\ UNCHANGED <<net, ca, cMedia, cAck, admits, calleeVars>>

-----------------------------------------------------------------------------
(* The callee. *)

Up == main # "exit"

\* The receiving thread waits for its next datagram.
Receives == Up /\ ~cancelled /\ sEnding["rx"] = "no"

\* _end, as at the caller; the callee's call may have no socket yet.
EndCallee(t) ==
    IF sState = "ended" THEN UNCHANGED <<sState, sEnding>>
    ELSE sState' = "ended" /\ sEnding' = [sEnding EXCEPT ![t] = "look"]

MutLooked == IF sRtp # "none" THEN "stop" ELSE "set"
Looked == CASE sRtp # "none" -> "stop" [] sRtp = "none" /\ sSock # "none" -> "close" [] OTHER -> "set"
MutCloses == sSock' = IF sRtp = "none" THEN "closed" ELSE sSock
Closes == sSock' = "closed"
CalleeStops(t) ==
    /\ Up
    /\ \/ sEnding[t] = "look" /\ sEnding' = [sEnding EXCEPT ![t] = Looked] /\ UNCHANGED sMedia
       \/ /\ sEnding[t] = "stop" /\ sEnding' = [sEnding EXCEPT ![t] = "close"]
          /\ sRtp' = "idle" /\ UNCHANGED <<sEnded, sSock>>
       \/ /\ sEnding[t] = "close" /\ sEnding' = [sEnding EXCEPT ![t] = "set"]
          /\ Closes /\ UNCHANGED <<sEnded, sRtp>>
       \/ /\ sEnding[t] = "set" /\ sEnding' = [sEnding EXCEPT ![t] = "no"]
          /\ sEnded' = TRUE /\ UNCHANGED <<sRtp, sSock>>
    /\ UNCHANGED <<net, callerVars, admits, sState, sAcked, ans, main, cancelled>>

\* _on_invite: 403 or 486 without a Call object, or ring and start _answer.
OnInvite ==
    /\ Receives /\ "INVITE" \in net /\ sState = "none"
    /\ \/ ~admits /\ Send("refusal") /\ UNCHANGED <<sState, ans>>
       \/ admits /\ sState' = "ringing" /\ Send("180") /\ ans' = "delay"
    /\ UNCHANGED <<callerVars, admits, sMedia, sEnding, sAcked, main, cancelled>>

\* ACK: of whatever response.
OnAck ==
    /\ Receives /\ net \cap {"ACK", "ACK-refusal"} # {} /\ sState # "none"
    /\ sAcked' = TRUE
    /\ UNCHANGED <<net, callerVars, admits, callVars, ans, main, cancelled>>

OnBye ==
    /\ Receives /\ "BYE-caller" \in net /\ sState \notin {"none", "ended"}
    /\ EndCallee("rx")
    /\ UNCHANGED <<net, callerVars, admits, sMedia, sAcked, ans, main, cancelled>>

\* CANCEL: 487, then _end; _answer may run in between.
OnCancel ==
    /\ Receives /\ "CANCEL" \in net /\ sState = "ringing"
    /\ Send("refusal") /\ cancelled' = TRUE
    /\ UNCHANGED <<callerVars, admits, callVars, sAcked, ans, main>>
OnCancelEnds ==
    /\ Up /\ cancelled /\ cancelled' = FALSE /\ EndCallee("rx")
    /\ UNCHANGED <<net, callerVars, admits, sMedia, sAcked, ans, main>>

\* _answer: look at the state after answer_delay ...
Check ==
    /\ Up /\ ans = "delay" /\ ans' = IF sState = "ringing" THEN "checked" ELSE "done"
    /\ UNCHANGED <<net, callerVars, admits, callVars, sAcked, main, cancelled>>

Open ==
    /\ Up /\ ans = "checked" /\ ans' = "open" /\ sSock' = "open"
    /\ UNCHANGED <<net, callerVars, admits, sState, sEnding, sEnded, sRtp, sAcked, main, cancelled>>

\* ... no common codec: 488; or the SDP, which a closed socket cannot give.
NoCodec ==
    /\ Up /\ ans = "open" /\ ans' = "done" /\ Send("refusal") /\ EndCallee("ans")
    /\ UNCHANGED <<callerVars, admits, sMedia, sAcked, main, cancelled>>
Sdp ==
    /\ Up /\ ans = "open" /\ ans' = IF sSock = "closed" THEN "done" ELSE "sdp"
    /\ UNCHANGED <<net, callerVars, admits, callVars, sAcked, main, cancelled>>

\* ... confirmed, whatever the state is now, and 200.
Answer ==
    /\ Up /\ ans = "sdp" /\ ans' = "media" /\ sState' = "confirmed" /\ Send("200")
    /\ UNCHANGED <<callerVars, admits, sMedia, sEnding, sAcked, main, cancelled>>

\* _start_media: the session, its threads, and the port, which a closed socket cannot
\* give: that raises, and the thread is gone.
Media ==
    /\ Up
    /\ \/ ans = "media" /\ ans' = "start" /\ sRtp' = "idle"
       \/ ans = "start" /\ ans' = "port" /\ sRtp' = "run"
       \/ ans = "port" /\ ans' = (IF sSock = "closed" THEN "done" ELSE "unacked") /\ UNCHANGED sRtp
    /\ UNCHANGED <<net, callerVars, admits, sState, sEnded, sSock, sEnding, sAcked, main, cancelled>>

\* The 200 is sent again until the ACK is there or TIMER_B is over.
NoAck ==
    /\ Up /\ ans = "unacked"
    /\ IF sAcked \/ sState = "ended" THEN ans' = "done" /\ UNCHANGED net
       ELSE ans' = "bye" /\ Send("BYE-callee")
    /\ UNCHANGED <<callerVars, admits, callVars, sAcked, main, cancelled>>
AnswerBye ==
    /\ Up /\ ans = "bye" /\ ans' = "done" /\ EndCallee("ans")
    /\ UNCHANGED <<net, callerVars, admits, sMedia, sAcked, main, cancelled>>

\* run: watch a call that has media, until _supervise leaves it.
Watch ==
    /\ main = "listen" /\ sState \notin {"none", "ended"} /\ sRtp # "none" /\ main' = "watch"
    /\ UNCHANGED <<net, callerVars, admits, callVars, sAcked, ans, cancelled>>

\* _supervise hangs up unless call.ended is set; then listen again or close,
\* which hangs up what is not ended.
CalleeLeaves ==
    /\ IF sState # "ended" /\ (~sEnded \/ ~KeepListening)
       THEN main' = "bye" /\ Send("BYE-callee")
       ELSE main' = (IF KeepListening THEN "listen" ELSE "exit") /\ UNCHANGED net
    /\ UNCHANGED <<callerVars, admits, callVars, sAcked, ans, cancelled>>
CallerAudible == ca # "done" /\ cRtp = "run" /\ cSock = "open"
CalleeDuration == main = "watch" /\ CalleeLeaves
MutCalleeSilence == main = "watch" /\ sEnded /\ CalleeLeaves
CalleeSilence == main = "watch" /\ (sEnded \/ ~CallerAudible) /\ CalleeLeaves

MainBye ==
    /\ main = "bye" /\ main' = "leave" /\ EndCallee("main")
    /\ UNCHANGED <<net, callerVars, admits, sMedia, sAcked, ans, cancelled>>

\* The main thread is out of _end.
MainGoesOn ==
    /\ main = "leave" /\ sEnding["main"] = "no"
    /\ main' = IF KeepListening THEN "listen" ELSE "exit"
    /\ UNCHANGED <<net, callerVars, admits, callVars, sAcked, ans, cancelled>>

-----------------------------------------------------------------------------
Init ==
    /\ net = {} /\ ca = "idle" /\ cState = "init" /\ cAck = FALSE
    /\ cEnded = FALSE /\ cRtp = "none" /\ cSock = "none" /\ cEnding = Nobody
    /\ admits \in BOOLEAN
    /\ sState = "none" /\ sAcked = FALSE
    /\ sEnded = FALSE /\ sRtp = "none" /\ sSock = "none" /\ sEnding = Nobody
    /\ ans = "none" /\ main = "listen" /\ cancelled = FALSE

\* The steps that a timer or the end of a wait forces on each thread.
CallerTimers ==
    \/ NoAnswer \/ CancelEnds \/ (\E usable \in BOOLEAN : Confirm(usable)) \/ CallerMedia
    \/ CallerFails \/ CallerSilence \/ CallerBye \/ CallerExits
AnswerTimers ==
    \/ Check \/ Open \/ NoCodec \/ Sdp \/ Answer \/ Media \/ NoAck \/ AnswerBye
MainTimers == Watch \/ CalleeSilence \/ MainBye \/ MainGoesOn

Next ==
    \/ Invite \/ Provisional \/ Refused \/ SendAck \/ Duration \/ CallerGetsBye \/ CallerTimers
    \/ OnInvite \/ OnAck \/ OnBye \/ OnCancel \/ OnCancelEnds \/ CalleeDuration
    \/ AnswerTimers \/ MainTimers
    \/ \E t \in Threads : CallerStops(t) \/ CalleeStops(t)

\* No datagram need ever arrive; the threads go on.
Fairness ==
    /\ WF_vars(CallerTimers) /\ WF_vars(AnswerTimers) /\ WF_vars(MainTimers)
    /\ WF_vars(OnCancelEnds)
    /\ \A t \in Threads : WF_vars(CallerStops(t)) /\ WF_vars(CalleeStops(t))

Spec == Init /\ [][Next]_vars /\ Fairness

-----------------------------------------------------------------------------
(* What the two ends promise. *)

Flags ==
    /\ cEnded \in BOOLEAN /\ cAck \in BOOLEAN /\ admits \in BOOLEAN
    /\ sEnded \in BOOLEAN /\ sAcked \in BOOLEAN /\ cancelled \in BOOLEAN
CallerPlaces ==
    /\ net \subseteq Datagrams
    /\ ca \in {"idle", "invite", "cancel", "acked", "media", "start", "port", "fail", "talk", "bye",
              "leave", "done"}
    /\ cState \in {"init", "calling", "ringing", "confirmed", "ended"}
    /\ cRtp \in {"none", "idle", "run"} /\ cSock \in {"none", "open", "closed"}
    /\ cEnding \in [Threads -> Endings]
CalleePlaces ==
    /\ sState \in {"none", "ringing", "confirmed", "ended"}
    /\ sRtp \in {"none", "idle", "run"} /\ sSock \in {"none", "open", "closed"}
    /\ sEnding \in [Threads -> Endings]
    /\ ans \in {"none", "delay", "checked", "open", "sdp", "media", "start", "port", "unacked", "bye",
               "done"}
    /\ main \in {"listen", "watch", "bye", "leave", "exit"}
    /\ (ans = "none") <=> (sState = "none")
TypeOK == Flags /\ CallerPlaces /\ CalleePlaces

\* Nothing holds the lock while the media is stopped, and _start_media may come in
\* between, or after it, and start a sender that was stopped before it ran: when the
\* call is over and no thread is in _end any more, such a sender has no open socket.
SilentWhenOver ==
    /\ cState = "ended" /\ cEnding = Nobody => ~(cRtp = "run" /\ cSock = "open")
    /\ sState = "ended" /\ sEnding = Nobody => ~(sRtp = "run" /\ sSock = "open")

\* Once call.ended is set, an end sends audio only for a while, although its call may
\* come back to life: the callee's _answer confirms a call that a CANCEL ended before
\* there was a socket to close, opens one and talks, until the main thread closes.
MediaEnds == (cEnded ~> []~CallerAudible) /\ (sEnded ~> []~CalleeAudible)

\* The handshake: a callee that has its ACK talks with a caller that took the 200,
\* although an ACK is not compared with what it acknowledges.
HS == INSTANCE Handshake WITH
        offered <- "200" \in net,
        taken <- cAck,
        talking <- sState = "confirmed" /\ sAcked
IsHandshake == HS!Spec

\* A caller that is gone leaves no callee behind: a callee that rings, answers or
\* talks ends by itself, whatever was lost and however CANCEL and _answer met.
NoCalleeLeft == (ca = "done") ~> (sState \in {"none", "ended"})

\* A callee that ended leaves no caller behind.
NoCallerLeft == (sState = "ended") ~> (cState = "ended")
=============================================================================
