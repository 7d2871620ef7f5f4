--------------------------- MODULE SipCallProofs ----------------------------
(***************************************************************************)
(* Proofs about SipCall for both values of KeepListening: its types, that  *)
(* a call which is over and that no thread is ending any more has no       *)
(* sender on an open socket, and that the two ends and whatever the        *)
(* network does to their datagrams implement Handshake.                    *)
(***************************************************************************)
EXTENDS SipCall, TLAPS

\* The steps of the caller, and those of the callee.
CallerActs ==
    \/ Invite \/ Provisional \/ Refused \/ NoAnswer \/ CancelEnds \/ SendAck
    \/ (\E usable \in BOOLEAN : Confirm(usable))
    \/ CallerMedia \/ CallerFails \/ Duration \/ CallerSilence \/ CallerBye \/ CallerExits
    \/ CallerGetsBye \/ (\E t \in Threads : CallerStops(t))
CalleeActs ==
    \/ OnInvite \/ OnAck \/ OnBye \/ OnCancel \/ OnCancelEnds
    \/ Check \/ Open \/ NoCodec \/ Sdp \/ Answer \/ Media \/ NoAck \/ AnswerBye
    \/ Watch \/ CalleeDuration \/ CalleeSilence \/ MainBye \/ MainGoesOn
    \/ (\E t \in Threads : CalleeStops(t))

\* The callee ends only a call that has begun: a CANCEL under way and a main
\* thread that watches or hangs up have one.
Begun == cancelled \/ main \in {"watch", "bye", "leave"} => sState # "none"

TypeInv == TypeOK /\ Begun

\* Inside _answer the 200 is out from "media" on.
AfterAnswer == {"media", "start", "port", "unacked", "bye", "done"}

\* What a datagram that was sent says of the caller.
CallerInv ==
    /\ cAck <=> "ACK" \in net
    /\ cAck => "200" \in net /\ ca \notin {"idle", "invite"}
    /\ "CANCEL" \in net => ca \in {"cancel", "leave", "done"}
    /\ "ACK-refusal" \in net => ca \in {"leave", "done"} /\ "refusal" \in net /\ "CANCEL" \notin net

\* What a datagram that was sent says of the callee.  A refusal has one of three
\* reasons; only the one that a CANCEL gave may be followed by a 200.
CalleeInv ==
    /\ "200" \in net => ans \in AfterAnswer
    /\ sState = "confirmed" => "200" \in net
    /\ sAcked => net \cap {"ACK", "ACK-refusal"} # {}
    /\ cancelled => "CANCEL" \in net
    /\ ~admits => sState = "none"
    /\ "refusal" \in net /\ "CANCEL" \notin net =>
          ~admits \/ (ans = "done" /\ sState = "ended")

HInv == TypeInv /\ CallerInv /\ CalleeInv

\* Some thread of an end will still close the socket.
ClosesAt(ending) == \E t \in Threads : ending[t] \in {"look", "stop", "close"}

\* The caller has its socket from the start: a call that is over and has it open has a
\* thread that will close it, wherever the main thread is in _start_media.
CallerMInv == cState = "ended" /\ cSock = "open" => ClosesAt(cEnding)

\* The callee opens its socket late, and a call may be over before; media needs the
\* answer, which has the socket.
CalleeMInv ==
    /\ "200" \in net /\ sState = "ended" /\ sSock = "open" => ClosesAt(sEnding)
    /\ sRtp # "none" \/ ans \in {"media", "start"} => "200" \in net
    /\ (\E t \in Threads : sEnding[t] = "stop") => sRtp # "none"

USE DEF callerVars, callVars, calleeVars, cMedia, sMedia

-----------------------------------------------------------------------------
\* A step is the caller's, the callee's or none.
LEMMA NextSplit == ASSUME [Next]_vars PROVE CallerActs \/ CalleeActs \/ UNCHANGED vars
  BY DEF Next, CallerTimers, AnswerTimers, MainTimers, CallerActs, CalleeActs

\* The caller does not touch what the callee knows: they share the network only.
LEMMA CallerFrame == ASSUME CallerActs PROVE UNCHANGED <<admits, calleeVars>>
  BY DEF CallerActs, Invite, Provisional, Refused, NoAnswer, CancelEnds, SendAck, Confirm,
         CallerMedia, CallerFails, Duration, CallerSilence, CallerBye, CallerExits,
         CallerGetsBye, CallerLeaves, CallerStops

\* Nor does the callee touch what the caller knows.
LEMMA CalleeFrame == ASSUME CalleeActs PROVE UNCHANGED callerVars
  BY DEF CalleeActs, OnInvite, OnAck, OnBye, OnCancel, OnCancelEnds, Check, Open, NoCodec, Sdp,
         Answer, Media, NoAck, AnswerBye, Watch, CalleeDuration, CalleeSilence, CalleeLeaves,
         MainBye, MainGoesOn, CalleeStops

\* The answer is the callee's to send.
LEMMA CallerSends == ASSUME CallerActs PROVE "200" \in net' <=> "200" \in net
  BY DEF CallerActs, Invite, Provisional, Refused, NoAnswer, CancelEnds, SendAck, Confirm,
         CallerMedia, CallerFails, Duration, CallerSilence, CallerBye, CallerExits,
         CallerGetsBye, CallerLeaves, CallerStops, Send

-----------------------------------------------------------------------------
(* Types. *)

\* Every flag stays a truth value.
LEMMA FlagsStep == ASSUME Flags, [Next]_vars PROVE Flags'
<1> USE DEF Flags
<1>1. CASE Invite \/ Provisional \/ CancelEnds \/ CallerBye \/ CallerGetsBye \/ Refused \/
     NoAnswer
  BY <1>1, Zenon DEF Invite, Provisional, CancelEnds, EndCaller, CallerBye, CallerGetsBye,
     Refused, NoAnswer
<1>2. CASE SendAck \/ CallerFails \/ Duration \/ CallerSilence \/ CallerExits
  BY <1>2, Zenon DEF SendAck, Answered, CallerFails, Duration, CallerLeaves, CallerSilence,
     CallerExits
<1>3. ASSUME NEW usable \in BOOLEAN, Confirm(usable) PROVE Flags'
  BY <1>3, Zenon DEF Confirm
<1>4. CASE OnInvite \/ OnCancel \/ Check \/ Open \/ Sdp
  BY <1>4, Zenon DEF OnInvite, OnCancel, Check, Open, Sdp
<1>5. CASE OnAck \/ Answer \/ Media \/ NoAck \/ Watch \/ CalleeDuration \/ CalleeSilence
  BY <1>5, Zenon DEF OnAck, Answer, Media, NoAck, Watch, CalleeDuration, CalleeLeaves,
     CalleeSilence
<1>6. CASE OnBye
  BY <1>6, Zenon DEF OnBye, EndCallee
<1>7. CASE OnCancelEnds
  BY <1>7, Zenon DEF OnCancelEnds, EndCallee
<1>8. CASE NoCodec
  BY <1>8, Zenon DEF NoCodec, EndCallee
<1>9. CASE AnswerBye
  BY <1>9, Zenon DEF AnswerBye, EndCallee
<1>10. CASE MainBye
  BY <1>10, Zenon DEF MainBye, EndCallee
<1>11. CASE UNCHANGED vars
  BY <1>11, Zenon DEF vars
<1>12. CASE CallerMedia \/ MainGoesOn
  BY <1>12, Zenon DEF CallerMedia, MainGoesOn
<1>13. ASSUME NEW t \in Threads, CallerStops(t) PROVE Flags'
  BY <1>13, Zenon DEF CallerStops
<1>14. ASSUME NEW t \in Threads, CalleeStops(t) PROVE Flags'
  BY <1>14, Zenon DEF CalleeStops
<1> QED
  BY <1>1, <1>2, <1>3, <1>4, <1>5, <1>6, <1>7, <1>8, <1>9, <1>10, <1>11, <1>12, <1>13,
     <1>14, NextSplit
  DEF CallerActs, CalleeActs

\* The network and the caller's places.
LEMMA CallerPlacesStep == ASSUME CallerPlaces, [Next]_vars PROVE CallerPlaces'
<1> USE DEF CallerPlaces, Datagrams
<1>1. CASE CallerFails \/ Duration \/ CallerSilence
  BY <1>1 DEF CallerFails, Duration, CallerLeaves, Send, CallerSilence
<1>2. CASE Invite
  BY <1>2 DEF Invite, Send
<1>3. CASE Provisional
  BY <1>3 DEF Provisional
<1>4. CASE Refused
  BY <1>4 DEF Refused, EndCaller, Endings, Send
<1>5. CASE NoAnswer
  BY <1>5 DEF NoAnswer, EndCaller, Endings, Send
<1>6. CASE CancelEnds
  BY <1>6 DEF CancelEnds, EndCaller, Endings
<1>7. CASE SendAck
  BY <1>7 DEF SendAck, Answered, Send
<1>8. ASSUME NEW usable \in BOOLEAN, Confirm(usable) PROVE CallerPlaces'
  BY <1>8 DEF Confirm, Send
<1>9. CASE CallerBye
  BY <1>9 DEF CallerBye, EndCaller, Endings
<1>10. CASE CallerGetsBye
  BY <1>10 DEF CallerGetsBye, EndCaller, Endings
<1>11. CASE OnAck \/ OnBye \/ OnCancelEnds \/ Check \/ Open \/ Sdp \/ Media \/ AnswerBye
     \/ Watch \/ MainBye
  BY <1>11 DEF OnAck, OnBye, EndCallee, OnCancelEnds, Check, Open, Sdp, Media, AnswerBye,
     Watch, MainBye
<1>12. CASE CalleeDuration \/ CalleeSilence
  BY <1>12 DEF CalleeDuration, CalleeLeaves, Send, CalleeSilence
<1>13. CASE OnInvite
  BY <1>13 DEF OnInvite, Send
<1>14. CASE OnCancel
  BY <1>14 DEF OnCancel, Send
<1>15. CASE NoCodec
  BY <1>15 DEF NoCodec, EndCallee, Send
<1>16. CASE Answer
  BY <1>16 DEF Answer, Send
<1>17. CASE NoAck
  BY <1>17 DEF NoAck, Send
<1>18. CASE UNCHANGED vars
  BY <1>18 DEF vars
<1>19. CASE CallerMedia
  BY <1>19 DEF CallerMedia
<1>20. CASE CallerExits
  BY <1>20 DEF CallerExits
<1>21. CASE MainGoesOn
  BY <1>21 DEF MainGoesOn
<1>22. ASSUME NEW t \in Threads, CallerStops(t) PROVE CallerPlaces'
  BY <1>22 DEF CallerStops, Endings
<1>23. ASSUME NEW t \in Threads, CalleeStops(t) PROVE CallerPlaces'
  BY <1>23 DEF CalleeStops
<1> QED
  BY <1>1, <1>2, <1>3, <1>4, <1>5, <1>6, <1>7, <1>8, <1>9, <1>10, <1>11, <1>12, <1>13,
     <1>14, <1>15, <1>16, <1>17, <1>18, <1>19, <1>20, <1>21, <1>22, <1>23, NextSplit
  DEF CallerActs, CalleeActs

\* The callee's places; _answer has begun exactly when there is a call.
LEMMA CalleePlacesStep == ASSUME CalleePlaces, Begun, [Next]_vars PROVE CalleePlaces' /\ Begun'
<1> USE DEF CalleePlaces, Begun
<1>1. CASE CallerActs
  BY <1>1, CallerFrame
<1>2. CASE CalleeDuration \/ CalleeSilence
  BY <1>2 DEF CalleeDuration, CalleeLeaves, CalleeSilence
<1>3. CASE OnInvite
  BY <1>3 DEF OnInvite
<1>4. CASE OnAck
  BY <1>4 DEF OnAck
<1>5. CASE OnBye
  BY <1>5 DEF OnBye, EndCallee, Endings
<1>6. CASE OnCancel
  BY <1>6 DEF OnCancel
<1>7. CASE OnCancelEnds
  BY <1>7 DEF OnCancelEnds, EndCallee, Endings
<1>8. CASE Check
  BY <1>8 DEF Check
<1>9. CASE Open
  BY <1>9 DEF Open
<1>10. CASE NoCodec
  BY <1>10 DEF NoCodec, EndCallee, Endings
<1>11. CASE Sdp
  BY <1>11 DEF Sdp
<1>12. CASE Answer
  BY <1>12 DEF Answer
<1>13. CASE Media
  BY <1>13 DEF Media
<1>14. CASE NoAck
  BY <1>14 DEF NoAck
<1>15. CASE AnswerBye
  BY <1>15 DEF AnswerBye, EndCallee, Endings
<1>16. CASE Watch
  BY <1>16 DEF Watch
<1>17. CASE MainBye
  BY <1>17 DEF MainBye, EndCallee, Endings
<1>18. CASE UNCHANGED vars
  BY <1>18 DEF vars
<1>19. CASE MainGoesOn
  BY <1>19 DEF MainGoesOn
<1>20. ASSUME NEW t \in Threads, CalleeStops(t) PROVE CalleePlaces' /\ Begun'
  BY <1>20 DEF CalleeStops, Looked, Closes, Endings
<1> QED
  BY <1>1, <1>2, <1>3, <1>4, <1>5, <1>6, <1>7, <1>8, <1>9, <1>10, <1>11, <1>12, <1>13,
     <1>14, <1>15, <1>16, <1>17, <1>18, <1>19, <1>20, NextSplit
  DEF CalleeActs

LEMMA TypeInductive == Spec => []TypeInv
<1>1. Init => TypeInv
  BY DEF Init, TypeInv, TypeOK, Flags, CallerPlaces, CalleePlaces, Begun, Nobody, Endings
<1>2. TypeInv /\ [Next]_vars => TypeInv'
  BY FlagsStep, CallerPlacesStep, CalleePlacesStep DEF TypeOK, TypeInv
<1> QED
  BY <1>1, <1>2, PTL DEF Spec

\* Both ends keep the types of their state, whether the callee listens on or not.
THEOREM TypeCorrect == Spec => []TypeOK
<1>1. TypeInv => TypeOK
  BY DEF TypeInv
<1> QED
  BY <1>1, TypeInductive, PTL

-----------------------------------------------------------------------------
(* The handshake. *)

\* The caller sends an ACK once, for a 200 or for a refusal, and no CANCEL with either.
LEMMA CallerStep == ASSUME TypeInv, CallerInv, [Next]_vars PROVE CallerInv'
<1> USE DEF TypeInv, TypeOK, Flags, CallerPlaces, CallerInv
<1>1. CASE CallerFails \/ Duration \/ CallerSilence
  BY <1>1 DEF CallerFails, Duration, CallerLeaves, Send, CallerSilence
<1>2. CASE Invite
  BY <1>2 DEF Invite, Send
<1>3. CASE Provisional
  BY <1>3 DEF Provisional
<1>4. CASE Refused
  BY <1>4 DEF Refused, EndCaller, Send
<1>5. CASE NoAnswer
  BY <1>5 DEF NoAnswer, EndCaller, Send
<1>6. CASE CancelEnds
  BY <1>6 DEF CancelEnds, EndCaller
<1>7. CASE SendAck
  BY <1>7 DEF SendAck, Answered, Send
<1>8. ASSUME NEW usable \in BOOLEAN, Confirm(usable) PROVE CallerInv'
  BY <1>8 DEF Confirm, Send
<1>9. CASE CallerBye
  BY <1>9 DEF CallerBye, EndCaller
<1>10. CASE CallerGetsBye
  BY <1>10 DEF CallerGetsBye, EndCaller
<1>11. CASE OnAck \/ OnBye \/ OnCancelEnds \/ Check \/ Open \/ Sdp \/ Media \/ AnswerBye
     \/ Watch \/ MainBye
  BY <1>11 DEF OnAck, OnBye, EndCallee, OnCancelEnds, Check, Open, Sdp, Media, AnswerBye,
     Watch, MainBye
<1>12. CASE CalleeDuration \/ CalleeSilence
  BY <1>12 DEF CalleeDuration, CalleeLeaves, Send, CalleeSilence
<1>13. CASE OnInvite
  BY <1>13 DEF OnInvite, Send
<1>14. CASE OnCancel
  BY <1>14 DEF OnCancel, Send
<1>15. CASE NoCodec
  BY <1>15 DEF NoCodec, EndCallee, Send
<1>16. CASE Answer
  BY <1>16 DEF Answer, Send
<1>17. CASE NoAck
  BY <1>17 DEF NoAck, Send
<1>18. CASE UNCHANGED vars
  BY <1>18 DEF vars
<1>19. CASE CallerMedia
  BY <1>19 DEF CallerMedia
<1>20. CASE CallerExits
  BY <1>20 DEF CallerExits
<1>21. CASE MainGoesOn
  BY <1>21 DEF MainGoesOn
<1>22. ASSUME NEW t \in Threads, CallerStops(t) PROVE CallerInv'
  BY <1>22 DEF CallerStops
<1>23. ASSUME NEW t \in Threads, CalleeStops(t) PROVE CallerInv'
  BY <1>23 DEF CalleeStops
<1> QED
  BY <1>1, <1>2, <1>3, <1>4, <1>5, <1>6, <1>7, <1>8, <1>9, <1>10, <1>11, <1>12, <1>13,
     <1>14, <1>15, <1>16, <1>17, <1>18, <1>19, <1>20, <1>21, <1>22, <1>23, NextSplit
  DEF CallerActs, CalleeActs

\* The callee answers once, and is acknowledged only after it has.
LEMMA CalleeStep == ASSUME HInv, [Next]_vars PROVE CalleeInv'
<1> USE DEF HInv, TypeInv, TypeOK, Flags, CallerPlaces, CalleePlaces, Begun, CallerInv, CalleeInv, AfterAnswer
<1>1. CASE Provisional \/ CancelEnds \/ CallerBye \/ CallerGetsBye
  BY <1>1 DEF Provisional, CancelEnds, EndCaller, CallerBye, CallerGetsBye
<1>2. CASE CallerFails \/ Duration \/ CallerSilence
  BY <1>2 DEF CallerFails, Duration, CallerLeaves, Send, CallerSilence
<1>3. CASE Invite
  BY <1>3 DEF Invite, Send
<1>4. CASE Refused
  BY <1>4 DEF Refused, EndCaller, Send
<1>5. CASE NoAnswer
  BY <1>5 DEF NoAnswer, EndCaller, Send
<1>6. CASE SendAck
  BY <1>6 DEF SendAck, Answered, Send
<1>7. ASSUME NEW usable \in BOOLEAN, Confirm(usable) PROVE CalleeInv'
  BY <1>7 DEF Confirm, Send
<1>8. CASE CalleeDuration \/ CalleeSilence
  BY <1>8 DEF CalleeDuration, CalleeLeaves, Send, CalleeSilence
<1>9. CASE OnInvite
  BY <1>9 DEF OnInvite, Send
<1>10. CASE OnAck
  BY <1>10 DEF OnAck
<1>11. CASE OnBye
  BY <1>11 DEF OnBye, EndCallee
<1>12. CASE OnCancel
  BY <1>12 DEF OnCancel, Send
<1>13. CASE OnCancelEnds
  BY <1>13 DEF OnCancelEnds, EndCallee
<1>14. CASE Check
  BY <1>14 DEF Check
<1>15. CASE Open
  BY <1>15 DEF Open
<1>16. CASE NoCodec
  BY <1>16 DEF NoCodec, EndCallee, Send
<1>17. CASE Sdp
  BY <1>17 DEF Sdp
<1>18. CASE Answer
  BY <1>18 DEF Answer, Send
<1>19. CASE Media
  BY <1>19 DEF Media
<1>20. CASE NoAck
  BY <1>20 DEF NoAck, Send
<1>21. CASE AnswerBye
  BY <1>21 DEF AnswerBye, EndCallee
<1>22. CASE Watch
  BY <1>22 DEF Watch
<1>23. CASE MainBye
  BY <1>23 DEF MainBye, EndCallee
<1>24. CASE UNCHANGED vars
  BY <1>24 DEF vars
<1>25. CASE CallerMedia \/ CallerExits
  BY <1>25 DEF CallerMedia, CallerExits
<1>26. CASE MainGoesOn
  BY <1>26 DEF MainGoesOn
<1>27. ASSUME NEW t \in Threads, CallerStops(t) PROVE CalleeInv'
  BY <1>27 DEF CallerStops
<1>28. ASSUME NEW t \in Threads, CalleeStops(t) PROVE CalleeInv'
  BY <1>28 DEF CalleeStops
<1> QED
  BY <1>1, <1>2, <1>3, <1>4, <1>5, <1>6, <1>7, <1>8, <1>9, <1>10, <1>11, <1>12, <1>13,
     <1>14, <1>15, <1>16, <1>17, <1>18, <1>19, <1>20, <1>21, <1>22, <1>23, <1>24, <1>25,
     <1>26, <1>27, <1>28, NextSplit
  DEF CallerActs, CalleeActs

LEMMA HandshakeInductive == Spec => []HInv
<1>1. Init => CallerInv /\ CalleeInv
  BY DEF Init, CallerInv, CalleeInv
<1>2. TypeInv /\ CallerInv /\ CalleeInv /\ [Next]_vars => CallerInv' /\ CalleeInv'
  BY CallerStep, CalleeStep DEF HInv
<1> QED
  BY <1>1, <1>2, TypeInductive, PTL DEF Spec, HInv

\* Every step of the two ends is a step of the handshake or leaves it alone.
LEMMA StepMaps == ASSUME HInv, [Next]_vars PROVE [HS!Next]_(HS!vars)
<1> USE DEF HInv, TypeInv, TypeOK, Flags, CallerPlaces, CalleePlaces, Begun, CallerInv, CalleeInv, AfterAnswer,
       HS!Next, HS!Offer, HS!Take, HS!Begin, HS!Finish, HS!vars
<1>1. CASE Provisional \/ CancelEnds \/ CallerBye \/ CallerGetsBye
  BY <1>1 DEF Provisional, CancelEnds, EndCaller, CallerBye, CallerGetsBye
<1>2. CASE CallerFails \/ Duration \/ CallerSilence
  BY <1>2 DEF CallerFails, Duration, CallerLeaves, Send, CallerSilence
<1>3. CASE Invite
  BY <1>3 DEF Invite, Send
<1>4. CASE Refused
  BY <1>4 DEF Refused, EndCaller, Send
<1>5. CASE NoAnswer
  BY <1>5 DEF NoAnswer, EndCaller, Send
<1>6. CASE SendAck
  BY <1>6 DEF SendAck, Answered, Send
<1>7. ASSUME NEW usable \in BOOLEAN, Confirm(usable) PROVE [HS!Next]_(HS!vars)
  BY <1>7 DEF Confirm, Send
<1>8. CASE CalleeDuration \/ CalleeSilence
  BY <1>8 DEF CalleeDuration, CalleeLeaves, Send, CalleeSilence
<1>9. CASE OnInvite
  BY <1>9 DEF OnInvite, Send
<1>10. CASE OnAck
  BY <1>10 DEF OnAck
<1>11. CASE OnBye
  BY <1>11 DEF OnBye, EndCallee
<1>12. CASE OnCancel
  BY <1>12 DEF OnCancel, Send
<1>13. CASE OnCancelEnds
  BY <1>13 DEF OnCancelEnds, EndCallee
<1>14. CASE Check
  BY <1>14 DEF Check
<1>15. CASE Open
  BY <1>15 DEF Open
<1>16. CASE NoCodec
  BY <1>16 DEF NoCodec, EndCallee, Send
<1>17. CASE Sdp
  BY <1>17 DEF Sdp
<1>18. CASE Answer
  BY <1>18 DEF Answer, Send
<1>19. CASE Media
  BY <1>19 DEF Media
<1>20. CASE NoAck
  BY <1>20 DEF NoAck, Send
<1>21. CASE AnswerBye
  BY <1>21 DEF AnswerBye, EndCallee
<1>22. CASE Watch
  BY <1>22 DEF Watch
<1>23. CASE MainBye
  BY <1>23 DEF MainBye, EndCallee
<1>24. CASE UNCHANGED vars
  BY <1>24 DEF vars
<1>25. CASE CallerMedia \/ CallerExits
  BY <1>25 DEF CallerMedia, CallerExits
<1>26. CASE MainGoesOn
  BY <1>26 DEF MainGoesOn
<1>27. ASSUME NEW t \in Threads, CallerStops(t) PROVE [HS!Next]_(HS!vars)
  BY <1>27 DEF CallerStops
<1>28. ASSUME NEW t \in Threads, CalleeStops(t) PROVE [HS!Next]_(HS!vars)
  BY <1>28 DEF CalleeStops
<1> QED
  BY <1>1, <1>2, <1>3, <1>4, <1>5, <1>6, <1>7, <1>8, <1>9, <1>10, <1>11, <1>12, <1>13,
     <1>14, <1>15, <1>16, <1>17, <1>18, <1>19, <1>20, <1>21, <1>22, <1>23, <1>24, <1>25,
     <1>26, <1>27, <1>28, NextSplit
  DEF CallerActs, CalleeActs

\* Two user agents and a network that loses, repeats and reorders implement the
\* three-way handshake: the caller takes only an answer that was given, and the
\* callee's call is up only with a caller that took it, although OnAck compares
\* the ACK with nothing.
THEOREM Implements == Spec => IsHandshake
<1>1. Init => HS!Init
  BY DEF Init, HS!Init
<1>2. HInv /\ [Next]_vars => [HS!Next]_(HS!vars)
  BY StepMaps
<1> QED
  BY <1>1, <1>2, HandshakeInductive, PTL DEF Spec, IsHandshake, HS!Spec

-----------------------------------------------------------------------------
(* Media. *)

\* The receiving and the main thread of the caller: whoever set the state closes the
\* socket later, and nobody opens it again.
LEMMA CallerMediaStep == ASSUME TypeInv, CallerMInv, [Next]_vars PROVE CallerMInv'
<1> USE DEF TypeInv, TypeOK, CallerPlaces, CallerMInv, ClosesAt, Threads
<1>1. CASE CallerFails \/ Duration \/ CallerSilence \/ CallerExits
  BY <1>1 DEF CallerFails, Duration, CallerLeaves, CallerSilence, CallerExits
<1>2. CASE Invite \/ Provisional \/ SendAck \/ CallerMedia
  BY <1>2 DEF Invite, Provisional, SendAck, CallerMedia
<1>3. ASSUME NEW usable \in BOOLEAN, Confirm(usable) PROVE CallerMInv'
  BY <1>3 DEF Confirm
<1>4. CASE Refused \/ CancelEnds \/ CallerBye
  BY <1>4 DEF Refused, CancelEnds, CallerBye, EndCaller
<1>5. CASE NoAnswer
  BY <1>5 DEF NoAnswer, EndCaller
<1>6. CASE CallerGetsBye
  BY <1>6 DEF CallerGetsBye, EndCaller
<1>7. ASSUME NEW t \in Threads, CallerStops(t) PROVE CallerMInv'
  BY <1>7 DEF CallerStops
<1>8. CASE CalleeActs \/ UNCHANGED vars
  <2>1. UNCHANGED callerVars
    BY <1>8, CalleeFrame DEF vars
  <2> QED
    BY <2>1
<1> QED
  BY <1>1, <1>2, <1>3, <1>4, <1>5, <1>6, <1>7, <1>8, NextSplit DEF CallerActs

\* The callee's threads: the answer is given with a socket, so whoever ends the call
\* after it finds one to close.
LEMMA CalleeMediaStep == ASSUME HInv, CalleeMInv, [Next]_vars PROVE CalleeMInv'
<1> USE DEF HInv, TypeInv, TypeOK, CallerPlaces, CalleePlaces, CalleeInv, AfterAnswer,
       CalleeMInv, ClosesAt, Threads
<1>1. CASE CallerActs
  <2>1. UNCHANGED calleeVars
    BY <1>1, CallerFrame
  <2>2. "200" \in net' <=> "200" \in net
    BY <1>1, CallerSends
  <2> QED
    BY <2>1, <2>2
<1>2. CASE OnInvite
  BY <1>2 DEF OnInvite, Send
<1>3. CASE OnAck \/ OnCancel
  BY <1>3 DEF OnAck, OnCancel, Send
<1>4. CASE OnBye
  BY <1>4 DEF OnBye, EndCallee
<1>5. CASE OnCancelEnds
  BY <1>5 DEF OnCancelEnds, EndCallee
<1>6. CASE Check
  BY <1>6 DEF Check
<1>7. CASE Open
  BY <1>7 DEF Open
<1>8. CASE NoCodec
  BY <1>8 DEF NoCodec, EndCallee, Send
<1>9. CASE Sdp
  BY <1>9 DEF Sdp
<1>10. CASE Answer
  BY <1>10 DEF Answer, Send
<1>11. CASE Media
  BY <1>11 DEF Media
<1>12. CASE NoAck
  BY <1>12 DEF NoAck, Send
<1>13. CASE AnswerBye
  BY <1>13 DEF AnswerBye, EndCallee
<1>14. CASE CalleeDuration \/ CalleeSilence
  BY <1>14 DEF CalleeDuration, CalleeLeaves, Send, CalleeSilence
<1>15. CASE Watch \/ MainGoesOn
  BY <1>15 DEF Watch, MainGoesOn
<1>16. CASE MainBye
  BY <1>16 DEF MainBye, EndCallee
<1>17. ASSUME NEW t \in Threads, CalleeStops(t) PROVE CalleeMInv'
  <2>1. CASE sEnding[t] = "look"
    <3>1. sEnding' = [sEnding EXCEPT ![t] = Looked] /\ UNCHANGED <<net, sState, sRtp, sSock, ans>>
      BY <1>17, <2>1 DEF CalleeStops
    <3>2. (sSock = "open" => Looked \in {"stop", "close"}) /\ (Looked = "stop" => sRtp # "none")
      BY DEF Looked
    <3> QED
      BY <3>1, <3>2
  <2>2. CASE sEnding[t] = "stop"
    <3>1. sEnding' = [sEnding EXCEPT ![t] = "close"] /\ sRtp' = "idle" /\ UNCHANGED <<net, sState, sSock, ans>>
      BY <1>17, <2>2 DEF CalleeStops
    <3>2. "200" \in net
      BY <2>2
    <3> QED
      BY <3>1, <3>2
  <2>3. CASE sEnding[t] = "close"
    BY <1>17, <2>3 DEF CalleeStops, Closes
  <2>4. CASE sEnding[t] = "set"
    BY <1>17, <2>4 DEF CalleeStops
  <2> QED
    BY <1>17, <2>1, <2>2, <2>3, <2>4 DEF CalleeStops
<1>18. CASE UNCHANGED vars
  BY <1>18 DEF vars
<1> QED
  BY <1>1, <1>2, <1>3, <1>4, <1>5, <1>6, <1>7, <1>8, <1>9, <1>10, <1>11, <1>12, <1>13,
     <1>14, <1>15, <1>16, <1>17, <1>18, NextSplit
  DEF CalleeActs

\* Whichever of BYE, CANCEL, the timeouts and _answer came first at either end, and
\* although _end stops the media outside its lock, before, between or after the steps
\* of _start_media: once no thread is in _end, a call that is over has no sender that
\* runs on an open socket, with either value of --keep-listening.
THEOREM MediaStops == Spec => []SilentWhenOver
<1>1. Init => CallerMInv /\ CalleeMInv
  BY DEF Init, CallerMInv, CalleeMInv, Nobody
<1>2. HInv /\ CallerMInv /\ CalleeMInv /\ [Next]_vars => CallerMInv' /\ CalleeMInv'
  BY CallerMediaStep, CalleeMediaStep DEF HInv
<1>3. HInv /\ CallerMInv /\ CalleeMInv => SilentWhenOver
  BY DEF CallerMInv, CalleeMInv, SilentWhenOver, ClosesAt, Nobody
<1> QED
  BY <1>1, <1>2, <1>3, HandshakeInductive, PTL DEF Spec
=============================================================================
