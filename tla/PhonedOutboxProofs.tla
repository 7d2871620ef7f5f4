------------------------ MODULE PhonedOutboxProofs --------------------------
(***************************************************************************)
(* Proofs about outgoing SMS, for any calls, parts, limit and restarts: a  *)
(* grant lets one call through, the rate limit holds until a restart, and  *)
(* a message that overtook no ack takes only the acks of its own parts.    *)
(***************************************************************************)
EXTENDS PhonedOutbox, FiniteSetTheorems, TLAPS

USE DEF gateVars, cpVars, callVars, records

-----------------------------------------------------------------------------
(* Grants. *)

\* A fresh grant in the file has let nobody through yet.
Spare == IF grant = "fresh" THEN 1 ELSE 0
GrantInv ==
    /\ granted \in Nat /\ IsFiniteSet(used)
    /\ Cardinality(used) + Spare <= granted

LEMMA OneMore ==
    ASSUME NEW S, IsFiniteSet(S), NEW x
    PROVE  /\ IsFiniteSet(S \cup {x}) /\ Cardinality(S) \in Nat /\ Cardinality(S \cup {x}) \in Nat
           /\ Cardinality(S \cup {x}) <= Cardinality(S) + 1
  BY FS_AddElement, FS_CardinalityType

\* Only s22d and take_grant touch the grant.
LEMMA GrantFrame ==
    ASSUME [Next]_vars
    PROVE  \/ WriteGrant \/ GrantExpires \/ \E m \in Msgs : Unlink(m)
           \/ UNCHANGED <<grant, granted, used>>
  BY DEF Next, vars, Call, Gate, ReadGrant, Rate, Lock, Send, SendResp, TakeAck, AckTimeout,
         Store, PutResp, CpLosesAck, CpAck, ReadReport, PutReport, Crash

LEMMA GrantStep == ASSUME GrantInv, [Next]_vars PROVE GrantInv'
<1>0. Cardinality(used) \in Nat  BY FS_CardinalityType DEF GrantInv
<1>1. CASE WriteGrant  BY <1>0, <1>1 DEF GrantInv, Spare, WriteGrant
<1>2. CASE GrantExpires  BY <1>0, <1>2 DEF GrantInv, Spare, GrantExpires
<1>3. ASSUME NEW m \in Msgs, Unlink(m) PROVE GrantInv'
  <2>1. CASE TakesGrant(m) /\ used' = used \cup {m}
    <3>1. grant = "fresh" /\ grant' = "none" /\ granted' = granted  BY <1>3, <2>1 DEF Unlink, TakesGrant
    <3>2. IsFiniteSet(used') /\ Cardinality(used') \in Nat /\ Cardinality(used') <= Cardinality(used) + 1
      BY <2>1, OneMore DEF GrantInv
    <3> QED  BY <1>0, <3>1, <3>2 DEF GrantInv, Spare
  <2>2. CASE UNCHANGED used  BY <1>0, <1>3, <2>2 DEF GrantInv, Spare, Unlink
  <2> QED  BY <1>3, <2>1, <2>2 DEF Unlink
<1>4. CASE UNCHANGED <<grant, granted, used>>  BY <1>4 DEF GrantInv, Spare
<1> QED  BY <1>1, <1>2, <1>3, <1>4, GrantFrame

\* take_grant: "Consume s22d's one-shot grant".  For any number of calls and grants, and
\* across restarts, no grant lets two calls of send_sms through.
THEOREM GrantsAreOneShot == Spec => []OneCallPerGrant
<1>1. Init => GrantInv  BY FS_EmptySet DEF Init, GrantInv, Spare
<1>2. GrantInv => OneCallPerGrant
  BY FS_CardinalityType DEF GrantInv, Spare, OneCallPerGrant
<1> QED  BY <1>1, <1>2, GrantStep, PTL DEF Spec

-----------------------------------------------------------------------------
(* The rate limit. *)

\* Calls that took a stamp and are still under way, or have given the CP a part.
Claimed == SentMsgs \cup {m \in Msgs : pc[m] \in {"lock", "send", "ack"}}
RateInv ==
    /\ crashes \in Nat /\ stamps \in Nat /\ pc \in [Msgs -> Labels]
    /\ crashes = 0 => /\ stamps <= Limit /\ IsFiniteSet(Claimed)
                      /\ Cardinality(Claimed) <= stamps

\* Whose part it is can be told from the part.
LEMMA PartsApart ==
    ASSUME NEW m \in Msgs, NEW n \in Msgs, NEW j, Part(m, j) \in PartsOf(n) PROVE m = n
  BY DEF Part, PartsOf

LEMMA SentGrows ==
    ASSUME NEW m \in Msgs, NEW j, sent' = sent \cup {Part(m, j)}
    PROVE  SentMsgs' \subseteq SentMsgs \cup {m}
  BY PartsApart DEF SentMsgs

\* Where the calls are stays typed, and a step of one call moves no other.
LEMMA CallMoves ==
    ASSUME pc \in [Msgs -> Labels], NEW m \in Msgs, Call(m)
    PROVE  pc' \in [Msgs -> Labels] /\ \A n \in Msgs \ {m} : pc'[n] = pc[n]
  BY DEF Call, Gate, ReadGrant, Unlink, Rate, Lock, Send, SendResp, TakeAck, AckTimeout, Store,
         Goto, Refuse, Finish, Acked, Labels

LEMMA SmallerClaim ==
    ASSUME RateInv, crashes' = crashes, stamps' = stamps, pc' \in [Msgs -> Labels],
           Claimed' \subseteq Claimed
    PROVE  RateInv'
  BY FS_Subset, FS_CardinalityType, OutboxAssumption DEF RateInv

\* What a restart makes of the rate window is a number.
LEMMA LoadedType == LoadedStamps \in Nat
  BY OutboxAssumption, FS_Subset, FS_CardinalityType DEF LoadedStamps, Reloaded, OpenRecords

LEMMA RateStep == ASSUME RateInv, [Next]_vars PROVE RateInv'
<1> USE OutboxAssumption
<1>1. ASSUME NEW m \in Msgs, Call(m) PROVE RateInv'
  <2>0. pc \in [Msgs -> Labels] /\ pc' \in [Msgs -> Labels] /\ \A n \in Msgs \ {m} : pc'[n] = pc[n]
    BY <1>1, CallMoves DEF RateInv
  <2>1. CASE Gate(m) \/ ReadGrant(m) \/ Unlink(m)
    <3>1. pc'[m] \notin {"lock", "send", "ack"} /\ UNCHANGED <<sent, stamps, crashes>>
      BY <2>0, <2>1 DEF Gate, ReadGrant, Unlink, Goto, Refuse
    <3> QED  BY <2>0, <3>1, SmallerClaim DEF Claimed, SentMsgs
  <2>2. CASE Rate(m)
    <3>1. CASE Refuse(m) /\ UNCHANGED stamps
      <4>1. pc'[m] = "done" /\ UNCHANGED <<sent, stamps, crashes>>
        BY <2>0, <2>2, <3>1 DEF Rate, Goto, Refuse
      <4> QED  BY <2>0, <4>1, SmallerClaim DEF Claimed, SentMsgs
    <3>2. CASE Within /\ stamps' = stamps + 1
      <4>1. UNCHANGED <<sent, crashes>>  BY <2>2 DEF Rate
      <4>2. Claimed' \subseteq Claimed \cup {m}  BY <2>0, <4>1 DEF Claimed, SentMsgs
      <4>3. ASSUME crashes = 0
            PROVE  stamps' <= Limit /\ IsFiniteSet(Claimed') /\ Cardinality(Claimed') <= stamps'
        <5>1. IsFiniteSet(Claimed) /\ Cardinality(Claimed) <= stamps /\ stamps \in Nat
          BY <4>3 DEF RateInv
        <5>2. /\ IsFiniteSet(Claimed \cup {m}) /\ Cardinality(Claimed \cup {m}) \in Nat
              /\ Cardinality(Claimed) \in Nat /\ Cardinality(Claimed \cup {m}) <= Cardinality(Claimed) + 1
          BY <5>1, OneMore
        <5>3. /\ IsFiniteSet(Claimed') /\ Cardinality(Claimed') \in Nat
              /\ Cardinality(Claimed') <= Cardinality(Claimed \cup {m})
          BY <4>2, <5>2, FS_Subset, FS_CardinalityType
        <5> QED  BY <3>2, <5>1, <5>2, <5>3 DEF Within
      <4> QED  BY <2>0, <3>2, <4>1, <4>3 DEF RateInv
    <3> QED  BY <2>2, <3>1, <3>2 DEF Rate
  <2>3. CASE Lock(m) \/ TakeAck(m) \/ AckTimeout(m)
    <3>1. m \in Claimed /\ UNCHANGED <<sent, stamps, crashes>>
      BY <2>3 DEF Lock, TakeAck, AckTimeout, Claimed
    <3> QED  BY <2>0, <3>1, SmallerClaim DEF Claimed, SentMsgs
  <2>4. CASE Send(m) \/ \E ok \in BOOLEAN : SendResp(m, ok)
    <3>1. m \in Claimed /\ UNCHANGED <<stamps, crashes>>
      BY <2>4 DEF Send, SendResp, Drains, Claimed
    <3>2. sent' = sent \/ sent' = sent \cup {Part(m, k[m])}  BY <2>4 DEF Send, SendResp
    <3>3. SentMsgs' \subseteq SentMsgs \cup {m}  BY <3>2, SentGrows DEF SentMsgs
    <3> QED  BY <2>0, <3>1, <3>3, SmallerClaim DEF Claimed
  <2>5. CASE Store(m)
    <3>1. pc'[m] = "done" /\ UNCHANGED <<sent, stamps, crashes>>
      BY <2>0, <2>5 DEF Store, Goto
    <3> QED  BY <2>0, <3>1, SmallerClaim DEF Claimed, SentMsgs
  <2> QED  BY <1>1, <2>1, <2>2, <2>3, <2>4, <2>5 DEF Call
<1>2. CASE Crash
  <2>1. stamps' \in Nat  BY <1>2, LoadedType DEF Crash
  <2> QED  BY <1>2, <2>1 DEF Crash, RateInv, Labels
<1>3. CASE UNCHANGED <<pc, sent, stamps, crashes>>
  BY <1>3, SmallerClaim DEF Claimed, SentMsgs, RateInv
<1> QED
  BY <1>1, <1>2, <1>3
  DEF Next, vars, WriteGrant, GrantExpires, PutResp, CpLosesAck, CpAck, ReadReport, PutReport

\* README: "Rate limits: 10 SMS ... per hour".  For any limit and any number of calls that
\* interleave in any way, no more messages than the limit reach the CP in an hour
\* of one run of the daemon.
THEOREM RateHolds == Spec => []WithinLimit
<1>1. Init => RateInv
  <2> SUFFICES ASSUME Init PROVE RateInv  OBVIOUS
  <2>1. Claimed = {}  BY DEF Init, Claimed, SentMsgs
  <2> QED  BY <2>1, OutboxAssumption, FS_EmptySet DEF Init, RateInv, Labels
<1>2. RateInv => WithinLimit
  <2> SUFFICES ASSUME RateInv, crashes = 0 PROVE Cardinality(SentMsgs) <= Limit  BY DEF WithinLimit
  <2>1. IsFiniteSet(Claimed) /\ Cardinality(Claimed) <= Limit /\ Cardinality(Claimed) \in Nat
    BY OutboxAssumption, FS_CardinalityType DEF RateInv
  <2>2. SentMsgs \subseteq Claimed  BY DEF Claimed
  <2> QED  BY <2>1, <2>2, OutboxAssumption, FS_Subset, FS_CardinalityType
<1> QED  BY <1>1, <1>2, RateStep, PTL DEF Spec

-----------------------------------------------------------------------------
(* Types. *)

LEMMA PartType == ASSUME NEW m \in Msgs, NEW j \in 1 .. NParts[m]
                  PROVE  Part(m, j) \in PartsOf(m) /\ Part(m, j) \in AllParts
  BY DEF PartsOf, AllParts

LEMMA GateTypesStep == ASSUME GateTypes, [Next]_vars PROVE GateTypes'
<1> USE OutboxAssumption DEF GateTypes
<1>1. ASSUME NEW m \in Msgs, Call(m) PROVE GateTypes'
  <2>1. CASE ReadGrant(m)  BY <2>1 DEF ReadGrant
  <2>2. CASE Unlink(m)  BY <2>2 DEF Unlink
  <2>3. CASE Rate(m)  BY <2>3 DEF Rate
  <2>4. CASE UNCHANGED <<gateVars, stamps, crashes>>  BY <2>4
  <2> QED
    BY <1>1, <2>1, <2>2, <2>3, <2>4
    DEF Call, Gate, Lock, Send, SendResp, TakeAck, AckTimeout, Store
<1>2. CASE Crash  BY <1>2, LoadedType DEF Crash
<1>3. CASE WriteGrant  BY <1>3 DEF WriteGrant
<1>4. CASE GrantExpires  BY <1>4 DEF GrantExpires
<1>5. CASE UNCHANGED <<gateVars, stamps, crashes>>  BY <1>5
<1> QED
  BY <1>1, <1>2, <1>3, <1>4, <1>5 DEF Next, vars, PutResp, CpLosesAck, CpAck, ReadReport, PutReport

LEMMA CpTypesStep == ASSUME CallTypes, CpTypes, [Next]_vars PROVE CpTypes'
<1> USE OutboxAssumption DEF CpTypes
<1>1. ASSUME NEW m \in Msgs, Send(m) PROVE CpTypes'
  <2>1. Part(m, k[m]) \in AllParts  BY PartType DEF CallTypes
  <2> QED  BY <1>1, <2>1 DEF Send, Drains, Drained
<1>2. ASSUME NEW m \in Msgs, NEW ok \in BOOLEAN, SendResp(m, ok) PROVE CpTypes'
  <2>1. Part(m, k[m]) \in AllParts  BY PartType DEF CallTypes
  <2> QED  BY <1>2, <2>1 DEF SendResp, Drains, Drained, MayReport
<1>3. ASSUME NEW m \in Msgs, TakeAck(m) PROVE CpTypes'  BY <1>3 DEF TakeAck
<1>4. ASSUME NEW p \in AllParts, NEW ok \in BOOLEAN, CpAck(p, ok) PROVE CpTypes'  BY <1>4 DEF CpAck, MayReport
<1>5. ASSUME NEW p \in AllParts, CpLosesAck(p) PROVE CpTypes'  BY <1>5 DEF CpLosesAck, MayReport
<1>6. ASSUME NEW h \in Handlers, ReadReport(h) PROVE CpTypes'  BY <1>6 DEF ReadReport
<1>7. CASE Crash  BY <1>7 DEF Crash
<1>8. CASE UNCHANGED cpVars  BY <1>8
<1>9. CASE PutResp  BY <1>9 DEF PutResp
<1> QED
  BY <1>1, <1>2, <1>3, <1>4, <1>5, <1>6, <1>7, <1>8, <1>9
  DEF Next, vars, Call, WriteGrant, GrantExpires, Gate, ReadGrant, Unlink, Rate, Lock, AckTimeout,
      Store, PutReport

\* Elementary facts about a queue.
LEMMA HeadTail ==
    ASSUME NEW S, NEW q \in Seq(S), q # << >>
    PROVE  /\ Head(q) = q[1] /\ Head(q) \in S /\ 1 \in 1 .. Len(q)
           /\ Tail(q) \in Seq(S) /\ Len(Tail(q)) = Len(q) - 1
           /\ \A i \in 1 .. Len(Tail(q)) : Tail(q)[i] = q[i + 1]
  OBVIOUS

LEMMA AckedTypes ==
    ASSUME CallTypes, NEW m \in Msgs, NEW mr \in AllParts, NEW ok \in BOOLEAN, Acked(m, mr, ok)
    PROVE  CallTypes'
<1> USE DEF CallTypes, Labels
<1>1. CASE ~ok  BY <1>1 DEF Acked, Finish, Goto, Nobody
<1>2. CASE ok
  <2>1. mrs' \in [Msgs -> SUBSET AllParts]  BY <1>2 DEF Acked
  <2>2. CASE k[m] = NParts[m]  BY <1>2, <2>1, <2>2 DEF Acked, Finish, Goto, Nobody
  <2>3. CASE k[m] # NParts[m]  BY <1>2, <2>1, <2>3, OutboxAssumption DEF Acked, Goto
  <2> QED  BY <2>2, <2>3
<1> QED  BY <1>1, <1>2

LEMMA CallTypesStep == ASSUME CallTypes, CpTypes, [Next]_vars PROVE CallTypes'
<1>1. ASSUME NEW m \in Msgs, Gate(m) \/ ReadGrant(m) \/ Unlink(m) \/ Rate(m) \/ Store(m) PROVE CallTypes'
  BY <1>1 DEF Gate, ReadGrant, Unlink, Rate, Store, Goto, Refuse, CallTypes, Labels
<1>2. ASSUME NEW m \in Msgs, Lock(m) PROVE CallTypes'
  <2>1. \A n \in Msgs : 1 \in 1 .. NParts[n]  BY OutboxAssumption
  <2>2. k' = [k EXCEPT ![m] = 1] /\ holder' = {m} /\ pc' = [pc EXCEPT ![m] = "send"] /\ mrs' = mrs
    BY <1>2 DEF Lock, Goto
  <2>3. k' \in [Msgs -> Nat] /\ \A n \in Msgs : k'[n] \in 1 .. NParts[n]
    BY <2>1, <2>2 DEF CallTypes
  <2> QED  BY <2>2, <2>3 DEF CallTypes, Labels
<1>3. ASSUME NEW m \in Msgs, Send(m) \/ AckTimeout(m) PROVE CallTypes'
  BY <1>3 DEF Send, AckTimeout, Finish, Goto, CallTypes, Labels, Nobody
<1>4. ASSUME NEW m \in Msgs, NEW ok \in BOOLEAN, SendResp(m, ok) PROVE CallTypes'
  <2>1. Part(m, k[m]) \in AllParts  BY PartType DEF CallTypes
  <2> QED  BY <1>4, <2>1, AckedTypes DEF SendResp
<1>5. ASSUME NEW m \in Msgs, TakeAck(m) PROVE CallTypes'
  <2>1. Head(acks) \in [mr : AllParts, ok : BOOLEAN]  BY <1>5, HeadTail DEF TakeAck, CpTypes
  <2> QED  BY <1>5, <2>1, AckedTypes DEF TakeAck
<1>6. CASE Crash  BY <1>6 DEF Crash, CallTypes, Labels
<1>7. CASE UNCHANGED callVars  BY <1>7 DEF CallTypes
<1> QED
  BY <1>1, <1>2, <1>3, <1>4, <1>5, <1>6, <1>7
  DEF Next, vars, Call, WriteGrant, GrantExpires, PutResp, CpLosesAck, CpAck, ReadReport, PutReport

LEMMA ReportedType ==
    ASSUME NEW rec \in OutboxRecords, NEW n, NEW p \in AllParts, NEW ok \in BOOLEAN
    PROVE  Reported(rec, n, p, ok) \in OutboxRecords
  BY DEF Reported, OutboxRecords

LEMMA AdoptedType ==
    ASSUME NEW rec \in OutboxRecords, NEW p \in AllParts, NEW ok \in BOOLEAN
    PROVE  Adopted(rec, p, ok) \in OutboxRecords
<1>1. [rec EXCEPT !.mrs = {p}] \in OutboxRecords  BY DEF OutboxRecords
<1>2. Reported([rec EXCEPT !.mrs = {p}], 1, p, ok) \in OutboxRecords  BY <1>1, ReportedType
<1> QED  BY <1>2 DEF Adopted, OutboxRecords

LEMMA RecordTypesStep == ASSUME CallTypes, CpTypes, RecordTypes, [Next]_vars PROVE RecordTypes'
<1> USE DEF RecordTypes
<1>1. ASSUME NEW m \in Msgs, Call(m) PROVE RecordTypes'
  <2>1. Stored("refused", {}) \in OutboxRecords  BY DEF Stored, NoRecord, OutboxRecords
  <2>2. pc[m] \in {"sent", "queued", "failed"} => Stored(pc[m], mrs[m]) \in OutboxRecords
    BY DEF Stored, NoRecord, OutboxRecords, CallTypes
  <2> QED
    BY <1>1, <2>1, <2>2 DEF Call, Gate, ReadGrant, Unlink, Rate, Lock, Send, SendResp, TakeAck,
                            AckTimeout, Store, Refuse
<1>2. ASSUME NEW h \in Handlers, ReadReport(h) PROVE RecordTypes'
  <2>1. PICK p \in reports, ok \in BOOLEAN :
          \/ \E m \in Owners(p) :
               doing' = [doing EXCEPT ![h] = {<<m, Reported(outbox[m], NParts[m], p, ok)>>}]
          \/ \E m \in Adopters : doing' = [doing EXCEPT ![h] = {<<m, Adopted(outbox[m], p, ok)>>}]
          \/ UNCHANGED doing
    BY <1>2 DEF ReadReport
  <2>2. p \in AllParts /\ UNCHANGED outbox  BY <1>2 DEF ReadReport, CpTypes
  <2>3. ASSUME NEW m \in Owners(p),
               doing' = [doing EXCEPT ![h] = {<<m, Reported(outbox[m], NParts[m], p, ok)>>}]
        PROVE  RecordTypes'
    <3>1. m \in Msgs /\ Reported(outbox[m], NParts[m], p, ok) \in OutboxRecords
      BY <2>2, ReportedType DEF Owners, OpenRecords
    <3> QED  BY <2>2, <2>3, <3>1
  <2>4. ASSUME NEW m \in Adopters, doing' = [doing EXCEPT ![h] = {<<m, Adopted(outbox[m], p, ok)>>}]
        PROVE  RecordTypes'
    <3>1. m \in Msgs /\ Adopted(outbox[m], p, ok) \in OutboxRecords
      BY <2>2, AdoptedType DEF Adopters, OpenRecords
    <3> QED  BY <2>2, <2>4, <3>1
  <2> QED  BY <2>1, <2>2, <2>3, <2>4
<1>3. ASSUME NEW h \in Handlers, PutReport(h) PROVE RecordTypes'
  <2>1. PICK d \in doing[h] : outbox' = [outbox EXCEPT ![d[1]] = d[2]]  BY <1>3 DEF PutReport
  <2>2. d[1] \in Msgs /\ d[2] \in OutboxRecords  OBVIOUS
  <2> QED  BY <1>3, <2>1, <2>2 DEF PutReport
<1>4. CASE Crash  BY <1>4 DEF Crash
<1>5. CASE UNCHANGED <<outbox, doing>>  BY <1>5
<1> QED
  BY <1>1, <1>2, <1>3, <1>4, <1>5 DEF Next, vars, WriteGrant, GrantExpires, PutResp, CpLosesAck, CpAck

LEMMA TypesBegin == Init => TypeOK
  BY OutboxAssumption
  DEF Init, TypeOK, GateTypes, CallTypes, CpTypes, RecordTypes, NoRecord, OutboxRecords, Labels

LEMMA TypesStep == TypeOK /\ [Next]_vars => TypeOK'
  BY GateTypesStep, CallTypesStep, CpTypesStep, RecordTypesStep DEF TypeOK

\* The daemon's state keeps its types: in particular a call never counts a part its
\* message does not have, whatever acks it takes.
THEOREM TypeCorrect == Spec => []TypeOK
<1> QED  BY TypesBegin, TypesStep, PTL DEF Spec

-----------------------------------------------------------------------------
(* TP-MRs. *)

\* The parts of a message before its k-th.
Before(m, j) == {Part(m, i) : i \in 1 .. j - 1}

\* Who sends holds send_lock.  A message that overtook no ack has the TP-MRs of
\* the parts before the one it sends, and while it waits every ack in the queue,
\* at the CP or with the reader is for that part.
Alone == \A m \in Msgs : pc[m] \in {"send", "ack"} => holder = {m}
Collected ==
    \A m \in Msgs \ overtaken :
        /\ mrs[m] \subseteq PartsOf(m)
        /\ pc[m] \in {"new", "grant", "unlink", "rate", "lock"} => mrs[m] = {}
        /\ pc[m] \in {"send", "ack"} => mrs[m] = Before(m, k[m])
        /\ pc[m] = "sent" => mrs[m] = PartsOf(m)
Awaited ==
    \A m \in Msgs \ overtaken : pc[m] = "ack" =>
        /\ \A i \in 1 .. Len(acks) : acks[i].mr = Part(m, k[m])
        /\ atCP \subseteq {Part(m, k[m])} /\ putting = {}
OwnInv == Alone /\ Collected /\ Awaited

\* The next part, and the last.
LEMMA BeforeFacts ==
    ASSUME NEW m \in Msgs, NEW j \in 1 .. NParts[m]
    PROVE  /\ Before(m, 1) = {} /\ Before(m, j + 1) = Before(m, j) \cup {Part(m, j)}
           /\ Before(m, j) \cup {Part(m, j)} \subseteq PartsOf(m)
           /\ j = NParts[m] => Before(m, j) \cup {Part(m, j)} = PartsOf(m)
<1>1. NParts[m] \in Nat  BY OutboxAssumption
<1>2. 1 .. j = (1 .. j - 1) \cup {j} /\ (j + 1) - 1 = j /\ 1 .. 0 = {} /\ 1 .. j \subseteq 1 .. NParts[m]
  BY <1>1
<1>3. Before(m, 1) = {}  BY <1>2 DEF Before
<1>4. Before(m, j + 1) = {Part(m, i) : i \in 1 .. j}  BY <1>2 DEF Before
<1>5. {Part(m, i) : i \in 1 .. j} = Before(m, j) \cup {Part(m, j)}  BY <1>2 DEF Before
<1> QED  BY <1>2, <1>3, <1>4, <1>5 DEF PartsOf

\* One part's ack: of the call's own part, if the message overtook none.
LEMMA AckedOwn ==
    ASSUME TypeOK, OwnInv, NEW m \in Msgs, pc[m] \in {"send", "ack"}, NEW mr \in AllParts,
           NEW ok \in BOOLEAN, Acked(m, mr, ok),
           overtaken' \in {overtaken, overtaken \cup {m}},
           m \notin overtaken' => mr = Part(m, k[m])
    PROVE  OwnInv'
<1>1. /\ pc'[m] \in {"send", "sent", "failed"} /\ \A n \in Msgs \ {m} : pc'[n] = pc[n]
      /\ pc'[m] = "send" => holder' = holder
      /\ \A n \in Msgs \ {m} : mrs'[n] = mrs[n] /\ k'[n] = k[n]
  BY DEF Acked, Finish, Goto, TypeOK, CallTypes
<1>2. \A n \in Msgs \ {m} : pc[n] \notin {"send", "ack"}  BY DEF OwnInv, Alone
<1>3. Alone'  BY <1>1, <1>2 DEF OwnInv, Alone
<1>4. Awaited'  BY <1>1, <1>2 DEF OwnInv, Awaited
<1>5. ASSUME m \notin overtaken'
      PROVE  /\ mrs'[m] \subseteq PartsOf(m) /\ (pc'[m] = "send" => mrs'[m] = Before(m, k'[m]))
             /\ (pc'[m] = "sent" => mrs'[m] = PartsOf(m))
  <2>1. m \notin overtaken /\ mr = Part(m, k[m])  BY <1>5
  <2>2. mrs[m] = Before(m, k[m]) /\ mrs[m] \subseteq PartsOf(m)  BY <2>1 DEF OwnInv, Collected
  <2>3. /\ k[m] \in 1 .. NParts[m]
        /\ mrs \in [Msgs -> SUBSET AllParts] /\ k \in [Msgs -> Nat] /\ pc \in [Msgs -> Labels]
    BY DEF TypeOK, CallTypes
  <2>4. CASE ~ok
    <3>1. pc'[m] = "failed" /\ mrs' = mrs  BY <2>3, <2>4 DEF Acked, Finish, Goto
    <3> QED  BY <2>2, <3>1
  <2>5. CASE ok /\ k[m] = NParts[m]
    <3>1. pc'[m] = "sent" /\ mrs'[m] = mrs[m] \cup {mr}  BY <2>3, <2>5 DEF Acked, Finish, Goto
    <3> QED  BY <2>1, <2>2, <2>3, <2>5, <3>1, BeforeFacts
  <2>6. CASE ok /\ k[m] # NParts[m]
    <3>1. pc'[m] = "send" /\ mrs'[m] = mrs[m] \cup {mr} /\ k'[m] = k[m] + 1
      BY <2>3, <2>6 DEF Acked, Goto
    <3> QED  BY <2>1, <2>2, <2>3, <3>1, BeforeFacts
  <2> QED  BY <2>4, <2>5, <2>6
<1>6. Collected'
  <2>1. \A n \in Msgs \ {m} : n \in overtaken <=> n \in overtaken'  OBVIOUS
  <2> QED  BY <1>1, <1>5, <2>1 DEF OwnInv, Collected
<1> QED  BY <1>3, <1>4, <1>6 DEF OwnInv

LEMMA OwnStep == ASSUME TypeOK, OwnInv, [Next]_vars PROVE OwnInv'
<1>0. /\ pc \in [Msgs -> Labels] /\ mrs \in [Msgs -> SUBSET AllParts] /\ k \in [Msgs -> Nat]
      /\ \A m \in Msgs : k[m] \in 1 .. NParts[m]
  BY DEF TypeOK, CallTypes
<1>1. ASSUME NEW m \in Msgs, Gate(m) \/ ReadGrant(m) \/ Unlink(m) \/ Rate(m) \/ Store(m) PROVE OwnInv'
  <2>1. /\ pc'[m] \in {"grant", "unlink", "rate", "lock", "done"} /\ \A n \in Msgs \ {m} : pc'[n] = pc[n]
        /\ pc'[m] # "done" => pc[m] \in {"new", "grant", "unlink", "rate", "lock"}
        /\ UNCHANGED <<holder, acks, mrs, k, atCP, putting, overtaken>>
    BY <1>0, <1>1 DEF Gate, ReadGrant, Unlink, Rate, Store, Goto, Refuse
  <2>2. Alone'  BY <2>1 DEF OwnInv, Alone
  <2>3. Collected'  BY <2>1 DEF OwnInv, Collected
  <2>4. Awaited'  BY <2>1 DEF OwnInv, Awaited
  <2> QED  BY <2>2, <2>3, <2>4 DEF OwnInv
<1>2. ASSUME NEW m \in Msgs, Lock(m) PROVE OwnInv'
  <2>1. /\ holder = {} /\ holder' = {m} /\ pc[m] = "lock" /\ pc'[m] = "send" /\ k'[m] = 1
        /\ \A n \in Msgs \ {m} : pc'[n] = pc[n] /\ k'[n] = k[n]
        /\ UNCHANGED <<acks, mrs, atCP, putting, overtaken>>
    BY <1>0, <1>2 DEF Lock, Goto, Nobody
  <2>2. \A n \in Msgs : pc[n] \notin {"send", "ack"}  BY <2>1 DEF OwnInv, Alone
  <2>3. Before(m, 1) = {}  BY <1>0, BeforeFacts
  <2>4. Alone'  BY <2>1, <2>2 DEF OwnInv, Alone
  <2>5. Collected'  BY <2>1, <2>3 DEF OwnInv, Collected
  <2>6. Awaited'  BY <2>1, <2>2 DEF OwnInv, Awaited
  <2> QED  BY <2>4, <2>5, <2>6 DEF OwnInv
<1>3. ASSUME NEW m \in Msgs, Send(m) PROVE OwnInv'
  <2>1. /\ pc[m] = "send" /\ acks' = << >> /\ \A n \in Msgs \ {m} : pc'[n] = pc[n]
        /\ \/ pc'[m] = "ack" /\ holder' = holder /\ atCP' = atCP \cup {Part(m, k[m])}
           \/ pc'[m] \in {"queued", "failed"}
        /\ UNCHANGED <<mrs, k, putting>>
        /\ overtaken' = IF OnTheWay THEN overtaken \cup {m} ELSE overtaken
    BY <1>0, <1>3 DEF Send, Drains, Drained, Finish, Goto
  <2>2. holder = {m} /\ \A n \in Msgs \ {m} : pc[n] \notin {"send", "ack"}
    BY <2>1 DEF OwnInv, Alone
  <2>3. m \notin overtaken' => atCP = {} /\ putting = {} /\ m \notin overtaken
    BY <2>1 DEF OnTheWay
  <2>4. Alone'  BY <2>1, <2>2 DEF OwnInv, Alone
  <2>5. Collected'  BY <2>1, <2>3 DEF OwnInv, Collected
  <2>6. Awaited'
    <3>1. 1 .. Len(acks') = {}  BY <2>1
    <3> QED  BY <2>1, <2>2, <2>3, <3>1 DEF OwnInv, Awaited
  <2> QED  BY <2>4, <2>5, <2>6 DEF OwnInv
<1>4. ASSUME NEW m \in Msgs, NEW ok \in BOOLEAN, SendResp(m, ok) PROVE OwnInv'
  <2>1. Part(m, k[m]) \in AllParts  BY <1>0, PartType
  <2>2. pc[m] = "send" /\ overtaken' \in {overtaken, overtaken \cup {m}} /\ Acked(m, Part(m, k[m]), ok)
    BY <1>4 DEF SendResp, Drains
  <2> QED  BY <2>1, <2>2, AckedOwn
<1>5. ASSUME NEW m \in Msgs, TakeAck(m) PROVE OwnInv'
  <2>1. Head(acks) = acks[1] /\ 1 \in 1 .. Len(acks) /\ Head(acks) \in [mr : AllParts, ok : BOOLEAN]
    BY <1>5, HeadTail DEF TakeAck, TypeOK, CpTypes
  <2>2. /\ pc[m] = "ack" /\ overtaken' = overtaken /\ Acked(m, Head(acks).mr, Head(acks).ok)
        /\ Head(acks).mr \in AllParts /\ Head(acks).ok \in BOOLEAN
    BY <1>5, <2>1 DEF TakeAck
  <2>3. m \notin overtaken => Head(acks).mr = Part(m, k[m])
    BY <2>1, <2>2 DEF OwnInv, Awaited
  <2> QED  BY <2>2, <2>3, AckedOwn
<1>6. ASSUME NEW m \in Msgs, AckTimeout(m) PROVE OwnInv'
  <2>1. /\ pc'[m] = "queued" /\ pc[m] = "ack" /\ UNCHANGED <<acks, mrs, k, atCP, putting, overtaken>>
        /\ \A n \in Msgs \ {m} : pc'[n] = pc[n]
    BY <1>0, <1>6 DEF AckTimeout, Finish, Goto
  <2>2. \A n \in Msgs \ {m} : pc[n] \notin {"send", "ack"}  BY <2>1 DEF OwnInv, Alone
  <2>3. Alone' /\ Awaited'  BY <2>1, <2>2 DEF OwnInv, Alone, Awaited
  <2>4. Collected'  BY <2>1 DEF OwnInv, Collected
  <2> QED  BY <2>3, <2>4 DEF OwnInv
<1>7. ASSUME NEW p \in AllParts, NEW ok \in BOOLEAN, CpAck(p, ok) PROVE OwnInv'
  <2>1. /\ p \in atCP /\ atCP' = atCP \ {p} /\ acks' = Append(acks, [mr |-> p, ok |-> ok])
        /\ acks \in Seq([mr : AllParts, ok : BOOLEAN])
        /\ UNCHANGED <<pc, holder, mrs, k, putting, overtaken>>
    BY <1>7 DEF CpAck, TypeOK, CpTypes
  <2>2. Alone' /\ Collected'  BY <2>1 DEF OwnInv, Alone, Collected
  <2>3. Awaited'
    <3> SUFFICES ASSUME NEW m \in Msgs \ overtaken, pc[m] = "ack"
                 PROVE  /\ \A i \in 1 .. Len(acks') : acks'[i].mr = Part(m, k[m])
                        /\ atCP' \subseteq {Part(m, k[m])} /\ putting' = {}
      BY <2>1 DEF Awaited
    <3>1. /\ \A i \in 1 .. Len(acks) : acks[i].mr = Part(m, k[m])
          /\ atCP \subseteq {Part(m, k[m])} /\ putting = {}
      BY DEF OwnInv, Awaited
    <3>2. p = Part(m, k[m])  BY <2>1, <3>1
    <3> QED  BY <2>1, <3>1, <3>2
  <2> QED  BY <2>2, <2>3 DEF OwnInv
<1>8. ASSUME NEW p \in AllParts, CpLosesAck(p) PROVE OwnInv'
  <2>1. atCP' \subseteq atCP /\ UNCHANGED <<pc, holder, mrs, k, acks, putting, overtaken>>
    BY <1>8 DEF CpLosesAck
  <2>2. Alone' /\ Collected'  BY <2>1 DEF OwnInv, Alone, Collected
  <2>3. Awaited'  BY <2>1 DEF OwnInv, Awaited
  <2> QED  BY <2>2, <2>3 DEF OwnInv
<1>9. CASE PutResp
  <2>1. putting # {} /\ putting' = {} /\ UNCHANGED <<pc, holder, mrs, k, atCP, overtaken>>
    BY <1>9 DEF PutResp
  <2>2. Alone' /\ Collected'  BY <2>1 DEF OwnInv, Alone, Collected
  <2>3. Awaited'  BY <2>1 DEF OwnInv, Awaited
  <2> QED  BY <2>2, <2>3 DEF OwnInv
<1>10. CASE Crash
  <2>1. /\ \A m \in Msgs : pc'[m] \in {"new", "done"} /\ (pc'[m] = "new" => pc[m] = "new")
        /\ UNCHANGED <<mrs, k, overtaken>>
    BY <1>10 DEF Crash
  <2>2. Alone' /\ Awaited'  BY <2>1 DEF Alone, Awaited
  <2>3. Collected'  BY <2>1 DEF OwnInv, Collected
  <2> QED  BY <2>2, <2>3 DEF OwnInv
<1>11. CASE UNCHANGED <<pc, holder, mrs, k, acks, atCP, putting, overtaken>>
  BY <1>11 DEF OwnInv, Alone, Collected, Awaited
<1> QED
  BY <1>1, <1>2, <1>3, <1>4, <1>5, <1>6, <1>7, <1>8, <1>9, <1>10, <1>11
  DEF Next, vars, Call, WriteGrant, GrantExpires, ReadReport, PutReport

\* _send_parts: "drop stale acks (e.g. RESP seen twice)".  With acks as late as they like
\* and every RESP seen twice, a message takes another's ack only when that ack was
\* still on its way at one of the message's own drains; otherwise it collects exactly
\* its own parts, for any calls, parts and restarts.
THEOREM OwnAcks == Spec => []AcksAreOwn
<1>1. Init => OwnInv  BY DEF Init, OwnInv, Alone, Collected, Awaited, PartsOf
<1>2. TypeOK /\ OwnInv /\ [Next]_vars => OwnInv'  BY OwnStep
<1>3. OwnInv => AcksAreOwn  BY DEF OwnInv, Collected, AcksAreOwn
<1> QED  BY <1>1, <1>2, <1>3, TypesBegin, TypesStep, PTL DEF Spec
=============================================================================
