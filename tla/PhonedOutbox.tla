---------------------------- MODULE PhonedOutbox ----------------------------
(***************************************************************************)
(* Outgoing SMS of s22-phoned (tools/hardware/phoned/s22-phoned.py):       *)
(* send_sms on the HTTP threads, its gates and rate limit, _send_parts     *)
(* under send_lock, the CP's asynchronous send acks, status reports and    *)
(* the outbox.  All of it happens within one hour, the rate's window.      *)
(*                                                                         *)
(* Every call of send_sms is a message of its own; part k of message m is  *)
(* <<m, k>>, which also stands for the TP-MR the network gives it.         *)
(***************************************************************************)
EXTENDS Naturals, Sequences, FiniteSets

CONSTANTS
    Msgs,        \* calls of send_sms, all to the same recipient
    NParts,      \* the number of parts of a message
    Limit,       \* SMS per hour
    Handlers,    \* threads that apply status reports: reader, sweeping worker
    MaxGrants,   \* bound: grants s22d writes
    MaxCrashes,  \* bound: restarts
    MaxReports   \* bound: status reports

ASSUME OutboxAssumption ==
    /\ IsFiniteSet(Msgs) /\ NParts \in [Msgs -> Nat \ {0}]
    /\ Limit \in Nat /\ MaxGrants \in Nat /\ MaxCrashes \in Nat /\ MaxReports \in Nat

Part(m, k) == <<m, k>>
PartsOf(m) == {Part(m, k) : k \in 1 .. NParts[m]}
AllParts == UNION {PartsOf(m) : m \in Msgs}
Nobody == {}

VARIABLES
    pc,        \* where each call is
    k,         \* the part it sends
    mrs,       \* rec["mrs"] of the call
    grant,     \* the file grants/<n>.sms: "none", "fresh" or "expired"
    seen,      \* the grant a call has read
    granted,   \* history: fresh grants written
    used,      \* history: calls let through by a grant
    stamps,    \* the rate limiter's stamps
    holder,    \* who holds send_lock: {} or one call
    atCP,      \* parts the CP accepted and has not acked
    sent,      \* history: parts the CP was given
    putting,   \* the RESP the reader woke its waiter for and has yet to put
    acks,      \* send_acks
    overtaken, \* history: messages that drained while an older ack was on its way
    outbox,    \* the outbox: memory and file
    reports,   \* status reports of accepted parts, on their way
    reported,  \* status reports so far, for the bound
    doing,     \* the report a handler is applying and the record it read
    crashes

gateVars == <<grant, seen, granted, used>>
cpVars == <<atCP, sent, putting, acks, overtaken, reports, reported>>
callVars == <<pc, k, mrs, holder>>
records == <<outbox, doing>>
vars == <<gateVars, cpVars, callVars, stamps, records, crashes>>

NoRecord == [status |-> "none", mrs |-> {}, good |-> {}, bad |-> {}, delivered |-> "unknown"]
Stored(status, ids) == [NoRecord EXCEPT !.status = status, !.mrs = ids]

Goto(m, l) == pc' = [pc EXCEPT ![m] = l]

-----------------------------------------------------------------------------
(* Gates: gate(), take_grant() and the rate limit. *)

\* s22d's confirm writes a grant, over an older one if there is one.
WriteGrant ==
    /\ granted < MaxGrants /\ granted' = granted + 1
    /\ grant' = "fresh"
    /\ UNCHANGED <<seen, used, cpVars, callVars, stamps, records, crashes>>

GrantExpires ==
    /\ grant = "fresh" /\ grant' = "expired"
    /\ UNCHANGED <<seen, granted, used, cpVars, callVars, stamps, records, crashes>>

Refuse(m) ==
    /\ outbox' = [outbox EXCEPT ![m] = Stored("refused", {})]
    /\ Goto(m, "done")

\* Not an emergency number, tx_enabled present; in the allowlist or not.
Gate(m) ==
    /\ pc[m] = "new"
    /\ \/ Refuse(m)
       \/ Goto(m, "rate") /\ UNCHANGED outbox
       \/ Goto(m, "grant") /\ UNCHANGED outbox
    /\ UNCHANGED <<gateVars, cpVars, k, mrs, holder, stamps, doing, crashes>>

\* take_grant: read_text
ReadGrant(m) ==
    /\ pc[m] = "grant"
    /\ IF grant = "none" THEN Refuse(m) /\ UNCHANGED seen
       ELSE seen' = [seen EXCEPT ![m] = grant] /\ Goto(m, "unlink") /\ UNCHANGED outbox
    /\ UNCHANGED <<grant, granted, used, cpVars, k, mrs, holder, stamps, doing, crashes>>

\* take_grant: unlink, which fails when another call was faster; then the expiry.
\* The grant in the file is the one read or a newer one, which expires later.
MutTakesGrant(m) == seen[m] = "fresh"
TakesGrant(m) == grant = "fresh" /\ seen[m] = "fresh"

Unlink(m) ==
    /\ pc[m] = "unlink"
    /\ grant' = "none" /\ seen' = [seen EXCEPT ![m] = "none"]
    /\ \/ TakesGrant(m) /\ Goto(m, "rate") /\ used' = used \cup {m} /\ UNCHANGED outbox
       \/ Refuse(m) /\ UNCHANGED used     \* the grant read may have expired meanwhile
    /\ UNCHANGED <<granted, cpVars, k, mrs, holder, stamps, doing, crashes>>

\* The modem and SIM checks refuse too; RateLimit.take is the last check.
MutWithin == stamps <= Limit
Within == stamps < Limit

Rate(m) ==
    /\ pc[m] = "rate"
    /\ \/ Refuse(m) /\ UNCHANGED stamps
       \/ Within /\ stamps' = stamps + 1 /\ Goto(m, "lock") /\ UNCHANGED outbox
    /\ UNCHANGED <<gateVars, cpVars, k, mrs, holder, doing, crashes>>

-----------------------------------------------------------------------------
(* _send_parts *)

Lock(m) ==
    /\ pc[m] = "lock" /\ holder = Nobody
    /\ holder' = {m} /\ k' = [k EXCEPT ![m] = 1] /\ Goto(m, "send")
    /\ UNCHANGED <<gateVars, cpVars, mrs, stamps, records, crashes>>

\* The end of _send_parts: the lock is released, then the record is stored.
Finish(m, status) ==
    /\ holder' = holder \ {m}
    /\ Goto(m, status)

\* The part's ack: its TP-MR is noted and the next part follows.
Acked(m, mr, ok) ==
    IF ~ok THEN Finish(m, "failed") /\ UNCHANGED <<k, mrs>>
    ELSE /\ mrs' = [mrs EXCEPT ![m] = @ \cup {mr}]
         /\ IF k[m] = NParts[m] THEN Finish(m, "sent") /\ UNCHANGED k
            ELSE k' = [k EXCEPT ![m] = @ + 1] /\ Goto(m, "send") /\ UNCHANGED holder

MutDrained == acks
Drained == <<>>

\* Acks that no drain can drop: the CP may still give them, or the reader
\* has still to put them.
OnTheWay == atCP # {} \/ putting # {}
Drains(m) ==
    /\ pc[m] = "send"
    /\ overtaken' = IF OnTheWay THEN overtaken \cup {m} ELSE overtaken

\* Stale acks are dropped, then the part is requested.  No answer leaves the
\* message queued, whether the CP took the part or not; a refusal fails it, and so
\* does a lost link before the first part.
Send(m) ==
    /\ Drains(m) /\ acks' = Drained
    /\ LET p == Part(m, k[m])
           given == atCP' = atCP \cup {p} /\ sent' = sent \cup {p}
       IN  \/ given /\ Goto(m, "ack") /\ UNCHANGED holder
           \/ given /\ Finish(m, "queued")
           \/ UNCHANGED <<atCP, sent>> /\ Finish(m, "queued")
           \/ UNCHANGED <<atCP, sent>> /\ Finish(m, "failed")
    /\ UNCHANGED <<gateVars, k, mrs, putting, reports, reported, stamps, records, crashes>>

\* The network took the part; its status report may or may not come.
MayReport(p) ==
    \/ UNCHANGED <<reports, reported>>
    \/ reported < MaxReports /\ reported' = reported + 1 /\ reports' = reports \cup {p}

\* An older CP answers the request itself with a RESP: _dispatch hands it to the
\* waiter, which goes on, and only then does on_frame put it into send_acks too.
SendResp(m, ok) ==
    /\ putting = {} /\ Drains(m) /\ acks' = Drained
    /\ LET p == Part(m, k[m])
       IN  /\ putting' = {[mr |-> p, ok |-> ok]}
           /\ sent' = sent \cup {p}
           /\ IF ok THEN MayReport(p) ELSE UNCHANGED <<reports, reported>>
           /\ Acked(m, p, ok)
    /\ UNCHANGED <<gateVars, atCP, stamps, records, crashes>>

\* on_frame: the reader puts the RESP its waiter has already had.
PutResp ==
    /\ \E a \in putting : acks' = Append(acks, a)
    /\ putting' = {}
    /\ UNCHANGED <<gateVars, callVars, atCP, sent, overtaken, reports, reported, stamps, records, crashes>>

\* The network's answer to a part, early or late: an ack with its TP-MR, good or
\* not, put by the reader, which takes one frame at a time.
CpAck(p, ok) ==
    /\ p \in atCP /\ putting = {}
    /\ atCP' = atCP \ {p}
    /\ acks' = Append(acks, [mr |-> p, ok |-> ok])
    /\ IF ok THEN MayReport(p) ELSE UNCHANGED <<reports, reported>>
    /\ UNCHANGED <<gateVars, callVars, sent, putting, overtaken, stamps, records, crashes>>

\* An ack that never comes.
CpLosesAck(p) ==
    /\ p \in atCP /\ atCP' = atCP \ {p}
    /\ MayReport(p)
    /\ UNCHANGED <<gateVars, callVars, sent, putting, acks, overtaken, stamps, records, crashes>>

\* send_acks.get: whatever ack is in the queue.
TakeAck(m) ==
    /\ pc[m] = "ack" /\ acks # <<>>
    /\ acks' = Tail(acks)
    /\ Acked(m, Head(acks).mr, Head(acks).ok)
    /\ UNCHANGED <<gateVars, atCP, sent, putting, overtaken, reports, reported, stamps, records, crashes>>

AckTimeout(m) ==
    /\ pc[m] = "ack" /\ acks = <<>> /\ Finish(m, "queued")
    /\ UNCHANGED <<gateVars, cpVars, k, mrs, stamps, records, crashes>>

\* The end of send_sms: the record goes into the outbox.
Store(m) ==
    /\ pc[m] \in {"sent", "queued", "failed"}
    /\ outbox' = [outbox EXCEPT ![m] = Stored(pc[m], mrs[m])]
    /\ Goto(m, "done")
    /\ UNCHANGED <<gateVars, cpVars, k, mrs, holder, stamps, doing, crashes>>

-----------------------------------------------------------------------------
(* _on_status_report: find the record, change a copy, put it back. *)

OpenRecords == {m \in Msgs : outbox[m].status \in {"sent", "queued"}}
Owners(p) == {m \in OpenRecords : p \in outbox[m].mrs}
Adopters == {m \in OpenRecords : /\ outbox[m].mrs = {} /\ NParts[m] = 1
                                 /\ outbox[m].delivered = "unknown"}

\* The record with one more report.
Reported(rec, n, p, ok) ==
    LET good == IF ok THEN rec.good \cup {p} ELSE rec.good \ {p}
        bad == IF ok THEN rec.bad \ {p} ELSE rec.bad \cup {p}
    IN  [rec EXCEPT !.good = good, !.bad = bad,
                    !.delivered = IF rec.mrs \cap bad # {} THEN "no"
                                  ELSE IF Cardinality(rec.mrs) = n /\ rec.mrs \subseteq good THEN "yes"
                                  ELSE @]

\* A record without a TP-MR takes the report of a part nobody owns.
Adopted(rec, p, ok) ==
    [Reported([rec EXCEPT !.mrs = {p}], 1, p, ok) EXCEPT !.status = "sent"]

ReadReport(h) ==
    /\ doing[h] = {}
    /\ \E p \in reports, ok \in BOOLEAN :
         /\ reports' = reports \ {p}
         /\ \/ \E m \in Owners(p) :
                 doing' = [doing EXCEPT ![h] = {<<m, Reported(outbox[m], NParts[m], p, ok)>>}]
            \/ /\ Owners(p) = {}
               /\ \E m \in Adopters : doing' = [doing EXCEPT ![h] = {<<m, Adopted(outbox[m], p, ok)>>}]
            \/ Owners(p) = {} /\ Adopters = {} /\ UNCHANGED doing
    /\ UNCHANGED <<gateVars, callVars, atCP, sent, putting, acks, overtaken, reported, stamps, outbox, crashes>>

PutReport(h) ==
    /\ \E d \in doing[h] : outbox' = [outbox EXCEPT ![d[1]] = d[2]]
    /\ doing' = [doing EXCEPT ![h] = {}]
    /\ UNCHANGED <<gateVars, callVars, cpVars, stamps, crashes>>

-----------------------------------------------------------------------------
\* Restart: calls in progress are gone, the rate is rebuilt from the outbox.
Reloaded == Cardinality(OpenRecords)
LoadedStamps == IF Reloaded > Limit THEN Limit ELSE Reloaded

Crash ==
    /\ crashes < MaxCrashes /\ crashes' = crashes + 1
    /\ pc' = [m \in Msgs |-> IF pc[m] = "new" THEN "new" ELSE "done"]
    /\ holder' = Nobody /\ putting' = {} /\ acks' = <<>> /\ doing' = [h \in Handlers |-> {}]
    /\ stamps' = LoadedStamps
    /\ seen' = [m \in Msgs |-> "none"]
    /\ UNCHANGED <<grant, granted, used, k, mrs, atCP, sent, overtaken, reports, outbox, reported>>

Init ==
    /\ pc = [m \in Msgs |-> "new"] /\ k = [m \in Msgs |-> 1] /\ mrs = [m \in Msgs |-> {}]
    /\ grant = "none" /\ seen = [m \in Msgs |-> "none"] /\ granted = 0 /\ used = {}
    /\ stamps = 0 /\ holder = Nobody
    /\ atCP = {} /\ sent = {} /\ putting = {} /\ acks = <<>> /\ overtaken = {} /\ reports = {}
    /\ outbox = [m \in Msgs |-> NoRecord] /\ doing = [h \in Handlers |-> {}]
    /\ reported = 0 /\ crashes = 0

Call(m) ==
    \/ Gate(m) \/ ReadGrant(m) \/ Unlink(m) \/ Rate(m)
    \/ Lock(m) \/ Send(m) \/ (\E ok \in BOOLEAN : SendResp(m, ok)) \/ TakeAck(m) \/ AckTimeout(m) \/ Store(m)

Next ==
    \/ WriteGrant \/ GrantExpires
    \/ \E m \in Msgs : Call(m)
    \/ PutResp \/ \E p \in AllParts : CpLosesAck(p) \/ \E ok \in BOOLEAN : CpAck(p, ok)
    \/ \E h \in Handlers : ReadReport(h) \/ PutReport(h)
    \/ Crash

Spec == Init /\ [][Next]_vars

-----------------------------------------------------------------------------
(* What sending promises. *)

OutboxRecords ==
    [status : {"none", "refused", "sent", "queued", "failed"}, mrs : SUBSET AllParts,
     good : SUBSET AllParts, bad : SUBSET AllParts, delivered : {"unknown", "yes", "no"}]
Labels == {"new", "grant", "unlink", "rate", "lock", "send", "ack", "sent", "queued", "failed", "done"}

GateTypes ==
    /\ grant \in {"none", "fresh", "expired"} /\ seen \in [Msgs -> {"none", "fresh", "expired"}]
    /\ granted \in 0 .. MaxGrants /\ used \subseteq Msgs /\ stamps \in Nat /\ crashes \in 0 .. MaxCrashes
CallTypes ==
    /\ pc \in [Msgs -> Labels] /\ mrs \in [Msgs -> SUBSET AllParts]
    /\ k \in [Msgs -> Nat] /\ \A m \in Msgs : k[m] \in 1 .. NParts[m]
    /\ holder \in {Nobody} \cup {{m} : m \in Msgs}
CpTypes ==
    /\ atCP \subseteq AllParts /\ sent \subseteq AllParts /\ reports \subseteq AllParts
    /\ acks \in Seq([mr : AllParts, ok : BOOLEAN]) /\ putting \subseteq [mr : AllParts, ok : BOOLEAN]
    /\ overtaken \subseteq Msgs /\ reported \in 0 .. MaxReports
RecordTypes ==
    /\ outbox \in [Msgs -> OutboxRecords]
    /\ doing \in [Handlers -> SUBSET (Msgs \X OutboxRecords)]
TypeOK == GateTypes /\ CallTypes /\ CpTypes /\ RecordTypes

\* take_grant: "Consume s22d's one-shot grant".  However the calls interleave
\* with one another and with new grants, no grant lets two calls through.
OneCallPerGrant == Cardinality(used) <= granted

\* Messages handed to the CP within the hour.
SentMsgs == {m \in Msgs : sent \cap PartsOf(m) # {}}

\* README: "Rate limits: 10 SMS ... per hour".  No more messages than the limit reach
\* the CP in an hour of one run of the daemon, however its threads interleave (a
\* restart rebuilds the window from the outbox, which lacks what was being sent).
WithinLimit == crashes = 0 => Cardinality(SentMsgs) <= Limit

\* _send_parts: "drop stale acks (e.g. RESP seen twice)".  A message takes no other
\* ack than those of its own parts, and is sent only when it has all of them, unless
\* an older ack was still on its way when it drained the queue: that one is taken
\* for its own, and the status reports of another message decide about it.
AcksAreOwn ==
    \A m \in Msgs \ overtaken :
        mrs[m] \subseteq PartsOf(m) /\ (pc[m] = "sent" => mrs[m] = PartsOf(m))
=============================================================================
