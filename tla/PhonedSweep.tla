---------------------------- MODULE PhonedSweep -----------------------------
(***************************************************************************)
(* Incoming SMS of s22-phoned (tools/hardware/phoned/s22-phoned.py).  The  *)
(* reader thread takes PDUs as the CP announces them, reassembles them and *)
(* stores messages in the inbox; the worker acknowledges them and sweeps   *)
(* the SIM's slots into the same inbox, deleting what it stored.           *)
(*                                                                         *)
(* A PDU is a part; MsgOf gives the message it belongs to (sender, concat  *)
(* reference and total: assumed not to be reused while parts are unread).  *)
(* An inbox record keeps the parts its text was made of and the part its   *)
(* time stamp (scts) was taken from.                                       *)
(***************************************************************************)
EXTENDS Naturals, Sequences, FiniteSets

CONSTANTS
    Parts,        \* PDUs the network has for this phone
    Msgs,         \* messages
    MsgOf,        \* the message of a part
    No,           \* the number of a part within its message
    Reports,      \* parts that are status reports
    Empty,        \* an unused slot
    NSlots,       \* slots on the SIM
    MaxDeliver,   \* bound: times the network delivers the same part
    MaxLate,      \* bound: slot-read answers still on the way after a timeout
    MaxFails,     \* bound: failed inbox writes
    MaxFaults     \* bound: crashes and lost links

ASSUME SweepAssumption ==
    /\ MsgOf \in [Parts -> Msgs] /\ No \in [Parts -> Nat \ {0}]
    /\ \A p \in Parts : \E q \in Parts : MsgOf[q] = MsgOf[p] /\ No[q] = 1
    /\ \A p, q \in Parts : MsgOf[p] = MsgOf[q] /\ No[p] = No[q] => p = q
    /\ Reports \subseteq Parts /\ Empty \notin Parts
    /\ \A p \in Reports, q \in Parts : MsgOf[p] = MsgOf[q] => p = q
    /\ NSlots \in Nat /\ MaxDeliver \in Nat /\ MaxLate \in Nat
    /\ MaxFails \in Nat /\ MaxFaults \in Nat

Slots == 0 .. NSlots - 1
PartsOf(m) == {p \in Parts : MsgOf[p] = m}
Concat(p) == PartsOf(MsgOf[p]) # {p}
Lowest(S) == {i \in S : \A j \in S : i <= j}
NoSlots == [i \in Slots |-> Empty]

VARIABLES
    sim,       \* the SIM's slots
    got,       \* how often the network delivered each part
    acked,     \* parts the network knows to be taken
    items,     \* the inbox in memory (JsonlStore.items)
    disk,      \* the inbox file
    partials,  \* parts waiting for the rest of their message
    first,     \* the part of each message that came first
    old,       \* records of expired entries, still to be stored by the worker
    rd,        \* the record the reader thread is about to store: {} or one
    copied,    \* ... and whether the CP kept that PDU on the SIM too
    ackq,      \* deferred: parts to acknowledge
    due,       \* deferred: sweeps
    w,         \* where the worker is in sweep_sim
    idx,       \* the slot it reads next
    found,     \* slots read and not handled yet
    unit,      \* slots whose message is being stored or deleted
    late,      \* answers to slot reads that timed out, in order
    gone,      \* history: parts deleted from the SIM
    fails, faults

simVars == <<sim, got, acked, gone>>
inboxVars == <<items, disk, fails>>
readerVars == <<partials, first, old, rd, copied>>
sweepVars == <<w, idx, found, unit, late>>
vars == <<simVars, inboxVars, readerVars, ackq, due, sweepVars, faults>>

-----------------------------------------------------------------------------
(* The inbox. *)

Record(parts, scts, by) == [parts |-> parts, scts |-> scts, by |-> by]

\* _inbox_has: same sender, text and scts.
MutInboxHas(r) == FALSE
InboxHas(r) == \E q \in DOMAIN items : items[q].parts = r.parts /\ items[q].scts = r.scts

\* JsonlStore.put: the record is in memory before the file is opened.
PutOk(r) ==
    /\ items' = Append(items, r) /\ disk' = Append(disk, r)
    /\ UNCHANGED fails

PutFails(r) ==
    /\ fails < MaxFails /\ fails' = fails + 1
    /\ items' = Append(items, r)
    /\ UNCHANGED disk

-----------------------------------------------------------------------------
(* The network and the CP. *)

Undelivered(p) == got[p] < MaxDeliver /\ p \notin acked
FreeSlots == {i \in Slots : sim[i] = Empty}

\* The CP keeps a PDU on the SIM without telling the daemon.
StoreOnSim(p) ==
    /\ Undelivered(p)
    /\ \E i \in FreeSlots : sim' = [sim EXCEPT ![i] = p]
    /\ got' = [got EXCEPT ![p] = @ + 1]
    /\ UNCHANGED <<acked, gone, inboxVars, readerVars, ackq, due, sweepVars, faults>>

-----------------------------------------------------------------------------
(* The reader thread: _on_sms_incoming and _on_deliver. *)

Waiting(m) == partials \cap PartsOf(m)

\* A part joins its message's entry; the entry is stored when it is complete,
\* with the first part's time stamp.
OnDeliver(p) ==
    LET m == MsgOf[p]
        entry == Waiting(m) \cup {p}
        opener == IF Waiting(m) = {} THEN p ELSE first[m]
    IN  /\ first' = [first EXCEPT ![m] = opener]
        /\ IF entry = PartsOf(m)
           THEN partials' = partials \ entry /\ rd' = {Record(entry, opener, "live")}
           ELSE partials' = partials \cup entry /\ rd' = {}

\* The ack is deferred first.  A message the CP also keeps on the SIM defers a
\* sweep, after it was stored.
Incoming(p, copy) ==
    /\ rd = {} /\ Undelivered(p)
    /\ got' = [got EXCEPT ![p] = @ + 1]
    /\ IF copy THEN \E i \in FreeSlots : sim' = [sim EXCEPT ![i] = p] ELSE UNCHANGED sim
    /\ ackq' = ackq \cup {p}
    /\ IF p \in Reports THEN UNCHANGED <<partials, first, rd>> ELSE OnDeliver(p)
    /\ UNCHANGED old
    /\ copied' = (copy /\ rd' # {})
    /\ due' = IF copy /\ rd' = {} /\ p \notin Reports THEN due + 1 ELSE due
    /\ UNCHANGED <<acked, gone, inboxVars, sweepVars, faults>>

\* A failed write ends the handler: no sweep is deferred.
ReaderStores ==
    /\ rd # {} /\ rd' = {} /\ copied' = FALSE
    /\ \E r \in rd : \/ PutOk(r) /\ due' = IF copied THEN due + 1 ELSE due
                     \/ PutFails(r) /\ UNCHANGED due
    /\ UNCHANGED <<simVars, partials, first, old, ackq, sweepVars, faults>>

-----------------------------------------------------------------------------
(* The worker between sweeps. *)

\* _ack_sms; the answer, or the request, may get lost.
Ack(p) ==
    /\ w = "idle" /\ p \in ackq
    /\ ackq' = ackq \ {p}
    /\ acked' \in {acked, acked \cup {p}}
    /\ UNCHANGED <<sim, got, gone, inboxVars, readerVars, due, sweepVars, faults>>

\* expire_partials: entries too old are taken out together and stored one by
\* one with what they have; a failed write loses the ones after it.
Expired(m) == Record(Waiting(m), first[m], "expired")

MutExpire(M) ==
    /\ w = "idle" /\ M # {} /\ \A m \in M : Waiting(m) # {}
    /\ partials' = {p \in partials : MsgOf[p] \notin M}
    /\ w' = "expire"
    /\ UNCHANGED <<simVars, inboxVars, first, old, rd, copied, ackq, due, idx, found, unit, late, faults>>
Expire(M) ==
    /\ w = "idle" /\ M # {} /\ \A m \in M : Waiting(m) # {}
    /\ partials' = {p \in partials : MsgOf[p] \notin M}
    /\ old' = {Expired(m) : m \in M} /\ w' = "expire"
    /\ UNCHANGED <<simVars, inboxVars, first, rd, copied, ackq, due, idx, found, unit, late, faults>>

ExpireStores ==
    /\ w = "expire"
    /\ \/ old = {} /\ UNCHANGED <<inboxVars, old>>
       \/ \E r \in old : \/ PutOk(r) /\ old' = old \ {r}
                         \/ PutFails(r) /\ old' = {}
    /\ w' = IF old' = {} THEN "idle" ELSE "expire"
    /\ UNCHANGED <<simVars, partials, first, rd, copied, ackq, due, idx, found, unit, late, faults>>

-----------------------------------------------------------------------------
(* The worker in sweep_sim. *)

\* The number of slots is asked first; without an answer the sweep is over.
StartSweep ==
    /\ w = "idle" /\ due > 0 /\ due' = due - 1
    /\ w' \in {"idle", "read"} /\ idx' = 0 /\ found' = NoSlots
    /\ UNCHANGED <<simVars, inboxVars, readerVars, ackq, unit, late, faults>>

\* _read_slot through Link.request: the CP answers in order or not at all, and
\* the first RESP to arrive before the timeout is taken, the late answer to an
\* earlier read included.  The slot is the one asked for, not the RESP's.
ReadSlot ==
    /\ w = "read" /\ idx < NSlots
    /\ \E coming \in {late, Append(late, sim[idx])} :
         \/ late' = coming /\ UNCHANGED found
         \/ /\ coming # <<>> /\ late' = Tail(coming)
            /\ found' = [found EXCEPT ![idx] = Head(coming)]
    /\ Len(late') <= MaxLate
    /\ idx' = idx + 1
    /\ UNCHANGED <<simVars, inboxVars, readerVars, ackq, due, w, unit, faults>>

\* A late answer that finds no reader waiting is dropped.
LateFrame ==
    /\ late # <<>> /\ late' = Tail(late)
    /\ UNCHANGED <<simVars, inboxVars, readerVars, ackq, due, w, idx, found, unit, faults>>

AllRead ==
    /\ w = "read" /\ idx = NSlots /\ w' = "unit"
    /\ UNCHANGED <<simVars, inboxVars, readerVars, ackq, due, idx, found, unit, late, faults>>

\* Messages of several parts come first, then the rest in slot order.
Todo == {i \in Slots : found[i] # Empty}
ConcatTodo == {i \in Todo : Concat(found[i])}
Units ==
    IF ConcatTodo = {} THEN {{i} : i \in Lowest(Todo)}
    ELSE {{j \in ConcatTodo : MsgOf[found[j]] = MsgOf[found[i]]} : i \in Lowest(ConcatTodo)}
UnitParts(U) == {found[i] : i \in U}
First(P) == CHOOSE p \in P : \A q \in P : No[p] <= No[q]
UnitRecord(U) == Record(UnitParts(U), First(UnitParts(U)), "sweep")

MutComplete(U) == TRUE
Complete(U) == \A i \in U : UnitParts(U) = PartsOf(MsgOf[found[i]])

\* Incomplete messages stay on the SIM.  A status report is applied to the
\* outbox (not modelled here) and deleted; a message already in the inbox too.
TakeUnit ==
    /\ w = "unit"
    /\ \E U \in Units :
         LET handled == [i \in Slots |-> IF i \in U THEN Empty ELSE found[i]]
             stored == UnitParts(U) \subseteq Reports \/ InboxHas(UnitRecord(U))
         IN  \/ ~Complete(U) /\ found' = handled /\ UNCHANGED <<w, unit>>
             \/ Complete(U) /\ stored /\ w' = "delete" /\ unit' = U /\ found' = handled
             \/ Complete(U) /\ ~stored /\ w' = "put" /\ unit' = U /\ UNCHANGED found
    /\ UNCHANGED <<simVars, inboxVars, readerVars, ackq, due, idx, late, faults>>

AfterPut ==
    IF disk' # disk THEN w' = "delete" /\ UNCHANGED unit
    ELSE w' = "unit" /\ unit' = {}

\* _sweep_store
SweepStores ==
    /\ w = "put"
    /\ PutOk(UnitRecord(unit)) \/ PutFails(UnitRecord(unit))
    /\ AfterPut
    /\ found' = [i \in Slots |-> IF i \in unit THEN Empty ELSE found[i]]
    /\ UNCHANGED <<simVars, readerVars, ackq, due, idx, late, faults>>

\* _delete_slot: done, or refused, or the request is lost.
Delete ==
    /\ w = "delete" /\ unit # {}
    /\ \E i \in Lowest(unit) :
         /\ unit' = unit \ {i}
         /\ \/ UNCHANGED <<sim, gone>>
            \/ /\ sim' = [sim EXCEPT ![i] = Empty]
               /\ gone' = gone \cup ({sim[i]} \ {Empty})
    /\ w' = IF unit' = {} THEN "unit" ELSE "delete"
    /\ UNCHANGED <<got, acked, inboxVars, readerVars, ackq, due, idx, found, late, faults>>

SweepEnds ==
    /\ w = "unit" /\ Todo = {} /\ w' = "idle"
    /\ UNCHANGED <<simVars, inboxVars, readerVars, ackq, due, idx, found, unit, late, faults>>

\* LinkDown out of a request: the sweep is abandoned; when the link is back
\* startup and poll run sms_device_ready, which sweeps again.
LinkLost ==
    /\ w \in {"read", "delete"} /\ faults < MaxFaults /\ faults' = faults + 1
    /\ w' = "idle" /\ found' = NoSlots /\ unit' = {} /\ late' \in {late, <<>>}
    /\ due' = due + 1
    /\ UNCHANGED <<simVars, inboxVars, readerVars, ackq, idx>>

\* The daemon is killed and started again: the inbox is what the file holds.
Crash ==
    /\ faults < MaxFaults /\ faults' = faults + 1
    /\ items' = disk
    /\ partials' = {} /\ first' = [m \in Msgs |-> Empty]
    /\ old' = {} /\ rd' = {} /\ copied' = FALSE
    /\ ackq' = {} /\ due' = 1
    /\ w' = "idle" /\ idx' = 0 /\ found' = NoSlots /\ unit' = {}
    /\ UNCHANGED <<simVars, disk, fails, late>>

-----------------------------------------------------------------------------
Init ==
    /\ sim = NoSlots /\ got = [p \in Parts |-> 0] /\ acked = {} /\ gone = {}
    /\ items = <<>> /\ disk = <<>> /\ fails = 0
    /\ partials = {} /\ first = [m \in Msgs |-> Empty]
    /\ old = {} /\ rd = {} /\ copied = FALSE
    /\ ackq = {} /\ due = 1
    /\ w = "idle" /\ idx = 0 /\ found = NoSlots /\ unit = {} /\ late = <<>>
    /\ faults = 0

Network == \E p \in Parts : StoreOnSim(p) \/ \E copy \in BOOLEAN : Incoming(p, copy)
Sweep ==
    \/ StartSweep \/ ReadSlot \/ AllRead \/ TakeUnit \/ SweepStores
    \/ Delete \/ SweepEnds

Next ==
    \/ Network \/ ReaderStores
    \/ \E p \in Parts : Ack(p)
    \/ \E M \in SUBSET Msgs : Expire(M)
    \/ ExpireStores
    \/ Sweep \/ LateFrame \/ LinkLost \/ Crash

Spec == Init /\ [][Next]_vars

-----------------------------------------------------------------------------
(* What the inbox promises. *)

Records == [parts : SUBSET Parts, scts : Parts \cup {Empty}, by : {"live", "sweep", "expired"}]

TypeOK ==
    /\ sim \in [Slots -> Parts \cup {Empty}] /\ got \in [Parts -> 0 .. MaxDeliver]
    /\ acked \subseteq Parts /\ gone \subseteq Parts
    /\ items \in Seq(Records) /\ disk \in Seq(Records) /\ fails \in 0 .. MaxFails
    /\ partials \subseteq Parts /\ first \in [Msgs -> Parts \cup {Empty}]
    /\ old \subseteq Records /\ rd \subseteq Records /\ copied \in BOOLEAN
    /\ ackq \subseteq Parts /\ due \in Nat
    /\ w \in {"idle", "expire", "read", "unit", "put", "delete"} /\ idx \in 0 .. NSlots
    /\ found \in [Slots -> Parts \cup {Empty}] /\ unit \subseteq Slots
    /\ late \in Seq(Parts \cup {Empty}) /\ faults \in 0 .. MaxFaults

\* sweep_sim: "delete from SIM only after the inbox write".  When a part was
\* deleted from the SIM, its whole message is in a record of the inbox file,
\* whatever crashed since.
DeletedIsInFile ==
    \A p \in gone \ Reports : \E k \in DOMAIN disk : PartsOf(MsgOf[p]) \subseteq disk[k].parts

\* A record the sweep stored is stored by no later sweep, although a delete
\* failed, the link was lost or the daemon restarted in between.
SweptOnce ==
    \A k, n \in DOMAIN items : items[k].by = "sweep" /\ items[k] = items[n] => k = n

\* While the daemon runs and its writes succeed, a part that was acknowledged, and
\* that the network will not send again, is in the inbox, waits for the rest of its
\* message, or is about to be stored.
AckedIsHeld ==
    faults = 0 /\ fails = 0 => \A p \in acked \ Reports :
        \/ \E k \in DOMAIN items : p \in items[k].parts
        \/ p \in partials \/ \E r \in rd \cup old : p \in r.parts
=============================================================================
