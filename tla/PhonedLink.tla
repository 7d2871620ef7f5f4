----------------------------- MODULE PhonedLink -----------------------------
(***************************************************************************)
(* class Link of s22-phoned (tools/hardware/phoned/s22-phoned.py): the     *)
(* request layer every thread of the phone daemon uses to talk to the      *)
(* modem (CP).  send() takes a sequence number, registers a Pending under  *)
(* it and writes the frame; the reader thread matches the CP's answers to  *)
(* Pending objects; request() waits, and forgets the number again.         *)
(*                                                                         *)
(* Requests are numbered 1, 2, ... in the order they register, so a number *)
(* is the identity of a Pending object and the order of the dict.          *)
(***************************************************************************)
EXTENDS Naturals, FiniteSets

CONSTANTS
    Clients,       \* threads that issue requests (worker, HTTP handlers)
    Cmds,          \* IPC commands
    Kinds,         \* the requests the daemon makes: command, strict, want_resp
    MaxSeq,        \* largest sequence number; 255 in the code
    MaxRequests    \* bound: requests registered in a behaviour

ASSUME LinkAssumption ==
    /\ MaxSeq \in Nat \ {0} /\ MaxRequests \in Nat \ {0}
    /\ Kinds # {} /\ Kinds \subseteq [cmd : Cmds, strict : BOOLEAN, want : BOOLEAN]

Seqs == 1 .. MaxSeq
Requests == 1 .. MaxRequests
None == 0
Least(S) == CHOOSE x \in S : \A y \in S : x <= y

VARIABLES
    ipc,       \* self.ipc is not None
    mseq,      \* last sequence number taken
    pending,   \* self.pending: sequence number -> request, None when free
    count,     \* requests registered so far
    obj,       \* the Pending object of every request
    place,     \* where each caller is
    cur,       \* the request a caller is in; its command before it has one
    held,      \* requests the CP has received and not answered with GEN
    wire       \* frames of the CP on their way to the reader thread

linkVars == <<ipc, mseq, pending, count, obj, place, cur, held, wire>>

\* Pending: what it waits for and what was recorded in it.  gen and resp hold
\* the request the recorded frame answers; ok is GEN_PHONE_RES's verdict.
Pending(kind, s) ==
    [kind |-> kind, seq |-> s, gen |-> None, resp |-> None, event |-> FALSE]

Frames == [kind : {"gen", "resp"}, aseq : 0 .. MaxSeq, cmd : Cmds, of : Requests, ok : BOOLEAN]

\* Numbers come round after 255 requests.  By then the answers to a request
\* that left the dict have arrived or are lost and its caller has returned:
\* the assumption that matching by number rests on.
Registered(r) == \E s \in Seqs : pending[s] = r
CameRound(s) ==
    LET over == {r \in 1 .. count : obj[r].seq = s /\ ~Registered(r)}
    IN  /\ over \cap held = {}
        /\ \A f \in wire : f.of \notin over
        /\ \A c \in Clients : place[c] \in {"write", "wait"} => cur[c] \notin over

-----------------------------------------------------------------------------
(* The calling threads: request() and send(). *)

\* send() finds the link open; the command and the mode are the caller's.
Begin(c) ==
    /\ place[c] = "idle" /\ ipc /\ count < MaxRequests
    /\ place' = [place EXCEPT ![c] = "register"]
    /\ UNCHANGED <<ipc, mseq, pending, count, obj, cur, held, wire>>

\* The next number, cyclically after mseq, that no Pending holds.
MutNextSeq == (mseq % MaxSeq) + 1
NextSeq ==
    LET free == {s \in Seqs : pending[s] = None}
        ahead == {s \in free : s > mseq}
    IN  Least(IF ahead # {} THEN ahead ELSE free)

Register(c) ==
    /\ place[c] = "register" /\ count < MaxRequests
    /\ \E s \in Seqs : pending[s] = None
    /\ CameRound(NextSeq)
    /\ \E kind \in Kinds : obj' = [obj EXCEPT ![count + 1] = Pending(kind, NextSeq)]
    /\ mseq' = NextSeq
    /\ count' = count + 1
    /\ pending' = [pending EXCEPT ![NextSeq] = count + 1]
    /\ cur' = [cur EXCEPT ![c] = count + 1]
    /\ place' = [place EXCEPT ![c] = "write"]
    /\ UNCHANGED <<ipc, held, wire>>

\* All numbers in use: LinkDown.
RegisterFails(c) ==
    /\ place[c] = "register" /\ \A s \in Seqs : pending[s] # None
    /\ place' = [place EXCEPT ![c] = "idle"]
    /\ UNCHANGED <<ipc, mseq, pending, count, obj, cur, held, wire>>

\* _forget
Forget(r) == [pending EXCEPT ![obj[r].seq] = None]

Write(c) ==
    /\ place[c] = "write" /\ ipc
    /\ held' = held \cup {cur[c]}
    /\ place' = [place EXCEPT ![c] = "wait"]
    /\ UNCHANGED <<ipc, mseq, pending, count, obj, cur, wire>>

\* A full or broken device: forgotten, then LinkDown.
WriteFails(c) ==
    /\ place[c] = "write" /\ ipc
    /\ pending' = Forget(cur[c])
    /\ place' = [place EXCEPT ![c] = "idle"]
    /\ UNCHANGED <<ipc, mseq, count, obj, cur, held, wire>>

\* The link was dropped since the check: os.write(None, ...) is a TypeError,
\* which neither except clause catches.
WriteOnClosed(c) ==
    /\ place[c] = "write" /\ ~ipc
    /\ place' = [place EXCEPT ![c] = "idle"]
    /\ UNCHANGED <<ipc, mseq, pending, count, obj, cur, held, wire>>

\* event.wait() ends, by the event or by the timeout.
Return(c) ==
    /\ place[c] = "wait"
    /\ pending' = Forget(cur[c])
    /\ place' = [place EXCEPT ![c] = "idle"]
    /\ UNCHANGED <<ipc, mseq, count, obj, cur, held, wire>>

-----------------------------------------------------------------------------
(* The CP: a request gets a GEN_PHONE_RES; one it accepts may also get a   *)
(* RESP, which carries the request's number or 0.  Either may be late.     *)

Answer(r) ==
    /\ r \in held /\ held' = held \ {r}
    /\ LET gen(ok) == [kind |-> "gen", aseq |-> obj[r].seq, cmd |-> obj[r].kind.cmd, of |-> r, ok |-> ok]
           resp(a) == [kind |-> "resp", aseq |-> a, cmd |-> obj[r].kind.cmd, of |-> r, ok |-> TRUE]
       IN  \E sent \in {{gen(FALSE)}, {gen(TRUE)}}
                        \cup {{gen(TRUE), resp(a)} : a \in {obj[r].seq, 0}} :
             wire' = wire \cup sent
    /\ UNCHANGED <<ipc, mseq, pending, count, obj, place, cur>>

-----------------------------------------------------------------------------
(* The reader thread. *)

\* The Pending under the frame's number, if any.
Named(f) == IF f.aseq = 0 THEN None ELSE pending[f.aseq]

\* _dispatch, GEN_PHONE_RES: by number alone, a strict request by command too.
TakesGen(r, f) == obj[r].kind.strict => obj[r].kind.cmd = f.cmd

MutGenTarget(f) ==
    LET waiting == {r \in Requests : Registered(r) /\ obj[r].gen = None}
    IN  IF waiting = {} THEN None ELSE Least(waiting)
GenTarget(f) == IF Named(f) # None /\ TakesGen(Named(f), f) THEN Named(f) ELSE None

\* _dispatch, RESP: the named request when its command is the frame's, else
\* the oldest waiter of that command that is not strict.
Waiters(cmd) ==
    {r \in Requests : /\ Registered(r)
                      /\ ~obj[r].kind.strict /\ obj[r].kind.cmd = cmd /\ obj[r].resp = None}

MutRespTarget(f) ==
    LET all == {r \in Requests : Registered(r) /\ obj[r].kind.cmd = f.cmd}
    IN  IF all = {} THEN None ELSE Least(all)
RespTarget(f) ==
    IF Named(f) # None /\ obj[Named(f)].kind.cmd = f.cmd THEN Named(f)
    ELSE IF Waiters(f.cmd) = {} THEN None
    ELSE Least(Waiters(f.cmd))

MutDispatchGen(f) ==
    /\ f.kind = "gen"
    /\ LET r == GenTarget(f)
       IN  obj' = IF r = None THEN obj
                  ELSE [obj EXCEPT ![r].gen = f.of, ![r].event = @ \/ ~f.ok]
DispatchGen(f) ==
    /\ f.kind = "gen"
    /\ LET r == GenTarget(f)
       IN  obj' = IF r = None THEN obj
                  ELSE [obj EXCEPT ![r].gen = f.of,
                                   ![r].event = @ \/ ~(obj[r].kind.want /\ f.ok)]

DispatchResp(f) ==
    /\ f.kind = "resp"
    /\ LET r == RespTarget(f)
       IN  obj' = IF r = None THEN obj
                  ELSE [obj EXCEPT ![r].resp = f.of, ![r].event = TRUE]

Dispatch ==
    /\ ipc
    /\ \E f \in wire : (DispatchGen(f) \/ DispatchResp(f)) /\ wire' = wire \ {f}
    /\ UNCHANGED <<ipc, mseq, pending, count, place, cur, held>>

\* _drop: wakes everyone who is registered and clears the dict.  What the CP
\* had on the way is lost with the device, or still there after it reopens.
MutWoken == obj
Woken == [r \in Requests |->
            IF Registered(r) THEN [obj[r] EXCEPT !.event = TRUE] ELSE obj[r]]

Drop ==
    /\ ipc /\ ipc' = FALSE
    /\ obj' = Woken
    /\ pending' = [s \in Seqs |-> None]
    /\ \/ UNCHANGED <<wire, held>>
       \/ wire' = {} /\ held' = {}
    /\ UNCHANGED <<mseq, count, place, cur>>

Open ==
    /\ ~ipc /\ ipc' = TRUE
    /\ UNCHANGED <<mseq, pending, count, obj, place, cur, held, wire>>

-----------------------------------------------------------------------------
LinkInit ==
    /\ ipc = FALSE /\ mseq = 0 /\ count = 0
    /\ pending = [s \in Seqs |-> None]
    /\ obj = [r \in Requests |-> Pending(CHOOSE k \in Kinds : TRUE, None)]
    /\ place = [c \in Clients |-> "idle"] /\ cur = [c \in Clients |-> None]
    /\ held = {} /\ wire = {}

Caller(c) ==
    \/ Begin(c) \/ Register(c) \/ RegisterFails(c)
    \/ Write(c) \/ WriteFails(c) \/ WriteOnClosed(c) \/ Return(c)

LinkNext ==
    \/ \E c \in Clients : Caller(c)
    \/ \E r \in Requests : Answer(r)
    \/ Dispatch \/ Drop \/ Open

LinkSpec == LinkInit /\ [][LinkNext]_linkVars

-----------------------------------------------------------------------------
(* What the request layer promises. *)

PendingObjects ==
    [kind : Kinds, seq : 0 .. MaxSeq, gen : 0 .. MaxRequests, resp : 0 .. MaxRequests, event : BOOLEAN]

LinkTypeOK ==
    /\ ipc \in BOOLEAN /\ mseq \in 0 .. MaxSeq /\ count \in 0 .. MaxRequests
    /\ pending \in [Seqs -> 0 .. MaxRequests]
    /\ obj \in [Requests -> PendingObjects]
    /\ place \in [Clients -> {"idle", "register", "write", "wait"}]
    /\ cur \in [Clients -> 0 .. MaxRequests]
    /\ held \subseteq Requests /\ wire \subseteq Frames

\* A caller that waits and was not woken yet can still be: its Pending is in
\* the dict under its own number, where an answer or _drop finds it.  Two
\* requests never share a number and no drop leaves a waiter behind.
WaiterIsReachable ==
    \A c \in Clients :
        place[c] = "wait" /\ ~obj[cur[c]].event => pending[obj[cur[c]].seq] = cur[c]

\* A GEN_PHONE_RES is recorded only in the request it answers, however late
\* it comes and however many other requests ran out of time before it.
GenIsOwn == \A r \in Requests : obj[r].gen \in {None, r}

\* A strict request (the LTE attach profile, experimental IPC) takes no answer
\* to another request, RESP frames without a number included.
StrictAnswersAreOwn ==
    \A r \in Requests : obj[r].kind.strict => obj[r].gen \in {None, r} /\ obj[r].resp \in {None, r}

\* Link implements RequestService: seen through the Pending objects, every step of the
\* threads, the CP and the reader asks, judges, replies, loses or reopens, or shows
\* nothing.  A recorded verdict, for one, is never replaced and nobody is woken idly.
Service == INSTANCE RequestService WITH
    up <- ipc, asked <- 1 .. count,
    kind <- [r \in Requests |-> obj[r].kind],
    verdict <- [r \in Requests |-> obj[r].gen],
    reply <- [r \in Requests |-> obj[r].resp],
    woken <- [r \in Requests |-> obj[r].event]
IsService == Service!Spec
=============================================================================
