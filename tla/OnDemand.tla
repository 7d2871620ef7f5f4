------------------------------ MODULE OnDemand ------------------------------
(***************************************************************************)
(* s22-llama-ondemand (tools/hardware): the proxy that loads the local     *)
(* model when a request needs it.  Conns are its connections.  Each        *)
(* carries, one after the other, the generation request whose failures are *)
(* followed here ("same": it comes again and again), generation requests   *)
(* with other retry keys ("gen": they write the same files) or something   *)
(* else ("other": other paths, warm jobs; no retry budget and no limit).   *)
(* inflight, active.json, the budget and budget.json are what they say of  *)
(* the followed request.  A connection is counted as active wherever it is *)
(* not idle.                                                               *)
(*                                                                         *)
(* A scene bounds what goes wrong in one behaviour: everything ("all"), or *)
(* what the retry budget and its files have to bear ("files"), or what the *)
(* backend and its lock have to bear ("backend").                          *)
(*                                                                         *)
(* One retry window: no failure grows old.  Left out: probes, the prompt   *)
(* cache, the lean rewriting, and the CPU clock cap, which nothing here    *)
(* depends on.                                                             *)
(***************************************************************************)
EXTENDS Naturals, FiniteSets

CONSTANTS
    Conns,
    RetryMax,    \* RETRY_MAX
    MaxFaults,   \* bound: SIGKILLs and SIGTERMs of the proxy
    MaxFails,    \* bound: writes of a state file that fail
    Scenes       \* bound: what may go wrong together

Nobody == "nobody"

ASSUME OnDemandAssumption ==
    /\ IsFiniteSet(Conns) /\ Nobody \notin Conns
    /\ RetryMax \in Nat \ {0} /\ MaxFaults \in Nat /\ MaxFails \in Nat
    /\ Scenes \subseteq {"all", "files", "backend"}

VARIABLES
    pc,        \* where each thread is in handle, ensure_backend and relay
    kind,      \* what its connection carries
    out,       \* how its relay ended
    lock,      \* self.lock
    proc,      \* the backend process: none, loading, or up
    rec,       \* backend.json has its pid
    left,      \* a backend of an earlier proxy runs, its pid is in backend.json
    lost,      \* backends of earlier proxies whose pid was not written
    inflight, active,  \* self.inflight and active.json
    asnap,     \* what a thread is about to write to active.json
    budget, saved,     \* failures of the request: self.budget and budget.json
    bsnap,     \* what a thread is about to write to budget.json
    serving,   \* reap_previous is over
    unload,    \* threads that are on their way into unload
    hold,      \* /run/s22-hold/llama exists
    sneaked,   \* history: loads that began since the hold was put there
    forgot,    \* history: deaths while budget.json was behind the memory
    wasted,    \* history: attempts aborted or cut by the proxy's death since the last answer
    faults, fails,
    scene

threadVars == <<pc, kind>>
fileVars == <<active, saved, asnap, bsnap, fails>>
backVars == <<proc, rec, left, lost>>
history == <<wasted, forgot>>
envVars == <<serving, unload, hold, sneaked, faults, scene>>
vars == <<threadVars, out, lock, backVars, inflight, budget, fileVars, envVars, history>>

\* Bounds.  Of the files: the followed request comes, with at most one other generation
\* beside it, and writes of active.json and budget.json fail.  Of the backend: all the rest.
FilesTried == scene # "backend"
BackendTried == scene # "files"
Tried(k) ==
    CASE k = "same" -> FilesTried
      [] k = "gen" -> BackendTried \/ \A t \in Conns : kind[t] # "gen"
      [] k = "other" -> BackendTried

Active == {t \in Conns : pc[t] # "idle"}
Running == proc # "none"
\* /health of port 8091: also answered by a backend nobody knows of.
Answers == proc = "up" \/ lost > 0

Go(t, place) ==
    /\ pc' = [pc EXCEPT ![t] = place]
    /\ kind' = IF place = "idle" THEN [kind EXCEPT ![t] = "none"] ELSE kind

-----------------------------------------------------------------------------
(* A request. *)

\* handle: the retry budget, then counted as active.
MutAdmits(k) == TRUE
Admits(k) == k = "same" => budget < RetryMax
Admit(t, k) ==
    /\ serving /\ pc[t] = "idle" /\ Tried(k) /\ Admits(k)
    /\ pc' = [pc EXCEPT ![t] = "ask"] /\ kind' = [kind EXCEPT ![t] = k]
    /\ UNCHANGED <<out, lock, backVars, inflight, budget, fileVars, envVars, history>>

MutMayLoad == TRUE
MayLoad == ~hold

\* ensure_backend: the lock, kept only for a load; then the hold ...
Ensure(t) ==
    /\ pc[t] = "ask" /\ lock = Nobody
    /\ \/ Running /\ Answers /\ Go(t, "connect") /\ UNCHANGED lock
       \/ ~(Running /\ Answers) /\ ~MayLoad /\ Go(t, "idle") /\ UNCHANGED lock
       \/ ~(Running /\ Answers) /\ MayLoad /\ Go(t, "cleared") /\ lock' = t
    /\ UNCHANGED <<out, backVars, inflight, budget, fileVars, envVars, history>>

\* ... and the load, unless the backend runs and does not answer yet.
Spawn(t) ==
    /\ pc[t] = "cleared"
    /\ IF Running THEN Go(t, "load") /\ UNCHANGED <<proc, rec, sneaked>>
       ELSE /\ Go(t, "spawned") /\ proc' = "loading" /\ rec' = FALSE
            /\ sneaked' = IF hold THEN sneaked + 1 ELSE sneaked
    /\ UNCHANGED <<out, lock, left, lost, inflight, budget, fileVars, serving, unload, hold, faults, scene, history>>

\* save_json: a failed write is ignored.
Save(ok, tried) == IF ok THEN UNCHANGED fails ELSE tried /\ fails < MaxFails /\ fails' = fails + 1
Record(t, ok) ==
    /\ pc[t] = "spawned" /\ Go(t, "load") /\ Save(ok, BackendTried) /\ rec' = (ok /\ Running)
    /\ UNCHANGED <<out, lock, proc, left, lost, inflight, budget, active, saved, asnap, bsnap, envVars, history>>

\* The wait: healthy, exited, or too long.
Loaded(t, ok) ==
    /\ pc[t] = "load" /\ (ok => Answers)
    /\ Go(t, IF ok THEN "connect" ELSE "idle") /\ lock' = Nobody
    /\ UNCHANGED <<out, backVars, inflight, budget, fileVars, envVars, history>>

\* relay: the request is with the backend before it is in self.inflight.
Connect(t) ==
    /\ pc[t] = "connect"
    /\ Go(t, IF ~(Running \/ Answers) THEN "idle" ELSE IF kind[t] = "other" THEN "pass" ELSE "sent")
    /\ UNCHANGED <<out, lock, backVars, inflight, budget, fileVars, envVars, history>>

\* save_inflight: the snapshot under inflight_lock, the write after it.  A write that
\* fails leaves the old file or, if two threads were in the same .tmp, an unreadable one,
\* which counts as empty; so below.
Mine(t) == {s \in {t} : kind[s] = "same"}
Snapshot(t) == asnap' = [asnap EXCEPT ![t] = inflight']
Register(t) ==
    /\ pc[t] = "sent" /\ Go(t, "save") /\ inflight' = inflight \cup Mine(t) /\ Snapshot(t)
    /\ UNCHANGED <<out, lock, backVars, active, saved, bsnap, fails, budget, envVars, history>>
SaveActive(t, ok) ==
    /\ pc[t] \in {"save", "unsave"} /\ Save(ok, FilesTried)
    /\ active' \in (IF ok THEN {asnap[t]} ELSE {active, {}})
    /\ asnap' = [asnap EXCEPT ![t] = {}]
    /\ Go(t, IF pc[t] = "save" THEN "relay" ELSE "count")
    /\ UNCHANGED <<out, lock, backVars, inflight, saved, bsnap, budget, envVars, history>>

\* The client does not read: the pump has send_lock, which an abort waits for, until
\* the client reads again or is gone.
Stall(t) ==
    /\ BackendTried
    /\ \/ pc[t] = "relay" /\ Go(t, "stuck")
       \/ pc[t] = "stuck" /\ Go(t, "relay")
    /\ UNCHANGED <<out, lock, backVars, inflight, budget, fileVars, envVars, history>>

\* The relay ends: aborted by the watchdog or /_s22/abort, or the connection is over
\* (answered, the backend was stopped, the client left) with output or without.
MutRelayEnds(t, o) ==
    /\ pc[t] = "relay" /\ o = "nothing" /\ ~Running
    /\ out' = [out EXCEPT ![t] = o] /\ Go(t, "unsave")
    /\ inflight' = inflight \ {t} /\ Snapshot(t)
    /\ UNCHANGED <<lock, backVars, active, saved, bsnap, fails, budget, envVars, history>>
RelayEnds(t, o) ==
    /\ pc[t] = "relay" /\ (o = "nothing" => BackendTried)
    /\ out' = [out EXCEPT ![t] = o] /\ Go(t, "unsave")
    /\ inflight' = inflight \ {t} /\ Snapshot(t)
    /\ wasted' = IF o = "aborted" THEN wasted + Cardinality(Mine(t)) ELSE wasted
    /\ UNCHANGED <<lock, backVars, active, saved, bsnap, fails, budget, envVars, forgot>>
PassEnds(t) ==
    /\ pc[t] = "pass" /\ Go(t, "idle")
    /\ UNCHANGED <<out, lock, backVars, inflight, budget, fileVars, envVars, history>>

\* budget_record: memory and the snapshot of all requests under budget_lock, the write
\* after it.  A request with another key has failures of its own, or no key.
Count(t) ==
    /\ pc[t] = "count" /\ out' = [out EXCEPT ![t] = "none"]
    /\ \/ /\ out[t] = "aborted" /\ budget' = budget + Cardinality(Mine(t)) /\ UNCHANGED wasted
          /\ bsnap' = [bsnap EXCEPT ![t] = budget'] /\ Go(t, "savebudget")
       \/ /\ out[t] = "output" /\ kind[t] = "same" /\ budget > 0 /\ budget' = 0 /\ wasted' = 0
          /\ bsnap' = [bsnap EXCEPT ![t] = 0] /\ Go(t, "savebudget")
       \/ /\ out[t] = "output" /\ kind[t] = "gen" /\ UNCHANGED <<budget, wasted>>
          /\ bsnap' = [bsnap EXCEPT ![t] = budget] /\ Go(t, "savebudget")
       \/ /\ out[t] = "nothing" \/ kind[t] = "gen" \/ (out[t] = "output" /\ budget = 0)
          /\ Go(t, "idle") /\ UNCHANGED <<budget, bsnap, wasted>>
    /\ UNCHANGED <<lock, backVars, inflight, active, saved, asnap, fails, envVars, forgot>>

SaveBudget(t, ok) ==
    /\ pc[t] = "savebudget" /\ Save(ok, FilesTried) /\ Go(t, "idle")
    /\ saved' \in (IF ok THEN {bsnap[t]} ELSE {saved, 0}) /\ bsnap' = [bsnap EXCEPT ![t] = 0]
    /\ UNCHANGED <<out, lock, backVars, inflight, active, asnap, budget, envVars, history>>

-----------------------------------------------------------------------------
(* Stopping the backend. *)

Unloaders == {"idle", "external", "bye"}

\* idle_loop, check_stuck ("idle") and /_s22/unload look first, SIGTERM does not.
MutCheckIdle == proc = "up" /\ Active = {}
CheckIdle == Running /\ Active = {}
Check(u) ==
    /\ BackendTried /\ serving /\ u \notin unload /\ unload' = unload \cup {u}
    /\ \/ u = "idle" /\ CheckIdle /\ UNCHANGED faults
       \/ u = "external" /\ Active = {} /\ UNCHANGED faults
       \/ u = "bye" /\ faults < MaxFaults /\ faults' = faults + 1
    /\ UNCHANGED <<threadVars, out, lock, backVars, inflight, budget, fileVars, serving, hold, sneaked, scene, history>>

\* unload: whoever uses the backend by now.
Unload(u) ==
    /\ u \in unload \ {"bye"} /\ lock = Nobody /\ unload' = unload \ {u}
    /\ proc' = "none" /\ rec' = FALSE
    /\ UNCHANGED <<threadVars, out, lock, left, lost, inflight, budget, fileVars, serving, hold, sneaked,
                   faults, scene, history>>

-----------------------------------------------------------------------------
(* The proxy ends and starts again, the backend and the hold change. *)

Flying == {t \in Conns : kind[t] = "same" /\ pc[t] \in {"sent", "save", "relay", "stuck"}}

\* budget.json says less than the memory, and nobody is about to write it.
Saving == {t \in Conns : kind[t] = "same" /\ pc[t] = "savebudget"}
Behind == serving /\ saved + Cardinality(Saving) < budget

\* What the threads knew is gone; what they were sending counts as wasted.
Dies ==
    /\ pc' = [t \in Conns |-> "idle"] /\ kind' = [t \in Conns |-> "none"]
    /\ out' = [t \in Conns |-> "none"] /\ lock' = Nobody
    /\ wasted' = wasted + Cardinality(Flying) /\ forgot' = (IF Behind THEN forgot + 1 ELSE forgot)
    /\ inflight' = {} /\ budget' = 0
    /\ asnap' = [t \in Conns |-> {}] /\ bsnap' = [t \in Conns |-> 0]
    /\ proc' = "none" /\ rec' = FALSE /\ serving' = FALSE /\ unload' = {}
    /\ UNCHANGED <<active, saved, fails, hold, sneaked, scene>>

\* bye: unload, then os._exit.
Bye == "bye" \in unload /\ lock = Nobody /\ Dies /\ UNCHANGED <<left, lost, faults>>

Killed ==
    /\ faults < MaxFaults /\ faults' = faults + 1 /\ Dies /\ (BackendTried \/ rec = Running)
    /\ left' = (left \/ (Running /\ rec))
    /\ lost' = IF Running /\ ~rec THEN lost + 1 ELSE lost

\* __init__ and reap_previous: one write of budget.json for each request that was in
\* flight, then active.json; each may fail.
Counted == saved + Cardinality(active)
MutOrphanKilled == UNCHANGED left
OrphanKilled == left' = FALSE
Start(written, ok) ==
    /\ ~serving /\ serving' = TRUE /\ Save(ok /\ written = Counted, FilesTried)
    /\ OrphanKilled
    /\ budget' = Counted /\ saved' = written /\ active' = (IF ok THEN {} ELSE active)
    /\ UNCHANGED <<threadVars, out, lock, proc, rec, lost, inflight, asnap, bsnap, unload, hold, sneaked,
                   faults, scene, history>>

BackendUp ==
    /\ proc = "loading" /\ lost = 0 /\ proc' = "up"
    /\ UNCHANGED <<threadVars, out, lock, rec, left, lost, inflight, budget, fileVars, envVars, history>>
\* It exits, or the guardian stops it.
BackendDies ==
    /\ BackendTried /\ Running /\ proc' = "none"
    /\ UNCHANGED <<threadVars, out, lock, rec, left, lost, inflight, budget, fileVars, envVars, history>>
Hold ==
    /\ BackendTried /\ hold' = ~hold /\ sneaked' = 0
    /\ UNCHANGED <<threadVars, out, lock, backVars, inflight, budget, fileVars, serving, unload, faults,
                   scene, history>>

-----------------------------------------------------------------------------
Init ==
    /\ pc = [t \in Conns |-> "idle"] /\ kind = [t \in Conns |-> "none"]
    /\ out = [t \in Conns |-> "none"] /\ lock = Nobody
    /\ proc = "none" /\ rec = FALSE /\ left = FALSE /\ lost = 0
    /\ inflight = {} /\ active = {} /\ asnap = [t \in Conns |-> {}]
    /\ budget = 0 /\ saved = 0 /\ bsnap = [t \in Conns |-> 0]
    /\ serving = TRUE /\ unload = {} /\ hold = FALSE /\ sneaked = 0 /\ wasted = 0 /\ forgot = 0
    /\ faults = 0 /\ fails = 0
    /\ scene \in Scenes

\* What a thread does that has been admitted and waits for nobody but the backend's
\* load, which has its time limit.
Goes(t) ==
    \/ Spawn(t) \/ Connect(t) \/ Register(t) \/ Count(t)
    \/ \E ok \in BOOLEAN : Record(t, ok) \/ Loaded(t, ok) \/ SaveActive(t, ok) \/ SaveBudget(t, ok)
Ends(t) == \E o \in {"aborted", "output", "nothing"} : RelayEnds(t, o)
Starts == \E written \in saved .. Counted, ok \in BOOLEAN : Start(written, ok)

Next ==
    \/ \E t \in Conns :
         \/ \E k \in {"same", "gen", "other"} : Admit(t, k)
         \/ Ensure(t) \/ Goes(t) \/ Ends(t) \/ Stall(t) \/ PassEnds(t)
    \/ \E u \in Unloaders : Check(u) \/ Unload(u)
    \/ Bye \/ Killed \/ Starts \/ BackendUp \/ BackendDies \/ Hold

\* A thread goes on and gets the lock if that is free again and again; the watchdog ends
\* a generation whose client reads.  The idle loop runs on, and keepalive starts the proxy
\* again.  Nothing makes a client read, ends a relay without limits, or stops a backend
\* because of a hold.
Fairness ==
    /\ \A t \in Conns : WF_vars(Goes(t) \/ Ends(t)) /\ SF_vars(Ensure(t))
    /\ WF_vars(Check("idle") \/ Unload("idle") \/ Starts)

Spec == Init /\ [][Next]_vars /\ Fairness

-----------------------------------------------------------------------------
(* What the proxy promises. *)

Loading == {"cleared", "spawned", "load"}
Places == {"idle", "ask", "connect", "sent", "save", "relay", "stuck", "pass", "unsave", "count",
           "savebudget"} \cup Loading

Flags == rec \in BOOLEAN /\ left \in BOOLEAN /\ serving \in BOOLEAN /\ hold \in BOOLEAN
Threads ==
    /\ pc \in [Conns -> Places] /\ kind \in [Conns -> {"none", "same", "gen", "other"}]
    /\ out \in [Conns -> {"none", "aborted", "output", "nothing"}]
    /\ lock \in Conns \cup {Nobody}
    /\ \A t \in Conns : (lock = t) <=> (pc[t] \in Loading)
Files ==
    /\ inflight \subseteq Conns /\ active \subseteq Conns /\ asnap \in [Conns -> SUBSET Conns]
    /\ budget \in Nat /\ saved \in Nat /\ bsnap \in [Conns -> Nat]
    /\ wasted \in Nat /\ forgot \in Nat /\ fails \in 0 .. MaxFails
Outside ==
    /\ proc \in {"none", "loading", "up"} /\ lost \in Nat /\ sneaked \in Nat
    /\ unload \subseteq Unloaders /\ faults \in 0 .. MaxFaults /\ scene \in Scenes
TypeOK == Flags /\ Threads /\ Files /\ Outside

\* The model is in memory once: across SIGKILL and restart too, unless the proxy
\* died before it had written the backend's pid.
OneBackend == lost = 0 => ~(left /\ Running)

\* What attempts of one request can waste in one life of the proxy.
PerLife == RetryMax - 1 + Cardinality(Conns)

\* The same request does not burn the CPU for ever, and restarts do not help it: however
\* its attempts overlap, RetryMax aborts end it, those already under way aside.  A death
\* of the proxy forgets only the attempts that were under way, unless budget.json was
\* behind (a write had failed, or had put an older snapshot over a newer one): then the
\* count may begin anew.
WasteIsBounded == wasted <= PerLife * (1 + forgot) + Cardinality(Conns) * (faults - forgot)

\* Every admitted request comes to its end, or to a relay that nothing limits: to a
\* client that does not read, or of a request that is no generation.
RequestsEnd == \A t \in Conns : (pc[t] = "ask") ~> (pc[t] \in {"idle", "stuck", "pass"})

\* An unused model of this proxy does not stay in memory, where the idle loop is tried.
\* (One that an earlier proxy lost may stay; and the unload may meet a request that began
\* after the look: it is cut, which RequestsEnd counts as an end.)
MemoryIsFreed == <>[](BackendTried /\ serving /\ Active = {}) => <>[](proc = "none")

\* While the guardian's hold stays, at most one load gets past it: that of the one
\* thread that had looked before, under the lock.
HoldLetsOneIn == hold => sneaked <= 1
=============================================================================
