------------------------------ MODULE Services ------------------------------
(***************************************************************************)
(* s22-keepalive and s22-guardian (tools/hardware) on the same services.   *)
(* Keepalive looks at every service in turn and restarts what is down; the *)
(* guardian stops services while the phone is hot or short of memory.      *)
(* They know each other only through the files /run/s22-hold/<service>.    *)
(*                                                                         *)
(* Both read the process table once per pass and act on it later.  Times   *)
(* (unhealthy_s, the backoff, the restart window) are flags that Elapse    *)
(* clears; a temperature or a memory reading is an input of the guardian's *)
(* pass.  confirm_passes is 2, its default.  Left out: runaway processes,  *)
(* nice values, disk alerts, and keepalive's mute, root and model guards.  *)
(***************************************************************************)
EXTENDS Naturals, Sequences, FiniteSets

CONSTANTS
    Order,        \* keepalive's services, in the order it checks them
    Hot,          \* hot_stop: stopped at level 2 and when memory is low
    Critical,     \* critical_stop: stopped at level 3
    MaxRestarts,  \* max_restarts per window
    MaxFaults     \* bound: restarts of the two daemons, `s22-guardian release'

Svcs == {Order[i] : i \in DOMAIN Order}

ASSUME ServicesAssumption ==
    /\ Order \in Seq(Svcs) /\ Order # << >>
    /\ \A i, j \in DOMAIN Order : Order[i] = Order[j] => i = j
    /\ Hot \subseteq Svcs /\ Critical \subseteq Svcs /\ Hot \cap Critical = {}
    /\ MaxRestarts \in Nat \ {0} /\ MaxFaults \in Nat

VARIABLES
    main,     \* the process of each service: answering, not answering, or none
    old,      \* services with a process that was sent SIGTERM and still exists
    hold,     \* the hold files: who wrote them
    k,        \* keepalive: the service it is at (0: between two passes)
    kp,       \* ... and what it does with it
    list,     \* ... the services in the ps output of this pass
    bad,      \* bad_since: not set, recent, or unhealthy_s ago
    wait,     \* services whose next_try is still to come
    hist,     \* restarts of each service within the window
    g,        \* the guardian's place in its pass
    table,    \* ... services with a process in its table
    seen,     \* ... whose process is still the one in the table
    gq,       \* ... services it has still to hold
    killing,  \* ... the service whose hold file it has just written
    temp,     \* the last temperature it read
    level, held, shed,
    faults

procVars == <<main, old, seen>>
keepVars == <<k, kp, list, bad, wait, hist>>
guardVars == <<g, table, gq, killing, temp, level, held, shed>>
vars == <<procVars, hold, keepVars, guardVars, faults>>

Nobody == "nobody"

-----------------------------------------------------------------------------
(* The services' processes. *)

\* SIGTERM to the processes of S: they exit some time later.
Terminated(S) ==
    LET T == {s \in S : main[s] # "none"} IN
    /\ main' = [s \in Svcs |-> IF s \in T THEN "none" ELSE main[s]]
    /\ old' = old \cup T
    /\ seen' = seen \ T

Exit(s) ==
    /\ s \in old /\ old' = old \ {s}
    /\ UNCHANGED <<main, seen, hold, keepVars, guardVars, faults>>

Die(s) ==
    /\ main[s] # "none" /\ main' = [main EXCEPT ![s] = "none"] /\ seen' = seen \ {s}
    /\ UNCHANGED <<old, hold, keepVars, guardVars, faults>>

\* A process stops or begins to answer its health probe.
Health(s) ==
    /\ main[s] # "none"
    /\ main' = [main EXCEPT ![s] = IF @ = "up" THEN "hung" ELSE "up"]
    /\ UNCHANGED <<old, seen, hold, keepVars, guardVars, faults>>

-----------------------------------------------------------------------------
(* s22-keepalive *)

\* check_once: one ps for the whole pass.
KRead ==
    /\ k = 0 /\ k' = 1 /\ kp' = "judge"
    /\ list' = {s \in Svcs : main[s] # "none" \/ s \in old}
    /\ UNCHANGED <<procVars, hold, bad, wait, hist, guardVars, faults>>

NextService ==
    IF k = Len(Order) THEN k' = 0 /\ kp' = "idle" ELSE k' = k + 1 /\ kp' = "judge"

Healthy(s) == s \in list /\ main[s] = "up"

\* decide: "limited" and "wait" both leave the service alone.
Decide(s) ==
    IF Healthy(s) THEN "ok"
    ELSE IF (s \in list /\ bad[s] # "long") \/ s \in wait THEN "wait"
    ELSE IF hist[s] >= MaxRestarts THEN "limited" ELSE "restart"

MutIsHeld(s) == FALSE
IsHeld(s) == hold[s] # Nobody

\* One service of check_once up to the decision.
Judge ==
    /\ kp = "judge"
    /\ LET s == Order[k]
           act == Decide(s)
       IN  \/ IsHeld(s) /\ NextService /\ UNCHANGED bad
           \/ /\ ~IsHeld(s)
              /\ bad' = [bad EXCEPT ![s] = IF act = "ok" THEN "no"
                                           ELSE IF @ = "no" THEN "recent" ELSE @]
              /\ IF act = "restart"
                 THEN k' = k /\ kp' = IF s \in list THEN "stop" ELSE "start"
                 ELSE NextService
    /\ UNCHANGED <<procVars, hold, list, wait, hist, guardVars, faults>>

\* restart: stop the process there is.
MutStop ==
    /\ kp = "stop" /\ kp' = "start"
    /\ UNCHANGED <<procVars, k, list, bad, wait, hist, hold, guardVars, faults>>

Stop ==
    /\ kp = "stop" /\ kp' = "start"
    /\ Terminated({Order[k]})
    /\ UNCHANGED <<k, list, bad, wait, hist, hold, guardVars, faults>>

\* restart: start it, wait until it answers, exits or takes too long, and
\* remember the restart.  A start may fail.
Start(ok) ==
    /\ kp = "start" /\ NextService
    /\ LET s == Order[k] IN
       /\ main' = [main EXCEPT ![s] = IF ok THEN "hung" ELSE @]
       /\ seen' = IF ok THEN seen \ {s} ELSE seen
       /\ hist' = [hist EXCEPT ![s] = @ + 1] /\ wait' = wait \cup {s}
    /\ UNCHANGED <<old, hold, list, bad, guardVars, faults>>

MutElapse(s) ==
    /\ \/ /\ bad[s] = "recent" /\ bad' = [bad EXCEPT ![s] = "long"] /\ UNCHANGED wait
       \/ s \in wait /\ wait' = wait \ {s} /\ UNCHANGED bad
    /\ UNCHANGED <<procVars, hold, k, kp, list, hist, guardVars, faults>>

\* Time passes: unhealthy_s, next_try, the oldest restart of the window.
Elapse(s) ==
    /\ \/ /\ bad[s] = "recent" /\ bad' = [bad EXCEPT ![s] = "long"]
          /\ UNCHANGED <<wait, hist>>
       \/ s \in wait /\ wait' = wait \ {s} /\ UNCHANGED <<bad, hist>>
       \/ hist[s] > 0 /\ hist' = [hist EXCEPT ![s] = @ - 1] /\ UNCHANGED <<bad, wait>>
    /\ UNCHANGED <<procVars, hold, k, kp, list, guardVars, faults>>

\* Keepalive is restarted: what it knew is gone.
KRestart ==
    /\ faults < MaxFaults /\ faults' = faults + 1
    /\ k' = 0 /\ kp' = "idle" /\ list' = {}
    /\ bad' = [s \in Svcs |-> "no"] /\ wait' = {} /\ hist' = [s \in Svcs |-> 0]
    /\ UNCHANGED <<procVars, hold, guardVars>>

-----------------------------------------------------------------------------
(* s22-guardian *)

Temps == {"cool", "mild", "warm", "hot", "critical"}
\* below restore_c, below warn_c, and the three thresholds
Level(t) ==
    CASE t = "critical" -> 3 [] t = "hot" -> 2 [] t = "warm" -> 1 [] OTHER -> 0

\* Levels 2 and 3 are the lower of two readings in a row; the first reading of
\* a new guardian counts as 1 at most.
Want(t) ==
    IF Level(t) < 2 THEN Level(t)
    ELSE IF temp = "none" THEN 1
    ELSE IF Level(temp) < Level(t) THEN Level(temp) ELSE Level(t)

Ours == {s \in Svcs : hold[s] = "guardian"}

MutReleaseAll == held' = {} /\ hold' = [s \in Svcs |-> IF s \in held THEN Nobody ELSE hold[s]]
ReleaseAll ==
    /\ hold' = [s \in Svcs |-> IF s \in held \cup Ours THEN Nobody ELSE hold[s]]
    /\ held' = {}

\* check_once: the process table of this pass.
GRead ==
    /\ g = "idle" /\ g' = "thermal"
    /\ table' = {s \in Svcs : main[s] # "none" \/ s \in old}
    /\ seen' = {s \in Svcs : main[s] # "none"}
    /\ UNCHANGED <<main, old, hold, keepVars, gq, killing, temp, level, held, shed, faults>>

StoppedAt(l) == {s \in Svcs : (s \in Hot /\ l >= 2) \/ (s \in Critical /\ l >= 3)}

\* What a level stops: what is not held yet, or runs although it is.
ToHold(l) == {s \in StoppedAt(l) : s \notin held \/ s \in table}

\* thermal
Thermal(t) ==
    /\ g = "thermal" /\ g' = "floors" /\ temp' = t
    /\ \/ /\ level > 0 /\ t = "cool"
          /\ level' = 0 /\ ReleaseAll /\ gq' = {}
       \/ /\ ~(level > 0 /\ t = "cool")
          /\ level' = IF Want(t) > level THEN Want(t) ELSE level
          /\ IF level' = 0 /\ ~shed /\ t = "cool" /\ Ours # {}
             THEN ReleaseAll ELSE UNCHANGED <<hold, held>>
          /\ gq' = ToHold(level')
    /\ UNCHANGED <<procVars, keepVars, table, killing, shed, faults>>

\* hold: the file first, then SIGTERM to the processes of the table.
GHold(s) ==
    /\ s \in gq /\ killing = Nobody /\ killing' = s
    /\ hold' = [hold EXCEPT ![s] = "guardian"] /\ held' = held \cup {s}
    /\ UNCHANGED <<procVars, keepVars, g, table, gq, temp, level, shed, faults>>

GKill ==
    /\ killing # Nobody /\ killing' = Nobody
    /\ Terminated({killing} \cap seen)
    /\ gq' = gq \ {killing}
    /\ UNCHANGED <<hold, keepVars, g, table, temp, level, held, shed, faults>>

PassEnds == g' = "idle" /\ table' = {} /\ seen' = {}

MutRecovered(m) == m = "plenty" /\ shed
Recovered(m) == m = "plenty" /\ shed /\ level < 2

\* floors: memory below mem_shed_mb, above twice mem_alert_mb, or in between.
Floors(m) ==
    /\ g = "floors" /\ gq = {}
    /\ \/ /\ m = "low" /\ ~shed /\ shed' = TRUE /\ gq' = Hot /\ UNCHANGED <<hold, held>>
       \/ Recovered(m) /\ shed' = FALSE /\ ReleaseAll /\ gq' = {}
       \/ /\ ~(m = "low" /\ ~shed) /\ ~Recovered(m)
          /\ UNCHANGED <<shed, hold, held, gq>>
    /\ IF gq' = {} THEN PassEnds ELSE g' = "end" /\ UNCHANGED <<table, seen>>
    /\ UNCHANGED <<main, old, keepVars, killing, temp, level, faults>>

GEnd ==
    /\ g = "end" /\ gq = {} /\ PassEnds
    /\ UNCHANGED <<main, old, hold, keepVars, gq, killing, temp, level, held, shed, faults>>

\* The guardian is restarted; its hold files stay.
GRestart ==
    /\ faults < MaxFaults /\ faults' = faults + 1
    /\ g' = "idle" /\ table' = {} /\ seen' = {} /\ gq' = {} /\ killing' = Nobody
    /\ temp' = "none" /\ level' = 0 /\ held' = {} /\ shed' = FALSE
    /\ UNCHANGED <<main, old, hold, keepVars>>

-----------------------------------------------------------------------------
(* Others who use the hold files. *)

\* `s22-guardian release', another process: it holds nothing itself.
Release ==
    /\ faults < MaxFaults /\ faults' = faults + 1 /\ Ours # {}
    /\ hold' = [s \in Svcs |-> IF s \in Ours THEN Nobody ELSE hold[s]]
    /\ UNCHANGED <<procVars, keepVars, guardVars>>

\* The model bench holds a service for a run and lifts only its own hold.
OwnerHolds(s) ==
    /\ hold[s] = Nobody /\ hold' = [hold EXCEPT ![s] = "owner"]
    /\ UNCHANGED <<procVars, keepVars, guardVars, faults>>

OwnerLifts(s) ==
    /\ hold[s] = "owner" /\ hold' = [hold EXCEPT ![s] = Nobody]
    /\ UNCHANGED <<procVars, keepVars, guardVars, faults>>

-----------------------------------------------------------------------------
Init ==
    /\ main = [s \in Svcs |-> "none"] /\ old = {} /\ seen = {}
    /\ hold = [s \in Svcs |-> Nobody]
    /\ k = 0 /\ kp = "idle" /\ list = {}
    /\ bad = [s \in Svcs |-> "no"] /\ wait = {} /\ hist = [s \in Svcs |-> 0]
    /\ g = "idle" /\ table = {} /\ gq = {} /\ killing = Nobody
    /\ temp = "none" /\ level = 0 /\ held = {} /\ shed = FALSE
    /\ faults = 0

Keepalive == KRead \/ Judge \/ Stop \/ \E ok \in BOOLEAN : Start(ok)
Guardian ==
    \/ GRead \/ \E t \in Temps : Thermal(t)
    \/ \E s \in Svcs : GHold(s)
    \/ GKill \/ \E m \in {"low", "some", "plenty"} : Floors(m)
    \/ GEnd
Process(s) == Exit(s) \/ Die(s) \/ Health(s)

Next ==
    \/ Keepalive \/ KRestart \/ Guardian \/ GRestart \/ Release
    \/ \E s \in Svcs : Process(s) \/ Elapse(s) \/ OwnerHolds(s) \/ OwnerLifts(s)

\* Both daemons go on with their passes, a process that was sent SIGTERM exits,
\* time passes, and a start that is tried again and again succeeds once.
Fairness ==
    /\ WF_vars(Keepalive) /\ WF_vars(Guardian) /\ SF_vars(Start(TRUE))
    /\ \A s \in Svcs : WF_vars(Exit(s)) /\ WF_vars(Elapse(s))

Spec == Init /\ [][Next]_vars /\ Fairness

-----------------------------------------------------------------------------
(* What the two promise. *)

ProcessTypes ==
    /\ main \in [Svcs -> {"none", "up", "hung"}] /\ old \subseteq Svcs /\ seen \subseteq Svcs
    /\ hold \in [Svcs -> {Nobody, "guardian", "owner"}] /\ faults \in 0 .. MaxFaults
KeepTypes ==
    /\ k \in 0 .. Len(Order) /\ kp \in {"idle", "judge", "stop", "start"} /\ (k = 0 <=> kp = "idle")
    /\ list \subseteq Svcs /\ bad \in [Svcs -> {"no", "recent", "long"}] /\ wait \subseteq Svcs
    /\ hist \in [Svcs -> 0 .. MaxRestarts]
GuardTypes ==
    /\ g \in {"idle", "thermal", "floors", "end"} /\ table \subseteq Svcs /\ gq \subseteq Svcs
    /\ killing \in Svcs \cup {Nobody} /\ temp \in Temps \cup {"none"}
    /\ level \in 0 .. 3 /\ held \subseteq Svcs /\ shed \in BOOLEAN
TypeOK == ProcessTypes /\ KeepTypes /\ GuardTypes

\* The list keepalive decides by may be minutes old when it comes to a service;
\* it still starts no process beside one that was not told to stop.
NoSecond == kp = "start" => main[Order[k]] = "none"

\* While the last pass left level 2 or 3, what that level stops is held, unless
\* somebody ran `s22-guardian release'.
LevelIsHeld ==
    g = "idle" /\ faults = 0 => \A s \in StoppedAt(level) : hold[s] = "guardian"

\* When the phone stays hot, a process of the model does not stay, although
\* keepalive may be starting it when the guardian looks; and once the hold stays,
\* no other is started.
HotEndsStopped ==
    \A s \in Hot : <>[](temp \in {"hot", "critical"}) =>
        /\ []<>(main[s] = "none")
        /\ <>[](hold[s] # Nobody) => <>[](main[s] = "none")

\* When the phone stays cool and is not short of memory, no hold of the guardian
\* remains, its own or one left by an instance before it.
HoldsEnd == <>[](temp = "cool" /\ ~shed) => <>[](Ours = {})

\* A service nobody holds is started again whenever it is down, also after the
\* restart limit stopped keepalive for a while.
ComesBack ==
    \A s \in Svcs : <>[](hold[s] = Nobody) => []<>(main[s] # "none")
=============================================================================
