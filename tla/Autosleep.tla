------------------------------ MODULE Autosleep ------------------------------
(***************************************************************************)
(* s22-autosleep (tools/hardware/power/s22-autosleep.py): the daemon that  *)
(* suspends the phone to RAM while it is locked and idle.                  *)
(*                                                                         *)
(* The main loop reads the display, the disable flag, the inhibitors, the  *)
(* calls of s22-phoned and the kernel's wakeup count one after the other,  *)
(* and acts on what it read; `pc' is where in one pass of the loop the     *)
(* daemon is.  The display owner, the command line (`off', `on'), phoned,  *)
(* the USB cable and the kernel's wakeup sources move between those reads. *)
(* Time is counted in polls of poll_s, on the clock the loop uses, which   *)
(* stops while the phone is suspended.                                     *)
(***************************************************************************)
EXTENDS Integers, Sequences

CONSTANTS
    Grace,          \* lock_grace_s, in polls
    AwakeS,         \* awake_s
    NetAwakeS,      \* net_awake_s
    FirstBackoff,   \* the 5 s the failure backoff starts from
    MaxBackoff,     \* max_fail_backoff_s
    Inhibitors,     \* what inhibitors() finds in files, /proc and /sys
    Sources,        \* wakeup sources that are not ignored
    SuspendOnUsb,   \* suspend_on_usb
    Crashes,        \* whether SIGKILL or an uncaught error may end the daemon
    Rests           \* the rests due after 1, 2, ... failed suspends in a row

ASSUME TimesAssumption ==
    /\ Grace \in Nat /\ AwakeS \in Nat /\ NetAwakeS \in Nat
    /\ FirstBackoff \in Nat \ {0} /\ MaxBackoff \in Nat
    /\ FirstBackoff <= MaxBackoff
\* The policy's own table of rests: the first is 5 s, each is twice the one
\* before up to max_fail_backoff_s, which the last one is.
ASSUME RestsAssumption ==
    /\ Rests \in Seq(Nat) /\ Len(Rests) > 0
    /\ Rests[1] = FirstBackoff /\ Rests[Len(Rests)] = MaxBackoff
    /\ \A i \in 1 .. Len(Rests) - 1 :
          Rests[i + 1] = IF 2 * Rests[i] <= MaxBackoff THEN 2 * Rests[i] ELSE MaxBackoff
ASSUME SwitchesAssumption == SuspendOnUsb \in BOOLEAN /\ Crashes \in BOOLEAN

VARIABLES
    display,      \* /run/s22-display-state, written by the shell
    flag,         \* the persistent "disabled" file exists
    cli,          \* "off" once `s22-autosleep off' wrote the flag
    governor,     \* the cpufreq governor in force
    inhibit,      \* inhibitors that hold now (ssh, pcm, busy, files)
    call,         \* s22-phoned has a call
    usb,          \* nothing, a charger or a data host on the cable
    active,       \* wakeup sources active now, ignored ones aside
    moved,        \* wakeup_count differs from the value last read
    check,        \* kernel: abort the next suspend on a wakeup event
    rtc,          \* the RTC wake alarm is armed
    pc,           \* where the daemon is in its loop
    govState,     \* gov_state
    offFor,       \* polls since off_since; -1 stands for None
    awakeLeft,    \* polls left until awake_until
    failBackoff,  \* fail_backoff
    hs,           \* outcome of wakeup_count_handshake in this pass
    \* What happened, kept for the properties only:
    dark,         \* polls since this process started or last saw the screen on
    last,         \* what began the present rest: a resume, a failed suspend, ...
    streak,       \* failed suspends since the last one that went through
    upFor,        \* polls since `last', up to the rest that is due
    late          \* suspends since the screen came on, since the flag was set

env == <<display, cli, inhibit, call, usb>>
kernel == <<active, moved, check, rtc>>
daemon == <<pc, govState, offFor, awakeLeft, failBackoff, hs>>
past == <<dark, last, streak, upFor>>
vars == <<env, flag, governor, kernel, daemon, past, late>>

NoTime == -1

Lower(a, b) == IF a <= b THEN a ELSE b

\* A new process does not know which governor is in force.
MutInitialGovState == "unlocked"
InitialGovState == "none"

\* A rest begins now.
RestBegins(why) == last' = why /\ upFor' = 0

\* The rest the policy asks for after what happened last.
Due ==
    CASE last = "start" -> 0
      [] last = "net" -> NetAwakeS
      [] last = "resume" -> AwakeS
      [] last = "handshake" -> 1
      [] last = "failed" -> Rests[streak]

\* The end of the process loses every local variable.
Reset ==
    /\ govState' = InitialGovState /\ offFor' = NoTime /\ awakeLeft' = 0
    /\ failBackoff' = FirstBackoff /\ hs' = "none"
    /\ RestBegins("start") /\ streak' = 0 /\ dark' = 0 /\ UNCHANGED late

\* The kernel counts an event as in progress while its source is active,
\* the ignored USB sources included.
InProgress == active # {} \/ usb # "none"

-----------------------------------------------------------------------------
(* The daemon's loop. *)

\* run(): locals are initialised, the loop starts.  s22-keepalive restarts it.
Start ==
    /\ pc = "down" /\ pc' = "display"
    /\ Reset
    /\ UNCHANGED <<env, flag, governor, kernel>>

\* disp != "off": forget off_since, put the unlocked governor back, sleep.
ScreenOn ==
    /\ pc = "display" /\ display = "on"
    /\ offFor' = NoTime /\ dark' = 0
    /\ governor' = IF govState # "unlocked" THEN "unlocked" ELSE governor
    /\ govState' = "unlocked"
    /\ pc' = "sleep"
    /\ UNCHANGED <<env, flag, kernel, awakeLeft, failBackoff, hs, last, streak, upFor, late>>

\* The screen is off: off_since starts with the first pass that sees it.
MutOffSince == 0
OffSince == IF offFor = NoTime THEN 0 ELSE offFor

ScreenOff ==
    /\ pc = "display" /\ display = "off"
    /\ offFor' = OffSince
    /\ pc' = "flag"
    /\ UNCHANGED <<env, flag, governor, kernel, govState, awakeLeft, failBackoff, hs, past, late>>

\* The flag decides the governor.  Only a governor this process locked is
\* unlocked again; a lock is decided here and written in SetLocked.
Unlocks == govState = "locked"

CheckFlag ==
    /\ pc = "flag"
    /\ IF flag
         THEN /\ governor' = IF Unlocks THEN "unlocked" ELSE governor
              /\ govState' = IF Unlocks THEN "unlocked" ELSE govState
              /\ pc' = "grace"
         ELSE /\ pc' = IF govState # "locked" THEN "lock" ELSE "grace"
              /\ UNCHANGED <<governor, govState>>
    /\ UNCHANGED <<env, flag, kernel, offFor, awakeLeft, failBackoff, hs, past, late>>

SetLocked ==
    /\ pc = "lock" /\ pc' = "grace"
    /\ governor' = "locked" /\ govState' = "locked"
    /\ UNCHANGED <<env, flag, kernel, offFor, awakeLeft, failBackoff, hs, past, late>>

\* now - off_since < lock_grace_s or now < awake_until
NotYet == offFor < Grace \/ awakeLeft > 0

CheckGrace ==
    /\ pc = "grace"
    /\ pc' = IF NotYet THEN "sleep" ELSE "inhibit"
    /\ UNCHANGED <<env, flag, governor, kernel, govState, offFor, awakeLeft, failBackoff, hs,
                   past, late>>

\* inhibitors() up to the call to phoned: what any one of keeps the phone up.
MutInhibited == inhibit # {} \/ (usb = "host" /\ ~SuspendOnUsb) \/ active # {}
Inhibited ==
    flag \/ inhibit # {} \/ (usb = "host" /\ ~SuspendOnUsb) \/ active # {}

CheckInhibitors ==
    /\ pc = "inhibit"
    /\ pc' = IF Inhibited THEN "sleep" ELSE "calls"
    /\ UNCHANGED <<env, flag, governor, kernel, govState, offFor, awakeLeft, failBackoff, hs,
                   past, late>>

\* calls_active(): GET /status; an unreachable or slow phoned counts as no call.
CheckCalls ==
    /\ pc = "calls"
    /\ \E answered \in BOOLEAN :
         pc' = IF answered /\ call THEN "sleep" ELSE "count"
    /\ UNCHANGED <<env, flag, governor, kernel, govState, offFor, awakeLeft, failBackoff, hs,
                   past, late>>

\* hs is False: the loop starts over, up for 2 s.
HandshakeFails == awakeLeft' = 1 /\ pc' = "display" /\ RestBegins("handshake")

\* wakeup_count_handshake, first half: skipped while an ignored source is
\* active, given up by the 2 s alarm when the read blocks on an event.
ReadCount ==
    /\ pc = "count"
    /\ IF usb # "none"
         THEN hs' = "skipped" /\ pc' = "suspend" /\ UNCHANGED <<moved, awakeLeft, last, upFor>>
         ELSE IF active # {}
                THEN hs' = "failed" /\ HandshakeFails /\ UNCHANGED moved
                ELSE /\ hs' = "reading" /\ moved' = FALSE /\ pc' = "write"
                     /\ UNCHANGED <<awakeLeft, last, upFor>>
    /\ UNCHANGED <<env, flag, governor, active, check, rtc, govState, offFor, failBackoff,
                   dark, streak, late>>

\* The kernel takes the count written back only while no event came since.
CountIsCurrent == ~moved /\ ~InProgress

\* A handshake that takes a refused write for an accepted one.
MutWriteCount ==
    /\ pc = "write"
    /\ hs' = "armed" /\ check' = (check \/ CountIsCurrent) /\ pc' = "suspend"
    /\ UNCHANGED <<env, flag, governor, active, moved, rtc, govState, offFor, awakeLeft,
                   failBackoff, past, late>>

\* Second half: the write either arms the kernel's check or fails.
WriteCount ==
    /\ pc = "write"
    /\ IF CountIsCurrent
         THEN /\ hs' = "armed" /\ check' = TRUE /\ pc' = "suspend"
              /\ UNCHANGED <<awakeLeft, last, upFor>>
         ELSE hs' = "failed" /\ HandshakeFails /\ UNCHANGED check
    /\ UNCHANGED <<env, flag, governor, active, moved, rtc, govState, offFor, failBackoff,
                   dark, streak, late>>

\* pm_wakeup_pending() of the kernel.
WakeupPending == check /\ (moved \/ InProgress)

\* What should have kept this suspend from happening counts it.
Causes == {"screen", "flag"}
Holds(cause) == IF cause = "screen" THEN display = "on" ELSE flag

\* suspend_once: arm the RTC, write "mem", and the kernel goes down.
Suspend ==
    /\ pc = "suspend" /\ ~WakeupPending
    /\ rtc' = TRUE
    /\ pc' = "asleep"
    /\ late' = [c \in Causes |-> IF Holds(c) THEN late[c] + 1 ELSE late[c]]
    /\ UNCHANGED <<env, flag, governor, active, moved, check, govState, offFor, awakeLeft,
                   failBackoff, hs, past>>

MutNextBackoff(b) == b
NextBackoff(b) == Lower(MaxBackoff, 2 * b)

\* The write of "mem" fails (EBUSY on a pending event, or a device refuses):
\* the alarm is cleared, the phone stays up for the backoff, which doubles.
SuspendFails ==
    /\ pc = "suspend"
    /\ rtc' = FALSE /\ check' = FALSE
    /\ awakeLeft' = failBackoff
    /\ failBackoff' = NextBackoff(failBackoff)
    /\ pc' = "display"
    /\ RestBegins("failed") /\ streak' = Lower(Len(Rests), streak + 1)
    /\ UNCHANGED <<env, flag, governor, active, moved, govState, offFor, hs, dark, late>>

\* Resume: the alarm is cleared, the backoff starts over, and net_only_wake
\* picks the minimum time awake.
Resume(net) ==
    /\ pc = "asleep"
    /\ rtc' = FALSE /\ check' = FALSE
    /\ failBackoff' = FirstBackoff
    /\ awakeLeft' = IF net THEN NetAwakeS ELSE AwakeS
    /\ pc' = "display"
    /\ RestBegins(IF net THEN "net" ELSE "resume") /\ streak' = 0
    /\ UNCHANGED <<flag, governor, govState, offFor, hs, dark, late>>

\* The housekeeping alarm of max_sleep_s.
RtcWake == rtc /\ Resume(FALSE) /\ UNCHANGED <<env, active, moved>>

\* A wakeup interrupt: a packet or SMS (net) or another source.
EventWake ==
    /\ \E s \in Sources, net \in BOOLEAN : active' = active \cup {s} /\ Resume(net)
    /\ UNCHANGED <<env, moved>>

\* time.sleep(poll_s)
Sleep ==
    /\ pc = "sleep" /\ pc' = "display"
    /\ offFor' = IF offFor = NoTime THEN NoTime ELSE Lower(Grace, offFor + 1)
    /\ awakeLeft' = IF awakeLeft = 0 THEN 0 ELSE awakeLeft - 1
    /\ dark' = Lower(Grace, dark + 1) /\ upFor' = Lower(Due, upFor + 1)
    /\ UNCHANGED <<env, flag, governor, kernel, govState, failBackoff, hs, last, streak, late>>

\* SIGTERM: the handler puts the unlocked governor back, then exits.
Terminate ==
    /\ pc \notin {"down", "asleep"} /\ pc' = "down"
    /\ governor' = "unlocked"
    /\ Reset
    /\ UNCHANGED <<env, flag, kernel>>

\* SIGKILL, or an error the loop does not catch.
Crash ==
    /\ Crashes /\ pc \notin {"down", "asleep"} /\ pc' = "down"
    /\ Reset
    /\ UNCHANGED <<env, flag, governor, kernel>>

-----------------------------------------------------------------------------
(* The rest of the phone; nothing of it runs while the phone is suspended. *)

Running == pc # "asleep"

\* s22-autosleep off: the flag first, then the governor.
OffWritesFlag ==
    /\ Running /\ cli = "idle" /\ cli' = "off"
    /\ flag' = TRUE
    /\ UNCHANGED <<display, inhibit, call, usb, governor, kernel, daemon, past, late>>

OffSetsGovernor ==
    /\ Running /\ cli = "off" /\ cli' = "idle"
    /\ governor' = "unlocked"
    /\ UNCHANGED <<display, inhibit, call, usb, flag, kernel, daemon, past, late>>

\* s22-autosleep on
On ==
    /\ Running /\ cli = "idle" /\ flag /\ flag' = FALSE
    /\ late' = [late EXCEPT !["flag"] = 0]
    /\ UNCHANGED <<env, governor, kernel, daemon, past>>

\* The shell turns the screen on or off.
Display ==
    /\ Running
    /\ display' = IF display = "on" THEN "off" ELSE "on"
    /\ late' = [late EXCEPT !["screen"] = 0]
    /\ UNCHANGED <<cli, inhibit, call, usb, flag, governor, kernel, daemon, past>>

\* A session, a playback or an inhibit file comes or goes.
Inhibit ==
    /\ Running
    /\ \E i \in Inhibitors : inhibit' = IF i \in inhibit THEN inhibit \ {i} ELSE inhibit \cup {i}
    /\ UNCHANGED <<display, cli, call, usb, flag, governor, kernel, daemon, past, late>>

Call ==
    /\ Running /\ call' = ~call
    /\ UNCHANGED <<display, cli, inhibit, usb, flag, governor, kernel, daemon, past, late>>

\* The cable: its wakeup source is active while something is attached, and
\* the kernel counts an event when it goes.
Usb ==
    /\ Running
    /\ usb' \in {"none", "charger", "host"} \ {usb}
    /\ moved' = (moved \/ usb' = "none")
    /\ UNCHANGED <<display, cli, inhibit, call, flag, governor, active, check, rtc, daemon, past, late>>

\* A wakeup source becomes active; when it is done the kernel counts the event.
EventBegins ==
    /\ Running
    /\ \E s \in Sources \ active : active' = active \cup {s}
    /\ UNCHANGED <<env, flag, governor, moved, check, rtc, daemon, past, late>>

EventEnds ==
    /\ Running
    /\ \E s \in active : active' = active \ {s}
    /\ moved' = TRUE
    /\ UNCHANGED <<env, flag, governor, check, rtc, daemon, past, late>>

-----------------------------------------------------------------------------
Init ==
    /\ display \in {"on", "off"} /\ flag \in BOOLEAN /\ cli = "idle"
    /\ governor = "unlocked"
    /\ inhibit = {} /\ call = FALSE /\ usb = "none"
    /\ active = {} /\ moved = FALSE /\ check = FALSE /\ rtc = FALSE
    /\ pc = "down" /\ govState = InitialGovState /\ offFor = NoTime
    /\ awakeLeft = 0 /\ failBackoff = FirstBackoff /\ hs = "none"
    /\ dark = 0 /\ last = "start" /\ streak = 0 /\ upFor = 0 /\ late = [c \in Causes |-> 0]

Loop ==
    \/ ScreenOn \/ ScreenOff \/ CheckFlag \/ SetLocked \/ CheckGrace
    \/ CheckInhibitors \/ CheckCalls \/ ReadCount \/ WriteCount
    \/ Suspend \/ SuspendFails \/ Sleep

Environment ==
    \/ OffWritesFlag \/ OffSetsGovernor \/ On \/ Display \/ Inhibit \/ Call
    \/ Usb \/ EventBegins \/ EventEnds

Next == Start \/ Loop \/ RtcWake \/ EventWake \/ Terminate \/ Crash \/ Environment

Spec == Init /\ [][Next]_vars

\* The loop is a running process, keepalive restarts it, the RTC fires, a
\* command that began ends, and a device that refuses to suspend does not do
\* so for ever.
Fairness ==
    /\ WF_vars(Start) /\ WF_vars(Loop) /\ WF_vars(RtcWake)
    /\ WF_vars(OffSetsGovernor) /\ SF_vars(Suspend)

FairSpec == Spec /\ Fairness

-----------------------------------------------------------------------------
(* What the daemon promises. *)

Pcs == {"down", "display", "flag", "lock", "grace", "inhibit", "calls", "count",
        "write", "suspend", "asleep", "sleep"}

SwitchesOK ==
    /\ flag \in BOOLEAN /\ call \in BOOLEAN
    /\ moved \in BOOLEAN /\ check \in BOOLEAN /\ rtc \in BOOLEAN

ModesOK ==
    /\ display \in {"on", "off"} /\ cli \in {"idle", "off"}
    /\ governor \in {"locked", "unlocked"} /\ govState \in {"none", "locked", "unlocked"}
    /\ usb \in {"none", "charger", "host"} /\ pc \in Pcs
    /\ hs \in {"none", "skipped", "failed", "reading", "armed"}
    /\ inhibit \subseteq Inhibitors /\ active \subseteq Sources

TimesOK ==
    /\ offFor \in NoTime .. Grace /\ awakeLeft \in Nat
    /\ failBackoff \in FirstBackoff .. MaxBackoff

PastOK ==
    /\ dark \in 0 .. Grace /\ upFor \in Nat /\ late \in [Causes -> Nat]
    /\ last \in {"start", "net", "resume", "handshake", "failed"}
    /\ streak \in 0 .. Len(Rests) /\ (last = "failed" => streak > 0)

TypeOK == SwitchesOK /\ ModesOK /\ TimesOK /\ PastOK

\* A suspend that went through with the handshake slept on no wakeup event:
\* none is in progress and none was counted since wakeup_count was read
\* (wakeup_count_handshake: "kernel will abort the suspend if a wakeup event
\* arrives from now on").
NoEventSleptOn ==
    pc = "asleep" /\ hs = "armed" => ~moved /\ ~InProgress

\* A suspend is tried only after lock_grace_s of polls none of which saw the
\* screen on, and after the rest the policy asks for since the last resume
\* (awake_s, or net_awake_s after a packet), lost handshake (2 s) or failed
\* suspend: the n-th failure in a row earns the n-th rest of the table.
RestedBeforeSleep ==
    pc = "suspend" => dark = Grace /\ upFor = Due

\* A locked, idle phone whose daemon runs keeps going to sleep.
Quiet ==
    /\ display = "off" /\ ~flag /\ inhibit = {} /\ ~call /\ usb = "none"
    /\ active = {} /\ pc # "down"

EventuallySleeps == <>[]Quiet => []<>(pc = "asleep")

\* The display and the flag are read once per pass, a process scan and a
\* call to phoned before the suspend, so the phone may be suspended with its
\* screen on.  That happens at most once: however long the screen stays on
\* or the flag stays set, no second suspend follows the first.
OneLateSuspend == \A c \in Causes : Holds(c) => late[c] <= 1

\* A screen that stays on gets the unlocked governor back, across restarts
\* and crashes of the daemon, once a daemon stays up.
ScreenOnGovernor ==
    <>[](display = "on" /\ pc # "down") => <>[](governor = "unlocked")
=============================================================================
