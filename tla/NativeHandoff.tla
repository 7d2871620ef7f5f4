--------------------------- MODULE NativeHandoff ---------------------------
(***************************************************************************)
(* How PID 1 gets from the recovery ramdisk to native Linux and, when that *)
(* fails early, back to Android or to recovery: init-wrapper.c, which owns *)
(* the path of the shipping init, native-guardian.c, which it execs, the   *)
(* native-start script the guardian supervises, and the host that          *)
(* acknowledges over SSH.                                                  *)
(*                                                                         *)
(* Time is counted in seconds and moves where PID 1 sleeps.  The keepalive *)
(* failure counter only selects a log line and is left out.                *)
(***************************************************************************)
EXTENDS Integers

CONSTANTS Deadline,      \* kDeadlineSeconds
          Timeout,       \* the watchdog's timeout, 30 s in the code
          MaxForkFails,  \* bound: forks that fail
          MaxDeaths      \* bound: native-start deaths that its own guards do not force

ASSUME DeadlineAssumption == Deadline \in Nat \ {0}
ASSUME TimeoutAssumption == Timeout \in Nat /\ Timeout > 4
ASSUME BoundsAssumption == MaxForkFails \in Nat /\ MaxDeaths \in Nat

VARIABLES
  build,      \* "recovery", or "boot" for -DS22_BOOT_RECOVERY_FALLBACK
  enabled,    \* /native-enable is in the ramdisk
  pc,         \* where PID 1 is
  files,      \* what is at /system/bin/init, init.android and init.wrapper
  watchdog,   \* PID 1 holds an open watchdog fd
  idle,       \* seconds since the last keepalive PID 1 attempted
  now,        \* seconds since native-start was first started, up to Deadline
  attempts,   \* restarts into recovery tried
  child,      \* the native-start process
  native_pid, \* the guardian tracks a native-start process
  prepared,   \* /newroot holds an executable sshd
  gadget,     \* who built /config/usb_gadget/g1
  owned,      \* /run/native-gadget-owned exists
  session,    \* the host has a shell on the phone
  ready,      \* /run/native-ready exists
  ack_confirmed, timeout_elapsed,
  forkFails, deaths

host == <<session, ready>>
native == <<child, prepared, gadget, owned>>
guard == <<native_pid, ack_confirmed, timeout_elapsed>>
clock == <<idle, now>>
config == <<build, enabled>>
vars == <<build, enabled, pc, files, watchdog, idle, now, attempts, child, native_pid,
          prepared, gadget, owned, session, ready, ack_confirmed, timeout_elapsed,
          forkFails, deaths>>

Working == {"base", "claimed", "built", "rooted", "resume", "sshd"}
Loop == {"pet", "observe", "deadline", "reap", "restart", "sleep"}
Final == {"android", "delegated", "rebooted", "panic"}

Inits == {"aosp", "wrapper", "none"}

Phases ==
  /\ build \in {"recovery", "boot"}
  /\ pc \in Loop \cup Final \cup {"wrapper", "delegate", "setup", "start", "fallback",
                                  "exec", "stuck", "restart_recovery"}
  /\ files \in [init : Inits, android : Inits, wrapper : Inits]
  /\ child \in Working \cup {"none", "zombie"} /\ gadget \in {"none", "native", "foreign"}
Flags ==
  /\ enabled \in BOOLEAN /\ watchdog \in BOOLEAN /\ native_pid \in BOOLEAN
  /\ prepared \in BOOLEAN /\ owned \in BOOLEAN /\ session \in BOOLEAN /\ ready \in BOOLEAN
  /\ ack_confirmed \in BOOLEAN /\ timeout_elapsed \in BOOLEAN
Counters ==
  /\ idle \in Nat /\ now \in 0 .. Deadline /\ attempts \in 0 .. 3
  /\ forkFails \in 0 .. MaxForkFails /\ deaths \in 0 .. MaxDeaths

(* The state space; idle has no bound of its own, WatchdogFed is about it. *)
TypeOK == Phases /\ Flags /\ Counters

(* A sleep of PID 1. *)
Slept(n) == /\ idle' = idle + n
            /\ now' = IF now + n < Deadline THEN now + n ELSE Deadline

(* The outcomes of the two renames: each may fail, and so may the one that *)
(* takes the first one back.                                               *)
Restored(f) == [f EXCEPT !.init = f.android, !.android = "none", !.wrapper = f.init]
RestoreFails(f) ==
  {f} \cup IF f.wrapper # "none" THEN {} ELSE {[f EXCEPT !.init = "none", !.wrapper = f.init]}
restore_aosp_init_path(f) ==
  (IF f.wrapper # "none" THEN {} ELSE {[ok |-> TRUE, files |-> Restored(f)]})
    \cup {[ok |-> FALSE, files |-> g] : g \in RestoreFails(f)}

Init ==
  /\ build \in {"recovery", "boot"} /\ enabled \in BOOLEAN
  /\ pc = "wrapper"
  /\ files = [init |-> "wrapper", android |-> "aosp", wrapper |-> "none"]
  /\ watchdog = FALSE /\ idle = 0 /\ now = 0 /\ attempts = 0
  /\ child = "none" /\ native_pid = FALSE /\ prepared = FALSE
  /\ gadget \in {"none", "foreign"} /\ owned = FALSE
  /\ session = FALSE /\ ready = FALSE
  /\ ack_confirmed = FALSE /\ timeout_elapsed = FALSE
  /\ forkFails = 0 /\ deaths = 0

-----------------------------------------------------------------------------
(* init-wrapper.c *)

(* Called with selinux_setup: the guardian replaces the wrapper when the   *)
(* marker is there and the exec works.                                     *)
Intercept ==
  /\ pc = "wrapper"
  /\ \/ enabled /\ pc' = "setup" /\ UNCHANGED watchdog
     \/ enabled /\ build = "recovery" /\ pc' = "delegate" /\ UNCHANGED watchdog
     \/ enabled /\ build = "boot" /\ pc' = "restart_recovery" /\ watchdog' \in BOOLEAN
     \/ ~enabled /\ pc' = "delegate" /\ UNCHANGED watchdog
  /\ UNCHANGED <<config, files, clock, attempts, native, guard, host, forkFails, deaths>>

(* The restored init, else init.android under its own name, else PID 1 exits. *)
Delegate ==
  /\ pc = "delegate"
  /\ \E r \in restore_aosp_init_path(files) :
       /\ files' = r.files
       /\ pc' \in (IF r.ok THEN {"android"} ELSE {})
                    \cup (IF r.files.android = "aosp" THEN {"delegated"} ELSE {}) \cup {"panic"}
  /\ UNCHANGED <<config, watchdog, clock, attempts, native, guard, host, forkFails, deaths>>

-----------------------------------------------------------------------------
(* native-guardian.c *)

(* Three restarts into recovery, a keepalive and a second of sleep after   *)
(* each; if none takes, keepalives for ever.                               *)
RestartRecovery ==
  /\ pc = "restart_recovery"
  /\ \/ attempts < 3 /\ pc' = "rebooted" /\ UNCHANGED <<attempts, clock>>
     \/ /\ attempts < 3 /\ attempts' = attempts + 1 /\ pc' = pc
        /\ idle' = 1 /\ now' = IF now < Deadline THEN now + 1 ELSE now
     \/ attempts = 3 /\ pc' = "stuck" /\ UNCHANGED <<attempts, clock>>
  /\ UNCHANGED <<config, files, watchdog, native, guard, host, forkFails, deaths>>

(* Markers are unlinked and the watchdog is opened and set to its timeout. *)
Setup ==
  /\ pc = "setup"
  /\ ready' = FALSE /\ owned' = FALSE
  /\ \/ watchdog' = TRUE /\ idle' = 0 /\ pc' = "start"
     \/ watchdog' = FALSE /\ pc' = "fallback" /\ UNCHANGED idle
  /\ UNCHANGED <<config, files, now, attempts, child, prepared, gadget, guard, session,
                 forkFails, deaths>>

(* fork and exec of native-start, in its first or its resuming form. *)
start_native(stage) ==
  \/ child' = stage /\ native_pid' = TRUE /\ UNCHANGED forkFails
  \/ /\ forkFails < MaxForkFails /\ forkFails' = forkFails + 1
     /\ native_pid' = FALSE /\ UNCHANGED child

StartFirst ==
  /\ pc = "start"
  /\ start_native("base")
  /\ pc' = IF native_pid' THEN "pet" ELSE "fallback"
  /\ now' = 0
  /\ UNCHANGED <<config, files, watchdog, idle, attempts, prepared, gadget, owned, host,
                 ack_confirmed, timeout_elapsed, deaths>>

PetWatchdog ==
  /\ pc = "pet" /\ pc' = "observe"
  /\ idle' = 0
  /\ UNCHANGED <<config, files, watchdog, now, attempts, native, guard, host, forkFails, deaths>>

ObserveAck ==
  /\ pc = "observe" /\ pc' = "deadline"
  /\ ack_confirmed' = (ack_confirmed \/ ready)
  /\ UNCHANGED <<config, files, watchdog, clock, attempts, native, native_pid, host,
                 timeout_elapsed, forkFails, deaths>>

MutCheckDeadline ==
  /\ pc = "deadline"
  /\ timeout_elapsed' = (timeout_elapsed \/ now >= Deadline)
  /\ pc' = IF timeout_elapsed' /\ ~ack_confirmed THEN "fallback" ELSE "reap"
  /\ UNCHANGED <<config, files, watchdog, clock, attempts, native, native_pid, host,
                 ack_confirmed, forkFails, deaths>>
CheckDeadline ==
  /\ pc = "deadline" /\ pc' = "reap"
  /\ timeout_elapsed' = (timeout_elapsed \/ now >= Deadline)
  /\ UNCHANGED <<config, files, watchdog, clock, attempts, native, native_pid, host,
                 ack_confirmed, forkFails, deaths>>

(* Every dead child is reaped; if the tracked one is among them the pass   *)
(* falls back or, after a second, restarts it.                             *)
ReapChildren ==
  /\ pc = "reap"
  /\ child' = IF child = "zombie" THEN "none" ELSE child
  /\ \/ ~(child = "zombie" /\ native_pid) /\ pc' = "sleep" /\ UNCHANGED <<clock, native_pid>>
     \/ /\ child = "zombie" /\ native_pid /\ native_pid' = FALSE
        /\ IF ~ack_confirmed /\ ~timeout_elapsed
           THEN pc' = "fallback" /\ UNCHANGED clock
           ELSE pc' = "restart" /\ Slept(1)
  /\ UNCHANGED <<config, files, watchdog, attempts, prepared, gadget, owned, host,
                 ack_confirmed, timeout_elapsed, forkFails, deaths>>

MutRestartRescue ==
  /\ pc = "restart" /\ pc' = "sleep"
  /\ start_native("base")
  /\ IF native_pid' THEN UNCHANGED clock ELSE Slept(2)
  /\ UNCHANGED <<config, files, watchdog, attempts, prepared, gadget, owned, host,
                 ack_confirmed, timeout_elapsed, deaths>>
RestartRescue ==
  /\ pc = "restart" /\ pc' = "sleep"
  /\ start_native("resume")
  /\ IF native_pid' THEN UNCHANGED clock ELSE Slept(2)
  /\ UNCHANGED <<config, files, watchdog, attempts, prepared, gadget, owned, host,
                 ack_confirmed, timeout_elapsed, deaths>>

SleepPass ==
  /\ pc = "sleep" /\ pc' = "pet"
  /\ Slept(1)
  /\ UNCHANGED <<config, files, watchdog, attempts, native, guard, host, forkFails, deaths>>

(* terminate_native, cleanup_gadget and restore_aosp_init_path. *)
FallBack ==
  /\ pc = "fallback"
  /\ \/ build = "boot" /\ pc' = "restart_recovery" /\ UNCHANGED <<files, native, native_pid>>
     \/ /\ build = "recovery"
        /\ native_pid' = FALSE /\ child' = IF native_pid THEN "none" ELSE child
        /\ gadget' = IF owned THEN "none" ELSE gadget
        /\ owned' = FALSE
        /\ \E r \in restore_aosp_init_path(files) :
             files' = r.files /\ pc' = IF r.ok THEN "exec" ELSE "stuck"
        /\ UNCHANGED prepared
  /\ UNCHANGED <<config, watchdog, clock, attempts, host, ack_confirmed, timeout_elapsed,
                 forkFails, deaths>>

(* The watchdog is closed whether or not it could be disabled. *)
ExecAndroid ==
  /\ pc = "exec"
  /\ watchdog' = FALSE
  /\ pc' \in {"android", "panic"}
  /\ UNCHANGED <<config, files, clock, attempts, native, guard, host, forkFails, deaths>>

MutStuck ==
  /\ pc = "stuck" /\ Slept(1) /\ idle < Timeout
  /\ UNCHANGED <<config, pc, files, watchdog, attempts, native, guard, host, forkFails, deaths>>
Stuck ==
  /\ pc = "stuck"
  /\ idle' = 1 /\ now' = IF now < Deadline THEN now + 1 ELSE now
  /\ UNCHANGED <<config, pc, files, watchdog, attempts, native, guard, host, forkFails, deaths>>

-----------------------------------------------------------------------------
(* native-start *)

MutClaimGadget ==
  /\ child = "base" /\ gadget = "none"
  /\ child' = "claimed" /\ gadget' = "native"
  /\ UNCHANGED <<prepared, owned>>
(* The ownership marker comes before the first directory. *)
ClaimGadget ==
  /\ child = "base" /\ gadget = "none"
  /\ child' = "claimed" /\ owned' = TRUE
  /\ UNCHANGED <<prepared, gadget>>

BuildGadget ==
  /\ child = "claimed" /\ child' = "built" /\ gadget' = "native"
  /\ UNCHANGED <<prepared, owned>>

PrepareRoot ==
  /\ child = "built" /\ child' = "rooted" /\ prepared' = TRUE
  /\ UNCHANGED <<gadget, owned>>

ExecSshd ==
  /\ child = "rooted" \/ (child = "resume" /\ prepared)
  /\ child' = "sshd"
  /\ UNCHANGED <<prepared, gadget, owned>>

(* Its own guards end it: a gadget it did not build, a root that is not there. *)
RefuseGadget ==
  /\ child = "base" /\ gadget # "none" /\ child' = "zombie"
  /\ UNCHANGED <<prepared, gadget, owned>>
RefuseResume ==
  /\ child = "resume" /\ ~prepared /\ child' = "zombie"
  /\ UNCHANGED <<prepared, gadget, owned>>

NativeStart ==
  /\ ClaimGadget \/ BuildGadget \/ PrepareRoot \/ ExecSshd \/ RefuseGadget \/ RefuseResume
  /\ UNCHANGED <<config, pc, files, watchdog, clock, attempts, guard, host, forkFails, deaths>>

(* A failing command, a crash or a kill, at any point. *)
NativeDies ==
  /\ child \in Working /\ deaths < MaxDeaths
  /\ child' = "zombie" /\ deaths' = deaths + 1
  /\ UNCHANGED <<config, pc, files, watchdog, clock, attempts, prepared, gadget, owned, guard,
                 host, forkFails>>

(* A shell of the host outlives the sshd it came through. *)
HostConnects ==
  /\ child = "sshd" /\ ~session /\ session' = TRUE
  /\ UNCHANGED <<config, pc, files, watchdog, clock, attempts, native, guard, ready, forkFails,
                 deaths>>

(* It touches the marker only while PID 1 is still the guardian. *)
HostAcks ==
  /\ session /\ ~ready /\ pc \notin Final
  /\ ready' = TRUE
  /\ UNCHANGED <<config, pc, files, watchdog, clock, attempts, native, guard, session, forkFails,
                 deaths>>

Guardian ==
  \/ Intercept \/ Delegate \/ RestartRecovery \/ Setup \/ StartFirst \/ PetWatchdog
  \/ ObserveAck \/ CheckDeadline \/ ReapChildren \/ RestartRescue \/ SleepPass
  \/ FallBack \/ ExecAndroid \/ Stuck

Next == Guardian \/ NativeStart \/ NativeDies \/ HostConnects \/ HostAcks

Spec == Init /\ [][Next]_vars
(* PID 1 and the script run on; failures and the host are left to chance.  *)
FairSpec == Spec /\ WF_vars(Guardian) /\ WF_vars(NativeStart)

-----------------------------------------------------------------------------
(* In native mode Android takes over only for a startup that failed early: *)
(* native-start is dead, neither an acknowledgement nor the end of the     *)
(* grace period had been seen, and never in the BOOT build, which restarts *)
(* into recovery or stays.                                                 *)
AndroidOnlyOnEarlyFailure ==
  enabled /\ pc \in {"exec", "android", "delegated"} =>
    /\ build = "recovery"
    /\ child \notin Working
    /\ ~ack_confirmed /\ ~timeout_elapsed

(* Android gets a phone it can use: its own init is back under the path it *)
(* will exec, the guardian holds no watchdog fd, and no gadget and no      *)
(* ownership marker of a native-start that died halfway is left behind.    *)
AndroidIsClean ==
  pc = "android" => files.init = "aosp" /\ ~watchdog /\ gadget # "native" /\ ~owned

(* While PID 1 holds the watchdog, no path through its loops lets the      *)
(* timeout pass without a keepalive.                                       *)
WatchdogFed == watchdog /\ pc \notin Final => idle < Timeout

(* After the grace period or the acknowledgement, a dead SSH is replaced   *)
(* by one that listens, if a root was ever prepared, unless a fork failed. *)
RescueReturns ==
  (pc \in Loop /\ child \in {"none", "zombie"} /\ prepared /\ (ack_confirmed \/ timeout_elapsed))
    ~> (child = "sshd" \/ forkFails > 0)
=============================================================================
