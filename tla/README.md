# TLA+ models of unumS22linux

This project models the long-lived programs that keep a Galaxy S22 usable as a
Linux phone: the handoff that boots it, the daemons that talk to the modem, the
policies that put it and its Wi-Fi to sleep, the supervisors that keep its
services running and cool, the proxy of the local model, and the VoIP agent. It checks the models with TLC
on small instances and proves part of what is checked for every value of the
constants with TLAPS. `PROJECT.json` maps every definition to the source lines
it stands for and lists the runs, mutants, findings, hazards and theorems.

Paths below are relative to the repository (`tools/...`).

## 1. The system

### 1.1 Components

| Component | State it keeps | Operations | Hard behaviour | What makes it correct |
|---|---|---|---|---|
| **native-handoff** (`tools/native-handoff`): `init-wrapper.c` in the place of init, `native-guardian.c` as PID 1, the `native-start` script | names of three init binaries, the watchdog fd, the child's pid, markers in `/run`, the USB gadget | exec, fork, reap, restart, fall back, feed the watchdog | the child dies anywhere; execs, renames and forks fail; the host acknowledges at any time; a deadline | Android gets the phone only when native startup failed early, and gets it clean; the watchdog is always fed; the rescue SSH comes back |
| **s22-autosleep** (`tools/hardware/power`) | off_since, awake_until, backoff, governor; kernel wakeup count | one pass of the loop: read display, flag, inhibitors, calls, count; suspend | everything it read may change before it acts; crashes | no wakeup event is slept on; it sleeps when it may, rests between suspends, and suspends against a fresh display or flag at most once |
| **s22-phoned** (`tools/hardware/phoned`), the modem daemon | link and pending requests; inbox, partial messages, outbox, rate window, grants; PIN counters; calls, data call | reader thread, worker thread, HTTP threads, the CP's own events | three kinds of threads; answers late, lost, duplicated or unnumbered; crash; full disk | answers reach their own request; no SMS is lost; grants and limits hold; the SIM is not blocked |
| **s22-netpolicy** (`tools/hardware/network`) | routes, DNS, data call; Wi-Fi saver state in memory and in a file | the tick; `off`, `on`, `saver`; SIGTERM; recovery at start | the command line runs beside the daemon and shares files; kills between a command and its record | a parked Wi-Fi comes back; a known network is found |
| **s22-keepalive** (`tools/hardware`) | per service: since when it is bad, next try, restarts in the window | one pass: read the process list, then per service look at the hold, decide, stop, start | one process list for a pass that may take minutes; holds come and go meanwhile | no second process; what died comes back; what is held stays down |
| **s22-guardian** (`tools/hardware`) | thermal level, what it holds, memory shed, last temperature | one pass: process table, thermal, memory; `release` | shares only the hold files with keepalive and the bench; forgets everything on restart | heat stops what it should, holds end when it is cool |
| **s22-llama-ondemand** (`tools/hardware`) | backend process, requests in flight, retry budget; three state files | admit, load, relay, count, unload (idle, HTTP, SIGTERM), reap the predecessor | threads write snapshots after they release the lock; the proxy and the backend die anywhere | one model in memory; a failing request is not tried for ever; requests end; memory is freed |
| **s22-sip** (`tools/hardware/voip`) | per call: state, ended, acked, media, socket | INVITE, ACK, CANCEL, BYE, the answering thread, supervision | UDP loses, repeats and reorders; CANCEL meets the answering thread | a handshake; a call that is over falls silent; no end is left behind |
| s22-turnguard | turns, cancel and retry budget | poll, cancel, escalate | turns end by themselves while being cancelled | each turn ends, budgets hold |
| s22d (`tools/s22d`) | settings, grants, confirmations | HTTP handlers | writes the grants phoned consumes | one-shot grants |
| unum-fastshell, s22-touchd, OpenUnum plugins, camera, probes and build scripts | UI state; none | | mostly sequential | see `components` in PROJECT.json |

### 1.2 Interaction

* The handoff starts the system; afterwards `s22-keepalive` restarts the
  daemons. `Services` shows that it does (`ComesBack`); the other models assume it
  (a daemon that ended is started again), and allow a crash at any point.
* keepalive, guardian and the model bench meet in the files `/run/s22-hold/*`:
  `Services` composes the first two over them. The proxy looks at the same files
  before it loads the model; there the guardian is an input (`Hold`).
* The shell writes `/run/s22-display-state`; autosleep and netpolicy read it.
* autosleep asks phoned over HTTP for calls; it runs beside its own command
  line, which writes the `disabled` flag and the governor.
* s22d writes one-shot grants as files; phoned's HTTP threads consume them.
* phoned's threads share one link to the modem (CP). Every other part of phoned
  is a client of that link.
* netpolicy asks phoned for a data call and shares its saver file and flags
  with its own command line.

## 2. Modules

| Module | Models | Extended by |
|---|---|---|
| `NativeHandoff` | init-wrapper, native-guardian (both builds), native-start, the host's ACK | `NativeHandoffProofs`, `MCNativeHandoff` |
| `Autosleep` | s22-autosleep, its command line, the kernel's wakeup count and suspend | `PowerPolicyProofs`, `MCAutosleep` |
| `RequestService` | the abstract specification of what Link promises its callers | |
| `PhonedLink` | class Link of s22-phoned; implements `RequestService` | `PhonedLinkPinProofs`, `MCPhonedLink` |
| `PhonedSweep` | incoming SMS: reassembly, inbox, acks, SIM sweep | `PhonedSweepProofs`, `MCPhonedSweep` |
| `PhonedOutbox` | outgoing SMS: gates, grants, rate limit, acks, status reports | `PhonedOutboxProofs`, `MCPhonedOutbox` |
| `PhonedPin` | the SIM PIN and the card | `PhonedLinkPinProofs`, `MCPhonedPin` |
| `NetSaver` | the Wi-Fi saver of s22-netpolicy and its commands | `PowerPolicyProofs`, `MCNetSaver` |
| `Services` | s22-keepalive and s22-guardian on the same services, and the bench's hold | `ServicesProofs`, `MCServices` |
| `OnDemand` | s22-llama-ondemand with its backend and state files | `OnDemandProofs`, `MCOnDemand` |
| `Handshake` | the abstract specification of a call's three-way handshake | |
| `SipCall` | a call between two s22-sip agents; implements `Handshake` | `SipCallProofs`, `MCSipCall` |

The daemons are separate processes. Two that act on the same things are composed
in one module (`Services`); otherwise what one daemon sees of another is an input
(the display, a call, a grant, a hold). `PhonedSweep`,
`PhonedOutbox` and `PhonedPin` use the link by what `PhonedLink` shows it
delivers: an answer, none, a late one, or somebody else's when a RESP carries no
number. Definitions whose names start with `Mut` are the mutated forms of the
definition that follows them and are used by no specification.

### NativeHandoff

`pc` is the point PID 1 has reached: `wrapper` and `delegate` are in
init-wrapper.c, the others in native-guardian.c (`setup`, `start`, the loop
`pet`, `observe`, `deadline`, `reap`, `restart`, `sleep`, and the ways out).
`child` is the stage native-start has reached, which is what a death there leaves
behind: nothing, an ownership marker, a gadget, a root, a running sshd. `files`
is what lies at the three init paths; `restore_aosp_init_path` gives every
outcome of its two renames and of the one that undoes the first.
`build` is the compile-time switch `S22_BOOT_RECOVERY_FALLBACK`. Time moves
where PID 1 sleeps; `idle` counts seconds since the last attempted keepalive.
Taken to succeed: `cleanup_gadget`. Left out: the keepalive failure counter,
which selects a log line.

### Autosleep

`pc` is the point of one pass: the code reads the display, the flag, the grace,
the inhibitors, the calls and `wakeup_count` one after the other and each read
is a step, so that all else may move between a read and what is done with it.
The kernel side is `active` (sources in progress), `moved` (the count differs from
what was read) and `check` (armed by a successful write). Times are in polls.
The history of `past` (polls since the screen was on, polls since the last resume,
failures in a row, suspends while a cause to stay up held) is what `RestedBeforeSleep` and
`OneLateSuspend` speak of; the loop does not read it. `Rests` is the table of
doubled rests that the failure backoff walks through.
`Terminate` is SIGTERM with its handler, `Crash` is SIGKILL.

### PhonedLink and RequestService

`pending` is the dict, `obj` the Pending objects, numbered in the order they
register (which is also the dict's order). A caller goes through `register`,
`write` and `wait`; `WriteOnClosed` is the TypeError of `os.write(None, ...)`
after a drop between check and write. `Answer` is the CP: a GEN, alone or
with a RESP that carries the number or 0. `CameRound` is an assumption: by the
time a number is used again (after 255 requests), the answers to its earlier
request have arrived or are lost. `RequestService` knows nothing of numbers, frames
or threads: requests are asked, judged, replied to and woken, and the link is lost and
reopened. The mapping reads kind, GEN, RESP and event off the Pending objects.

### PhonedSweep

A PDU is a part of a message; a record of the inbox keeps the parts it was made
of. `rd` is the record the reader thread is about to store, so that the store
interleaves with a sweep. `items` and `disk` are memory and file of `JsonlStore`:
`put` adds to memory first, and the write may fail. `w` is the worker's place in
`sweep_sim`; `late` are slot-read answers that missed their timeout. `gone` is a
history variable: what was deleted from the SIM.

### PhonedOutbox

Each call of `send_sms` is a message; `pc` is where it is (gates, grant,
rate, lock, send, ack, store). `grant` is the file s22d writes; reading and
unlinking it are two steps. `acks` is the queue the reader thread fills: it first wakes
the oldest waiter (`SendResp`, s22-phoned.py:1031) and only then puts the ack (`PutResp`,
1033; `putting` is what it has in hand), so that the next message may drain in between.
`granted`, `used`, `sent` and `overtaken` (messages that drained while an older ack was
still on its way) are history variables. One recipient, one hour.

### PhonedPin

Threads go through the check (`gate`, under the lock), the write (`send`), the
wait, the card's verdict (`right`, `wrong`) and the recording of it. `orphans` are
PINs whose thread gave up before the card judged them; `leftover` are
those of an earlier run. `StatusAnswers` is the unnumbered RESP of a status
request that a waiting PIN request takes for its own.

### NetSaver

`place["daemon"]` and `place["cli"]` are the two processes that run `unpark`. Each
command (`ip`, `wpa_cli`) and the record that follows it are separate steps, so a
kill, a SIGTERM or the other process may come in between. `wpa` and `link` are
the two ways the radio can be off; `parked` is memory, `file` is the state file.

### Services

`main` is the process of a service, `old` the ones that got SIGTERM and have not
exited. `k`, `kp` is keepalive's place: it reads `list` once (`KRead`) and then, per
service, `Judge` (hold file and `decide`), `Stop` and `Start` are steps that
everything else interleaves with. `g` is the guardian's place: `GRead`, `Thermal`,
a hold file and its SIGTERM as two steps (`GHold`, `GKill`), `Floors`. `seen` tells
which processes are still those of the guardian's table. Timers are
flags that `Elapse` clears, so a timer may end at any time but ends. A temperature
is one of five ranges between the thresholds; a memory reading one of three.

### OnDemand

`pc` is where a thread is: `ask` (waiting for the lock), `cleared` (past the look at the
hold), `spawned` and `load` (these three hold the lock), `connect`, `sent`, `save`, `relay`,
`stuck` (the client does not read), `pass` (a relay without limits), `unsave`, `count`,
`savebudget`. `kind` is what the connection carries: the one request whose failures are
followed, another generation, or something else. The
snapshots `asnap` and `bsnap` are what a thread took under a lock and writes to
`active.json` and `budget.json` after it; a write may fail, or be an older snapshot than
the one it replaces. `Killed` is SIGKILL at
any point, `Bye` is SIGTERM; `Start` is the next proxy, which kills the backend whose
pid is in `backend.json` and counts the requests of `active.json` as failed.
`wasted`, `forgot` and `sneaked` are history variables. `scene` is a bound: see Bounds.

### SipCall and Handshake

`net` is the set of datagrams ever sent: each may arrive any number of times, at any
time, or never. The caller has its main thread (`ca`) and the receiving thread, the
callee its main thread (`main`), the answering thread (`ans`: the points between
`_answer`'s checks and assignments) and the receiving thread, which handles a
CANCEL in two steps (487, then `_end`). `_end` sets the state under the call's lock
(`EndCaller`, `EndCallee`) and then, without it, looks at `call.rtp`, stops it, closes the
socket and sets `ended`: `cEnding` and `sEnding` are where each thread is in that
(`CallerStops`, `CalleeStops`). `_start_media` has three steps (make, start, port). All
of these steps interleave.
`Handshake` has three facts: an answer was offered, it was taken, the callee knows so
and talks. The mapping is `offered` = a 200 was sent, `taken` = the caller has set
`last_ack`, `talking` = the callee's call is confirmed and acked.

## 3. Runs

| Run | Instance | Distinct states | Result |
|---|---|---|---|
| `handoff` | Deadline 6, Timeout 5, 2 failed forks, 4 deaths | 4,219 | `AndroidOnlyOnEarlyFailure`, `AndroidIsClean`, `WatchdogFed`, `RescueReturns` hold |
| `autosleep` | grace 2, rests 1, 2, 3, one inhibitor, one source | 485,200 | `NoEventSleptOn`, `RestedBeforeSleep`, `EventuallySleeps`, `OneLateSuspend`, `ScreenOnGovernor` hold |
| `link` | 2 callers (symmetric), 2 numbers, 3 requests | 3,574,882 | `WaiterIsReachable`, `GenIsOwn`, `StrictAnswersAreOwn`, `IsService` (refinement) hold |
| `sweep` | 3 parts, 2 slots, 1 fault | 5,625,775 | `DeletedIsInFile` holds |
| `sweep_faults` | 2 parts and a status report, 1 late answer, 1 failed write, 1 fault | 7,818,444 | `SweptOnce`, `AckedIsHeld` hold |
| `sweep_late_answer` | 3 slots, 1 late answer | until violated | `DeletedIsInFile` is violated |
| `outbox` | 3 messages (one of 2 parts), limit 2, 1 grant, 1 crash, 1 status report; acks late and doubled | 8,310,571 | `OneCallPerGrant`, `WithinLimit`, `AcksAreOwn` hold |
| `pin` | 2 HTTP threads, worker, 1 stray answer, 1 restart | 1,034,358 | `LossIsBounded`, `AutoOnce` hold |
| `netsaver` | all times 1 pass, 2 kills, 1 failed command, 2 commands, 1 edit | 364,880 | `ParkedIsKnown`, `WifiComesBack`, `KnownIsFound`, `ScansEnd` hold |
| `services` | one service (stopped by heat), restart limit 2, 1 restart or release | 491,489 | `NoSecond`, `LevelIsHeld`, `HotEndsStopped`, `HoldsEnd`, `ComesBack` hold |
| `ondemand` | 2 connections, retry limit 2, 1 death of the proxy, 1 failed write, two scenes | 362,158 | `OneBackend`, `WasteIsBounded`, `HoldLetsOneIn`, `RequestsEnd`, `MemoryIsFreed` hold |
| `sip_call` | one call, without `--keep-listening` | 98,019 | `SilentWhenOver`, `MediaEnds`, `IsHandshake` (refinement), `NoCalleeLeft`, `NoCallerLeft` hold |

Each property is stated in a comment
above its definition; for each one a mutant (a dropped guard, an off-by-one, a
missing reset, a swapped order) is listed in PROJECT.json under which TLC finds it
violated.

### What the violation shows

`sweep_late_answer`: a slot read times out, its answer comes during the next
slot's read and is taken for it (`Link._dispatch` falls back to the oldest
waiter of the command, and the index in the answer is not compared). The
sweep stores one message and deletes another.

### Behaviour seen in the models on which no run is spent

* Autosleep: `off` writes the flag, then sets the governor; a daemon between
  `CheckFlag` and `SetLocked` locks it again, and a crash then forgets that it
  did, so a screen that stays off may keep the locked governor while disabled.
* Link: a TypeError in `send` after a drop leaves the Pending registered; its
  number stays taken until the next drop.
* Inbox: a sweep that looked before the reader stored keeps a message twice.
* Handoff: a rescue whose fork fails is not tried again; a native-start that
  died after the grace period, before the root was prepared, is restarted for
  ever and refuses every time; an ACK that lands between the marker check and the
  reap does not stop the fallback.
* Saver: a kill between the park command and its record leaves the Wi-Fi off
  with nobody knowing; a failed reconnect is recorded as done; a command
  that races a discovery, followed by a kill, does the same. `WifiComesBack` and
  `KnownIsFound` are stated for behaviours in which none of these
  happened (`Sound`).

### Bounds

Constants named `Max...` bound how often something outside the code's control
happens. They are chosen so that every one of these things can happen before and
after every other: one crash is enough for each point of a sweep to be the last
one; two sequence numbers wrap round and run out with two callers; three messages
for two places in the hour reach the limit and pass it; four deaths of native-start
cover a failed start, a failed rescue and a rescue that dies again on both sides
of the deadline. The handoff's times keep their order (Timeout above the 4 s
one pass may sleep; Deadline above one pass) without their length, and
`AlwaysFed` is proved for all of them. One poll of grace, period and window in
`NetSaver` still separates each timer's start from its end. `services` has one
service: keepalive's passes over several differ in that the list is older, and
here everything may happen between the list and its use already; the safety
properties are proved for any number. `ondemand` has two scenes, chosen at the start. In
"files" the followed request comes on both connections, beside at most one other
generation; writes of the two files fail, the proxy is killed, and the backend, once its
pid is written, stays up. In "backend" the same happens to everything else: holds,
unloads, SIGTERM, a backend that dies, clients that do not read, requests without
limits, a pid that is not written. Overlap and restart both
happen there: TLC reaches 3 wasted attempts in one life with limit 2, 5 with a death that
forgot nothing and 6 with one that did, which is what `WasteIsBounded` allows. The
theorems hold for the scene "all" too, in which nothing is kept apart. The call has no bound: a
second copy of a datagram, or a second call after the first, adds no state.
`CHECK_DEADLOCK FALSE` is set where the budget of requests, deliveries or
messages runs out (`link`, `sweep*`, `outbox`), where PID 1 has been replaced
(`handoff`) and where both agents have exited (`sip_call`).

### Fairness

* `Autosleep`: weak fairness of the loop, of its restart (keepalive), of the RTC
  alarm and of a command that began; strong fairness of `Suspend`: a device
  that refuses to suspend does so sometimes, not for ever. Nothing is assumed of
  the display, the events, the calls or the crashes.
* `NativeHandoff`: weak fairness of PID 1 and of native-start, which are running
  processes; none of deaths, the host or the failures.
* `NetSaver`: weak fairness of the loop (`DaemonStep`, with its restart by keepalive) and of a
  command that began; strong fairness of `Associate`: wpa_supplicant, allowed
  to again and again near a configured network, connects.
* `Services`: weak fairness of both daemons' loops, of a process that got SIGTERM
  and of the timers; strong fairness of a start that succeeds: a service that
  fails at every start cannot come back.
* `OnDemand`: weak fairness of an admitted thread up to its relay (the load has a time
  limit) and after it, of the end of a generation's relay while its client reads (the
  watchdog's limits), of the idle loop and of keepalive's restart; strong fairness of
  the wait for the lock, which is free again and again. Nothing is assumed of relays
  outside `GEN_PATHS`, which have no limit, of a client that does not read, whose
  `sendall` keeps `send_lock` from the watchdog, or of the guardian stopping a backend
  it holds. `RequestsEnd` names the first two as the places where a request may stay.
* `SipCall`: weak fairness of each thread's own steps and timers. No datagram is
  assumed to arrive, so both ends have to come to their end by timers alone.

Most liveness properties are of the form "if the phone stays so for good", so that
they ask nothing of an environment that keeps changing.

## 4. Proofs

All theorems hold for every value of the constants that the named `ASSUME`s
allow, and are proved from an inductive invariant.

| Theorem | Says | Invariant and why |
|---|---|---|
| `PowerPolicyProofs!TypeCorrect`, `EventsAreNotSleptOn` | types; no event is slept on after the handshake | `IInv` adds `CheckIsOn`: between the accepted write of the count and the suspend, the kernel's check stays armed. Without it a suspend could go through with an event pending. |
| `PowerPolicyProofs!SleepIsRested` | every suspend comes after the grace of polls that saw the screen off and after the rest that the last resume, lost handshake or row of failures earned | `RestInv`: the loop's clocks agree with the history. `AwakeAgrees`: rest left and polls had are what is due; `OffAgrees`; `BackoffAgrees`: `fail_backoff` is the entry of the table that the failures in a row reached. The property speaks of the history only, so a clock that is not set at a resume breaks it. |
| `PowerPolicyProofs!LateOnce` | while the screen stays on, or the flag stays set, at most one suspend is tried | `LateAgrees`: a pass that read the screen off met it on only since, and has counted no suspend. |
| `PowerPolicyProofs!SaverInvariant`, `ParkedStaysKnown` | types of the saver; a Wi-Fi that is off is known to the daemon or to its file, in behaviours that are `Sound` | `ParkedAt`: what is given back or tried again is parked. `BackInTurn`: the two commands of an unpark bring the radio back before the record. `FileKnows`: as long as no command was given, what is parked is in the file. `NothingToRecover`: without kills the daemon never starts with a file. The last two are the two halves of `Sound`: kills or commands, not both. |
| `PhonedSweepProofs!TypeCorrect` | types, for any SIM size and messages | `TypeInv` adds `PutReady`: a unit about to be stored is one whole message whose slots were all read; otherwise its record would have no first part. |
| `PhonedSweepProofs!DeletedIsKept` | with `MaxLate = 0` and `MaxFails = 0`, nothing is deleted whose message is not in the file, through crashes and lost links | `KeptInv`: memory and file agree, what was read is still in its slot, and the slots to be deleted hold parts of a message in the file. Each assumption is needed: see `sweep_late_answer` and Known limits. |
| `PhonedSweepProofs!SweepsStoreOnce` | no sweep stores again what a sweep stored, with any late answers, failed writes and crashes | `OnceInv`: what the file holds is in memory (a restart loads it), records of a sweep occur once in both, and a record about to be put was looked for and is in neither. Memory alone is not inductive: a restart replaces it by the file. |
| `PhonedSweepProofs!AcknowledgedIsHeld` | what was acknowledged is in the inbox, in a partial message or on its way | `HeldInv`: the reader has one record in hand, records that expire are those being stored, and a part taken off the link stays with one of them. |
| `PhonedOutboxProofs!TypeCorrect`, `GrantsAreOneShot` | types; one call per grant | `GrantInv`: a fresh grant in the file has let nobody through, so the calls let through plus that one are at most the grants written. |
| `PhonedOutboxProofs!RateHolds` | the rate limit, within one run of the daemon | `RateInv`: the calls between their stamp and the end of sending, together with those that reached the CP, are at most the stamps. The sent ones alone are not inductive. |
| `PhonedOutboxProofs!OwnAcks` | acks may be late and doubled: a message takes the ack of another only if that ack was still on its way at one of its own drains; else it collects exactly its own parts | `OwnInv`: who sends holds the lock; a message that overtook nothing has the TP-MRs of the parts before the one it sends, and every ack in the queue, at the CP or in the reader's hand is for that part. |
| `PhonedLinkPinProofs!TypeCorrect`, `LossBounded`, `AutoPinOnce` | wrong PINs of a run are at most the threads plus one plus `MaxStray`; one automatic PIN | `FlightsBounded`: recorded failures plus threads past the check are at most threads + 1. `LossesCounted`: each wrong PIN is recorded or about to be. `AutoCounted`: the worker past the gate implies the flag is set and nothing was sent. |
| `PhonedLinkPinProofs!OneThreadLeavesATry` | with one thread, no restart and no stray answers the card keeps a try | adds `TriesCounted`: tries and losses add up to three. Known limits says what a second thread does. |
| `PhonedLinkPinProofs!LinkWakesWaiters`, `LinkGensAreOwn`, `LinkStrictAnswersAreOwn` | a waiter can be found; answers reach their own request; for any threads, requests and size of the numbers | `LinkInv`. `DictIsKeyed`: the dict holds a request under its own number. `CallersApart`: callers have different requests, so `_forget` frees only one's own number. `CallersWoken`: a request leaves the dict woken or given up. `AnswersKeepNumber`: the number of a request the CP still has, or whose answer is on the wire, was given to no other; this is where `CameRound` is used. |
| `PhonedLinkPinProofs!LinkImplementsService` | `PhonedLink` implements `RequestService` | `LinkInv` and `Fresh`: nothing is recorded in a request before it is made. |
| `NativeHandoffProofs!TypeCorrect`, `AlwaysFed`, `CleanHandover`, `EarlyFailureOnly` | types; the watchdog is fed; Android gets a clean phone; only after an early failure | `IdleInv` (how long ago the last keepalive was at each point), `ChildInv` (the pid variable is exact), `GadgetInv` (a gadget is marked as owned before it exists), `FilesInv` (the renames come last), `EarlyInv` (what was decided on the way to Android still holds). |
| `ServicesProofs!TypeCorrect`, `NoSecondProcess` | types; when keepalive is about to start a service, none of its processes runs untold | `Unlisted`: a service still to be judged that was not in the list has no process, for nobody but keepalive starts one. `HistRoom`: the restart it is about to count is within the limit. |
| `ServicesProofs!LevelsAreHeld` | after a pass that left a level, all it stops is held | `HeldInv`: at every point of the pass, what the level stops is noted as held or still in the queue, and what is noted as held has the guardian's file. The property itself says nothing of the middle of a pass. |
| `SipCallProofs!TypeCorrect`, `MediaStops` | types; when a call is over and no thread is in `_end`, no sender runs on an open socket, for both values of `--keep-listening` | `CallerMInv`, `CalleeMInv`: a call that is over and has an open socket has a thread on its way to close it, wherever `_start_media` is. It is not inductive that the sender is stopped, for it may be started after its stop. |
| `SipCallProofs!Implements` | `SipCall` implements `Handshake`, for both values of `--keep-listening` | `CallerInv`, `CalleeInv`: what each datagram that was sent says of its sender. `acked` is set by any ACK, also that of a refusal; but a refusal that is acknowledged came without a CANCEL, so its callee never had a call or has ended it and is not talking. |
| `OnDemandProofs!TypeCorrect`, `OneBackendOnly` | types; one model in memory | `ReapInv`: a predecessor's backend is there only until the new proxy serves, and until then no thread runs and no backend of its own. |
| `OnDemandProofs!OneGetsIn` | a hold that stays lets at most one load in | `HoldInv`: once a load got past the hold no thread is between its look and its load, for that one has the lock. |
| `OnDemandProofs!WasteBounded` | wasted attempts are bounded by limit and connections for each life of the proxy whose budget was forgotten, and by the attempts under way for each other death; for any connections, failed writes and scenes | `RoomInv`: failures counted plus attempts under way are bounded. `WasteInv`: the waste is in the budget or about to be counted, between two lives it is in the files, and the rest was forgotten by a death. `DeathsInv`: a SIGTERM is counted as a death before the proxy dies of it. The sets of connections are counted with the library's cardinality theorems. |

Only model-checked: all liveness properties (fairness is outside the prover's
reach). Every safety property of the runs is stated by a theorem, `DeletedIsInFile` under
the assumptions under which TLC finds it to hold.

Two proof modules hold the theorems of two components each: `PhonedLinkPinProofs` (the
PIN is one of the link's users) and `PowerPolicyProofs` (the two policies that follow the
display). They extend both specifications, which share no variable; to that end the
definitions of `PhonedLink` and `NetSaver` have names of their own (`LinkSpec`, `LinkNext`,
`SaverSpec`, `SaverNext`).

## 5. Known limits

What the models show of the code beyond the properties that hold. In each case the
property is stated for the behaviours in which this does not happen.

* `PhonedSweep` with `MaxFails = 1`: `JsonlStore.put` adds to memory before it writes
  (s22-phoned.py:795). After a failed write the next sweep finds the message "already
  there" and deletes the SIM's copy; a restart then has none. `DeletedIsInFile` fails.
* `Autosleep`: "Screen on ... never suspend" (s22-autosleep.py:11) does not hold as it
  stands. The display and the flag are read once per pass, before a process scan and a
  call to phoned, and a screen that comes on after the read (352) is suspended with.
  `OneLateSuspend` is what holds: once, not again while it stays on.
* `PhonedOutbox`: the ack of a message that timed out, or the second of a doubled ack,
  may arrive, or be put by the reader (1033), after the next message drained the queue
  (s22-phoned.py:1556) and is taken for that message's ack (1573). Its outbox record then
  has another's TP-MR. `AcksAreOwn` says that this is the only way.
* `PhonedPin`: attempts that overlap pass the check together (s22-phoned.py:1443), so
  three wrong PINs can be made in one run and the card asks for the PUK. `TryLeft`
  fails; `OneThreadLeavesATry` proves it for one thread.
* `SipCall` with `KeepListening = TRUE`: a CANCEL between `_answer`'s SDP and its
  `confirmed` ends the call, and `_answer` brings its state back. `call.ended` is
  set, so `_supervise` returns at once and nobody hangs up: the callee stays
  confirmed and later callers get 486. `NoCalleeLeft` fails; without the option the
  process exits.
* `SipCall`: `_end` stops the media outside its lock (s22-sip.py:1383-1386). When
  `_start_media` makes the session before and starts it after the stop, its sender thread
  runs for good, on a closed socket: it sends nothing and is not joined. And a call that
  a CANCEL ended before the callee had a socket to close is revived by `_answer` with an
  open one: it is confirmed and sends audio after `call.ended` was set, until
  the missing ACK or the main thread's end closes it. `SilentWhenOver` and `MediaEnds`
  hold with `KeepListening = TRUE` as well.
* `OnDemand`: a write of `budget.json` that fails is ignored (s22-llama-ondemand.py:586),
  an older snapshot may be written over a newer one (609), and two threads share one
  `.tmp` name (583). A death that finds the file behind the memory forgets the budget, against the
  module text at line 60, "Survives restarts"; `WasteIsBounded` says what each such
  death costs. If nothing of the kind happened, a death forgets only attempts under way.
* `OnDemand`: a request outside `GEN_PATHS` is relayed without limits (1104), and an abort
  waits for `send_lock` while a client does not read (1255, 1306): both may last.
* `OnDemand`: a load that had looked at the hold (738) before the guardian put it there goes
  on. The guardian's memory hold stops the model once, from a process table read before
  that load (s22-guardian.py:397-400), so the model stays up, and `ensure_backend` uses it
  although it is held (736-737). The thermal hold stops it again.
* `OnDemand`: a proxy killed between `Popen` and the write of the pid (751) leaves a
  backend that nobody stops. `OneBackend` and `MemoryIsFreed` speak of the others.
* `OnDemand`: an unload that saw no active request waits for the lock and then stops the
  backend under a request that came meanwhile (line 1000; the comment at 1025 says
  "Only when nothing is in flight"). The request is cut, and ends; no property forbids it.
* s22-llama-ondemand, not in the model: the clock cap restored without the lock
  (line 701) or left by a SIGKILL keeps the cluster capped; a second SIGTERM during the unload of the first waits for a lock its own thread
  holds.
* `Services`: the guardian overwrites the bench's hold and later releases it as its
  own; the thermal restore releases a hold that memory shedding still wants, while
  `shed` stays set.
* s22-phoned: a sweep that looked before the reader stored keeps a message twice
  (1769); parts of an incomplete message are acknowledged and live in memory only
  (1608); a failed write in `expire_partials` loses the entries after it (1625); a kill
  between sending and storing leaves no record of a sent message (1538); a status
  report that comes before its TP-MRs are stored is dropped or adopted by another
  record (1656); two threads that apply reports to one record may lose one (1642).
* Handoff: an ACK that lands between the marker check and the reap does not stop the
  fallback (native-guardian.c:339).
* s22-netpolicy: a tick that may dial for 60 s works with the pause flag it read at
  its start (s22-netpolicy.py:508).

## 6. Not modelled

* The PDU codec and the simulated CP of s22-phoned: byte-level parsing, covered by
  the repository's unit tests.
* `autosleep once` and `status`; native-start-persistent; the wrapper's
  invocations other than `selinux_setup`; the eviction of the oldest of 1000
  inbox records; TP-MR wrap-around; the deadman's hold file.
* keepalive's mute, root space, model pin and firmware guards, and the guardian's
  runaway, nice and disk checks: single checks with no effect on the services.
* s22-llama-ondemand's prompt cache, lean rewriting, probes and clock cap.
* s22-sip's registration, digest authentication, re-INVITE, late offers, RTP and the
  voice loop. RTP and its jitter buffer are numeric code on a stream.
* User interfaces, HTTP front ends, the agent's plugins, camera, hardware probes,
  kernel patches, image builders, trial adapters: no long-lived protocol state of
  their own, and most of the repository's lines.
* Parts listed in the plan below.

## 7. Plan

Done, because a failure there costs the phone, the SIM, a message or the battery:
the handoff, suspend, the modem link, SMS in and out, the PIN, the Wi-Fi saver, the
two supervisors, the model proxy, a VoIP call.

Next, in this order:

1. Proofs: the safety cores of the liveness properties that still have none (what
   `ComesBack`, `RequestsEnd` and `NoCalleeLeft` rest on), the way `ParkedIsKnown` is that of
   `WifiComesBack`.
2. `PhonedCalls` and the data call: the call table against the CP's events, dial
   against its gates, mobile data against link loss, `ipc_send`'s arming.
3. `NetPolicy`: `choose` and `route_plan` as operators checked against a
   reference, then the tick against `off`, the DHCP hook and the data call.
4. `Turnguard`: cancel, escalation and retry budget.
5. Abstract specification: an inbox that never loses what it acknowledged,
   implemented by `PhonedSweep`.
