------------------------------ MODULE PhonedPin ------------------------------
(***************************************************************************)
(* The SIM PIN of s22-phoned (tools/hardware/phoned/s22-phoned.py):        *)
(* enter_pin on the HTTP threads, auto_pin on the worker, the status the   *)
(* reader thread keeps, and the card behind the CP, which blocks itself    *)
(* (PUK) after three wrong PINs in a row.                                  *)
(***************************************************************************)
EXTENDS Naturals, FiniteSets

CONSTANTS
    Callers,      \* HTTP threads in /sim/pin
    Worker,       \* the worker thread
    PinFile,      \* there may be a sim-pin file
    MaxStray,     \* bound: PINs at stake while status answers lack a sequence number
    MaxRestarts   \* bound: restarts of the daemon

ASSUME PinAssumption ==
    /\ IsFiniteSet(Callers) /\ Worker \notin Callers
    /\ PinFile \in BOOLEAN /\ MaxStray \in Nat /\ MaxRestarts \in Nat

\* The threads that call enter_pin: without a PIN file the worker never does.
Threads == Callers \cup {t \in {Worker} : PinFile}
Tries == 3      \* wrong PINs a card allows
Allowed == 2    \* failures after which enter_pin refuses

VARIABLES
    pc,            \* where each thread is in enter_pin
    sim,           \* self.sim
    pin_failures,
    pin_auto_done,
    queued,        \* auto_pin is in the work queue
    tries,         \* wrong PINs the card still allows
    open,          \* the card is unlocked
    orphans,       \* PINs of this run at the CP that no thread waits for
    leftover,      \* PINs of earlier runs at the CP
    lost,          \* history: wrong PINs of this run
    autos,         \* history: PINs auto_pin sent in this run
    restarts

cardVars == <<tries, open, orphans, leftover, lost>>
daemonVars == <<sim, pin_failures, pin_auto_done, queued, autos>>
vars == <<pc, daemonVars, cardVars, restarts>>

Goto(t, l) == pc' = [pc EXCEPT ![t] = l]

-----------------------------------------------------------------------------
(* The card. *)

CardState == IF tries = 0 THEN "PUK" ELSE IF open THEN "READY" ELSE "PIN"

\* The card judges one PIN; a blocked card takes none.
Right == tries > 0 /\ tries' = Tries /\ open' = TRUE
Wrong == tries > 0 /\ tries' = tries - 1 /\ UNCHANGED open

-----------------------------------------------------------------------------
(* The reader thread and the worker. *)

\* _on_sim, for an answer or a notification; a locked card queues auto_pin.
OnSim ==
    /\ sim' = CardState
    /\ queued' = (queued \/ sim' = "PIN")
    /\ UNCHANGED <<pc, cardVars, pin_failures, pin_auto_done, autos, restarts>>

MutAutoMay == pin_failures = 0 /\ sim = "PIN"
AutoMay == ~pin_auto_done /\ pin_failures = 0 /\ sim = "PIN"

\* auto_pin up to the pin file; then it is a caller of enter_pin.
AutoPin ==
    /\ queued /\ (PinFile => pc[Worker] = "idle") /\ queued' = FALSE
    /\ pin_auto_done' = (pin_auto_done \/ AutoMay)
    /\ \/ AutoMay /\ PinFile /\ Goto(Worker, "gate")
       \/ UNCHANGED pc      \* not allowed, or the file is not usable
    /\ UNCHANGED <<cardVars, sim, pin_failures, autos, restarts>>

-----------------------------------------------------------------------------
(* enter_pin *)

Call(c) ==
    /\ c \in Callers /\ pc[c] = "idle" /\ Goto(c, "gate")
    /\ UNCHANGED <<daemonVars, cardVars, restarts>>

\* The checks, under the lock.
Passes == sim = "PIN" /\ pin_failures < Allowed

Gate(t) ==
    /\ pc[t] = "gate" /\ Goto(t, IF Passes THEN "send" ELSE "idle")
    /\ UNCHANGED <<daemonVars, cardVars, restarts>>

\* The request is written; a dead link raises before it is, and is not counted.
Send(t) ==
    /\ pc[t] = "send"
    /\ \/ Goto(t, "wait") /\ autos' = IF t = Worker THEN autos + 1 ELSE autos
       \/ Goto(t, "idle") /\ UNCHANGED autos
    /\ UNCHANGED <<sim, pin_failures, pin_auto_done, queued, cardVars, restarts>>

\* The card judges the PIN a thread waits for.
JudgeRight(t) ==
    /\ pc[t] = "wait" /\ Right /\ Goto(t, "right")
    /\ UNCHANGED <<daemonVars, orphans, leftover, lost, restarts>>

JudgeWrong(t) ==
    /\ pc[t] = "wait" /\ Wrong /\ lost' = lost + 1 /\ Goto(t, "wrong")
    /\ UNCHANGED <<daemonVars, orphans, leftover, restarts>>

\* The CP's verdict: ok.
Accepted(t) ==
    /\ pc[t] = "right" /\ Goto(t, "idle")
    /\ UNCHANGED <<daemonVars, cardVars, restarts>>

\* Anything else fails: a rejection, no answer in time, a link that drops.
MutCounted(t) == pin_failures' = IF pc[t] = "wrong" THEN pin_failures + 1 ELSE pin_failures
Counted(t) == pin_failures' = pin_failures + 1

Failed(t) ==
    /\ pc[t] \in {"right", "wrong"} \/ (pc[t] = "wait" /\ tries = 0)
    /\ Counted(t) /\ Goto(t, "idle")
    /\ UNCHANGED <<sim, pin_auto_done, queued, autos, cardVars, restarts>>

\* No answer and the PIN is not judged yet: it is lost, or judged later.
TimedOut(t) ==
    /\ pc[t] = "wait"
    /\ Counted(t) /\ Goto(t, "idle")
    /\ orphans' \in {orphans, orphans + 1}
    /\ UNCHANGED <<sim, pin_auto_done, queued, autos, tries, open, leftover, lost, restarts>>

\* _dispatch gives an answer without a number to the oldest waiter of its command,
\* and a status answer has the command of a PIN request: it passes for an ok.
StatusAnswers(t) ==
    /\ lost + orphans < MaxStray /\ pc[t] \in {"wait", "right", "wrong"}
    /\ Goto(t, "idle")
    /\ orphans' = IF pc[t] = "wait" THEN orphans + 1 ELSE orphans
    /\ UNCHANGED <<daemonVars, tries, open, leftover, lost, restarts>>

-----------------------------------------------------------------------------
(* PINs nobody waits for any more, the modem, and restarts. *)

JudgeOrphan ==
    /\ orphans > 0 /\ orphans' = orphans - 1
    /\ \/ Right /\ UNCHANGED lost
       \/ Wrong /\ lost' = lost + 1
    /\ UNCHANGED <<pc, daemonVars, leftover, restarts>>

JudgeLeftover ==
    /\ leftover > 0 /\ leftover' = leftover - 1
    /\ Right \/ Wrong
    /\ UNCHANGED <<pc, daemonVars, orphans, lost, restarts>>

\* The modem restarts and the card is locked again.
ModemRestarts ==
    /\ open /\ open' = FALSE
    /\ UNCHANGED <<pc, daemonVars, tries, orphans, leftover, lost, restarts>>

Waiting == {t \in Threads : pc[t] = "wait"}

Restart ==
    /\ restarts < MaxRestarts /\ restarts' = restarts + 1
    /\ leftover' = leftover + orphans + Cardinality(Waiting) /\ orphans' = 0
    /\ pc' = [t \in Threads |-> "idle"]
    /\ sim' = "UNKNOWN" /\ pin_failures' = 0 /\ pin_auto_done' = FALSE /\ queued' = FALSE
    /\ lost' = 0 /\ autos' = 0
    /\ UNCHANGED <<tries, open>>

Init ==
    /\ pc = [t \in Threads |-> "idle"]
    /\ sim = "UNKNOWN" /\ pin_failures = 0 /\ pin_auto_done = FALSE /\ queued = FALSE
    /\ tries = Tries /\ open = FALSE
    /\ orphans = 0 /\ leftover = 0 /\ lost = 0 /\ autos = 0 /\ restarts = 0

EnterPin(t) ==
    \/ Call(t) \/ Gate(t) \/ Send(t) \/ JudgeRight(t) \/ JudgeWrong(t)
    \/ Accepted(t) \/ Failed(t) \/ TimedOut(t) \/ StatusAnswers(t)

Next ==
    \/ OnSim \/ AutoPin
    \/ \E t \in Threads : EnterPin(t)
    \/ JudgeOrphan \/ JudgeLeftover \/ ModemRestarts \/ Restart

Spec == Init /\ [][Next]_vars

-----------------------------------------------------------------------------
(* What the PIN code promises. *)

Labels == {"idle", "gate", "send", "wait", "right", "wrong"}

TypeOK ==
    /\ pc \in [Threads -> Labels]
    /\ sim \in {"UNKNOWN", "PIN", "PUK", "READY"}
    /\ pin_failures \in 0 .. Cardinality(Threads) + 1 /\ pin_auto_done \in BOOLEAN /\ queued \in BOOLEAN
    /\ tries \in 0 .. Tries /\ open \in BOOLEAN
    /\ orphans \in Nat /\ leftover \in Nat /\ lost \in Nat /\ autos \in Nat
    /\ restarts \in 0 .. MaxRestarts

\* README: "After 2 failed attempts in one run, /sim/pin refuses as well, so at
\* least one try is left before PUK".  The daemon never uses up the card's tries.
TryLeft == tries > 0

\* The refusal after two failures is a check before the attempt: threads that have
\* passed it go on.  A run of the daemon makes at most one wrong attempt more than it
\* has threads in enter_pin, with late verdicts, lost answers and a card that is locked
\* again; PINs whose verdict a stray status answer took come on top.
LossIsBounded == lost <= Cardinality(Threads) + 1 + MaxStray

\* README: "The daemon enters it automatically at most once per run".  It holds
\* through status reports that queue auto_pin again while an attempt is open.
AutoOnce == autos <= 1
=============================================================================
