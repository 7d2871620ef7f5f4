------------------------- MODULE PhonedLinkPinProofs -------------------------
(***************************************************************************)
(* Proofs about PhonedPin: the bound on wrong PINs holds for any number of *)
(* HTTP threads, and auto_pin sends one PIN in a run.  Then about the link *)
(* that carries the PIN, PhonedLink: answers reach their own request and   *)
(* every waiter can be woken.  The two specifications share no variable.   *)
(***************************************************************************)
EXTENDS PhonedPin, PhonedLink, FiniteSetTheorems, WellFoundedInduction, TLAPS

Flying == {"send", "wait", "right", "wrong"}

\* Threads that passed enter_pin's checks and whose result is not recorded yet.
InFlight == {t \in Threads : pc[t] \in Flying}
\* Threads whose PIN the card rejected and that do not know it yet.
Rejected == {t \in Threads : pc[t] = "wrong"}

Types ==
    /\ pc \in [Threads -> Labels]
    /\ sim \in {"UNKNOWN", "PIN", "PUK", "READY"}
    /\ pin_failures \in Nat /\ pin_auto_done \in BOOLEAN /\ queued \in BOOLEAN
    /\ tries \in 0 .. Tries /\ open \in BOOLEAN
    /\ orphans \in Nat /\ leftover \in Nat /\ lost \in Nat /\ autos \in Nat
    /\ restarts \in 0 .. MaxRestarts

\* A thread in flight passed while fewer than two failures were recorded.
FlightsBounded == pin_failures + Cardinality(InFlight) <= Cardinality(Threads) + 1

\* Every wrong PIN, and every PIN still to be judged, is a recorded failure or
\* that of a thread that is about to record it; stray answers hide up to MaxStray.
LossesCounted == lost + orphans <= pin_failures + Cardinality(Rejected) + MaxStray

\* auto_pin has sent its PIN or is about to only when pin_auto_done is set.
AutoCounted ==
    /\ autos <= 1 /\ (autos = 1 => pin_auto_done)
    /\ \A t \in Threads : t = Worker /\ pc[t] \in {"gate", "send"} => pin_auto_done /\ autos = 0

USE PinAssumption
USE DEF vars, cardVars, daemonVars

LEMMA ThreadCounts ==
    /\ IsFiniteSet(Threads) /\ Cardinality(Threads) \in Nat
    /\ \A S \in SUBSET Threads :
         IsFiniteSet(S) /\ Cardinality(S) \in Nat /\ Cardinality(S) <= Cardinality(Threads)
<1>1. IsFiniteSet(Threads)
  <2>1. CASE PinFile
    <3>1. Threads = Callers \cup {Worker}  BY <2>1 DEF Threads
    <3> QED  BY <3>1, FS_AddElement
  <2>2. CASE ~PinFile
    <3>1. Threads = Callers  BY <2>2 DEF Threads
    <3> QED  BY <3>1
  <2> QED  BY <2>1, <2>2
<1>2. \A S \in SUBSET Threads : IsFiniteSet(S) /\ Cardinality(S) <= Cardinality(Threads)
  BY <1>1, FS_Subset
<1>3. \A S : IsFiniteSet(S) => Cardinality(S) \in Nat  BY FS_CardinalityType
<1> QED  BY <1>1, <1>2, <1>3

\* What a step of one thread does to the two sets.
LEMMA OneMoves ==
    ASSUME Types, NEW t \in Threads, NEW l \in Labels, Goto(t, l)
    PROVE  /\ pc' \in [Threads -> Labels]
           /\ InFlight' = IF l \in Flying THEN InFlight \cup {t} ELSE InFlight \ {t}
           /\ Rejected' = IF l = "wrong" THEN Rejected \cup {t} ELSE Rejected \ {t}
BY DEF Types, Goto, InFlight, Rejected

LEMMA OneCounts ==
    ASSUME Types, NEW t \in Threads, NEW l \in Labels, Goto(t, l)
    PROVE  /\ Cardinality(InFlight') = IF l \in Flying
                THEN IF pc[t] \in Flying THEN Cardinality(InFlight) ELSE Cardinality(InFlight) + 1
                ELSE IF pc[t] \in Flying THEN Cardinality(InFlight) - 1 ELSE Cardinality(InFlight)
           /\ Cardinality(Rejected') = IF l = "wrong"
                THEN IF pc[t] = "wrong" THEN Cardinality(Rejected) ELSE Cardinality(Rejected) + 1
                ELSE IF pc[t] = "wrong" THEN Cardinality(Rejected) - 1 ELSE Cardinality(Rejected)
<1>1. IsFiniteSet(InFlight) /\ IsFiniteSet(Rejected)
  BY ThreadCounts DEF InFlight, Rejected
<1>2. /\ Cardinality(InFlight \cup {t}) = IF t \in InFlight THEN Cardinality(InFlight) ELSE Cardinality(InFlight) + 1
      /\ Cardinality(InFlight \ {t}) = IF t \in InFlight THEN Cardinality(InFlight) - 1 ELSE Cardinality(InFlight)
  BY <1>1, FS_AddElement, FS_RemoveElement
<1>3. /\ Cardinality(Rejected \cup {t}) = IF t \in Rejected THEN Cardinality(Rejected) ELSE Cardinality(Rejected) + 1
      /\ Cardinality(Rejected \ {t}) = IF t \in Rejected THEN Cardinality(Rejected) - 1 ELSE Cardinality(Rejected)
  BY <1>1, FS_AddElement, FS_RemoveElement
<1>4. (t \in InFlight <=> pc[t] \in Flying) /\ (t \in Rejected <=> pc[t] = "wrong")
  BY DEF InFlight, Rejected
<1> QED  BY <1>2, <1>3, <1>4, OneMoves

\* The counts are natural numbers, before and after a step.
LEMMA CountsAreNat ==
    /\ Cardinality(InFlight) \in Nat /\ Cardinality(InFlight) <= Cardinality(Threads)
    /\ Cardinality(Rejected) \in Nat
    /\ Cardinality(InFlight') \in Nat /\ Cardinality(InFlight') <= Cardinality(Threads)
    /\ Cardinality(Rejected') \in Nat
<1>1. InFlight \in SUBSET Threads /\ Rejected \in SUBSET Threads  BY DEF InFlight, Rejected
<1>2. InFlight' \in SUBSET Threads /\ Rejected' \in SUBSET Threads  BY DEF InFlight, Rejected
<1> QED  BY <1>1, <1>2, ThreadCounts

-----------------------------------------------------------------------------
Inv == Types /\ FlightsBounded /\ AutoCounted

LEMMA InitInv == Init => Inv /\ LossesCounted
<1> SUFFICES ASSUME Init PROVE Inv /\ LossesCounted  OBVIOUS
<1>1. InFlight = {} /\ Rejected = {}  BY DEF Init, InFlight, Rejected, Flying
<1>2. Cardinality(InFlight) = 0 /\ Cardinality(Rejected) = 0  BY <1>1, FS_EmptySet
<1>3. Types
  <2>1. pc \in [Threads -> Labels]  BY DEF Init, Labels
  <2>2. tries \in 0 .. Tries /\ restarts \in 0 .. MaxRestarts  BY DEF Init, Tries
  <2>3. pin_auto_done \in BOOLEAN /\ queued \in BOOLEAN /\ open \in BOOLEAN  BY Zenon DEF Init
  <2> QED  BY <2>1, <2>2, <2>3 DEF Init, Types
<1> QED
  BY <1>2, <1>3, ThreadCounts DEF Init, Inv, FlightsBounded, AutoCounted, LossesCounted

-----------------------------------------------------------------------------
(* The steps that leave the threads alone. *)

LEMMA SameCounts ==
    ASSUME UNCHANGED pc
    PROVE  InFlight' = InFlight /\ Rejected' = Rejected
BY DEF InFlight, Rejected

LEMMA Judged ==
    ASSUME Types, Right \/ Wrong
    PROVE  tries' \in 0 .. Tries /\ open' \in BOOLEAN
<1>1. open' \in BOOLEAN  BY Zenon DEF Types, Right, Wrong
<1> QED  BY <1>1 DEF Types, Right, Wrong, Tries

\* One step: the three counts that the invariants relate change together.
Kept == Inv' /\ (LossesCounted => LossesCounted')

Quiet == OnSim \/ JudgeOrphan \/ JudgeLeftover \/ ModemRestarts \/ UNCHANGED vars

LEMMA QuietSteps ==
    ASSUME Inv, Quiet
    PROVE  Kept
<1>0. UNCHANGED <<pc, pin_failures, pin_auto_done, autos>>
  BY DEF Quiet, OnSim, JudgeOrphan, JudgeLeftover, ModemRestarts
<1>1. InFlight' = InFlight /\ Rejected' = Rejected  BY <1>0, SameCounts
<1>2. CardState \in {"UNKNOWN", "PIN", "PUK", "READY"}  BY DEF CardState
<1>3. Types'
  <2>1. CASE OnSim
    <3>1. queued' \in BOOLEAN  BY <2>1, Zenon DEF OnSim
    <3> QED  BY <2>1, <3>1, <1>2 DEF OnSim, Inv, Types
  <2>2. CASE JudgeOrphan
    <3>1. lost' \in Nat /\ orphans' \in Nat  BY <2>2 DEF JudgeOrphan, Inv, Types
    <3> QED  BY <2>2, <3>1, Judged DEF JudgeOrphan, Inv, Types
  <2>3. CASE JudgeLeftover
    <3>1. leftover' \in Nat  BY <2>3 DEF JudgeLeftover, Inv, Types
    <3> QED  BY <2>3, <3>1, Judged DEF JudgeLeftover, Inv, Types
  <2>4. CASE ModemRestarts  BY <2>4 DEF ModemRestarts, Inv, Types
  <2>5. CASE UNCHANGED vars  BY <2>5 DEF Inv, Types
  <2> QED  BY <2>1, <2>2, <2>3, <2>4, <2>5 DEF Quiet
<1>4. FlightsBounded' /\ AutoCounted'
  BY <1>0, <1>1 DEF Inv, FlightsBounded, AutoCounted
<1>5. LossesCounted => LossesCounted'
  <2> SUFFICES ASSUME LossesCounted PROVE LossesCounted'  OBVIOUS
  <2> DEFINE R == Cardinality(Rejected)
  <2>1. R \in Nat /\ Cardinality(Rejected') = R  BY <1>1, CountsAreNat
  <2>2. pin_failures' = pin_failures  BY <1>0
  <2>3. lost + orphans <= pin_failures + R + MaxStray  BY DEF LossesCounted
  <2> HIDE DEF R
  <2>4. CASE JudgeOrphan
    <3>1. orphans \in Nat \ {0} /\ lost \in Nat /\ pin_failures \in Nat
      BY <2>4 DEF JudgeOrphan, Inv, Types
    <3>2. orphans' = orphans - 1 /\ (lost' = lost + 1 \/ lost' = lost)  BY <2>4 DEF JudgeOrphan
    <3>3. lost' + orphans' <= pin_failures' + R + MaxStray  BY <2>1, <2>2, <2>3, <3>1, <3>2
    <3> QED  BY <3>3, <2>1 DEF LossesCounted
  <2>5. CASE ~JudgeOrphan
    <3>1. lost \in Nat /\ orphans \in Nat /\ pin_failures \in Nat  BY DEF Inv, Types
    <3>2. lost' = lost /\ orphans' = orphans
      BY <2>5 DEF Quiet, OnSim, JudgeLeftover, ModemRestarts
    <3>3. lost' + orphans' <= pin_failures' + R + MaxStray  BY <2>1, <2>2, <2>3, <3>1, <3>2
    <3> QED  BY <3>3, <2>1 DEF LossesCounted
  <2> QED  BY <2>4, <2>5
<1> QED  BY <1>3, <1>4, <1>5 DEF Kept, Inv

LEMMA RestartStep ==
    ASSUME Inv, Restart PROVE Kept
<1>1. InFlight' = {} /\ Rejected' = {}  BY DEF Restart, InFlight, Rejected, Flying
<1>2. Cardinality(InFlight') = 0 /\ Cardinality(Rejected') = 0  BY <1>1, FS_EmptySet
<1>3. Types'
  <2>1. pc' \in [Threads -> Labels]  BY DEF Restart, Labels
  <2>2. Cardinality(Waiting) \in Nat  BY ThreadCounts DEF Waiting
  <2>3. leftover' \in Nat /\ restarts' \in 0 .. MaxRestarts  BY <2>2 DEF Restart, Inv, Types
  <2>4. pin_auto_done' \in BOOLEAN /\ queued' \in BOOLEAN  BY Zenon DEF Restart
  <2> QED  BY <2>1, <2>3, <2>4 DEF Restart, Inv, Types
<1>4. \A t \in Threads : pc'[t] = "idle"  BY DEF Restart
<1> QED
  BY <1>2, <1>3, <1>4, ThreadCounts DEF Restart, Kept, Inv, FlightsBounded, AutoCounted, LossesCounted

-----------------------------------------------------------------------------
(* The steps of one thread. *)

\* A thread that is not let through, or that moves on in flight: no count of
\* failures changes.
LEMMA MovesOn ==
    ASSUME Inv, Types', NEW t \in Threads, NEW l \in Labels, Goto(t, l),
           pin_failures' = pin_failures, l \in Flying => pc[t] \in Flying
    PROVE  FlightsBounded'
<1> DEFINE F == Cardinality(InFlight)
           N == Cardinality(Threads)
<1>1. F \in Nat /\ N \in Nat  BY CountsAreNat, ThreadCounts
<1>2. Cardinality(InFlight') = F \/ Cardinality(InFlight') = F - 1  BY OneCounts DEF Inv
<1>3. pin_failures \in Nat /\ pin_failures + F <= N + 1  BY DEF Inv, FlightsBounded, Types
<1> HIDE DEF F, N
<1>4. pin_failures + Cardinality(InFlight') <= N + 1  BY <1>1, <1>2, <1>3
<1> QED  BY <1>4 DEF FlightsBounded, N

\* A thread that is let through.
LEMMA LetThrough ==
    ASSUME Inv, NEW t \in Threads, Goto(t, "send"), pc[t] = "gate", Passes,
           pin_failures' = pin_failures
    PROVE  FlightsBounded'
<1> DEFINE F1 == Cardinality(InFlight')
           N == Cardinality(Threads)
<1>1. F1 \in Nat /\ N \in Nat /\ F1 <= N  BY CountsAreNat, ThreadCounts
<1>2. pin_failures \in Nat /\ pin_failures <= 1  BY DEF Inv, Types, Passes, Allowed
<1> HIDE DEF F1, N
<1>3. pin_failures + F1 <= N + 1  BY <1>1, <1>2
<1> QED  BY <1>3 DEF FlightsBounded, F1, N

\* A thread whose failure is recorded leaves the flight.
LEMMA Recorded ==
    ASSUME Inv, NEW t \in Threads, Goto(t, "idle"), pc[t] \in Flying,
           pin_failures' = pin_failures + 1
    PROVE  FlightsBounded'
<1> DEFINE F == Cardinality(InFlight)
           N == Cardinality(Threads)
<1>1. F \in Nat /\ N \in Nat  BY CountsAreNat, ThreadCounts
<1>2. Cardinality(InFlight') = F - 1  BY OneCounts DEF Inv, Labels, Flying
<1>3. pin_failures \in Nat /\ pin_failures + F <= N + 1  BY DEF Inv, FlightsBounded, Types
<1> HIDE DEF F, N
<1>4. pin_failures + 1 + Cardinality(InFlight') <= N + 1  BY <1>1, <1>2, <1>3
<1> QED  BY <1>4 DEF FlightsBounded, N

\* Losses, when a thread moves: nothing new, a rejection, or a recorded failure.
LEMMA LossSteps ==
    ASSUME Inv, LossesCounted, NEW t \in Threads, NEW l \in Labels, Goto(t, l),
           \/ /\ pc[t] # "wrong" /\ l # "wrong"
              /\ UNCHANGED <<lost, orphans, pin_failures>>
           \/ /\ pc[t] # "wrong" /\ l = "wrong"
              /\ lost' = lost + 1 /\ UNCHANGED <<orphans, pin_failures>>
           \/ /\ l # "wrong" /\ pin_failures' = pin_failures + 1
              /\ UNCHANGED <<lost, orphans>>
           \/ /\ pc[t] # "wrong" /\ l # "wrong" /\ pin_failures' = pin_failures + 1
              /\ lost' = lost /\ orphans' = orphans + 1
    PROVE  LossesCounted'
<1> DEFINE R == Cardinality(Rejected)
           R1 == Cardinality(Rejected')
<1>1. R \in Nat /\ R1 \in Nat  BY CountsAreNat
<1>2. /\ l = "wrong" /\ pc[t] # "wrong" => R1 = R + 1
      /\ l # "wrong" /\ pc[t] # "wrong" => R1 = R
      /\ l # "wrong" /\ pc[t] = "wrong" => R1 = R - 1
  BY OneCounts DEF Inv
<1>3. /\ lost \in Nat /\ orphans \in Nat /\ pin_failures \in Nat
      /\ lost + orphans <= pin_failures + R + MaxStray
  BY DEF Inv, Types, LossesCounted
<1> HIDE DEF R, R1
<1>4. lost' + orphans' <= pin_failures' + R1 + MaxStray  BY <1>1, <1>2, <1>3
<1> QED  BY <1>4 DEF LossesCounted, R1

-----------------------------------------------------------------------------
(* One lemma per group of actions. *)

\* auto_pin's bookkeeping is kept by a step in which the worker does not enter
\* the gate and sends nothing.
LEMMA AutoKept ==
    ASSUME Inv, NEW t \in Threads, NEW l \in Labels, Goto(t, l),
           l \in {"gate", "send"} => pc[t] \in {"gate", "send"} \/ t # Worker,
           UNCHANGED <<pin_auto_done, autos>>
    PROVE  AutoCounted'
<1>1. \A u \in Threads : pc'[u] = IF u = t THEN l ELSE pc[u]  BY DEF Goto, Inv, Types
<1> QED  BY <1>1 DEF Inv, AutoCounted

LEMMA AutoPinStep ==
    ASSUME Inv, AutoPin PROVE Kept
<1>1. pin_auto_done' \in BOOLEAN /\ queued' \in BOOLEAN  BY Zenon DEF AutoPin
<1>2. CASE AutoMay /\ PinFile /\ Goto(Worker, "gate")
  <2>1. pc[Worker] = "idle" /\ Worker \in Threads  BY <1>2 DEF AutoPin, Threads
  <2>2. "gate" \in Labels /\ "gate" \notin Flying /\ "gate" # "wrong"  BY DEF Labels, Flying
  <2>3. Types'  BY <1>1, <1>2, <2>1, <2>2, OneMoves DEF AutoPin, Inv, Types
  <2>4. FlightsBounded'  BY <1>2, <2>1, <2>2, <2>3, MovesOn DEF AutoPin
  <2>5. AutoCounted'
    <3>1. pin_auto_done' /\ autos' = autos /\ ~pin_auto_done  BY <1>2 DEF AutoPin, AutoMay
    <3>2. autos = 0  BY <3>1 DEF Inv, AutoCounted, Types
    <3> QED  BY <3>1, <3>2 DEF AutoCounted
  <2>6. LossesCounted => LossesCounted'  BY <1>2, <2>1, <2>2, LossSteps DEF AutoPin
  <2> QED  BY <2>3, <2>4, <2>5, <2>6 DEF Kept, Inv
<1>3. CASE UNCHANGED pc
  <2>1. UNCHANGED <<pc, lost, orphans, pin_failures, autos>>  BY <1>3 DEF AutoPin
  <2>2. Types'  BY <1>1, <2>1 DEF AutoPin, Inv, Types
  <2>3. InFlight' = InFlight /\ Rejected' = Rejected  BY <2>1, SameCounts
  <2>4. pin_auto_done => pin_auto_done'  BY DEF AutoPin
  <2>5. AutoCounted'  BY <2>1, <2>4 DEF Inv, AutoCounted
  <2> QED  BY <2>1, <2>2, <2>3, <2>5 DEF Kept, Inv, FlightsBounded, LossesCounted
<1> QED  BY <1>2, <1>3 DEF AutoPin

\* Labels and the flight.
LEMMA LabelFacts ==
    /\ Flying \subseteq Labels /\ {"idle", "gate"} \subseteq Labels
    /\ "idle" \notin Flying /\ "gate" \notin Flying
BY DEF Flying, Labels

LEMMA GateSteps ==
    ASSUME Inv, NEW t \in Threads, Call(t) \/ Gate(t) PROVE Kept
<1>0. UNCHANGED <<daemonVars, cardVars, restarts>>  BY DEF Call, Gate
<1>1. PICK l \in Labels : Goto(t, l) /\ pc[t] # "wrong" /\ l # "wrong"
         /\ (l \in {"gate", "send"} => pc[t] \in {"gate", "send"} \/ t # Worker)
         /\ (l \in Flying => l = "send" /\ pc[t] = "gate" /\ Passes)
  <2>1. CASE Call(t)
    <3>1. t # Worker /\ Goto(t, "gate") /\ pc[t] = "idle"  BY <2>1 DEF Call
    <3> QED  BY <3>1, LabelFacts
  <2>2. CASE Gate(t) /\ Passes  BY <2>2, LabelFacts DEF Gate, Flying
  <2>3. CASE Gate(t) /\ ~Passes  BY <2>3, LabelFacts DEF Gate
  <2> QED  BY <2>1, <2>2, <2>3
<1>2. Types'  BY <1>0, <1>1, OneMoves DEF Inv, Types
<1>3. FlightsBounded'
  <2>1. CASE l \in Flying  BY <1>0, <1>1, <2>1, LetThrough
  <2>2. CASE l \notin Flying  BY <1>0, <1>1, <1>2, <2>2, MovesOn
  <2> QED  BY <2>1, <2>2
<1>4. AutoCounted'  BY <1>0, <1>1, AutoKept
<1>5. LossesCounted => LossesCounted'  BY <1>0, <1>1, LossSteps
<1> QED  BY <1>2, <1>3, <1>4, <1>5 DEF Kept, Inv

LEMMA SendStep ==
    ASSUME Inv, NEW t \in Threads, Send(t) PROVE Kept
<1>0. /\ pc[t] = "send" /\ "send" \in Flying
      /\ UNCHANGED <<sim, pin_failures, pin_auto_done, queued, cardVars, restarts>>
  BY DEF Send, Flying
<1>1. PICK l \in {"wait", "idle"} :
         /\ Goto(t, l)
         /\ autos' = autos \/ (autos' = autos + 1 /\ t = Worker /\ l = "wait")
  BY DEF Send
<1>2. l \in Labels /\ l # "wrong"  BY LabelFacts DEF Flying
<1>3. Types'  BY <1>0, <1>1, <1>2, OneMoves DEF Inv, Types
<1>4. FlightsBounded'  BY <1>0, <1>1, <1>2, <1>3, MovesOn
<1>5. AutoCounted'
  <2>1. CASE autos' = autos  BY <1>0, <1>1, <1>2, <2>1, AutoKept
  <2>2. CASE autos' = autos + 1 /\ t = Worker
    <3>1. autos = 0 /\ pin_auto_done  BY <1>0, <2>2 DEF Inv, AutoCounted
    <3>2. pc'[Worker] \notin {"gate", "send"}  BY <1>1, <2>2 DEF Goto, Inv, Types
    <3>3. autos' = 1  BY <2>2, <3>1
    <3> QED  BY <1>0, <3>1, <3>2, <3>3 DEF AutoCounted
  <2> QED  BY <1>1, <2>1, <2>2
<1>6. LossesCounted => LossesCounted'  BY <1>0, <1>1, <1>2, LossSteps
<1> QED  BY <1>3, <1>4, <1>5, <1>6 DEF Kept, Inv

LEMMA VerdictSteps ==
    ASSUME Inv, NEW t \in Threads, JudgeRight(t) \/ JudgeWrong(t) \/ Accepted(t)
    PROVE  Kept
<1>0. /\ UNCHANGED <<daemonVars, orphans, leftover, restarts>>
      /\ pc[t] \in Flying /\ pc[t] # "wrong"
  BY DEF JudgeRight, JudgeWrong, Accepted, Flying
<1>1. PICK l \in Labels \ {"gate", "send"} : Goto(t, l)
         /\ \/ l # "wrong" /\ lost' = lost
            \/ l = "wrong" /\ lost' = lost + 1
  <2>1. CASE JudgeRight(t)  BY <2>1 DEF JudgeRight, Labels
  <2>2. CASE JudgeWrong(t)  BY <2>2 DEF JudgeWrong, Labels
  <2>3. CASE Accepted(t)  BY <2>3 DEF Accepted, Labels
  <2> QED  BY <2>1, <2>2, <2>3
<1>2. tries' \in 0 .. Tries /\ open' \in BOOLEAN
  <2>1. CASE Right \/ Wrong  BY <2>1, Judged DEF Inv
  <2>2. CASE UNCHANGED <<tries, open>>  BY <2>2 DEF Inv, Types
  <2> QED  BY <2>1, <2>2 DEF JudgeRight, JudgeWrong, Accepted
<1>3. lost' \in Nat  BY <1>1 DEF Inv, Types
<1>4. Types'  BY <1>0, <1>1, <1>2, <1>3, OneMoves DEF Inv, Types
<1>5. FlightsBounded'  BY <1>0, <1>1, <1>4, MovesOn
<1>6. AutoCounted'  BY <1>0, <1>1, AutoKept
<1>7. LossesCounted => LossesCounted'  BY <1>0, <1>1, LossSteps
<1> QED  BY <1>4, <1>5, <1>6, <1>7 DEF Kept, Inv

LEMMA FailureSteps ==
    ASSUME Inv, NEW t \in Threads, Failed(t) \/ TimedOut(t) PROVE Kept
<1>0. /\ Goto(t, "idle") /\ pin_failures' = pin_failures + 1 /\ pc[t] \in Flying
      /\ UNCHANGED <<sim, pin_auto_done, queued, autos, tries, open, leftover, lost, restarts>>
  BY DEF Failed, TimedOut, Counted, Flying
<1>1. orphans' = orphans \/ (orphans' = orphans + 1 /\ pc[t] # "wrong")
  BY DEF Failed, TimedOut
<1>2. orphans' \in Nat /\ pin_failures' \in Nat  BY <1>0, <1>1 DEF Inv, Types
<1>3. Types'  BY <1>0, <1>2, OneMoves, LabelFacts DEF Inv, Types
<1>4. FlightsBounded'  BY <1>0, Recorded
<1>5. AutoCounted'  BY <1>0, AutoKept, LabelFacts
<1>6. LossesCounted => LossesCounted'  BY <1>0, <1>1, LossSteps, LabelFacts
<1> QED  BY <1>3, <1>4, <1>5, <1>6 DEF Kept, Inv

LEMMA StrayStep ==
    ASSUME Inv, NEW t \in Threads, StatusAnswers(t) PROVE Kept
<1>0. /\ Goto(t, "idle") /\ UNCHANGED <<daemonVars, tries, open, leftover, lost, restarts>>
      /\ lost + orphans < MaxStray /\ (orphans' = orphans \/ orphans' = orphans + 1)
  BY DEF StatusAnswers
<1>1. orphans' \in Nat  BY <1>0 DEF Inv, Types
<1>2. Types'  BY <1>0, <1>1, OneMoves, LabelFacts DEF Inv, Types
<1>3. FlightsBounded'  BY <1>0, <1>2, MovesOn, LabelFacts
<1>4. AutoCounted'  BY <1>0, AutoKept, LabelFacts
<1>5. LossesCounted'
  <2> DEFINE R1 == Cardinality(Rejected')
  <2>1. R1 \in Nat  BY CountsAreNat
  <2>2. lost \in Nat /\ orphans \in Nat /\ pin_failures \in Nat  BY DEF Inv, Types
  <2> HIDE DEF R1
  <2>3. lost' + orphans' <= pin_failures' + R1 + MaxStray  BY <1>0, <2>1, <2>2
  <2> QED  BY <2>3 DEF R1, LossesCounted
<1> QED  BY <1>2, <1>3, <1>4, <1>5 DEF Kept, Inv

LEMMA NextKeeps == Inv /\ [Next]_vars => Kept
<1> SUFFICES ASSUME Inv, [Next]_vars PROVE Kept  OBVIOUS
<1>1. CASE Quiet  BY <1>1, QuietSteps
<1>2. CASE AutoPin  BY <1>2, AutoPinStep
<1>3. CASE Restart  BY <1>3, RestartStep
<1>4. CASE \E t \in Threads : EnterPin(t)
  <2>1. PICK t \in Threads : EnterPin(t)  BY <1>4
  <2> QED
    BY <2>1, GateSteps, SendStep, VerdictSteps, FailureSteps, StrayStep DEF EnterPin
<1> QED  BY <1>1, <1>2, <1>3, <1>4 DEF Next, Quiet

LEMMA CountsBoundLoss ==
    ASSUME Inv, LossesCounted PROVE LossIsBounded
<1> DEFINE F == Cardinality(InFlight)
           N == Cardinality(Threads)
           R == Cardinality(Rejected)
<1>1. F \in Nat /\ N \in Nat /\ R \in Nat  BY CountsAreNat, ThreadCounts
<1>2. Rejected \in SUBSET InFlight /\ IsFiniteSet(InFlight)
  BY ThreadCounts DEF Rejected, InFlight, Flying
<1>3. R <= F  BY <1>2, FS_Subset
<1>4. /\ pin_failures \in Nat /\ lost \in Nat /\ orphans \in Nat
      /\ pin_failures + F <= N + 1 /\ lost + orphans <= pin_failures + R + MaxStray
  BY DEF Inv, FlightsBounded, LossesCounted, Types
<1> HIDE DEF F, N, R
<1>5. lost <= N + 1 + MaxStray  BY <1>1, <1>3, <1>4
<1> QED  BY <1>5 DEF N, LossIsBounded

-----------------------------------------------------------------------------
\* enter_pin, auto_pin and the status handler keep the state's types for any number
\* of HTTP threads; at most one failure more than there are threads is recorded.
THEOREM TypeCorrect == Spec => []TypeOK
<1>1. Inv => TypeOK
  <2> SUFFICES ASSUME Inv PROVE TypeOK  OBVIOUS
  <2> DEFINE F == Cardinality(InFlight)
             N == Cardinality(Threads)
  <2>1. F \in Nat /\ N \in Nat  BY CountsAreNat, ThreadCounts
  <2>2. pin_failures \in Nat /\ pin_failures + F <= N + 1  BY DEF Inv, FlightsBounded, Types
  <2> HIDE DEF F, N
  <2>3. pin_failures \in 0 .. N + 1  BY <2>1, <2>2
  <2> QED  BY <2>3 DEF N, Inv, Types, TypeOK
<1>2. Inv /\ [Next]_vars => Inv'  BY NextKeeps DEF Kept
<1> QED  BY <1>1, <1>2, InitInv, PTL DEF Spec

\* auto_pin sends at most one PIN in a run of the daemon, whatever the other threads
\* and unnumbered answers do.
THEOREM AutoPinOnce == Spec => []AutoOnce
<1>1. Inv => AutoOnce  BY DEF Inv, AutoCounted, AutoOnce
<1>2. Inv /\ [Next]_vars => Inv'  BY NextKeeps DEF Kept
<1> QED  BY <1>1, <1>2, InitInv, PTL DEF Spec

\* A run of the daemon makes at most one wrong attempt more than it has threads in
\* enter_pin, and one for each verdict a stray status answer took the place of.
THEOREM LossBounded == Spec => []LossIsBounded
<1> DEFINE IInv == Inv /\ LossesCounted
<1>1. Init => IInv  BY InitInv
<1>2. IInv /\ [Next]_vars => IInv'  BY NextKeeps DEF Kept
<1>3. IInv => LossIsBounded  BY CountsBoundLoss
<1> QED  BY <1>1, <1>2, <1>3, PTL DEF Spec

-----------------------------------------------------------------------------
(* One thread in one run. *)

\* The card's tries are what the wrong PINs of this run left, or more.
TriesCounted == tries + lost >= Tries /\ leftover = 0

LEMMA TriesStep ==
    ASSUME MaxRestarts = 0, Inv, TriesCounted, [Next]_vars
    PROVE  TriesCounted'
<1>0. tries \in Nat /\ lost \in Nat /\ restarts = 0  BY DEF Inv, Types, Tries
<1>1. \/ UNCHANGED <<tries, lost, leftover>>
      \/ Right /\ UNCHANGED <<lost, leftover>>
      \/ Wrong /\ lost' = lost + 1 /\ UNCHANGED leftover
  <2>1. CASE OnSim \/ AutoPin \/ ModemRestarts \/ UNCHANGED vars
    BY <2>1 DEF OnSim, AutoPin, ModemRestarts
  <2>2. CASE JudgeOrphan  BY <2>2 DEF JudgeOrphan
  <2>3. CASE JudgeLeftover  BY <2>3 DEF JudgeLeftover, TriesCounted
  <2>4. CASE Restart  BY <1>0, <2>4 DEF Restart
  <2>5. CASE \E t \in Threads : EnterPin(t)
    <3>1. PICK t \in Threads : EnterPin(t)  BY <2>5
    <3>2. CASE JudgeRight(t) \/ JudgeWrong(t)  BY <3>2 DEF JudgeRight, JudgeWrong
    <3>3. CASE Call(t) \/ Gate(t) \/ Send(t) \/ Accepted(t) \/ Failed(t) \/ TimedOut(t) \/ StatusAnswers(t)
      BY <3>3 DEF Call, Gate, Send, Accepted, Failed, TimedOut, StatusAnswers
    <3> QED  BY <3>1, <3>2, <3>3 DEF EnterPin
  <2> QED  BY <2>1, <2>2, <2>3, <2>4, <2>5 DEF Next
<1> QED  BY <1>0, <1>1 DEF TriesCounted, Right, Wrong, Tries

\* README: "at least one try is left before PUK".  It is so in a run in which only one
\* thread calls enter_pin and no status answer passes for a verdict; a second thread
\* breaks it.
THEOREM OneThreadLeavesATry ==
    ASSUME Cardinality(Threads) = 1, MaxStray = 0, MaxRestarts = 0
    PROVE  Spec => []TryLeft
<1> DEFINE IInv == Inv /\ LossesCounted /\ TriesCounted
<1>1. Init => IInv
  <2>1. Init => TriesCounted  BY DEF Init, TriesCounted, Tries
  <2> QED  BY <2>1, InitInv
<1>2. IInv /\ [Next]_vars => IInv'  BY NextKeeps, TriesStep DEF Kept
<1>3. IInv => TryLeft
  <2> SUFFICES ASSUME IInv PROVE TryLeft  OBVIOUS
  <2>1. LossIsBounded  BY CountsBoundLoss
  <2>2. lost <= 2 /\ lost \in Nat /\ tries \in Nat  BY <2>1 DEF LossIsBounded, Inv, Types, Tries
  <2>3. tries + lost >= 3  BY DEF TriesCounted, Tries
  <2> QED  BY <2>2, <2>3 DEF TryLeft
<1> QED  BY <1>1, <1>2, <1>3, PTL DEF Spec

-----------------------------------------------------------------------------
(* The link, for any callers, requests and size of the sequence numbers.   *)

USE LinkAssumption
USE DEF linkVars, Seqs, Requests, None

\* The caller is between send()'s registration and its own return.
InCall(c) == place[c] \in {"write", "wait"}
\* No other request took over the number of r.
KeepsNumber(r) == pending[obj[r].seq] \in {0, r}

\* The dict holds a request under its own number.
DictIsKeyed ==
    /\ \A s \in Seqs :
           pending[s] # 0 => pending[s] \in 1 .. count /\ obj[pending[s]].seq = s
    /\ \A r \in 1 .. count : obj[r].seq \in Seqs

\* A caller has a request of its own; _forget cannot take another's number.
CallersApart ==
    /\ \A c \in Clients : InCall(c) => cur[c] \in 1 .. count /\ KeepsNumber(cur[c])
    /\ \A c, d \in Clients : InCall(c) /\ InCall(d) /\ c # d => cur[c] # cur[d]

\* A request is in the dict until it was woken or its caller gave it up.
CallersWoken ==
    \A c \in Clients : InCall(c) => pending[obj[cur[c]].seq] = cur[c] \/ obj[cur[c]].event

\* What the CP has and what it sent belongs to requests that keep their number.
AnswersKeepNumber ==
    /\ \A r \in held : r \in 1 .. count /\ KeepsNumber(r)
    /\ \A f \in wire :
           /\ f.of \in 1 .. count /\ KeepsNumber(f.of) /\ f.cmd = obj[f.of].kind.cmd
           /\ f.aseq = obj[f.of].seq \/ (f.kind = "resp" /\ f.aseq = 0)

LinkInv ==
    /\ LinkTypeOK /\ DictIsKeyed /\ CallersApart /\ CallersWoken /\ AnswersKeepNumber
    /\ GenIsOwn /\ StrictAnswersAreOwn

LEMMA LeastIn ==
    ASSUME NEW S \in SUBSET Nat, S # {}
    PROVE  Least(S) \in S
<1>1. PICK x \in S : \A y \in S : ~(<<y, x>> \in OpToRel(<, Nat))
  BY NatLessThanWellFounded, WFMin, Zenon
<1>2. \A y \in S : ~(y < x)  BY <1>1 DEF OpToRel
<1>3. \A y \in S : x <= y  BY <1>2
<1>4. QED  BY <1>3 DEF Least

LEMMA NextSeqIsFree ==
    ASSUME LinkTypeOK, \E s \in Seqs : pending[s] = 0
    PROVE  NextSeq \in Seqs /\ pending[NextSeq] = 0
<1> DEFINE free == {s \in Seqs : pending[s] = None}
           ahead == {s \in free : s > mseq}
           pool == IF ahead # {} THEN ahead ELSE free
<1>1. pool \in SUBSET Nat /\ pool # {} /\ pool \subseteq free
  OBVIOUS
<1>2. Least(pool) \in pool
  <2> HIDE DEF pool
  <2> QED BY <1>1, LeastIn
<1>3. NextSeq = Least(pool)  BY DEF NextSeq
<1> QED BY <1>1, <1>2, <1>3

\* A RESP goes to a registered request of its command: the one it answers, or one that
\* is not strict.
LEMMA RespTargetIsOwnOrLoose ==
    ASSUME LinkInv, NEW f \in wire, f.kind = "resp",
           RespTarget(f) # 0
    PROVE  /\ RespTarget(f) \in Requests /\ RespTarget(f) \in 1 .. count
           /\ obj[RespTarget(f)].kind.cmd = f.cmd
           /\ obj[RespTarget(f)].kind.strict => RespTarget(f) = f.of
<1>1. f \in Frames /\ f.of \in Requests  BY DEF LinkInv, LinkTypeOK, Frames
<1>2. CASE Named(f) # 0 /\ obj[Named(f)].kind.cmd = f.cmd
  <2>1. RespTarget(f) = Named(f)  BY <1>2 DEF RespTarget
  <2>2. f.aseq # 0 /\ Named(f) = pending[f.aseq]  BY <1>2 DEF Named
  <2>3. f.aseq = obj[f.of].seq /\ KeepsNumber(f.of)  BY <2>2 DEF LinkInv, AnswersKeepNumber
  <2>4. Named(f) = f.of  BY <2>2, <2>3, <1>2 DEF KeepsNumber
  <2> QED BY <2>1, <2>4, <1>1, <1>2 DEF LinkInv, AnswersKeepNumber
<1>3. CASE ~(Named(f) # 0 /\ obj[Named(f)].kind.cmd = f.cmd)
  <2>1. Waiters(f.cmd) # {} /\ RespTarget(f) = Least(Waiters(f.cmd))
    BY <1>3 DEF RespTarget
  <2>2. Waiters(f.cmd) \in SUBSET Nat  BY DEF Waiters
  <2>3. RespTarget(f) \in Waiters(f.cmd)  BY <2>1, <2>2, LeastIn
  <2>4. RespTarget(f) \in Requests /\ Registered(RespTarget(f))
    BY <2>3 DEF Waiters
  <2>5. RespTarget(f) \in 1 .. count
    BY <2>4 DEF Registered, LinkInv, DictIsKeyed
  <2> QED BY <2>3, <2>4, <2>5 DEF Waiters
<1> QED BY <1>2, <1>3

LEMMA GenTargetIsOwn ==
    ASSUME LinkInv, NEW f \in wire, f.kind = "gen",
           GenTarget(f) # 0
    PROVE  GenTarget(f) = f.of /\ f.of \in Requests
<1>1. f \in Frames /\ f.of \in Requests  BY DEF LinkInv, LinkTypeOK, Frames
<1>2. GenTarget(f) = Named(f) /\ Named(f) # 0  BY DEF GenTarget
<1>3. Named(f) = pending[f.aseq]  BY <1>2 DEF Named
<1>4. f.aseq = obj[f.of].seq /\ KeepsNumber(f.of)  BY DEF LinkInv, AnswersKeepNumber
<1> QED BY <1>1, <1>2, <1>3, <1>4 DEF KeepsNumber

\* By the time a number is taken again, nothing is left of its former request.
LEMMA CameRoundApart ==
    ASSUME LinkInv, NEW s \in Seqs, pending[s] = 0, CameRound(s),
           NEW r \in 1 .. count, obj[r].seq = s
    PROVE  /\ r \notin held /\ \A f \in wire : f.of # r
           /\ \A c \in Clients : InCall(c) => cur[c] # r
<1>1. r \in Requests  BY DEF LinkInv, LinkTypeOK
<1>2. ~Registered(r)
  BY <1>1 DEF Registered, LinkInv, DictIsKeyed
<1> QED BY <1>2 DEF CameRound, InCall

LEMMA InitLink ==
    ASSUME LinkInit
    PROVE  LinkInv
<1> DEFINE k == CHOOSE k \in Kinds : TRUE
<1>1. k \in Kinds  OBVIOUS
<1> HIDE DEF k
<1>2. obj = [r \in Requests |-> Pending(k, 0)]  BY DEF LinkInit, k
<1>3. Pending(k, 0) \in PendingObjects
  BY <1>1 DEF Pending, PendingObjects
<1>4. LinkTypeOK
  <2>1. 0 \in 0 .. MaxSeq /\ 0 \in 0 .. MaxRequests  OBVIOUS
  <2>2. obj \in [Requests -> PendingObjects]  BY <1>2, <1>3
  <2>3. pending \in [Seqs -> 0 .. MaxRequests] /\ cur \in [Clients -> 0 .. MaxRequests]
    BY <2>1 DEF LinkInit
  <2>4. place \in [Clients -> {"idle", "register", "write", "wait"}]  BY DEF LinkInit
  <2> QED BY <2>1, <2>2, <2>3, <2>4 DEF LinkInit, LinkTypeOK
<1>5. GenIsOwn /\ StrictAnswersAreOwn
  BY <1>2 DEF GenIsOwn, StrictAnswersAreOwn, Pending
<1> QED
  BY <1>4, <1>5
  DEF LinkInit, LinkInv, DictIsKeyed, CallersApart, CallersWoken, AnswersKeepNumber, InCall

\* Registration: the number was free and nothing of a former request is about.
LEMMA RegisterKeeps ==
    ASSUME LinkInv, NEW c \in Clients, Register(c)
    PROVE  LinkInv'
<1> DEFINE s == NextSeq
           n == count + 1
<1>1. PICK kind \in Kinds : obj' = [obj EXCEPT ![n] = Pending(kind, s)]
  BY DEF Register
<1>2. s \in Seqs /\ pending[s] = 0
  BY NextSeqIsFree DEF Register, LinkInv
<1>3. n \in Requests /\ count \in Nat /\ count' = n /\ count < MaxRequests
  BY DEF Register, LinkInv, LinkTypeOK
<1>4. CameRound(s)  BY DEF Register
<1>s. /\ mseq' = s
      /\ pending' = [pending EXCEPT ![s] = n]
      /\ cur' = [cur EXCEPT ![c] = n]
      /\ place' = [place EXCEPT ![c] = "write"]
      /\ UNCHANGED <<ipc, held, wire>> /\ place[c] = "register"
  BY DEF Register
<1> HIDE DEF s
<1>5. /\ \A r \in 1 .. count : obj[r].seq = s =>
             /\ r \notin held /\ \A f \in wire : f.of # r
             /\ \A d \in Clients : InCall(d) => cur[d] # r
  BY <1>2, <1>4, CameRoundApart
<1>6. Pending(kind, s) \in PendingObjects
  BY <1>2 DEF Pending, PendingObjects
<1>7. LinkTypeOK'
  BY <1>1, <1>2, <1>3, <1>6, <1>s DEF LinkInv, LinkTypeOK
<1>8. /\ obj'[n] = Pending(kind, s) /\ obj'[n].seq = s
      /\ obj'[n].gen = 0 /\ obj'[n].resp = 0 /\ pending'[s] = n
      /\ \A r \in Requests : r # n => obj'[r] = obj[r]
      /\ \A t \in Seqs : t # s => pending'[t] = pending[t]
  BY <1>1, <1>2, <1>3, <1>s DEF LinkInv, LinkTypeOK, Pending
<1>9. \A r \in 1 .. count : r \in Requests /\ r # n /\ obj'[r] = obj[r] /\ obj[r].seq \in Seqs
  BY <1>8, <1>3 DEF LinkInv, DictIsKeyed
<1>10. \A r \in 1 .. count : obj[r].seq # s => pending'[obj'[r].seq] = pending[obj[r].seq]
  BY <1>8, <1>9
<1>11. DictIsKeyed'
  <2>1. \A t \in Seqs : pending'[t] # 0 => pending'[t] \in 1 .. n /\ obj'[pending'[t]].seq = t
    BY <1>8, <1>9, <1>3, <1>2 DEF LinkInv, DictIsKeyed
  <2>2. \A r \in 1 .. n : obj'[r].seq \in Seqs
    BY <1>8, <1>9, <1>3, <1>2
  <2> QED BY <2>1, <2>2, <1>3 DEF DictIsKeyed
<1>12. \A d \in Clients : InCall(d)' /\ d # c => InCall(d) /\ cur'[d] = cur[d]
  BY <1>s DEF InCall, LinkInv, LinkTypeOK
<1>13. cur'[c] = n  BY <1>s DEF LinkInv, LinkTypeOK
<1>14. \A d \in Clients : InCall(d) => cur[d] \in 1 .. count /\ KeepsNumber(cur[d]) /\ obj[cur[d]].seq # s
  BY <1>5 DEF LinkInv, CallersApart
<1>15. CallersApart'
  <2>1. \A d \in Clients : InCall(d)' => cur'[d] \in 1 .. n /\ pending'[obj'[cur'[d]].seq] \in {0, cur'[d]}
    BY <1>12, <1>13, <1>14, <1>10, <1>8, <1>3 DEF KeepsNumber
  <2>2. \A d, e \in Clients : InCall(d)' /\ InCall(e)' /\ d # e => cur'[d] # cur'[e]
    BY <1>12, <1>13, <1>14, <1>3 DEF LinkInv, CallersApart
  <2> QED BY <2>1, <2>2, <1>3 DEF CallersApart, KeepsNumber
<1>16. CallersWoken'
  BY <1>8, <1>9, <1>10, <1>12, <1>13, <1>14 DEF LinkInv, CallersWoken
<1>17. AnswersKeepNumber'
  <2>1. \A r \in held : r \in 1 .. count /\ KeepsNumber(r) /\ obj[r].seq # s
    BY <1>5 DEF LinkInv, AnswersKeepNumber
  <2>2. \A f \in wire : f.of \in 1 .. count /\ KeepsNumber(f.of) /\ obj[f.of].seq # s
    BY <1>5 DEF LinkInv, AnswersKeepNumber
  <2>3. \A r \in held' : r \in 1 .. n /\ pending'[obj'[r].seq] \in {0, r}
    BY <2>1, <1>10, <1>3, <1>s DEF KeepsNumber
  <2>4. \A f \in wire' :
          /\ f.of \in 1 .. n /\ pending'[obj'[f.of].seq] \in {0, f.of} /\ f.cmd = obj'[f.of].kind.cmd
          /\ f.aseq = obj'[f.of].seq \/ (f.kind = "resp" /\ f.aseq = 0)
    BY <2>2, <1>10, <1>3, <1>s, <1>9 DEF KeepsNumber, LinkInv, AnswersKeepNumber
  <2> QED BY <2>3, <2>4, <1>3 DEF AnswersKeepNumber, KeepsNumber
<1>18. GenIsOwn' /\ StrictAnswersAreOwn'
  BY <1>8 DEF LinkInv, GenIsOwn, StrictAnswersAreOwn
<1> QED BY <1>7, <1>11, <1>15, <1>16, <1>17, <1>18 DEF LinkInv

\* What _forget does to the dict: the number of r, and no other, becomes free.
LEMMA ForgetKeeps ==
    ASSUME LinkInv, NEW c \in Clients, InCall(c),
           pending' = Forget(cur[c]),
           place' = [place EXCEPT ![c] = "idle"],
           UNCHANGED <<ipc, mseq, count, obj, cur, held, wire>>
    PROVE  LinkInv'
<1> DEFINE r == cur[c]
           s == obj[cur[c]].seq
<1>1. r \in 1 .. count /\ r \in Requests /\ s \in Seqs /\ KeepsNumber(r)
  BY DEF LinkInv, CallersApart, DictIsKeyed, LinkTypeOK
<1>2. pending[s] \in {0, r} /\ pending' = [pending EXCEPT ![s] = 0]
  BY <1>1 DEF KeepsNumber, Forget
<1>3. /\ pending' \in [Seqs -> 0 .. MaxRequests]
      /\ pending'[s] = 0 /\ \A t \in Seqs : t # s => pending'[t] = pending[t]
  BY <1>1, <1>2 DEF LinkInv, LinkTypeOK
<1>4. LinkTypeOK'
  BY <1>3 DEF LinkInv, LinkTypeOK
<1>5. \A d \in Clients : InCall(d)' => InCall(d) /\ d # c
  BY DEF InCall, LinkInv, LinkTypeOK
<1>6. \A q \in 1 .. count : obj[q].seq \in Seqs  BY DEF LinkInv, DictIsKeyed
<1> HIDE DEF s, r
<1>7. \A q \in 1 .. count : KeepsNumber(q) => KeepsNumber(q)'
  BY <1>3, <1>6 DEF KeepsNumber
<1>8. DictIsKeyed'
  BY <1>3 DEF LinkInv, DictIsKeyed
<1>9. CallersApart'
  BY <1>5, <1>7 DEF LinkInv, CallersApart
<1>10. CallersWoken'
  <2> SUFFICES ASSUME NEW d \in Clients, InCall(d)', ~obj[cur[d]].event
               PROVE  pending'[obj[cur[d]].seq] = cur[d]
    BY DEF CallersWoken
  <2>1. pending[obj[cur[d]].seq] = cur[d] /\ cur[d] # r /\ cur[d] \in 1 .. count
    BY <1>5 DEF LinkInv, CallersWoken, CallersApart, r
  <2>2. cur[d] # 0  BY <2>1
  <2>3. obj[cur[d]].seq # s  BY <2>1, <2>2, <1>2
  <2> QED BY <2>1, <2>3, <1>3, <1>6
<1>11. AnswersKeepNumber'
  BY <1>7 DEF LinkInv, AnswersKeepNumber
<1>12. GenIsOwn' /\ StrictAnswersAreOwn'
  BY DEF LinkInv, GenIsOwn, StrictAnswersAreOwn
<1> QED BY <1>4, <1>8, <1>9, <1>10, <1>11, <1>12 DEF LinkInv

\* Steps that only move a caller or hand a request to the CP.
LEMMA CallerMoves ==
    ASSUME LinkInv, NEW c \in Clients,
           \/ Begin(c) \/ RegisterFails(c) \/ Write(c) \/ WriteOnClosed(c)
    PROVE  LinkInv'
<1>1. UNCHANGED <<ipc, mseq, pending, count, obj, cur, wire>>
  BY DEF Begin, RegisterFails, Write, WriteOnClosed
<1>2. \A d \in Clients : InCall(d)' => InCall(d)
  BY DEF Begin, RegisterFails, Write, WriteOnClosed, InCall, LinkInv, LinkTypeOK
<1>3. place' \in [Clients -> {"idle", "register", "write", "wait"}]
  BY DEF Begin, RegisterFails, Write, WriteOnClosed, LinkInv, LinkTypeOK
<1>4. \A r \in held' : r \in 1 .. count /\ r \in Requests /\ KeepsNumber(r)
  <2>1. \A r \in held' : r \in held \/ (r = cur[c] /\ InCall(c))
    BY DEF Begin, RegisterFails, Write, WriteOnClosed, InCall
  <2>2. \A r \in 1 .. count : r \in Requests  BY DEF LinkInv, LinkTypeOK
  <2> QED BY <2>1, <2>2 DEF LinkInv, AnswersKeepNumber, CallersApart
<1>5. LinkTypeOK'  BY <1>1, <1>3, <1>4 DEF LinkInv, LinkTypeOK
<1>6. DictIsKeyed' /\ GenIsOwn' /\ StrictAnswersAreOwn'
  BY <1>1 DEF LinkInv, DictIsKeyed, GenIsOwn, StrictAnswersAreOwn
<1>7. CallersApart' /\ CallersWoken'
  BY <1>1, <1>2 DEF LinkInv, CallersApart, CallersWoken, KeepsNumber
<1>8. AnswersKeepNumber'
  BY <1>1, <1>4 DEF LinkInv, AnswersKeepNumber, KeepsNumber
<1> QED BY <1>5, <1>6, <1>7, <1>8 DEF LinkInv

LEMMA AnswerKeeps ==
    ASSUME LinkInv, NEW r \in Requests, Answer(r)
    PROVE  LinkInv'
<1>1. /\ r \in held /\ held' = held \ {r}
      /\ UNCHANGED <<ipc, mseq, pending, count, obj, place, cur>>
  BY DEF Answer
<1>2. r \in 1 .. count /\ KeepsNumber(r) /\ obj[r].seq \in Seqs
  BY <1>1 DEF LinkInv, AnswersKeepNumber, DictIsKeyed
<1>3. obj[r].kind.cmd \in Cmds
  BY DEF LinkInv, LinkTypeOK, PendingObjects
<1>4. \A f \in wire' : f \in wire \/
        /\ f \in Frames
        /\ f.of = r /\ f.cmd = obj[r].kind.cmd /\ (f.aseq = obj[r].seq \/ (f.kind = "resp" /\ f.aseq = 0))
  <2> DEFINE frame(k, a, ok) == [kind |-> k, aseq |-> a, cmd |-> obj[r].kind.cmd, of |-> r, ok |-> ok]
  <2>1. \A f \in wire' : f \in wire \/
          \E ok \in BOOLEAN : f \in {frame("gen", obj[r].seq, ok),
                                    frame("resp", obj[r].seq, ok), frame("resp", 0, ok)}
    BY DEF Answer
  <2>2. \A k \in {"gen", "resp"}, a \in 0 .. MaxSeq, ok \in BOOLEAN :
          /\ frame(k, a, ok) \in Frames
          /\ frame(k, a, ok).of = r /\ frame(k, a, ok).aseq = a /\ frame(k, a, ok).kind = k
          /\ frame(k, a, ok).cmd = obj[r].kind.cmd
    BY <1>3 DEF Frames
  <2>3. obj[r].seq \in 0 .. MaxSeq /\ 0 \in 0 .. MaxSeq  BY <1>2
  <2> HIDE DEF frame
  <2> QED BY <2>1, <2>2, <2>3
<1>5. wire' \subseteq Frames
  BY <1>4 DEF LinkInv, LinkTypeOK
<1>6. LinkTypeOK'  BY <1>1, <1>5 DEF LinkInv, LinkTypeOK
<1>7. DictIsKeyed' /\ GenIsOwn' /\ StrictAnswersAreOwn' /\ CallersApart' /\ CallersWoken'
  BY <1>1 DEF LinkInv, DictIsKeyed, GenIsOwn, StrictAnswersAreOwn,
              CallersApart, CallersWoken, KeepsNumber, InCall
<1>8. AnswersKeepNumber'
  BY <1>1, <1>2, <1>4 DEF LinkInv, AnswersKeepNumber, KeepsNumber
<1> QED BY <1>6, <1>7, <1>8 DEF LinkInv

\* Recording an answer, or waking a request, leaves its number and kind alone.
LEMMA RecordKeeps ==
    ASSUME LinkInv,
           obj' \in [Requests -> PendingObjects],
           \A r \in Requests :
              /\ obj'[r].seq = obj[r].seq /\ obj'[r].kind = obj[r].kind
              /\ obj[r].event => obj'[r].event
              /\ obj'[r].gen \in {0, r}
              /\ obj[r].kind.strict => obj'[r].resp \in {0, r},
           wire' \subseteq wire, held' \subseteq held,
           UNCHANGED <<mseq, pending, count, place, cur>>, ipc' \in BOOLEAN
    PROVE  LinkInv'
<1>1. \A r \in 1 .. count : r \in Requests  BY DEF LinkInv, LinkTypeOK
<1>2. LinkTypeOK'  BY DEF LinkInv, LinkTypeOK
<1>3. \A r \in 1 .. count : KeepsNumber(r) => KeepsNumber(r)'  BY <1>1 DEF KeepsNumber
<1>4. DictIsKeyed'  BY <1>1 DEF LinkInv, DictIsKeyed
<1>5. CallersApart'  BY <1>3 DEF LinkInv, CallersApart, InCall
<1>6. CallersWoken'  BY <1>1 DEF LinkInv, CallersWoken, CallersApart, InCall
<1>7. AnswersKeepNumber'  BY <1>1, <1>3 DEF LinkInv, AnswersKeepNumber
<1>8. GenIsOwn' /\ StrictAnswersAreOwn'
  BY DEF GenIsOwn, StrictAnswersAreOwn
<1> QED BY <1>2, <1>4, <1>5, <1>6, <1>7, <1>8 DEF LinkInv

LEMMA DispatchKeeps ==
    ASSUME LinkInv, Dispatch
    PROVE  LinkInv'
<1>1. PICK f \in wire : (DispatchGen(f) \/ DispatchResp(f)) /\ wire' = wire \ {f}
  BY DEF Dispatch
<1>2. UNCHANGED <<ipc, mseq, pending, count, place, cur, held>> /\ ipc' \in BOOLEAN
  BY DEF Dispatch, LinkInv, LinkTypeOK
<1>3. f.of \in 0 .. MaxRequests  BY DEF LinkInv, LinkTypeOK, Frames
<1>4. obj \in [Requests -> PendingObjects]  BY DEF LinkInv, LinkTypeOK
<1>5. \A r \in Requests :
        /\ obj[r].gen \in {0, r} /\ (obj[r].kind.strict => obj[r].resp \in {0, r})
        /\ obj[r].event \in BOOLEAN
  BY <1>4 DEF LinkInv, GenIsOwn, StrictAnswersAreOwn, PendingObjects
<1>6. CASE obj' = obj  BY <1>1, <1>2, <1>4, <1>5, <1>6, RecordKeeps
<1>7. CASE DispatchGen(f) /\ obj' # obj
  <2> DEFINE r == GenTarget(f)
             woken == obj[r].event \/ ~(obj[r].kind.want /\ f.ok)
  <2>1. f.kind = "gen" /\ r # 0 /\ obj' = [obj EXCEPT ![r].gen = f.of, ![r].event = woken]
    BY <1>7 DEF DispatchGen
  <2>2. r = f.of /\ r \in Requests  BY <2>1, GenTargetIsOwn
  <2> HIDE DEF r
  <2>3. woken \in BOOLEAN /\ (obj[r].event => woken)  OBVIOUS
  <2> HIDE DEF woken
  <2>4. obj' \in [Requests -> PendingObjects]
    <3> DEFINE new == [obj[r] EXCEPT !.gen = f.of, !.event = woken]
    <3>1. new \in PendingObjects  BY <1>3, <1>4, <2>2, <2>3 DEF PendingObjects
    <3>2. obj' = [obj EXCEPT ![r] = new]  BY <2>1
    <3> HIDE DEF new
    <3> QED BY <1>4, <3>1, <3>2
  <2>5. \A q \in Requests :
           /\ obj'[q].seq = obj[q].seq /\ obj'[q].kind = obj[q].kind
           /\ obj[q].event => obj'[q].event
           /\ obj'[q].gen \in {0, q} /\ obj'[q].resp = obj[q].resp
    BY <1>4, <1>5, <2>1, <2>2, <2>3 DEF PendingObjects
  <2> QED BY <1>1, <1>2, <1>5, <2>4, <2>5, RecordKeeps
<1>8. CASE DispatchResp(f) /\ obj' # obj
  <2> DEFINE r == RespTarget(f)
  <2>1. f.kind = "resp" /\ r # 0 /\ obj' = [obj EXCEPT ![r].resp = f.of, ![r].event = TRUE]
    BY <1>8 DEF DispatchResp
  <2>2. r \in Requests /\ (obj[r].kind.strict => r = f.of)
    BY <2>1, RespTargetIsOwnOrLoose
  <2> HIDE DEF r
  <2>4. obj' \in [Requests -> PendingObjects]
    <3> DEFINE new == [obj[r] EXCEPT !.resp = f.of, !.event = TRUE]
    <3>1. new \in PendingObjects  BY <1>3, <1>4, <2>2 DEF PendingObjects
    <3>2. obj' = [obj EXCEPT ![r] = new]  BY <2>1
    <3> HIDE DEF new
    <3> QED BY <1>4, <3>1, <3>2
  <2>5. \A q \in Requests :
           /\ obj'[q].seq = obj[q].seq /\ obj'[q].kind = obj[q].kind
           /\ obj[q].event => obj'[q].event
           /\ obj'[q].gen = obj[q].gen /\ (obj[q].kind.strict => obj'[q].resp \in {0, q})
    BY <1>4, <1>5, <2>1, <2>2 DEF PendingObjects
  <2> QED BY <1>1, <1>2, <1>5, <2>4, <2>5, RecordKeeps
<1> QED BY <1>1, <1>6, <1>7, <1>8

LEMMA DropKeeps ==
    ASSUME LinkInv, Drop
    PROVE  LinkInv'
<1>1. /\ ipc' = FALSE /\ obj' = Woken /\ pending' = [s \in Seqs |-> 0]
      /\ UNCHANGED <<mseq, count, place, cur>> /\ wire' \subseteq wire /\ held' \subseteq held
  BY DEF Drop
<1>2. obj \in [Requests -> PendingObjects]  BY DEF LinkInv, LinkTypeOK
<1>3. \A r \in Requests :
        /\ obj'[r] \in PendingObjects
        /\ obj'[r].seq = obj[r].seq /\ obj'[r].kind = obj[r].kind
        /\ obj'[r].gen = obj[r].gen /\ obj'[r].resp = obj[r].resp
        /\ obj'[r].event = (obj[r].event \/ Registered(r))
  BY <1>1, <1>2 DEF Woken, PendingObjects
<1>4. obj' \in [Requests -> PendingObjects]  BY <1>1, <1>3 DEF Woken
<1>5. \A r \in 1 .. count : r \in Requests /\ obj[r].seq \in Seqs
  BY DEF LinkInv, LinkTypeOK, DictIsKeyed
<1>6. \A r \in 1 .. count : pending'[obj'[r].seq] = 0 /\ KeepsNumber(r)'
  BY <1>1, <1>3, <1>5 DEF KeepsNumber
<1>7. pending' \in [Seqs -> 0 .. MaxRequests]
  BY <1>1
<1>8. LinkTypeOK'  BY <1>1, <1>4, <1>7 DEF LinkInv, LinkTypeOK
<1>9. DictIsKeyed'  BY <1>1, <1>3, <1>5 DEF DictIsKeyed
<1>10. CallersApart'  BY <1>1, <1>6 DEF LinkInv, CallersApart, InCall
<1>11. CallersWoken'
  <2> SUFFICES ASSUME NEW c \in Clients, InCall(c)  PROVE obj'[cur[c]].event
    BY <1>1 DEF CallersWoken, InCall
  <2>1. cur[c] \in 1 .. count /\ (pending[obj[cur[c]].seq] = cur[c] \/ obj[cur[c]].event)
    BY DEF LinkInv, CallersApart, CallersWoken
  <2>2. Registered(cur[c]) \/ obj[cur[c]].event  BY <2>1, <1>5 DEF Registered
  <2> QED BY <2>1, <2>2, <1>3, <1>5
<1>12. AnswersKeepNumber'
  BY <1>1, <1>3, <1>5, <1>6 DEF LinkInv, AnswersKeepNumber
<1>13. GenIsOwn' /\ StrictAnswersAreOwn'
  BY <1>3 DEF LinkInv, GenIsOwn, StrictAnswersAreOwn
<1> QED BY <1>8, <1>9, <1>10, <1>11, <1>12, <1>13 DEF LinkInv

LEMMA OpenKeeps ==
    ASSUME LinkInv, ipc' \in BOOLEAN,
           UNCHANGED <<mseq, pending, count, obj, place, cur, held, wire>>
    PROVE  LinkInv'
<1>1. LinkTypeOK' /\ DictIsKeyed'  BY DEF LinkInv, LinkTypeOK, DictIsKeyed
<1>2. CallersApart' /\ CallersWoken'
  BY DEF LinkInv, CallersApart, CallersWoken, InCall, KeepsNumber
<1>3. AnswersKeepNumber' /\ GenIsOwn' /\ StrictAnswersAreOwn'
  BY DEF LinkInv, AnswersKeepNumber, KeepsNumber, GenIsOwn, StrictAnswersAreOwn
<1> QED BY <1>1, <1>2, <1>3 DEF LinkInv

LEMMA LinkInvNext ==
    ASSUME LinkInv, [LinkNext]_linkVars
    PROVE  LinkInv'
<1>1. ASSUME NEW c \in Clients, Caller(c)  PROVE LinkInv'
  <2>1. CASE Register(c)  BY <2>1, RegisterKeeps
  <2>2. CASE WriteFails(c) \/ Return(c)
    BY <2>2, ForgetKeeps DEF WriteFails, Return, InCall
  <2>3. CASE Begin(c) \/ RegisterFails(c) \/ Write(c) \/ WriteOnClosed(c)
    BY <2>3, CallerMoves
  <2> QED BY <1>1, <2>1, <2>2, <2>3 DEF Caller
<1>2. ASSUME NEW r \in Requests, Answer(r)  PROVE LinkInv'  BY <1>2, AnswerKeeps
<1>3. CASE Dispatch  BY <1>3, DispatchKeeps
<1>4. CASE Drop  BY <1>4, DropKeeps
<1>5. CASE Open  BY <1>5, OpenKeeps DEF Open
<1>6. CASE UNCHANGED linkVars  BY <1>6, OpenKeeps DEF LinkInv, LinkTypeOK
<1> QED BY <1>1, <1>2, <1>3, <1>4, <1>5, <1>6 DEF LinkNext

\* Numbers, callers and answers stay consistent with the dict, and the link keeps its
\* types: the inductive invariant of send, request, _dispatch and _drop.
THEOREM LinkInvariant == LinkSpec => []LinkInv
<1>1. LinkInit => LinkInv  BY InitLink
<1>2. LinkInv /\ [LinkNext]_linkVars => LinkInv'  BY LinkInvNext
<1> QED BY <1>1, <1>2, PTL DEF LinkSpec

\* No interleaving of send, _forget and _drop leaves a thread in event.wait() that was
\* not woken and that the reader thread cannot find any more.
THEOREM LinkWakesWaiters == LinkSpec => []WaiterIsReachable
<1>1. LinkInv => WaiterIsReachable
  BY DEF LinkInv, CallersWoken, WaiterIsReachable, InCall
<1> QED BY <1>1, LinkInvariant, PTL

\* _dispatch records a GEN_PHONE_RES only in the request it answers, for any number of
\* threads, time-outs and drops, provided answers do not outlive a round of numbers.
THEOREM LinkGensAreOwn == LinkSpec => []GenIsOwn
<1>1. LinkInv => GenIsOwn  BY DEF LinkInv
<1> QED BY <1>1, LinkInvariant, PTL

\* A strict request records no answer to another request, neither by number nor by
\* the fallback of _dispatch for a RESP without one.
THEOREM LinkStrictAnswersAreOwn == LinkSpec => []StrictAnswersAreOwn
<1>1. LinkInv => StrictAnswersAreOwn  BY DEF LinkInv
<1> QED BY <1>1, LinkInvariant, PTL

\* What a caller sees of the link.
Seen == <<ipc, 1 .. count, [r \in Requests |-> obj[r].kind],
          [r \in Requests |-> obj[r].gen], [r \in Requests |-> obj[r].resp],
          [r \in Requests |-> obj[r].event]>>

\* Nothing is recorded in a request before it is made.
Fresh == \A r \in Requests : r \notin 1 .. count =>
            obj[r].gen = 0 /\ obj[r].resp = 0 /\ obj[r].event = FALSE

\* What the reader does to a Pending object, in full.
LEMMA DispatchShape ==
    ASSUME LinkInv, Dispatch
    PROVE  \/ obj' = obj
           \/ \E r \in 1 .. count : \E woken \in BOOLEAN :
                 /\ obj' = [obj EXCEPT ![r].gen = r, ![r].event = woken]
                 /\ woken = TRUE \/ (obj[r].kind.want /\ woken = obj[r].event)
           \/ \E r, q \in 1 .. count :
                 /\ obj' = [obj EXCEPT ![r].resp = q, ![r].event = TRUE]
                 /\ obj[q].kind.cmd = obj[r].kind.cmd /\ (obj[r].kind.strict => q = r)
<1>1. PICK f \in wire : DispatchGen(f) \/ DispatchResp(f)
  BY DEF Dispatch
<1>2. f.of \in 1 .. count /\ f.cmd = obj[f.of].kind.cmd  BY DEF LinkInv, AnswersKeepNumber
<1>3. CASE DispatchGen(f) /\ obj' # obj
  <2> DEFINE r == GenTarget(f)
             woken == obj[r].event \/ ~(obj[r].kind.want /\ f.ok)
  <2>1. f.kind = "gen" /\ r # 0 /\ obj' = [obj EXCEPT ![r].gen = f.of, ![r].event = woken]
    BY <1>3 DEF DispatchGen
  <2>2. r = f.of /\ r \in Requests  BY <2>1, GenTargetIsOwn
  <2>3. obj[r].event \in BOOLEAN  BY <2>2 DEF LinkInv, LinkTypeOK, PendingObjects
  <2>4. woken = TRUE \/ (obj[r].kind.want /\ woken = obj[r].event)
    BY <2>3
  <2>5. woken \in BOOLEAN  OBVIOUS
  <2> HIDE DEF r, woken
  <2> QED BY <1>2, <2>1, <2>2, <2>4, <2>5
<1>4. CASE DispatchResp(f) /\ obj' # obj
  <2> DEFINE r == RespTarget(f)
  <2>1. f.kind = "resp" /\ r # 0 /\ obj' = [obj EXCEPT ![r].resp = f.of, ![r].event = TRUE]
    BY <1>4 DEF DispatchResp
  <2>2. r \in 1 .. count /\ obj[r].kind.cmd = f.cmd /\ (obj[r].kind.strict => r = f.of)
    BY <2>1, RespTargetIsOwnOrLoose
  <2> HIDE DEF r
  <2> QED BY <1>2, <2>1, <2>2
<1> QED BY <1>1, <1>3, <1>4

LEMMA FreshNext ==
    ASSUME LinkInv, Fresh, [LinkNext]_linkVars
    PROVE  Fresh'
<1>0. /\ obj \in [Requests -> PendingObjects] /\ count \in Nat
      /\ \A r \in 1 .. count : r \in Requests
  BY DEF LinkInv, LinkTypeOK
<1>1. CASE UNCHANGED <<obj, count>>  BY <1>1 DEF Fresh
<1>2. ASSUME NEW c \in Clients, Register(c)  PROVE Fresh'
  <2>1. PICK x : obj' = [obj EXCEPT ![count + 1] = x]  BY <1>2 DEF Register
  <2>2. count' = count + 1  BY <1>2 DEF Register
  <2> QED BY <1>0, <2>1, <2>2 DEF Fresh
<1>3. CASE Dispatch
  <2>1. count' = count  BY <1>3 DEF Dispatch
  <2>2. \E r \in 1 .. count : \A q \in Requests : q # r => obj'[q] = obj[q]
    <3>1. CASE obj' = obj
      <4>1. PICK f \in wire : TRUE  BY <1>3 DEF Dispatch
      <4>2. f.of \in 1 .. count  BY DEF LinkInv, AnswersKeepNumber
      <4> QED BY <3>1, <4>2
    <3>2. ASSUME NEW r \in 1 .. count, NEW w, obj' = [obj EXCEPT ![r].gen = r, ![r].event = w]
          PROVE  \A q \in Requests : q # r => obj'[q] = obj[q]
      BY <3>2, <1>0
    <3>3. ASSUME NEW r \in 1 .. count, NEW q, obj' = [obj EXCEPT ![r].resp = q, ![r].event = TRUE]
          PROVE  \A t \in Requests : t # r => obj'[t] = obj[t]
      BY <3>3, <1>0
    <3> QED BY <1>3, <3>1, <3>2, <3>3, DispatchShape
  <2> QED BY <1>0, <2>1, <2>2 DEF Fresh
<1>4. CASE Drop
  <2>1. \A r \in Requests : Registered(r) => r \in 1 .. count
    BY DEF LinkInv, DictIsKeyed, Registered
  <2>2. \A r \in Requests : r \notin 1 .. count => obj'[r] = obj[r]
    BY <1>4, <2>1 DEF Drop, Woken
  <2> QED BY <1>4, <2>2 DEF Fresh, Drop
<1> QED
  BY <1>1, <1>2, <1>3, <1>4
  DEF LinkNext, Caller, Begin, RegisterFails, Write, WriteFails,
      WriteOnClosed, Return, Answer, Open

LEMMA ServiceInit ==
    ASSUME LinkInit
    PROVE  Service!Init
<1> DEFINE k == CHOOSE k \in Kinds : TRUE
<1>1. k \in Kinds  OBVIOUS
<1> HIDE DEF k
<1>2. obj = [r \in Requests |-> Pending(k, 0)]  BY DEF LinkInit, k
<1>3. 1 .. count = {}  BY DEF LinkInit
<1> QED BY <1>1, <1>2, <1>3 DEF LinkInit, Service!Init, Pending

\* send() registers a request: it is asked.
LEMMA ServiceAsk ==
    ASSUME LinkInv, Fresh, NEW c \in Clients, Register(c)
    PROVE  Service!Next
<1> DEFINE s == NextSeq
           n == count + 1
<1>1. PICK k \in Kinds : obj' = [obj EXCEPT ![n] = Pending(k, s)]
  BY DEF Register
<1>2. n \in Requests /\ count \in Nat /\ count' = n /\ ipc' = ipc
  BY DEF Register, LinkInv, LinkTypeOK
<1> HIDE DEF s
<1>3. 1 .. count' = (1 .. count) \cup {n} /\ n \notin 1 .. count  BY <1>2
<1>4. obj \in [Requests -> PendingObjects]  BY DEF LinkInv, LinkTypeOK
<1>5. \A r \in Requests :
        /\ obj'[r].kind = IF r = n THEN k ELSE obj[r].kind
        /\ obj'[r].gen = obj[r].gen /\ obj'[r].resp = obj[r].resp /\ obj'[r].event = obj[r].event
  BY <1>1, <1>2, <1>3, <1>4 DEF Pending, Fresh
<1>6. Service!Ask(n, k)
  BY <1>2, <1>3, <1>5 DEF Service!Ask
<1> QED BY <1>2, <1>6 DEF Service!Next

\* _dispatch records an answer: the request is judged or replied to.
LEMMA ServiceRecords ==
    ASSUME LinkInv, Dispatch
    PROVE  Service!Next \/ UNCHANGED Seen
<1>0. /\ obj \in [Requests -> PendingObjects] /\ \A r \in 1 .. count : r \in Requests
      /\ ipc = TRUE /\ ipc' = ipc /\ count' = count
  BY DEF LinkInv, LinkTypeOK, Dispatch
<1>1. CASE obj' = obj  BY <1>0, <1>1 DEF Seen
<1>2. ASSUME NEW r \in 1 .. count, NEW woken \in BOOLEAN,
             obj' = [obj EXCEPT ![r].gen = r, ![r].event = woken],
             woken = TRUE \/ (obj[r].kind.want /\ woken = obj[r].event)
      PROVE  Service!Next
  <2>1. \A q \in Requests :
          /\ obj'[q].kind = obj[q].kind /\ obj'[q].resp = obj[q].resp
          /\ obj'[q].gen = IF q = r THEN r ELSE obj[q].gen
          /\ obj'[q].event = IF q = r THEN woken ELSE obj[q].event
    BY <1>0, <1>2 DEF PendingObjects
  <2>2. r \in Requests  BY <1>0
  <2>3. /\ [q \in Requests |-> obj'[q].kind] = [q \in Requests |-> obj[q].kind]
        /\ [q \in Requests |-> obj'[q].resp] = [q \in Requests |-> obj[q].resp]
        /\ [q \in Requests |-> obj'[q].gen] = [[q \in Requests |-> obj[q].gen] EXCEPT ![r] = r]
    BY <2>1, <2>2
  <2>4. [q \in Requests |-> obj'[q].event] = [[q \in Requests |-> obj[q].event] EXCEPT ![r] = woken]
    BY <2>1, <2>2, Zenon
  <2>5. obj[r].kind.want /\ woken = obj[r].event =>
          [q \in Requests |-> obj'[q].event] = [q \in Requests |-> obj[q].event]
    BY <2>1, <2>2, Zenon
  <2>6. Service!Judge(r)
    BY <1>0, <1>2, <2>2, <2>3, <2>4, <2>5, Zenon DEF Service!Judge
  <2> QED BY <2>2, <2>6 DEF Service!Next
<1>3. ASSUME NEW r \in 1 .. count, NEW q \in 1 .. count,
             obj' = [obj EXCEPT ![r].resp = q, ![r].event = TRUE],
             obj[q].kind.cmd = obj[r].kind.cmd, obj[r].kind.strict => q = r
      PROVE  Service!Next
  <2>1. \A t \in Requests :
          /\ obj'[t].kind = obj[t].kind /\ obj'[t].gen = obj[t].gen
          /\ obj'[t].resp = IF t = r THEN q ELSE obj[t].resp
          /\ obj'[t].event = IF t = r THEN TRUE ELSE obj[t].event
    BY <1>0, <1>3 DEF PendingObjects
  <2>2. r \in Requests /\ q \in Requests  BY <1>0
  <2>3. Service!Reply(r, q)
    BY <1>0, <1>3, <2>1, <2>2 DEF Service!Reply
  <2> QED BY <2>2, <2>3 DEF Service!Next
<1> QED BY <1>1, <1>2, <1>3, DispatchShape

\* _drop wakes requests that were asked, with the loss of the link.
LEMMA ServiceLoses ==
    ASSUME LinkInv, Drop
    PROVE  Service!Next
<1>1. PICK S \in SUBSET (1 .. count) : S = {r \in Requests : Registered(r)}
  <2>1. \A r \in Requests : Registered(r) => r \in 1 .. count
    BY DEF LinkInv, DictIsKeyed, Registered
  <2>2. {r \in Requests : Registered(r)} \in SUBSET (1 .. count)  BY <2>1
  <2> QED BY <2>2
<1>2. obj \in [Requests -> PendingObjects]  BY DEF LinkInv, LinkTypeOK
<1>3. obj' = Woken /\ ipc /\ ipc' = FALSE /\ count' = count
  BY DEF Drop
<1>4. \A r \in Requests :
        /\ obj'[r].kind = obj[r].kind /\ obj'[r].gen = obj[r].gen /\ obj'[r].resp = obj[r].resp
        /\ obj'[r].event = (obj[r].event \/ r \in S)
  BY <1>1, <1>2, <1>3 DEF Woken, PendingObjects
<1>5. /\ [r \in Requests |-> obj'[r].kind] = [r \in Requests |-> obj[r].kind]
      /\ [r \in Requests |-> obj'[r].gen] = [r \in Requests |-> obj[r].gen]
      /\ [r \in Requests |-> obj'[r].resp] = [r \in Requests |-> obj[r].resp]
  BY <1>4
<1>6. [r \in Requests |-> obj'[r].event] =
        [r \in Requests |-> [q \in Requests |-> obj[q].event][r] \/ r \in S]
  BY <1>4, Zenon
<1>7. Service!Lose(S)
  BY <1>3, <1>5, <1>6 DEF Service!Lose
<1>8. \E T \in SUBSET (1 .. count) : Service!Lose(T)  BY <1>1, <1>7
<1> QED BY <1>8 DEF Service!Next

LEMMA ServiceStep ==
    ASSUME LinkInv, Fresh, [LinkNext]_linkVars
    PROVE  [Service!Next]_Seen
<1>1. CASE UNCHANGED <<ipc, count, obj>>  BY <1>1 DEF Seen
<1>2. CASE \E c \in Clients : Register(c)  BY <1>2, ServiceAsk
<1>3. CASE Dispatch  BY <1>3, ServiceRecords
<1>4. CASE Drop  BY <1>4, ServiceLoses
<1>5. CASE Open
  BY <1>5 DEF Open, Service!Next, Service!Reopen
<1> QED
  BY <1>1, <1>2, <1>3, <1>4, <1>5
  DEF LinkNext, Caller, Begin, RegisterFails, Write, WriteFails,
      WriteOnClosed, Return, Answer

\* Link implements RequestService: for any threads, time-outs, drops and late or
\* unnumbered answers, what is recorded in a Pending is what was promised its caller.
THEOREM LinkImplementsService == LinkSpec => IsService
<1>1. LinkInit => Fresh
  <2> SUFFICES ASSUME LinkInit PROVE Fresh  OBVIOUS
  <2> DEFINE k == CHOOSE k \in Kinds : TRUE
  <2> HIDE DEF k
  <2>1. obj = [r \in Requests |-> Pending(k, 0)]  BY DEF LinkInit, k
  <2> QED BY <2>1 DEF Fresh, Pending
<1>2. LinkInv /\ Fresh /\ [LinkNext]_linkVars => Fresh'  BY FreshNext
<1>3. LinkInv /\ Fresh /\ [LinkNext]_linkVars => [Service!Next]_Seen  BY ServiceStep
<1>4. LinkInit => Service!Init  BY ServiceInit
<1> QED
  BY <1>1, <1>2, <1>3, <1>4, LinkInvariant, PTL
  DEF LinkSpec, IsService, Service!Spec, Seen
=============================================================================
