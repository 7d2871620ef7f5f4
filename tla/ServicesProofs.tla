--------------------------- MODULE ServicesProofs ---------------------------
(***************************************************************************)
(* Proofs about Services for any list of services, any restart limit and   *)
(* any number of restarts of the daemons: the types, that keepalive starts *)
(* no second process, and that the guardian's levels are held.             *)
(***************************************************************************)
EXTENDS Services, TLAPS

\* A service keepalive is about to restart is below the restart limit.
HistRoom == kp \in {"stop", "start"} => hist[Order[k]] < MaxRestarts

KeepInv == KeepTypes /\ HistRoom
TypeInv == ProcessTypes /\ KeepInv /\ GuardTypes

\* Services keepalive has still to judge in this pass: what was not in the process
\* list when the pass began has not come up since, because nobody else starts it.
Unlisted ==
    kp # "idle" => \A i \in 1 .. Len(Order) :
        i >= k /\ (i = k => kp = "judge") /\ Order[i] \notin list => main[Order[i]] = "none"

SecondInv == Unlisted /\ NoSecond

\* As long as neither daemon was restarted and nobody ran `release', the guardian
\* knows its holds, and at any point of its pass what its level stops is held or
\* still to be held.
HeldInv ==
    faults = 0 =>
        /\ \A s \in held : hold[s] = "guardian"
        /\ killing # Nobody => killing \in held /\ killing \in gq
        /\ g \in {"idle", "thermal"} => gq = {}
        /\ StoppedAt(level) \subseteq held \cup gq

USE DEF procVars, keepVars, guardVars

-----------------------------------------------------------------------------
\* What the assumption says of the services' order.
LEMMA OrderFacts ==
    /\ Len(Order) \in Nat \ {0} /\ DOMAIN Order = 1 .. Len(Order)
    /\ \A i \in 1 .. Len(Order) : Order[i] \in Svcs
    /\ \A i, j \in 1 .. Len(Order) : Order[i] = Order[j] => i = j
    /\ MaxRestarts \in Nat \ {0} /\ MaxFaults \in Nat
  BY ServicesAssumption

LEMMA TerminatedTypes ==
  ASSUME ProcessTypes, NEW S \in SUBSET Svcs, Terminated(S), UNCHANGED <<hold, faults>>
  PROVE  ProcessTypes'
  BY DEF ProcessTypes, Terminated

LEMMA ReleaseTypes ==
  ASSUME ProcessTypes, GuardTypes, ReleaseAll
  PROVE  hold' \in [Svcs -> {Nobody, "guardian", "owner"}] /\ held' \subseteq Svcs
  BY DEF ProcessTypes, GuardTypes, ReleaseAll, Ours

\* Processes and hold files.
LEMMA ProcessStep == ASSUME TypeInv, [Next]_vars PROVE ProcessTypes'
<1> USE DEF TypeInv
<1>1. CASE KRead \/ Judge
  BY <1>1 DEF KRead, Judge, ProcessTypes
<1>2. CASE Stop
  BY <1>2, TerminatedTypes, OrderFacts DEF Stop, KeepInv, KeepTypes
<1>3. ASSUME NEW ok \in BOOLEAN, Start(ok) PROVE ProcessTypes'
  BY <1>3 DEF Start, ProcessTypes
<1>4. CASE KRestart \/ GRestart
  BY <1>4, OrderFacts DEF KRestart, GRestart, ProcessTypes
<1>5. CASE GRead \/ GEnd
  BY <1>5 DEF GRead, GEnd, PassEnds, ProcessTypes
<1>6. ASSUME NEW t \in Temps, Thermal(t) PROVE ProcessTypes'
  BY <1>6, ReleaseTypes DEF Thermal, ProcessTypes
<1>7. ASSUME NEW s \in Svcs, GHold(s) PROVE ProcessTypes'
  BY <1>7 DEF GHold, ProcessTypes
<1>8. CASE GKill
  BY <1>8, TerminatedTypes DEF GKill, GuardTypes
<1>9. ASSUME NEW m, Floors(m) PROVE ProcessTypes'
  BY <1>9, ReleaseTypes DEF Floors, PassEnds, ProcessTypes
<1>10. CASE Release
  BY <1>10, OrderFacts DEF Release, Ours, ProcessTypes
<1>11. ASSUME NEW s \in Svcs, Process(s) \/ Elapse(s) \/ OwnerHolds(s) \/ OwnerLifts(s)
       PROVE  ProcessTypes'
  BY <1>11 DEF Process, Exit, Die, Health, Elapse, OwnerHolds, OwnerLifts, ProcessTypes
<1>12. CASE UNCHANGED vars
  BY <1>12 DEF vars, ProcessTypes
<1> QED
  BY <1>1, <1>2, <1>3, <1>4, <1>5, <1>6, <1>7, <1>8, <1>9, <1>10, <1>11, <1>12
  DEF Next, Keepalive, Guardian

LEMMA NextServiceTypes ==
  ASSUME KeepTypes, kp # "idle", NextService
  PROVE  k' \in 0 .. Len(Order) /\ kp' \in {"idle", "judge"} /\ (k' = 0 <=> kp' = "idle")
<1>1. k \in 1 .. Len(Order)
  BY OrderFacts DEF KeepTypes
<1>2. CASE k = Len(Order)
  BY <1>1, <1>2, OrderFacts DEF NextService
<1>3. CASE k # Len(Order)
  <2>1. k' = k + 1 /\ kp' = "judge"
    BY <1>3 DEF NextService
  <2>2. k + 1 \in 1 .. Len(Order)
    <3>1. \A n \in Nat : \A j \in 1 .. n : j # n => j + 1 \in 1 .. n
      OBVIOUS
    <3> QED
      BY <1>1, <1>3, <3>1, OrderFacts
  <2>3. k' # 0 /\ k' \in 0 .. Len(Order)
    BY <2>1, <2>2
  <2> QED
    BY <2>1, <2>3
<1> QED
  BY <1>2, <1>3

\* Keepalive's own state.
LEMMA KeepStep == ASSUME TypeInv, [Next]_vars PROVE KeepInv'
<1> USE OrderFacts DEF TypeInv, KeepInv, HistRoom
<1>1. CASE KRead
  BY <1>1 DEF KRead, KeepTypes
<1>2. CASE Judge
  <2> DEFINE s == Order[k]
  <2>1. kp = "judge" /\ s \in Svcs /\ k \in 1 .. Len(Order)
    BY <1>2 DEF Judge, KeepTypes
  <2>2. bad' \in [Svcs -> {"no", "recent", "long"}] /\ UNCHANGED <<list, wait, hist>>
    BY <1>2, <2>1 DEF Judge, KeepTypes
  <2>3. CASE NextService
    BY <2>1, <2>2, <2>3, NextServiceTypes DEF KeepTypes
  <2>4. CASE Decide(s) = "restart" /\ k' = k /\ kp' \in {"stop", "start"}
    BY <2>1, <2>2, <2>4 DEF KeepTypes, Decide
  <2> QED
    BY <1>2, <2>3, <2>4 DEF Judge
<1>3. CASE Stop
  BY <1>3 DEF Stop, KeepTypes
<1>4. ASSUME NEW ok \in BOOLEAN, Start(ok) PROVE KeepInv'
  BY <1>4, NextServiceTypes DEF Start, KeepTypes
<1>5. CASE KRestart
  BY <1>5 DEF KRestart, KeepTypes
<1>6. ASSUME NEW s \in Svcs, Elapse(s) PROVE KeepInv'
  BY <1>6 DEF Elapse, KeepTypes
<1>7. CASE Guardian \/ GRestart \/ Release
  BY <1>7 DEF Guardian, GRead, Thermal, GHold, GKill, Floors, GEnd, GRestart, Release, KeepTypes
<1>8. ASSUME NEW s \in Svcs, Process(s) \/ OwnerHolds(s) \/ OwnerLifts(s) PROVE KeepInv'
  BY <1>8 DEF Process, Exit, Die, Health, OwnerHolds, OwnerLifts, KeepTypes
<1>9. CASE UNCHANGED vars
  BY <1>9 DEF vars, KeepTypes
<1> QED
  BY <1>1, <1>2, <1>3, <1>4, <1>5, <1>6, <1>7, <1>8, <1>9 DEF Next, Keepalive

\* The guardian's own state.
LEMMA GuardStep == ASSUME TypeInv, [Next]_vars PROVE GuardTypes'
<1> USE OrderFacts DEF TypeInv
<1>1. CASE Keepalive \/ KRestart \/ Release
  BY <1>1 DEF Keepalive, KRead, Judge, Stop, Start, KRestart, Release, GuardTypes
<1>2. CASE GRead
  BY <1>2 DEF GRead, GuardTypes
<1>3. ASSUME NEW t \in Temps, Thermal(t) PROVE GuardTypes'
  <2>1. Want(t) \in 0 .. 3 /\ ToHold(level') \subseteq Svcs
    BY DEF Want, Level, ToHold, StoppedAt
  <2>2. level' \in 0 .. 3 /\ gq' \subseteq Svcs
    BY <1>3, <2>1 DEF Thermal, GuardTypes
  <2>3. held' \subseteq Svcs
    BY <1>3, ReleaseTypes DEF Thermal, GuardTypes
  <2> QED
    BY <1>3, <2>2, <2>3 DEF Thermal, GuardTypes
<1>4. ASSUME NEW s \in Svcs, GHold(s) PROVE GuardTypes'
  BY <1>4 DEF GHold, GuardTypes
<1>5. CASE GKill
  BY <1>5 DEF GKill, GuardTypes
<1>6. ASSUME NEW m, Floors(m) PROVE GuardTypes'
  <2>1. shed' \in BOOLEAN
    BY <1>6, Zenon DEF Floors, GuardTypes
  <2>2. held' \subseteq Svcs /\ gq' \subseteq Svcs
    BY <1>6, ReleaseTypes, ServicesAssumption DEF Floors, GuardTypes
  <2> QED
    BY <1>6, <2>1, <2>2 DEF Floors, PassEnds, GuardTypes
<1>7. CASE GEnd
  BY <1>7 DEF GEnd, PassEnds, GuardTypes
<1>8. CASE GRestart
  <2>1. shed' \in BOOLEAN
    BY <1>8, Zenon DEF GRestart
  <2> QED
    BY <1>8, <2>1 DEF GRestart, GuardTypes
<1>9. ASSUME NEW s \in Svcs, Process(s) \/ Elapse(s) \/ OwnerHolds(s) \/ OwnerLifts(s)
      PROVE  GuardTypes'
  BY <1>9 DEF Process, Exit, Die, Health, Elapse, OwnerHolds, OwnerLifts, GuardTypes
<1>10. CASE UNCHANGED vars
  BY <1>10 DEF vars, GuardTypes
<1> QED
  BY <1>1, <1>2, <1>3, <1>4, <1>5, <1>6, <1>7, <1>8, <1>9, <1>10 DEF Next, Guardian

LEMMA TypeInductive == Spec => []TypeInv
<1>1. Init => TypeInv
  <2> SUFFICES ASSUME Init PROVE TypeInv
    OBVIOUS
  <2>1. shed \in BOOLEAN
    BY Zenon DEF Init
  <2>2. ProcessTypes /\ KeepInv
    BY OrderFacts DEF Init, ProcessTypes, KeepInv, KeepTypes, HistRoom
  <2> QED
    BY <2>1, <2>2 DEF Init, TypeInv, GuardTypes
<1>2. TypeInv /\ [Next]_vars => TypeInv'
  BY ProcessStep, KeepStep, GuardStep DEF TypeInv
<1> QED
  BY <1>1, <1>2, PTL DEF Spec

\* Both daemons keep the types of their state; in particular the restarts remembered
\* within a window never exceed the limit.
THEOREM TypeCorrect == Spec => []TypeOK
<1>1. TypeInv => TypeOK
  BY DEF TypeInv, KeepInv, TypeOK
<1> QED
  BY <1>1, TypeInductive, PTL

-----------------------------------------------------------------------------
(* Keepalive: no second process. *)

\* Nobody but keepalive's start brings a process up.
LEMMA OthersDoNotStart ==
  ASSUME TypeInv, NEW s \in Svcs, main[s] = "none",
         \/ KRead \/ Judge \/ Stop \/ KRestart \/ Guardian \/ GRestart \/ Release
         \/ \E r \in Svcs : Process(r) \/ Elapse(r) \/ OwnerHolds(r) \/ OwnerLifts(r)
  PROVE  main'[s] = "none"
<1> USE DEF TypeInv, ProcessTypes
<1>1. CASE KRead \/ Judge \/ KRestart \/ GRestart \/ Release
  BY <1>1 DEF KRead, Judge, KRestart, GRestart, Release
<1>2. CASE Stop
  BY <1>2 DEF Stop, Terminated
<1>3. CASE Guardian
  BY <1>3 DEF Guardian, GRead, Thermal, GHold, GKill, Terminated, Floors, GEnd
<1>4. ASSUME NEW r \in Svcs, Process(r) \/ Elapse(r) \/ OwnerHolds(r) \/ OwnerLifts(r)
      PROVE  main'[s] = "none"
  BY <1>4 DEF Process, Exit, Die, Health, Elapse, OwnerHolds, OwnerLifts
<1> QED
  BY <1>1, <1>2, <1>3, <1>4

\* What a move to the next service keeps of Unlisted.
LEMMA NextUnlisted ==
  ASSUME TypeInv, Unlisted, kp # "idle", NextService, UNCHANGED list,
         \A s \in Svcs : s # Order[k] /\ main[s] = "none" => main'[s] = "none"
  PROVE  SecondInv'
<1>1. NoSecond'
  BY NextServiceTypes DEF NoSecond, TypeInv, KeepInv
<1>2. ASSUME kp' # "idle", NEW i \in 1 .. Len(Order), i >= k', Order[i] \notin list'
      PROVE  main'[Order[i]] = "none"
  <2>1. k' = k + 1
    BY <1>2 DEF NextService
  <2>2. k \in 1 .. Len(Order)
    BY OrderFacts DEF TypeInv, KeepInv, KeepTypes
  <2>3. i > k /\ i # k
    BY <1>2, <2>1, <2>2, OrderFacts
  <2>4. main[Order[i]] = "none"
    BY <1>2, <2>2, <2>3 DEF Unlisted
  <2>5. Order[i] \in Svcs /\ Order[i] # Order[k]
    BY <2>2, <2>3, OrderFacts
  <2> QED
    BY <2>4, <2>5
<1> QED
  BY <1>1, <1>2 DEF SecondInv, Unlisted

\* The list may be old, but a service not in it has not come up since.
LEMMA SecondStep == ASSUME TypeInv, SecondInv, [Next]_vars PROVE SecondInv'
<1> USE DEF SecondInv
<1>k. k \in 0 .. Len(Order) /\ (kp # "idle" => k \in 1 .. Len(Order) /\ Order[k] \in Svcs)
  BY OrderFacts DEF TypeInv, KeepInv, KeepTypes
<1>1. CASE KRead
  BY <1>1, OrderFacts DEF KRead, Unlisted, NoSecond
<1>2. CASE Judge
  <2>1. CASE NextService
    BY <1>2, <2>1, NextUnlisted DEF Judge
  <2>2. CASE k' = k /\ kp' = (IF Order[k] \in list THEN "stop" ELSE "start")
    <3>1. Unlisted'
      BY <1>2, <1>k, <2>2, OrderFacts DEF Judge, Unlisted
    <3>2. NoSecond'
      BY <1>2, <1>k, <2>2, OrderFacts DEF Judge, Unlisted, NoSecond
    <3> QED
      BY <3>1, <3>2
  <2> QED
    BY <1>2, <2>1, <2>2 DEF Judge
<1>3. CASE Stop
  <2>1. main'[Order[k]] = "none" /\ k' = k /\ kp = "stop" /\ kp' = "start" /\ list' = list
    BY <1>3, <1>k DEF Stop, Terminated, TypeInv, ProcessTypes
  <2>2. \A s \in Svcs : main[s] = "none" => main'[s] = "none"
    BY <1>3, OthersDoNotStart
  <2> QED
    BY <1>k, <2>1, <2>2, OrderFacts DEF Unlisted, NoSecond
<1>4. ASSUME NEW ok \in BOOLEAN, Start(ok) PROVE SecondInv'
  <2>1. \A s \in Svcs : s # Order[k] /\ main[s] = "none" => main'[s] = "none"
    BY <1>4 DEF Start, TypeInv, ProcessTypes
  <2> QED
    BY <1>4, <2>1, NextUnlisted DEF Start
<1>5. CASE KRestart
  BY <1>5 DEF KRestart, Unlisted, NoSecond
<1>6. CASE \/ Guardian \/ GRestart \/ Release
           \/ \E s \in Svcs : Process(s) \/ Elapse(s) \/ OwnerHolds(s) \/ OwnerLifts(s)
  <2>1. UNCHANGED <<k, kp, list>>
    BY <1>6 DEF Guardian, GRead, Thermal, GHold, GKill, Floors, GEnd, GRestart, Release,
       Process, Exit, Die, Health, Elapse, OwnerHolds, OwnerLifts
  <2>2. \A s \in Svcs : main[s] = "none" => main'[s] = "none"
    BY <1>6, OthersDoNotStart
  <2> QED
    BY <1>k, <2>1, <2>2, OrderFacts DEF Unlisted, NoSecond
<1>7. CASE UNCHANGED vars
  BY <1>7 DEF vars, Unlisted, NoSecond
<1> QED
  BY <1>1, <1>2, <1>3, <1>4, <1>5, <1>6, <1>7 DEF Next, Keepalive

\* However old the process list is when keepalive comes to a service, and whatever
\* the guardian, the services and a restart of either daemon did since: a start
\* finds no process that was not told to stop.
THEOREM NoSecondProcess == Spec => []NoSecond
<1>1. Init => SecondInv
  BY DEF Init, SecondInv, Unlisted, NoSecond
<1>2. TypeInv /\ SecondInv /\ [Next]_vars => SecondInv'
  BY SecondStep
<1>3. SecondInv => NoSecond
  BY DEF SecondInv
<1> QED
  BY <1>1, <1>2, <1>3, TypeInductive, PTL DEF Spec

-----------------------------------------------------------------------------
(* The guardian: what its level stops is held. *)

\* Only Thermal and Floors raise, lower or release; the rest of a pass holds what is left.
LEMMA HeldStep == ASSUME TypeInv, HeldInv, [Next]_vars PROVE HeldInv'
<1> USE DEF HeldInv
<1>1. CASE Keepalive \/ \E s \in Svcs : Process(s) \/ Elapse(s)
  BY <1>1 DEF Keepalive, KRead, Judge, Stop, Start, Process, Exit, Die, Health, Elapse, StoppedAt
<1>2. CASE KRestart \/ GRestart \/ Release
  BY <1>2 DEF KRestart, GRestart, Release, TypeInv, ProcessTypes
<1>3. ASSUME NEW s \in Svcs, OwnerHolds(s) \/ OwnerLifts(s) PROVE HeldInv'
  BY <1>3 DEF OwnerHolds, OwnerLifts, TypeInv, ProcessTypes, GuardTypes, StoppedAt, Nobody
<1>4. CASE GRead
  BY <1>4 DEF GRead, StoppedAt
<1>5. ASSUME NEW t \in Temps, Thermal(t) PROVE HeldInv'
  <2> SUFFICES ASSUME faults' = 0 PROVE HeldInv'
    OBVIOUS
  <2>1. faults = 0 /\ g = "thermal" /\ gq = {} /\ killing = Nobody /\ killing' = Nobody /\ g' = "floors"
    BY <1>5 DEF Thermal
  <2>2. \A s \in held' : hold'[s] = "guardian"
    BY <1>5, <2>1 DEF Thermal, ReleaseAll
  <2>3. CASE level' = 0
    BY <2>1, <2>2, <2>3 DEF StoppedAt
  <2>4. CASE level' # 0
    <3>1. held' = held /\ gq' = ToHold(level')
      BY <1>5, <2>4 DEF Thermal
    <3> QED
      BY <2>1, <2>2, <3>1 DEF ToHold, StoppedAt
  <2> QED
    BY <2>3, <2>4
<1>6. ASSUME NEW s \in Svcs, GHold(s) PROVE HeldInv'
  BY <1>6 DEF GHold, TypeInv, ProcessTypes, GuardTypes, StoppedAt
<1>7. CASE GKill
  BY <1>7 DEF GKill, StoppedAt
<1>8. ASSUME NEW m, Floors(m) PROVE HeldInv'
  <2> SUFFICES ASSUME faults' = 0 PROVE HeldInv'
    OBVIOUS
  <2>1. /\ faults = 0 /\ gq = {} /\ killing = Nobody /\ killing' = Nobody /\ level' = level
        /\ g' \in {"idle", "end"} /\ (g' = "idle" => gq' = {})
        /\ StoppedAt(level) \subseteq held
    BY <1>8 DEF Floors, PassEnds
  <2>2. \A s \in held' : hold'[s] = "guardian"
    BY <1>8, <2>1 DEF Floors, ReleaseAll
  <2>3. StoppedAt(level) \subseteq held'
    <3>1. CASE held' = held
      BY <2>1, <3>1
    <3>2. CASE level < 2
      BY <3>2 DEF StoppedAt, TypeInv, GuardTypes
    <3> QED
      BY <1>8, <3>1, <3>2 DEF Floors, Recovered
  <2> QED
    BY <2>1, <2>2, <2>3 DEF StoppedAt
<1>9. CASE GEnd
  BY <1>9 DEF GEnd, PassEnds, StoppedAt
<1>10. CASE UNCHANGED vars
  BY <1>10 DEF vars, StoppedAt
<1> QED
  BY <1>1, <1>2, <1>3, <1>4, <1>5, <1>6, <1>7, <1>8, <1>9, <1>10 DEF Next, Guardian

\* Memory shedding and the thermal levels share the hold files and the list of what
\* is held; between two passes what the thermal level stops is held all the same.
THEOREM LevelsAreHeld == Spec => []LevelIsHeld
<1>1. Init => HeldInv
  BY DEF Init, HeldInv, StoppedAt
<1>2. TypeInv /\ HeldInv /\ [Next]_vars => HeldInv'
  BY HeldStep
<1>3. HeldInv => LevelIsHeld
  BY DEF HeldInv, LevelIsHeld
<1> QED
  BY <1>1, <1>2, <1>3, TypeInductive, PTL DEF Spec
=============================================================================
