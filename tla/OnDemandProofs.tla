--------------------------- MODULE OnDemandProofs ---------------------------
(***************************************************************************)
(* Proofs about OnDemand for any number of connections, any retry limit,   *)
(* any number of deaths of the proxy and of failed writes, and all scenes: *)
(* the types, one backend at a time, the load that a hold lets in, and the *)
(* bound on wasted attempts.                                               *)
(***************************************************************************)
EXTENDS OnDemand, FiniteSetTheorems, TLAPS

USE DEF threadVars, fileVars, backVars, envVars, history

Outcomes == {"aborted", "output", "nothing"}

-----------------------------------------------------------------------------
(* Types. *)

\* Every flag stays a truth value.
LEMMA FlagsStep == ASSUME Flags, [Next]_vars PROVE Flags'
<1> USE DEF Flags
<1>1. ASSUME NEW t \in Conns, NEW k, Admit(t, k) PROVE Flags'
  BY <1>1, Zenon DEF Admit
<1>2. ASSUME NEW t \in Conns, Ensure(t) \/ Stall(t) \/ PassEnds(t) PROVE Flags'
  BY <1>2, Zenon DEF Ensure, Stall, PassEnds
<1>3. ASSUME NEW t \in Conns, Spawn(t) PROVE Flags'
  BY <1>3, Zenon DEF Spawn
<1>4. ASSUME NEW t \in Conns, NEW ok \in BOOLEAN, Record(t, ok) PROVE Flags'
  BY <1>4, Zenon DEF Record
<1>5. ASSUME NEW t \in Conns, NEW ok \in BOOLEAN, Loaded(t, ok) \/ SaveActive(t, ok) \/ SaveBudget(t, ok)
      PROVE  Flags'
  BY <1>5, Zenon DEF Loaded, SaveActive, SaveBudget
<1>6. ASSUME NEW t \in Conns, Connect(t) \/ Register(t) \/ Count(t) PROVE Flags'
  BY <1>6, Zenon DEF Connect, Register, Count
<1>7. ASSUME NEW t \in Conns, NEW o, RelayEnds(t, o) PROVE Flags'
  BY <1>7, Zenon DEF RelayEnds
<1>8. ASSUME NEW u \in Unloaders, Check(u) \/ Unload(u) PROVE Flags'
  BY <1>8, Zenon DEF Check, Unload
<1>9. CASE Bye
  BY <1>9, Zenon DEF Bye, Dies
<1>10. CASE Killed
  BY <1>10, Zenon DEF Killed, Dies
<1>11. ASSUME NEW written, NEW ok, Start(written, ok) PROVE Flags'
  BY <1>11, Zenon DEF Start, OrphanKilled
<1>12. CASE BackendUp \/ BackendDies \/ Hold
  BY <1>12, Zenon DEF BackendUp, BackendDies, Hold
<1>13. CASE UNCHANGED vars
  BY <1>13, Zenon DEF vars
<1> QED
  BY <1>1, <1>2, <1>3, <1>4, <1>5, <1>6, <1>7, <1>8, <1>9, <1>10, <1>11, <1>12, <1>13
  DEF Next, Goes, Ends, Starts

Kinds == {"none", "same", "gen", "other"}

\* A thread that neither takes nor gives back the lock.
LEMMA ThreadGoes ==
  ASSUME Threads, NEW t \in Conns, NEW place \in Places, Go(t, place), lock' = lock,
         out' \in [Conns -> {"none"} \cup Outcomes], place \in Loading <=> pc[t] \in Loading
  PROVE  Threads'
<1>1. pc' \in [Conns -> Places] /\ kind' \in [Conns -> Kinds]
  BY DEF Threads, Go, Kinds
<1>2. \A s \in Conns : (pc'[s] \in Loading) <=> (pc[s] \in Loading)
  BY DEF Threads, Go
<1> QED
  BY <1>1, <1>2 DEF Threads, Kinds, Outcomes

\* A thread holds the lock exactly while it loads the backend.
LEMMA ThreadsStep == ASSUME Threads, [Next]_vars PROVE Threads'
<1>n. Nobody \notin Conns
  BY OnDemandAssumption
<1>o. out \in [Conns -> {"none"} \cup Outcomes]
  BY DEF Threads, Outcomes
<1>1. ASSUME NEW t \in Conns, NEW k \in {"same", "gen", "other"}, Admit(t, k) PROVE Threads'
  BY <1>1 DEF Admit, Threads, Places, Loading
<1>2. ASSUME NEW t \in Conns, Ensure(t) PROVE Threads'
  <2>1. /\ pc[t] = "ask" /\ lock = Nobody /\ out' = out
        /\ \/ lock' = Nobody /\ \E p \in {"connect", "idle"} : Go(t, p)
           \/ lock' = t /\ Go(t, "cleared")
    BY <1>2 DEF Ensure
  <2>2. CASE lock' = Nobody /\ \E p \in {"connect", "idle"} : Go(t, p)
    BY <1>o, <2>1, <2>2, ThreadGoes DEF Places, Loading
  <2>3. CASE lock' = t /\ Go(t, "cleared")
    <3>1. pc' = [pc EXCEPT ![t] = "cleared"] /\ kind' = kind
      BY <2>3 DEF Go
    <3>2. \A s \in Conns : s # t => pc'[s] = pc[s] /\ lock # s
      BY <1>n, <2>1, <3>1 DEF Threads
    <3> QED
      BY <2>1, <2>3, <3>1, <3>2 DEF Threads, Places, Loading
  <2> QED
    BY <2>1, <2>2, <2>3
<1>3. ASSUME NEW t \in Conns, Spawn(t) PROVE Threads'
  <2>1. pc[t] = "cleared" /\ lock' = lock /\ out' = out /\ \E p \in {"load", "spawned"} : Go(t, p)
    BY <1>3 DEF Spawn
  <2> QED
    BY <1>o, <2>1, ThreadGoes DEF Places, Loading
<1>4. ASSUME NEW t \in Conns, NEW ok \in BOOLEAN, Record(t, ok) PROVE Threads'
  BY <1>o, <1>4, ThreadGoes DEF Record, Places, Loading
<1>5. ASSUME NEW t \in Conns, NEW ok \in BOOLEAN, Loaded(t, ok) PROVE Threads'
  <2>1. pc[t] = "load" /\ lock' = Nobody /\ out' = out /\ \E p \in {"connect", "idle"} : Go(t, p)
    BY <1>5 DEF Loaded
  <2>2. PICK p \in {"connect", "idle"} : Go(t, p)
    BY <2>1
  <2>3. pc' = [pc EXCEPT ![t] = p] /\ kind' \in [Conns -> Kinds]
    BY <2>2 DEF Go, Threads, Kinds
  <2>4. lock = t
    BY <2>1 DEF Threads, Loading
  <2>5. \A s \in Conns : pc'[s] \notin Loading
    BY <2>3, <2>4 DEF Threads, Loading
  <2> QED
    BY <1>n, <2>1, <2>3, <2>5 DEF Threads, Kinds, Places
<1>6. ASSUME NEW t \in Conns, Connect(t) PROVE Threads'
  <2>1. pc[t] = "connect" /\ lock' = lock /\ out' = out /\ \E p \in {"idle", "pass", "sent"} : Go(t, p)
    BY <1>6 DEF Connect
  <2> QED
    BY <1>o, <2>1, ThreadGoes DEF Places, Loading
<1>7. ASSUME NEW t \in Conns, Register(t) \/ Stall(t) \/ PassEnds(t) PROVE Threads'
  <2>1. /\ pc[t] \in {"sent", "relay", "stuck", "pass"} /\ lock' = lock /\ out' = out
        /\ \E p \in {"save", "stuck", "relay", "idle"} : Go(t, p)
    BY <1>7 DEF Register, Stall, PassEnds
  <2> QED
    BY <1>o, <2>1, ThreadGoes DEF Places, Loading
<1>8. ASSUME NEW t \in Conns, NEW ok \in BOOLEAN, SaveActive(t, ok) \/ SaveBudget(t, ok) PROVE Threads'
  <2>1. /\ pc[t] \in {"save", "unsave", "savebudget"} /\ lock' = lock /\ out' = out
        /\ \E p \in {"relay", "count", "idle"} : Go(t, p)
    BY <1>8 DEF SaveActive, SaveBudget
  <2> QED
    BY <1>o, <2>1, ThreadGoes DEF Places, Loading
<1>9. ASSUME NEW t \in Conns, NEW o \in Outcomes, RelayEnds(t, o) PROVE Threads'
  <2>1. pc[t] = "relay" /\ lock' = lock /\ out' = [out EXCEPT ![t] = o] /\ Go(t, "unsave")
    BY <1>9 DEF RelayEnds
  <2>2. out' \in [Conns -> {"none"} \cup Outcomes]
    BY <1>o, <2>1
  <2> QED
    BY <2>1, <2>2, ThreadGoes DEF Places, Loading
<1>10. ASSUME NEW t \in Conns, Count(t) PROVE Threads'
  <2>1. /\ pc[t] = "count" /\ lock' = lock /\ out' = [out EXCEPT ![t] = "none"]
        /\ \E p \in {"savebudget", "idle"} : Go(t, p)
    BY <1>10 DEF Count
  <2>2. out' \in [Conns -> {"none"} \cup Outcomes]
    BY <1>o, <2>1
  <2> QED
    BY <2>1, <2>2, ThreadGoes DEF Places, Loading
<1>11. ASSUME NEW u \in Unloaders, Check(u) \/ Unload(u) PROVE Threads'
  BY <1>11 DEF Check, Unload, Threads
<1>12. CASE Bye \/ Killed
  BY <1>n, <1>12 DEF Bye, Killed, Dies, Threads, Places, Loading
<1>13. ASSUME NEW written, NEW ok, Start(written, ok) PROVE Threads'
  BY <1>13 DEF Start, Threads
<1>14. CASE BackendUp \/ BackendDies \/ Hold
  BY <1>14 DEF BackendUp, BackendDies, Hold, Threads
<1>15. CASE UNCHANGED vars
  BY <1>15 DEF vars, Threads
<1> QED
  BY <1>1, <1>2, <1>3, <1>4, <1>5, <1>6, <1>7, <1>8, <1>9, <1>10, <1>11, <1>12, <1>13, <1>14, <1>15
  DEF Next, Goes, Ends, Starts, Outcomes

\* Sets of connections are finite, so that they can be counted.
LEMMA CountConnections ==
  ASSUME NEW S \in SUBSET Conns
  PROVE  IsFiniteSet(S) /\ Cardinality(S) \in Nat /\ Cardinality(S) <= Cardinality(Conns)
  BY OnDemandAssumption, FS_Subset, FS_CardinalityType

LEMMA MineCounts ==
  ASSUME NEW t \in Conns
  PROVE  /\ Mine(t) \in SUBSET Conns
         /\ kind[t] = "same" => Cardinality(Mine(t)) = 1
         /\ kind[t] # "same" => Cardinality(Mine(t)) = 0
<1>1. kind[t] = "same" => Mine(t) = {t}
  BY DEF Mine
<1>2. kind[t] # "same" => Mine(t) = {}
  BY DEF Mine
<1> QED
  BY <1>1, <1>2, FS_Singleton, FS_EmptySet DEF Mine

LEMMA SaveCounts ==
  ASSUME fails \in 0 .. MaxFails, NEW ok, NEW tried, Save(ok, tried) PROVE fails' \in 0 .. MaxFails
  BY OnDemandAssumption DEF Save

LEMMA FilesStep == ASSUME Threads, Files, [Next]_vars PROVE Files'
<1>1. ASSUME NEW t \in Conns, NEW k, Admit(t, k) PROVE Files'
  BY <1>1 DEF Admit, Files
<1>2. ASSUME NEW t \in Conns, Ensure(t) \/ Spawn(t) \/ Connect(t) \/ Stall(t) \/ PassEnds(t) PROVE Files'
  BY <1>2 DEF Ensure, Spawn, Connect, Stall, PassEnds, Files
<1>3. ASSUME NEW t \in Conns, NEW ok \in BOOLEAN, Record(t, ok) PROVE Files'
  BY <1>3, SaveCounts DEF Record, Files
<1>4. ASSUME NEW t \in Conns, NEW ok \in BOOLEAN, Loaded(t, ok) PROVE Files'
  BY <1>4 DEF Loaded, Files
<1>5. ASSUME NEW t \in Conns, Register(t) PROVE Files'
  BY <1>5, MineCounts DEF Register, Snapshot, Files
<1>6. ASSUME NEW t \in Conns, NEW ok \in BOOLEAN, SaveActive(t, ok) PROVE Files'
  <2>1. fails' \in 0 .. MaxFails
    BY <1>6, SaveCounts DEF SaveActive, Files
  <2>2. active' \in {asnap[t], active, {}} /\ asnap' = [asnap EXCEPT ![t] = {}]
        /\ UNCHANGED <<inflight, saved, bsnap, budget, history>>
    BY <1>6 DEF SaveActive
  <2> QED
    BY <2>1, <2>2 DEF Files
<1>7. ASSUME NEW t \in Conns, NEW o, RelayEnds(t, o) PROVE Files'
  <2>1. Cardinality(Mine(t)) \in Nat
    BY MineCounts
  <2>2. wasted' \in {wasted, wasted + Cardinality(Mine(t))}
    BY <1>7 DEF RelayEnds
  <2>3. wasted' \in Nat
    BY <2>1, <2>2 DEF Files
  <2> QED
    BY <1>7, <2>3 DEF RelayEnds, Snapshot, Files
<1>8. ASSUME NEW t \in Conns, Count(t) PROVE Files'
  <2>1. Cardinality(Mine(t)) \in Nat
    BY MineCounts
  <2>2. budget' \in {budget, 0, budget + Cardinality(Mine(t))} /\ wasted' \in {wasted, 0}
        /\ \/ bsnap' = bsnap
           \/ bsnap' = [bsnap EXCEPT ![t] = budget']
           \/ bsnap' = [bsnap EXCEPT ![t] = 0]
           \/ bsnap' = [bsnap EXCEPT ![t] = budget]
    BY <1>8 DEF Count
  <2>3. budget' \in Nat /\ wasted' \in Nat
    BY <2>1, <2>2 DEF Files
  <2> QED
    BY <1>8, <2>2, <2>3 DEF Count, Files
<1>9. ASSUME NEW t \in Conns, NEW ok \in BOOLEAN, SaveBudget(t, ok) PROVE Files'
  <2>1. fails' \in 0 .. MaxFails
    BY <1>9, SaveCounts DEF SaveBudget, Files
  <2>2. saved' \in {bsnap[t], saved, 0} /\ bsnap' = [bsnap EXCEPT ![t] = 0]
        /\ UNCHANGED <<inflight, active, asnap, budget, history>>
    BY <1>9 DEF SaveBudget
  <2> QED
    BY <2>1, <2>2 DEF Files
<1>10. ASSUME NEW u \in Unloaders, Check(u) \/ Unload(u) PROVE Files'
  BY <1>10 DEF Check, Unload, Files
<1>11. CASE Bye \/ Killed
  <2>1. Cardinality(Flying) \in Nat
    BY CountConnections DEF Flying
  <2> QED
    BY <1>11, <2>1 DEF Bye, Killed, Dies, Files
<1>12. ASSUME NEW written \in saved .. Counted, NEW ok \in BOOLEAN, Start(written, ok) PROVE Files'
  <2>1. Counted \in Nat /\ written \in Nat
    BY CountConnections DEF Counted, Files
  <2>2. fails' \in 0 .. MaxFails
    BY <1>12, SaveCounts DEF Start, Files
  <2> QED
    BY <1>12, <2>1, <2>2 DEF Start, Files
<1>13. CASE BackendUp \/ BackendDies \/ Hold
  BY <1>13 DEF BackendUp, BackendDies, Hold, Files
<1>14. CASE UNCHANGED vars
  BY <1>14 DEF vars, Files
<1> QED
  BY <1>1, <1>2, <1>3, <1>4, <1>5, <1>6, <1>7, <1>8, <1>9, <1>10, <1>11, <1>12, <1>13, <1>14
  DEF Next, Goes, Ends, Starts

LEMMA OutsideStep == ASSUME Outside, [Next]_vars PROVE Outside'
<1> USE DEF Outside, Unloaders
<1>1. ASSUME NEW t \in Conns, NEW k, Admit(t, k) PROVE Outside'
  BY <1>1 DEF Admit
<1>2. ASSUME NEW t \in Conns, Ensure(t) \/ Connect(t) \/ Register(t) \/ Stall(t) \/ PassEnds(t) PROVE Outside'
  BY <1>2 DEF Ensure, Connect, Register, Stall, PassEnds
<1>3. ASSUME NEW t \in Conns, Spawn(t) PROVE Outside'
  BY <1>3 DEF Spawn
<1>4. ASSUME NEW t \in Conns, NEW ok \in BOOLEAN,
             Record(t, ok) \/ Loaded(t, ok) \/ SaveActive(t, ok) \/ SaveBudget(t, ok)
      PROVE  Outside'
  BY <1>4 DEF Record, Loaded, SaveActive, SaveBudget
<1>5. ASSUME NEW t \in Conns, NEW o, RelayEnds(t, o) PROVE Outside'
  BY <1>5 DEF RelayEnds
<1>6. ASSUME NEW t \in Conns, Count(t) PROVE Outside'
  BY <1>6 DEF Count
<1>7. ASSUME NEW u \in Unloaders, Check(u) \/ Unload(u) PROVE Outside'
  <2>1. proc' \in {"none", "loading", "up"} /\ UNCHANGED <<lost, sneaked, scene>> /\ unload' \subseteq Unloaders
    BY <1>7 DEF Check, Unload
  <2>2. faults' = faults \/ (faults < MaxFaults /\ faults' = faults + 1)
    BY <1>7 DEF Check, Unload
  <2>3. faults' \in 0 .. MaxFaults
    BY <2>2, OnDemandAssumption
  <2> QED
    BY <2>1, <2>3
<1>8. CASE Bye \/ Killed
  BY <1>8, OnDemandAssumption DEF Bye, Killed, Dies
<1>9. ASSUME NEW written, NEW ok, Start(written, ok) PROVE Outside'
  BY <1>9 DEF Start
<1>10. CASE BackendUp \/ BackendDies \/ Hold
  <2>1. /\ proc' \in {"none", "loading", "up"} /\ sneaked' \in {0, sneaked}
        /\ UNCHANGED <<lost, unload, faults, scene>>
    BY <1>10 DEF BackendUp, BackendDies, Hold
  <2> QED
    BY <2>1
<1>11. CASE UNCHANGED vars
  BY <1>11 DEF vars
<1> QED
  BY <1>1, <1>2, <1>3, <1>4, <1>5, <1>6, <1>7, <1>8, <1>9, <1>10, <1>11 DEF Next, Goes, Ends, Starts

\* The types hold; among them, the lock is held exactly by a thread that loads.
THEOREM TypeCorrect == Spec => []TypeOK
<1>1. Init => TypeOK
  <2> SUFFICES ASSUME Init PROVE TypeOK
    OBVIOUS
  <2>1. Flags
    BY Zenon DEF Init, Flags
  <2>2. Threads
    BY OnDemandAssumption DEF Init, Threads, Places, Loading, Nobody
  <2>3. Files /\ Outside
    BY OnDemandAssumption DEF Init, Files, Outside
  <2> QED
    BY <2>1, <2>2, <2>3 DEF TypeOK
<1>2. TypeOK /\ [Next]_vars => TypeOK'
  BY FlagsStep, ThreadsStep, FilesStep, OutsideStep DEF TypeOK
<1> QED
  BY <1>1, <1>2, PTL DEF Spec

-----------------------------------------------------------------------------
(* One backend. *)

\* Before reap_previous is over no thread runs and there is no backend of this
\* proxy's own; a backend of an earlier one exists only then.
ReapInv ==
    /\ ~serving => proc = "none" /\ unload = {} /\ \A t \in Conns : pc[t] = "idle"
    /\ left => ~serving

\* Whatever a thread does that runs at all.
LEMMA ReapGoes ==
  ASSUME ReapInv, NEW t \in Conns, pc[t] # "idle", UNCHANGED <<serving, left>> PROVE ReapInv'
<1>1. serving
  BY DEF ReapInv
<1>2. serving' /\ ~left'
  BY <1>1, Zenon DEF ReapInv
<1> QED
  BY <1>2 DEF ReapInv

LEMMA ReapStep == ASSUME TypeOK, ReapInv, [Next]_vars PROVE ReapInv'
<1>1. ASSUME NEW t \in Conns, NEW k, Admit(t, k) PROVE ReapInv'
  <2>1. serving' /\ ~left'
    BY <1>1, Zenon DEF Admit, ReapInv
  <2> QED
    BY <2>1 DEF ReapInv
<1>2. ASSUME NEW t \in Conns, Ensure(t) \/ Spawn(t) \/ Connect(t) \/ Register(t) \/ Stall(t) \/ PassEnds(t)
      PROVE  ReapInv'
  BY <1>2, ReapGoes DEF Ensure, Spawn, Connect, Register, Stall, PassEnds
<1>3. ASSUME NEW t \in Conns, NEW ok \in BOOLEAN,
             Record(t, ok) \/ Loaded(t, ok) \/ SaveActive(t, ok) \/ SaveBudget(t, ok)
      PROVE  ReapInv'
  <2>1. pc[t] # "idle" /\ UNCHANGED <<serving, left>>
    BY <1>3 DEF Record, Loaded, SaveActive, SaveBudget
  <2> QED
    BY <2>1, ReapGoes
<1>4. ASSUME NEW t \in Conns, NEW o, RelayEnds(t, o) PROVE ReapInv'
  BY <1>4, ReapGoes DEF RelayEnds
<1>5. ASSUME NEW t \in Conns, Count(t) PROVE ReapInv'
  BY <1>5, ReapGoes DEF Count
<1>6. ASSUME NEW u \in Unloaders, Check(u) PROVE ReapInv'
  <2>1. serving' /\ ~left'
    BY <1>6, Zenon DEF Check, ReapInv
  <2> QED
    BY <2>1 DEF ReapInv
<1>7. ASSUME NEW u \in Unloaders, Unload(u) PROVE ReapInv'
  BY <1>7 DEF Unload, ReapInv
<1>8. CASE Bye \/ Killed
  <2>1. ~serving'
    BY <1>8, Zenon DEF Bye, Killed, Dies
  <2> QED
    BY <1>8, <2>1 DEF Bye, Killed, Dies, ReapInv
<1>9. ASSUME NEW written, NEW ok, Start(written, ok) PROVE ReapInv'
  <2>1. ~left' /\ serving'
    BY <1>9, Zenon DEF Start, OrphanKilled
  <2> QED
    BY <2>1 DEF ReapInv
<1>10. CASE BackendUp \/ BackendDies \/ Hold
  BY <1>10 DEF BackendUp, BackendDies, Hold, Running, ReapInv
<1>11. CASE UNCHANGED vars
  BY <1>11 DEF vars, ReapInv
<1> QED
  BY <1>1, <1>2, <1>3, <1>4, <1>5, <1>6, <1>7, <1>8, <1>9, <1>10, <1>11 DEF Next, Goes, Ends, Starts

LEMMA ReapInductive == Spec => []ReapInv
<1>1. Init => ReapInv
  <2>1. Init => serving /\ ~left
    BY Zenon DEF Init
  <2> QED
    BY <2>1 DEF ReapInv
<1>2. TypeOK /\ ReapInv /\ [Next]_vars => ReapInv'
  BY ReapStep
<1> QED
  BY <1>1, <1>2, TypeCorrect, PTL DEF Spec

\* However often the proxy is killed: the backend it left is gone before the next one
\* is loaded.
THEOREM OneBackendOnly == Spec => []OneBackend
<1>1. ReapInv => OneBackend
  BY DEF ReapInv, OneBackend, Running
<1> QED
  BY <1>1, ReapInductive, PTL

-----------------------------------------------------------------------------
(* The hold. *)

\* Once a load has got past the hold no thread is between its look and its load.
HoldInv == hold => sneaked = 0 \/ (sneaked = 1 /\ \A t \in Conns : pc[t] # "cleared")

LEMMA HoldGoes ==
  ASSUME TypeOK, HoldInv, UNCHANGED <<hold, sneaked>>,
         \A t \in Conns : pc'[t] = "cleared" => pc[t] = "cleared"
  PROVE  HoldInv'
  BY DEF HoldInv

LEMMA HoldStep == ASSUME TypeOK, HoldInv, [Next]_vars PROVE HoldInv'
<1>t. pc \in [Conns -> Places]
  BY DEF TypeOK, Threads
<1>1. ASSUME NEW t \in Conns, NEW k, Admit(t, k) PROVE HoldInv'
  BY <1>1, <1>t, HoldGoes DEF Admit
<1>2. ASSUME NEW t \in Conns, Ensure(t) PROVE HoldInv'
  <2>1. CASE hold
    BY <1>2, <1>t, <2>1, HoldGoes DEF Ensure, Go, MayLoad
  <2>2. CASE ~hold
    <3>1. ~hold'
      BY <1>2, <2>2, Zenon DEF Ensure
    <3> QED
      BY <3>1 DEF HoldInv
  <2> QED
    BY <2>1, <2>2
<1>3. ASSUME NEW t \in Conns, Spawn(t) PROVE HoldInv'
  <2>1. pc[t] = "cleared" /\ hold' = hold
    BY <1>3 DEF Spawn
  <2>2. CASE Running
    BY <1>3, <1>t, <2>2, HoldGoes DEF Spawn, Go
  <2>3. CASE ~Running
    <3>1. pc' = [pc EXCEPT ![t] = "spawned"] /\ sneaked' = (IF hold THEN sneaked + 1 ELSE sneaked)
      BY <1>3, <2>3 DEF Spawn, Go
    <3>2. \A s \in Conns : s # t => pc[s] # "cleared"
      <4>1. lock = t
        BY <2>1 DEF TypeOK, Threads, Loading
      <4> QED
        BY <4>1 DEF TypeOK, Threads, Loading
    <3>3. \A s \in Conns : pc'[s] # "cleared"
      BY <1>t, <3>1, <3>2
    <3>4. hold => sneaked = 0
      BY <2>1 DEF HoldInv
    <3>5. hold => sneaked' = 1
      BY <3>1, <3>4
    <3> QED
      BY <2>1, <3>3, <3>5 DEF HoldInv
  <2> QED
    BY <2>2, <2>3
<1>4. ASSUME NEW t \in Conns, Connect(t) \/ Register(t) \/ Stall(t) \/ PassEnds(t) \/ Count(t) PROVE HoldInv'
  BY <1>4, <1>t, HoldGoes DEF Connect, Register, Stall, PassEnds, Count, Go
<1>5. ASSUME NEW t \in Conns, NEW ok \in BOOLEAN,
             Record(t, ok) \/ Loaded(t, ok) \/ SaveActive(t, ok) \/ SaveBudget(t, ok)
      PROVE  HoldInv'
  BY <1>5, <1>t, HoldGoes DEF Record, Loaded, SaveActive, SaveBudget, Go
<1>6. ASSUME NEW t \in Conns, NEW o, RelayEnds(t, o) PROVE HoldInv'
  BY <1>6, <1>t, HoldGoes DEF RelayEnds, Go
<1>7. ASSUME NEW u \in Unloaders, Check(u) \/ Unload(u) PROVE HoldInv'
  BY <1>7, HoldGoes DEF Check, Unload
<1>8. CASE Bye \/ Killed
  BY <1>8, HoldGoes DEF Bye, Killed, Dies
<1>9. ASSUME NEW written, NEW ok, Start(written, ok) PROVE HoldInv'
  BY <1>9, HoldGoes DEF Start
<1>10. CASE BackendUp \/ BackendDies
  BY <1>10, HoldGoes DEF BackendUp, BackendDies
<1>11. CASE Hold
  BY <1>11 DEF Hold, HoldInv
<1>12. CASE UNCHANGED vars
  BY <1>12, HoldGoes DEF vars
<1> QED
  BY <1>1, <1>2, <1>3, <1>4, <1>5, <1>6, <1>7, <1>8, <1>9, <1>10, <1>11, <1>12 DEF Next, Goes, Ends, Starts

\* However many requests wait, and however often the backend goes: a hold that stays
\* lets at most one load in.
THEOREM OneGetsIn == Spec => []HoldLetsOneIn
<1>1. Init => HoldInv
  BY DEF Init, HoldInv
<1>2. TypeOK /\ HoldInv /\ [Next]_vars => HoldInv'
  BY HoldStep
<1>3. HoldInv => HoldLetsOneIn
  BY DEF HoldInv, HoldLetsOneIn
<1> QED
  BY <1>1, <1>2, <1>3, TypeCorrect, PTL DEF Spec

-----------------------------------------------------------------------------
(* Wasted attempts. *)

\* Attempts that were admitted and are not counted yet, and those among them that were
\* aborted.
Uncounted == {t \in Conns : kind[t] = "same" /\ pc[t] \notin {"idle", "savebudget"}}
Aborted == {t \in Conns : kind[t] = "same" /\ pc[t] \in {"unsave", "count"} /\ out[t] = "aborted"}

\* A SIGTERM is counted in faults before the proxy dies of it.
Deaths == IF "bye" \in unload THEN faults - 1 ELSE faults
DeathsInv == ("bye" \in unload => faults > 0) /\ forgot <= Deaths

\* Attempts under way were admitted while the budget had room for one more.
RoomInv == Uncounted # {} => budget + Cardinality(Uncounted) <= PerLife

\* This life's waste is in the budget or about to be counted; between two lives it is
\* in the files.  What is missing there was forgotten.
AtMost(n) == IF n <= PerLife THEN n ELSE PerLife
Known == IF serving THEN AtMost(budget) + Cardinality(Aborted) ELSE AtMost(Counted)
Allowed(f, d) == PerLife * f + Cardinality(Conns) * (d - f)
WasteInv == wasted <= Allowed(forgot, Deaths) + Known

LEMMA PerLifeType == PerLife \in Nat /\ Cardinality(Conns) \in Nat /\ PerLife >= Cardinality(Conns)
  BY OnDemandAssumption, FS_CardinalityType DEF PerLife

LEMMA AtMostType ==
  ASSUME NEW n \in Nat PROVE AtMost(n) \in Nat /\ AtMost(n) <= n /\ AtMost(n) <= PerLife
  BY PerLifeType DEF AtMost

LEMMA Times == \A a, b \in Nat : a * b \in Nat
  OBVIOUS

\* One more death allows the waste of the attempts that were under way, and that of a
\* whole life if it forgot the budget.
LEMMA AllowedGrows ==
  ASSUME NEW f \in Nat, NEW d \in Nat, f <= d, NEW e \in Nat, d + 1 <= e
  PROVE  /\ Allowed(f, d) \in Nat
         /\ Allowed(f, e) \in Nat /\ Allowed(f, e) >= Allowed(f, d) + Cardinality(Conns)
         /\ Allowed(f + 1, e) \in Nat /\ Allowed(f + 1, e) >= Allowed(f, d) + PerLife
<1> DEFINE P == PerLife
<1> DEFINE n == Cardinality(Conns)
<1>1. P \in Nat /\ n \in Nat
  BY PerLifeType
<1> HIDE DEF P, n
<1>2. \A p, c, g, x, y \in Nat : c * (x + 1 + y) = c * x + c + c * y /\ c * x \in Nat /\ c * y \in Nat
                              /\ p * (g + 1) = p * g + p /\ p * g \in Nat
  OBVIOUS
<1>3. PICK x \in Nat : x = d - f
  OBVIOUS
<1>4. PICK y \in Nat : y = e - (d + 1)
  OBVIOUS
<1>5. e - f = x + 1 + y /\ e - (f + 1) = x + y /\ x + y \in Nat
  BY <1>3, <1>4
<1>6. n * (x + y) = n * x + n * y
  BY <1>1
<1>7. n * (x + 1 + y) = n * x + n + n * y /\ P * (f + 1) = P * f + P
  BY <1>1, <1>2
<1>8. n * x \in Nat /\ n * y \in Nat /\ P * f \in Nat
  BY <1>1, Times
<1>9. /\ Allowed(f, d) = P * f + n * x
      /\ Allowed(f, e) = P * f + n * (x + 1 + y)
      /\ Allowed(f + 1, e) = P * (f + 1) + n * (x + y)
  BY <1>3, <1>5 DEF Allowed, P, n
<1>10. Allowed(f, e) = P * f + n * x + n + n * y /\ Allowed(f + 1, e) = P * f + P + n * x + n * y
  BY <1>1, <1>6, <1>7, <1>8, <1>9
<1>11. /\ Allowed(f, d) \in Nat
       /\ Allowed(f, e) \in Nat /\ Allowed(f, e) >= Allowed(f, d) + n
       /\ Allowed(f + 1, e) \in Nat /\ Allowed(f + 1, e) >= Allowed(f, d) + P
  BY <1>1, <1>8, <1>9, <1>10
<1> QED
  BY <1>11 DEF P, n

LEMMA Counts ==
    /\ IsFiniteSet(Uncounted) /\ Cardinality(Uncounted) \in Nat
    /\ IsFiniteSet(Aborted) /\ Cardinality(Aborted) \in Nat
    /\ Cardinality(Flying) \in Nat /\ Cardinality(Saving) \in Nat
    /\ Cardinality(Aborted) + Cardinality(Flying) <= Cardinality(Uncounted)
    /\ Cardinality(Uncounted) + Cardinality(Saving) <= Cardinality(Conns)
<1>1. /\ Uncounted \in SUBSET Conns /\ Aborted \in SUBSET Conns /\ Flying \in SUBSET Conns
      /\ Saving \in SUBSET Conns
  BY DEF Uncounted, Aborted, Flying, Saving
<1>2. ASSUME NEW A \in SUBSET Conns, NEW B \in SUBSET Conns, A \cap B = {}
      PROVE  Cardinality(A \cup B) = Cardinality(A) + Cardinality(B)
  <2>1. Cardinality(A \cap B) = 0
    BY <1>2, FS_EmptySet
  <2>2. Cardinality(A \cup B) = Cardinality(A) + Cardinality(B) - Cardinality(A \cap B)
    BY CountConnections, FS_Union
  <2> QED
    BY <2>1, <2>2, CountConnections
<1>3. Aborted \cup Flying \subseteq Uncounted /\ Aborted \cap Flying = {} /\ Uncounted \cap Saving = {}
  BY DEF Uncounted, Aborted, Flying, Saving
<1>4. Cardinality(Aborted \cup Flying) <= Cardinality(Uncounted)
  BY <1>1, <1>3, CountConnections, FS_Subset
<1>5. Cardinality(Uncounted \cup Saving) <= Cardinality(Conns)
  BY <1>1, CountConnections
<1>6. /\ Cardinality(Aborted \cup Flying) = Cardinality(Aborted) + Cardinality(Flying)
      /\ Cardinality(Uncounted \cup Saving) = Cardinality(Uncounted) + Cardinality(Saving)
  BY <1>1, <1>2, <1>3
<1> QED
  BY <1>1, <1>4, <1>5, <1>6, CountConnections

LEMMA DeathsType == ASSUME TypeOK, DeathsInv PROVE Deaths \in Nat /\ Deaths <= faults /\ forgot \in Nat
  BY DEF Deaths, DeathsInv, TypeOK, Outside, Files

LEMMA AllowedType == ASSUME TypeOK, DeathsInv PROVE Allowed(forgot, Deaths) \in Nat
<1>1. forgot \in Nat /\ Deaths \in Nat /\ forgot <= Deaths
  BY DeathsType DEF DeathsInv
<1>2. PICK e \in Nat : Deaths + 1 <= e
  BY <1>1
<1> QED
  BY <1>1, <1>2, AllowedGrows

LEMMA DeathsStep == ASSUME TypeOK, DeathsInv, [Next]_vars PROVE DeathsInv'
<1> USE DEF DeathsInv, Deaths
<1>1. ASSUME NEW t \in Conns, NEW k, Admit(t, k) PROVE DeathsInv'
  BY <1>1 DEF Admit
<1>2. ASSUME NEW t \in Conns, Ensure(t) \/ Spawn(t) \/ Connect(t) \/ Register(t) \/ Stall(t) \/ PassEnds(t)
      PROVE  DeathsInv'
  BY <1>2 DEF Ensure, Spawn, Connect, Register, Stall, PassEnds
<1>3. ASSUME NEW t \in Conns, NEW ok \in BOOLEAN,
             Record(t, ok) \/ Loaded(t, ok) \/ SaveActive(t, ok) \/ SaveBudget(t, ok)
      PROVE  DeathsInv'
  BY <1>3 DEF Record, Loaded, SaveActive, SaveBudget
<1>4. ASSUME NEW t \in Conns, NEW o, RelayEnds(t, o) PROVE DeathsInv'
  BY <1>4 DEF RelayEnds
<1>5. ASSUME NEW t \in Conns, Count(t) PROVE DeathsInv'
  BY <1>5 DEF Count
<1>6. ASSUME NEW u \in Unloaders, Check(u) \/ Unload(u) PROVE DeathsInv'
  BY <1>6 DEF Check, Unload, TypeOK, Outside, Unloaders
<1>7. CASE Bye \/ Killed
  <2>1. unload' = {} /\ forgot' \in {forgot, forgot + 1}
    BY <1>7 DEF Bye, Killed, Dies
  <2>2. faults' \in Nat /\ Deaths + 1 <= faults' /\ forgot \in Nat
    BY <1>7, DeathsType DEF Bye, Killed, TypeOK, Outside
  <2> QED
    BY <2>1, <2>2, DeathsType
<1>8. ASSUME NEW written, NEW ok, Start(written, ok) PROVE DeathsInv'
  BY <1>8 DEF Start
<1>9. CASE BackendUp \/ BackendDies \/ Hold
  BY <1>9 DEF BackendUp, BackendDies, Hold
<1>10. CASE UNCHANGED vars
  BY <1>10 DEF vars
<1> QED
  BY <1>1, <1>2, <1>3, <1>4, <1>5, <1>6, <1>7, <1>8, <1>9, <1>10 DEF Next, Goes, Ends, Starts

\* A thread that goes on, without counting, changes neither the budget nor what was
\* aborted, and leaves the attempts under way or is still one of them.
LEMMA GoesOn ==
  ASSUME TypeOK, ReapInv, RoomInv, WasteInv, NEW t \in Conns, pc[t] # "idle",
         NEW place \in Places \ {"ask"}, Go(t, place), place = "savebudget" => pc[t] = "savebudget",
         pc[t] = "savebudget" => place = "idle",
         \A s \in Conns \ {t} : out'[s] = out[s],
         t \in Aborted <=> kind[t] = "same" /\ place \in {"unsave", "count"} /\ out'[t] = "aborted",
         UNCHANGED <<budget, unload, faults, wasted, forgot, serving>>
  PROVE  RoomInv' /\ WasteInv'
<1>1. pc' = [pc EXCEPT ![t] = place] /\ kind' = (IF place = "idle" THEN [kind EXCEPT ![t] = "none"] ELSE kind)
  BY DEF Go
<1>t. pc \in [Conns -> Places] /\ kind \in [Conns -> Kinds]
  BY DEF TypeOK, Threads, Kinds
<1>2. \A s \in Conns : s # t => pc'[s] = pc[s] /\ kind'[s] = kind[s] /\ out'[s] = out[s]
  BY <1>1, <1>t
<1>3. pc'[t] = place /\ (place # "idle" => kind'[t] = kind[t]) /\ (place = "idle" => kind'[t] = "none")
  BY <1>1, <1>t
<1>4. Uncounted' \subseteq Uncounted
  BY <1>2, <1>3 DEF Uncounted
<1>5. Cardinality(Uncounted') \in Nat /\ Cardinality(Uncounted') <= Cardinality(Uncounted)
  BY <1>4, Counts, FS_Subset, FS_CardinalityType
<1>6. Aborted' = Aborted
  <2>1. ASSUME NEW s \in Conns, s # t PROVE s \in Aborted' <=> s \in Aborted
    BY <1>2, <2>1 DEF Aborted
  <2>2. t \in Aborted' <=> t \in Aborted
    BY <1>3 DEF Aborted
  <2>3. Aborted' \subseteq Conns /\ Aborted \subseteq Conns
    BY DEF Aborted
  <2> QED
    BY <2>1, <2>2, <2>3
<1>7. RoomInv'
  BY <1>4, <1>5, Counts, PerLifeType DEF RoomInv, PerLife, TypeOK, Files
<1>8. serving
  BY DEF ReapInv
<1>9. WasteInv'
  <2>1. Deaths' = Deaths /\ PerLife' = PerLife /\ serving'
    BY <1>8 DEF Deaths, PerLife
  <2>2. Known' = Known
    BY <1>6, <1>8, <2>1 DEF Known, AtMost
  <2>3. Allowed(forgot, Deaths)' = Allowed(forgot, Deaths)
    BY <2>1 DEF Allowed
  <2> QED
    BY <2>2, <2>3 DEF WasteInv
<1> QED
  BY <1>7, <1>9

\* The proxy dies: what was under way is wasted, and what the files do not say is
\* forgotten.
LEMMA DeathStep ==
  ASSUME TypeOK, ReapInv, DeathsInv, RoomInv, WasteInv, Dies, faults' \in Nat, Deaths + 1 <= faults'
  PROVE  RoomInv' /\ WasteInv'
<1>1. Uncounted' = {} /\ Deaths' = faults' /\ PerLife' = PerLife
  BY DEF Dies, Uncounted, Deaths, PerLife
<1>2. RoomInv'
  BY <1>1 DEF RoomInv
<1>3. /\ wasted' = wasted + Cardinality(Flying) /\ wasted \in Nat /\ budget \in Nat /\ saved \in Nat
      /\ Cardinality(active) \in Nat /\ Counted \in Nat /\ saved <= Counted
  <2>1. active \in SUBSET Conns /\ saved \in Nat /\ budget \in Nat /\ wasted \in Nat
    BY DEF TypeOK, Files
  <2>2. Cardinality(active) \in Nat
    BY <2>1, CountConnections
  <2> QED
    BY <2>1, <2>2 DEF Dies, Counted
<1>4. Known' = AtMost(Counted)
  <2>1. ~serving' /\ UNCHANGED <<active, saved>>
    BY Zenon DEF Dies
  <2> QED
    BY <1>1, <2>1 DEF Known, AtMost, Counted
<1>5. /\ Allowed(forgot, Deaths) \in Nat
      /\ Allowed(forgot, faults') \in Nat
      /\ Allowed(forgot, faults') >= Allowed(forgot, Deaths) + Cardinality(Conns)
      /\ Allowed(forgot + 1, faults') \in Nat
      /\ Allowed(forgot + 1, faults') >= Allowed(forgot, Deaths) + PerLife
  <2>1. forgot \in Nat /\ Deaths \in Nat /\ forgot <= Deaths
    BY DeathsType DEF DeathsInv
  <2> QED
    BY <2>1, AllowedGrows
<1>6. AtMost(Counted) \in Nat /\ AtMost(budget) \in Nat /\ AtMost(budget) <= budget /\ AtMost(budget) <= PerLife
  BY <1>3, AtMostType
<1>7. Allowed(forgot, Deaths)' = Allowed(forgot', faults')
  BY <1>1 DEF Allowed
<1>8. CASE serving
  <2>1. wasted <= Allowed(forgot, Deaths) + AtMost(budget) + Cardinality(Aborted)
    BY <1>5, <1>6, <1>8, Counts DEF WasteInv, Known
  <2>2. CASE Behind
    <3>1. forgot' = forgot + 1
      BY <2>2 DEF Dies
    <3>2. AtMost(budget) + Cardinality(Aborted) + Cardinality(Flying) <= PerLife
      <4>1. CASE Uncounted = {}
        <5>1. Cardinality(Uncounted) = 0
          BY <4>1, FS_EmptySet
        <5> QED
          BY <1>6, <5>1, Counts, PerLifeType
      <4>2. CASE Uncounted # {}
        BY <1>3, <1>6, <4>2, Counts, PerLifeType DEF RoomInv
      <4> QED
        BY <4>1, <4>2
    <3>3. wasted' <= Allowed(forgot + 1, faults')
      BY <1>3, <1>5, <1>6, <2>1, <3>2, Counts, PerLifeType
    <3> QED
      BY <1>2, <1>3, <1>4, <1>5, <1>6, <1>7, <3>1, <3>3, Counts DEF WasteInv
  <2>3. CASE ~Behind
    <3>1. forgot' = forgot
      BY <2>3 DEF Dies
    <3>2. budget <= saved + Cardinality(Saving)
      BY <1>3, <1>8, <2>3, Counts DEF Behind
    <3>3. AtMost(budget) <= AtMost(Counted) + Cardinality(Saving)
      BY <1>3, <1>6, <3>2, Counts, PerLifeType DEF AtMost
    <3>4. Cardinality(Saving) + Cardinality(Aborted) + Cardinality(Flying) <= Cardinality(Conns)
      BY Counts, PerLifeType
    <3>5. wasted' <= Allowed(forgot, faults') + AtMost(Counted)
      BY <1>3, <1>5, <1>6, <2>1, <3>3, <3>4, Counts, PerLifeType
    <3> QED
      BY <1>2, <1>4, <1>7, <3>1, <3>5 DEF WasteInv
  <2> QED
    BY <2>2, <2>3
<1>9. CASE ~serving
  <2>1. Flying = {} /\ ~Behind
    BY <1>9 DEF ReapInv, Flying, Behind
  <2>2. wasted' = wasted /\ forgot' = forgot
    <3>1. Cardinality(Flying) = 0
      BY <2>1, FS_EmptySet
    <3> QED
      BY <1>3, <2>1, <3>1 DEF Dies
  <2>3. wasted <= Allowed(forgot, Deaths) + AtMost(Counted)
    BY <1>9 DEF WasteInv, Known
  <2>4. wasted' <= Allowed(forgot, faults') + AtMost(Counted)
    BY <1>3, <1>5, <1>6, <2>2, <2>3, PerLifeType
  <2> QED
    BY <1>2, <1>4, <1>7, <2>2, <2>4 DEF WasteInv
<1> QED
  BY <1>8, <1>9

\* Steps that touch none of it while the proxy serves.
LEMMA WasteFrame ==
  ASSUME RoomInv, WasteInv, Deaths' = Deaths,
         UNCHANGED <<pc, kind, out, budget, wasted, forgot, serving, saved, active>>
  PROVE  RoomInv' /\ WasteInv'
<1>1. Uncounted' = Uncounted /\ Aborted' = Aborted /\ PerLife' = PerLife /\ Counted' = Counted
  BY DEF Uncounted, Aborted, PerLife, Counted
<1>2. Known' = Known
  BY <1>1 DEF Known, AtMost
<1>3. Allowed(forgot, Deaths)' = Allowed(forgot, Deaths)
  BY <1>1 DEF Allowed
<1> QED
  BY <1>1, <1>2, <1>3 DEF RoomInv, WasteInv

LEMMA AdmitStep ==
  ASSUME TypeOK, ReapInv, RoomInv, WasteInv, NEW t \in Conns, NEW k \in {"same", "gen", "other"}, Admit(t, k)
  PROVE  RoomInv' /\ WasteInv'
<1>1. /\ pc[t] = "idle" /\ pc' = [pc EXCEPT ![t] = "ask"] /\ kind' = [kind EXCEPT ![t] = k] /\ out' = out
      /\ UNCHANGED <<budget, wasted, forgot, unload, faults, serving>> /\ (k = "same" => budget < RetryMax)
  BY DEF Admit, Admits
<1>t. pc \in [Conns -> Places] /\ kind \in [Conns -> Kinds] /\ budget \in Nat
  BY DEF TypeOK, Threads, Kinds, Files
<1>s. serving /\ serving'
  BY Zenon DEF Admit
<1>2. Aborted' = Aborted
  BY <1>1, <1>t DEF Aborted
<1>3. WasteInv'
  <2>1. Deaths' = Deaths /\ PerLife' = PerLife
    BY <1>1 DEF Deaths, PerLife
  <2>2. Known' = Known
    BY <1>1, <1>2, <1>s, <2>1 DEF Known, AtMost
  <2>3. Allowed(forgot, Deaths)' = Allowed(forgot, Deaths)
    BY <1>1, <2>1 DEF Allowed
  <2> QED
    BY <1>1, <2>2, <2>3 DEF WasteInv
<1>4. CASE k = "same"
  <2>1. Uncounted' \in SUBSET Conns
    BY DEF Uncounted
  <2>2. Cardinality(Uncounted') \in Nat /\ Cardinality(Uncounted') <= Cardinality(Conns)
    BY <2>1, CountConnections
  <2> QED
    BY <1>1, <1>t, <1>3, <1>4, <2>2, PerLifeType, OnDemandAssumption DEF RoomInv, PerLife
<1>5. CASE k # "same"
  <2>1. Uncounted' = Uncounted
    BY <1>1, <1>t, <1>5 DEF Uncounted
  <2> QED
    BY <1>1, <1>3, <2>1 DEF RoomInv, PerLife
<1> QED
  BY <1>4, <1>5

LEMMA RelayEndsStep ==
  ASSUME TypeOK, ReapInv, DeathsInv, RoomInv, WasteInv, NEW t \in Conns, NEW o \in Outcomes, RelayEnds(t, o)
  PROVE  RoomInv' /\ WasteInv'
<1>1. /\ pc[t] = "relay" /\ Go(t, "unsave") /\ out' = [out EXCEPT ![t] = o]
      /\ UNCHANGED <<budget, forgot, unload, faults, serving>>
      /\ wasted' = IF o = "aborted" THEN wasted + Cardinality(Mine(t)) ELSE wasted
  BY DEF RelayEnds
<1>t. /\ pc \in [Conns -> Places] /\ kind \in [Conns -> Kinds] /\ budget \in Nat /\ wasted \in Nat
      /\ out \in [Conns -> {"none"} \cup Outcomes]
  BY DEF TypeOK, Threads, Kinds, Files, Outcomes
<1>2. CASE ~(o = "aborted" /\ kind[t] = "same")
  <2>1. wasted' = wasted
    BY <1>1, <1>t, <1>2, MineCounts
  <2>2. t \notin Aborted /\ out'[t] = o /\ \A s \in Conns \ {t} : out'[s] = out[s]
    BY <1>1, <1>t DEF Aborted
  <2>3. "unsave" \in Places \ {"ask"}
    BY DEF Places
  <2> QED
    BY <1>1, <1>2, <2>1, <2>2, <2>3, GoesOn
<1>3. CASE o = "aborted" /\ kind[t] = "same"
  <2>1. pc' = [pc EXCEPT ![t] = "unsave"] /\ kind' = kind
    BY <1>1 DEF Go
  <2>2. Aborted' = Aborted \cup {t} /\ t \notin Aborted /\ Uncounted' = Uncounted
    BY <1>1, <1>t, <1>3, <2>1 DEF Aborted, Uncounted
  <2>3. Cardinality(Aborted') = Cardinality(Aborted) + 1
    BY <2>2, Counts, FS_AddElement
  <2>4. wasted' = wasted + 1
    BY <1>1, <1>3, MineCounts
  <2>5. serving
    BY <1>1 DEF ReapInv
  <2>6. Deaths' = Deaths /\ PerLife' = PerLife /\ serving'
    BY <1>1, <2>5 DEF Deaths, PerLife
  <2>7. Allowed(forgot, Deaths)' = Allowed(forgot, Deaths)
    BY <1>1, <2>6 DEF Allowed
  <2>8. AtMost(budget) \in Nat /\ AtMost(budget)' = AtMost(budget)
    BY <1>1, <1>t, <2>6, AtMostType DEF AtMost
  <2>9. Known' = Known + 1 /\ Known \in Nat
    BY <2>3, <2>5, <2>6, <2>8, Counts DEF Known
  <2>10. Allowed(forgot, Deaths) \in Nat
    BY AllowedType
  <2>11. WasteInv'
    BY <1>t, <2>4, <2>7, <2>9, <2>10 DEF WasteInv
  <2>12. RoomInv'
    BY <1>1, <2>2, <2>6 DEF RoomInv
  <2> QED
    BY <2>11, <2>12
<1> QED
  BY <1>2, <1>3

LEMMA CountStep ==
  ASSUME TypeOK, ReapInv, DeathsInv, RoomInv, WasteInv, NEW t \in Conns, Count(t)
  PROVE  RoomInv' /\ WasteInv'
<1>t. /\ pc \in [Conns -> Places] /\ kind \in [Conns -> Kinds] /\ budget \in Nat /\ wasted \in Nat
      /\ out \in [Conns -> {"none"} \cup Outcomes]
  BY DEF TypeOK, Threads, Kinds, Files, Outcomes
<1>1. /\ pc[t] = "count" /\ out' = [out EXCEPT ![t] = "none"]
      /\ UNCHANGED <<forgot, unload, faults, serving>>
      /\ \E place \in {"savebudget", "idle"} : Go(t, place)
  BY DEF Count
<1>2. PICK place \in {"savebudget", "idle"} : Go(t, place)
  BY <1>1
<1>3. /\ pc' = [pc EXCEPT ![t] = place]
      /\ kind' = (IF place = "idle" THEN [kind EXCEPT ![t] = "none"] ELSE kind)
  BY <1>2 DEF Go
<1>4. serving
  BY <1>1 DEF ReapInv
<1>5. Deaths' = Deaths /\ PerLife' = PerLife /\ serving'
  BY <1>1, <1>4 DEF Deaths, PerLife
<1>6. Allowed(forgot, Deaths)' = Allowed(forgot, Deaths) /\ Allowed(forgot, Deaths) \in Nat
  <2>1. Allowed(forgot, Deaths)' = Allowed(forgot, Deaths)
    BY <1>1, <1>5 DEF Allowed
  <2> QED
    BY <2>1, AllowedType
<1>7. \A s \in Conns : s # t => pc'[s] = pc[s] /\ kind'[s] = kind[s] /\ out'[s] = out[s]
  BY <1>1, <1>3, <1>t
<1>8. pc'[t] = place /\ out'[t] = "none"
  BY <1>1, <1>3, <1>t
<1>9. Uncounted' = Uncounted \ {t} /\ Aborted' = Aborted \ {t}
  <2>1. \A s \in Conns : s \in Uncounted' <=> s \in Uncounted /\ s # t
    BY <1>7, <1>8 DEF Uncounted
  <2>2. \A s \in Conns : s \in Aborted' <=> s \in Aborted /\ s # t
    BY <1>7, <1>8 DEF Aborted
  <2>3. /\ Uncounted' \subseteq Conns /\ Uncounted \subseteq Conns
        /\ Aborted' \subseteq Conns /\ Aborted \subseteq Conns
    BY DEF Uncounted, Aborted
  <2> QED
    BY <2>1, <2>2, <2>3
<1>10. CASE t \in Aborted
  <2>1. out[t] = "aborted" /\ kind[t] = "same" /\ t \in Uncounted
    BY <1>10, <1>1 DEF Aborted, Uncounted
  <2>2. budget' = budget + 1 /\ wasted' = wasted
    BY <1>t, <2>1, MineCounts DEF Count
  <2>3. /\ Cardinality(Uncounted') = Cardinality(Uncounted) - 1
        /\ Cardinality(Aborted') = Cardinality(Aborted) - 1
        /\ Cardinality(Uncounted') \in Nat /\ Cardinality(Aborted') \in Nat
    BY <1>9, <1>10, <2>1, Counts, FS_RemoveElement, FS_CardinalityType
  <2>4. budget + Cardinality(Uncounted) <= PerLife /\ Cardinality(Aborted) >= 1 /\ Cardinality(Uncounted) >= 1
    BY <2>1, <2>3, Counts DEF RoomInv
  <2>5. RoomInv'
    BY <1>t, <1>5, <2>2, <2>3, <2>4, Counts, PerLifeType DEF RoomInv
  <2>6. AtMost(budget)' = budget + 1 /\ AtMost(budget) = budget
    BY <1>t, <1>5, <2>2, <2>4, Counts, PerLifeType DEF AtMost
  <2>7. Known' = Known
    BY <1>t, <1>4, <1>5, <2>3, <2>6, Counts DEF Known
  <2> QED
    BY <1>6, <2>2, <2>5, <2>7 DEF WasteInv
<1>11. CASE t \notin Aborted
  <2>1. Aborted' = Aborted
    BY <1>9, <1>11
  <2>2. ~(out[t] = "aborted" /\ kind[t] = "same")
    BY <1>1, <1>11 DEF Aborted
  <2>3. (budget' = budget /\ wasted' = wasted) \/ (budget' = 0 /\ wasted' = 0)
    BY <1>t, <2>2, MineCounts DEF Count
  <2>4. Cardinality(Uncounted') \in Nat /\ Cardinality(Uncounted') <= Cardinality(Uncounted)
        /\ Uncounted' \subseteq Uncounted
    BY <1>9, Counts, FS_Subset, FS_CardinalityType
  <2>5. RoomInv'
    BY <1>t, <1>5, <2>3, <2>4, Counts, PerLifeType DEF RoomInv
  <2>6. CASE budget' = budget /\ wasted' = wasted
    <3>1. Known' = Known
      BY <1>4, <1>5, <2>1, <2>6 DEF Known, AtMost
    <3> QED
      BY <1>6, <2>5, <2>6, <3>1 DEF WasteInv
  <2>7. CASE budget' = 0 /\ wasted' = 0
    <3>1. Known' = Cardinality(Aborted)
      BY <1>5, <2>1, <2>7, Counts, PerLifeType DEF Known, AtMost
    <3> QED
      BY <1>6, <2>5, <2>7, <3>1, Counts DEF WasteInv
  <2> QED
    BY <2>3, <2>6, <2>7
<1> QED
  BY <1>10, <1>11

LEMMA WasteStep ==
  ASSUME TypeOK, ReapInv, DeathsInv, RoomInv, WasteInv, [Next]_vars
  PROVE  RoomInv' /\ WasteInv'
<1>p. {"cleared", "connect", "idle", "load", "spawned", "pass", "sent", "save", "relay", "stuck", "count"}
        \subseteq Places \ {"ask", "savebudget"}
  BY DEF Places, Loading
<1>1. ASSUME NEW t \in Conns, Ensure(t) \/ Spawn(t) \/ Connect(t) \/ Register(t) \/ Stall(t) \/ PassEnds(t)
      PROVE  RoomInv' /\ WasteInv'
  <2>1. /\ pc[t] \in {"ask", "cleared", "connect", "sent", "relay", "stuck", "pass"}
        /\ out' = out /\ UNCHANGED <<budget, unload, faults, wasted, forgot, serving>>
        /\ \E p \in {"cleared", "connect", "idle", "load", "spawned", "pass", "sent", "save", "relay", "stuck"} :
             Go(t, p)
    BY <1>1 DEF Ensure, Spawn, Connect, Register, Stall, PassEnds
  <2>2. t \notin Aborted
    BY <2>1 DEF Aborted
  <2> QED
    BY <1>p, <2>1, <2>2, GoesOn
<1>2. ASSUME NEW t \in Conns, NEW ok \in BOOLEAN, Record(t, ok) \/ Loaded(t, ok) \/ SaveBudget(t, ok)
      PROVE  RoomInv' /\ WasteInv'
  <2>1. /\ pc[t] \in {"spawned", "load", "savebudget"}
        /\ out' = out /\ UNCHANGED <<budget, unload, faults, wasted, forgot, serving>>
        /\ \E p \in {"load", "connect", "idle"} : Go(t, p) /\ (pc[t] = "savebudget" => p = "idle")
    BY <1>2 DEF Record, Loaded, SaveBudget
  <2>2. t \notin Aborted
    BY <2>1 DEF Aborted
  <2> QED
    BY <1>p, <2>1, <2>2, GoesOn
<1>3. ASSUME NEW t \in Conns, NEW ok \in BOOLEAN, SaveActive(t, ok) PROVE RoomInv' /\ WasteInv'
  <2>1. /\ out' = out /\ UNCHANGED <<budget, unload, faults, wasted, forgot, serving>>
        /\ \/ pc[t] = "save" /\ Go(t, "relay")
           \/ pc[t] = "unsave" /\ Go(t, "count")
    BY <1>3 DEF SaveActive
  <2>2. CASE pc[t] = "save" /\ Go(t, "relay")
    <3>1. t \notin Aborted
      BY <2>2 DEF Aborted
    <3> QED
      BY <1>p, <2>1, <2>2, <3>1, GoesOn
  <2>3. CASE pc[t] = "unsave" /\ Go(t, "count")
    <3>1. t \in Aborted <=> kind[t] = "same" /\ out[t] = "aborted"
      BY <2>3 DEF Aborted
    <3> QED
      BY <1>p, <2>1, <2>3, <3>1, GoesOn
  <2> QED
    BY <2>1, <2>2, <2>3
<1>4. ASSUME NEW u \in Unloaders, Check(u) \/ Unload(u) PROVE RoomInv' /\ WasteInv'
  <2>1. UNCHANGED <<pc, kind, out, budget, wasted, forgot, serving, saved, active>>
    BY <1>4 DEF Check, Unload
  <2>2. Deaths' = Deaths
    BY <1>4 DEF Check, Unload, Deaths, TypeOK, Outside
  <2> QED
    BY <2>1, <2>2, WasteFrame
<1>5. CASE Bye
  <2>1. Dies /\ faults' \in Nat /\ Deaths + 1 <= faults'
    BY <1>5 DEF Bye, Deaths, DeathsInv, TypeOK, Outside
  <2> QED
    BY <2>1, DeathStep
<1>6. CASE Killed
  <2>1. Dies /\ faults' \in Nat /\ Deaths + 1 <= faults'
    BY <1>6, DeathsType DEF Killed, TypeOK, Outside
  <2> QED
    BY <2>1, DeathStep
<1>7. ASSUME NEW written \in saved .. Counted, NEW ok \in BOOLEAN, Start(written, ok) PROVE RoomInv' /\ WasteInv'
  <2>1. ~serving /\ serving'
    BY <1>7, Zenon DEF Start
  <2>2. budget' = Counted /\ UNCHANGED <<pc, kind, out, wasted, forgot, unload, faults>>
    BY <1>7 DEF Start
  <2>3. Uncounted' = {} /\ Aborted' = {}
    BY <2>1, <2>2 DEF ReapInv, Uncounted, Aborted
  <2>4. RoomInv'
    BY <2>3 DEF RoomInv
  <2>5. Deaths' = Deaths /\ PerLife' = PerLife
    BY <2>2 DEF Deaths, PerLife
  <2>6. Counted \in Nat
    BY CountConnections DEF Counted, TypeOK, Files
  <2>7. Known' = AtMost(Counted) /\ Known = AtMost(Counted)
    <3>1. Known' = AtMost(Counted) + 0
      BY <2>1, <2>2, <2>3, <2>5, FS_EmptySet DEF Known, AtMost
    <3> QED
      BY <2>1, <2>6, <3>1, AtMostType DEF Known
  <2>8. Allowed(forgot, Deaths)' = Allowed(forgot, Deaths)
    BY <2>2, <2>5 DEF Allowed
  <2> QED
    BY <2>2, <2>4, <2>7, <2>8 DEF WasteInv
<1>8. CASE BackendUp \/ BackendDies \/ Hold \/ UNCHANGED vars
  <2>1. UNCHANGED <<pc, kind, out, budget, wasted, forgot, serving, saved, active, unload, faults>>
    BY <1>8 DEF BackendUp, BackendDies, Hold, vars
  <2>2. Deaths' = Deaths
    BY <2>1 DEF Deaths
  <2> QED
    BY <2>1, <2>2, WasteFrame
<1> QED
  BY <1>1, <1>2, <1>3, <1>4, <1>5, <1>6, <1>7, <1>8, AdmitStep, RelayEndsStep, CountStep
  DEF Next, Goes, Ends, Starts, Outcomes

\* For any number of connections, failed writes, older snapshots and deaths: RetryMax
\* aborts end a request, the attempts under way aside, and a death whose budget.json was
\* not behind forgets no more than those.
THEOREM WasteBounded == Spec => []WasteIsBounded
<1>1. Init => DeathsInv /\ RoomInv /\ WasteInv
  <2> SUFFICES ASSUME Init PROVE DeathsInv /\ RoomInv /\ WasteInv
    OBVIOUS
  <2>1. serving
    BY Zenon DEF Init
  <2>2. Uncounted = {} /\ Aborted = {} /\ Deaths = 0 /\ forgot = 0 /\ wasted = 0 /\ budget = 0 /\ unload = {}
    BY DEF Init, Uncounted, Aborted, Deaths
  <2>3. Allowed(forgot, Deaths) \in Nat
    BY <2>2, AllowedGrows
  <2>4. AtMost(budget) + Cardinality(Aborted) \in Nat
    BY <2>2, AtMostType, Counts
  <2> QED
    BY <2>1, <2>2, <2>3, <2>4 DEF DeathsInv, RoomInv, WasteInv, Known
<1>2. TypeOK /\ ReapInv /\ DeathsInv /\ RoomInv /\ WasteInv /\ [Next]_vars => DeathsInv' /\ RoomInv' /\ WasteInv'
  BY DeathsStep, WasteStep
<1>3. TypeOK /\ ReapInv /\ DeathsInv /\ RoomInv /\ WasteInv => WasteIsBounded
  <2> SUFFICES ASSUME TypeOK, ReapInv, DeathsInv, RoomInv, WasteInv PROVE WasteIsBounded
    OBVIOUS
  <2>1. forgot \in Nat /\ Deaths \in Nat /\ forgot <= Deaths /\ Deaths <= faults /\ faults \in Nat
    BY DeathsType DEF DeathsInv, TypeOK, Outside
  <2>2. budget \in Nat /\ wasted \in Nat /\ Counted \in Nat
    BY CountConnections DEF TypeOK, Files, Counted
  <2>3. Known \in Nat /\ Known <= PerLife
    <3>1. CASE Uncounted = {}
      <4>1. Cardinality(Uncounted) = 0
        BY <3>1, FS_EmptySet
      <4> QED
        BY <2>2, <4>1, AtMostType, Counts, PerLifeType DEF Known
    <3>2. CASE Uncounted # {}
      <4>1. budget + Cardinality(Uncounted) <= PerLife
        BY <3>2 DEF RoomInv
      <4> QED
        BY <2>2, <4>1, AtMostType, Counts, PerLifeType DEF Known
    <3> QED
      BY <3>1, <3>2
  <2>4. /\ Allowed(forgot, Deaths) \in Nat /\ Allowed(forgot, faults) \in Nat
        /\ Allowed(forgot, Deaths) <= Allowed(forgot, faults)
    <3>1. CASE Deaths = faults
      BY <2>1, <3>1, AllowedGrows
    <3>2. CASE Deaths # faults
      <4>1. Deaths + 1 <= faults
        BY <2>1, <3>2
      <4> QED
        BY <2>1, <4>1, AllowedGrows, PerLifeType
    <3> QED
      BY <3>1, <3>2
  <2>5. wasted <= Allowed(forgot, faults) + PerLife
    BY <2>2, <2>3, <2>4, PerLifeType DEF WasteInv
  <2>6. Allowed(forgot, faults) + PerLife = PerLife * (1 + forgot) + Cardinality(Conns) * (faults - forgot)
    <3>1. \A p, f, r \in Nat : p * f + r + p = p * (1 + f) + r
      OBVIOUS
    <3>2. faults - forgot \in Nat
      BY <2>1
    <3>3. Cardinality(Conns) * (faults - forgot) \in Nat
      BY <3>2, PerLifeType, Times
    <3> QED
      BY <2>1, <3>1, <3>3, PerLifeType DEF Allowed
  <2> QED
    BY <2>5, <2>6 DEF WasteIsBounded
<1> QED
  BY <1>1, <1>2, <1>3, TypeCorrect, ReapInductive, PTL DEF Spec
=============================================================================
