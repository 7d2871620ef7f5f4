------------------------ MODULE NativeHandoffProofs ------------------------
(* Proofs of the safety properties of NativeHandoff, for every deadline,   *)
(* every watchdog timeout above four seconds and any number of failures.   *)
EXTENDS NativeHandoff, TLAPS

InitFiles == [init : Inits, android : Inits, wrapper : Inits]

(* Whatever the renames do, each path still names an init or nothing, and  *)
(* a successful restore puts what was init.android at the path of init.    *)
LEMMA RestoreOutcome ==
  ASSUME NEW f \in InitFiles, NEW r \in restore_aosp_init_path(f)
  PROVE  r.files \in InitFiles /\ r.ok \in BOOLEAN /\ (r.ok => r.files.init = f.android)
<1>1. CASE r \in {[ok |-> FALSE, files |-> g] : g \in RestoreFails(f)}
  <2>1. PICK g \in RestoreFails(f) : r = [ok |-> FALSE, files |-> g]
    BY <1>1
  <2>2. g = f \/ g = [f EXCEPT !.init = "none", !.wrapper = f.init]
    BY DEF RestoreFails
  <2>3. g \in InitFiles
    BY <2>2 DEF InitFiles, Inits
  <2> QED
    BY <2>1, <2>3
<1>2. CASE r = [ok |-> TRUE, files |-> Restored(f)]
  BY <1>2 DEF Restored, InitFiles, Inits
<1> QED
  BY <1>1, <1>2 DEF restore_aosp_init_path

(* The counters keep their ranges: time is clipped at the deadline and     *)
(* every failure is guarded by its bound.                                  *)
LEMMA CountersStep ==
  ASSUME Counters, [Next]_vars
  PROVE  Counters'
<1> USE DeadlineAssumption, BoundsAssumption DEF Counters
<1>1. CASE Intercept \/ Delegate \/ ObserveAck \/ CheckDeadline \/ ExecAndroid \/ FallBack
  BY <1>1 DEF Intercept, Delegate, ObserveAck, CheckDeadline, ExecAndroid, FallBack, clock
<1>2. CASE RestartRecovery
  BY <1>2 DEF RestartRecovery, clock
<1>3. CASE Setup \/ StartFirst \/ PetWatchdog
  BY <1>3 DEF Setup, StartFirst, start_native, PetWatchdog
<1>4. CASE ReapChildren
  BY <1>4 DEF ReapChildren, Slept, clock
<1>5. CASE RestartRescue
  BY <1>5 DEF RestartRescue, start_native, Slept, clock
<1>6. CASE SleepPass \/ Stuck
  BY <1>6 DEF SleepPass, Stuck, Slept
<1>7. CASE NativeStart \/ NativeDies \/ HostConnects \/ HostAcks
  BY <1>7 DEF NativeStart, NativeDies, HostConnects, HostAcks, clock
<1>8. CASE UNCHANGED vars
  BY <1>8 DEF vars
<1> QED
  BY <1>1, <1>2, <1>3, <1>4, <1>5, <1>6, <1>7, <1>8 DEF Next, Guardian

(* Every flag stays a truth value. *)
LEMMA FlagsStep ==
  ASSUME Flags, [Next]_vars
  PROVE  Flags'
<1> USE DEF Flags
<1>1. CASE Intercept
  BY <1>1, Zenon DEF Intercept, config, native, guard, host
<1>2. CASE Delegate
  BY <1>2, Zenon DEF Delegate, config, native, guard, host
<1>3. CASE RestartRecovery
  BY <1>3, Zenon DEF RestartRecovery, config, native, guard, host
<1>4. CASE Setup
  BY <1>4, Zenon DEF Setup, config, guard
<1>5. CASE StartFirst
  BY <1>5, Zenon DEF StartFirst, start_native, config, host
<1>6. CASE PetWatchdog
  BY <1>6, Zenon DEF PetWatchdog, config, native, guard, host
<1>7. CASE ObserveAck
  BY <1>7, Zenon DEF ObserveAck, config, native, host
<1>8. CASE CheckDeadline
  BY <1>8, Zenon DEF CheckDeadline, config, native, host
<1>9. CASE ReapChildren
  BY <1>9, Zenon DEF ReapChildren, config, host
<1>10. CASE RestartRescue
  BY <1>10, Zenon DEF RestartRescue, start_native, config, host
<1>11. CASE SleepPass
  BY <1>11, Zenon DEF SleepPass, config, native, guard, host
<1>12. CASE FallBack
  BY <1>12, Zenon DEF FallBack, config, native, host
<1>13. CASE ExecAndroid
  BY <1>13, Zenon DEF ExecAndroid, config, native, guard, host
<1>14. CASE Stuck
  BY <1>14, Zenon DEF Stuck, config, native, guard, host
<1>15. CASE NativeStart
  BY <1>15, Zenon DEF NativeStart, ClaimGadget, BuildGadget, PrepareRoot, ExecSshd, RefuseGadget,
          RefuseResume, config,
                      guard, host
<1>16. CASE NativeDies
  BY <1>16, Zenon DEF NativeDies, config, guard, host
<1>17. CASE HostConnects
  BY <1>17, Zenon DEF HostConnects, config, native, guard
<1>18. CASE HostAcks
  BY <1>18, Zenon DEF HostAcks, config, native, guard
<1>19. CASE UNCHANGED vars
  BY <1>19, Zenon DEF vars
<1> QED
  BY <1>1, <1>2, <1>3, <1>4, <1>5, <1>6, <1>7, <1>8, <1>9, <1>10,
     <1>11, <1>12, <1>13, <1>14, <1>15, <1>16, <1>17, <1>18, <1>19
     DEF Next, Guardian

(* The initial state has its types. *)
LEMMA InitTypeOK == Init => TypeOK
<1>1. Init => Phases
  BY DEF Init, Phases, Inits, Working, Loop, Final
<1>2. Init => Flags
  BY DEF Init, Flags
<1>3. Init => Counters
  BY DeadlineAssumption, BoundsAssumption DEF Init, Counters
<1> QED
  BY <1>1, <1>2, <1>3 DEF TypeOK

(* Every step keeps them. *)
LEMMA TypeStep ==
  ASSUME TypeOK, [Next]_vars
  PROVE  TypeOK'
<1> SUFFICES Phases'
  BY CountersStep, FlagsStep DEF TypeOK
<1> USE DEF TypeOK, Phases
<1>1. CASE Intercept
  BY <1>1 DEF Intercept, Loop, Final, config, clock, native, guard, host
<1>2. CASE Delegate
  <2>1. PICK r \in restore_aosp_init_path(files) :
          files' = r.files /\ pc' \in {"android", "delegated", "panic"}
    BY <1>2 DEF Delegate
  <2>2. files' \in InitFiles
    BY <2>1, RestoreOutcome DEF InitFiles, Inits
  <2> QED
    BY <1>2, <2>1, <2>2
       DEF Delegate, InitFiles, Inits, Loop, Final, config, clock, native, guard, host
<1>3. CASE RestartRecovery
  BY <1>3 DEF RestartRecovery, Loop, Final, config, clock, native, guard, host
<1>4. CASE Setup
  BY <1>4 DEF Setup, Loop, Final, config, guard
<1>5. CASE StartFirst
  BY <1>5 DEF StartFirst, start_native, Loop, Final, Working, config, host
<1>6. CASE PetWatchdog
  BY <1>6 DEF PetWatchdog, Loop, Final, config, native, guard, host
<1>7. CASE ObserveAck
  BY <1>7 DEF ObserveAck, Loop, Final, config, clock, native, host
<1>8. CASE CheckDeadline
  BY <1>8 DEF CheckDeadline, Loop, Final, config, clock, native, host
<1>9. CASE ReapChildren
  BY <1>9 DEF ReapChildren, Slept, Loop, Final, Working, config, clock, host
<1>10. CASE RestartRescue
  BY <1>10 DEF RestartRescue, start_native, Slept, Loop, Final, Working, config, clock,
               host
<1>11. CASE SleepPass
  BY <1>11 DEF SleepPass, Slept, Loop, Final, config, native, guard, host
<1>12. CASE FallBack
  <2>1. pc' \in {"restart_recovery", "exec", "stuck"} /\ files' \in InitFiles
    BY <1>12, RestoreOutcome DEF FallBack, InitFiles, Inits
  <2> QED
    BY <1>12, <2>1 DEF FallBack, InitFiles, Inits, Working, config, clock, native, host
<1>13. CASE ExecAndroid
  BY <1>13 DEF ExecAndroid, Loop, Final, config, clock, native, guard, host
<1>14. CASE Stuck
  BY <1>14 DEF Stuck, Loop, Final, config, native, guard, host
<1>15. CASE NativeStart
  BY <1>15 DEF NativeStart, ClaimGadget, BuildGadget, PrepareRoot, ExecSshd, RefuseGadget,
          RefuseResume, 
               Working, config, clock, guard, host
<1>16. CASE NativeDies
  BY <1>16 DEF NativeDies, Working, config, clock, guard, host
<1>17. CASE HostConnects
  BY <1>17 DEF HostConnects, config, clock, native, guard
<1>18. CASE HostAcks
  BY <1>18 DEF HostAcks, config, clock, native, guard
<1>19. CASE UNCHANGED vars
  BY <1>19 DEF vars
<1> QED
  BY <1>1, <1>2, <1>3, <1>4, <1>5, <1>6, <1>7, <1>8, <1>9, <1>10, <1>11, <1>12, <1>13, <1>14,
     <1>15, <1>16, <1>17, <1>18, <1>19 DEF Next, Guardian

(* TypeOK is inductive: no step leaves the value sets of the state. *)
THEOREM TypeCorrect == Spec => []TypeOK
BY InitTypeOK, TypeStep, PTL DEF Spec

-----------------------------------------------------------------------------
(* How long ago the last keepalive was, at each point of PID 1. *)
IdleInv ==
  /\ pc \in {"wrapper", "setup", "start", "observe", "deadline", "reap", "fallback", "exec"}
       => idle = 0
  /\ pc \in {"restart", "stuck", "restart_recovery"} => idle <= 1
  /\ pc = "sleep" => idle <= 3
  /\ pc = "pet" => idle <= 4

(* The guardian's own pid variable is exact, and outside the loop there is *)
(* no native-start at all.                                                 *)
ChildInv ==
  /\ native_pid <=> child # "none"
  /\ pc \notin Loop \ {"restart"} => child = "none"

(* A gadget of native-start is always marked as owned, so that a fallback  *)
(* finds it; before the first start and after the fallback there is none.  *)
GadgetInv ==
  /\ gadget = "native" => owned
  /\ child = "claimed" => owned
  /\ pc \in {"wrapper", "delegate", "setup", "start", "exec", "android"} => ~owned

(* The renames happen once, last. *)
FilesInv ==
  /\ pc \in Loop \cup {"wrapper", "delegate", "setup", "start", "fallback"}
       => files.android = "aosp"
  /\ pc \in {"exec", "android"} => files.init = "aosp"
  /\ pc \in {"wrapper", "delegate", "setup", "android"} => ~watchdog

(* What was decided on the way to Android still holds there. *)
EarlyInv ==
  /\ pc \notin Loop \cup {"stuck", "panic", "restart_recovery", "rebooted"}
       => ~ack_confirmed /\ ~timeout_elapsed
  /\ pc = "exec" => build = "recovery"
  /\ enabled /\ pc \in {"delegate", "android", "delegated"} => build = "recovery"

(* Every sleep is short and every loop starts with a keepalive. *)
LEMMA IdleStep ==
  ASSUME TypeOK, IdleInv, [Next]_vars
  PROVE  IdleInv'
<1> USE DEF IdleInv, TypeOK, Counters, Final, Loop
<1>1. CASE Intercept
  BY <1>1 DEF Intercept, clock, config, guard, host, native
<1>2. CASE Delegate
  BY <1>2 DEF Delegate, clock, config, guard, host, native
<1>3. CASE RestartRecovery
  BY <1>3 DEF RestartRecovery, clock, config, guard, host, native
<1>4. CASE Setup
  BY <1>4 DEF Setup, config, guard
<1>5. CASE StartFirst
  BY <1>5 DEF StartFirst, start_native, config, host
<1>6. CASE PetWatchdog
  BY <1>6 DEF PetWatchdog, config, guard, host, native
<1>7. CASE ObserveAck
  BY <1>7 DEF ObserveAck, clock, config, host, native
<1>8. CASE CheckDeadline
  BY <1>8 DEF CheckDeadline, clock, config, host, native
<1>9. CASE ReapChildren
  BY <1>9 DEF ReapChildren, Slept, clock, config, host
<1>10. CASE RestartRescue
  BY <1>10 DEF RestartRescue, Slept, start_native, clock, config, host
<1>11. CASE SleepPass
  BY <1>11 DEF SleepPass, Slept, config, guard, host, native
<1>12. CASE FallBack
  BY <1>12 DEF FallBack, clock, config, host, native
<1>13. CASE ExecAndroid
  BY <1>13 DEF ExecAndroid, clock, config, guard, host, native
<1>14. CASE Stuck
  BY <1>14 DEF Stuck, config, guard, host, native
<1>15. CASE NativeStart
  BY <1>15 DEF NativeStart, ClaimGadget, BuildGadget, PrepareRoot, ExecSshd, RefuseGadget,
          RefuseResume, clock,
       config, guard, host, native
<1>16. CASE NativeDies
  BY <1>16 DEF NativeDies, clock, config, guard, host
<1>17. CASE HostConnects
  BY <1>17 DEF HostConnects, clock, config, guard, native
<1>18. CASE HostAcks
  BY <1>18 DEF HostAcks, clock, config, guard, native
<1>19. CASE UNCHANGED vars
  BY <1>19 DEF vars
<1> QED
  BY <1>1, <1>2, <1>3, <1>4, <1>5, <1>6, <1>7, <1>8, <1>9, <1>10,
     <1>11, <1>12, <1>13, <1>14, <1>15, <1>16, <1>17, <1>18, <1>19
     DEF Next, Guardian

(* fork, reap and fallback keep the pid variable exact. *)
LEMMA ChildStep ==
  ASSUME TypeOK, ChildInv, [Next]_vars
  PROVE  ChildInv'
<1> USE DEF ChildInv, TypeOK, Flags, Working, Loop
<1>1. CASE Intercept
  BY <1>1 DEF Intercept, clock, config, guard, host, native
<1>2. CASE Delegate
  BY <1>2 DEF Delegate, clock, config, guard, host, native
<1>3. CASE RestartRecovery
  BY <1>3 DEF RestartRecovery, clock, config, guard, host, native
<1>4. CASE Setup
  BY <1>4 DEF Setup, config, guard
<1>5. CASE StartFirst
  BY <1>5 DEF StartFirst, start_native, config, host
<1>6. CASE PetWatchdog
  BY <1>6 DEF PetWatchdog, config, guard, host, native
<1>7. CASE ObserveAck
  BY <1>7 DEF ObserveAck, clock, config, host, native
<1>8. CASE CheckDeadline
  BY <1>8 DEF CheckDeadline, clock, config, host, native
<1>9. CASE ReapChildren
  BY <1>9 DEF ReapChildren, Slept, clock, config, host
<1>10. CASE RestartRescue
  BY <1>10 DEF RestartRescue, Slept, start_native, clock, config, host
<1>11. CASE SleepPass
  BY <1>11 DEF SleepPass, Slept, config, guard, host, native
<1>12. CASE FallBack
  BY <1>12 DEF FallBack, clock, config, host, native
<1>13. CASE ExecAndroid
  BY <1>13 DEF ExecAndroid, clock, config, guard, host, native
<1>14. CASE Stuck
  BY <1>14 DEF Stuck, config, guard, host, native
<1>15. CASE NativeStart
  BY <1>15 DEF NativeStart, ClaimGadget, BuildGadget, PrepareRoot, ExecSshd, RefuseGadget,
          RefuseResume, clock,
       config, guard, host, native
<1>16. CASE NativeDies
  BY <1>16 DEF NativeDies, clock, config, guard, host
<1>17. CASE HostConnects
  BY <1>17 DEF HostConnects, clock, config, guard, native
<1>18. CASE HostAcks
  BY <1>18 DEF HostAcks, clock, config, guard, native
<1>19. CASE UNCHANGED vars
  BY <1>19 DEF vars
<1> QED
  BY <1>1, <1>2, <1>3, <1>4, <1>5, <1>6, <1>7, <1>8, <1>9, <1>10,
     <1>11, <1>12, <1>13, <1>14, <1>15, <1>16, <1>17, <1>18, <1>19
     DEF Next, Guardian

(* native-start marks before it builds; only the fallback unmarks. *)
LEMMA GadgetStep ==
  ASSUME TypeOK, ChildInv, GadgetInv, [Next]_vars
  PROVE  GadgetInv'
<1> USE DEF GadgetInv, ChildInv, TypeOK, Flags, Working, Loop
<1>1. CASE Intercept
  BY <1>1 DEF Intercept, clock, config, guard, host, native
<1>2. CASE Delegate
  BY <1>2 DEF Delegate, clock, config, guard, host, native
<1>3. CASE RestartRecovery
  BY <1>3 DEF RestartRecovery, clock, config, guard, host, native
<1>4. CASE Setup
  BY <1>4 DEF Setup, config, guard
<1>5. CASE StartFirst
  BY <1>5 DEF StartFirst, start_native, config, host
<1>6. CASE PetWatchdog
  BY <1>6 DEF PetWatchdog, config, guard, host, native
<1>7. CASE ObserveAck
  BY <1>7 DEF ObserveAck, clock, config, host, native
<1>8. CASE CheckDeadline
  BY <1>8 DEF CheckDeadline, clock, config, host, native
<1>9. CASE ReapChildren
  BY <1>9 DEF ReapChildren, Slept, clock, config, host
<1>10. CASE RestartRescue
  BY <1>10 DEF RestartRescue, Slept, start_native, clock, config, host
<1>11. CASE SleepPass
  BY <1>11 DEF SleepPass, Slept, config, guard, host, native
<1>12. CASE FallBack
  BY <1>12 DEF FallBack, clock, config, host, native
<1>13. CASE ExecAndroid
  BY <1>13 DEF ExecAndroid, clock, config, guard, host, native
<1>14. CASE Stuck
  BY <1>14 DEF Stuck, config, guard, host, native
<1>15. CASE NativeStart
  BY <1>15 DEF NativeStart, ClaimGadget, BuildGadget, PrepareRoot, ExecSshd, RefuseGadget,
          RefuseResume, clock,
       config, guard, host, native
<1>16. CASE NativeDies
  BY <1>16 DEF NativeDies, clock, config, guard, host
<1>17. CASE HostConnects
  BY <1>17 DEF HostConnects, clock, config, guard, native
<1>18. CASE HostAcks
  BY <1>18 DEF HostAcks, clock, config, guard, native
<1>19. CASE UNCHANGED vars
  BY <1>19 DEF vars
<1> QED
  BY <1>1, <1>2, <1>3, <1>4, <1>5, <1>6, <1>7, <1>8, <1>9, <1>10,
     <1>11, <1>12, <1>13, <1>14, <1>15, <1>16, <1>17, <1>18, <1>19
     DEF Next, Guardian

(* Only the two callers of restore_aosp_init_path touch the paths. *)
LEMMA FilesStep ==
  ASSUME TypeOK, FilesInv, [Next]_vars
  PROVE  FilesInv'
<1> USE DEF FilesInv, TypeOK, Phases, Flags, Loop
<1>1. CASE Intercept
  BY <1>1 DEF Intercept, clock, config, guard, host, native
<1>2. CASE Delegate
  <2>1. PICK r \in restore_aosp_init_path(files) :
          files' = r.files /\ (pc' = "android" => r.ok) /\ pc' \in {"android", "delegated", "panic"}
    BY <1>2 DEF Delegate
  <2>2. r.ok => files'.init = "aosp"
    BY <1>2, <2>1, RestoreOutcome DEF Delegate, InitFiles
  <2> QED
    BY <1>2, <2>1, <2>2 DEF Delegate
<1>3. CASE RestartRecovery
  BY <1>3 DEF RestartRecovery, clock, config, guard, host, native
<1>4. CASE Setup
  BY <1>4 DEF Setup, config, guard
<1>5. CASE StartFirst
  BY <1>5 DEF StartFirst, start_native, config, host
<1>6. CASE PetWatchdog
  BY <1>6 DEF PetWatchdog, config, guard, host, native
<1>7. CASE ObserveAck
  BY <1>7 DEF ObserveAck, clock, config, host, native
<1>8. CASE CheckDeadline
  BY <1>8 DEF CheckDeadline, clock, config, host, native
<1>9. CASE ReapChildren
  BY <1>9 DEF ReapChildren, Slept, clock, config, host
<1>10. CASE RestartRescue
  BY <1>10 DEF RestartRescue, Slept, start_native, clock, config, host
<1>11. CASE SleepPass
  BY <1>11 DEF SleepPass, Slept, config, guard, host, native
<1>12. CASE FallBack
  <2>1. CASE build = "boot" /\ pc' = "restart_recovery"
    BY <2>1
  <2>2. CASE build = "recovery"
    <3>1. PICK r \in restore_aosp_init_path(files) :
            files' = r.files /\ pc' = IF r.ok THEN "exec" ELSE "stuck"
      BY <1>12, <2>2 DEF FallBack
    <3>2. r.ok => files'.init = "aosp"
      BY <1>12, <3>1, RestoreOutcome DEF FallBack, InitFiles
    <3> QED
      BY <3>1, <3>2
  <2> QED
    BY <1>12, <2>1, <2>2 DEF FallBack
<1>13. CASE ExecAndroid
  BY <1>13 DEF ExecAndroid, clock, config, guard, host, native
<1>14. CASE Stuck
  BY <1>14 DEF Stuck, config, guard, host, native
<1>15. CASE NativeStart
  BY <1>15 DEF NativeStart, ClaimGadget, BuildGadget, PrepareRoot, ExecSshd, RefuseGadget,
          RefuseResume, clock,
       config, guard, host, native
<1>16. CASE NativeDies
  BY <1>16 DEF NativeDies, clock, config, guard, host
<1>17. CASE HostConnects
  BY <1>17 DEF HostConnects, clock, config, guard, native
<1>18. CASE HostAcks
  BY <1>18 DEF HostAcks, clock, config, guard, native
<1>19. CASE UNCHANGED vars
  BY <1>19 DEF vars
<1> QED
  BY <1>1, <1>2, <1>3, <1>4, <1>5, <1>6, <1>7, <1>8, <1>9, <1>10,
     <1>11, <1>12, <1>13, <1>14, <1>15, <1>16, <1>17, <1>18, <1>19
     DEF Next, Guardian

(* ack_confirmed and timeout_elapsed are set in the loop only, which the *)
(* path to Android leaves before either is set.                          *)
LEMMA EarlyStep ==
  ASSUME TypeOK, EarlyInv, [Next]_vars
  PROVE  EarlyInv'
<1> USE DEF EarlyInv, TypeOK, Phases, Flags, Loop
<1>1. CASE Intercept
  BY <1>1 DEF Intercept, clock, config, guard, host, native
<1>2. CASE Delegate
  BY <1>2 DEF Delegate, clock, config, guard, host, native
<1>3. CASE RestartRecovery
  BY <1>3 DEF RestartRecovery, clock, config, guard, host, native
<1>4. CASE Setup
  BY <1>4 DEF Setup, config, guard
<1>5. CASE StartFirst
  BY <1>5 DEF StartFirst, start_native, config, host
<1>6. CASE PetWatchdog
  BY <1>6 DEF PetWatchdog, config, guard, host, native
<1>7. CASE ObserveAck
  BY <1>7 DEF ObserveAck, clock, config, host, native
<1>8. CASE CheckDeadline
  BY <1>8 DEF CheckDeadline, clock, config, host, native
<1>9. CASE ReapChildren
  BY <1>9 DEF ReapChildren, Slept, clock, config, host
<1>10. CASE RestartRescue
  BY <1>10 DEF RestartRescue, Slept, start_native, clock, config, host
<1>11. CASE SleepPass
  BY <1>11 DEF SleepPass, Slept, config, guard, host, native
<1>12. CASE FallBack
  BY <1>12 DEF FallBack, clock, config, host, native
<1>13. CASE ExecAndroid
  BY <1>13 DEF ExecAndroid, clock, config, guard, host, native
<1>14. CASE Stuck
  BY <1>14 DEF Stuck, config, guard, host, native
<1>15. CASE NativeStart
  BY <1>15 DEF NativeStart, ClaimGadget, BuildGadget, PrepareRoot, ExecSshd, RefuseGadget,
          RefuseResume, clock,
       config, guard, host, native
<1>16. CASE NativeDies
  BY <1>16 DEF NativeDies, clock, config, guard, host
<1>17. CASE HostConnects
  BY <1>17 DEF HostConnects, clock, config, guard, native
<1>18. CASE HostAcks
  BY <1>18 DEF HostAcks, clock, config, guard, native
<1>19. CASE UNCHANGED vars
  BY <1>19 DEF vars
<1> QED
  BY <1>1, <1>2, <1>3, <1>4, <1>5, <1>6, <1>7, <1>8, <1>9, <1>10,
     <1>11, <1>12, <1>13, <1>14, <1>15, <1>16, <1>17, <1>18, <1>19
     DEF Next, Guardian

-----------------------------------------------------------------------------
Inv == TypeOK /\ IdleInv /\ ChildInv /\ GadgetInv /\ FilesInv /\ EarlyInv

(* The inductive invariant holds in every reachable state. *)
LEMMA Invariance == Spec => []Inv
<1>1. Init => Inv
  <2>1. Init => TypeOK
    BY InitTypeOK
  <2>2. Init => IdleInv /\ GadgetInv /\ FilesInv
    BY DEF Init, IdleInv, GadgetInv, FilesInv, Loop
  <2>3. Init => ChildInv /\ EarlyInv
    BY DEF Init, ChildInv, EarlyInv, Loop
  <2> QED
    BY <2>1, <2>2, <2>3 DEF Inv
<1>2. Inv /\ [Next]_vars => Inv'
  BY TypeStep, IdleStep, ChildStep, GadgetStep, FilesStep, EarlyStep DEF Inv
<1> QED
  BY <1>1, <1>2, PTL DEF Spec

(* native-guardian.c keeps the watchdog fed: on no path, the rescue whose  *)
(* fork fails included, do more than four seconds of sleep lie between two *)
(* keepalives.                                                             *)
THEOREM AlwaysFed == Spec => []WatchdogFed
<1>1. Inv => WatchdogFed
  <2> SUFFICES ASSUME Inv, watchdog, pc \notin Final PROVE idle < Timeout
    BY DEF WatchdogFed
  <2>1. pc # "delegate"
    BY DEF Inv, FilesInv
  <2>2. idle <= 4
    BY <2>1 DEF Inv, IdleInv, TypeOK, Phases, Counters, Loop
  <2> QED
    BY <2>2, TimeoutAssumption DEF Inv, TypeOK, Counters
<1> QED
  BY <1>1, Invariance, PTL

(* fallback_to_aosp and the wrapper hand Android its own init, no open     *)
(* watchdog and no half-built gadget, wherever native-start died.          *)
THEOREM CleanHandover == Spec => []AndroidIsClean
<1>1. Inv => AndroidIsClean
  BY DEF Inv, GadgetInv, FilesInv, AndroidIsClean
<1> QED
  BY <1>1, Invariance, PTL

(* In native mode Android takes over only after an early failure, and      *)
(* never in the build that restarts into recovery.                         *)
THEOREM EarlyFailureOnly == Spec => []AndroidOnlyOnEarlyFailure
<1>1. Inv => AndroidOnlyOnEarlyFailure
  BY DEF Inv, ChildInv, EarlyInv, TypeOK, Phases, Working, Loop, AndroidOnlyOnEarlyFailure
<1> QED
  BY <1>1, Invariance, PTL
=============================================================================
