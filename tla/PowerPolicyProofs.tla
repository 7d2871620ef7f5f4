-------------------------- MODULE PowerPolicyProofs --------------------------
(***************************************************************************)
(* Theorems about the two policies that act while the display is off, for  *)
(* every value of their constants: s22-autosleep (Autosleep), and the      *)
(* Wi-Fi saver of s22-netpolicy (NetSaver).  They share no variable.       *)
(***************************************************************************)
EXTENDS Autosleep, NetSaver, TLAPS

\* What makes NoEventSleptOn inductive: once the write of wakeup_count went
\* through, the kernel's check stays on until the suspend is tried.
CheckIsOn == pc = "suspend" /\ hs = "armed" => check

\* What makes RestedBeforeSleep inductive: the loop goes past its grace only
\* when both of its clocks are done, and those clocks, which are all the loop
\* knows, agree with what happened: awake_until with the rest that is due and
\* the polls it has had, off_since with the polls since the screen was on,
\* fail_backoff with the failures in a row.
Committed == {"inhibit", "calls", "count", "write", "suspend", "asleep"}
PastGrace == pc \in Committed => offFor = Grace /\ awakeLeft = 0
AwakeAgrees == awakeLeft + upFor = Due
OffAgrees == offFor <= dark
BackoffAgrees == failBackoff = Rests[Lower(Len(Rests), streak + 1)]

\* What makes OneLateSuspend inductive: a pass that read the screen off (the
\* flag unset) met the screen on (the flag set) only since, so that no
\* suspend is counted yet.
SawOff == {"flag", "lock", "grace", "inhibit", "calls", "count", "write", "suspend"}
SawUnset == {"calls", "count", "write", "suspend"}
LateAgrees ==
    /\ \A c \in Causes : ~Holds(c) => late[c] = 0
    /\ pc \in SawOff => late["screen"] = 0
    /\ pc \in SawUnset => late["flag"] = 0

RestInv == TimesOK /\ PastOK /\ PastGrace /\ AwakeAgrees /\ OffAgrees /\ BackoffAgrees
EventInv == NoEventSleptOn /\ CheckIsOn
LateInv == OneLateSuspend /\ LateAgrees
IInv == SwitchesOK /\ ModesOK /\ RestInv /\ EventInv /\ LateInv

USE TimesAssumption, SwitchesAssumption
USE DEF env, kernel, daemon, past, NoTime

\* The rests of the table are numbers, and so is the rest that is due.
LEMMA RestsType ==
    /\ Len(Rests) \in Nat \ {0} /\ \A i \in 1 .. Len(Rests) : Rests[i] \in Nat
    /\ Rests[1] = FirstBackoff /\ Rests[Len(Rests)] = MaxBackoff
    /\ \A i \in 1 .. Len(Rests) - 1 : Rests[i + 1] = NextBackoff(Rests[i])
BY RestsAssumption DEF NextBackoff, Lower

LEMMA DueType == PastOK => Due \in Nat
BY RestsType DEF PastOK, Due

LEMMA DueKept == ASSUME UNCHANGED <<last, streak>> PROVE Due' = Due
BY DEF Due

LEMMA InitIInv == Init => IInv
<1> SUFFICES ASSUME Init PROVE IInv
  OBVIOUS
<1>1. SwitchesOK
  BY DEF Init, SwitchesOK
<1>2. ModesOK
  BY DEF Init, ModesOK, Pcs, InitialGovState
<1>3. TimesOK /\ PastOK
  BY RestsType DEF Init, TimesOK, PastOK
<1>4. PastGrace /\ AwakeAgrees /\ OffAgrees /\ BackoffAgrees
  BY RestsType DEF Init, PastGrace, Committed, AwakeAgrees, OffAgrees, BackoffAgrees, Due, Lower
<1>5. EventInv
  BY DEF Init, EventInv, NoEventSleptOn, CheckIsOn
<1>6. LateInv
  BY DEF Init, LateInv, OneLateSuspend, LateAgrees, SawOff, SawUnset, Causes
<1> QED BY <1>1, <1>2, <1>3, <1>4, <1>5, <1>6 DEF IInv, RestInv

LEMMA SwitchesStep == SwitchesOK /\ [Next]_vars => SwitchesOK'
<1> SUFFICES ASSUME SwitchesOK, [Next]_vars PROVE SwitchesOK'
  OBVIOUS
<1> USE DEF SwitchesOK
<1>1. CASE Start \/ Terminate \/ Crash
  BY <1>1 DEF Start, Terminate, Crash
<1>2. CASE ScreenOn \/ ScreenOff \/ CheckFlag \/ SetLocked \/ Sleep \/ SuspendFails
  BY <1>2 DEF ScreenOn, ScreenOff, CheckFlag, SetLocked, Sleep, SuspendFails
<1>3. CASE CheckGrace \/ CheckInhibitors \/ CheckCalls \/ ReadCount \/ WriteCount \/ Suspend
  BY <1>3 DEF CheckGrace, CheckInhibitors, CheckCalls, ReadCount, WriteCount, HandshakeFails,
              Suspend
<1>4. CASE RtcWake \/ EventWake
  BY <1>4 DEF RtcWake, EventWake, Resume
<1>5. CASE OffWritesFlag \/ OffSetsGovernor \/ On \/ Display \/ Inhibit \/ EventBegins
  BY <1>5 DEF OffWritesFlag, OffSetsGovernor, On, Display, Inhibit, EventBegins
<1>6. CASE Call \/ Usb \/ EventEnds
  BY <1>6 DEF Call, Usb, EventEnds
<1>7. CASE UNCHANGED vars
  BY <1>7 DEF vars
<1> QED
  BY <1>1, <1>2, <1>3, <1>4, <1>5, <1>6, <1>7 DEF Next, Loop, Environment

LEMMA ModesStep == ModesOK /\ [Next]_vars => ModesOK'
<1> SUFFICES ASSUME ModesOK, [Next]_vars PROVE ModesOK'
  OBVIOUS
<1> USE DEF ModesOK, Pcs
<1>1. CASE Start \/ Terminate \/ Crash
  BY <1>1 DEF Start, Terminate, Crash, Reset, InitialGovState
<1>2. CASE ScreenOn \/ ScreenOff \/ CheckFlag \/ SetLocked \/ Sleep \/ SuspendFails
  BY <1>2 DEF ScreenOn, ScreenOff, CheckFlag, SetLocked, Sleep, SuspendFails
<1>3. CASE CheckGrace \/ CheckInhibitors \/ CheckCalls \/ ReadCount \/ WriteCount \/ Suspend
  BY <1>3 DEF CheckGrace, CheckInhibitors, CheckCalls, ReadCount, WriteCount, HandshakeFails,
              Suspend
<1>4. CASE RtcWake \/ EventWake
  BY <1>4 DEF RtcWake, EventWake, Resume
<1>5. CASE OffWritesFlag \/ OffSetsGovernor \/ On \/ Display \/ Inhibit \/ EventBegins
  BY <1>5 DEF OffWritesFlag, OffSetsGovernor, On, Display, Inhibit, EventBegins
<1>6. CASE Call \/ Usb \/ EventEnds
  BY <1>6 DEF Call, Usb, EventEnds
<1>7. CASE UNCHANGED vars
  BY <1>7 DEF vars
<1> QED
  BY <1>1, <1>2, <1>3, <1>4, <1>5, <1>6, <1>7 DEF Next, Loop, Environment

LEMMA TimesStep == TimesOK /\ [Next]_vars => TimesOK'
<1> SUFFICES ASSUME TimesOK, [Next]_vars PROVE TimesOK'
  OBVIOUS
<1> USE DEF TimesOK
<1>1. CASE Start \/ Terminate \/ Crash
  BY <1>1 DEF Start, Terminate, Crash, Reset
<1>2. CASE ScreenOn \/ ScreenOff \/ CheckFlag \/ SetLocked
  BY <1>2 DEF ScreenOn, ScreenOff, OffSince, CheckFlag, SetLocked
<1>3. CASE CheckGrace \/ CheckInhibitors \/ CheckCalls \/ Suspend
  BY <1>3 DEF CheckGrace, CheckInhibitors, CheckCalls, Suspend
<1>4. CASE ReadCount \/ WriteCount
  BY <1>4 DEF ReadCount, WriteCount, HandshakeFails
<1>5. CASE SuspendFails
  <2>1. NextBackoff(failBackoff) \in FirstBackoff .. MaxBackoff
    BY DEF NextBackoff, Lower
  <2> QED BY <1>5, <2>1 DEF SuspendFails
<1>6. CASE Sleep
  BY <1>6 DEF Sleep, Lower
<1>7. CASE RtcWake \/ EventWake
  <2>1. awakeLeft' \in {NetAwakeS, AwakeS} /\ failBackoff' = FirstBackoff /\ offFor' = offFor
    BY <1>7 DEF RtcWake, EventWake, Resume
  <2> QED BY <2>1
<1>8. CASE Environment
  BY <1>8 DEF Environment, OffWritesFlag, OffSetsGovernor, On, Display, Inhibit, Call,
              Usb, EventBegins, EventEnds
<1>9. CASE UNCHANGED vars
  BY <1>9 DEF vars
<1> QED
  BY <1>1, <1>2, <1>3, <1>4, <1>5, <1>6, <1>7, <1>8, <1>9 DEF Next, Loop

LEMMA PastStep == PastOK /\ [Next]_vars => PastOK'
<1> SUFFICES ASSUME PastOK, [Next]_vars PROVE PastOK'
  OBVIOUS
<1>0. Len(Rests) \in Nat \ {0} /\ Due \in Nat
  BY RestsType, DueType
<1> USE <1>0 DEF PastOK
<1>1. CASE Start \/ Terminate \/ Crash
  BY <1>1 DEF Start, Terminate, Crash, Reset, RestBegins
<1>2. CASE ScreenOn \/ ScreenOff \/ CheckFlag \/ SetLocked
  BY <1>2 DEF ScreenOn, ScreenOff, CheckFlag, SetLocked
<1>3. CASE CheckGrace \/ CheckInhibitors \/ CheckCalls
  BY <1>3 DEF CheckGrace, CheckInhibitors, CheckCalls
<1>4. CASE ReadCount \/ WriteCount
  BY <1>4 DEF ReadCount, WriteCount, HandshakeFails, RestBegins
<1>5. CASE Suspend
  BY <1>5 DEF Suspend, Causes
<1>6. CASE SuspendFails
  BY <1>6 DEF SuspendFails, RestBegins, Lower
<1>7. CASE Sleep
  BY <1>7 DEF Sleep, Lower
<1>8. CASE RtcWake \/ EventWake
  <2>1. PICK net \in BOOLEAN : Resume(net)
    BY <1>8 DEF RtcWake, EventWake
  <2> QED BY <2>1 DEF Resume, RestBegins
<1>9. CASE OffWritesFlag \/ OffSetsGovernor \/ On \/ Display
  BY <1>9 DEF OffWritesFlag, OffSetsGovernor, On, Display, Causes
<1>10. CASE Inhibit \/ Call \/ Usb \/ EventBegins \/ EventEnds
  BY <1>10 DEF Inhibit, Call, Usb, EventBegins, EventEnds
<1>11. CASE UNCHANGED vars
  BY <1>11 DEF vars
<1> QED
  BY <1>1, <1>2, <1>3, <1>4, <1>5, <1>6, <1>7, <1>8, <1>9, <1>10, <1>11 DEF Next, Loop, Environment

\* The clocks of the loop and what happened move together.
Agree == PastGrace /\ AwakeAgrees /\ OffAgrees /\ BackoffAgrees

LEMMA AgreeStep == TimesOK /\ PastOK /\ Agree /\ [Next]_vars => Agree'
<1> SUFFICES ASSUME TimesOK, PastOK, Agree, [Next]_vars PROVE Agree'
  OBVIOUS
<1>0. Due \in Nat /\ Len(Rests) \in Nat \ {0} /\ Rests[1] = FirstBackoff
  BY RestsType, DueType
<1>k. UNCHANGED <<last, streak>> => Due' = Due
  BY DueKept
<1> USE <1>0, <1>k DEF Agree, TimesOK, PastOK, PastGrace, AwakeAgrees, OffAgrees, BackoffAgrees,
                       Committed
<1>1. CASE Start \/ Terminate \/ Crash
  <2>1. last' = "start" /\ upFor' = 0 /\ streak' = 0 /\ dark' = 0 /\ awakeLeft' = 0
        /\ offFor' = NoTime /\ failBackoff' = FirstBackoff /\ pc' \in {"down", "display"}
    BY <1>1 DEF Start, Terminate, Crash, Reset, RestBegins
  <2>2. Due' = 0
    BY <2>1 DEF Due
  <2> QED BY <2>1, <2>2 DEF Lower
<1>2. CASE ScreenOn
  <2>1. /\ offFor' = -1 /\ dark' = 0 /\ pc' = "sleep"
        /\ UNCHANGED <<awakeLeft, failBackoff, last, streak, upFor>>
    BY <1>2 DEF ScreenOn
  <2> QED BY <2>1
<1>2a. CASE ScreenOff
  BY <1>2a DEF ScreenOff, OffSince
<1>2b. CASE CheckFlag \/ SetLocked
  <2>1. UNCHANGED <<offFor, awakeLeft, failBackoff, past>> /\ pc' \in {"grace", "lock"}
    BY <1>2b DEF CheckFlag, SetLocked
  <2> QED BY <2>1
<1>3. CASE CheckGrace
  BY <1>3 DEF CheckGrace, NotYet
<1>4. CASE CheckInhibitors \/ CheckCalls \/ Suspend
  BY <1>4 DEF CheckInhibitors, CheckCalls, Suspend
<1>5. CASE ReadCount \/ WriteCount
  <2>1. CASE HandshakeFails
    <3>1. Due' = 1 /\ upFor' = 0
      BY <2>1 DEF HandshakeFails, RestBegins, Due
    <3> QED BY <1>5, <2>1, <3>1 DEF ReadCount, WriteCount, HandshakeFails
  <2>2. CASE UNCHANGED <<awakeLeft, last, upFor>>
    BY <1>5, <2>2 DEF ReadCount, WriteCount
  <2> QED BY <1>5, <2>1, <2>2 DEF ReadCount, WriteCount
<1>6. CASE SuspendFails
  <2>1. /\ awakeLeft' = failBackoff /\ failBackoff' = NextBackoff(failBackoff)
        /\ last' = "failed" /\ upFor' = 0 /\ streak' = Lower(Len(Rests), streak + 1)
        /\ offFor' = offFor /\ dark' = dark /\ pc' = "display"
    BY <1>6 DEF SuspendFails, RestBegins
  <2>2. streak' \in 1 .. Len(Rests) /\ failBackoff = Rests[streak']
    BY <2>1 DEF Lower
  <2>4. failBackoff' = Rests[Lower(Len(Rests), streak' + 1)]
    <3>1. CASE streak' = Len(Rests)
      <4>1. failBackoff = MaxBackoff /\ Lower(Len(Rests), streak' + 1) = Len(Rests)
        BY <2>2, <3>1, RestsType DEF Lower
      <4> QED BY <2>1, <4>1, RestsType DEF NextBackoff, Lower
    <3>2. CASE streak' \in 1 .. Len(Rests) - 1
      <4>1. Rests[streak' + 1] = NextBackoff(Rests[streak']) /\ Lower(Len(Rests), streak' + 1) = streak' + 1
        BY <3>2, RestsType DEF Lower
      <4> QED BY <2>1, <2>2, <4>1
    <3> QED BY <2>2, <3>1, <3>2
  <2>5. Due' = Rests[streak']
    BY <2>1 DEF Due
  <2> QED BY <2>1, <2>2, <2>4, <2>5
<1>7. CASE Sleep
  BY <1>7 DEF Sleep, Lower
<1>8. CASE RtcWake \/ EventWake
  <2>1. PICK net \in BOOLEAN : Resume(net)
    BY <1>8 DEF RtcWake, EventWake
  <2>2. /\ awakeLeft' = IF net THEN NetAwakeS ELSE AwakeS
        /\ last' = IF net THEN "net" ELSE "resume"
        /\ upFor' = 0 /\ streak' = 0 /\ failBackoff' = FirstBackoff
        /\ offFor' = offFor /\ dark' = dark /\ pc' = "display"
    BY <2>1 DEF Resume, RestBegins
  <2>3. Due' = awakeLeft'
    BY <2>2 DEF Due
  <2> QED BY <2>2, <2>3 DEF Lower
<1>9. CASE Environment
  BY <1>9 DEF Environment, OffWritesFlag, OffSetsGovernor, On, Display, Inhibit, Call,
              Usb, EventBegins, EventEnds
<1>10. CASE UNCHANGED vars
  BY <1>10 DEF vars
<1> QED
  BY <1>1, <1>2, <1>3, <1>4, <1>5, <1>6, <1>7, <1>8, <1>9, <1>10, <1>2a, <1>2b DEF Next, Loop

LEMMA EventStep ==
    NoEventSleptOn /\ CheckIsOn /\ [Next]_vars => NoEventSleptOn' /\ CheckIsOn'
<1> SUFFICES ASSUME NoEventSleptOn, CheckIsOn, [Next]_vars
             PROVE  NoEventSleptOn' /\ CheckIsOn'
  OBVIOUS
<1> USE DEF NoEventSleptOn, CheckIsOn, InProgress
<1>1. CASE Suspend
  BY <1>1 DEF Suspend, WakeupPending
<1>2. CASE ReadCount \/ WriteCount
  BY <1>2 DEF ReadCount, WriteCount, HandshakeFails
<1>3. CASE Start \/ Terminate \/ Crash
  BY <1>3 DEF Start, Terminate, Crash
<1>4. CASE ScreenOn \/ ScreenOff \/ CheckFlag \/ SetLocked \/ Sleep \/ SuspendFails
  BY <1>4 DEF ScreenOn, ScreenOff, CheckFlag, SetLocked, Sleep, SuspendFails
<1>5. CASE CheckGrace \/ CheckInhibitors \/ CheckCalls
  BY <1>5 DEF CheckGrace, CheckInhibitors, CheckCalls
<1>6. CASE RtcWake \/ EventWake
  BY <1>6 DEF RtcWake, EventWake, Resume
<1>7. CASE Environment
  BY <1>7 DEF Environment, OffWritesFlag, OffSetsGovernor, On, Display, Inhibit, Call,
              Usb, EventBegins, EventEnds, Running
<1>8. CASE UNCHANGED vars
  BY <1>8 DEF vars
<1> QED
  BY <1>1, <1>2, <1>3, <1>4, <1>5, <1>6, <1>7, <1>8 DEF Next, Loop

\* The count of late suspends: PastOK gives its type.
LEMMA LateStep == PastOK /\ LateInv /\ [Next]_vars => LateInv'
<1> SUFFICES ASSUME PastOK, LateInv, [Next]_vars PROVE LateInv'
  OBVIOUS
<1> USE DEF LateInv, OneLateSuspend, LateAgrees, Causes, Holds, SawOff, SawUnset
<1>0. late \in [{"screen", "flag"} -> Nat]
  BY DEF PastOK
<1>1. CASE Suspend
  BY <1>0, <1>1 DEF Suspend
<1>2. CASE ScreenOn \/ ScreenOff \/ CheckFlag \/ SetLocked \/ Sleep \/ SuspendFails
  BY <1>2 DEF ScreenOn, ScreenOff, CheckFlag, SetLocked, Sleep, SuspendFails
<1>3. CASE CheckGrace \/ CheckInhibitors \/ CheckCalls
  BY <1>3 DEF CheckGrace, CheckInhibitors, CheckCalls, Inhibited
<1>4. CASE ReadCount \/ WriteCount
  BY <1>4 DEF ReadCount, WriteCount, HandshakeFails
<1>5. CASE Start \/ Terminate \/ Crash
  BY <1>5 DEF Start, Terminate, Crash, Reset
<1>6. CASE RtcWake \/ EventWake
  BY <1>6 DEF RtcWake, EventWake, Resume
<1>7. CASE OffWritesFlag \/ OffSetsGovernor \/ On \/ Display
  BY <1>0, <1>7 DEF OffWritesFlag, OffSetsGovernor, On, Display
<1>8. CASE Inhibit \/ Call \/ Usb \/ EventBegins \/ EventEnds
  BY <1>8 DEF Inhibit, Call, Usb, EventBegins, EventEnds
<1>9. CASE UNCHANGED vars
  BY <1>9 DEF vars
<1> QED
  BY <1>1, <1>2, <1>3, <1>4, <1>5, <1>6, <1>7, <1>8, <1>9 DEF Next, Loop, Environment

LEMMA Invariance == Spec => []IInv
<1>1. IInv /\ [Next]_vars => IInv'
  BY SwitchesStep, ModesStep, TimesStep, PastStep, AgreeStep, EventStep, LateStep
  DEF IInv, RestInv, Agree, EventInv
<1> QED BY InitIInv, <1>1, PTL DEF Spec

\* The types of the daemon's state, the bound of the failure backoff included.
THEOREM TypeCorrect == Spec => []TypeOK
<1>1. IInv => TypeOK  BY DEF IInv, RestInv, TypeOK
<1> QED BY Invariance, <1>1, PTL

\* A suspend that went through with the wakeup_count handshake slept on no
\* wakeup event, whatever ran between the handshake and the suspend.
THEOREM EventsAreNotSleptOn == Spec => []NoEventSleptOn
<1>1. IInv => NoEventSleptOn  BY DEF IInv, EventInv
<1> QED BY Invariance, <1>1, PTL

\* A suspend is tried only after lock_grace_s of polls that saw the screen off and
\* after the rest due since the last resume, lost handshake or failed suspend, the
\* rests doubling with the failures in a row: for any times, on any history.
THEOREM SleepIsRested == Spec => []RestedBeforeSleep
<1>1. IInv => RestedBeforeSleep
  <2>1. ASSUME RestInv, pc = "suspend" PROVE dark = Grace /\ upFor = Due
    <3>1. Due \in Nat
      BY <2>1, DueType DEF RestInv
    <3> QED BY <2>1, <3>1 DEF RestInv, TimesOK, PastOK, PastGrace, Committed, AwakeAgrees, OffAgrees
  <2> QED BY <2>1 DEF IInv, RestedBeforeSleep
<1> QED BY Invariance, <1>1, PTL

\* A phone whose screen stays on, or whose disable flag stays set, is suspended at
\* most once more, whatever the display and the commands do between the reads.
THEOREM LateOnce == Spec => []OneLateSuspend
<1>1. IInv => OneLateSuspend  BY DEF IInv, LateInv
<1> QED BY Invariance, <1>1, PTL

-----------------------------------------------------------------------------
(* The Wi-Fi saver, for any times and any number of kills and commands.    *)

\* Where the daemon of the saver is.
At(labels) == place["daemon"] \in labels

\* The daemon gives back or tries again only what it knows to be parked.
ParkedAt == At({"unpark", "discover", "window", "finish", "again"}) => parked
\* The two commands of an unpark, when they succeed, bring the radio back in turn.
BackInTurn == fails = 0 => (At({"reconnect"}) => link) /\ (At({"record"}) => Works)
\* As long as no command was given the file knows all that the daemon does.
FileKnows == clis = 0 => (parked => file) /\ place["cli"] = "idle"
\* Without kills there is nothing to recover at the start.
NothingToRecover ==
    kills = 0 /\ cuts = 0 /\ fails = 0 =>
        ~At({"recover"}) /\ (At({"down"}) => ~file) /\ (At({"reconnect", "record"}) => parked)
\* The method is chosen before the record.
MethodChosen == At({"parking"}) => method # "none"

SaverInv ==
    /\ SaverTypeOK /\ MethodChosen
    /\ ParkedAt /\ BackInTurn /\ FileKnows /\ NothingToRecover /\ ParkedIsKnown

USE SaverAssumption
USE DEF memory, radio, world, files, budget, saverVars,
        Processes, Methods, Works, Goes

\* The types, in three parts.
SaverNumbers ==
    /\ eligibleFor \in -1 .. SaverGrace /\ discoverIn \in 0 .. Every /\ windowLeft \in -1 .. Window
    /\ kills \in 0 .. MaxKills /\ cuts \in 0 .. MaxCuts /\ fails \in 0 .. MaxFails
    /\ clis \in 0 .. MaxClis /\ edits \in 0 .. MaxEdits
SaverModes ==
    /\ cfgMethod \in Methods /\ method \in Methods \cup {"none"}
    /\ seen \in {"wifi", "mobile", "none"} /\ screen \in {"on", "off"}
    /\ (parked => method # "none")
SaverFlags ==
    /\ paused \in BOOLEAN /\ barred \in BOOLEAN /\ file \in BOOLEAN /\ parked \in BOOLEAN
    /\ wpa \in BOOLEAN /\ link \in BOOLEAN /\ assoc \in BOOLEAN
    /\ known \in BOOLEAN /\ mobile \in BOOLEAN
Connected == assoc => Works /\ known

LEMMA SaverTypes ==
    SaverTypeOK <=> place \in [Processes -> Labels] 
                    /\ SaverNumbers /\ SaverModes /\ SaverFlags /\ Connected
BY DEF SaverTypeOK, SaverNumbers, SaverModes, SaverFlags, Connected

LEMMA InitSaver ==
    ASSUME SaverInit  PROVE SaverInv
<1>1. place["daemon"] = "down" /\ place["cli"] = "idle" /\ place \in [Processes -> Labels]
  BY DEF SaverInit, Labels
<1>2. SaverNumbers  BY DEF SaverInit, SaverNumbers
<1>3. SaverModes /\ SaverFlags /\ Connected  BY DEF SaverInit, SaverModes, SaverFlags, Connected
<1>4. SaverTypeOK  BY <1>1, <1>2, <1>3, SaverTypes
<1> QED
  BY <1>1, <1>4
  DEF SaverInv, SaverInit, MethodChosen, ParkedAt, BackInTurn, FileKnows, NothingToRecover,
      ParkedIsKnown, At

\* The types of the places.
LEMMA SaverPlacesStep ==
    ASSUME SaverTypeOK, [SaverNext]_saverVars
    PROVE  place' \in [Processes -> Labels]
<1> USE DEF SaverTypeOK, Labels
<1>1. ASSUME NEW p \in Processes, UnparkLink(p) \/ UnparkReconnect(p) \/ UnparkRecord(p)
      PROVE  place' \in [Processes -> Labels]
  BY <1>1 DEF UnparkLink, UnparkReconnect, UnparkRecord, Command,
              AfterUnpark, Raised
<1>2. CASE RecoverAtStart \/ Sample \/ Step
  BY <1>2 DEF RecoverAtStart, Sample, Step, NotEligible, Unparked, Parked
<1>3. CASE Park \/ ParkRecord \/ Discover \/ OpenWindow
  BY <1>3 DEF Park, ParkRecord, Discover, OpenWindow, Command
<1>4. CASE Finish \/ FinishRecord \/ PollWait
  BY <1>4 DEF Finish, FinishRecord, PollWait, Command
<1>5. CASE Kill \/ Term \/ CliOff \/ CliReads
  BY <1>5 DEF Kill, Term, CliOff, CliReads
<1>6. CASE \/ CliOn \/ Edit \/ Associate \/ Move \/ Mobile \/ Screen
           \/ UNCHANGED saverVars
  BY <1>6 DEF CliOn, Edit, Associate, Move, Mobile, Screen
<1> QED BY <1>1, <1>2, <1>3, <1>4, <1>5, <1>6 DEF SaverNext, DaemonStep, CliStep

LEMMA SaverNumbersStep ==
    ASSUME SaverNumbers, [SaverNext]_saverVars
    PROVE  SaverNumbers'
<1> USE DEF SaverNumbers
<1>1. ASSUME NEW p \in Processes, UnparkLink(p) \/ UnparkReconnect(p) \/ UnparkRecord(p)
      PROVE  SaverNumbers'
  BY <1>1 DEF UnparkLink, UnparkReconnect, UnparkRecord, Command, Fail
<1>2. CASE RecoverAtStart \/ Sample \/ Step
  BY <1>2 DEF RecoverAtStart, Sample, Step, NotEligible, Unparked, Parked
<1>3. CASE Park \/ ParkRecord \/ Discover \/ OpenWindow
  BY <1>3 DEF Park, ParkRecord, Discover, OpenWindow, Command, Fail
<1>4. CASE Finish \/ FinishRecord \/ PollWait
  BY <1>4 DEF Finish, FinishRecord, PollWait, Command, Fail, Down
<1>5. CASE Kill \/ Term
  BY <1>5 DEF Kill, Term, Stop, Forgotten
<1>6. CASE CliOff \/ CliReads \/ CliOn \/ Edit
  BY <1>6 DEF CliOff, CliReads, CliOn, Edit, Cli
<1>7. CASE \/ Associate \/ Move \/ Mobile \/ Screen \/ UNCHANGED saverVars
  BY <1>7 DEF Associate, Move, Mobile, Screen
<1> QED BY <1>1, <1>2, <1>3, <1>4, <1>5, <1>6, <1>7 DEF SaverNext, DaemonStep, CliStep

LEMMA SaverModesStep ==
    ASSUME SaverModes, MethodChosen, [SaverNext]_saverVars
    PROVE  SaverModes'
<1> USE DEF SaverModes
<1>1. ASSUME NEW p \in Processes, UnparkLink(p) \/ UnparkReconnect(p) \/ UnparkRecord(p)
      PROVE  SaverModes'
  BY <1>1 DEF UnparkLink, UnparkReconnect, UnparkRecord, Command,
              LinkUp, Reconnect
<1>2. CASE RecoverAtStart \/ Sample \/ Step
  BY <1>2 DEF RecoverAtStart, Sample, Step
<1>3. CASE Park \/ ParkRecord \/ Discover \/ OpenWindow
  BY <1>3 DEF Park, ParkRecord, Discover, OpenWindow, Command,
              LinkDown, LinkUp, Disconnect, MethodChosen, At
<1>4. CASE Finish \/ FinishRecord \/ PollWait
  BY <1>4 DEF Finish, FinishRecord, PollWait, Command, LinkDown, Disconnect
<1>5. CASE Kill \/ Term
  BY <1>5 DEF Kill, Term, Forgotten
<1>6. CASE CliOff \/ CliReads \/ CliOn \/ Edit
  BY <1>6 DEF CliOff, CliReads, CliOn, Edit
<1>7. CASE \/ Associate \/ Move \/ Mobile \/ Screen \/ UNCHANGED saverVars
  BY <1>7 DEF Associate, Move, Mobile, Screen
<1> QED BY <1>1, <1>2, <1>3, <1>4, <1>5, <1>6, <1>7 DEF SaverNext, DaemonStep, CliStep

LEMMA SaverFlagsStep ==
    ASSUME SaverFlags, [SaverNext]_saverVars
    PROVE  SaverFlags'
<1> USE DEF SaverFlags
<1>1. ASSUME NEW p \in Processes, UnparkLink(p) \/ UnparkReconnect(p) \/ UnparkRecord(p)
      PROVE  SaverFlags'
  BY <1>1 DEF UnparkLink, UnparkReconnect, UnparkRecord, Command,
              LinkUp, Reconnect
<1>2. CASE RecoverAtStart \/ Sample \/ Step
  BY <1>2 DEF RecoverAtStart, Sample, Step
<1>3. CASE Park \/ ParkRecord \/ Discover \/ OpenWindow
  BY <1>3 DEF Park, ParkRecord, Discover, OpenWindow, Command,
              LinkDown, LinkUp, Disconnect
<1>4. CASE Finish \/ FinishRecord \/ PollWait
  BY <1>4 DEF Finish, FinishRecord, PollWait, Command, LinkDown, Disconnect
<1>5. CASE Kill \/ Term
  BY <1>5 DEF Kill, Term, Forgotten
<1>6. CASE CliOff \/ CliReads \/ CliOn \/ Edit
  BY <1>6 DEF CliOff, CliReads, CliOn, Edit
<1>7. CASE \/ Associate \/ Move \/ Mobile \/ Screen \/ UNCHANGED saverVars
  BY <1>7 DEF Associate, Move, Mobile, Screen
<1> QED BY <1>1, <1>2, <1>3, <1>4, <1>5, <1>6, <1>7 DEF SaverNext, DaemonStep, CliStep

LEMMA SaverConnectedStep ==
    ASSUME Connected, [SaverNext]_saverVars
    PROVE  Connected'
<1> USE DEF Connected
<1>1. ASSUME NEW p \in Processes, UnparkLink(p) \/ UnparkReconnect(p) \/ UnparkRecord(p)
      PROVE  Connected'
  BY <1>1 DEF UnparkLink, UnparkReconnect, UnparkRecord, Command,
              LinkUp, Reconnect
<1>2. CASE RecoverAtStart \/ Sample \/ Step
  BY <1>2 DEF RecoverAtStart, Sample, Step
<1>3. CASE Park \/ ParkRecord \/ Discover \/ OpenWindow
  BY <1>3 DEF Park, ParkRecord, Discover, OpenWindow, Command,
              LinkDown, LinkUp, Disconnect
<1>4. CASE Finish \/ FinishRecord \/ PollWait
  BY <1>4 DEF Finish, FinishRecord, PollWait, Command, LinkDown, Disconnect
<1>5. CASE Kill \/ Term
  BY <1>5 DEF Kill, Term, Forgotten
<1>6. CASE CliOff \/ CliReads \/ CliOn \/ Edit
  BY <1>6 DEF CliOff, CliReads, CliOn, Edit
<1>7. CASE \/ Associate \/ Move \/ Mobile \/ Screen \/ UNCHANGED saverVars
  BY <1>7 DEF Associate, Move, Mobile, Screen
<1> QED BY <1>1, <1>2, <1>3, <1>4, <1>5, <1>6, <1>7 DEF SaverNext, DaemonStep, CliStep

\* Sound behaviours stay so only by staying without failures and cuts.
LEMMA SoundBefore ==
    ASSUME SaverNumbers, [SaverNext]_saverVars
    PROVE  /\ kills' = 0 => kills = 0 /\ UNCHANGED kills
           /\ cuts' = 0 => cuts = 0 /\ UNCHANGED cuts
           /\ fails' = 0 => fails = 0 /\ UNCHANGED fails
           /\ clis' = 0 => clis = 0 /\ UNCHANGED clis
           /\ Sound' => Sound
<1> DEFINE Counted ==
             /\ kills' \in {kills, kills + 1} /\ cuts' \in {cuts, cuts + 1}
             /\ fails' \in {fails, fails + 1} /\ clis' \in {clis, clis + 1}
<1>0. Counted
  <2>1. ASSUME NEW p \in Processes, UnparkLink(p) \/ UnparkReconnect(p) \/ UnparkRecord(p)
        PROVE  Counted
    BY <2>1 DEF UnparkLink, UnparkReconnect, UnparkRecord, Command, Fail
  <2>2. CASE RecoverAtStart \/ Sample \/ Step \/ ParkRecord \/ OpenWindow
    BY <2>2 DEF RecoverAtStart, Sample, Step, ParkRecord, OpenWindow
  <2>3. CASE Park \/ Discover \/ Finish
    BY <2>3 DEF Park, Discover, Finish, Command, Fail
  <2>4. CASE FinishRecord \/ PollWait
    BY <2>4 DEF FinishRecord, PollWait
  <2>5. CASE Kill \/ Term
    BY <2>5 DEF Kill, Term, Stop
  <2>6. CASE CliOff \/ CliReads \/ CliOn \/ Edit
    BY <2>6 DEF CliOff, CliReads, CliOn, Edit, Cli
  <2>7. CASE \/ Associate \/ Move \/ Mobile \/ Screen \/ UNCHANGED saverVars
    BY <2>7 DEF Associate, Move, Mobile, Screen
  <2> QED BY <2>1, <2>2, <2>3, <2>4, <2>5, <2>6, <2>7 DEF SaverNext, DaemonStep, CliStep
<1> QED BY <1>0 DEF SaverNumbers, Sound

\* The conjuncts that say where the daemon is and what is known there.
SaverControl == MethodChosen /\ ParkedAt /\ BackInTurn /\ FileKnows /\ NothingToRecover /\ ParkedIsKnown

LEMMA SaverControlStep ==
    ASSUME SaverInv, [SaverNext]_saverVars
    PROVE  SaverControl'
<1>0. SaverNumbers /\ place \in [Processes -> Labels] /\ SaverModes
  BY SaverTypes DEF SaverInv
<1>s. /\ kills' = 0 => kills = 0 /\ UNCHANGED kills
      /\ cuts' = 0 => cuts = 0 /\ UNCHANGED cuts
      /\ fails' = 0 => fails = 0 /\ UNCHANGED fails
      /\ clis' = 0 => clis = 0 /\ UNCHANGED clis
      /\ Sound' => Sound
  BY <1>0, SoundBefore
<1>c. SaverControl  BY DEF SaverInv, SaverControl
<1> USE <1>0, <1>s, <1>c
<1> USE DEF SaverControl, MethodChosen, ParkedAt, BackInTurn, FileKnows, NothingToRecover,
            ParkedIsKnown, Sound, At
<1>1. CASE RecoverAtStart  BY <1>1 DEF RecoverAtStart
<1>2. CASE Sample  BY <1>2 DEF Sample
<1>3. CASE Step
  BY <1>3 DEF Step, NotEligible, Unparked, Parked
<1>4. CASE Park
  BY <1>4 DEF Park, Command, Fail, LinkDown, Disconnect, SaverModes, SaverNumbers
<1>5. CASE ParkRecord \/ OpenWindow
  BY <1>5 DEF ParkRecord, OpenWindow
<1>6. CASE Discover
  BY <1>6 DEF Discover, Command, Fail, LinkUp, SaverNumbers
<1>7. CASE Finish
  BY <1>7 DEF Finish, Command, Fail, LinkDown, Disconnect, SaverNumbers
<1>8. CASE FinishRecord \/ PollWait
  BY <1>8 DEF FinishRecord, PollWait
<1>9. CASE UnparkLink("daemon")
  BY <1>9 DEF UnparkLink, Command, Fail, LinkUp, Raised, SaverNumbers
<1>10. CASE UnparkReconnect("daemon")
  BY <1>10 DEF UnparkReconnect, Command, Fail, Reconnect, SaverNumbers
<1>11. CASE UnparkRecord("daemon")
  BY <1>11 DEF UnparkRecord, AfterUnpark
<1>12. CASE UnparkLink("cli")
  BY <1>12 DEF UnparkLink, Command, Fail, LinkUp, Raised, SaverNumbers
<1>13. CASE UnparkReconnect("cli")
  BY <1>13 DEF UnparkReconnect, Command, Fail, Reconnect, SaverNumbers
<1>14. CASE UnparkRecord("cli")
  BY <1>14 DEF UnparkRecord, AfterUnpark
<1>15. CASE Kill
  BY <1>15 DEF Kill, Stop, Forgotten, SaverNumbers
<1>16. CASE Term
  BY <1>16 DEF Term, Stop, Forgotten, SaverNumbers
<1>17. CASE CliOff
  BY <1>17 DEF CliOff, Cli, SaverNumbers
<1>18. CASE CliReads
  BY <1>18 DEF CliReads
<1>19. CASE CliOn \/ Edit
  BY <1>19 DEF CliOn, Edit, Cli, SaverNumbers
<1>20. CASE \/ Associate \/ Move \/ Mobile \/ Screen \/ UNCHANGED saverVars
  BY <1>20 DEF Associate, Move, Mobile, Screen
<1> QED
  BY <1>1, <1>2, <1>3, <1>4, <1>5, <1>6, <1>7, <1>8, <1>9, <1>10, <1>11, <1>12, <1>13, <1>14, <1>15,
     <1>16, <1>17, <1>18, <1>19, <1>20 DEF SaverNext, DaemonStep, CliStep

\* The saver keeps its types (a connected Wi-Fi is on and near a network, a parked one
\* has a method) and knows what it parked, through commands, kills and restarts.
THEOREM SaverInvariant == SaverSpec => []SaverInv
<1>1. SaverInit => SaverInv  BY InitSaver
<1>2. SaverInv /\ [SaverNext]_saverVars => SaverInv'
  <2> SUFFICES ASSUME SaverInv, [SaverNext]_saverVars PROVE SaverInv'  OBVIOUS
  <2>1. SaverNumbers /\ SaverModes /\ SaverFlags /\ Connected  BY SaverTypes DEF SaverInv
  <2>2. SaverNumbers'  BY <2>1, SaverNumbersStep
  <2>3. SaverModes'  BY <2>1, SaverModesStep DEF SaverInv
  <2>4. SaverFlags'  BY <2>1, SaverFlagsStep
  <2>5. Connected'  BY <2>1, SaverConnectedStep
  <2>6. place' \in [Processes -> Labels]  BY SaverPlacesStep DEF SaverInv
  <2>7. SaverTypeOK'
    BY <2>2, <2>3, <2>4, <2>5, <2>6 DEF SaverTypeOK, SaverNumbers, SaverModes, SaverFlags, Connected
  <2> QED BY <2>7, SaverControlStep DEF SaverInv, SaverControl
<1> QED BY <1>1, <1>2, PTL DEF SaverSpec

\* The safety half of "park ... unpark": as long as no command failed, no kill came between
\* a park and its record, and kills and commands do not meet, a Wi-Fi that was switched
\* off is known to the daemon or to the file from which saver_recover_at_start starts.
THEOREM ParkedStaysKnown == SaverSpec => []ParkedIsKnown
<1>1. SaverInv => ParkedIsKnown  BY DEF SaverInv
<1> QED BY <1>1, SaverInvariant, PTL
=============================================================================
