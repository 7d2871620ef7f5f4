------------------------- MODULE PhonedSweepProofs --------------------------
(***************************************************************************)
(* Proofs about incoming SMS: types, and that a part deleted from the SIM  *)
(* has its whole message in the inbox file, when slot reads are answered   *)
(* in time and inbox writes do not fail.  Neither assumption can be        *)
(* dropped: TLC refutes it with MaxLate = 1 and with MaxFails = 1.  And,   *)
(* with any late answers and failed writes: sweeps store a record once,    *)
(* and what was acknowledged is held while the daemon runs and writes.     *)
(***************************************************************************)
EXTENDS PhonedSweep, TLAPS

\* Elementary facts about sequences over a set.
LEMMA SeqFacts ==
    ASSUME NEW S
    PROVE  /\ <<>> \in Seq(S)
           /\ \A s \in Seq(S), x \in S : Append(s, x) \in Seq(S)
           /\ \A s \in Seq(S) : s # <<>> => Head(s) \in S /\ Tail(s) \in Seq(S)
OBVIOUS

USE SweepAssumption
USE DEF vars, simVars, inboxVars, readerVars, sweepVars

\* The types by group; each group is disturbed by few actions.
SimOK ==
    /\ sim \in [Slots -> Parts \cup {Empty}] /\ got \in [Parts -> 0 .. MaxDeliver]
    /\ acked \subseteq Parts /\ gone \subseteq Parts
InboxOK == items \in Seq(Records) /\ disk \in Seq(Records)
ReaderOK ==
    /\ partials \subseteq Parts /\ first \in [Msgs -> Parts \cup {Empty}]
    /\ old \subseteq Records /\ rd \subseteq Records /\ ackq \subseteq Parts
CountsOK == fails \in 0 .. MaxFails /\ faults \in 0 .. MaxFaults /\ due \in Nat
SweepOK ==
    /\ w \in {"idle", "expire", "read", "unit", "put", "delete"} /\ idx \in 0 .. NSlots
    /\ found \in [Slots -> Parts \cup {Empty}] /\ unit \subseteq Slots
LateOK == late \in Seq(Parts \cup {Empty})
CopiedOK == copied \in BOOLEAN

LEMMA TypeParts ==
    TypeOK <=> SimOK /\ InboxOK /\ ReaderOK /\ CountsOK /\ SweepOK /\ LateOK /\ CopiedOK
BY DEF TypeOK, SimOK, InboxOK, ReaderOK, CountsOK, SweepOK, LateOK, CopiedOK

\* What the sweep's units are made of: slots read, with a part of a message.
LEMMA UnitsAreRead ==
    ASSUME SweepOK, NEW U \in Units
    PROVE  U # {} /\ U \subseteq Slots /\ \A i \in U : found[i] \in Parts
BY DEF SweepOK, Units, ConcatTodo, Todo, Lowest

\* A unit about to be stored is one whole message.
PutReady ==
    w = "put" => unit # {} /\ Complete(unit) /\ \A i \in unit : found[i] \in Parts

LEMMA PutReadyStable ==
    ASSUME PutReady, UNCHANGED <<w, unit, found>> PROVE PutReady'
BY DEF PutReady, Complete, UnitParts, PartsOf

LEMMA UnitRecordType ==
    ASSUME NEW U, U # {}, Complete(U), \A i \in U : found[i] \in Parts
    PROVE  UnitRecord(U) \in Records
<1>1. UnitParts(U) \subseteq Parts  BY DEF UnitParts
<1>2. PICK i \in U : TRUE  OBVIOUS
<1>3. PICK q \in Parts : MsgOf[q] = MsgOf[found[i]] /\ No[q] = 1  BY <1>2
<1>4. q \in UnitParts(U)  BY <1>2, <1>3 DEF Complete, PartsOf
<1>5. \A x \in UnitParts(U) : No[q] <= No[x]  BY <1>1, <1>3
<1>6. First(UnitParts(U)) \in UnitParts(U)  BY <1>4, <1>5 DEF First
<1>7. QED  BY <1>1, <1>6 DEF UnitRecord, Record, Records

LEMMA PutType ==
    ASSUME InboxOK, NEW r \in Records, PutOk(r) \/ PutFails(r)
    PROVE  InboxOK'
<1>1. Append(items, r) \in Seq(Records) /\ Append(disk, r) \in Seq(Records)
  BY SeqFacts DEF InboxOK
<1>2. items' = Append(items, r) /\ disk' \in {disk, Append(disk, r)}
  BY Zenon DEF PutOk, PutFails
<1>3. QED  BY <1>1, <1>2, Zenon DEF InboxOK

LEMMA PutCount ==
    ASSUME CountsOK, NEW r, PutOk(r) \/ PutFails(r)
    PROVE  fails' \in 0 .. MaxFails
BY DEF CountsOK, PutOk, PutFails

\* TypeOK is inductive together with PutReady: the record a sweep stores has a
\* first part only because its message is whole.
TypeInv == SimOK /\ InboxOK /\ ReaderOK /\ CountsOK /\ SweepOK /\ LateOK /\ CopiedOK /\ PutReady

LEMMA TypeInvInit == Init => TypeInv
<1> SUFFICES ASSUME Init PROVE TypeInv  OBVIOUS
<1>1. SimOK /\ ReaderOK /\ CountsOK /\ SweepOK  BY DEF Init, SimOK, ReaderOK, CountsOK, SweepOK, NoSlots
<1>2. InboxOK /\ LateOK  BY DEF Init, InboxOK, LateOK
<1>3. CopiedOK /\ PutReady  BY DEF Init, CopiedOK, PutReady
<1>4. QED  BY <1>1, <1>2, <1>3 DEF TypeInv

LEMMA TypeInvNext == TypeInv /\ [Next]_vars => TypeInv'
<1> SUFFICES ASSUME TypeInv, [Next]_vars PROVE TypeInv'  OBVIOUS
<1> USE DEF TypeInv
<1>1. ASSUME NEW p \in Parts, StoreOnSim(p)  PROVE TypeInv'
  <2>1. SimOK'  BY <1>1 DEF StoreOnSim, SimOK, Undelivered, FreeSlots
  <2>2. InboxOK'  BY <1>1 DEF StoreOnSim, InboxOK
  <2>3. ReaderOK'  BY <1>1 DEF StoreOnSim, ReaderOK
  <2>4. CountsOK'  BY <1>1 DEF StoreOnSim, CountsOK
  <2>5. SweepOK'  BY <1>1 DEF StoreOnSim, SweepOK, Undelivered, FreeSlots
  <2>6. LateOK'  BY <1>1 DEF StoreOnSim, LateOK
  <2>7. PutReady'  BY <1>1, PutReadyStable DEF StoreOnSim
  <2>8. CopiedOK'  BY <1>1 DEF StoreOnSim, CopiedOK
  <2>9. QED  BY <2>1, <2>2, <2>3, <2>4, <2>5, <2>6, <2>7, <2>8
<1>2. ASSUME NEW p \in Parts, NEW copy \in BOOLEAN, Incoming(p, copy)  PROVE TypeInv'
  <2>1. SimOK'  BY <1>2 DEF Incoming, SimOK, Undelivered, FreeSlots
  <2>2. InboxOK'  BY <1>2 DEF Incoming, InboxOK
  <2>3. ReaderOK'
    <3>1. CASE p \in Reports  BY <1>2, <3>1 DEF Incoming, ReaderOK
    <3>2. CASE p \notin Reports
      <4>1. OnDeliver(p)  BY <1>2, <3>2 DEF Incoming
      <4>2. QED  BY <1>2, <4>1 DEF Incoming, OnDeliver, ReaderOK, Waiting, PartsOf, Record, Records
    <3>3. QED  BY <3>1, <3>2
  <2>4. CountsOK'  BY <1>2 DEF Incoming, CountsOK
  <2>5. SweepOK'  BY <1>2 DEF Incoming, SweepOK, Undelivered, FreeSlots
  <2>6. LateOK'  BY <1>2 DEF Incoming, LateOK
  <2>7. PutReady'  BY <1>2, PutReadyStable DEF Incoming
  <2>8. CopiedOK'  BY <1>2 DEF Incoming, CopiedOK
  <2>9. QED  BY <2>1, <2>2, <2>3, <2>4, <2>5, <2>6, <2>7, <2>8
<1>3. CASE ReaderStores
  <2>1. SimOK'  BY <1>3 DEF ReaderStores, SimOK
  <2>2. PICK r \in rd : PutOk(r) \/ PutFails(r)  BY <1>3 DEF ReaderStores
  <2>3. InboxOK' /\ fails' \in 0 .. MaxFails  BY <2>2, PutType, PutCount DEF ReaderOK
  <2>4. ReaderOK'  BY <1>3 DEF ReaderStores, ReaderOK
  <2>5. CountsOK'  BY <1>3, <2>3 DEF ReaderStores, CountsOK
  <2>6. SweepOK'  BY <1>3 DEF ReaderStores, SweepOK
  <2>7. LateOK'  BY <1>3 DEF ReaderStores, LateOK
  <2>8. PutReady'  BY <1>3, PutReadyStable DEF ReaderStores
  <2>9. CopiedOK'  BY <1>3 DEF ReaderStores, CopiedOK
  <2>10. QED  BY <2>1, <2>3, <2>4, <2>5, <2>6, <2>7, <2>8, <2>9
<1>4. ASSUME NEW p \in Parts, Ack(p)  PROVE TypeInv'
  <2>1. SimOK'  BY <1>4 DEF Ack, SimOK
  <2>2. InboxOK'  BY <1>4 DEF Ack, InboxOK
  <2>3. ReaderOK'  BY <1>4 DEF Ack, ReaderOK
  <2>4. CountsOK'  BY <1>4 DEF Ack, CountsOK
  <2>5. SweepOK'  BY <1>4 DEF Ack, SweepOK
  <2>6. LateOK'  BY <1>4 DEF Ack, LateOK
  <2>7. PutReady'  BY <1>4, PutReadyStable DEF Ack
  <2>8. CopiedOK'  BY <1>4 DEF Ack, CopiedOK
  <2>9. QED  BY <2>1, <2>2, <2>3, <2>4, <2>5, <2>6, <2>7, <2>8
<1>5. ASSUME NEW M \in SUBSET Msgs, Expire(M)  PROVE TypeInv'
  <2>1. SimOK' /\ InboxOK' /\ CountsOK'  BY <1>5 DEF Expire, SimOK, InboxOK, CountsOK
  <2>2. \A m \in M : Expired(m) \in Records
    BY DEF ReaderOK, Expired, Waiting, Record, Records
  <2>3. ReaderOK'  BY <1>5, <2>2 DEF Expire, ReaderOK
  <2>4. SweepOK' /\ LateOK'  BY <1>5 DEF Expire, SweepOK, LateOK
  <2>5. PutReady'  BY <1>5 DEF Expire, PutReady
  <2>6. CopiedOK'  BY <1>5 DEF Expire, CopiedOK
  <2>7. QED  BY <2>1, <2>3, <2>4, <2>5, <2>6
<1>17. CASE ExpireStores
  <2>1. InboxOK' /\ fails' \in 0 .. MaxFails
    <3>1. CASE UNCHANGED inboxVars  BY <3>1 DEF InboxOK, CountsOK
    <3>2. CASE \E r \in old : PutOk(r) \/ PutFails(r)
      BY <3>2, PutType, PutCount DEF ReaderOK
    <3>3. QED  BY <1>17, <3>1, <3>2 DEF ExpireStores
  <2>2. SimOK'  BY <1>17 DEF ExpireStores, SimOK
  <2>3. CountsOK'  BY <1>17, <2>1 DEF ExpireStores, CountsOK
  <2>4. ReaderOK'  BY <1>17 DEF ExpireStores, ReaderOK
  <2>5. SweepOK' /\ LateOK'  BY <1>17 DEF ExpireStores, SweepOK, LateOK
  <2>6. PutReady'  BY <1>17 DEF ExpireStores, PutReady
  <2>7. CopiedOK'  BY <1>17 DEF ExpireStores, CopiedOK
  <2>8. QED  BY <2>1, <2>2, <2>3, <2>4, <2>5, <2>6, <2>7
<1>6. CASE StartSweep
  <2>1. SimOK'  BY <1>6 DEF StartSweep, SimOK, NoSlots
  <2>2. InboxOK'  BY <1>6 DEF StartSweep, InboxOK
  <2>3. ReaderOK'  BY <1>6 DEF StartSweep, ReaderOK
  <2>4. CountsOK'  BY <1>6 DEF StartSweep, CountsOK
  <2>5. SweepOK'  BY <1>6 DEF StartSweep, SweepOK, NoSlots
  <2>6. LateOK'  BY <1>6 DEF StartSweep, LateOK
  <2>7. PutReady'  BY <1>6 DEF StartSweep, PutReady
  <2>8. CopiedOK'  BY <1>6 DEF StartSweep, CopiedOK
  <2>9. QED  BY <2>1, <2>2, <2>3, <2>4, <2>5, <2>6, <2>7, <2>8
<1>7. CASE ReadSlot
  <2>1. SimOK'  BY <1>7 DEF ReadSlot, SimOK
  <2>2. InboxOK'  BY <1>7 DEF ReadSlot, InboxOK
  <2>3. ReaderOK'  BY <1>7 DEF ReadSlot, ReaderOK
  <2>4. CountsOK'  BY <1>7 DEF ReadSlot, CountsOK
  <2>5. SweepOK' /\ LateOK' /\ PutReady'
    <3>1. PICK coming \in {late, Append(late, sim[idx])} :
            \/ late' = coming /\ UNCHANGED found
            \/ /\ coming # <<>> /\ late' = Tail(coming)
               /\ found' = [found EXCEPT ![idx] = Head(coming)]
      BY <1>7 DEF ReadSlot
    <3>2. idx \in Slots  BY <1>7 DEF ReadSlot, SweepOK, Slots
    <3>3. sim[idx] \in Parts \cup {Empty}  BY <3>2 DEF SimOK
    <3>4. coming \in Seq(Parts \cup {Empty})  BY <3>3 DEF LateOK
    <3>5. LateOK'
      <4>1. coming # <<>> => Tail(coming) \in Seq(Parts \cup {Empty})  BY <3>4, SeqFacts, Zenon
      <4>2. QED  BY <3>1, <3>4, <4>1, Zenon DEF LateOK
    <3>6. coming # <<>> => Head(coming) \in Parts \cup {Empty}  BY <3>4
    <3>7. SweepOK'  BY <1>7, <3>1, <3>6 DEF ReadSlot, SweepOK
    <3>8. PutReady'  BY <1>7 DEF ReadSlot, PutReady
    <3>9. QED  BY <3>5, <3>7, <3>8
  <2>6. CopiedOK'  BY <1>7 DEF ReadSlot, CopiedOK
  <2>7. QED  BY <2>1, <2>2, <2>3, <2>4, <2>5, <2>6
<1>8. CASE LateFrame
  <2>1. SimOK'  BY <1>8 DEF LateFrame, SimOK
  <2>2. InboxOK'  BY <1>8 DEF LateFrame, InboxOK
  <2>3. ReaderOK'  BY <1>8 DEF LateFrame, ReaderOK
  <2>4. CountsOK'  BY <1>8 DEF LateFrame, CountsOK
  <2>5. SweepOK'  BY <1>8 DEF LateFrame, SweepOK
  <2>6. LateOK'  BY <1>8 DEF LateFrame, LateOK
  <2>7. PutReady'  BY <1>8, PutReadyStable DEF LateFrame
  <2>8. CopiedOK'  BY <1>8 DEF LateFrame, CopiedOK
  <2>9. QED  BY <2>1, <2>2, <2>3, <2>4, <2>5, <2>6, <2>7, <2>8
<1>9. CASE AllRead
  <2>1. SimOK'  BY <1>9 DEF AllRead, SimOK
  <2>2. InboxOK'  BY <1>9 DEF AllRead, InboxOK
  <2>3. ReaderOK'  BY <1>9 DEF AllRead, ReaderOK
  <2>4. CountsOK'  BY <1>9 DEF AllRead, CountsOK
  <2>5. SweepOK'  BY <1>9 DEF AllRead, SweepOK
  <2>6. LateOK'  BY <1>9 DEF AllRead, LateOK
  <2>7. PutReady'  BY <1>9 DEF AllRead, PutReady
  <2>8. CopiedOK'  BY <1>9 DEF AllRead, CopiedOK
  <2>9. QED  BY <2>1, <2>2, <2>3, <2>4, <2>5, <2>6, <2>7, <2>8
<1>10. CASE TakeUnit
  <2>1. SimOK'  BY <1>10 DEF TakeUnit, SimOK
  <2>2. InboxOK'  BY <1>10 DEF TakeUnit, InboxOK
  <2>3. ReaderOK'  BY <1>10 DEF TakeUnit, ReaderOK
  <2>4. CountsOK'  BY <1>10 DEF TakeUnit, CountsOK
  <2>5. SweepOK' /\ LateOK' /\ PutReady'
    <3>1. PICK U \in Units :
            \/ found' = [i \in Slots |-> IF i \in U THEN Empty ELSE found[i]] /\ UNCHANGED <<w, unit>>
            \/ /\ w' = "delete" /\ unit' = U
               /\ found' = [i \in Slots |-> IF i \in U THEN Empty ELSE found[i]]
            \/ Complete(U) /\ w' = "put" /\ unit' = U /\ UNCHANGED found
      BY <1>10 DEF TakeUnit
    <3>2. U # {} /\ U \subseteq Slots /\ \A i \in U : found[i] \in Parts  BY UnitsAreRead
    <3>3. SweepOK'  BY <1>10, <3>1, <3>2 DEF TakeUnit, SweepOK
    <3>4. LateOK'  BY <1>10 DEF TakeUnit, LateOK
    <3>5. PutReady'
      <4>1. CASE w' # "put"  BY <4>1 DEF PutReady
      <4>2. CASE w' = "put"
        <5>1. Complete(U) /\ unit' = U /\ UNCHANGED found  BY <1>10, <3>1, <4>2 DEF TakeUnit
        <5>2. Complete(unit)'  BY <5>1 DEF Complete, UnitParts
        <5>3. QED  BY <3>2, <5>1, <5>2 DEF PutReady
      <4>3. QED  BY <4>1, <4>2
    <3>6. QED  BY <3>3, <3>4, <3>5
  <2>6. CopiedOK'  BY <1>10 DEF TakeUnit, CopiedOK
  <2>7. QED  BY <2>1, <2>2, <2>3, <2>4, <2>5, <2>6
<1>11. CASE SweepStores
  <2>1. SimOK'  BY <1>11 DEF SweepStores, SimOK, AfterPut
  <2>2. UnitRecord(unit) \in Records  BY <1>11, UnitRecordType DEF SweepStores, PutReady
  <2>3. InboxOK' /\ fails' \in 0 .. MaxFails  BY <1>11, <2>2, PutType, PutCount DEF SweepStores
  <2>4. ReaderOK'  BY <1>11 DEF SweepStores, ReaderOK
  <2>5. CountsOK'  BY <1>11, <2>3 DEF SweepStores, CountsOK
  <2>6. SweepOK'  BY <1>11 DEF SweepStores, SweepOK, AfterPut
  <2>7. LateOK'  BY <1>11 DEF SweepStores, LateOK
  <2>8. PutReady'  BY <1>11 DEF SweepStores, PutReady, AfterPut
  <2>9. CopiedOK'  BY <1>11 DEF SweepStores, CopiedOK
  <2>10. QED  BY <2>1, <2>2, <2>3, <2>4, <2>5, <2>6, <2>7, <2>8, <2>9
<1>12. CASE Delete
  <2>1. SimOK'  BY <1>12 DEF Delete, SimOK, Lowest, SweepOK
  <2>2. InboxOK'  BY <1>12 DEF Delete, InboxOK
  <2>3. ReaderOK'  BY <1>12 DEF Delete, ReaderOK
  <2>4. CountsOK'  BY <1>12 DEF Delete, CountsOK
  <2>5. SweepOK'  BY <1>12 DEF Delete, SweepOK, Lowest
  <2>6. LateOK'  BY <1>12 DEF Delete, LateOK
  <2>7. PutReady'  BY <1>12 DEF Delete, PutReady
  <2>8. CopiedOK'  BY <1>12 DEF Delete, CopiedOK
  <2>9. QED  BY <2>1, <2>2, <2>3, <2>4, <2>5, <2>6, <2>7, <2>8
<1>13. CASE SweepEnds
  <2>1. SimOK'  BY <1>13 DEF SweepEnds, SimOK
  <2>2. InboxOK'  BY <1>13 DEF SweepEnds, InboxOK
  <2>3. ReaderOK'  BY <1>13 DEF SweepEnds, ReaderOK
  <2>4. CountsOK'  BY <1>13 DEF SweepEnds, CountsOK
  <2>5. SweepOK'  BY <1>13 DEF SweepEnds, SweepOK
  <2>6. LateOK'  BY <1>13 DEF SweepEnds, LateOK
  <2>7. PutReady'  BY <1>13 DEF SweepEnds, PutReady
  <2>8. CopiedOK'  BY <1>13 DEF SweepEnds, CopiedOK
  <2>9. QED  BY <2>1, <2>2, <2>3, <2>4, <2>5, <2>6, <2>7, <2>8
<1>14. CASE LinkLost
  <2>1. SimOK'  BY <1>14 DEF LinkLost, SimOK, NoSlots
  <2>2. InboxOK'  BY <1>14 DEF LinkLost, InboxOK
  <2>3. ReaderOK'  BY <1>14 DEF LinkLost, ReaderOK
  <2>4. CountsOK'  BY <1>14 DEF LinkLost, CountsOK
  <2>5. SweepOK'  BY <1>14 DEF LinkLost, SweepOK, NoSlots
  <2>6. LateOK'
    <3>1. late' = late \/ late' = <<>>  BY <1>14 DEF LinkLost
    <3>2. <<>> \in Seq(Parts \cup {Empty}) /\ late \in Seq(Parts \cup {Empty})
      BY SeqFacts DEF LateOK
    <3>3. CASE late' = late  BY <3>2, <3>3, Zenon DEF LateOK
    <3>4. CASE late' = <<>>  BY <3>2, <3>4, Zenon DEF LateOK
    <3>5. QED  BY <3>1, <3>3, <3>4
  <2>7. PutReady'  BY <1>14 DEF LinkLost, PutReady
  <2>8. CopiedOK'  BY <1>14 DEF LinkLost, CopiedOK
  <2>9. QED  BY <2>1, <2>2, <2>3, <2>4, <2>5, <2>6, <2>7, <2>8
<1>15. CASE Crash
  <2>1. SimOK'  BY <1>15 DEF Crash, SimOK, NoSlots
  <2>2. InboxOK'  BY <1>15 DEF Crash, InboxOK
  <2>3. ReaderOK'  BY <1>15 DEF Crash, ReaderOK
  <2>4. CountsOK'  BY <1>15 DEF Crash, CountsOK
  <2>5. SweepOK'  BY <1>15 DEF Crash, SweepOK, NoSlots
  <2>6. LateOK'  BY <1>15 DEF Crash, LateOK
  <2>7. PutReady'  BY <1>15 DEF Crash, PutReady
  <2>8. CopiedOK'  BY <1>15 DEF Crash, CopiedOK
  <2>9. QED  BY <2>1, <2>2, <2>3, <2>4, <2>5, <2>6, <2>7, <2>8
<1>16. CASE UNCHANGED vars
  <2>1. SimOK' /\ InboxOK' /\ ReaderOK' /\ CountsOK' /\ SweepOK' /\ LateOK' /\ CopiedOK'
    BY <1>16 DEF SimOK, InboxOK, ReaderOK, CountsOK, SweepOK, LateOK, CopiedOK
  <2>2. PutReady'  BY <1>16, PutReadyStable
  <2>3. QED  BY <2>1, <2>2
<1>18. QED
  BY <1>17, <1>1, <1>2, <1>3, <1>4, <1>5, <1>6, <1>7, <1>8, <1>9, <1>10, <1>11, <1>12, <1>13, <1>14, <1>15, <1>16
  DEF Next, Network, Sweep

\* The daemon's data keep their types whatever the network, the SIM and the disk
\* do, for any number of slots and messages.
THEOREM TypeCorrect == Spec => []TypeOK
<1>1. TypeInv => TypeOK  BY TypeParts DEF TypeInv
<1>2. QED  BY <1>1, TypeInvInit, TypeInvNext, PTL DEF Spec
-----------------------------------------------------------------------------
(* With slot reads answered in time and no failed write, memory and file   *)
(* agree, what was read from a slot is still in it, and the slots to be    *)
(* deleted hold parts of a message that is in the file.                    *)

Filed(d, p) == \E k \in DOMAIN d : PartsOf(MsgOf[p]) \subseteq d[k].parts

Prompt == late = <<>> /\ items = disk
FoundIsThere == \A i \in Slots : found[i] # Empty => found[i] = sim[i]
PutIsFound == w = "put" => \A i \in unit : found[i] # Empty
DoomedIsFiled ==
    w = "delete" => \A i \in unit : /\ found[i] = Empty /\ sim[i] \in Parts
                                    /\ sim[i] \in Reports \/ Filed(disk, sim[i])
KeptInv == Prompt /\ FoundIsThere /\ PutIsFound /\ DoomedIsFiled /\ DeletedIsInFile

\* The file only grows.
LEMMA FiledStays ==
    ASSUME InboxOK, NEW p, Filed(disk, p),
           disk' = disk \/ \E r \in Records : disk' = Append(disk, r)
    PROVE  Filed(disk', p)
<1>1. CASE disk' = disk  BY <1>1 DEF Filed
<1>2. ASSUME NEW r \in Records, disk' = Append(disk, r)  PROVE Filed(disk', p)
  <2>1. PICK k \in DOMAIN disk : PartsOf(MsgOf[p]) \subseteq disk[k].parts  BY DEF Filed
  <2>2. k \in DOMAIN disk' /\ disk'[k] = disk[k]  BY <1>2, <2>1 DEF InboxOK
  <2>3. QED  BY <2>1, <2>2 DEF Filed
<1>3. QED  BY <1>1, <1>2

\* What every step does to the inbox: one record is appended, to the file too
\* unless the write fails, or a restart reads the file back.
InboxStep ==
    /\ disk' = disk \/ \E r \in Records : disk' = Append(disk, r)
    /\ MaxFails = 0 /\ items = disk => items' = disk'

LEMMA InboxSteps ==
    ASSUME TypeInv, [Next]_vars
    PROVE  InboxStep
<1> USE DEF TypeInv
<1>1. ASSUME NEW r \in Records, PutOk(r) \/ PutFails(r)  PROVE InboxStep
  BY <1>1 DEF InboxStep, PutOk, PutFails, CountsOK
<1>0. CASE UNCHANGED <<items, disk>>  BY <1>0 DEF InboxStep
<1>5. CASE Crash  BY <1>5 DEF Crash, InboxStep
<1>2. CASE ReaderStores
  <2>1. PICK r \in rd : PutOk(r) \/ PutFails(r)  BY <1>2 DEF ReaderStores
  <2>2. QED  BY <1>1, <2>1 DEF ReaderOK
<1>3. CASE ExpireStores
  <2>1. CASE UNCHANGED inboxVars  BY <1>0, <2>1
  <2>2. CASE \E r \in old : PutOk(r) \/ PutFails(r)  BY <1>1, <2>2 DEF ReaderOK
  <2>3. QED  BY <1>3, <2>1, <2>2 DEF ExpireStores
<1>4. CASE SweepStores
  <2>1. UnitRecord(unit) \in Records  BY <1>4, UnitRecordType DEF SweepStores, PutReady
  <2>2. QED  BY <1>1, <1>4, <2>1 DEF SweepStores
<1>6. CASE Network \/ (\E p \in Parts : Ack(p)) \/ (\E M \in SUBSET Msgs : Expire(M))
  BY <1>0, <1>6 DEF Network, StoreOnSim, Incoming, Ack, Expire
<1>7. CASE StartSweep \/ ReadSlot \/ AllRead \/ TakeUnit \/ Delete \/ SweepEnds
  BY <1>0, <1>7 DEF StartSweep, ReadSlot, AllRead, TakeUnit, Delete, SweepEnds
<1>8. CASE LateFrame \/ LinkLost \/ UNCHANGED vars  BY <1>0, <1>8 DEF LateFrame, LinkLost
<1>9. QED  BY <1>2, <1>3, <1>4, <1>5, <1>6, <1>7, <1>8 DEF Next, Sweep

\* A record in memory is in the file, so a unit already there may be deleted.
LEMMA StoredIsFiled ==
    ASSUME Prompt, NEW U, Complete(U), InboxHas(UnitRecord(U)), NEW i \in U
    PROVE  Filed(disk, found[i])
BY DEF Prompt, Complete, InboxHas, UnitRecord, Record, Filed

LEMMA KeptNext ==
    ASSUME MaxLate = 0, MaxFails = 0, TypeInv, TypeInv', KeptInv, [Next]_vars
    PROVE  KeptInv'
<1> USE DEF TypeInv, KeptInv
<1>1. Prompt'
  <2>1. items' = disk'  BY InboxSteps DEF Prompt, InboxStep
  <2>2. late' = <<>>
    <3>1. CASE ReadSlot
      <4>1. late' \in Seq(Parts \cup {Empty}) /\ Len(late') <= 0
        BY <3>1 DEF ReadSlot, LateOK
      <4>2. QED  BY <4>1
    <3>2. CASE ~ReadSlot
      BY <3>2 DEF Prompt, Next, Network, Sweep, StoreOnSim, Incoming, ReaderStores, Ack, Expire,
         ExpireStores, StartSweep, LateFrame, AllRead, TakeUnit, SweepStores, Delete, SweepEnds, LinkLost, Crash
    <3>3. QED  BY <3>1, <3>2
  <2>3. QED  BY <2>1, <2>2 DEF Prompt
<1>2. \A p : Filed(disk, p) => Filed(disk', p)  BY InboxSteps, FiledStays DEF InboxStep
<1>3. ASSUME UNCHANGED <<found, unit, w, gone>>,
             \A i \in Slots : sim[i] # Empty => sim'[i] = sim[i]
      PROVE  KeptInv'
  <2>1. FoundIsThere' /\ PutIsFound'  BY <1>3 DEF FoundIsThere, PutIsFound
  <2>2. DoomedIsFiled'  BY <1>2, <1>3 DEF DoomedIsFiled, SweepOK
  <2>3. DeletedIsInFile'  BY <1>2, <1>3 DEF DeletedIsInFile, Filed
  <2>4. QED  BY <1>1, <2>1, <2>2, <2>3
<1>4. ASSUME NEW p \in Parts, StoreOnSim(p)  PROVE KeptInv'
  BY <1>3, <1>4 DEF StoreOnSim, FreeSlots, SimOK
<1>5. ASSUME NEW p \in Parts, NEW copy \in BOOLEAN, Incoming(p, copy)  PROVE KeptInv'
  BY <1>3, <1>5 DEF Incoming, FreeSlots, SimOK
<1>6. CASE ReaderStores  BY <1>3, <1>6 DEF ReaderStores
<1>7. ASSUME NEW p \in Parts, Ack(p)  PROVE KeptInv'  BY <1>3, <1>7 DEF Ack
<1>9. CASE LateFrame  BY <1>3, <1>9 DEF LateFrame
<1>10. CASE UNCHANGED vars  BY <1>3, <1>10
<1>11. ASSUME UNCHANGED <<sim, gone>>, FoundIsThere', w' \notin {"put", "delete"}  PROVE KeptInv'
  <2>1. PutIsFound' /\ DoomedIsFiled'  BY <1>11 DEF PutIsFound, DoomedIsFiled
  <2>2. DeletedIsInFile'  BY <1>2, <1>11 DEF DeletedIsInFile, Filed
  <2>3. QED  BY <1>1, <1>11, <2>1, <2>2
<1>8. ASSUME NEW M \in SUBSET Msgs, Expire(M)  PROVE KeptInv'
  BY <1>8, <1>11 DEF Expire, FoundIsThere
<1>22. CASE ExpireStores  BY <1>11, <1>22 DEF ExpireStores, FoundIsThere
<1>12. CASE StartSweep  BY <1>11, <1>12 DEF StartSweep, NoSlots, FoundIsThere
<1>13. CASE ReadSlot
  <2>1. idx \in Slots  BY <1>13 DEF ReadSlot, SweepOK, Slots
  <2>2. found' = found \/ found' = [found EXCEPT ![idx] = sim[idx]]
    <3>1. PICK coming \in {late, Append(late, sim[idx])} :
            UNCHANGED found \/ (coming # <<>> /\ found' = [found EXCEPT ![idx] = Head(coming)])
      BY <1>13 DEF ReadSlot
    <3>2. coming = <<>> \/ coming = <<sim[idx]>>  BY <3>1 DEF Prompt
    <3>3. QED  BY <3>1, <3>2
  <2>3. FoundIsThere'  BY <1>13, <2>1, <2>2 DEF ReadSlot, FoundIsThere, SweepOK
  <2>4. QED  BY <1>11, <1>13, <2>3 DEF ReadSlot
<1>14. CASE AllRead  BY <1>11, <1>14 DEF AllRead, FoundIsThere
<1>15. CASE TakeUnit
  <2>1. PICK U \in Units :
          \/ found' = [i \in Slots |-> IF i \in U THEN Empty ELSE found[i]] /\ UNCHANGED <<w, unit>>
          \/ /\ Complete(U) /\ (UnitParts(U) \subseteq Reports \/ InboxHas(UnitRecord(U)))
             /\ w' = "delete" /\ unit' = U
             /\ found' = [i \in Slots |-> IF i \in U THEN Empty ELSE found[i]]
          \/ w' = "put" /\ unit' = U /\ UNCHANGED found
    BY <1>15 DEF TakeUnit
  <2>2. U \subseteq Slots /\ \A i \in U : found[i] \in Parts  BY UnitsAreRead
  <2>3. w = "unit" /\ UNCHANGED <<sim, gone, disk>>  BY <1>15 DEF TakeUnit
  <2>4. FoundIsThere'  BY <2>1, <2>3 DEF FoundIsThere
  <2>5. PutIsFound'  BY <2>1, <2>2, <2>3 DEF PutIsFound
  <2>6. DoomedIsFiled'
    <3>1. SUFFICES ASSUME w' = "delete", NEW i \in unit'
                   PROVE  found'[i] = Empty /\ sim'[i] \in Parts /\ (sim'[i] \in Reports \/ Filed(disk', sim'[i]))
      BY DEF DoomedIsFiled
    <3>2. /\ Complete(U) /\ (UnitParts(U) \subseteq Reports \/ InboxHas(UnitRecord(U)))
          /\ i \in U /\ found' = [j \in Slots |-> IF j \in U THEN Empty ELSE found[j]]
      BY <2>1, <2>3, <3>1
    <3>3. sim'[i] = found[i] /\ found[i] \in Parts  BY <2>2, <2>3, <3>2 DEF FoundIsThere
    <3>4. found[i] \in Reports \/ Filed(disk, found[i])
      BY <3>2, StoredIsFiled DEF UnitParts
    <3>5. found'[i] = Empty  BY <2>2, <3>2
    <3>6. QED  BY <1>2, <3>3, <3>4, <3>5
  <2>7. DeletedIsInFile'  BY <1>2, <2>3 DEF DeletedIsInFile, Filed
  <2>8. QED  BY <1>1, <2>4, <2>5, <2>6, <2>7
<1>16. CASE SweepStores
  <2>1. /\ w = "put" /\ UNCHANGED <<sim, gone>>
        /\ found' = [i \in Slots |-> IF i \in unit THEN Empty ELSE found[i]]
        /\ w' # "put"
    BY <1>16 DEF SweepStores, AfterPut
  <2>2. disk' = Append(disk, UnitRecord(unit)) /\ unit' = unit
    BY <1>16 DEF SweepStores, AfterPut, PutOk, PutFails, CountsOK, InboxOK
  <2>3. FoundIsThere' /\ PutIsFound'  BY <2>1 DEF FoundIsThere, PutIsFound
  <2>4. DoomedIsFiled'
    <3>1. SUFFICES ASSUME NEW i \in unit
                   PROVE  found'[i] = Empty /\ sim'[i] \in Parts /\ Filed(disk', sim'[i])
      BY <2>2 DEF DoomedIsFiled
    <3>2. found[i] \in Parts /\ sim'[i] = found[i] /\ found'[i] = Empty
      BY <2>1 DEF PutReady, FoundIsThere, SweepOK
    <3>3. UnitRecord(unit).parts = PartsOf(MsgOf[found[i]])
      BY <2>1 DEF PutReady, Complete, UnitRecord, Record
    <3>4. UnitRecord(unit) \in Records  BY <2>1, UnitRecordType DEF PutReady
    <3>5. Len(disk) + 1 \in DOMAIN disk' /\ disk'[Len(disk) + 1] = UnitRecord(unit)
      BY <2>2, <3>4 DEF InboxOK
    <3>6. Filed(disk', found[i])  BY <3>3, <3>5 DEF Filed, PartsOf
    <3>7. QED  BY <3>2, <3>6 DEF Filed
  <2>5. DeletedIsInFile'  BY <1>2, <2>1 DEF DeletedIsInFile, Filed
  <2>6. QED  BY <1>1, <2>3, <2>4, <2>5
<1>17. CASE Delete
  <2>1. PICK i \in unit :
          /\ unit' = unit \ {i}
          /\ \/ UNCHANGED <<sim, gone>>
             \/ sim' = [sim EXCEPT ![i] = Empty] /\ gone' = gone \cup ({sim[i]} \ {Empty})
    BY <1>17 DEF Delete, Lowest
  <2>2. w = "delete" /\ w' # "put" /\ UNCHANGED <<found, disk>>  BY <1>17 DEF Delete
  <2>3. FoundIsThere' /\ PutIsFound'
    BY <2>1, <2>2 DEF FoundIsThere, PutIsFound, DoomedIsFiled, SimOK, SweepOK
  <2>4. DoomedIsFiled'
    BY <1>2, <2>1, <2>2 DEF DoomedIsFiled, SimOK, SweepOK
  <2>5. DeletedIsInFile'
    <3>1. sim[i] \in Reports \/ Filed(disk, sim[i])  BY <2>1, <2>2 DEF DoomedIsFiled
    <3>2. gone' \subseteq gone \cup {sim[i]}  BY <2>1
    <3>3. \A p \in gone' \ Reports : Filed(disk, p)  BY <3>1, <3>2 DEF DeletedIsInFile, Filed
    <3>4. QED  BY <2>2, <3>3 DEF DeletedIsInFile, Filed
  <2>6. QED  BY <1>1, <2>3, <2>4, <2>5
<1>18. CASE SweepEnds  BY <1>11, <1>18 DEF SweepEnds, FoundIsThere
<1>19. CASE LinkLost  BY <1>11, <1>19 DEF LinkLost, NoSlots, FoundIsThere
<1>20. CASE Crash  BY <1>11, <1>20 DEF Crash, NoSlots, FoundIsThere
<1>21. QED
  BY <1>4, <1>5, <1>6, <1>7, <1>8, <1>9, <1>10, <1>12, <1>13, <1>14, <1>15, <1>16, <1>17,
     <1>18, <1>19, <1>20, <1>22 DEF Next, Network, Sweep

\* sweep_sim deletes from the SIM only what the inbox file holds, through
\* crashes, lost links, failed deletes and lost answers, for any number of slots
\* and messages: provided no slot read is answered after its timeout and no
\* inbox write fails.
THEOREM DeletedIsKept ==
    ASSUME MaxLate = 0, MaxFails = 0
    PROVE  Spec => []DeletedIsInFile
<1>1. Init => KeptInv
  BY DEF Init, KeptInv, Prompt, FoundIsThere, PutIsFound, DoomedIsFiled, DeletedIsInFile, NoSlots
<1>2. TypeInv /\ TypeInv' /\ KeptInv /\ [Next]_vars => KeptInv'  BY KeptNext
<1>3. KeptInv => DeletedIsInFile  BY DEF KeptInv
<1>4. QED  BY <1>1, <1>2, <1>3, TypeInvInit, TypeInvNext, PTL DEF Spec

-----------------------------------------------------------------------------
(* A sweep stores nothing twice.  The look-up and the store are two steps, and *)
(* the reader thread stores in between; a restart reads back a file that lacks *)
(* what could not be written.                                              *)

\* No two records of the log are the same record of a sweep.
OnceIn(log) == \A k, n \in DOMAIN log : log[k].by = "sweep" /\ log[k] = log[n] => k = n
Listed(log, r) == \E k \in DOMAIN log : log[k] = r

\* Who stores a record can be told from it.
Tagged == (\A r \in rd : r.by = "live") /\ (\A r \in old : r.by = "expired")
\* What is in the file is in memory.
FileIsLoaded == \A k \in DOMAIN disk : Listed(items, disk[k])
\* A message about to be stored was looked up and not found, nor stored since by a sweep.
PutIsNew == w = "put" => ~Listed(items, UnitRecord(unit))
OnceInv == OnceIn(items) /\ OnceIn(disk) /\ Tagged /\ FileIsLoaded /\ PutIsNew

\* What Append does to a log.
LEMMA Appended ==
    ASSUME NEW log \in Seq(Records), NEW r \in Records
    PROVE  /\ DOMAIN log = 1 .. Len(log) /\ DOMAIN Append(log, r) = 1 .. (Len(log) + 1)
           /\ Len(log) \in Nat
           /\ \A k \in DOMAIN log : Append(log, r)[k] = log[k]
           /\ Append(log, r)[Len(log) + 1] = r
OBVIOUS

LEMMA ListedAppend ==
    ASSUME NEW log \in Seq(Records), NEW r \in Records, NEW x
    PROVE  Listed(Append(log, r), x) <=> Listed(log, x) \/ x = r
<1>1. ASSUME NEW k \in DOMAIN Append(log, r)
      PROVE  (k \in DOMAIN log /\ Append(log, r)[k] = log[k]) \/ Append(log, r)[k] = r
  BY Appended
<1>2. Listed(log, x) => Listed(Append(log, r), x)  BY Appended DEF Listed
<1>3. x = r => Listed(Append(log, r), x)
  <2>1. Len(log) + 1 \in DOMAIN Append(log, r)  BY Appended
  <2>2. QED  BY <2>1, Appended DEF Listed
<1>4. QED  BY <1>1, <1>2, <1>3 DEF Listed

LEMMA OnceAppend ==
    ASSUME NEW log \in Seq(Records), NEW r \in Records, OnceIn(log),
           r.by = "sweep" => ~Listed(log, r)
    PROVE  OnceIn(Append(log, r))
<1> DEFINE new == Append(log, r)
<1>1. SUFFICES ASSUME NEW k \in DOMAIN new, NEW n \in DOMAIN new, new[k].by = "sweep", new[k] = new[n]
               PROVE  k = n
  BY DEF OnceIn
<1>2. CASE k \in DOMAIN log /\ n \in DOMAIN log  BY <1>1, <1>2, Appended DEF OnceIn
<1>3. CASE k \notin DOMAIN log /\ n \notin DOMAIN log
  <2>1. k = Len(log) + 1 /\ n = Len(log) + 1  BY <1>1, <1>3, Appended
  <2>2. QED  BY <2>1
<1>4. CASE k \in DOMAIN log /\ n \notin DOMAIN log
  <2>1. new[k] = log[k] /\ n = Len(log) + 1 /\ new[n] = r  BY <1>1, <1>4, Appended
  <2>2. QED  BY <1>1, <1>4, <2>1 DEF Listed
<1>5. CASE k \notin DOMAIN log /\ n \in DOMAIN log
  <2>1. new[n] = log[n] /\ k = Len(log) + 1 /\ new[k] = r  BY <1>1, <1>5, Appended
  <2>2. QED  BY <1>1, <1>5, <2>1 DEF Listed
<1>6. QED  BY <1>2, <1>3, <1>4, <1>5

\* A store keeps both logs without repetition if the record is not a sweep's, or new.
LEMMA OncePut ==
    ASSUME InboxOK, OnceIn(items), OnceIn(disk), FileIsLoaded, NEW r \in Records,
           r.by = "sweep" => ~Listed(items, r), PutOk(r) \/ PutFails(r)
    PROVE  OnceIn(items') /\ OnceIn(disk') /\ FileIsLoaded'
<1>1. items \in Seq(Records) /\ disk \in Seq(Records)  BY DEF InboxOK
<1>2. items' = Append(items, r) /\ (disk' = disk \/ disk' = Append(disk, r))
  BY Zenon DEF PutOk, PutFails
<1>3. OnceIn(Append(items, r))  BY <1>1, OnceAppend
<1>4. r.by = "sweep" => ~Listed(disk, r)  BY DEF Listed, FileIsLoaded
<1>5. OnceIn(Append(disk, r))  BY <1>1, <1>4, OnceAppend
<1>6. \A x : Listed(items', x) <=> Listed(items, x) \/ x = r  BY <1>1, <1>2, ListedAppend
<1>7. \A x : Listed(disk', x) => Listed(disk, x) \/ x = r  BY <1>1, <1>2, ListedAppend
<1>8. FileIsLoaded'
  <2>1. SUFFICES ASSUME NEW k \in DOMAIN disk' PROVE Listed(items', disk'[k])  BY DEF FileIsLoaded
  <2>2. Listed(disk', disk'[k])  BY DEF Listed
  <2>3. Listed(disk, disk'[k]) \/ disk'[k] = r  BY <1>7, <2>2
  <2>4. Listed(disk, disk'[k]) => Listed(items, disk'[k])  BY DEF FileIsLoaded, Listed
  <2>5. QED  BY <1>6, <2>3, <2>4
<1>9. QED  BY <1>2, <1>3, <1>5, <1>8

LEMMA OnceNext == ASSUME TypeInv, OnceInv, [Next]_vars PROVE OnceInv'
<1> USE DEF TypeInv, OnceInv
<1>1. ASSUME UNCHANGED <<items, disk>>, Tagged', PutIsNew' PROVE OnceInv'
  BY <1>1 DEF OnceIn, FileIsLoaded, Listed
<1>2. ASSUME UNCHANGED <<items, w, unit, found>> PROVE PutIsNew'
  BY <1>2 DEF PutIsNew, Listed, UnitRecord, UnitParts, First, Record
<1>3. ASSUME NEW p \in Parts, NEW copy \in BOOLEAN, Incoming(p, copy) PROVE OnceInv'
  <2>1. UNCHANGED <<items, disk, w, unit, found>>  BY <1>3 DEF Incoming
  <2>2. Tagged'  BY <1>3 DEF Incoming, OnDeliver, Record, Tagged
  <2>3. QED  BY <1>1, <1>2, <2>1, <2>2
<1>4. ASSUME NEW p \in Parts, StoreOnSim(p) \/ Ack(p) PROVE OnceInv'
  BY <1>1, <1>2, <1>4 DEF StoreOnSim, Ack, Tagged
<1>5. CASE ReaderStores
  <2>1. PICK r \in rd : PutOk(r) \/ PutFails(r)  BY <1>5 DEF ReaderStores
  <2>2. r \in Records /\ r.by = "live"  BY <2>1 DEF ReaderOK, Tagged
  <2>3. OnceIn(items') /\ OnceIn(disk') /\ FileIsLoaded'  BY <2>1, <2>2, OncePut
  <2>4. Tagged'  BY <1>5 DEF ReaderStores, Tagged
  <2>5. PutIsNew'
    <3>1. UNCHANGED <<w, unit, found>> /\ items' = Append(items, r)
      BY <1>5, <2>1 DEF ReaderStores, PutOk, PutFails
    <3>2. UnitRecord(unit)' = UnitRecord(unit)  BY <3>1 DEF UnitRecord, UnitParts, First, Record
    <3>3. UnitRecord(unit).by = "sweep"  BY DEF UnitRecord, Record
    <3>4. Listed(items', UnitRecord(unit)) => Listed(items, UnitRecord(unit))
      BY <2>2, <3>1, <3>3, ListedAppend DEF InboxOK
    <3>5. QED  BY <3>1, <3>2, <3>4 DEF PutIsNew
  <2>6. QED  BY <2>3, <2>4, <2>5
<1>6. ASSUME NEW M \in SUBSET Msgs, Expire(M) PROVE OnceInv'
  <2>1. Tagged'  BY <1>6 DEF Expire, Expired, Record, Tagged
  <2>2. PutIsNew'  BY <1>6 DEF Expire, PutIsNew
  <2>3. QED  BY <1>1, <1>6, <2>1, <2>2 DEF Expire
<1>7. CASE ExpireStores
  <2>1. Tagged' /\ PutIsNew'  BY <1>7 DEF ExpireStores, Tagged, PutIsNew
  <2>2. CASE UNCHANGED inboxVars  BY <1>1, <2>1, <2>2
  <2>3. CASE \E r \in old : PutOk(r) \/ PutFails(r)
    <3>1. PICK r \in old : PutOk(r) \/ PutFails(r)  BY <2>3
    <3>2. r \in Records /\ r.by = "expired"  BY <3>1 DEF ReaderOK, Tagged
    <3>3. OnceIn(items') /\ OnceIn(disk') /\ FileIsLoaded'  BY <3>1, <3>2, OncePut
    <3>4. QED  BY <2>1, <3>3
  <2>4. QED  BY <1>7, <2>2, <2>3 DEF ExpireStores
<1>8. CASE StartSweep \/ ReadSlot \/ AllRead \/ Delete \/ SweepEnds \/ LinkLost
  <2>1. w' # "put" /\ UNCHANGED <<items, disk, rd, old>>
    BY <1>8 DEF StartSweep, ReadSlot, AllRead, Delete, SweepEnds, LinkLost
  <2>2. QED  BY <1>1, <2>1 DEF Tagged, PutIsNew
<1>9. CASE LateFrame \/ UNCHANGED vars  BY <1>1, <1>2, <1>9 DEF LateFrame, Tagged
<1>10. CASE TakeUnit
  <2>1. UNCHANGED <<items, disk, rd, old>> /\ w = "unit"  BY <1>10 DEF TakeUnit
  <2>2. PutIsNew'
    <3>1. SUFFICES ASSUME w' = "put" PROVE ~Listed(items, UnitRecord(unit)')
      BY <2>1 DEF PutIsNew, Listed
    <3>2. PICK U \in Units : ~InboxHas(UnitRecord(U)) /\ unit' = U /\ UNCHANGED found
      BY <1>10, <2>1, <3>1 DEF TakeUnit
    <3>3. UnitRecord(unit)' = UnitRecord(U)  BY <3>2 DEF UnitRecord, UnitParts, First, Record
    <3>4. QED  BY <3>2, <3>3 DEF InboxHas, Listed
  <2>3. QED  BY <1>1, <2>1, <2>2 DEF Tagged
<1>11. CASE SweepStores
  <2>1. w = "put" /\ w' # "put" /\ UNCHANGED <<rd, old>>  BY <1>11 DEF SweepStores, AfterPut
  <2>2. UnitRecord(unit) \in Records  BY <2>1, UnitRecordType DEF PutReady
  <2>3. OnceIn(items') /\ OnceIn(disk') /\ FileIsLoaded'
    BY <1>11, <2>1, <2>2, OncePut DEF SweepStores, PutIsNew
  <2>4. QED  BY <2>1, <2>3 DEF Tagged, PutIsNew
<1>12. CASE Crash
  <2>1. items' = disk /\ disk' = disk /\ rd' = {} /\ old' = {} /\ w' = "idle"  BY <1>12 DEF Crash
  <2>2. QED  BY <2>1 DEF OnceIn, FileIsLoaded, Listed, Tagged, PutIsNew
<1>13. QED
  BY <1>3, <1>4, <1>5, <1>6, <1>7, <1>8, <1>9, <1>10, <1>11, <1>12 DEF Next, Network, Sweep

\* sweep_sim looks a message up (_inbox_has) before it stores it.  No sweep stores a
\* message a second time, through late answers, failed writes, lost links, failed
\* deletes and restarts, for any SIM and any messages; the reader thread may store
\* between the look-up and the store.
THEOREM SweepsStoreOnce == Spec => []SweptOnce
<1>1. Init => OnceInv
  BY DEF Init, OnceInv, OnceIn, Tagged, FileIsLoaded, PutIsNew
<1>2. TypeInv /\ OnceInv /\ [Next]_vars => OnceInv'  BY OnceNext
<1>3. OnceInv => SweptOnce  BY DEF OnceInv, OnceIn, SweptOnce
<1>4. QED  BY <1>1, <1>2, <1>3, TypeInvInit, TypeInvNext, PTL DEF Spec

-----------------------------------------------------------------------------
(* An acknowledged part is not lost while the daemon runs. *)

Held(p) ==
    \/ \E k \in DOMAIN items : p \in items[k].parts
    \/ p \in partials \/ \E r \in rd \cup old : p \in r.parts

\* Expired entries are stored before the worker does anything else.
OldIsExpiring == w # "expire" => old = {}
\* An ack is deferred in the same step as its part is taken.
TakenIsHeld == faults = 0 /\ fails = 0 => \A p \in (acked \cup ackq) \ Reports : Held(p)
\* The reader thread handles one frame at a time.
OneInHand == \A r, q \in rd : r = q
HeldInv == OldIsExpiring /\ OneInHand /\ TakenIsHeld

\* A stored record's parts are in the inbox, and what was there stays.
LEMMA HeldPut ==
    ASSUME InboxOK, NEW r \in Records, PutOk(r)
    PROVE  /\ \A p \in r.parts : \E k \in DOMAIN items' : p \in items'[k].parts
           /\ \A p : (\E k \in DOMAIN items : p \in items[k].parts)
                        => \E k \in DOMAIN items' : p \in items'[k].parts
<1>1. items \in Seq(Records) /\ items' = Append(items, r)  BY Zenon DEF InboxOK, PutOk
<1>2. Len(items) + 1 \in DOMAIN items' /\ items'[Len(items) + 1] = r  BY <1>1, Appended
<1>3. \A k \in DOMAIN items : k \in DOMAIN items' /\ items'[k] = items[k]  BY <1>1, Appended
<1>4. QED  BY <1>2, <1>3

LEMMA HeldNext == ASSUME TypeInv, HeldInv, [Next]_vars PROVE HeldInv'
<1> USE DEF TypeInv, HeldInv
<1>1. ASSUME UNCHANGED <<items, partials, rd, old, faults, fails>>,
             acked' \cup ackq' \subseteq acked \cup ackq, OldIsExpiring'
      PROVE  HeldInv'
  BY <1>1 DEF TakenIsHeld, Held, OneInHand
<1>2. ASSUME faults' # 0 \/ fails' # 0, OldIsExpiring', OneInHand' PROVE HeldInv'
  BY <1>2 DEF TakenIsHeld
<1>3. ASSUME NEW p \in Parts, StoreOnSim(p) \/ Ack(p) PROVE HeldInv'
  <2>1. /\ UNCHANGED <<items, partials, rd, old, faults, fails, w>>
        /\ acked' \cup ackq' \subseteq acked \cup ackq
    BY <1>3 DEF StoreOnSim, Ack
  <2>2. QED  BY <1>1, <2>1 DEF OldIsExpiring
<1>4. ASSUME NEW p \in Parts, NEW copy \in BOOLEAN, Incoming(p, copy) PROVE HeldInv'
  <2>1. /\ UNCHANGED <<items, old, faults, fails, w, acked>> /\ rd = {} /\ ackq' = ackq \cup {p}
    BY <1>4 DEF Incoming
  <2>2. CASE p \in Reports
    <3>1. UNCHANGED <<partials, rd>>  BY <1>4, <2>2 DEF Incoming
    <3>2. QED  BY <2>1, <2>2, <3>1 DEF OldIsExpiring, OneInHand, TakenIsHeld, Held
  <2>3. CASE p \notin Reports
    <3>1. PICK entry \in SUBSET Parts :
            /\ p \in entry
            /\ \/ partials' = partials \ entry /\ \E r \in rd' : r.parts = entry
               \/ partials' = partials \cup entry
      <4> DEFINE entry == Waiting(MsgOf[p]) \cup {p}
      <4>1. OnDeliver(p)  BY <1>4, <2>3 DEF Incoming
      <4>2. \/ partials' = partials \ entry /\ \E op : rd' = {Record(entry, op, "live")}
            \/ partials' = partials \cup entry
        BY <4>1, Zenon DEF OnDeliver
      <4>3. entry \subseteq Parts /\ p \in entry  BY DEF Waiting, PartsOf
      <4>4. \A op : Record(entry, op, "live").parts = entry  BY DEF Record
      <4> HIDE DEF entry
      <4>5. QED  BY <4>2, <4>3, <4>4
    <3>2. \A q \in partials \cup {p} : q \in partials' \/ \E r \in rd' : q \in r.parts  BY <3>1
    <3>3. OneInHand'  BY <1>4, <2>3 DEF Incoming, OnDeliver, OneInHand
    <3>4. QED  BY <2>1, <3>2, <3>3 DEF OldIsExpiring, TakenIsHeld, Held
  <2>4. QED  BY <2>2, <2>3
<1>5. CASE ReaderStores
  <2>1. PICK r \in rd : PutOk(r) \/ PutFails(r)  BY <1>5 DEF ReaderStores
  <2>2. rd' = {} /\ UNCHANGED <<partials, old, faults, w, acked, ackq>>  BY <1>5 DEF ReaderStores
  <2>3. CASE PutFails(r)  BY <1>2, <2>2, <2>3 DEF PutFails, CountsOK, OldIsExpiring, OneInHand
  <2>4. CASE PutOk(r)
    <3>1. fails' = fails /\ r \in Records /\ rd = {r}  BY <2>1, <2>4 DEF PutOk, ReaderOK, OneInHand
    <3>2. \A p : Held(p) => Held(p)'  BY <2>2, <2>4, <3>1, HeldPut DEF Held
    <3>3. QED  BY <2>2, <3>1, <3>2 DEF OldIsExpiring, OneInHand, TakenIsHeld
  <2>5. QED  BY <2>1, <2>3, <2>4
<1>6. ASSUME NEW M \in SUBSET Msgs, Expire(M) PROVE HeldInv'
  <2>1. /\ UNCHANGED <<items, rd, faults, fails, acked, ackq>> /\ w' = "expire" /\ w = "idle"
        /\ partials' = {p \in partials : MsgOf[p] \notin M} /\ old' = {Expired(m) : m \in M}
    BY <1>6 DEF Expire
  <2>2. old = {}  BY <2>1 DEF OldIsExpiring
  <2>3. ASSUME NEW p \in partials, p \notin partials' PROVE \E r \in old' : p \in r.parts
    <3>1. p \in Parts /\ MsgOf[p] \in M  BY <2>1, <2>3 DEF ReaderOK
    <3>2. p \in Expired(MsgOf[p]).parts  BY <3>1 DEF Expired, Record, Waiting, PartsOf
    <3>3. QED  BY <2>1, <3>1, <3>2
  <2>4. \A p : Held(p) => Held(p)'  BY <2>1, <2>2, <2>3 DEF Held
  <2>5. QED  BY <2>1, <2>4 DEF OldIsExpiring, OneInHand, TakenIsHeld
<1>7. CASE ExpireStores
  <2>1. UNCHANGED <<partials, rd, faults, acked, ackq>> /\ OldIsExpiring'
    BY <1>7 DEF ExpireStores, OldIsExpiring
  <2>2. CASE UNCHANGED <<inboxVars, old>>  BY <1>1, <2>1, <2>2
  <2>3. ASSUME NEW r \in old, PutFails(r) PROVE HeldInv'
    BY <1>2, <2>1, <2>3 DEF PutFails, CountsOK, OneInHand
  <2>4. ASSUME NEW r \in old, PutOk(r), old' = old \ {r} PROVE HeldInv'
    <3>1. fails' = fails /\ r \in Records  BY <2>4 DEF PutOk, ReaderOK
    <3>2. \A p : Held(p) => Held(p)'  BY <2>1, <2>4, <3>1, HeldPut DEF Held
    <3>3. QED  BY <2>1, <3>1, <3>2 DEF OneInHand, TakenIsHeld
  <2>5. QED  BY <1>7, <2>2, <2>3, <2>4 DEF ExpireStores
<1>8. CASE StartSweep \/ ReadSlot \/ AllRead \/ TakeUnit \/ Delete \/ SweepEnds \/ LateFrame \/ UNCHANGED vars
  <2>1. /\ UNCHANGED <<items, partials, rd, old, faults, fails, acked, ackq>>
        /\ w' = "expire" <=> w = "expire"
    BY <1>8 DEF StartSweep, ReadSlot, AllRead, TakeUnit, Delete, SweepEnds, LateFrame
  <2>2. QED  BY <1>1, <2>1 DEF OldIsExpiring
<1>9. CASE SweepStores
  <2>1. /\ UNCHANGED <<partials, rd, old, faults, acked, ackq>> /\ w = "put" /\ w' # "expire"
    BY <1>9 DEF SweepStores, AfterPut
  <2>2. UnitRecord(unit) \in Records  BY <2>1, UnitRecordType DEF PutReady
  <2>3. OldIsExpiring' /\ OneInHand'  BY <2>1 DEF OldIsExpiring, OneInHand
  <2>4. CASE PutFails(UnitRecord(unit))  BY <1>2, <2>3, <2>4 DEF PutFails, CountsOK
  <2>5. CASE PutOk(UnitRecord(unit))
    <3>1. fails' = fails  BY <2>5 DEF PutOk
    <3>2. \A p : Held(p) => Held(p)'  BY <2>1, <2>2, <2>5, HeldPut DEF Held
    <3>3. QED  BY <2>1, <2>3, <3>1, <3>2 DEF TakenIsHeld
  <2>6. QED  BY <1>9, <2>4, <2>5 DEF SweepStores
<1>10. CASE LinkLost \/ Crash
  <2>1. faults' # 0  BY <1>10 DEF LinkLost, Crash, CountsOK
  <2>2. CASE LinkLost  BY <1>2, <2>1, <2>2 DEF LinkLost, OldIsExpiring, OneInHand
  <2>3. CASE Crash  BY <1>2, <2>1, <2>3 DEF Crash, OldIsExpiring, OneInHand
  <2>4. QED  BY <1>10, <2>2, <2>3
<1>11. QED
  BY <1>3, <1>4, <1>5, <1>6, <1>7, <1>8, <1>9, <1>10 DEF Next, Network, Sweep

\* The reader thread defers the ack before it stores.  While the daemon runs and its
\* writes succeed, what the network was told to forget is in the inbox, waits for the
\* rest of its message, or is about to be stored, for any messages, however acks,
\* expiry, the sweep and the reader interleave.
THEOREM AcknowledgedIsHeld == Spec => []AckedIsHeld
<1>1. Init => HeldInv
  BY DEF Init, HeldInv, OldIsExpiring, OneInHand, TakenIsHeld
<1>2. TypeInv /\ HeldInv /\ [Next]_vars => HeldInv'  BY HeldNext
<1>3. HeldInv => AckedIsHeld  BY DEF HeldInv, TakenIsHeld, Held, AckedIsHeld
<1>4. QED  BY <1>1, <1>2, <1>3, TypeInvInit, TypeInvNext, PTL DEF Spec
=============================================================================
