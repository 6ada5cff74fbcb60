--------------------------- MODULE GmslLinkProofs ---------------------------
(***************************************************************************)
(* Proofs about GmslLink for any set of links, any board, any failing      *)
(* transfers and cameras bound anew at any time: no setup leaves a marked  *)
(* link closed; and unless somebody comes to the deserialiser while a      *)
(* repeated setup is at work without the mutex, setups are alone on the    *)
(* bus, serialisers keep their addresses and the pipes are as the cameras  *)
(* asked.  The strengthening says who is at the deserialiser and how far   *)
(* a setup has moved.                                                      *)
(* A second part proves what the sensor drivers write (SensorRegs).        *)
(***************************************************************************)
EXTENDS GmslLink, SensorRegs, SequenceTheorems, TLAPS

Holding == Setup \cup {"write", "stop_write"}

(* One at a time, with the mutex or without it. *)
HolderAlone ==
    crossed \/ /\ \A s \in Sensors : pc[s] \in Holding => mutex = s \/ s \in bare
               /\ \A s, t \in Sensors : pc[s] \in Holding /\ pc[t] \in Holding => s = t

Restored == (\A s \in Sensors : pc[s] \notin Alone) => enabled = link_lock_status

(* Nobody writes the pipe register between a camera's read and write.      *)
CopyFresh ==
    crossed \/ \A s \in Sensors : pc[s] \in {"write", "stop_write"} => val[s] = stream

LinkInv == TypeOK /\ HolderAlone /\ Monopoly /\ Restored /\ CopyFresh /\ PipesAsAsked

LEMMA NoneIsNobody == None \notin Sensors
BY SensorsAssumption DEF None

LEMMA AliasIsAddress == ASSUME NEW s \in Sensors PROVE Alias(s) \in Nat
BY SensorsAssumption DEF Alias, Base

LEMMA InitTypes == Init => TypeOK
<1> SUFFICES ASSUME Init PROVE TypeOK
  OBVIOUS
<1>1. ser \in [Sensors -> Nat]
  BY DEF Init, Default
<1>2. power \subseteq Sensors
  BY DEF Init
<1>3. pc \in [Sensors -> Label]
  BY DEF Init, Label
<1>4. xlat \in [Sensors -> Sensors \cup {None}] /\ serdes \in [Models -> Sensors \cup {None}]
  BY DEF Init
<1>5. ret \in [Sensors -> {"ok", "err"}] /\ val \in [Sensors -> SUBSET Sensors]
  BY DEF Init
<1> QED BY <1>1, <1>2, <1>3, <1>4, <1>5 DEF Init, TypeOK

(* The variables keep their types. *)
THEOREM TypeCorrect == Spec => []TypeOK
<1>1. Init => TypeOK
  BY InitTypes
<1>2. TypeOK /\ [Next]_vars => TypeOK'
  <2> SUFFICES ASSUME TypeOK, [Next]_vars PROVE TypeOK'
    OBVIOUS
  <2> USE DEF TypeOK, regVars, busVars, races
  <2>1. CASE UNCHANGED vars
    BY <2>1 DEF vars
  <2>2. ASSUME NEW s \in Sensors, Probe(s) \/ Remove(s) \/ StreamOn(s) \/ StreamOff(s)
        PROVE  TypeOK'
    BY <2>2 DEF Probe, Remove, StreamOn, StreamOff, SwitchOff, Go, Label, Setup, Streaming
  <2>3. ASSUME NEW s \in Sensors,
               LockLink(s) \/ Monopolize(s) \/ LoadMarks(s) \/ EnableLink(s) \/ RestoreLink(s)
        PROVE  TypeOK'
    BY <2>3 DEF LockLink, Monopolize, LoadMarks, EnableLink, RestoreLink, Go, Label, Setup
  <2>4. ASSUME NEW s \in Sensors, WriteAlias(s)
        PROVE  TypeOK'
    BY <2>4, AliasIsAddress DEF WriteAlias, Go, Label, Setup
  <2>5. ASSUME NEW s \in Sensors, ReadSerializerId(s) \/ PowerOn(s) \/ ReadSensorId(s)
        PROVE  TypeOK'
    <3>1. CASE ReadSerializerId(s)
      BY <3>1 DEF ReadSerializerId, ErrExit, Go, Label, Setup
    <3>2. CASE PowerOn(s)
      <4>1. power' \subseteq Sensors
        BY <3>2 DEF PowerOn, Hits, Reach
      <4> QED BY <3>2, <4>1 DEF PowerOn, ErrExit, Go, Label, Setup
    <3>3. CASE ReadSensorId(s)
      BY <3>3 DEF ReadSensorId, ErrExit, Go, Label, Setup
    <3> QED BY <2>5, <3>1, <3>2, <3>3
  <2>6. ASSUME NEW s \in Sensors, Translate(s) \/ PowerOffOnError(s) \/ UnlockLink(s)
        PROVE  TypeOK'
    BY <2>6 DEF Translate, PowerOffOnError, SwitchOff, UnlockLink, Go, Label, Setup
  <2>7. ASSUME NEW s \in Sensors, StreamStep(s)
        PROVE  TypeOK'
    <3>1. CASE LockSerdes(s) \/ StartTable(s)
      BY <3>1 DEF LockSerdes, StartTable, Go, Label, Streaming
    <3>2. CASE Acquire(s)
      <4>1. crossed' \in BOOLEAN
        BY <3>2, Zenon DEF Acquire, ReadStreams
      <4> QED BY <3>2, <4>1 DEF Acquire, ReadStreams, Go, Label, Streaming
    <3>3. CASE WriteStreams(s, "write", "table", TRUE)
      BY <3>3 DEF WriteStreams, Go, Label, Streaming
    <3>4. CASE WriteStreams(s, "stop_write", "bound", FALSE)
      BY <3>4 DEF WriteStreams, Go, Label, Streaming
    <3> QED BY <2>7, <3>1, <3>2, <3>3, <3>4 DEF StreamStep
  <2> QED BY <2>1, <2>2, <2>3, <2>4, <2>5, <2>6, <2>7 DEF Next, SetupStep
<1> QED BY <1>1, <1>2, PTL DEF Spec

(* An action that only moves its camera between labels of the same         *)
(* standing, and touches registers of serialisers and sensors at most,     *)
(* disturbs nothing.                                                       *)
LEMMA BusStepKeeps ==
    ASSUME LinkInv, TypeOK', NEW s \in Sensors, NEW label, Go(s, label),
           UNCHANGED <<mutex, link_lock_status, enabled, stream, told, bare, crossed>>,
           pc[s] \in {"write", "stop_write"} => UNCHANGED val,
           \A t \in Sensors \ {s} : val'[t] = val[t],
           pc[s] \in Holding <=> label \in Holding, pc[s] \in Alone <=> label \in Alone,
           pc[s] \in {"write", "stop_write"} <=> label \in {"write", "stop_write"}
    PROVE  LinkInv'
<1> USE DEF Go, TypeOK
<1>1. HolderAlone'
  BY DEF LinkInv, HolderAlone
<1>2. Monopoly'
  BY DEF LinkInv, Monopoly, BusToItself
<1>3. Restored'
  <2>1. (\A t \in Sensors : pc'[t] \notin Alone) => \A t \in Sensors : pc[t] \notin Alone
    BY DEF LinkInv
  <2> QED BY <2>1 DEF LinkInv, Restored
<1>4. CopyFresh'
  BY DEF LinkInv, CopyFresh
<1>5. PipesAsAsked'
  BY DEF LinkInv, PipesAsAsked
<1> QED BY <1>1, <1>2, <1>3, <1>4, <1>5 DEF LinkInv

(* The part of a setup that works on the bus, by its steps. *)
LEMMA BusySetupKeeps ==
    ASSUME LinkInv, TypeOK', NEW s \in Sensors,
           WriteAlias(s) \/ ReadSerializerId(s) \/ PowerOn(s) \/ ReadSensorId(s)
           \/ Translate(s) \/ LoadMarks(s) \/ PowerOffOnError(s)
    PROVE  LinkInv'
<1> USE DEF WriteAlias, ReadSerializerId, PowerOn, ReadSensorId, Translate, LoadMarks,
            PowerOffOnError
<1>1. PICK label \in {"serid", "power", "id", "xlat", "enable", "mark", "off", "restore"} :
          Go(s, label)
  BY DEF ErrExit
<1>2. pc[s] \in {"alias", "serid", "power", "id", "xlat", "enable", "off"}
  OBVIOUS
<1>3. UNCHANGED <<mutex, link_lock_status, enabled, stream, told, bare, crossed>>
  BY DEF regVars, races
<1>4. pc[s] \in Holding /\ label \in Holding /\ pc[s] \in Alone /\ label \in Alone
  BY <1>1, <1>2 DEF Holding, Setup, Alone
<1>5. \A t \in Sensors \ {s} : val'[t] = val[t]
  BY DEF LinkInv, TypeOK
<1> QED BY <1>1, <1>2, <1>3, <1>4, <1>5, BusStepKeeps

(* What the application asks for, and the end of a start. *)
LEMMA CallKeeps ==
    ASSUME LinkInv, TypeOK', NEW s \in Sensors,
           Probe(s) \/ Remove(s) \/ StreamOn(s) \/ StreamOff(s) \/ LockSerdes(s) \/ StartTable(s)
    PROVE  LinkInv'
<1> USE DEF Probe, Remove, StreamOn, StreamOff, LockSerdes, StartTable
<1>1. PICK label \in {"lock", "unbound", "start", "stop_read", "read", "oops", "bound"} :
          Go(s, label)
  OBVIOUS
<1>2. pc[s] \in {"unbound", "bound", "start", "table"}
  OBVIOUS
<1>3. UNCHANGED <<mutex, link_lock_status, enabled, stream, val, told, bare, crossed>>
  BY DEF regVars, races
<1>4. pc[s] \notin Holding /\ label \notin Holding /\ pc[s] \notin Alone /\ label \notin Alone
  BY <1>1, <1>2 DEF Holding, Setup, Alone
<1> QED BY <1>1, <1>2, <1>3, <1>4, BusStepKeeps

(* Whoever finds the mutex free and no repeated setup at work finds nobody *)
(* at the deserialiser.                                                    *)
LEMMA TakeKeeps ==
    ASSUME LinkInv, TypeOK', NEW s \in Sensors, LockLink(s) \/ Acquire(s)
    PROVE  LinkInv'
<1> USE DEF TypeOK
<1>1. PICK label \in {"mono", "write", "stop_write"} : Go(s, label)
  BY DEF LockLink, Acquire, ReadStreams
<1>2. mutex = None /\ (mutex' = s \/ s \in bare') /\ crossed' = (crossed \/ bare # {})
  BY DEF LockLink, Acquire, ReadStreams
<1>3. crossed' \/ \A t \in Sensors : pc[t] \notin Holding
  BY <1>2, NoneIsNobody DEF LinkInv, HolderAlone
<1>4. \A t \in Sensors : pc'[t] = IF t = s THEN label ELSE pc[t]
  BY <1>1 DEF Go, LinkInv
<1>5. UNCHANGED <<link_lock_status, enabled, stream, told>>
  BY DEF LockLink, Acquire, ReadStreams, regVars
<1>6. crossed \in BOOLEAN /\ (crossed => crossed')
  BY <1>2 DEF LinkInv
<1>7. HolderAlone'
  BY <1>2, <1>3, <1>4 DEF HolderAlone
<1>8. \A t \in Sensors : pc'[t] \notin Alone <=> pc[t] \notin Alone
  <2>1. label \notin Alone
    BY <1>1 DEF Alone
  <2>2. pc[s] \notin Alone
    BY DEF LockLink, Acquire, ReadStreams, Alone
  <2> QED BY <2>1, <2>2, <1>4
<1>9. Restored'
  BY <1>5, <1>8 DEF LinkInv, Restored
<1>10. Monopoly'
  BY <1>5, <1>6, <1>8 DEF LinkInv, Monopoly, BusToItself
<1>11. CopyFresh'
  <2>1. CASE crossed'
    BY <2>1 DEF CopyFresh
  <2>2. CASE ~crossed'
    <3>1. \A t \in Sensors \ {s} : pc'[t] \notin {"write", "stop_write"}
      BY <2>2, <1>3, <1>4 DEF Holding
    <3>2. CASE LockLink(s)
      BY <3>1, <3>2, <1>4 DEF LockLink, Go, CopyFresh, LinkInv
    <3>3. CASE Acquire(s)
      BY <3>1, <3>3, <1>5 DEF Acquire, ReadStreams, CopyFresh, LinkInv
    <3> QED BY <3>2, <3>3
  <2> QED BY <2>1, <2>2
<1>12. PipesAsAsked'
  BY <1>3, <1>4, <1>5, <1>6 DEF LinkInv, PipesAsAsked, Holding
<1> QED BY <1>7, <1>9, <1>10, <1>11, <1>12 DEF LinkInv

(* Closing the other links, marking the camera's and reopening. *)
LEMMA LinkRegisterKeeps ==
    ASSUME LinkInv, TypeOK', NEW s \in Sensors, Monopolize(s) \/ EnableLink(s) \/ RestoreLink(s)
    PROVE  LinkInv'
<1> USE DEF TypeOK
<1>1. PICK label \in {"alias", "restore", "unlock"} : Go(s, label)
  BY DEF Monopolize, EnableLink, RestoreLink
<1>2. pc[s] \in {"mono", "mark", "restore"}
  BY DEF Monopolize, EnableLink, RestoreLink
<1>3. UNCHANGED <<mutex, stream, told, bare, crossed>>
  BY DEF Monopolize, EnableLink, RestoreLink, races
<1>4. \A t \in Sensors : pc'[t] = IF t = s THEN label ELSE pc[t]
  BY <1>1 DEF Go, LinkInv
<1>5. crossed \/ \A t \in Sensors \ {s} : pc[t] \notin Holding
  BY <1>2 DEF LinkInv, HolderAlone, Holding, Setup
<1>6. HolderAlone'
  <2>1. \A t \in Sensors : pc'[t] \in Holding <=> pc[t] \in Holding
    BY <1>1, <1>2, <1>4 DEF Holding, Setup
  <2> QED BY <1>3, <2>1 DEF LinkInv, HolderAlone
<1>7. crossed \/ \A t \in Sensors \ {s} : pc'[t] \notin Alone
  BY <1>4, <1>5 DEF Holding, Setup, Alone
<1>8. Monopoly' /\ Restored'
  <2>1. CASE Monopolize(s)
    <3>1. pc'[s] \in Alone /\ enabled' = {s}
      BY <2>1 DEF Monopolize, Go, LinkInv, Alone
    <3> QED BY <3>1, <1>3, <1>7 DEF Monopoly, BusToItself, Restored
  <2>2. CASE EnableLink(s)
    <3>1. pc[s] \in Alone /\ pc'[s] \in Alone /\ enabled' = enabled
      BY <2>2 DEF EnableLink, Go, LinkInv, Alone
    <3>2. crossed \/ enabled = {s}
      BY <3>1 DEF LinkInv, Monopoly, BusToItself
    <3> QED BY <3>1, <3>2, <1>3, <1>7 DEF Monopoly, BusToItself, Restored
  <2>3. CASE RestoreLink(s)
    <3>1. pc'[s] \notin Alone /\ enabled' = link_lock_status'
      BY <2>3 DEF RestoreLink, Go, LinkInv, Alone
    <3> QED BY <3>1, <1>3, <1>7 DEF Monopoly, BusToItself, Restored
  <2> QED BY <2>1, <2>2, <2>3
<1>9. CopyFresh'
  <2>1. \A t \in Sensors : pc'[t] \in {"write", "stop_write"} => pc[t] = pc'[t] /\ val'[t] = val[t]
    BY <1>2, <1>1, <1>4 DEF Monopolize, EnableLink, RestoreLink, LinkInv
  <2> QED BY <1>3, <2>1 DEF LinkInv, CopyFresh
<1>10. PipesAsAsked'
  BY <1>2, <1>3, <1>4 DEF LinkInv, PipesAsAsked
<1> QED BY <1>6, <1>8, <1>9, <1>10 DEF LinkInv

(* The mutex is given back with the links open and the pipe written. *)
LEMMA ReleaseKeeps ==
    ASSUME LinkInv, TypeOK', NEW s \in Sensors,
           UnlockLink(s) \/ WriteStreams(s, "write", "table", TRUE)
           \/ WriteStreams(s, "stop_write", "bound", FALSE)
    PROVE  LinkInv'
<1> USE DEF TypeOK
<1>1. PICK label \in {"bound", "unbound", "table"} : Go(s, label)
  BY DEF UnlockLink, WriteStreams
<1>2. pc[s] \in {"unlock", "write", "stop_write"}
  BY DEF UnlockLink, WriteStreams
<1>3. \A t \in Sensors : pc'[t] = IF t = s THEN label ELSE pc[t]
  BY <1>1 DEF Go, LinkInv
<1>4. crossed \/ \A t \in Sensors \ {s} : pc[t] \notin Holding
  BY <1>2 DEF LinkInv, HolderAlone, Holding, Setup
<1>5. crossed \/ \A t \in Sensors : pc'[t] \notin Holding
  BY <1>3, <1>4 DEF Holding, Setup
<1>6. UNCHANGED <<link_lock_status, enabled, crossed>>
  BY DEF UnlockLink, WriteStreams, regVars, races
<1>7. HolderAlone' /\ CopyFresh'
  BY <1>5, <1>6 DEF HolderAlone, CopyFresh, Holding
<1>8. \A t \in Sensors : pc'[t] \in Alone <=> pc[t] \in Alone
  BY <1>1, <1>2, <1>3 DEF Alone
<1>9. Monopoly' /\ Restored'
  BY <1>6, <1>8 DEF LinkInv, Monopoly, BusToItself, Restored
<1>10. PipesAsAsked'
  <2>1. CASE crossed
    BY <1>6, <2>1 DEF PipesAsAsked
  <2>2. CASE ~crossed
    <3>1. \A t \in Sensors \ {s} : t \in stream <=> t \in told
      BY <1>4, <2>2 DEF LinkInv, PipesAsAsked, Holding
    <3>2. CASE UnlockLink(s)
      BY <2>2, <3>1, <3>2, <1>3 DEF UnlockLink, regVars, LinkInv, PipesAsAsked
    <3>3. CASE WriteStreams(s, "write", "table", TRUE)
      <4>1. stream' = stream \cup {s} /\ told' = told \cup {s}
        BY <2>2, <3>3 DEF WriteStreams, LinkInv, CopyFresh
      <4> QED BY <3>1, <4>1 DEF LinkInv, PipesAsAsked
    <3>4. CASE WriteStreams(s, "stop_write", "bound", FALSE)
      <4>1. stream' = stream \ {s} /\ told' = told \ {s}
        BY <2>2, <3>4 DEF WriteStreams, LinkInv, CopyFresh
      <4> QED BY <3>1, <4>1 DEF LinkInv, PipesAsAsked
    <3> QED BY <3>2, <3>3, <3>4
  <2> QED BY <2>1, <2>2 DEF LinkInv
<1> QED BY <1>7, <1>9, <1>10 DEF LinkInv

LEMMA LinkInvInductive == Spec => []LinkInv
<1>1. Init => LinkInv
  <2> SUFFICES ASSUME Init PROVE LinkInv
    OBVIOUS
  <2>1. TypeOK
    BY InitTypes
  <2>2. \A s \in Sensors : pc[s] = "unbound" /\ s \notin stream /\ s \notin told
    BY DEF Init
  <2>3. HolderAlone /\ Monopoly /\ CopyFresh
    BY <2>2 DEF HolderAlone, Monopoly, BusToItself, CopyFresh, Holding, Setup, Alone
  <2>4. Restored
    BY DEF Init, Restored
  <2>5. PipesAsAsked
    BY <2>2 DEF PipesAsAsked
  <2> QED BY <2>1, <2>3, <2>4, <2>5 DEF LinkInv
<1>2. LinkInv /\ TypeOK' /\ [Next]_vars => LinkInv'
  <2> SUFFICES ASSUME LinkInv, TypeOK', [Next]_vars PROVE LinkInv'
    OBVIOUS
  <2>1. CASE UNCHANGED vars
    BY <2>1 DEF vars, regVars, busVars, races, LinkInv, TypeOK, HolderAlone, Monopoly, BusToItself,
                Restored, CopyFresh, PipesAsAsked
  <2>2. ASSUME NEW s \in Sensors, SetupStep(s)
        PROVE  LinkInv'
    BY <2>2, TakeKeeps, LinkRegisterKeeps, BusySetupKeeps, ReleaseKeeps DEF SetupStep
  <2>3. ASSUME NEW s \in Sensors, StreamStep(s)
        PROVE  LinkInv'
    BY <2>3, TakeKeeps, CallKeeps, ReleaseKeeps DEF StreamStep
  <2> QED BY <2>1, <2>2, <2>3, CallKeeps DEF Next
<1> QED BY <1>1, <1>2, TypeCorrect, PTL DEF Spec

(* A camera being set up has the bus to itself unless somebody crossed a   *)
(* repeated setup.                                                         *)
THEOREM SetupAlone == Spec => []Monopoly
<1>1. LinkInv => Monopoly
  BY DEF LinkInv
<1> QED BY <1>1, LinkInvInductive, PTL

(* No setup, failed, repeated or crossed, leaves a marked camera cut off.  *)
THEOREM LinksComeBack == Spec => []LinksRestored
<1>1. LinkInv => LinksRestored
  BY DEF LinkInv, LinksRestored, Restored, Setup, Alone
<1> QED BY <1>1, LinkInvInductive, PTL

(* No start or stop of another camera undoes one's own unless somebody     *)
(* crossed a repeated setup.                                               *)
THEOREM PipesFollow == Spec => []PipesAsAsked
<1>1. LinkInv => PipesAsAsked
  BY DEF LinkInv
<1> QED BY <1>1, LinkInvInductive, PTL
-----------------------------------------------------------------------------
(* Addresses.  A serialiser translates its own camera or none; it has its  *)
(* own address once it has been heard there; and the marks a setup has     *)
(* loaded still stand when it stores them.                                 *)
Heard == {"power", "id", "xlat", "enable", "mark"}

AddressInv ==
    crossed \/ /\ \A s \in Sensors : xlat[s] \in {s, None}
               /\ \A s \in Sensors : pc[s] \in Heard \/ s \in link_lock_status => ser[s] = Alias(s)
               /\ \A s \in Sensors : pc[s] = "mark" => val[s] \subseteq link_lock_status

(* Nobody uncrosses a setup. *)
LEMMA CrossedStays == ASSUME TypeOK, [Next]_vars PROVE crossed => crossed'
<1>1. CASE UNCHANGED vars
  BY <1>1 DEF vars, races
<1>2. ASSUME NEW s \in Sensors, SetupStep(s) PROVE crossed => crossed'
  BY <1>2 DEF SetupStep, LockLink, Monopolize, WriteAlias, ReadSerializerId, PowerOn, ReadSensorId,
              Translate, LoadMarks, EnableLink, PowerOffOnError, RestoreLink, UnlockLink, races
<1>3. ASSUME NEW s \in Sensors,
             Probe(s) \/ Remove(s) \/ StreamOn(s) \/ StreamOff(s) \/ StreamStep(s)
      PROVE  crossed => crossed'
  BY <1>3 DEF Probe, Remove, StreamOn, StreamOff, StreamStep, LockSerdes, Acquire, ReadStreams,
              WriteStreams, StartTable, races
<1> QED BY <1>1, <1>2, <1>3 DEF Next

(* An action that leaves serialisers and marks alone. *)
LEMMA PcStepKeeps ==
    ASSUME LinkInv, AddressInv, crossed => crossed', NEW s \in Sensors, NEW label, Go(s, label),
           UNCHANGED <<kind, link_lock_status, ser, xlat>>,
           \A t \in Sensors \ {s} : val'[t] = val[t], label # "mark",
           crossed \/ (label \in Heard => ser[s] = Alias(s))
    PROVE  AddressInv'
<1>1. \A t \in Sensors : pc'[t] = IF t = s THEN label ELSE pc[t]
  BY DEF Go, LinkInv, TypeOK
<1>2. \A t \in Sensors : Alias(t)' = Alias(t)
  BY DEF Alias, Base
<1> QED BY <1>1, <1>2 DEF AddressInv

(* A transfer of a setup reaches its own serialiser or none. *)
LEMMA ReachOwn ==
    ASSUME LinkInv, ~crossed, NEW s \in Sensors, pc[s] \in Alone, NEW a
    PROVE  \A t \in Reach(a) : t = s /\ ser[s] = a
BY DEF LinkInv, Monopoly, BusToItself, Reach

(* An action of a setup that changes a serialiser or the marks. *)
LEMMA AddressStepKeeps ==
    ASSUME LinkInv, AddressInv, ~crossed, NEW s \in Sensors,
           WriteAlias(s) \/ Translate(s) \/ LoadMarks(s) \/ EnableLink(s)
    PROVE  AddressInv'
<1>1. CASE WriteAlias(s)
  <2>1. PICK hit \in Hits(Default(s)) :
            ser' = [t \in Sensors |-> IF t \in hit THEN Alias(s) ELSE ser[t]]
    BY <1>1 DEF WriteAlias
  <2>2. \A t \in hit : t = s
    BY <2>1, <1>1, ReachOwn DEF Hits, WriteAlias, Alone
  <2>3. /\ \A t \in Sensors \ {s} : ser'[t] = ser[t]
        /\ ser'[s] = Alias(s) \/ ser'[s] = ser[s]
    BY <2>1, <2>2
  <2>4. \A t \in Sensors : pc'[t] = IF t = s THEN "serid" ELSE pc[t]
    BY <1>1 DEF WriteAlias, Go, LinkInv, TypeOK
  <2>5. UNCHANGED <<kind, link_lock_status, xlat, val>> /\ \A t \in Sensors : Alias(t)' = Alias(t)
    BY <1>1 DEF WriteAlias, regVars, Alias, Base
  <2> QED BY <2>3, <2>4, <2>5 DEF AddressInv, Heard
<1>2. CASE Translate(s)
  <2>1. PICK hit \in Hits(Alias(s)) : xlat' = [t \in Sensors |-> IF t \in hit THEN s ELSE xlat[t]]
    BY <1>2 DEF Translate
  <2>2. \A t \in hit : t = s
    BY <2>1, <1>2, ReachOwn DEF Hits, Translate, Alone
  <2>3. \A t \in Sensors : xlat'[t] \in {t, None}
    BY <2>1, <2>2 DEF AddressInv
  <2>4. \A t \in Sensors : pc'[t] = IF t = s THEN "enable" ELSE pc[t]
    BY <1>2 DEF Translate, Go, LinkInv, TypeOK
  <2>5. UNCHANGED <<kind, link_lock_status, ser, val>> /\ \A t \in Sensors : Alias(t)' = Alias(t)
    BY <1>2 DEF Translate, regVars, Alias, Base
  <2>6. pc[s] = "xlat"
    BY <1>2 DEF Translate
  <2> QED BY <2>3, <2>4, <2>5, <2>6 DEF AddressInv, Heard
<1>3. CASE LoadMarks(s)
  <2>1. \A t \in Sensors : pc'[t] = IF t = s THEN "mark" ELSE pc[t]
    BY <1>3 DEF LoadMarks, Go, LinkInv, TypeOK
  <2>2. \A t \in Sensors : val'[t] = IF t = s THEN link_lock_status ELSE val[t]
    BY <1>3 DEF LoadMarks, LinkInv, TypeOK
  <2>3. /\ UNCHANGED <<kind, link_lock_status, ser, xlat>> /\ pc[s] = "enable"
        /\ \A t \in Sensors : Alias(t)' = Alias(t)
    BY <1>3 DEF LoadMarks, regVars, busVars, Alias, Base
  <2> QED BY <2>1, <2>2, <2>3 DEF AddressInv, Heard
<1>4. CASE EnableLink(s)
  <2>1. \A t \in Sensors : pc'[t] = IF t = s THEN "restore" ELSE pc[t]
    BY <1>4 DEF EnableLink, Go, LinkInv, TypeOK
  <2>2. ser[s] = Alias(s) /\ link_lock_status' = val[s] \cup {s} /\ val[s] \subseteq link_lock_status
    BY <1>4 DEF EnableLink, AddressInv, Heard
  <2>3. \A t \in Sensors : pc'[t] # "mark"
    BY <1>4, <2>1 DEF EnableLink, LinkInv, HolderAlone, Holding, Setup
  <2>4. UNCHANGED <<kind, ser, xlat>> /\ \A t \in Sensors : Alias(t)' = Alias(t)
    BY <1>4 DEF EnableLink, busVars, Alias, Base
  <2> QED BY <2>1, <2>2, <2>3, <2>4 DEF AddressInv, Heard
<1> QED BY <1>1, <1>2, <1>3, <1>4

LEMMA AddressKeeps ==
    ASSUME LinkInv, AddressInv, TypeOK', [Next]_vars
    PROVE  AddressInv'
<1>0. crossed => crossed'
  BY CrossedStays DEF LinkInv
<1>1. CASE UNCHANGED vars
  BY <1>1 DEF vars, regVars, busVars, races, AddressInv, Alias, Base
<1>2. ASSUME NEW s \in Sensors,
             Probe(s) \/ Remove(s) \/ StreamOn(s) \/ StreamOff(s) \/ StreamStep(s)
      PROVE  AddressInv'
  <2>1. PICK label \in {"lock", "unbound", "start", "stop_read", "read", "oops", "write", "stop_write",
                        "table", "bound"} : Go(s, label)
    BY <1>2 DEF Probe, Remove, StreamOn, StreamOff, StreamStep, LockSerdes, Acquire, ReadStreams,
                WriteStreams, StartTable
  <2>2. UNCHANGED <<kind, link_lock_status, ser, xlat>>
    BY <1>2 DEF Probe, Remove, StreamOn, StreamOff, StreamStep, LockSerdes, Acquire, ReadStreams,
                WriteStreams, StartTable, regVars, busVars
  <2>3. \A t \in Sensors \ {s} : val'[t] = val[t]
    BY <1>2 DEF Probe, Remove, StreamOn, StreamOff, StreamStep, LockSerdes, Acquire, ReadStreams,
                WriteStreams, StartTable, LinkInv, TypeOK
  <2> QED BY <1>0, <2>1, <2>2, <2>3, PcStepKeeps DEF Heard
<1>3. ASSUME NEW s \in Sensors,
             LockLink(s) \/ Monopolize(s) \/ RestoreLink(s) \/ UnlockLink(s) \/ PowerOffOnError(s)
      PROVE  AddressInv'
  <2>1. PICK label \in {"mono", "alias", "unlock", "bound", "unbound", "restore"} : Go(s, label)
    BY <1>3 DEF LockLink, Monopolize, RestoreLink, UnlockLink, PowerOffOnError
  <2>2. UNCHANGED <<kind, link_lock_status, ser, xlat, val>>
    BY <1>3 DEF LockLink, Monopolize, RestoreLink, UnlockLink, PowerOffOnError, regVars, busVars
  <2> QED BY <1>0, <2>1, <2>2, PcStepKeeps DEF Heard
<1>4. ASSUME NEW s \in Sensors, ReadSerializerId(s) \/ PowerOn(s) \/ ReadSensorId(s)
      PROVE  AddressInv'
  <2>1. PICK label \in {"power", "id", "xlat", "off", "restore"} :
            Go(s, label) /\ (label \in Heard => Reach(Alias(s)) # {} \/ pc[s] \in Heard)
    BY <1>4 DEF ReadSerializerId, PowerOn, ReadSensorId, ErrExit, Heard
  <2>2. pc[s] \in {"serid", "power", "id"}
    BY <1>4 DEF ReadSerializerId, PowerOn, ReadSensorId
  <2>3. UNCHANGED <<kind, link_lock_status, ser, xlat, val>>
    BY <1>4 DEF ReadSerializerId, PowerOn, ReadSensorId, regVars, busVars
  <2>4. crossed \/ (label \in Heard => ser[s] = Alias(s))
    BY <2>1, <2>2, ReachOwn DEF Alone, AddressInv
  <2> QED BY <1>0, <2>1, <2>3, <2>4, PcStepKeeps
<1>5. ASSUME NEW s \in Sensors, WriteAlias(s) \/ Translate(s) \/ LoadMarks(s) \/ EnableLink(s)
      PROVE  AddressInv'
  <2>1. CASE crossed
    BY <1>0, <2>1 DEF AddressInv
  <2>2. CASE ~crossed
    BY <1>5, <2>2, AddressStepKeeps
  <2> QED BY <2>1, <2>2
<1> QED BY <1>1, <1>2, <1>3, <1>4, <1>5 DEF Next, SetupStep

(* Links apart, addresses apart. *)
LEMMA AliasesDiffer ==
    ASSUME NEW s \in Sensors, NEW t \in Sensors, s # t
    PROVE  Alias(s) # Alias(t)
BY SensorsAssumption DEF Alias, Base

(* Every marked camera has a serialiser of its own unless somebody crossed *)
(* a repeated setup.                                                       *)
THEOREM SerializersApart == Spec => []OwnSerializer
<1>1. Init => AddressInv
  BY DEF Init, AddressInv, Heard
<1>2. LinkInv /\ AddressInv /\ TypeOK' /\ [Next]_vars => AddressInv'
  BY AddressKeeps
<1>3. LinkInv /\ AddressInv => OwnSerializer
  <2> SUFFICES ASSUME LinkInv, AddressInv, ~crossed, NEW s \in link_lock_status
               PROVE  /\ ser[s] = Alias(s) /\ xlat[s] \in {s, None}
                      /\ \A t \in Sensors \ {s} : xlat[t] # s
                      /\ \A t \in link_lock_status \ {s} : ser[t] # ser[s]
    BY DEF OwnSerializer
  <2>1. link_lock_status \subseteq Sensors
    BY DEF LinkInv, TypeOK
  <2> QED BY <2>1, AliasesDiffer, NoneIsNobody DEF AddressInv
<1> QED BY <1>1, <1>2, <1>3, LinkInvInductive, TypeCorrect, PTL DEF Spec

-----------------------------------------------------------------------------
(***************************************************************************)
(* Second part: SensorRegs, for any callers and any number of calls, lost  *)
(* accesses and probes.  What is needed of the code of a call is stated    *)
(* once (Sound), shown of every call of every driver, and the invariants   *)
(* speak only of that and of the access a caller is at.                    *)
(***************************************************************************)
Exclusive == {"init", "start", "stop"}
Settings  == {"gain", "black", "filp", "test", "roi", "expo"}
Functions == UNION {[S -> Nat] : S \in SUBSET Fields}
Accesses  == [op : {"read", "write", "modify", "deser"}, f : Functions, skip : Nat]
CallsOf   == [name : Exclusive \cup Settings \cup {"none"}, code : Seq(Accesses), sets : Functions, writes : SUBSET Fields]
Lists(k)  == IF k \in Gmsl THEN {<<"pixel">>, <<"embed", "pixel">>, <<"pixel", "embed">>} ELSE {<< >>}

(* Fields a driver never sets to anything but 0, and those it keeps.       *)
Zero(k) == CASE k = "gmax3405" -> Rows
             [] k = "sc535"    -> Held \cup {"hold"}
             [] OTHER          -> Held \cup Rows \cup {"hold"}
Tracked(k) == (Held \cup Rows \cup {"stream"}) \ Zero(k)
(* What a driver needs of the path, apart from what stream_set opens.      *)
Made(k) == Needs(k) \ {"port", "pclk", "vid_tx", "map", "pipe"}

Writes(a, n) == a.op # "read" /\ n \in DOMAIN a.f
Final(code, i, n, v) ==
    /\ i \in 1 .. Len(code) /\ Writes(code[i], n)
    /\ \A j \in i .. Len(code) : Writes(code[j], n) => code[j].f[n] = v
Leaves(code, n, v) == \E i \in 1 .. Len(code) : Final(code, i, n, v)
Never(code, n)     == \A i \in 1 .. Len(code) : ~ Writes(code[i], n)
Only(code, n, v)   == \A i \in 1 .. Len(code) : Writes(code[i], n) => code[i].f[n] = v
Plain(code)        == \A i \in 1 .. Len(code) : code[i].op # "modify" /\ code[i].skip <= Len(code) - i

-----------------------------------------------------------------------------
(* What is true of the code of every call.                                 *)
Shaped(w) ==
    /\ w \in CallsOf /\ w.name \in Exclusive \cup Settings
    /\ DOMAIN w.sets \subseteq w.writes
    /\ \A i \in 1 .. Len(w.code) :
           /\ DOMAIN w.code[i].f \subseteq w.writes
           /\ w.code[i].skip <= Len(w.code) - i
           /\ w.code[i].skip > 0 => w.name \in Exclusive
           /\ w.code[i].op = "modify" =>
                  /\ w.name \notin Exclusive /\ i > 1 /\ w.code[i - 1].op = "read"
                  /\ DOMAIN w.code[i - 1].f \subseteq FLIP_H \cup {"flip_v"}

(* A call leaves behind what it sets and writes no other field that is     *)
(* compared.                                                               *)
Faithful(w, k) ==
    /\ \A n \in Zero(k) : Only(w.code, n, 0) /\ (n \in DOMAIN w.sets => w.sets[n] = 0)
    /\ \A n \in Tracked(k) :
           IF n \in DOMAIN w.sets THEN Leaves(w.code, n, w.sets[n]) ELSE Never(w.code, n)
    /\ w.name = "init" => Tracked(k) \subseteq DOMAIN w.sets
    /\ \A i \in 1 .. Len(w.code) : w.code[i].op = "modify" => k = "gmax3405"

(* The group hold of the GMAX3405 is released by the call that takes it,   *)
(* and the window changes only under it.                                   *)
Windowed(w) ==
    /\ \A i \in 1 .. Len(w.code) : Writes(w.code[i], "hold") =>
           \/ w.code[i].f["hold"] = 0
           \/ \E j \in i + 1 .. Len(w.code) : Writes(w.code[j], "hold") /\ w.code[j].f["hold"] = 0
    /\ w.name = "init" => \A n \in Held \cup {"hold"} : Only(w.code, n, 0)
    /\ w.name \notin {"init", "roi"} => w.writes \cap Window = {}
    /\ w.name \in {"init", "roi"} => /\ Window \subseteq DOMAIN w.sets
                                     /\ \A m, n \in Window : w.sets[m] = w.sets[n]
    /\ w.name # "test" => "hold" \in w.writes
    /\ w.name \in {"test", "roi"} => FLIP_H \subseteq w.writes
    /\ w.name = "roi" =>
           /\ Len(w.code) > 1 /\ Writes(w.code[1], "hold") /\ w.code[1].f["hold"] = 1
           /\ \A n \in Window : ~ Writes(w.code[1], n)
           /\ Writes(w.code[Len(w.code)], "hold") /\ w.code[Len(w.code)].f["hold"] = 0
           /\ \A n \in Window : ~ Writes(w.code[Len(w.code)], n)
           /\ \A i \in 2 .. Len(w.code) - 1 : ~ Writes(w.code[i], "hold")

(* A path is made and opened before the sensor is told to send.            *)
Piped(w, k, list) ==
    /\ w.name \in Exclusive => "stream" \in DOMAIN w.sets
    /\ w.name = "init" =>
           /\ \A n \in Made(k) : Leaves(w.code, n, 1)
           /\ IF k \in Gmsl THEN Only(w.code, "stream", 0) ELSE Len(w.code) > 0 /\ Writes(w.code[1], "stream")
    /\ w.name \in {"start", "stop"} => k \in Gmsl /\ \A n \in Made(k) : Never(w.code, n)
    /\ w.name = "start" /\ list[Len(list)] = "pixel" => \A n \in Needs(k) \ Made(k) : Leaves(w.code, n, 1)
    /\ w.name = "stop" => w.sets["stream"] = 0
    /\ \A i \in 1 .. Len(w.code) : Writes(w.code[i], "stream") /\ w.code[i].f["stream"] = 1 =>
           \A j \in i + 1 .. Len(w.code), n \in Needs(k) : ~ Writes(w.code[j], n)
    /\ w.name \in Settings => k \notin Gmsl /\ w.writes \cap (Needs(k) \cup {"stream"}) = {}

Sound(w, k, list) == /\ Shaped(w) /\ Faithful(w, k) /\ Piped(w, k, list)
                     /\ k = "gmax3405" => Windowed(w)

-----------------------------------------------------------------------------
(* The invariants.                                                         *)
RegsTypes ==
    /\ driver \in Kinds /\ streams \in Lists(driver)
    /\ reg \in [Fields -> Nat] /\ live \in [Held -> Nat] /\ asked \in [Fields -> Nat]
    /\ call \in [Callers -> CallsOf] /\ at \in [Callers -> Nat] /\ got \in [Callers -> Functions]
    /\ spoilt \in [Callers -> SUBSET Fields] /\ doubtful \subseteq Fields /\ unheld \in BOOLEAN
    /\ lost \in Nat /\ inits \in Nat
    /\ \A c \in Callers : /\ call[c] = NoCall \/ Sound(call[c], driver, streams)
                          /\ at[c] \in 1 .. Len(call[c].code) + 1

(* A probe and a stream_set are alone; who meets another knows it.         *)
MeetInv ==
    /\ \A c, o \in Callers : c # o /\ call[c].name \in Exclusive => Idle(o)
    /\ \A c, o \in Callers : c # o => call[c].writes \cap call[o].writes \subseteq spoilt[c]
    /\ \A c \in Callers : spoilt[c] \subseteq call[c].writes

(* What a call read is still there when it writes it back.                 *)
GotInv ==
    \A c \in Callers : Busy(c) /\ Access1(c).op = "modify" =>
        /\ DOMAIN got[c] = DOMAIN call[c].code[at[c] - 1].f
        /\ \A n \in DOMAIN got[c] : n \notin spoilt[c] => got[c][n] = reg[n]

ZeroInv == \A n \in Zero(driver) : reg[n] = 0 /\ asked[n] = 0 /\ (n \in Held => live[n] = 0)

Coming(c, n, v) ==
    \E i \in 1 .. Len(call[c].code) : Final(call[c].code, i, n, v) /\ (i < at[c] => reg[n] = v)
FieldInv ==
    \A n \in Tracked(driver) :
        /\ n \notin doubtful /\ (\A c \in Callers : n \notin call[c].writes) => reg[n] = asked[n]
        /\ \A c \in Callers : n \in call[c].writes /\ n \notin spoilt[c] =>
               IF n \in DOMAIN call[c].sets THEN Coming(c, n, call[c].sets[n])
               ELSE n \notin doubtful => reg[n] = asked[n]

(* The sensor uses what is written unless it is held, and then somebody is *)
(* about to release it.                                                    *)
Releasing(c) ==
    \E i \in at[c] .. Len(call[c].code) : Writes(call[c].code[i], "hold") /\ call[c].code[i].f["hold"] = 0
HoldInv ==
    /\ reg["hold"] = 0 => \A n \in Held : live[n] = reg[n]
    /\ reg["hold"] # 0 /\ ~unheld => \E c \in Callers : Releasing(c)
    /\ \A c \in Callers : driver = "gmax3405" /\ call[c].name = "init" =>
           reg["hold"] = 0 /\ \A n \in Held : reg[n] = 0

WindowInv ==
    driver = "gmax3405" =>
    /\ \A m, n \in Window : asked[m] = asked[n]
    /\ \A n \in Window : n \notin doubtful /\ (\A c \in Callers : n \notin call[c].writes) => live[n] = asked[n]
    /\ \A c \in Callers : call[c].name = "roi" =>
           /\ spoilt[c] = {} /\ at[c] <= Len(call[c].code) =>
                  /\ at[c] > 1 => reg["hold"] = 1
                  /\ \A n \in Window : n \notin doubtful => live[n] = asked[n]
           /\ at[c] > Len(call[c].code) =>
                  \A n \in Window : n \notin spoilt[c] => live[n] = call[c].sets[n]

(* Without losses a driver goes from made to open to sending.              *)
Open == \A n \in Needs(driver) : reg[n] = 1
Rest(c) == \A i \in at[c] .. Len(call[c].code), n \in Needs(driver) : ~ Writes(call[c].code[i], n)
PathInv ==
    lost = 0 =>
    /\ "stream" \notin doubtful /\ \A c \in Callers : "stream" \notin spoilt[c]
    /\ inits = 0 => AllIdle
    /\ inits > 0 /\ (\A c \in Callers : call[c].name # "init") => \A n \in Made(driver) : reg[n] = 1
    /\ driver \in Gmsl => \A c \in Callers : call[c].name = "init" => reg["stream"] = 0
    /\ \A c \in Callers : call[c].name = "init" => \A n \in Made(driver) : Coming(c, n, 1)
    /\ (driver \in Gmsl => streams[Len(streams)] = "pixel") =>
           /\ (\A c \in Callers : call[c].name \notin Exclusive) /\ reg["stream"] = 1 => Open
           /\ \A c \in Callers : call[c].name = "start" => \A n \in Needs(driver) \ Made(driver) : Coming(c, n, 1)
           /\ \A c \in Callers : call[c].name \in {"init", "start"} /\ reg["stream"] = 1 =>
                  Open /\ (Rest(c) \/ (call[c].name = "init" /\ at[c] = 1))
-----------------------------------------------------------------------------
(* Functions of fields and what Over makes of them. *)
LEMMA FunctionIs ==
    ASSUME NEW f \in Functions
    PROVE  DOMAIN f \subseteq Fields /\ \A n \in DOMAIN f : f[n] \in Nat
BY DEF Functions

LEMMA FunctionMade ==
    ASSUME NEW S \in SUBSET Fields, NEW f \in [S -> Nat]
    PROVE  f \in Functions
BY DEF Functions

LEMMA OverFull ==
    ASSUME NEW f \in Functions, NEW g \in [Fields -> Nat]
    PROVE  /\ Over(f, g) \in [Fields -> Nat]
           /\ \A n \in Fields : Over(f, g)[n] = IF n \in DOMAIN f THEN f[n] ELSE g[n]
<1>1. DOMAIN f \cup DOMAIN g = Fields
  BY FunctionIs
<1>2. \A n \in Fields : (IF n \in DOMAIN f THEN f[n] ELSE g[n]) \in Nat
  BY FunctionIs
<1> QED BY <1>1, <1>2 DEF Over

LEMMA OverPart ==
    ASSUME NEW f \in Functions, NEW g \in Functions
    PROVE  /\ Over(f, g) \in Functions /\ DOMAIN Over(f, g) = DOMAIN f \cup DOMAIN g
           /\ \A n \in DOMAIN f \cup DOMAIN g : Over(f, g)[n] = IF n \in DOMAIN f THEN f[n] ELSE g[n]
<1>1. DOMAIN f \cup DOMAIN g \in SUBSET Fields
  BY FunctionIs
<1>2. \A n \in DOMAIN f \cup DOMAIN g : (IF n \in DOMAIN f THEN f[n] ELSE g[n]) \in Nat
  BY FunctionIs
<1>3. Over(f, g) \in [DOMAIN f \cup DOMAIN g -> Nat]
  BY <1>2 DEF Over
<1>4. Over(f, g) \in Functions
  BY <1>1, <1>3, FunctionMade
<1> QED BY <1>4 DEF Over

LEMMA SetIs ==
    ASSUME NEW S \in SUBSET Fields, NEW v \in Nat
    PROVE  Set(S, v) \in Functions /\ DOMAIN Set(S, v) = S /\ \A n \in S : Set(S, v)[n] = v
<1>1. Set(S, v) \in [S -> Nat]
  BY DEF Set
<1> QED BY <1>1, FunctionMade DEF Set

LEMMA FieldNames ==
    /\ Window \subseteq Held /\ FLIP_H \subseteq Held /\ Black \subseteq Held /\ "flip_v" \in Held /\ "gain" \in Held
    /\ Held \subseteq Sensor /\ Rows \subseteq Sensor /\ {"hold", "fmt", "clock", "stream"} \subseteq Sensor
    /\ Sensor \subseteq Fields /\ Path \subseteq Fields
    /\ "hold" \notin Held \cup Rows /\ "stream" \notin Held \cup Rows /\ Held \cap Rows = {}
    /\ Window \cap (FLIP_H \cup {"flip_v"}) = {} /\ Path \cap Sensor = {}
BY DEF Window, FLIP_H, Black, Held, Rows, Sensor, Fields, Path

LEMMA NeedsAre ==
    ASSUME NEW k \in Kinds
    PROVE  /\ Needs(k) \subseteq {"fmt", "clock"} \cup Path /\ Made(k) \subseteq Needs(k)
           /\ Needs(k) \subseteq Fields
           /\ k \notin Gmsl => Made(k) = Needs(k)
           /\ Needs(k) \cap (Held \cup Rows \cup {"hold", "stream"}) = {}
BY DEF Kinds, Parallel, Gmsl, Needs, Made, Path, Fields, Sensor, Held, Rows, Window, FLIP_H, Black

LEMMA ZeroIs ==
    ASSUME NEW k \in Kinds
    PROVE  /\ Zero(k) \subseteq Held \cup Rows \cup {"hold"} /\ Zero(k) \subseteq Fields /\ Tracked(k) \subseteq Fields
           /\ Tracked(k) = (Held \cup Rows \cup {"stream"}) \ Zero(k) /\ "stream" \in Tracked(k)
           /\ k = "gmax3405" => Zero(k) = Rows /\ Held \subseteq Tracked(k)
           /\ k # "gmax3405" => Held \cup {"hold"} \subseteq Zero(k)
<1>1. Zero(k) = IF k = "gmax3405" THEN Rows ELSE IF k = "sc535" THEN Held \cup {"hold"} ELSE Held \cup Rows \cup {"hold"}
  BY DEF Zero
<1> QED BY <1>1, FieldNames DEF Tracked

LEMMA NoCallIs ==
    /\ NoCall \in CallsOf /\ NoCall.name = "none" /\ NoCall.code = << >>
    /\ Len(NoCall.code) = 0 /\ NoCall.writes = {} /\ NoCall.sets = Set({}, 0) /\ DOMAIN NoCall.sets = {}
<1>1. Set({}, 0) \in Functions /\ DOMAIN Set({}, 0) = {}
  BY SetIs
<1>2. NoCall = [name |-> "none", code |-> << >>, sets |-> Set({}, 0), writes |-> UNION {Touched(<< >>[i]) : i \in DOMAIN << >>}]
  BY DEF NoCall, Call
<1>3. UNION {Touched(<< >>[i]) : i \in DOMAIN << >>} = {}
  <2>1. DOMAIN << >> = {}
    OBVIOUS
  <2> QED BY <2>1, Zenon
<1>4. << >> \in Seq(Accesses) /\ Len(<< >>) = 0
  BY EmptySeq, SMT
<1>5. NoCall = [name |-> "none", code |-> << >>, sets |-> Set({}, 0), writes |-> {}]
  BY <1>2, <1>3
<1>6. {} \in SUBSET Fields
  OBVIOUS
<1>7. NoCall \in CallsOf
  BY <1>1, <1>4, <1>5, <1>6 DEF CallsOf
<1> QED BY <1>1, <1>4, <1>5, <1>7

-----------------------------------------------------------------------------
(* Accesses, and the calls made of them.                                   *)
LEMMA WIs ==
    ASSUME NEW names, NEW v
    PROVE  /\ W(names, v).op = "write" /\ W(names, v).skip = 0 /\ DOMAIN W(names, v).f = names
           /\ \A n \in names : W(names, v).f[n] = v
           /\ \A n : Writes(W(names, v), n) <=> n \in names
           /\ Touched(W(names, v)) = names
           /\ names \in SUBSET Fields /\ v \in Nat => W(names, v) \in Accesses
<1>1. W(names, v) = [op |-> "write", f |-> Set(names, v), skip |-> 0]
  BY DEF W, Access
<1>2. DOMAIN Set(names, v) = names /\ \A n \in names : Set(names, v)[n] = v
  BY DEF Set
<1>3. names \in SUBSET Fields /\ v \in Nat => Set(names, v) \in Functions
  BY SetIs
<1> QED BY <1>1, <1>2, <1>3 DEF Writes, Touched, Accesses

LEMMA DesIs ==
    ASSUME NEW names, NEW v
    PROVE  /\ Des(names, v).op = "deser" /\ Des(names, v).skip = 0 /\ DOMAIN Des(names, v).f = names
           /\ \A n \in names : Des(names, v).f[n] = v
           /\ \A n : Writes(Des(names, v), n) <=> n \in names
           /\ Touched(Des(names, v)) = names
           /\ names \in SUBSET Fields /\ v \in Nat => Des(names, v) \in Accesses
<1>1. Des(names, v) = [op |-> "deser", f |-> Set(names, v), skip |-> 0]
  BY DEF Des, Access
<1>2. DOMAIN Set(names, v) = names /\ \A n \in names : Set(names, v)[n] = v
  BY DEF Set
<1>3. names \in SUBSET Fields /\ v \in Nat => Set(names, v) \in Functions
  BY SetIs
<1> QED BY <1>1, <1>2, <1>3 DEF Writes, Touched, Accesses

LEMMA ReadIs ==
    ASSUME NEW names
    PROVE  /\ ReadReg(names).op = "read" /\ ReadReg(names).skip = 0 /\ DOMAIN ReadReg(names).f = names
           /\ \A n : ~ Writes(ReadReg(names), n)
           /\ Touched(ReadReg(names)) = names
           /\ names \in SUBSET Fields => ReadReg(names) \in Accesses
<1>1. ReadReg(names) = [op |-> "read", f |-> Set(names, 0), skip |-> 0]
  BY DEF ReadReg, Access
<1>2. DOMAIN Set(names, 0) = names
  BY DEF Set
<1>3. names \in SUBSET Fields => Set(names, 0) \in Functions
  BY SetIs
<1> QED BY <1>1, <1>2, <1>3 DEF Writes, Touched, Accesses

LEMMA ModifyIs ==
    ASSUME NEW m, NEW v
    PROVE  /\ Modify(m, v).op = "modify" /\ Modify(m, v).skip = 0 /\ Modify(m, v).f[m] = v
           /\ \A n : Writes(Modify(m, v), n) <=> n = m
           /\ Touched(Modify(m, v)) = IF m \in FLIP_H THEN FLIP_H ELSE {m}
           /\ m \in Fields /\ v \in Nat => Modify(m, v) \in Accesses
<1>1. Modify(m, v) = [op |-> "modify", f |-> Set({m}, v), skip |-> 0]
  BY DEF Modify, Access
<1>2. DOMAIN Set({m}, v) = {m} /\ Set({m}, v)[m] = v
  BY DEF Set
<1>3. m \in Fields /\ v \in Nat => Set({m}, v) \in Functions
  BY SetIs
<1> QED BY <1>1, <1>2, <1>3 DEF Writes, Touched, Accesses

LEMMA CallMade ==
    ASSUME NEW name \in Exclusive \cup Settings, NEW code \in Seq(Accesses), NEW sets \in Functions
    PROVE  /\ Call(name, code, sets) \in CallsOf /\ Call(name, code, sets).name = name
           /\ Call(name, code, sets).code = code /\ Call(name, code, sets).sets = sets
           /\ \A n : n \in Call(name, code, sets).writes <=> \E i \in 1 .. Len(code) : n \in Touched(code[i])
           /\ \A i \in 1 .. Len(code) : DOMAIN code[i].f \subseteq Call(name, code, sets).writes
           /\ \A i \in 1 .. Len(code), n \in Fields : Writes(code[i], n) => n \in Call(name, code, sets).writes
<1> DEFINE writes == UNION {Touched(code[i]) : i \in DOMAIN code}
<1>1. Call(name, code, sets) = [name |-> name, code |-> code, sets |-> sets, writes |-> writes]
  BY DEF Call
<1>2. DOMAIN code = 1 .. Len(code)
  OBVIOUS
<1>3. \A n : n \in writes <=> \E i \in 1 .. Len(code) : n \in Touched(code[i])
  BY <1>2
<1>4. ASSUME NEW i \in 1 .. Len(code)
      PROVE  /\ Touched(code[i]) \subseteq Fields /\ DOMAIN code[i].f \subseteq Touched(code[i])
             /\ \A n : Writes(code[i], n) => n \in DOMAIN code[i].f
  <2>1. code[i] \in Accesses
    OBVIOUS
  <2>2. DOMAIN code[i].f \subseteq Fields
    BY <2>1, FunctionIs DEF Accesses
  <2> QED BY <2>2, FieldNames DEF Touched, Writes
<1>5. writes \in SUBSET Fields
  BY <1>3, <1>4
<1>6. \A i \in 1 .. Len(code) : DOMAIN code[i].f \subseteq writes
  BY <1>3, <1>4
<1> HIDE DEF writes
<1> QED BY <1>1, <1>3, <1>4, <1>5, <1>6 DEF CallsOf

LEMMA TableIs ==
    ASSUME NEW t \in Seq(Accesses)
    PROVE  /\ sensor_write_table(t) \in Seq(Accesses) /\ Len(sensor_write_table(t)) = Len(t)
           /\ \A i \in 1 .. Len(t) : /\ sensor_write_table(t)[i].op = t[i].op
                                     /\ sensor_write_table(t)[i].f = t[i].f
                                     /\ sensor_write_table(t)[i].skip = Len(t) - i
                                     /\ Touched(sensor_write_table(t)[i]) = Touched(t[i])
                                     /\ \A n : Writes(sensor_write_table(t)[i], n) <=> Writes(t[i], n)
<1>1. DOMAIN t = 1 .. Len(t) /\ Len(t) \in Nat
  OBVIOUS
<1>2. sensor_write_table(t) = [i \in 1 .. Len(t) |-> [t[i] EXCEPT !.skip = Len(t) - i]]
  BY <1>1 DEF sensor_write_table
<1>3. ASSUME NEW i \in 1 .. Len(t)
      PROVE  /\ [t[i] EXCEPT !.skip = Len(t) - i] \in Accesses
             /\ [t[i] EXCEPT !.skip = Len(t) - i].op = t[i].op /\ [t[i] EXCEPT !.skip = Len(t) - i].f = t[i].f
             /\ [t[i] EXCEPT !.skip = Len(t) - i].skip = Len(t) - i
  <2>1. t[i] \in Accesses /\ Len(t) - i \in Nat
    BY <1>1
  <2> QED BY <2>1 DEF Accesses
<1>4. sensor_write_table(t) \in Seq(Accesses) /\ Len(sensor_write_table(t)) = Len(t)
  BY <1>1, <1>2, <1>3
<1>5. \A i \in 1 .. Len(t) : /\ sensor_write_table(t)[i].op = t[i].op
                             /\ sensor_write_table(t)[i].f = t[i].f
                             /\ sensor_write_table(t)[i].skip = Len(t) - i
  BY <1>2, <1>3
<1> QED BY <1>4, <1>5 DEF Touched, Writes

LEMMA LeavesBy ==
    ASSUME NEW code \in Seq(Accesses), NEW n, NEW v, NEW i \in 1 .. Len(code), Writes(code[i], n), code[i].f[n] = v,
           Only(code, n, v) \/ \A j \in i + 1 .. Len(code) : ~ Writes(code[j], n)
    PROVE  Leaves(code, n, v)
<1>1. Len(code) \in Nat
  OBVIOUS
<1>2. ASSUME NEW j \in i .. Len(code), Writes(code[j], n)
      PROVE  code[j].f[n] = v
  <2>1. j \in 1 .. Len(code)
    BY <1>1
  <2>2. CASE Only(code, n, v)
    BY <1>2, <2>1, <2>2 DEF Only
  <2>3. CASE \A q \in i + 1 .. Len(code) : ~ Writes(code[q], n)
    <3>1. j = i
      BY <1>1, <1>2, <2>3
    <3> QED BY <3>1
  <2> QED BY <2>2, <2>3
<1> QED BY <1>2 DEF Leaves, Final

LEMMA Joined ==
    ASSUME NEW s \in Seq(Accesses), NEW t \in Seq(Accesses)
    PROVE  /\ s \o t \in Seq(Accesses) /\ Len(s \o t) = Len(s) + Len(t)
           /\ \A i \in 1 .. Len(s) : (s \o t)[i] = s[i]
           /\ \A i \in 1 .. Len(t) : (s \o t)[Len(s) + i] = t[i]
           /\ \A i \in Len(s) + 1 .. Len(s) + Len(t) : (s \o t)[i] = t[i - Len(s)]
<1>1. s \o t \in Seq(Accesses) /\ Len(s \o t) = Len(s) + Len(t)
  BY ConcatProperties
<1>2. \A i \in 1 .. Len(s) + Len(t) : (s \o t)[i] = IF i <= Len(s) THEN s[i] ELSE t[i - Len(s)]
  BY ConcatProperties
<1>3. Len(s) \in Nat /\ Len(t) \in Nat
  OBVIOUS
<1>4. ASSUME NEW i \in 1 .. Len(s)
      PROVE  (s \o t)[i] = s[i]
  <2>1. i \in 1 .. Len(s) + Len(t) /\ i <= Len(s)
    BY <1>3
  <2> QED BY <1>2, <2>1
<1>5. ASSUME NEW i \in Len(s) + 1 .. Len(s) + Len(t)
      PROVE  (s \o t)[i] = t[i - Len(s)]
  <2>1. i \in 1 .. Len(s) + Len(t) /\ ~ (i <= Len(s))
    BY <1>3
  <2> QED BY <1>2, <2>1
<1>6. ASSUME NEW i \in 1 .. Len(t)
      PROVE  (s \o t)[Len(s) + i] = t[i]
  <2>1. Len(s) + i \in Len(s) + 1 .. Len(s) + Len(t) /\ Len(s) + i - Len(s) = i
    BY <1>3
  <2> QED BY <1>5, <2>1
<1> QED BY <1>1, <1>4, <1>5, <1>6

LEMMA JoinedWrites ==
    ASSUME NEW s \in Seq(Accesses), NEW t \in Seq(Accesses), NEW n
    PROVE  /\ Never(s, n) /\ Never(t, n) => Never(s \o t, n)
           /\ \A v : Only(s, n, v) /\ Only(t, n, v) => Only(s \o t, n, v)
           /\ \A v : Leaves(t, n, v) => Leaves(s \o t, n, v)
           /\ \A v : Leaves(s, n, v) /\ (Never(t, n) \/ Only(t, n, v)) => Leaves(s \o t, n, v)
<1>1. Len(s) \in Nat /\ Len(t) \in Nat /\ Len(s \o t) = Len(s) + Len(t)
  BY Joined
<1>2. /\ \A i \in 1 .. Len(s) : (s \o t)[i] = s[i] /\ i \in 1 .. Len(s \o t)
      /\ \A i \in 1 .. Len(t) : (s \o t)[Len(s) + i] = t[i] /\ Len(s) + i \in 1 .. Len(s \o t)
      /\ \A i \in 1 .. Len(s \o t) : i \in 1 .. Len(s) \/ (i - Len(s) \in 1 .. Len(t) /\ (s \o t)[i] = t[i - Len(s)])
  <2>1. \A i \in 1 .. Len(s \o t) : i \in 1 .. Len(s) \/ (i - Len(s) \in 1 .. Len(t) /\ i \in Len(s) + 1 .. Len(s) + Len(t))
    BY <1>1
  <2>2. /\ \A i \in 1 .. Len(s) : (s \o t)[i] = s[i]
        /\ \A i \in 1 .. Len(t) : (s \o t)[Len(s) + i] = t[i]
        /\ \A i \in Len(s) + 1 .. Len(s) + Len(t) : (s \o t)[i] = t[i - Len(s)]
    BY Joined
  <2>3. /\ \A i \in 1 .. Len(s) : i \in 1 .. Len(s \o t)
        /\ \A i \in 1 .. Len(t) : Len(s) + i \in 1 .. Len(s \o t)
    BY <1>1
  <2> QED BY <2>1, <2>2, <2>3
<1>3. Never(s, n) /\ Never(t, n) => Never(s \o t, n)
  BY <1>2 DEF Never
<1>4. \A v : Only(s, n, v) /\ Only(t, n, v) => Only(s \o t, n, v)
  BY <1>2 DEF Only
<1>5. ASSUME NEW v, Leaves(t, n, v)
      PROVE  Leaves(s \o t, n, v)
  <2>1. PICK i \in 1 .. Len(t) : Final(t, i, n, v)
    BY <1>5 DEF Leaves
  <2>2. Len(s) + i \in 1 .. Len(s \o t) /\ Writes((s \o t)[Len(s) + i], n)
    BY <1>2, <2>1 DEF Final
  <2>3. ASSUME NEW j \in Len(s) + i .. Len(s \o t), Writes((s \o t)[j], n)
        PROVE  (s \o t)[j].f[n] = v
    <3>1. j \in 1 .. Len(s \o t) /\ j \notin 1 .. Len(s) /\ j - Len(s) >= i
      BY <1>1
    <3>2. j - Len(s) \in i .. Len(t) /\ (s \o t)[j] = t[j - Len(s)]
      BY <1>1, <1>2, <3>1
    <3> QED BY <2>1, <2>3, <3>2 DEF Final
  <2>4. Final(s \o t, Len(s) + i, n, v)
    BY <2>2, <2>3 DEF Final
  <2> QED BY <2>2, <2>4 DEF Leaves
<1>6. ASSUME NEW v, Leaves(s, n, v), Never(t, n) \/ Only(t, n, v)
      PROVE  Leaves(s \o t, n, v)
  <2>1. PICK i \in 1 .. Len(s) : Final(s, i, n, v)
    BY <1>6 DEF Leaves
  <2>2. i \in 1 .. Len(s \o t) /\ Writes((s \o t)[i], n)
    BY <1>2, <2>1 DEF Final
  <2>3. ASSUME NEW j \in i .. Len(s \o t), Writes((s \o t)[j], n)
        PROVE  (s \o t)[j].f[n] = v
    <3>1. j \in 1 .. Len(s \o t)
      BY <1>1
    <3>2. CASE j \in 1 .. Len(s)
      <4>1. j \in i .. Len(s) /\ (s \o t)[j] = s[j]
        BY <1>1, <1>2, <2>3, <3>2
      <4>2. \A q \in i .. Len(s) : Writes(s[q], n) => s[q].f[n] = v
        BY <2>1 DEF Final
      <4> QED BY <2>3, <4>1, <4>2
    <3>3. CASE j \notin 1 .. Len(s)
      <4>1. j - Len(s) \in 1 .. Len(t) /\ (s \o t)[j] = t[j - Len(s)]
        BY <1>2, <3>1, <3>3
      <4> QED BY <1>6, <2>3, <4>1 DEF Never, Only
    <3> QED BY <3>2, <3>3
  <2>4. Final(s \o t, i, n, v)
    BY <2>2, <2>3 DEF Final
  <2> QED BY <2>2, <2>4 DEF Leaves
<1> QED BY <1>3, <1>4, <1>5, <1>6

LEMMA OverSets ==
    ASSUME NEW S \in SUBSET Fields, NEW T \in SUBSET Fields, NEW v \in Nat, NEW u \in Nat
    PROVE  /\ Over(Set(S, v), Set(T, u)) \in Functions /\ DOMAIN Over(Set(S, v), Set(T, u)) = S \cup T
           /\ \A n \in S : Over(Set(S, v), Set(T, u))[n] = v
           /\ \A n \in T \ S : Over(Set(S, v), Set(T, u))[n] = u
<1>1. /\ Set(S, v) \in Functions /\ DOMAIN Set(S, v) = S /\ \A n \in S : Set(S, v)[n] = v
      /\ Set(T, u) \in Functions /\ DOMAIN Set(T, u) = T /\ \A n \in T : Set(T, u)[n] = u
  BY SetIs
<1> QED BY <1>1, OverPart

-----------------------------------------------------------------------------
(* The settings of the GMAX3405.                                           *)
LEMMA NamesAre ==
    /\ Settings = {"gain", "black", "filp", "test", "roi", "expo"} /\ Exclusive = {"init", "start", "stop"}
    /\ Settings \cap Exclusive = {}
    /\ "gmax3405" \in Kinds /\ "gmax3405" \notin Gmsl /\ "sc535" \in Kinds /\ "sc535" \notin Gmsl
    /\ Kinds = {"gmax3405", "sc535"} \cup Gmsl
BY DEF Settings, Exclusive, Kinds, Parallel, Gmsl

LEMMA GmaxSetting ==
    ASSUME NEW name \in Settings, NEW code \in Seq(Accesses), NEW sets \in Functions, NEW list,
           DOMAIN sets \subseteq Held,
           \A n \in DOMAIN sets : Only(code, n, sets[n]) /\ \E i \in 1 .. Len(code) : Writes(code[i], n),
           \A i \in 1 .. Len(code) :
               /\ code[i].skip = 0 /\ Touched(code[i]) \subseteq Held \cup {"hold"}
               /\ \A n : Writes(code[i], n) => n \in DOMAIN sets \cup {"hold"}
               /\ code[i].op = "modify" => /\ i > 1 /\ code[i - 1].op = "read"
                                           /\ DOMAIN code[i - 1].f \subseteq FLIP_H \cup {"flip_v"},
           Windowed(Call(name, code, sets))
    PROVE  Sound(Call(name, code, sets), "gmax3405", list)
<1> DEFINE w == Call(name, code, sets)
<1>1. /\ w \in CallsOf /\ w.name = name /\ w.code = code /\ w.sets = sets
      /\ \A n : n \in w.writes <=> \E i \in 1 .. Len(code) : n \in Touched(code[i])
      /\ \A i \in 1 .. Len(code) : DOMAIN code[i].f \subseteq w.writes
      /\ \A i \in 1 .. Len(code), n \in Fields : Writes(code[i], n) => n \in w.writes
  BY CallMade
<1> HIDE DEF w
<1>2. name \notin Exclusive /\ name # "init" /\ name # "start" /\ name # "stop"
  BY NamesAre
<1>3. w.writes \subseteq Held \cup {"hold"}
  BY <1>1
<1>4. DOMAIN sets \subseteq w.writes
  BY <1>1, FieldNames
<1>5. Shaped(w)
  <2>1. \A i \in 1 .. Len(code) : 0 <= Len(code) - i
    OBVIOUS
  <2> QED BY <1>1, <1>2, <1>4, <2>1 DEF Shaped
<1>6. Zero("gmax3405") = Rows /\ Tracked("gmax3405") \subseteq Held \cup {"stream"}
  BY NamesAre, ZeroIs
<1>7. Faithful(w, "gmax3405")
  <2>1. \A n \in Zero("gmax3405") : Only(w.code, n, 0) /\ n \notin DOMAIN w.sets
    <3>1. \A n \in Rows : n \notin Held \cup {"hold"} /\ n \notin DOMAIN sets
      BY FieldNames
    <3> QED BY <1>1, <1>6, <3>1 DEF Only
  <2>2. ASSUME NEW n \in Tracked("gmax3405")
        PROVE  IF n \in DOMAIN w.sets THEN Leaves(w.code, n, w.sets[n]) ELSE Never(w.code, n)
    <3>1. CASE n \in DOMAIN sets
      <4>1. PICK i \in 1 .. Len(code) : Writes(code[i], n)
        BY <3>1
      <4>2. Only(code, n, sets[n])
        BY <3>1
      <4>3. code[i].f[n] = sets[n]
        BY <4>1, <4>2 DEF Only
      <4>4. Leaves(code, n, sets[n])
        BY <4>1, <4>2, <4>3, LeavesBy
      <4> QED BY <1>1, <3>1, <4>4
    <3>2. CASE n \notin DOMAIN sets
      <4>1. n # "hold"
        BY <1>6, FieldNames
      <4> QED BY <1>1, <3>2, <4>1 DEF Never
    <3> QED BY <3>1, <3>2
  <2> QED BY <1>1, <1>2, <2>1, <2>2 DEF Faithful
<1>8. w.writes \cap (Needs("gmax3405") \cup {"stream"}) = {} /\ DOMAIN sets \cap {"stream"} = {}
  BY <1>3, NamesAre, NeedsAre, FieldNames
<1>9. Piped(w, "gmax3405", list)
  <2>1. \A i \in 1 .. Len(w.code) : ~ Writes(w.code[i], "stream")
    BY <1>1, FieldNames
  <2> QED BY <1>1, <1>2, <1>8, <2>1, NamesAre DEF Piped
<1>10. Windowed(w)
  BY DEF w
<1>11. Sound(w, "gmax3405", list)
  BY <1>5, <1>7, <1>9, <1>10 DEF Sound
<1> QED BY <1>11 DEF w

(* Every setting but the window and the test picture holds the others off, *)
(* and keeps to its own fields.                                            *)
LEMMA HeldSetting ==
    ASSUME NEW name \in Settings \ {"roi", "test"}, NEW code \in Seq(Accesses), NEW sets \in Functions,
           NEW last \in Nat, Len(code) = last, last > 1,
           Writes(code[1], "hold"), code[1].f["hold"] = 1, Writes(code[last], "hold"), code[last].f["hold"] = 0,
           "hold" \in Touched(code[1]),
           \A i \in 2 .. last - 1 : ~ Writes(code[i], "hold"),
           \A i \in 1 .. Len(code) : Touched(code[i]) \cap Window = {}
    PROVE  Windowed(Call(name, code, sets))
<1> DEFINE w == Call(name, code, sets)
<1>1. /\ w.name = name /\ w.code = code
      /\ \A n : n \in w.writes <=> \E i \in 1 .. Len(code) : n \in Touched(code[i])
  BY CallMade
<1> HIDE DEF w
<1>2. name # "init" /\ name # "roi" /\ name # "test"
  BY NamesAre
<1>3. ASSUME NEW i \in 1 .. Len(w.code), Writes(w.code[i], "hold")
      PROVE  \/ w.code[i].f["hold"] = 0
             \/ \E j \in i + 1 .. Len(w.code) : Writes(w.code[j], "hold") /\ w.code[j].f["hold"] = 0
  <2>1. i = 1 \/ i = last
    BY <1>1, <1>3
  <2>2. last \in 1 + 1 .. Len(w.code)
    BY <1>1
  <2> QED BY <1>1, <2>1, <2>2
<1>4. w.writes \cap Window = {} /\ "hold" \in w.writes
  <2>1. 1 \in 1 .. Len(code)
    OBVIOUS
  <2> QED BY <1>1, <2>1
<1>5. Windowed(w)
  BY <1>1, <1>2, <1>3, <1>4 DEF Windowed
<1> QED BY <1>5 DEF w

LEMMA GainSound ==
    ASSUME NEW v \in {0, 1}, NEW list
    PROVE  Sound(Call("gain", gmx3405_sensor_set_gain(v), Set({"gain"}, v)), "gmax3405", list)
<1> DEFINE code == gmx3405_sensor_set_gain(v)
<1>1. code = << W({"hold"}, 1), W({"gain"}, v), W({"hold"}, 0) >>
  BY DEF gmx3405_sensor_set_gain, Hold
<1>2. {"hold"} \in SUBSET Fields /\ {"gain"} \in SUBSET Fields /\ v \in Nat /\ 0 \in Nat /\ 1 \in Nat
  BY FieldNames
<1>3. W({"hold"}, 1) \in Accesses /\ W({"hold"}, 0) \in Accesses /\ W({"gain"}, v) \in Accesses
  BY <1>2, WIs
<1>4. /\ code \in Seq(Accesses) /\ Len(code) = 3
      /\ code[1] = W({"hold"}, 1) /\ code[2] = W({"gain"}, v) /\ code[3] = W({"hold"}, 0)
  BY <1>1, <1>3
<1> HIDE DEF code
<1>5. \A i \in 1 .. 3 : i = 1 \/ i = 2 \/ i = 3
  OBVIOUS
<1>6. Set({"gain"}, v) \in Functions /\ DOMAIN Set({"gain"}, v) = {"gain"} /\ Set({"gain"}, v)["gain"] = v
  BY <1>2, SetIs
<1>7. "gain" \in Settings \ {"roi", "test"} /\ "gain" \notin Window
  BY NamesAre DEF Window
<1>8. /\ \A i \in 1 .. 3 : code[i].op = "write" /\ code[i].skip = 0
      /\ \A n : Writes(code[1], n) <=> n = "hold"
      /\ \A n : Writes(code[2], n) <=> n = "gain"
      /\ \A n : Writes(code[3], n) <=> n = "hold"
      /\ code[1].f["hold"] = 1 /\ code[2].f["gain"] = v /\ code[3].f["hold"] = 0
      /\ Touched(code[1]) = {"hold"} /\ Touched(code[2]) = {"gain"} /\ Touched(code[3]) = {"hold"}
  BY <1>4, <1>5, WIs
<1>9. Windowed(Call("gain", code, Set({"gain"}, v)))
  <2>1. \A i \in 2 .. 3 - 1 : i = 2
    OBVIOUS
  <2>2. "hold" \notin Window
    BY FieldNames
  <2>3. \A i \in 1 .. Len(code) : Touched(code[i]) \cap Window = {}
    BY <1>4, <1>5, <1>7, <1>8, <2>2
  <2> QED BY <1>4, <1>6, <1>7, <1>8, <2>1, <2>3, HeldSetting
<1>10. Only(code, "gain", v) /\ \E i \in 1 .. Len(code) : Writes(code[i], "gain")
  BY <1>4, <1>5, <1>8 DEF Only
<1>11. \A i \in 1 .. Len(code) :
           /\ code[i].skip = 0 /\ Touched(code[i]) \subseteq Held \cup {"hold"}
           /\ \A n : Writes(code[i], n) => n \in {"gain", "hold"}
           /\ code[i].op # "modify"
  BY <1>4, <1>5, <1>8, FieldNames
<1> QED BY <1>4, <1>6, <1>7, <1>9, <1>10, <1>11, GmaxSetting, FieldNames DEF code

LEMMA BlackSound ==
    ASSUME NEW v \in {0, 1}, NEW list
    PROVE  Sound(Call("black", gmax3405_sensor_set_black_level(v), Set(Black, v)), "gmax3405", list)
<1> DEFINE code == gmax3405_sensor_set_black_level(v)
<1>1. code = << W({"hold"}, 1), W({"doff_odd"}, v), W({"doff_even"}, v), W({"hold"}, 0) >>
  BY DEF gmax3405_sensor_set_black_level, Hold
<1>2. /\ Black \in SUBSET Fields /\ Black = {"doff_odd", "doff_even"} /\ {"hold"} \in SUBSET Fields
      /\ {"doff_odd"} \in SUBSET Fields /\ {"doff_even"} \in SUBSET Fields
      /\ v \in Nat /\ 0 \in Nat /\ 1 \in Nat
  BY FieldNames DEF Black
<1>3. /\ W({"hold"}, 1) \in Accesses /\ W({"hold"}, 0) \in Accesses
      /\ W({"doff_odd"}, v) \in Accesses /\ W({"doff_even"}, v) \in Accesses
  BY <1>2, WIs
<1>4. /\ code \in Seq(Accesses) /\ Len(code) = 4
      /\ code[1] = W({"hold"}, 1) /\ code[2] = W({"doff_odd"}, v) /\ code[3] = W({"doff_even"}, v)
      /\ code[4] = W({"hold"}, 0)
  BY <1>1, <1>3
<1> HIDE DEF code
<1>5. \A i \in 1 .. 4 : i = 1 \/ i = 2 \/ i = 3 \/ i = 4
  OBVIOUS
<1>6. Set(Black, v) \in Functions /\ DOMAIN Set(Black, v) = Black /\ \A n \in Black : Set(Black, v)[n] = v
  BY <1>2, SetIs
<1>7. "black" \in Settings \ {"roi", "test"} /\ Black \cap Window = {} /\ "hold" \notin Window
  BY NamesAre, FieldNames DEF Window, Black
<1>8. /\ \A i \in 1 .. 4 : code[i].op = "write" /\ code[i].skip = 0
      /\ \A n : Writes(code[1], n) <=> n = "hold"
      /\ \A n : Writes(code[2], n) <=> n = "doff_odd"
      /\ \A n : Writes(code[3], n) <=> n = "doff_even"
      /\ \A n : Writes(code[4], n) <=> n = "hold"
      /\ code[1].f["hold"] = 1 /\ code[4].f["hold"] = 0
      /\ code[2].f["doff_odd"] = v /\ code[3].f["doff_even"] = v
      /\ Touched(code[1]) = {"hold"} /\ Touched(code[2]) = {"doff_odd"} /\ Touched(code[3]) = {"doff_even"}
      /\ Touched(code[4]) = {"hold"}
  BY <1>4, <1>5, WIs
<1>9. Windowed(Call("black", code, Set(Black, v)))
  <2>1. \A i \in 2 .. 4 - 1 : i = 2 \/ i = 3
    OBVIOUS
  <2>2. \A i \in 1 .. Len(code) : Touched(code[i]) \cap Window = {}
    BY <1>2, <1>4, <1>5, <1>7, <1>8
  <2>3. \A i \in 2 .. 4 - 1 : ~ Writes(code[i], "hold")
    BY <1>8, <2>1
  <2>4. Writes(code[1], "hold") /\ Writes(code[4], "hold") /\ "hold" \in Touched(code[1]) /\ 4 \in Nat /\ 4 > 1
    BY <1>8
  <2> QED BY <1>4, <1>6, <1>7, <1>8, <2>2, <2>3, <2>4, HeldSetting
<1>10. \A n \in Black : Only(code, n, v) /\ \E i \in 1 .. Len(code) : Writes(code[i], n)
  BY <1>2, <1>4, <1>5, <1>8 DEF Only
<1>11. \A i \in 1 .. Len(code) :
           /\ code[i].skip = 0 /\ Touched(code[i]) \subseteq Held \cup {"hold"}
           /\ \A n : Writes(code[i], n) => n \in Black \cup {"hold"}
           /\ code[i].op # "modify"
  BY <1>2, <1>4, <1>5, <1>8, FieldNames
<1> QED BY <1>4, <1>6, <1>7, <1>10, <1>9, <1>11, GmaxSetting, FieldNames DEF code

LEMMA FilpSound ==
    ASSUME NEW v \in {0, 1}, NEW m \in {"flip_h", "flip_v"}, NEW list
    PROVE  Sound(Call("filp", gmax3405_sensor_set_filp(m, v), Set({m}, v)), "gmax3405", list)
<1> DEFINE code == gmax3405_sensor_set_filp(m, v)
           T == IF m = "flip_h" THEN FLIP_H ELSE {m}
<1>1. code = << W({"hold"}, 1), ReadReg(T), Modify(m, v), W({"hold"}, 0) >>
  BY DEF gmax3405_sensor_set_filp, Hold
<1>2. T \subseteq FLIP_H \cup {"flip_v"} /\ T = IF m \in FLIP_H THEN FLIP_H ELSE {m}
  BY DEF FLIP_H
<1> HIDE DEF T
<1>3. /\ T \in SUBSET Fields /\ m \in Held /\ m \in Fields /\ {m} \in SUBSET Fields /\ {"hold"} \in SUBSET Fields
      /\ v \in Nat /\ 0 \in Nat /\ 1 \in Nat /\ m # "hold" /\ "hold" \notin T /\ T \cap Window = {} /\ "hold" \notin Window
      /\ T \subseteq Held
  BY <1>2, FieldNames DEF FLIP_H
<1>4. /\ W({"hold"}, 1) \in Accesses /\ W({"hold"}, 0) \in Accesses
      /\ ReadReg(T) \in Accesses /\ Modify(m, v) \in Accesses
  <2>1. W({"hold"}, 1) \in Accesses /\ W({"hold"}, 0) \in Accesses
    BY <1>3, WIs
  <2>2. ReadReg(T) \in Accesses
    BY <1>3, ReadIs
  <2>3. Modify(m, v) \in Accesses
    BY <1>3, ModifyIs
  <2> QED BY <2>1, <2>2, <2>3
<1>5. /\ code \in Seq(Accesses) /\ Len(code) = 4
      /\ code[1] = W({"hold"}, 1) /\ code[2] = ReadReg(T) /\ code[3] = Modify(m, v) /\ code[4] = W({"hold"}, 0)
  BY <1>1, <1>4
<1> HIDE DEF code
<1>6. \A i \in 1 .. 4 : i = 1 \/ i = 2 \/ i = 3 \/ i = 4
  OBVIOUS
<1>7. Set({m}, v) \in Functions /\ DOMAIN Set({m}, v) = {m} /\ Set({m}, v)[m] = v
  BY <1>3, SetIs
<1>8. "filp" \in Settings \ {"roi", "test"}
  BY NamesAre
<1>9. /\ \A n : Writes(code[1], n) <=> n = "hold"
      /\ \A n : ~ Writes(code[2], n)
      /\ \A n : Writes(code[3], n) <=> n = m
      /\ \A n : Writes(code[4], n) <=> n = "hold"
  BY <1>5, WIs, ReadIs, ModifyIs
<1>10. /\ code[1].op = "write" /\ code[2].op = "read" /\ code[3].op = "modify" /\ code[4].op = "write"
       /\ code[1].skip = 0 /\ code[2].skip = 0 /\ code[3].skip = 0 /\ code[4].skip = 0
       /\ code[1].f["hold"] = 1 /\ code[4].f["hold"] = 0 /\ code[3].f[m] = v /\ DOMAIN code[2].f = T
       /\ Touched(code[1]) = {"hold"} /\ Touched(code[2]) = T /\ Touched(code[3]) = T /\ Touched(code[4]) = {"hold"}
  BY <1>2, <1>5, WIs, ReadIs, ModifyIs
<1>11. Windowed(Call("filp", code, Set({m}, v)))
  <2>1. \A i \in 2 .. 4 - 1 : i = 2 \/ i = 3
    OBVIOUS
  <2>2. \A i \in 1 .. Len(code) : Touched(code[i]) \cap Window = {}
    BY <1>3, <1>5, <1>6, <1>10
  <2>3. \A i \in 2 .. 4 - 1 : ~ Writes(code[i], "hold")
    BY <1>3, <1>9, <2>1
  <2>4. Writes(code[1], "hold") /\ Writes(code[4], "hold") /\ "hold" \in Touched(code[1]) /\ 4 \in Nat /\ 4 > 1
    BY <1>9, <1>10
  <2> QED BY <1>5, <1>7, <1>8, <1>10, <2>2, <2>3, <2>4, HeldSetting
<1>12. Only(code, m, v) /\ \E i \in 1 .. Len(code) : Writes(code[i], m)
  BY <1>3, <1>5, <1>6, <1>9, <1>10 DEF Only
<1>13. \A i \in 1 .. Len(code) :
           /\ code[i].skip = 0 /\ Touched(code[i]) \subseteq Held \cup {"hold"}
           /\ \A n : Writes(code[i], n) => n \in {m} \cup {"hold"}
           /\ code[i].op = "modify" => /\ i > 1 /\ code[i - 1].op = "read"
                                       /\ DOMAIN code[i - 1].f \subseteq FLIP_H \cup {"flip_v"}
  <2>1. 3 - 1 = 2 /\ 3 > 1
    OBVIOUS
  <2>2. \A i \in 1 .. Len(code) : code[i].op = "modify" => i = 3
    BY <1>5, <1>6, <1>10
  <2>3. \A i \in 1 .. Len(code) :
           /\ code[i].skip = 0 /\ Touched(code[i]) \subseteq Held \cup {"hold"}
           /\ \A n : Writes(code[i], n) => n \in {m} \cup {"hold"}
    BY <1>3, <1>5, <1>6, <1>9, <1>10
  <2> QED BY <1>2, <1>10, <2>1, <2>2, <2>3
<1> QED BY <1>3, <1>5, <1>7, <1>8, <1>11, <1>12, <1>13, GmaxSetting DEF code

LEMMA TestSound ==
    ASSUME NEW v \in {0, 1}, NEW list
    PROVE  Sound(Call("test", gmax3405_sensor_set_test_img(v), Set({"test"}, v)), "gmax3405", list)
<1> DEFINE code == gmax3405_sensor_set_test_img(v)
<1>1. code = << ReadReg(FLIP_H), Modify("test", v) >>
  BY DEF gmax3405_sensor_set_test_img
<1>2. /\ FLIP_H \in SUBSET Fields /\ FLIP_H \subseteq Held /\ "test" \in FLIP_H /\ "test" \in Fields
      /\ {"test"} \in SUBSET Fields /\ v \in Nat /\ "hold" \notin FLIP_H /\ FLIP_H \cap Window = {}
  BY FieldNames DEF FLIP_H
<1>3. ReadReg(FLIP_H) \in Accesses /\ Modify("test", v) \in Accesses
  BY <1>2, ReadIs, ModifyIs
<1>4. code \in Seq(Accesses) /\ Len(code) = 2 /\ code[1] = ReadReg(FLIP_H) /\ code[2] = Modify("test", v)
  BY <1>1, <1>3
<1> HIDE DEF code
<1>5. \A i \in 1 .. 2 : i = 1 \/ i = 2
  OBVIOUS
<1>6. Set({"test"}, v) \in Functions /\ DOMAIN Set({"test"}, v) = {"test"} /\ Set({"test"}, v)["test"] = v
  BY <1>2, SetIs
<1>7. "test" \in Settings
  BY NamesAre
<1>8. /\ \A n : ~ Writes(code[1], n)
      /\ \A n : Writes(code[2], n) <=> n = "test"
      /\ code[1].op = "read" /\ code[2].op = "modify" /\ code[1].skip = 0 /\ code[2].skip = 0
      /\ code[2].f["test"] = v /\ DOMAIN code[1].f = FLIP_H
      /\ Touched(code[1]) = FLIP_H /\ Touched(code[2]) = FLIP_H
  BY <1>2, <1>4, ReadIs, ModifyIs
<1>9. Windowed(Call("test", code, Set({"test"}, v)))
  <2> DEFINE w == Call("test", code, Set({"test"}, v))
  <2>1. /\ w.name = "test" /\ w.code = code
        /\ \A n : n \in w.writes <=> \E i \in 1 .. Len(code) : n \in Touched(code[i])
    BY <1>4, <1>6, <1>7, CallMade
  <2> HIDE DEF w
  <2>2. \A n : n \in w.writes <=> n \in FLIP_H
    BY <1>4, <1>5, <1>8, <2>1
  <2>3. \A i \in 1 .. Len(code) : ~ Writes(code[i], "hold")
    BY <1>4, <1>5, <1>8
  <2>4. Windowed(w)
    <3>1. w.name = "test" /\ w.writes \cap Window = {} /\ FLIP_H \subseteq w.writes
      BY <1>2, <2>1, <2>2
    <3>2. \A i \in 1 .. Len(w.code) : ~ Writes(w.code[i], "hold")
      BY <2>1, <2>3
    <3> QED BY <3>1, <3>2 DEF Windowed
  <2> QED BY <2>4 DEF w
<1>10. Only(code, "test", v) /\ \E i \in 1 .. Len(code) : Writes(code[i], "test")
  BY <1>4, <1>5, <1>8 DEF Only
<1>11. \A i \in 1 .. Len(code) :
           /\ code[i].skip = 0 /\ Touched(code[i]) \subseteq Held \cup {"hold"}
           /\ \A n : Writes(code[i], n) => n \in {"test", "hold"}
           /\ code[i].op = "modify" => /\ i > 1 /\ code[i - 1].op = "read"
                                       /\ DOMAIN code[i - 1].f \subseteq FLIP_H \cup {"flip_v"}
  <2>1. 2 - 1 = 1 /\ 2 > 1
    OBVIOUS
  <2>2. \A i \in 1 .. Len(code) : code[i].op = "modify" => i = 2
    BY <1>4, <1>5, <1>8
  <2> QED BY <1>2, <1>4, <1>5, <1>8, <2>1, <2>2
<1> QED BY <1>2, <1>4, <1>6, <1>7, <1>9, <1>10, <1>11, GmaxSetting DEF code

LEMMA RoiSound ==
    ASSUME NEW v \in {0, 1}, NEW list
    PROVE  Sound(Call("roi", gmax3405_set_roi_format(v), Over(Set(Window, v), Set({"win_x_num"}, 1))), "gmax3405", list)
<1> DEFINE code == gmax3405_set_roi_format(v)
           sets == Over(Set(Window, v), Set({"win_x_num"}, 1))
<1>1. code = << W({"hold"}, 1), ReadReg(FLIP_H), Modify("win_x_num", 1), W({"win1_start"}, v), W({"win1_length"}, v),
                W({"win_all_len"}, v), W({"win0_x_length"}, v), W({"win0_x_start"}, v), W({"hold"}, 0) >>
  BY DEF gmax3405_set_roi_format, Hold
<1>2. /\ Window = {"win1_start", "win1_length", "win_all_len", "win0_x_length", "win0_x_start"}
      /\ FLIP_H = {"flip_h", "test", "win_x_num"}
  BY DEF Window, FLIP_H
<1>3. /\ {"hold"} \in SUBSET Fields /\ FLIP_H \in SUBSET Fields /\ "win_x_num" \in Fields /\ {"win_x_num"} \in SUBSET Fields
      /\ \A n \in Window : {n} \in SUBSET Fields
      /\ v \in Nat /\ 0 \in Nat /\ 1 \in Nat
  BY <1>2, FieldNames
<1>4. /\ W({"hold"}, 1) \in Accesses /\ W({"hold"}, 0) \in Accesses
      /\ ReadReg(FLIP_H) \in Accesses /\ Modify("win_x_num", 1) \in Accesses
      /\ \A n \in Window : W({n}, v) \in Accesses
  BY <1>3, WIs, ReadIs, ModifyIs
<1>5. /\ code \in Seq(Accesses) /\ Len(code) = 9
      /\ code[1] = W({"hold"}, 1) /\ code[2] = ReadReg(FLIP_H) /\ code[3] = Modify("win_x_num", 1)
      /\ code[4] = W({"win1_start"}, v) /\ code[5] = W({"win1_length"}, v) /\ code[6] = W({"win_all_len"}, v)
      /\ code[7] = W({"win0_x_length"}, v) /\ code[8] = W({"win0_x_start"}, v) /\ code[9] = W({"hold"}, 0)
  BY <1>1, <1>2, <1>4
<1> HIDE DEF code
<1>6. \A i \in 1 .. 9 : i = 1 \/ i = 2 \/ i = 3 \/ i = 4 \/ i = 5 \/ i = 6 \/ i = 7 \/ i = 8 \/ i = 9
  OBVIOUS
<1>7. /\ sets \in Functions /\ DOMAIN sets = Window \cup {"win_x_num"}
      /\ \A n \in Window : sets[n] = v
      /\ sets["win_x_num"] = 1
  <2>1. /\ Set(Window, v) \in Functions /\ DOMAIN Set(Window, v) = Window /\ \A n \in Window : Set(Window, v)[n] = v
        /\ Set({"win_x_num"}, 1) \in Functions /\ DOMAIN Set({"win_x_num"}, 1) = {"win_x_num"}
        /\ Set({"win_x_num"}, 1)["win_x_num"] = 1
    BY <1>3, SetIs, FieldNames
  <2>2. "win_x_num" \notin Window
    BY <1>2
  <2> QED BY <2>1, <2>2, OverPart
<1> HIDE DEF sets
<1>8. "roi" \in Settings
  BY NamesAre
<1>9. /\ \A n : Writes(code[1], n) <=> n = "hold"
      /\ \A n : ~ Writes(code[2], n)
      /\ \A n : Writes(code[3], n) <=> n = "win_x_num"
      /\ \A n : Writes(code[4], n) <=> n = "win1_start"
      /\ \A n : Writes(code[5], n) <=> n = "win1_length"
      /\ \A n : Writes(code[6], n) <=> n = "win_all_len"
      /\ \A n : Writes(code[7], n) <=> n = "win0_x_length"
      /\ \A n : Writes(code[8], n) <=> n = "win0_x_start"
      /\ \A n : Writes(code[9], n) <=> n = "hold"
  BY <1>5, WIs, ReadIs, ModifyIs
<1>10. /\ code[1].f["hold"] = 1 /\ code[3].f["win_x_num"] = 1 /\ code[4].f["win1_start"] = v
       /\ code[5].f["win1_length"] = v /\ code[6].f["win_all_len"] = v /\ code[7].f["win0_x_length"] = v
       /\ code[8].f["win0_x_start"] = v /\ code[9].f["hold"] = 0 /\ DOMAIN code[2].f = FLIP_H
  BY <1>5, WIs, ReadIs, ModifyIs
<1>11. /\ \A i \in 1 .. 9 : code[i].skip = 0 /\ (code[i].op = "modify" => i = 3)
       /\ code[2].op = "read"
  BY <1>5, <1>6, WIs, ReadIs, ModifyIs
<1>12. /\ Touched(code[1]) = {"hold"} /\ Touched(code[2]) = FLIP_H /\ Touched(code[3]) = FLIP_H
       /\ Touched(code[4]) = {"win1_start"} /\ Touched(code[5]) = {"win1_length"} /\ Touched(code[6]) = {"win_all_len"}
       /\ Touched(code[7]) = {"win0_x_length"} /\ Touched(code[8]) = {"win0_x_start"} /\ Touched(code[9]) = {"hold"}
  BY <1>2, <1>5, WIs, ReadIs, ModifyIs
<1>13. Windowed(Call("roi", code, sets))
  <2> DEFINE w == Call("roi", code, sets)
  <2>1. /\ w.name = "roi" /\ w.code = code /\ w.sets = sets
        /\ \A n : n \in w.writes <=> \E i \in 1 .. Len(code) : n \in Touched(code[i])
    BY <1>5, <1>7, <1>8, CallMade
  <2> HIDE DEF w
  <2>2. "hold" \in w.writes /\ FLIP_H \subseteq w.writes
    BY <1>5, <1>12, <2>1
  <2>3. \A i \in 2 .. 9 - 1 : i = 2 \/ i = 3 \/ i = 4 \/ i = 5 \/ i = 6 \/ i = 7 \/ i = 8
    OBVIOUS
  <2>4. \A i \in 2 .. 9 - 1 : ~ Writes(code[i], "hold")
    BY <1>9, <2>3
  <2>5. \A i \in 1 .. Len(code) : Writes(code[i], "hold") =>
            code[i].f["hold"] = 0 \/ \E j \in i + 1 .. Len(code) : Writes(code[j], "hold") /\ code[j].f["hold"] = 0
    <3>1. \A i \in 1 .. Len(code) : Writes(code[i], "hold") => i = 1 \/ i = 9
      BY <1>5, <1>6, <1>9
    <3>2. 9 \in 1 + 1 .. Len(code) /\ Writes(code[9], "hold")
      BY <1>5, <1>9
    <3> QED BY <1>10, <3>1, <3>2
  <2>6. \A n \in Window : ~ Writes(code[1], n) /\ ~ Writes(code[9], n)
    BY <1>2, <1>9
  <2>7. \A m, n \in Window : sets[m] = sets[n]
    BY <1>7
  <2>8. Writes(code[1], "hold") /\ Writes(code[9], "hold")
    BY <1>9
  <2>9. Windowed(w)
    <3>1. /\ w.name = "roi" /\ Window \subseteq DOMAIN w.sets /\ \A m, n \in Window : w.sets[m] = w.sets[n]
          /\ Len(w.code) = 9 /\ w.code[1].f["hold"] = 1 /\ w.code[9].f["hold"] = 0
      BY <1>5, <1>7, <1>10, <2>1, <2>7
    <3>2. /\ Writes(w.code[1], "hold") /\ Writes(w.code[9], "hold")
          /\ \A n \in Window : ~ Writes(w.code[1], n) /\ ~ Writes(w.code[9], n)
          /\ \A i \in 2 .. 9 - 1 : ~ Writes(w.code[i], "hold")
          /\ \A i \in 1 .. 9 : Writes(w.code[i], "hold") =>
                 w.code[i].f["hold"] = 0 \/ \E j \in i + 1 .. 9 : Writes(w.code[j], "hold") /\ w.code[j].f["hold"] = 0
      BY <1>5, <2>1, <2>4, <2>5, <2>6, <2>8
    <3> QED BY <2>2, <3>1, <3>2 DEF Windowed
  <2> QED BY <2>9 DEF w
<1>14. \A n \in DOMAIN sets : Only(code, n, sets[n]) /\ \E i \in 1 .. Len(code) : Writes(code[i], n)
  <2> SUFFICES ASSUME NEW n \in DOMAIN sets
               PROVE  Only(code, n, sets[n]) /\ \E i \in 1 .. Len(code) : Writes(code[i], n)
    OBVIOUS
  <2>1. n \in Window \cup {"win_x_num"}
    BY <1>7
  <2>2. \E i \in 1 .. 9 : Writes(code[i], n)
    BY <1>2, <1>9, <2>1
  <2>3. \A i \in 1 .. 9 : Writes(code[i], n) => code[i].f[n] = sets[n]
    BY <1>2, <1>6, <1>7, <1>9, <1>10, <2>1
  <2> QED BY <1>5, <2>2, <2>3 DEF Only
<1>15. \A i \in 1 .. Len(code) :
           /\ code[i].skip = 0 /\ Touched(code[i]) \subseteq Held \cup {"hold"}
           /\ \A n : Writes(code[i], n) => n \in DOMAIN sets \cup {"hold"}
           /\ code[i].op = "modify" => /\ i > 1 /\ code[i - 1].op = "read"
                                       /\ DOMAIN code[i - 1].f \subseteq FLIP_H \cup {"flip_v"}
  <2>1. 3 - 1 = 2 /\ 3 > 1
    OBVIOUS
  <2>2. \A i \in 1 .. 9 : Touched(code[i]) \subseteq Held \cup {"hold"}
    BY <1>2, <1>6, <1>12, FieldNames
  <2>3. \A i \in 1 .. 9 : \A n : Writes(code[i], n) => n \in DOMAIN sets \cup {"hold"}
    BY <1>2, <1>6, <1>7, <1>9
  <2> QED BY <1>5, <1>10, <1>11, <2>1, <2>2, <2>3
<1>16. DOMAIN sets \subseteq Held
  BY <1>2, <1>7, FieldNames
<1> QED BY <1>5, <1>7, <1>8, <1>13, <1>14, <1>15, <1>16, GmaxSetting DEF code, sets

-----------------------------------------------------------------------------
(* The probes of the GMAX3405 and the SC535, and the SC535's one setting.  *)
LEMMA RunShaped ==
    ASSUME NEW name \in Exclusive \cup Settings, NEW code \in Seq(Accesses), NEW sets \in Functions,
           \A i \in 1 .. Len(code) : /\ code[i].op # "modify" /\ code[i].skip <= Len(code) - i
                                     /\ code[i].skip > 0 => name \in Exclusive,
           \A n \in DOMAIN sets : \E i \in 1 .. Len(code) : Writes(code[i], n)
    PROVE  /\ Shaped(Call(name, code, sets)) /\ Call(name, code, sets).name = name
           /\ Call(name, code, sets).code = code /\ Call(name, code, sets).sets = sets
           /\ \A n : n \in Call(name, code, sets).writes <=> \E i \in 1 .. Len(code) : n \in Touched(code[i])
           /\ DOMAIN sets \subseteq Call(name, code, sets).writes
<1> DEFINE w == Call(name, code, sets)
<1>1. /\ w \in CallsOf /\ w.name = name /\ w.code = code /\ w.sets = sets
      /\ \A n : n \in w.writes <=> \E i \in 1 .. Len(code) : n \in Touched(code[i])
      /\ \A i \in 1 .. Len(code) : DOMAIN code[i].f \subseteq w.writes
      /\ \A i \in 1 .. Len(code), n \in Fields : Writes(code[i], n) => n \in w.writes
  BY CallMade
<1>2. DOMAIN sets \subseteq Fields
  BY FunctionIs
<1> HIDE DEF w
<1>3. DOMAIN sets \subseteq w.writes
  BY <1>1, <1>2
<1>4. Shaped(w)
  BY <1>1, <1>3 DEF Shaped
<1> QED BY <1>1, <1>3, <1>4 DEF w

LEMMA GmaxInitSound ==
    ASSUME NEW list
    PROVE  Sound(InitCall("gmax3405"), "gmax3405", list) /\ InitCall("gmax3405").name = "init"
<1> DEFINE t == gmax3405_12bit_4line_master_init
           u == << W({"clock"}, 1), W({"stream"}, 1) >>
           code == sensor_write_table(t) \o u
           sets == Over(Set(Held, 0), Set({"stream", "clock", "fmt"}, 1))
<1>1. t = << W({"stream"}, 0), W({"hold"}, 0), W({"flip_v"}, 0), W({"win1_start", "win1_length"}, 0),
             W({"gain"}, 0), W({"clock"}, 0), W(FLIP_H, 0), W({"win0_x_length", "win0_x_start"}, 0),
             W({"win_all_len"}, 0), W(Black, 0), W({"fmt"}, 1) >>
  BY DEF gmax3405_12bit_4line_master_init
<1>2. /\ {"stream"} \in SUBSET Fields /\ {"hold"} \in SUBSET Fields /\ {"flip_v"} \in SUBSET Fields
      /\ {"gain"} \in SUBSET Fields /\ {"clock"} \in SUBSET Fields /\ {"fmt"} \in SUBSET Fields
      /\ FLIP_H \in SUBSET Fields /\ Black \in SUBSET Fields /\ Held \in SUBSET Fields
      /\ {"stream", "clock", "fmt"} \in SUBSET Fields
      /\ 0 \in Nat /\ 1 \in Nat
  BY FieldNames
<1>3. /\ Window = {"win1_start", "win1_length", "win_all_len", "win0_x_length", "win0_x_start"}
      /\ {"win1_start", "win1_length"} \in SUBSET Fields /\ {"win0_x_length", "win0_x_start"} \in SUBSET Fields
      /\ {"win_all_len"} \in SUBSET Fields
  BY FieldNames DEF Window
<1>4. /\ W({"stream"}, 0) \in Accesses /\ W({"hold"}, 0) \in Accesses /\ W({"flip_v"}, 0) \in Accesses
      /\ W({"win1_start", "win1_length"}, 0) \in Accesses /\ W({"gain"}, 0) \in Accesses
      /\ W({"clock"}, 0) \in Accesses /\ W(FLIP_H, 0) \in Accesses
      /\ W({"win0_x_length", "win0_x_start"}, 0) \in Accesses /\ W({"win_all_len"}, 0) \in Accesses
      /\ W(Black, 0) \in Accesses /\ W({"fmt"}, 1) \in Accesses
      /\ W({"clock"}, 1) \in Accesses /\ W({"stream"}, 1) \in Accesses
  BY <1>2, <1>3, WIs
<1>5. /\ t \in Seq(Accesses) /\ Len(t) = 11
      /\ t[1] = W({"stream"}, 0) /\ t[2] = W({"hold"}, 0) /\ t[3] = W({"flip_v"}, 0)
      /\ t[4] = W({"win1_start", "win1_length"}, 0) /\ t[5] = W({"gain"}, 0) /\ t[6] = W({"clock"}, 0)
      /\ t[7] = W(FLIP_H, 0) /\ t[8] = W({"win0_x_length", "win0_x_start"}, 0) /\ t[9] = W({"win_all_len"}, 0)
      /\ t[10] = W(Black, 0) /\ t[11] = W({"fmt"}, 1)
  BY <1>1, <1>4
<1>6. u \in Seq(Accesses) /\ Len(u) = 2 /\ u[1] = W({"clock"}, 1) /\ u[2] = W({"stream"}, 1)
  BY <1>4
<1> HIDE DEF t, u
<1>7. \A i \in 1 .. 11 : i = 1 \/ i = 2 \/ i = 3 \/ i = 4 \/ i = 5 \/ i = 6 \/ i = 7 \/ i = 8 \/ i = 9 \/ i = 10 \/ i = 11
  OBVIOUS
<1>8. /\ sensor_write_table(t) \in Seq(Accesses) /\ Len(sensor_write_table(t)) = 11
      /\ \A i \in 1 .. 11 : /\ sensor_write_table(t)[i].op = t[i].op /\ sensor_write_table(t)[i].f = t[i].f
                            /\ sensor_write_table(t)[i].skip = 11 - i
                            /\ Touched(sensor_write_table(t)[i]) = Touched(t[i])
                            /\ \A n : Writes(sensor_write_table(t)[i], n) <=> Writes(t[i], n)
  BY <1>5, TableIs
<1>9. /\ code \in Seq(Accesses) /\ Len(code) = 13
      /\ \A i \in 1 .. 11 : code[i] = sensor_write_table(t)[i]
      /\ code[12] = W({"clock"}, 1) /\ code[13] = W({"stream"}, 1)
  <2>1. /\ code \in Seq(Accesses) /\ Len(code) = 11 + 2
        /\ \A i \in 1 .. 11 : code[i] = sensor_write_table(t)[i]
        /\ \A i \in 1 .. 2 : code[11 + i] = u[i]
    <3>1. /\ code \in Seq(Accesses) /\ Len(code) = Len(sensor_write_table(t)) + Len(u)
          /\ \A i \in 1 .. Len(sensor_write_table(t)) : code[i] = sensor_write_table(t)[i]
          /\ \A i \in 1 .. Len(u) : code[Len(sensor_write_table(t)) + i] = u[i]
      BY <1>6, <1>8, Joined
    <3> HIDE DEF code
    <3> QED BY <1>6, <1>8, <3>1
  <2>2. 1 \in 1 .. 2 /\ 2 \in 1 .. 2 /\ 11 + 1 = 12 /\ 11 + 2 = 13
    OBVIOUS
  <2> QED BY <1>6, <2>1, <2>2
<1>10. << >> \o code = code
  BY <1>9, ConcatEmptySeq
<1> HIDE DEF code
<1>11. /\ \A n : Writes(code[1], n) <=> n = "stream"
       /\ \A n : Writes(code[2], n) <=> n = "hold"
       /\ \A n : Writes(code[3], n) <=> n = "flip_v"
       /\ \A n : Writes(code[4], n) <=> n \in {"win1_start", "win1_length"}
       /\ \A n : Writes(code[5], n) <=> n = "gain"
       /\ \A n : Writes(code[6], n) <=> n = "clock"
       /\ \A n : Writes(code[7], n) <=> n \in FLIP_H
       /\ \A n : Writes(code[8], n) <=> n \in {"win0_x_length", "win0_x_start"}
       /\ \A n : Writes(code[9], n) <=> n = "win_all_len"
       /\ \A n : Writes(code[10], n) <=> n \in Black
       /\ \A n : Writes(code[11], n) <=> n = "fmt"
       /\ \A n : Writes(code[12], n) <=> n = "clock"
       /\ \A n : Writes(code[13], n) <=> n = "stream"
  BY <1>5, <1>8, <1>9, WIs
<1>12. /\ \A i \in 1 .. 10 : \A n : Writes(code[i], n) => code[i].f[n] = 0
       /\ code[11].f["fmt"] = 1 /\ code[12].f["clock"] = 1 /\ code[13].f["stream"] = 1
  <2>1. \A i \in 1 .. 10 : i = 1 \/ i = 2 \/ i = 3 \/ i = 4 \/ i = 5 \/ i = 6 \/ i = 7 \/ i = 8 \/ i = 9 \/ i = 10
    OBVIOUS
  <2>2. \A i \in 1 .. 10 : \A n : Writes(t[i], n) => t[i].f[n] = 0
    BY <1>5, <2>1, WIs
  <2>3. \A i \in 1 .. 10 : i \in 1 .. 11
    OBVIOUS
  <2>4. code[11].f["fmt"] = 1
    BY <1>5, <1>8, <1>9, WIs
  <2> QED BY <1>8, <1>9, <2>2, <2>3, <2>4, WIs
<1>13. \A i \in 1 .. 13 : i \in 1 .. 10 \/ i = 11 \/ i = 12 \/ i = 13
  OBVIOUS
<1>14. \A i \in 1 .. 13 : code[i].op = "write" /\ code[i].skip \in Nat /\ code[i].skip <= 13 - i
  <2>1. \A i \in 1 .. 11 : t[i].op = "write"
    BY <1>5, <1>7, WIs
  <2>2. \A i \in 1 .. 11 : code[i].op = "write" /\ code[i].skip = 11 - i
    BY <1>8, <1>9, <2>1
  <2>3. code[12].op = "write" /\ code[12].skip = 0 /\ code[13].op = "write" /\ code[13].skip = 0
    BY <1>9, WIs
  <2>4. \A i \in 1 .. 13 : i \in 1 .. 11 \/ i = 12 \/ i = 13
    OBVIOUS
  <2> QED BY <2>2, <2>3, <2>4
<1>15. Held = Window \cup FLIP_H \cup Black \cup {"flip_v", "gain"}
  BY DEF Held
<1>16. /\ sets \in Functions /\ DOMAIN sets = Held \cup {"stream", "clock", "fmt"}
       /\ \A n \in Held : sets[n] = 0
       /\ \A n \in {"stream", "clock", "fmt"} : sets[n] = 1
  <2>1. Held \cap {"stream", "clock", "fmt"} = {}
    BY DEF Held, Window, FLIP_H, Black
  <2> DEFINE T == {"stream", "clock", "fmt"}
             f == Set(Held, 0)
             g == Set(T, 1)
  <2>2. f \in Functions /\ DOMAIN f = Held /\ \A n \in Held : f[n] = 0
    BY <1>2, SetIs
  <2>3. T \in SUBSET Fields
    BY <1>2
  <2> HIDE DEF T
  <2>4. g \in Functions /\ DOMAIN g = T /\ \A n \in T : g[n] = 1
    BY <2>3, SetIs
  <2> HIDE DEF f, g
  <2>5. /\ Over(f, g) \in Functions /\ DOMAIN Over(f, g) = Held \cup T
        /\ \A n \in Held : Over(f, g)[n] = 0
        /\ \A n \in T \ Held : Over(f, g)[n] = 1
    <3>1. f \in Functions /\ g \in Functions
      BY <2>2, <2>4
    <3>2. Over(f, g) \in Functions
      BY <3>1, OverPart
    <3>3. DOMAIN Over(f, g) = DOMAIN f \cup DOMAIN g
      BY <3>1, OverPart
    <3>4. \A n \in DOMAIN f \cup DOMAIN g : Over(f, g)[n] = IF n \in DOMAIN f THEN f[n] ELSE g[n]
      BY <3>1, OverPart
    <3> QED BY <2>2, <2>4, <3>2, <3>3, <3>4
  <2>6. sets = Over(f, g)
    BY DEF f, g, T
  <2> HIDE DEF sets
  <2> QED BY <2>1, <2>5, <2>6 DEF T
<1> HIDE DEF sets
<1>17. /\ "init" \in Exclusive \cup Settings /\ "init" \in Exclusive /\ "init" \notin Settings
  BY NamesAre
<1>18. \A n \in Held \cup {"hold"} : Only(code, n, 0) /\ \E i \in 1 .. 10 : Writes(code[i], n)
  <2> SUFFICES ASSUME NEW n \in Held \cup {"hold"}
               PROVE  Only(code, n, 0) /\ \E i \in 1 .. 10 : Writes(code[i], n)
    OBVIOUS
  <2>1. n # "fmt" /\ n # "clock" /\ n # "stream"
    BY DEF Held, Window, FLIP_H, Black
  <2>2. Only(code, n, 0)
    BY <1>9, <1>11, <1>12, <1>13, <2>1 DEF Only
  <2>3. \E i \in 1 .. 10 : Writes(code[i], n)
    <3>1. n \in {"win1_start", "win1_length", "win_all_len", "win0_x_length", "win0_x_start", "flip_v", "gain", "hold"}
              \cup FLIP_H \cup Black
      BY <1>3, <1>15
    <3> QED BY <1>11, <3>1
  <2> QED BY <2>2, <2>3
<1>19. Leaves(code, "stream", 1) /\ Leaves(code, "fmt", 1) /\ Leaves(code, "clock", 1)
  <2>1. 13 \in 1 .. Len(code) /\ 12 \in 1 .. Len(code) /\ 11 \in 1 .. Len(code)
    BY <1>9
  <2>2. \A j \in 13 + 1 .. Len(code) : ~ Writes(code[j], "stream")
    BY <1>9
  <2>3. \A j \in 12 + 1 .. Len(code) : ~ Writes(code[j], "clock")
    <3>1. \A j \in 12 + 1 .. 13 : j = 13
      OBVIOUS
    <3> QED BY <1>9, <1>11, <3>1
  <2>4. \A j \in 11 + 1 .. Len(code) : ~ Writes(code[j], "fmt")
    <3>1. \A j \in 11 + 1 .. 13 : j = 12 \/ j = 13
      OBVIOUS
    <3> QED BY <1>9, <1>11, <3>1
  <2>5. Writes(code[13], "stream") /\ Writes(code[12], "clock") /\ Writes(code[11], "fmt")
    BY <1>11
  <2>6. Leaves(code, "stream", 1)
    BY <1>9, <1>12, <2>1, <2>2, <2>5, LeavesBy
  <2>7. Leaves(code, "clock", 1)
    BY <1>9, <1>12, <2>1, <2>3, <2>5, LeavesBy
  <2>8. Leaves(code, "fmt", 1)
    BY <1>9, <1>12, <2>1, <2>4, <2>5, LeavesBy
  <2> QED BY <2>6, <2>7, <2>8
<1>20. \A n \in DOMAIN sets : \E i \in 1 .. Len(code) : Writes(code[i], n)
  <2>1. \A i \in 1 .. 10 : i \in 1 .. Len(code)
    BY <1>9
  <2>2. \A n \in {"stream", "clock", "fmt"} : \E i \in 1 .. Len(code) : Writes(code[i], n)
    BY <1>9, <1>11
  <2> QED BY <1>16, <1>18, <2>1, <2>2
<1> DEFINE w == Call("init", code, sets)
<1>21. /\ Shaped(w) /\ w.name = "init" /\ w.code = code /\ w.sets = sets
       /\ DOMAIN sets \subseteq w.writes
       /\ \A n : n \in w.writes <=> \E i \in 1 .. Len(code) : n \in Touched(code[i])
  <2>1. \A i \in 1 .. Len(code) : /\ code[i].op # "modify" /\ code[i].skip <= Len(code) - i
                                  /\ code[i].skip > 0 => "init" \in Exclusive
    BY <1>9, <1>14, <1>17
  <2>2. code \in Seq(Accesses) /\ sets \in Functions /\ "init" \in Exclusive \cup Settings
    BY <1>9, <1>16, <1>17
  <2> QED BY <1>20, <2>1, <2>2, RunShaped
<1>22. InitCall("gmax3405") = w
  <2>1. sensor_init_param("gmax3405") = code
    BY DEF sensor_init_param, gmax3405_init_param, code, t, u
  <2>2. SerialiserSetup("gmax3405") = << >>
    BY DEF SerialiserSetup, Parallel
  <2> QED BY <1>10, <2>1, <2>2 DEF InitCall, sets
<1> HIDE DEF w
<1>23. /\ Zero("gmax3405") = Rows /\ Tracked("gmax3405") \subseteq Held \cup {"stream"}
       /\ Needs("gmax3405") = {"fmt", "clock"} /\ Made("gmax3405") \subseteq Needs("gmax3405")
  BY NamesAre, ZeroIs, NeedsAre DEF Needs
<1>24. Faithful(w, "gmax3405")
  <2>1. ASSUME NEW n \in Rows
        PROVE  Only(code, n, 0) /\ n \notin DOMAIN sets
    <3>1. n \notin Held \cup {"hold", "stream", "clock", "fmt"}
      BY FieldNames DEF Rows
    <3>2. \A i \in 1 .. 13 : ~ Writes(code[i], n)
      <4>1. \A i \in 1 .. 13 : i = 12 \/ i = 13 \/ i \in 1 .. 11
        OBVIOUS
      <4> QED BY <1>3, <1>7, <1>11, <1>15, <3>1, <4>1
    <3> QED BY <1>9, <1>16, <3>1, <3>2 DEF Only
  <2>2. ASSUME NEW n \in Tracked("gmax3405")
        PROVE  n \in DOMAIN sets /\ Leaves(code, n, sets[n])
    <3>1. CASE n = "stream"
      BY <1>16, <1>19, <3>1
    <3>2. CASE n \in Held
      <4>1. PICK i \in 1 .. 10 : Writes(code[i], n)
        BY <1>18, <3>2
      <4>2. i \in 1 .. Len(code) /\ code[i].f[n] = 0 /\ Only(code, n, 0)
        BY <1>9, <1>12, <1>18, <3>2, <4>1
      <4>3. Leaves(code, n, 0)
        BY <1>9, <4>1, <4>2, LeavesBy
      <4> QED BY <1>16, <3>2, <4>3
    <3> QED BY <1>23, <3>1, <3>2
  <2> QED BY <1>9, <1>14, <1>21, <1>23, <2>1, <2>2 DEF Faithful
<1>25. Piped(w, "gmax3405", list)
  <2>1. \A i \in 1 .. Len(code) : Writes(code[i], "stream") /\ code[i].f["stream"] = 1 => i = 13
    <3>1. ~ Writes(code[11], "stream") /\ ~ Writes(code[12], "stream")
      BY <1>11
    <3> QED BY <1>9, <1>12, <1>13, <3>1
  <2>2. \A j \in 13 + 1 .. Len(code) : FALSE
    BY <1>9
  <2>3. \A n \in Made("gmax3405") : Leaves(code, n, 1)
    BY <1>19, <1>23
  <2>4. Len(code) > 0 /\ Writes(code[1], "stream")
    BY <1>9, <1>11
  <2> QED BY <1>16, <1>17, <1>21, <2>1, <2>2, <2>3, <2>4, NamesAre DEF Piped
<1>26. Windowed(w)
  <2>1. \A i \in 1 .. Len(code) : Writes(code[i], "hold") => code[i].f["hold"] = 0
    BY <1>18 DEF Only
  <2>2. Window \subseteq DOMAIN sets /\ \A m, n \in Window : sets[m] = sets[n]
    BY <1>15, <1>16
  <2>3. "hold" \in w.writes
    <3>1. Touched(code[2]) = {"hold"}
      BY <1>5, <1>8, <1>9, WIs
    <3> QED BY <1>9, <1>21, <3>1
  <2> QED BY <1>18, <1>21, <2>1, <2>2, <2>3, NamesAre DEF Windowed
<1> QED BY <1>21, <1>22, <1>24, <1>25, <1>26 DEF Sound

-----------------------------------------------------------------------------
(* Code put together: a table, a single access, one code behind another.   *)
LEMMA TableWrites ==
    ASSUME NEW t \in Seq(Accesses), NEW n
    PROVE  /\ Never(t, n) => Never(sensor_write_table(t), n)
           /\ \A v : Only(t, n, v) => Only(sensor_write_table(t), n, v)
           /\ \A v : Leaves(t, n, v) => Leaves(sensor_write_table(t), n, v)
<1> DEFINE u == sensor_write_table(t)
<1>1. /\ Len(u) = Len(t) /\ Len(t) \in Nat
      /\ \A i \in 1 .. Len(t) : u[i].f = t[i].f
      /\ \A i \in 1 .. Len(t) : Writes(u[i], n) <=> Writes(t[i], n)
  <2>1. Len(u) = Len(t) /\ \A i \in 1 .. Len(t) : u[i].f = t[i].f
    BY TableIs
  <2>2. \A i \in 1 .. Len(t) : \A m : Writes(u[i], m) <=> Writes(t[i], m)
    BY TableIs
  <2>3. Len(t) \in Nat
    OBVIOUS
  <2> QED BY <2>1, <2>2, <2>3
<1> HIDE DEF u
<1>2. Never(t, n) => Never(u, n)
  BY <1>1 DEF Never
<1>3. \A v : Only(t, n, v) => Only(u, n, v)
  BY <1>1 DEF Only
<1>4. ASSUME NEW v, NEW i, Final(t, i, n, v)
      PROVE  Final(u, i, n, v)
  <2>1. i \in 1 .. Len(t) /\ \A j \in i .. Len(t) : j \in 1 .. Len(t)
    BY <1>1, <1>4 DEF Final
  <2> QED BY <1>1, <1>4, <2>1 DEF Final
<1>5. \A v : Leaves(t, n, v) => Leaves(u, n, v)
  BY <1>1, <1>4 DEF Leaves
<1> QED BY <1>2, <1>3, <1>5 DEF u

LEMMA PlainTable ==
    ASSUME NEW t \in Seq(Accesses), \A i \in 1 .. Len(t) : t[i].op # "modify"
    PROVE  sensor_write_table(t) \in Seq(Accesses) /\ Plain(sensor_write_table(t))
<1> DEFINE u == sensor_write_table(t)
<1>1. /\ u \in Seq(Accesses) /\ Len(u) = Len(t) /\ Len(t) \in Nat
      /\ \A i \in 1 .. Len(t) : u[i].op = t[i].op /\ u[i].skip = Len(t) - i
  BY TableIs
<1> HIDE DEF u
<1>2. Plain(u)
  BY <1>1 DEF Plain
<1> QED BY <1>1, <1>2 DEF u

LEMMA PlainJoined ==
    ASSUME NEW s \in Seq(Accesses), NEW t \in Seq(Accesses), Plain(s), Plain(t)
    PROVE  s \o t \in Seq(Accesses) /\ Plain(s \o t)
<1> DEFINE u == s \o t
<1>1. /\ u \in Seq(Accesses) /\ Len(u) = Len(s) + Len(t)
      /\ \A i \in 1 .. Len(s) : u[i] = s[i]
      /\ \A i \in Len(s) + 1 .. Len(s) + Len(t) : u[i] = t[i - Len(s)]
  BY Joined
<1>2. Len(s) \in Nat /\ Len(t) \in Nat
  OBVIOUS
<1> HIDE DEF u
<1>3. ASSUME NEW i \in 1 .. Len(u)
      PROVE  u[i].op # "modify" /\ u[i].skip <= Len(u) - i
  <2>1. CASE i \in 1 .. Len(s)
    <3>1. s[i] \in Accesses /\ s[i].op # "modify" /\ s[i].skip <= Len(s) - i
      BY <2>1 DEF Plain
    <3>2. s[i].skip \in Nat
      BY <3>1 DEF Accesses
    <3>3. \A x \in Nat : x <= Len(s) - i => x <= Len(s) + Len(t) - i
      BY <1>2, <2>1
    <3> QED BY <1>1, <2>1, <3>1, <3>2, <3>3
  <2>2. CASE i \in Len(s) + 1 .. Len(s) + Len(t)
    <3>1. i - Len(s) \in 1 .. Len(t) /\ Len(t) - (i - Len(s)) = Len(s) + Len(t) - i
      BY <1>2, <2>2
    <3>2. t[i - Len(s)].op # "modify" /\ t[i - Len(s)].skip <= Len(t) - (i - Len(s))
      BY <3>1 DEF Plain
    <3> QED BY <1>1, <2>2, <3>1, <3>2
  <2>3. i \in 1 .. Len(s) \/ i \in Len(s) + 1 .. Len(s) + Len(t)
    BY <1>1, <1>2
  <2> QED BY <2>1, <2>2, <2>3
<1>4. Plain(u)
  BY <1>3 DEF Plain
<1> QED BY <1>1, <1>4 DEF u

LEMMA OneAccess ==
    ASSUME NEW a \in Accesses, a.op # "modify", a.skip = 0
    PROVE  /\ <<a>> \in Seq(Accesses) /\ Plain(<<a>>) /\ \A i \in 1 .. Len(<<a>>) : <<a>>[i].op # "modify"
           /\ \A n : ~ Writes(a, n) => Never(<<a>>, n)
           /\ \A n : Writes(a, n) => Leaves(<<a>>, n, a.f[n]) /\ Only(<<a>>, n, a.f[n])
<1> DEFINE u == <<a>>
<1>1. u \in Seq(Accesses) /\ Len(u) = 1 /\ u[1] = a
  OBVIOUS
<1> HIDE DEF u
<1>2. \A i \in 1 .. Len(u) : i = 1 /\ Len(u) - i = 0
  BY <1>1
<1>3. Plain(u) /\ \A i \in 1 .. Len(u) : u[i].op # "modify"
  BY <1>1, <1>2 DEF Plain
<1>4. \A n : ~ Writes(a, n) => Never(u, n)
  BY <1>1, <1>2 DEF Never
<1>5. ASSUME NEW n, Writes(a, n)
      PROVE  Leaves(u, n, a.f[n]) /\ Only(u, n, a.f[n])
  <2>1. Only(u, n, a.f[n])
    BY <1>1, <1>2 DEF Only
  <2>2. 1 \in 1 .. Len(u) /\ Writes(u[1], n) /\ u[1].f[n] = a.f[n]
    BY <1>1, <1>5
  <2> QED BY <1>1, <2>1, <2>2, LeavesBy
<1> QED BY <1>1, <1>3, <1>4, <1>5 DEF u

LEMMA OneWrite ==
    ASSUME NEW names \in SUBSET Fields, NEW v \in Nat
    PROVE  /\ <<W(names, v)>> \in Seq(Accesses) /\ Plain(<<W(names, v)>>)
           /\ \A i \in 1 .. Len(<<W(names, v)>>) : <<W(names, v)>>[i].op # "modify"
           /\ \A n : n \notin names => Never(<<W(names, v)>>, n)
           /\ \A n : n \in names => Leaves(<<W(names, v)>>, n, v) /\ Only(<<W(names, v)>>, n, v)
<1> DEFINE a == W(names, v)
<1>1. /\ a \in Accesses /\ a.op = "write" /\ a.skip = 0 /\ \A n \in names : a.f[n] = v
      /\ \A n : Writes(a, n) <=> n \in names
  BY WIs
<1> HIDE DEF a
<1>2. /\ <<a>> \in Seq(Accesses) /\ Plain(<<a>>) /\ \A i \in 1 .. Len(<<a>>) : <<a>>[i].op # "modify"
      /\ \A n : ~ Writes(a, n) => Never(<<a>>, n)
      /\ \A n : Writes(a, n) => Leaves(<<a>>, n, a.f[n]) /\ Only(<<a>>, n, a.f[n])
  BY <1>1, OneAccess
<1>3. /\ \A n : n \notin names => Never(<<a>>, n)
      /\ \A n : n \in names => Leaves(<<a>>, n, v) /\ Only(<<a>>, n, v)
  BY <1>1, <1>2
<1> QED BY <1>2, <1>3 DEF a

LEMMA OneDes ==
    ASSUME NEW names \in SUBSET Fields, NEW v \in Nat
    PROVE  /\ <<Des(names, v)>> \in Seq(Accesses) /\ Plain(<<Des(names, v)>>)
           /\ \A n : n \notin names => Never(<<Des(names, v)>>, n)
           /\ \A n : n \in names => Leaves(<<Des(names, v)>>, n, v) /\ Only(<<Des(names, v)>>, n, v)
<1> DEFINE a == Des(names, v)
<1>1. /\ a \in Accesses /\ a.op = "deser" /\ a.skip = 0 /\ \A n \in names : a.f[n] = v
      /\ \A n : Writes(a, n) <=> n \in names
  BY DesIs
<1> HIDE DEF a
<1>2. /\ <<a>> \in Seq(Accesses) /\ Plain(<<a>>)
      /\ \A n : ~ Writes(a, n) => Never(<<a>>, n)
      /\ \A n : Writes(a, n) => Leaves(<<a>>, n, a.f[n]) /\ Only(<<a>>, n, a.f[n])
  BY <1>1, OneAccess
<1>3. /\ \A n : n \notin names => Never(<<a>>, n)
      /\ \A n : n \in names => Leaves(<<a>>, n, v) /\ Only(<<a>>, n, v)
  BY <1>1, <1>2
<1> QED BY <1>2, <1>3 DEF a

LEMMA NeverIsOnly ==
    ASSUME NEW code, NEW n, Never(code, n)
    PROVE  \A v : Only(code, n, v)
BY DEF Never, Only

LEMMA PairJoined ==
    ASSUME NEW a \in Accesses, NEW b \in Accesses
    PROVE  <<a>> \o <<b>> = <<a, b>>
<1> DEFINE s == <<a>>
           t == <<b>>
           u == s \o t
           v == <<a, b>>
<1>1. s \in Seq(Accesses) /\ Len(s) = 1 /\ s[1] = a
  OBVIOUS
<1>2. t \in Seq(Accesses) /\ Len(t) = 1 /\ t[1] = b
  OBVIOUS
<1>3. v \in Seq(Accesses) /\ Len(v) = 2 /\ v[1] = a /\ v[2] = b
  OBVIOUS
<1> HIDE DEF s, t, v
<1>4. /\ u \in Seq(Accesses) /\ Len(u) = Len(s) + Len(t)
      /\ \A i \in 1 .. Len(s) : u[i] = s[i]
      /\ \A i \in 1 .. Len(t) : u[Len(s) + i] = t[i]
  BY <1>1, <1>2, Joined
<1> HIDE DEF u
<1>5. Len(u) = 2 /\ u[1] = a /\ u[2] = b
  <2>1. u[1 + 1] = t[1]
    BY <1>1, <1>2, <1>4
  <2> QED BY <1>1, <1>2, <1>4, <2>1
<1>6. \A i \in 1 .. 2 : i = 1 \/ i = 2
  OBVIOUS
<1>7. u = v
  BY <1>3, <1>4, <1>5, <1>6, SeqEqual
<1> QED BY <1>7 DEF u, s, t, v

-----------------------------------------------------------------------------
(* The cameras behind a deserialiser.                                      *)
LEMMA GmslNames ==
    ASSUME NEW k \in Gmsl
    PROVE  /\ k \in Kinds /\ k # "gmax3405" /\ k # "sc535"
           /\ Zero(k) = Held \cup Rows \cup {"hold"} /\ Tracked(k) = {"stream"}
           /\ "fmt" \in Made(k) /\ Made(k) \subseteq {"fmt", "clock", "type"}
           /\ Needs(k) \ Made(k) \subseteq {"port", "pclk", "vid_tx", "map", "pipe"}
           /\ k = "gmax3412" => Made(k) = {"fmt", "clock", "type"}
           /\ k \in {"og05b2b", "og02c1b"} => Made(k) = {"fmt", "type"}
           /\ k = "ov5640" => Made(k) = {"fmt"}
           /\ k = "og02c1b" => "vid_tx" \notin Needs(k)
           /\ k \in {"gmax3412", "og05b2b", "og02c1b", "ov5640"}
<1>1. k \in Kinds /\ k # "gmax3405" /\ k # "sc535" /\ k \in {"gmax3412", "og05b2b", "og02c1b", "ov5640"}
  BY DEF Kinds, Parallel, Gmsl
<1>2. Zero(k) = Held \cup Rows \cup {"hold"}
  BY <1>1 DEF Zero
<1>3. Tracked(k) = {"stream"}
  BY <1>2, FieldNames DEF Tracked
<1>4. /\ Path = {"type", "port", "pclk", "vid_tx", "map", "pipe"}
      /\ Made(k) = Needs(k) \ {"port", "pclk", "vid_tx", "map", "pipe"}
  BY DEF Path, Made
<1>5. /\ k = "gmax3412" => Needs(k) = {"fmt", "clock"} \cup Path
      /\ k = "og05b2b" => Needs(k) = {"fmt"} \cup Path
      /\ k = "og02c1b" => Needs(k) = {"fmt"} \cup (Path \ {"vid_tx"})
      /\ k = "ov5640" => Needs(k) = {"fmt"} \cup (Path \ {"type"})
  BY DEF Needs
<1> QED BY <1>1, <1>2, <1>3, <1>4, <1>5

LEMMA GmslFaithful ==
    ASSUME NEW k \in Gmsl, NEW name \in Exclusive, NEW code \in Seq(Accesses), NEW sets \in Functions, Plain(code),
           \A n \in Held \cup Rows \cup {"hold"} : n \notin DOMAIN sets /\ Only(code, n, 0),
           "stream" \in DOMAIN sets,
           \A n \in DOMAIN sets : Leaves(code, n, sets[n])
    PROVE  /\ Call(name, code, sets).name = name
           /\ Call(name, code, sets).code = code /\ Call(name, code, sets).sets = sets
           /\ Shaped(Call(name, code, sets)) /\ Faithful(Call(name, code, sets), k)
<1> DEFINE w == Call(name, code, sets)
<1>1. \A n \in DOMAIN sets : \E i \in 1 .. Len(code) : Writes(code[i], n)
  BY DEF Leaves, Final
<1>2. \A i \in 1 .. Len(code) : /\ code[i].op # "modify" /\ code[i].skip <= Len(code) - i
                                /\ code[i].skip > 0 => name \in Exclusive
  BY DEF Plain
<1>3. Shaped(w) /\ w.name = name /\ w.code = code /\ w.sets = sets
  <2>1. name \in Exclusive \cup Settings
    OBVIOUS
  <2> QED BY <1>1, <1>2, <2>1, RunShaped
<1> HIDE DEF w
<1>4. Zero(k) = Held \cup Rows \cup {"hold"} /\ Tracked(k) = {"stream"}
  BY GmslNames
<1>5. Faithful(w, k)
  BY <1>2, <1>3, <1>4 DEF Faithful
<1> QED BY <1>3, <1>5 DEF w

LEMMA GmslInitSound ==
    ASSUME NEW k \in Gmsl, NEW list, NEW code \in Seq(Accesses), Plain(code),
           \A n \in Held \cup Rows \cup {"hold", "stream"} : Only(code, n, 0),
           Leaves(code, "stream", 0), \A n \in Made(k) : Leaves(code, n, 1)
    PROVE  /\ Sound(Call("init", code, Over(Set({"fmt"}, 1), Set({"stream"}, 0))), k, list)
           /\ Call("init", code, Over(Set({"fmt"}, 1), Set({"stream"}, 0))).name = "init"
<1> DEFINE sets == Over(Set({"fmt"}, 1), Set({"stream"}, 0))
           w == Call("init", code, sets)
<1>1. sets \in Functions /\ DOMAIN sets = {"fmt", "stream"} /\ sets["fmt"] = 1 /\ sets["stream"] = 0
  <2>1. {"fmt"} \in SUBSET Fields /\ {"stream"} \in SUBSET Fields /\ 0 \in Nat /\ 1 \in Nat
    BY FieldNames
  <2> DEFINE f == Set({"fmt"}, 1)
             g == Set({"stream"}, 0)
  <2>2. f \in Functions /\ DOMAIN f = {"fmt"} /\ f["fmt"] = 1
    BY <2>1, SetIs
  <2>3. g \in Functions /\ DOMAIN g = {"stream"} /\ g["stream"] = 0
    BY <2>1, SetIs
  <2> HIDE DEF f, g
  <2>4. Over(f, g) \in Functions
    BY <2>2, <2>3, OverPart
  <2>5. DOMAIN Over(f, g) = DOMAIN f \cup DOMAIN g
    BY <2>2, <2>3, OverPart
  <2>6. \A n \in DOMAIN f \cup DOMAIN g : Over(f, g)[n] = IF n \in DOMAIN f THEN f[n] ELSE g[n]
    BY <2>2, <2>3, OverPart
  <2>7. /\ Over(f, g) \in Functions /\ DOMAIN Over(f, g) = {"fmt", "stream"}
        /\ Over(f, g)["fmt"] = 1 /\ Over(f, g)["stream"] = 0
    BY <2>2, <2>3, <2>4, <2>5, <2>6
  <2> QED BY <2>7 DEF f, g
<1> HIDE DEF sets
<1>2. "fmt" \in Made(k) /\ k # "gmax3405"
  BY GmslNames
<1>3. \A n \in DOMAIN sets : Leaves(code, n, sets[n])
  BY <1>1, <1>2
<1>4. \A n \in Held \cup Rows \cup {"hold"} : n \notin DOMAIN sets /\ Only(code, n, 0)
  <2>1. "fmt" \notin Held \cup Rows \cup {"hold"} /\ "stream" \notin Held \cup Rows \cup {"hold"}
    BY DEF Held, Window, FLIP_H, Black, Rows
  <2> QED BY <1>1, <2>1
<1>5. "init" \in Exclusive /\ "init" \notin Settings /\ "init" \notin {"start", "stop"}
  BY NamesAre
<1>6. w.name = "init" /\ w.code = code /\ w.sets = sets /\ Shaped(w) /\ Faithful(w, k)
  <2>1. "stream" \in DOMAIN sets
    BY <1>1
  <2> QED BY <1>1, <1>3, <1>4, <1>5, <2>1, GmslFaithful
<1> HIDE DEF w
<1>7. \A i \in 1 .. Len(code) : ~ (Writes(code[i], "stream") /\ code[i].f["stream"] = 1)
  BY DEF Only
<1>8. Piped(w, k, list)
  BY <1>1, <1>5, <1>6, <1>7 DEF Piped
<1> QED BY <1>2, <1>6, <1>8 DEF Sound, w, sets

LEMMA GmslStopSound ==
    ASSUME NEW k \in Gmsl, NEW list, NEW code \in Seq(Accesses), Plain(code), Leaves(code, "stream", 0),
           Only(code, "stream", 0), \A n : n \notin {"stream", "pipe"} => Never(code, n)
    PROVE  /\ Sound(Call("stop", code, Set({"stream"}, 0)), k, list)
           /\ Call("stop", code, Set({"stream"}, 0)).name = "stop"
<1> DEFINE sets == Set({"stream"}, 0)
           w == Call("stop", code, sets)
<1>1. sets \in Functions /\ DOMAIN sets = {"stream"} /\ sets["stream"] = 0
  <2>1. {"stream"} \in SUBSET Fields /\ 0 \in Nat
    BY FieldNames
  <2> QED BY <2>1, SetIs
<1> HIDE DEF sets
<1>2. k # "gmax3405" /\ Made(k) \subseteq {"fmt", "clock", "type"}
  BY GmslNames
<1>3. \A n \in Held \cup Rows \cup {"hold"} : n \notin DOMAIN sets /\ Only(code, n, 0)
  <2>1. "pipe" \notin Held \cup Rows \cup {"hold"} /\ "stream" \notin Held \cup Rows \cup {"hold"}
    BY DEF Held, Window, FLIP_H, Black, Rows
  <2> QED BY <1>1, <2>1, NeverIsOnly
<1>4. "stop" \in Exclusive /\ "stop" \notin Settings /\ "stop" \notin {"init", "start"}
  BY NamesAre
<1>5. w.name = "stop" /\ w.code = code /\ w.sets = sets /\ Shaped(w) /\ Faithful(w, k)
  <2>1. "stream" \in DOMAIN sets /\ \A n \in DOMAIN sets : Leaves(code, n, sets[n])
    BY <1>1
  <2> QED BY <1>1, <1>3, <1>4, <2>1, GmslFaithful
<1> HIDE DEF w
<1>6. \A i \in 1 .. Len(code) : ~ (Writes(code[i], "stream") /\ code[i].f["stream"] = 1)
  BY DEF Only
<1>7. \A n \in Made(k) : Never(code, n)
  BY <1>2
<1>8. Piped(w, k, list)
  BY <1>1, <1>4, <1>5, <1>6, <1>7 DEF Piped
<1> QED BY <1>2, <1>5, <1>8 DEF Sound, w, sets

LEMMA GmslStartSound ==
    ASSUME NEW k \in Gmsl, NEW list, NEW path \in Seq(Accesses), Plain(path),
           \A n : n \notin {"port", "pclk", "vid_tx", "map", "pipe"} => Never(path, n),
           list[Len(list)] = "pixel" => \A n \in Needs(k) \ Made(k) : Leaves(path, n, 1)
    PROVE  /\ Sound(Call("start", path \o sensor_write_table(start_stream), Set({"stream"}, 1)), k, list)
           /\ Call("start", path \o sensor_write_table(start_stream), Set({"stream"}, 1)).name = "start"
<1> DEFINE last == sensor_write_table(start_stream)
           code == path \o last
           sets == Set({"stream"}, 1)
           w == Call("start", code, sets)
<1>1. {"stream"} \in SUBSET Fields /\ 1 \in Nat
  BY FieldNames
<1>2. sets \in Functions /\ DOMAIN sets = {"stream"} /\ sets["stream"] = 1
  BY <1>1, SetIs
<1> HIDE DEF sets
<1>3. /\ start_stream \in Seq(Accesses) /\ Len(start_stream) = 1
      /\ \A i \in 1 .. Len(start_stream) : start_stream[i].op # "modify"
      /\ \A n : n # "stream" => Never(start_stream, n)
      /\ Leaves(start_stream, "stream", 1)
  <2>1. /\ <<W({"stream"}, 1)>> \in Seq(Accesses)
        /\ \A i \in 1 .. Len(<<W({"stream"}, 1)>>) : <<W({"stream"}, 1)>>[i].op # "modify"
    BY <1>1, OneWrite
  <2>2. \A n : n # "stream" => Never(<<W({"stream"}, 1)>>, n)
    BY <1>1, OneWrite
  <2>3. Leaves(<<W({"stream"}, 1)>>, "stream", 1)
    BY <1>1, OneWrite
  <2>4. Len(<<W({"stream"}, 1)>>) = 1
    OBVIOUS
  <2> QED BY <2>1, <2>2, <2>3, <2>4 DEF start_stream
<1>4. last \in Seq(Accesses) /\ Plain(last)
  BY <1>3, PlainTable
<1>5. Len(last) = 1
  BY <1>3, TableIs
<1>6. \A n : n # "stream" => Never(last, n)
  BY <1>3, TableWrites
<1>7. Leaves(last, "stream", 1)
  BY <1>3, TableWrites
<1> HIDE DEF last
<1>8. code \in Seq(Accesses) /\ Plain(code)
  BY <1>4, PlainJoined
<1>9. Len(code) = Len(path) + 1 /\ \A i \in 1 .. Len(path) : code[i] = path[i]
  <2>1. Len(code) = Len(path) + Len(last) /\ \A i \in 1 .. Len(path) : code[i] = path[i]
    BY <1>4, Joined
  <2> QED BY <1>5, <2>1
<1>10. \A n : n \notin {"stream", "port", "pclk", "vid_tx", "map", "pipe"} => Never(code, n)
  BY <1>4, <1>6, JoinedWrites
<1>11. Leaves(code, "stream", 1)
  BY <1>4, <1>7, JoinedWrites
<1>12. list[Len(list)] = "pixel" => \A n \in Needs(k) \ Made(k) : Leaves(code, n, 1)
  <2>1. \A n \in Needs(k) \ Made(k) : n # "stream"
    BY GmslNames, NeedsAre
  <2> QED BY <1>4, <1>6, <2>1, JoinedWrites
<1> HIDE DEF code
<1>13. /\ k # "gmax3405" /\ Made(k) \subseteq {"fmt", "clock", "type"}
       /\ Needs(k) \ Made(k) \subseteq {"port", "pclk", "vid_tx", "map", "pipe"}
  BY GmslNames
<1>14. \A n \in Held \cup Rows \cup {"hold"} : n \notin DOMAIN sets /\ Only(code, n, 0)
  <2>1. \A n \in Held \cup Rows \cup {"hold"} : n \notin {"stream", "port", "pclk", "vid_tx", "map", "pipe"}
    BY DEF Held, Window, FLIP_H, Black, Rows
  <2> QED BY <1>2, <1>10, <2>1, NeverIsOnly
<1>15. "start" \in Exclusive /\ "start" \notin Settings /\ "start" \notin {"init", "stop"}
  BY NamesAre
<1>16. w.name = "start" /\ w.code = code /\ w.sets = sets /\ Shaped(w) /\ Faithful(w, k)
  <2>1. "stream" \in DOMAIN sets /\ \A n \in DOMAIN sets : Leaves(code, n, sets[n])
    BY <1>2, <1>11
  <2> QED BY <1>2, <1>8, <1>14, <1>15, <2>1, GmslFaithful
<1> HIDE DEF w
<1>17. \A i \in 1 .. Len(code) : Writes(code[i], "stream") => i = Len(code)
  <2>1. \A i \in 1 .. Len(path) : ~ Writes(path[i], "stream")
    BY DEF Never
  <2>2. \A i \in 1 .. Len(code) : i \in 1 .. Len(path) \/ i = Len(code)
    BY <1>9
  <2> QED BY <1>9, <2>1, <2>2
<1>18. \A j \in Len(code) + 1 .. Len(code) : FALSE
  BY <1>9
<1>19. \A n \in Made(k) : Never(code, n)
  BY <1>10, <1>13
<1>20. Piped(w, k, list)
  BY <1>2, <1>12, <1>15, <1>16, <1>17, <1>18, <1>19 DEF Piped
<1> QED BY <1>13, <1>16, <1>20 DEF Sound, w, code, last, sets

LEMMA ShortTable ==
    ASSUME NEW x, NEW y,
           \/ x = W({"fmt"}, 1) /\ y = W({"stream"}, 0)
           \/ x = W({"stream"}, 0) /\ y = W({"fmt"}, 1)
    PROVE  /\ <<SoftReset, x, y>> \in Seq(Accesses)
           /\ \A i \in 1 .. Len(<<SoftReset, x, y>>) : <<SoftReset, x, y>>[i].op # "modify"
           /\ \A n : n # "fmt" => Only(<<SoftReset, x, y>>, n, 0)
           /\ Leaves(<<SoftReset, x, y>>, "stream", 0) /\ Leaves(<<SoftReset, x, y>>, "fmt", 1)
           /\ \A n : n \notin Sensor => Never(<<SoftReset, x, y>>, n)
<1> DEFINE t == <<SoftReset, x, y>>
           z == SoftReset
<1>1. Sensor \in SUBSET Fields /\ {"fmt"} \in SUBSET Fields /\ {"stream"} \in SUBSET Fields /\ 0 \in Nat /\ 1 \in Nat
      /\ "fmt" \in Sensor /\ "stream" \in Sensor
  BY FieldNames
<1>2. /\ z \in Accesses /\ z.op = "write" /\ \A n \in Sensor : z.f[n] = 0
      /\ \A n : Writes(z, n) <=> n \in Sensor
  <2>1. W(Sensor, 0) \in Accesses /\ W(Sensor, 0).op = "write" /\ \A n \in Sensor : W(Sensor, 0).f[n] = 0
    BY <1>1, WIs
  <2>2. \A n : Writes(W(Sensor, 0), n) <=> n \in Sensor
    BY <1>1, WIs
  <2> QED BY <2>1, <2>2 DEF SoftReset
<1> HIDE DEF z
<1> DEFINE s == W({"stream"}, 0)
           f == W({"fmt"}, 1)
<1>3. s \in Accesses /\ s.op = "write" /\ s.f["stream"] = 0 /\ \A n : Writes(s, n) <=> n = "stream"
  BY <1>1, WIs
<1>4. f \in Accesses /\ f.op = "write" /\ f.f["fmt"] = 1 /\ \A n : Writes(f, n) <=> n = "fmt"
  BY <1>1, WIs
<1>5. (x = f /\ y = s) \/ (x = s /\ y = f)
  OBVIOUS
<1> HIDE DEF s, f
<1>6. x \in Accesses /\ y \in Accesses
  BY <1>3, <1>4, <1>5
<1>7. t \in Seq(Accesses) /\ Len(t) = 3 /\ t[1] = z /\ t[2] = x /\ t[3] = y
  <2>1. t = <<z, x, y>>
    BY DEF z
  <2> HIDE DEF t
  <2> QED BY <1>2, <1>6, <2>1
<1> HIDE DEF t
<1>8. \A i \in 1 .. 3 : i = 1 \/ i = 2 \/ i = 3
  OBVIOUS
<1>9. \A i \in 1 .. Len(t) : t[i].op # "modify"
  BY <1>2, <1>3, <1>4, <1>5, <1>7, <1>8
<1>10. ASSUME NEW n, n # "fmt"
       PROVE  Only(t, n, 0)
  BY <1>2, <1>3, <1>4, <1>5, <1>7, <1>8, <1>10 DEF Only
<1>11. Leaves(t, "stream", 0)
  <2>1. PICK i \in 1 .. 3 : t[i] = s
    BY <1>5, <1>7
  <2>2. i \in 1 .. Len(t) /\ Writes(t[i], "stream") /\ t[i].f["stream"] = 0 /\ Only(t, "stream", 0)
    BY <1>3, <1>7, <1>10, <2>1
  <2> QED BY <1>7, <2>2, LeavesBy
<1>12. Leaves(t, "fmt", 1)
  <2>1. CASE y = f
    <3>1. 3 \in 1 .. Len(t) /\ Writes(t[3], "fmt") /\ t[3].f["fmt"] = 1 /\ \A j \in 3 + 1 .. Len(t) : ~ Writes(t[j], "fmt")
      BY <1>4, <1>7, <2>1
    <3> QED BY <1>7, <3>1, LeavesBy
  <2>2. CASE x = f /\ y = s
    <3>1. \A j \in 2 + 1 .. 3 : j = 3
      OBVIOUS
    <3>2. 2 \in 1 .. Len(t) /\ Writes(t[2], "fmt") /\ t[2].f["fmt"] = 1 /\ \A j \in 2 + 1 .. Len(t) : ~ Writes(t[j], "fmt")
      BY <1>3, <1>4, <1>7, <2>2, <3>1
    <3> QED BY <1>7, <3>2, LeavesBy
  <2> QED BY <1>5, <2>1, <2>2
<1>13. \A n : n \notin Sensor => Never(t, n)
  BY <1>1, <1>2, <1>3, <1>4, <1>5, <1>7, <1>8 DEF Never
<1> QED BY <1>7, <1>9, <1>10, <1>11, <1>12, <1>13 DEF t

LEMMA ShortInit ==
    ASSUME NEW x, NEW y,
           \/ x = W({"fmt"}, 1) /\ y = W({"stream"}, 0)
           \/ x = W({"stream"}, 0) /\ y = W({"fmt"}, 1)
    PROVE  /\ sensor_write_table(<<SoftReset, x, y>>) \in Seq(Accesses)
           /\ Plain(sensor_write_table(<<SoftReset, x, y>>))
           /\ \A n : n # "fmt" => Only(sensor_write_table(<<SoftReset, x, y>>), n, 0)
           /\ Leaves(sensor_write_table(<<SoftReset, x, y>>), "stream", 0)
           /\ Leaves(sensor_write_table(<<SoftReset, x, y>>), "fmt", 1)
           /\ Never(sensor_write_table(<<SoftReset, x, y>>), "type")
<1> DEFINE t == <<SoftReset, x, y>>
<1>1. /\ t \in Seq(Accesses) /\ \A i \in 1 .. Len(t) : t[i].op # "modify"
      /\ \A n : n # "fmt" => Only(t, n, 0)
      /\ Leaves(t, "stream", 0) /\ Leaves(t, "fmt", 1)
  BY ShortTable
<1>6. \A n : n \notin Sensor => Never(t, n)
  BY ShortTable
<1> HIDE DEF t
<1>2. sensor_write_table(t) \in Seq(Accesses) /\ Plain(sensor_write_table(t))
  BY <1>1, PlainTable
<1>3. \A n : n # "fmt" => Only(sensor_write_table(t), n, 0)
  BY <1>1, TableWrites
<1>4. Leaves(sensor_write_table(t), "stream", 0) /\ Leaves(sensor_write_table(t), "fmt", 1)
  BY <1>1, TableWrites
<1>5. Never(sensor_write_table(t), "type")
  <2>1. "type" \notin Sensor
    BY FieldNames DEF Path
  <2> QED BY <1>1, <1>6, <2>1, TableWrites
<1> QED BY <1>2, <1>3, <1>4, <1>5 DEF t

(* What the serialiser is told first is of the path, not of the sensor.    *)
LEMMA SetupIs ==
    ASSUME NEW k \in Gmsl
    PROVE  /\ SerialiserSetup(k) \in Seq(Accesses) /\ Plain(SerialiserSetup(k))
           /\ \A n : n \notin {"type", "port"} => Never(SerialiserSetup(k), n)
           /\ k # "ov5640" => Leaves(SerialiserSetup(k), "type", 1)
<1>1. /\ k \notin Parallel /\ k \in {"gmax3412", "og05b2b", "og02c1b", "ov5640"}
  BY DEF Parallel, Gmsl
<1>2. {"type"} \in SUBSET Fields /\ {"port"} \in SUBSET Fields /\ 1 \in Nat
  BY FieldNames DEF Path
<1> DEFINE s == <<W({"type"}, 1)>>
           p == <<W({"port"}, 1)>>
<1>3. s \in Seq(Accesses) /\ Plain(s) /\ Leaves(s, "type", 1)
  BY <1>2, OneWrite
<1>4. \A n : n # "type" => Never(s, n)
  BY <1>2, OneWrite
<1>5. p \in Seq(Accesses) /\ Plain(p)
  BY <1>2, OneWrite
<1>6. \A n : n # "port" => Never(p, n)
  BY <1>2, OneWrite
<1>7. s \o p = <<W({"type"}, 1), W({"port"}, 1)>>
  <2>1. W({"type"}, 1) \in Accesses /\ W({"port"}, 1) \in Accesses
    BY <1>2, WIs
  <2> QED BY <2>1, PairJoined
<1> HIDE DEF s, p
<1>8. CASE k = "og02c1b"
  <2>1. SerialiserSetup(k) = s \o p
    BY <1>1, <1>7, <1>8 DEF SerialiserSetup
  <2>2. s \o p \in Seq(Accesses) /\ Plain(s \o p)
    BY <1>3, <1>5, PlainJoined
  <2>3. \A n : n \notin {"type", "port"} => Never(s \o p, n)
    BY <1>3, <1>4, <1>5, <1>6, JoinedWrites
  <2>4. Never(p, "type")
    BY <1>6
  <2>5. Leaves(s \o p, "type", 1)
    BY <1>3, <1>5, <2>4, JoinedWrites
  <2> QED BY <2>1, <2>2, <2>3, <2>5
<1>9. CASE k = "ov5640"
  <2> DEFINE e == << >>
  <2>1. SerialiserSetup(k) = e
    BY <1>1, <1>9 DEF SerialiserSetup
  <2>2. e \in Seq(Accesses) /\ Len(e) = 0
    BY EmptySeq, SMT
  <2> HIDE DEF e
  <2>3. \A i \in 1 .. Len(e) : FALSE
    BY <2>2
  <2> QED BY <1>9, <2>1, <2>2, <2>3 DEF Plain, Never
<1>10. CASE k \in {"gmax3412", "og05b2b"}
  <2>1. SerialiserSetup(k) = s
    BY <1>1, <1>10 DEF SerialiserSetup, s
  <2> QED BY <1>3, <1>4, <2>1
<1> QED BY <1>1, <1>8, <1>9, <1>10

LEMMA MasterInit ==
    /\ gmax3412_init_param \in Seq(Accesses) /\ Plain(gmax3412_init_param)
    /\ \A n \in Held \cup Rows \cup {"hold", "stream"} : Only(gmax3412_init_param, n, 0)
    /\ Leaves(gmax3412_init_param, "stream", 0)
    /\ Leaves(gmax3412_init_param, "fmt", 1) /\ Leaves(gmax3412_init_param, "clock", 1)
    /\ Never(gmax3412_init_param, "type")
<1> DEFINE t == gmax3412_mode_12bit_2592x1944_30fps
           s == <<W({"stream"}, 0)>>
           c == <<W({"clock"}, 1)>>
           b == sensor_write_table(t)
<1>1. /\ {"stream"} \in SUBSET Fields /\ {"hold"} \in SUBSET Fields /\ {"gain"} \in SUBSET Fields
      /\ {"clock"} \in SUBSET Fields /\ {"fmt"} \in SUBSET Fields /\ FLIP_H \in SUBSET Fields
      /\ 0 \in Nat /\ 1 \in Nat
  BY FieldNames
<1>2. /\ W({"stream"}, 0) \in Accesses /\ W({"hold"}, 0) \in Accesses /\ W({"gain"}, 0) \in Accesses
      /\ W({"clock"}, 0) \in Accesses /\ W(FLIP_H, 0) \in Accesses /\ W({"fmt"}, 1) \in Accesses
  BY <1>1, WIs
<1>3. /\ t \in Seq(Accesses) /\ Len(t) = 6
      /\ t[1] = W({"stream"}, 0) /\ t[2] = W({"hold"}, 0) /\ t[3] = W({"gain"}, 0)
      /\ t[4] = W({"clock"}, 0) /\ t[5] = W(FLIP_H, 0) /\ t[6] = W({"fmt"}, 1)
  <2>1. t = << W({"stream"}, 0), W({"hold"}, 0), W({"gain"}, 0), W({"clock"}, 0), W(FLIP_H, 0), W({"fmt"}, 1) >>
    BY DEF gmax3412_mode_12bit_2592x1944_30fps
  <2> HIDE DEF t
  <2> QED BY <1>2, <2>1
<1> HIDE DEF t
<1>4. \A i \in 1 .. 6 : i = 1 \/ i = 2 \/ i = 3 \/ i = 4 \/ i = 5 \/ i = 6
  OBVIOUS
<1>5. /\ \A i \in 1 .. 6 : t[i].op = "write"
      /\ \A i \in 1 .. 5 : \A n : Writes(t[i], n) => t[i].f[n] = 0
      /\ \A n : Writes(t[6], n) <=> n = "fmt"
      /\ t[6].f["fmt"] = 1
  <2>1. \A i \in 1 .. 6 : t[i].op = "write"
    BY <1>3, <1>4, WIs
  <2>2. \A i \in 1 .. 5 : i = 1 \/ i = 2 \/ i = 3 \/ i = 4 \/ i = 5
    OBVIOUS
  <2>3. \A i \in 1 .. 5 : \A n : Writes(t[i], n) => t[i].f[n] = 0
    BY <1>3, <2>2, WIs
  <2> QED BY <1>3, <2>1, <2>3, WIs
<1>6. b \in Seq(Accesses) /\ Plain(b)
  BY <1>3, <1>5, PlainTable
<1>7. \A n : n # "fmt" => Only(t, n, 0)
  <2>1. \A i \in 1 .. 6 : i \in 1 .. 5 \/ i = 6
    OBVIOUS
  <2> QED BY <1>3, <1>5, <2>1 DEF Only
<1>8. Leaves(t, "fmt", 1)
  <2>1. 6 \in 1 .. Len(t) /\ Writes(t[6], "fmt") /\ \A j \in 6 + 1 .. Len(t) : ~ Writes(t[j], "fmt")
    BY <1>3, <1>5
  <2> QED BY <1>3, <1>5, <2>1, LeavesBy
<1>9. \A n : n # "fmt" => Only(b, n, 0)
  BY <1>3, <1>7, TableWrites
<1>10. Leaves(b, "fmt", 1)
  BY <1>3, <1>8, TableWrites
<1> HIDE DEF b
<1>11. s \in Seq(Accesses) /\ Plain(s) /\ Leaves(s, "stream", 0) /\ Only(s, "stream", 0)
  BY <1>1, OneWrite
<1>12. \A n : n # "stream" => Never(s, n)
  BY <1>1, OneWrite
<1>13. c \in Seq(Accesses) /\ Plain(c) /\ Leaves(c, "clock", 1)
  BY <1>1, OneWrite
<1>14. \A n : n # "clock" => Never(c, n)
  BY <1>1, OneWrite
<1>15. s \o c = << W({"stream"}, 0), W({"clock"}, 1) >>
  <2>1. W({"stream"}, 0) \in Accesses /\ W({"clock"}, 1) \in Accesses
    BY <1>1, WIs
  <2> QED BY <2>1, PairJoined
<1> HIDE DEF s, c
<1>16. s \o c \in Seq(Accesses) /\ Plain(s \o c)
  BY <1>11, <1>13, PlainJoined
<1>17. \A n : n \notin {"stream", "clock"} => Never(s \o c, n)
  BY <1>11, <1>12, <1>13, <1>14, JoinedWrites
<1>18. Leaves(s \o c, "stream", 0) /\ Only(s \o c, "stream", 0)
  <2>1. Never(c, "stream") /\ Only(c, "stream", 0)
    BY <1>14, NeverIsOnly
  <2> QED BY <1>11, <1>13, <2>1, JoinedWrites
<1>19. Leaves(s \o c, "clock", 1)
  BY <1>11, <1>13, JoinedWrites
<1> DEFINE u == s \o c
<1> HIDE DEF u
<1>20. gmax3412_init_param = b \o u
  BY <1>15 DEF gmax3412_init_param, b, t, u
<1>21. u \in Seq(Accesses) /\ Plain(u) /\ Leaves(u, "stream", 0) /\ Only(u, "stream", 0) /\ Leaves(u, "clock", 1)
       /\ \A n : n \notin {"stream", "clock"} => Never(u, n)
  BY <1>16, <1>17, <1>18, <1>19 DEF u
<1>22. b \o u \in Seq(Accesses) /\ Plain(b \o u)
  BY <1>6, <1>21, PlainJoined
<1>23. ASSUME NEW n \in Held \cup Rows \cup {"hold", "stream"}
       PROVE  Only(b \o u, n, 0)
  <2>1. n # "fmt" /\ n # "clock"
    BY DEF Held, Window, FLIP_H, Black, Rows
  <2>2. Only(u, n, 0) /\ Only(b, n, 0)
    BY <1>9, <1>21, <2>1, NeverIsOnly
  <2> QED BY <1>6, <1>21, <2>2, JoinedWrites
<1>24. Leaves(b \o u, "stream", 0) /\ Leaves(b \o u, "clock", 1)
  BY <1>6, <1>21, JoinedWrites
<1>25. Leaves(b \o u, "fmt", 1)
  <2>1. Never(u, "fmt")
    BY <1>21
  <2> QED BY <1>6, <1>10, <1>21, <2>1, JoinedWrites
<1>26. Never(b \o u, "type")
  <2>1. "type" \notin FLIP_H
    BY DEF FLIP_H
  <2>2. \A i \in 1 .. 6 : ~ Writes(t[i], "type")
    BY <1>3, <1>4, <2>1, WIs
  <2>3. Never(t, "type")
    BY <1>3, <2>2 DEF Never
  <2>4. Never(b, "type")
    BY <1>3, <2>3, TableWrites DEF b
  <2>5. Never(u, "type")
    BY <1>21
  <2> QED BY <1>6, <1>21, <2>4, <2>5, JoinedWrites
<1> QED BY <1>20, <1>22, <1>23, <1>24, <1>25, <1>26

(* The same, ready for the three drivers that use such a table.             *)
LEMMA ShortSound ==
    ASSUME NEW s,
           \/ s = sensor_write_table(<<SoftReset, W({"fmt"}, 1), W({"stream"}, 0)>>)
           \/ s = sensor_write_table(<<SoftReset, W({"stream"}, 0), W({"fmt"}, 1)>>)
    PROVE  /\ s \in Seq(Accesses) /\ Plain(s)
           /\ \A n \in Held \cup Rows \cup {"hold", "stream"} : Only(s, n, 0)
           /\ Leaves(s, "stream", 0) /\ Leaves(s, "fmt", 1) /\ Never(s, "type")
<1>1. PICK x, y : /\ \/ x = W({"fmt"}, 1) /\ y = W({"stream"}, 0)
                     \/ x = W({"stream"}, 0) /\ y = W({"fmt"}, 1)
                  /\ s = sensor_write_table(<<SoftReset, x, y>>)
  OBVIOUS
<1>2. /\ s \in Seq(Accesses) /\ Plain(s) /\ \A n : n # "fmt" => Only(s, n, 0)
      /\ Leaves(s, "stream", 0) /\ Leaves(s, "fmt", 1) /\ Never(s, "type")
  BY <1>1, ShortInit
<1>3. "fmt" \notin Held \cup Rows \cup {"hold", "stream"}
  BY DEF Held, Window, FLIP_H, Black, Rows
<1> QED BY <1>2, <1>3

LEMMA GmslProbeSound ==
    ASSUME NEW k \in Gmsl, NEW list
    PROVE  Sound(InitCall(k), k, list) /\ InitCall(k).name = "init"
<1> DEFINE p == SerialiserSetup(k)
           s == sensor_init_param(k)
<1>1. /\ k # "gmax3405" /\ k # "sc535" /\ k \in {"gmax3412", "og05b2b", "og02c1b", "ov5640"}
      /\ Made(k) \subseteq {"fmt", "clock", "type"}
      /\ k = "gmax3412" => Made(k) = {"fmt", "clock", "type"}
      /\ k \in {"og05b2b", "og02c1b"} => Made(k) = {"fmt", "type"}
      /\ k = "ov5640" => Made(k) = {"fmt"}
  BY GmslNames
<1>2. /\ p \in Seq(Accesses) /\ Plain(p) /\ (k # "ov5640" => Leaves(p, "type", 1))
      /\ \A n : n \notin {"type", "port"} => Never(p, n)
  BY SetupIs
<1>3. /\ s \in Seq(Accesses) /\ Plain(s)
      /\ \A n \in Held \cup Rows \cup {"hold", "stream"} : Only(s, n, 0)
      /\ Leaves(s, "stream", 0) /\ Leaves(s, "fmt", 1) /\ Never(s, "type")
      /\ k = "gmax3412" => Leaves(s, "clock", 1)
  <2>1. CASE k = "gmax3412"
    <3>1. s = gmax3412_init_param
      BY <2>1 DEF sensor_init_param
    <3> QED BY <3>1, MasterInit
  <2>2. CASE k = "og05b2b"
    <3>1. s = sensor_write_table(<<SoftReset, W({"fmt"}, 1), W({"stream"}, 0)>>)
      BY <2>2 DEF sensor_init_param, og05b2b_mode_10bit_2592x1944_30fps
    <3> QED BY <2>2, <3>1, ShortSound
  <2>3. CASE k = "og02c1b"
    <3>1. s = sensor_write_table(<<SoftReset, W({"stream"}, 0), W({"fmt"}, 1)>>)
      BY <2>3 DEF sensor_init_param, og02c1b_mode_8bit_1440x630_400fps
    <3> QED BY <2>3, <3>1, ShortSound
  <2>4. CASE k = "ov5640"
    <3>1. s = sensor_write_table(<<SoftReset, W({"stream"}, 0), W({"fmt"}, 1)>>)
      BY <2>4 DEF sensor_init_param, ov5640_9295_mode_1920x1080_30fps
    <3> QED BY <2>4, <3>1, ShortSound
  <2> QED BY <1>1, <2>1, <2>2, <2>3, <2>4
<1>4. InitCall(k) = Call("init", p \o s, Over(Set({"fmt"}, 1), Set({"stream"}, 0)))
  BY <1>1 DEF InitCall
<1> HIDE DEF p, s
<1>5. p \o s \in Seq(Accesses) /\ Plain(p \o s)
  BY <1>2, <1>3, PlainJoined
<1>6. ASSUME NEW n \in Held \cup Rows \cup {"hold", "stream"}
      PROVE  Only(p \o s, n, 0)
  <2>1. n \notin {"type", "port"}
    BY DEF Held, Window, FLIP_H, Black, Rows
  <2>2. Only(p, n, 0) /\ Only(s, n, 0)
    BY <1>2, <1>3, <2>1, NeverIsOnly
  <2> QED BY <1>2, <1>3, <2>2, JoinedWrites
<1>7. Leaves(p \o s, "stream", 0) /\ Leaves(p \o s, "fmt", 1)
  BY <1>2, <1>3, JoinedWrites
<1>8. k = "gmax3412" => Leaves(p \o s, "clock", 1)
  BY <1>2, <1>3, JoinedWrites
<1>9. k # "ov5640" => Leaves(p \o s, "type", 1)
  BY <1>2, <1>3, JoinedWrites
<1> DEFINE code == p \o s
<1>10. \A n \in Made(k) : Leaves(code, n, 1)
  <2> HIDE DEF code
  <2>1. /\ Leaves(code, "fmt", 1) /\ (k = "gmax3412" => Leaves(code, "clock", 1))
        /\ k # "ov5640" => Leaves(code, "type", 1)
    BY <1>7, <1>8, <1>9 DEF code
  <2> QED BY <1>1, <2>1
<1>11. /\ code \in Seq(Accesses) /\ Plain(code) /\ Leaves(code, "stream", 0)
       /\ \A n \in Held \cup Rows \cup {"hold", "stream"} : Only(code, n, 0)
  BY <1>5, <1>6, <1>7
<1> HIDE DEF code
<1>12. /\ Sound(Call("init", code, Over(Set({"fmt"}, 1), Set({"stream"}, 0))), k, list)
       /\ Call("init", code, Over(Set({"fmt"}, 1), Set({"stream"}, 0))).name = "init"
  BY <1>10, <1>11, GmslInitSound
<1> QED BY <1>4, <1>12 DEF code

LEMMA TripleJoined ==
    ASSUME NEW a \in Accesses, NEW b \in Accesses, NEW c \in Accesses
    PROVE  <<a, b>> \o <<c>> = <<a, b, c>>
<1> DEFINE s == <<a, b>>
           t == <<c>>
           u == s \o t
           v == <<a, b, c>>
<1>1. s \in Seq(Accesses) /\ Len(s) = 2 /\ s[1] = a /\ s[2] = b
  OBVIOUS
<1>2. t \in Seq(Accesses) /\ Len(t) = 1 /\ t[1] = c
  OBVIOUS
<1>3. v \in Seq(Accesses) /\ Len(v) = 3 /\ v[1] = a /\ v[2] = b /\ v[3] = c
  OBVIOUS
<1> HIDE DEF s, t, v
<1>4. /\ u \in Seq(Accesses) /\ Len(u) = Len(s) + Len(t)
      /\ \A i \in 1 .. Len(s) : u[i] = s[i]
      /\ \A i \in 1 .. Len(t) : u[Len(s) + i] = t[i]
  BY <1>1, <1>2, Joined
<1> HIDE DEF u
<1>5. Len(u) = 3 /\ u[1] = a /\ u[2] = b /\ u[3] = c
  <2>1. u[2 + 1] = t[1]
    BY <1>1, <1>2, <1>4
  <2> QED BY <1>1, <1>2, <1>4, <2>1
<1>6. \A i \in 1 .. 3 : i = 1 \/ i = 2 \/ i = 3
  OBVIOUS
<1>7. u = v
  BY <1>3, <1>4, <1>5, <1>6, SeqEqual
<1> QED BY <1>7 DEF u, s, t, v

LEMMA ListsAre ==
    ASSUME NEW k \in Kinds, NEW list \in Lists(k)
    PROVE  k \in Gmsl => list \in Seq({"pixel", "embed"}) /\ Len(list) > 0
<1>1. <<"pixel">> \in Seq({"pixel", "embed"}) /\ Len(<<"pixel">>) > 0
  OBVIOUS
<1>2. <<"embed", "pixel">> \in Seq({"pixel", "embed"}) /\ Len(<<"embed", "pixel">>) > 0
  OBVIOUS
<1>3. <<"pixel", "embed">> \in Seq({"pixel", "embed"}) /\ Len(<<"pixel", "embed">>) > 0
  OBVIOUS
<1>4. k \in Gmsl => list = <<"pixel">> \/ list = <<"embed", "pixel">> \/ list = <<"pixel", "embed">>
  BY DEF Lists
<1> QED BY <1>1, <1>2, <1>3, <1>4

(* Every stream maps its type; the last of the list is what stays.         *)
LEMMA MapIs ==
    ASSUME NEW S, NEW list \in Seq(S), Len(list) > 0
    PROVE  /\ MapOf(list) \in Seq(Accesses) /\ Plain(MapOf(list))
           /\ \A n : n # "map" => Never(MapOf(list), n)
           /\ list[Len(list)] = "pixel" => Leaves(MapOf(list), "map", 1)
<1> DEFINE v(i) == IF list[i] = "pixel" THEN 1 ELSE 0
           m == MapOf(list)
<1>1. DOMAIN list = 1 .. Len(list) /\ Len(list) \in Nat
  OBVIOUS
<1>2. m = [i \in 1 .. Len(list) |-> Des({"map"}, v(i))]
  BY <1>1 DEF MapOf
<1>3. ASSUME NEW i \in 1 .. Len(list)
      PROVE  /\ Des({"map"}, v(i)) \in Accesses /\ Des({"map"}, v(i)).op = "deser" /\ Des({"map"}, v(i)).skip = 0
             /\ Des({"map"}, v(i)).f["map"] = v(i)
             /\ \A n : Writes(Des({"map"}, v(i)), n) <=> n = "map"
  <2>1. {"map"} \in SUBSET Fields
    BY FieldNames DEF Path
  <2>2. v(i) \in Nat
    OBVIOUS
  <2> HIDE DEF v
  <2>3. /\ Des({"map"}, v(i)) \in Accesses /\ Des({"map"}, v(i)).op = "deser" /\ Des({"map"}, v(i)).skip = 0
    BY <2>1, <2>2, DesIs
  <2>4. Des({"map"}, v(i)).f["map"] = v(i)
    BY <2>1, <2>2, DesIs
  <2>5. \A n : Writes(Des({"map"}, v(i)), n) <=> n = "map"
    BY <2>1, <2>2, DesIs
  <2> QED BY <2>3, <2>4, <2>5
<1>4. list[Len(list)] = "pixel" => v(Len(list)) = 1
  OBVIOUS
<1> HIDE DEF m, v
<1>5. /\ m \in Seq(Accesses) /\ Len(m) = Len(list)
      /\ \A i \in 1 .. Len(list) : m[i] = Des({"map"}, v(i))
  BY <1>1, <1>2, <1>3
<1>6. Plain(m)
  <2>1. \A i \in 1 .. Len(list) : 0 <= Len(list) - i
    BY <1>1
  <2> QED BY <1>3, <1>5, <2>1 DEF Plain
<1>7. \A n : n # "map" => Never(m, n)
  BY <1>3, <1>5 DEF Never
<1>8. ASSUME list[Len(list)] = "pixel"
      PROVE  Leaves(m, "map", 1)
  <2>1. Len(m) \in 1 .. Len(m) /\ Len(m) = Len(list)
    BY <1>1, <1>5
  <2>2. Writes(m[Len(m)], "map") /\ m[Len(m)].f["map"] = 1
    BY <1>3, <1>4, <1>5, <1>8, <2>1
  <2>3. \A j \in Len(m) + 1 .. Len(m) : ~ Writes(m[j], "map")
    BY <2>1
  <2> QED BY <1>5, <2>1, <2>2, <2>3, LeavesBy
<1> QED BY <1>5, <1>6, <1>7, <1>8 DEF m

LEMMA PathFields ==
    /\ {"port"} \in SUBSET Fields /\ {"pclk"} \in SUBSET Fields /\ {"vid_tx"} \in SUBSET Fields
    /\ {"pipe"} \in SUBSET Fields /\ {"map"} \in SUBSET Fields /\ {"stream"} \in SUBSET Fields
    /\ 0 \in Nat /\ 1 \in Nat
BY FieldNames DEF Path

LEMMA PipeIs ==
    ASSUME NEW S, NEW list \in Seq(S), Len(list) > 0
    PROVE  /\ z_max96724_start_streaming(list) \in Seq(Accesses) /\ Plain(z_max96724_start_streaming(list))
           /\ \A n : n \notin {"map", "pipe"} => Never(z_max96724_start_streaming(list), n)
           /\ Leaves(z_max96724_start_streaming(list), "pipe", 1)
           /\ list[Len(list)] = "pixel" => Leaves(z_max96724_start_streaming(list), "map", 1)
<1> DEFINE m == MapOf(list)
           p == <<Des({"pipe"}, 1)>>
<1>1. /\ m \in Seq(Accesses) /\ Plain(m) /\ \A n : n # "map" => Never(m, n)
      /\ list[Len(list)] = "pixel" => Leaves(m, "map", 1)
  BY MapIs
<1>2. p \in Seq(Accesses) /\ Plain(p) /\ Leaves(p, "pipe", 1)
  BY PathFields, OneDes
<1>3. \A n : n # "pipe" => Never(p, n)
  BY PathFields, OneDes
<1>4. z_max96724_start_streaming(list) = m \o p
  BY DEF z_max96724_start_streaming
<1> HIDE DEF m, p
<1>5. m \o p \in Seq(Accesses) /\ Plain(m \o p)
  BY <1>1, <1>2, PlainJoined
<1>6. \A n : n \notin {"map", "pipe"} => Never(m \o p, n)
  BY <1>1, <1>2, <1>3, JoinedWrites
<1>7. Leaves(m \o p, "pipe", 1)
  BY <1>1, <1>2, JoinedWrites
<1>8. list[Len(list)] = "pixel" => Leaves(m \o p, "map", 1)
  <2>1. Never(p, "map")
    BY <1>3
  <2> QED BY <1>1, <1>2, <2>1, JoinedWrites
<1> QED BY <1>4, <1>5, <1>6, <1>7, <1>8

LEMMA PortIs ==
    /\ <<W({"port"}, 1), W({"pclk"}, 1)>> \in Seq(Accesses) /\ Plain(<<W({"port"}, 1), W({"pclk"}, 1)>>)
    /\ \A n : n \notin {"port", "pclk"} => Never(<<W({"port"}, 1), W({"pclk"}, 1)>>, n)
    /\ Leaves(<<W({"port"}, 1), W({"pclk"}, 1)>>, "port", 1) /\ Leaves(<<W({"port"}, 1), W({"pclk"}, 1)>>, "pclk", 1)
<1> DEFINE s == <<W({"port"}, 1)>>
           t == <<W({"pclk"}, 1)>>
<1>1. s \in Seq(Accesses) /\ Plain(s) /\ Leaves(s, "port", 1)
  BY PathFields, OneWrite
<1>2. \A n : n # "port" => Never(s, n)
  BY PathFields, OneWrite
<1>3. t \in Seq(Accesses) /\ Plain(t) /\ Leaves(t, "pclk", 1)
  BY PathFields, OneWrite
<1>4. \A n : n # "pclk" => Never(t, n)
  BY PathFields, OneWrite
<1>5. <<W({"port"}, 1), W({"pclk"}, 1)>> = s \o t
  <2>1. W({"port"}, 1) \in Accesses /\ W({"pclk"}, 1) \in Accesses
    BY PathFields, WIs
  <2> QED BY <2>1, PairJoined
<1> HIDE DEF s, t
<1>6. s \o t \in Seq(Accesses) /\ Plain(s \o t)
  BY <1>1, <1>3, PlainJoined
<1>7. \A n : n \notin {"port", "pclk"} => Never(s \o t, n)
  BY <1>1, <1>2, <1>3, <1>4, JoinedWrites
<1>8. Leaves(s \o t, "pclk", 1)
  BY <1>1, <1>3, JoinedWrites
<1>9. Leaves(s \o t, "port", 1)
  <2>1. Never(t, "port")
    BY <1>4
  <2> QED BY <1>1, <1>3, <2>1, JoinedWrites
<1> QED BY <1>5, <1>6, <1>7, <1>8, <1>9

LEMMA StartSound ==
    ASSUME NEW k \in Gmsl, NEW list \in Lists(k)
    PROVE  /\ Sound(Call("start", stream_set_on(k, list), Set({"stream"}, 1)), k, list)
           /\ Call("start", stream_set_on(k, list), Set({"stream"}, 1)).name = "start"
<1> DEFINE a == <<W({"port"}, 1), W({"pclk"}, 1)>>
           m == z_max96724_start_streaming(list)
           v == <<W({"vid_tx"}, 1)>>
           last == sensor_write_table(start_stream)
<1>1. k \in Kinds /\ k \in {"gmax3412", "og05b2b", "og02c1b", "ov5640"}
  BY GmslNames
<1>2. list \in Seq({"pixel", "embed"}) /\ Len(list) > 0
  BY <1>1, ListsAre
<1>3. /\ a \in Seq(Accesses) /\ Plain(a) /\ Leaves(a, "port", 1) /\ Leaves(a, "pclk", 1)
      /\ \A n : n \notin {"port", "pclk"} => Never(a, n)
  BY PortIs
<1>4. /\ m \in Seq(Accesses) /\ Plain(m) /\ Leaves(m, "pipe", 1)
      /\ \A n : n \notin {"map", "pipe"} => Never(m, n)
      /\ list[Len(list)] = "pixel" => Leaves(m, "map", 1)
  BY <1>2, PipeIs
<1>5. v \in Seq(Accesses) /\ Plain(v) /\ Leaves(v, "vid_tx", 1)
  BY PathFields, OneWrite
<1>6. \A n : n # "vid_tx" => Never(v, n)
  BY PathFields, OneWrite
<1>7. a \o v = <<W({"port"}, 1), W({"pclk"}, 1), W({"vid_tx"}, 1)>>
  <2>1. W({"port"}, 1) \in Accesses /\ W({"pclk"}, 1) \in Accesses /\ W({"vid_tx"}, 1) \in Accesses
    BY PathFields, WIs
  <2> QED BY <2>1, TripleJoined
<1>8. /\ k = "og02c1b" => stream_set_on(k, list) = a \o m \o last
      /\ k = "ov5640" => stream_set_on(k, list) = a \o v \o m \o last
      /\ k \in {"gmax3412", "og05b2b"} => stream_set_on(k, list) = a \o m \o v \o last
  BY <1>7 DEF stream_set_on
<1>9. /\ k = "og02c1b" => Needs(k) \ Made(k) \subseteq {"port", "pclk", "map", "pipe"}
      /\ Needs(k) \ Made(k) \subseteq {"port", "pclk", "vid_tx", "map", "pipe"}
  BY GmslNames
<1> HIDE DEF a, m, v
<1> DEFINE Opens(path) == /\ path \in Seq(Accesses) /\ Plain(path)
                          /\ \A n : n \notin {"port", "pclk", "vid_tx", "map", "pipe"} => Never(path, n)
                          /\ list[Len(list)] = "pixel" => \A n \in Needs(k) \ Made(k) : Leaves(path, n, 1)
<1>10. ASSUME NEW path, Opens(path), stream_set_on(k, list) = path \o last
       PROVE  /\ Sound(Call("start", stream_set_on(k, list), Set({"stream"}, 1)), k, list)
              /\ Call("start", stream_set_on(k, list), Set({"stream"}, 1)).name = "start"
  BY <1>10, GmslStartSound
<1>11. /\ a \o m \in Seq(Accesses) /\ Plain(a \o m)
       /\ Leaves(a \o m, "port", 1) /\ Leaves(a \o m, "pclk", 1) /\ Leaves(a \o m, "pipe", 1)
       /\ \A n : n \notin {"port", "pclk", "map", "pipe"} => Never(a \o m, n)
       /\ list[Len(list)] = "pixel" => Leaves(a \o m, "map", 1)
  <2>1. a \o m \in Seq(Accesses) /\ Plain(a \o m)
    BY <1>3, <1>4, PlainJoined
  <2>2. Never(m, "port") /\ Never(m, "pclk")
    BY <1>4
  <2>3. Leaves(a \o m, "port", 1) /\ Leaves(a \o m, "pclk", 1)
    BY <1>3, <1>4, <2>2, JoinedWrites
  <2>4. Leaves(a \o m, "pipe", 1)
    BY <1>3, <1>4, JoinedWrites
  <2>5. \A n : n \notin {"port", "pclk", "map", "pipe"} => Never(a \o m, n)
    BY <1>3, <1>4, JoinedWrites
  <2>6. list[Len(list)] = "pixel" => Leaves(a \o m, "map", 1)
    BY <1>3, <1>4, JoinedWrites
  <2> QED BY <2>1, <2>3, <2>4, <2>5, <2>6
<1>12. CASE k = "og02c1b"
  <2> DEFINE path == a \o m
  <2>1. Opens(path)
    BY <1>9, <1>11, <1>12
  <2> QED BY <1>8, <1>10, <1>12, <2>1
<1>13. CASE k = "ov5640"
  <2> DEFINE b == a \o v
  <2>1. b \in Seq(Accesses) /\ Plain(b)
    BY <1>3, <1>5, PlainJoined
  <2>2. Leaves(b, "port", 1) /\ Leaves(b, "pclk", 1)
    <3>1. Never(v, "port") /\ Never(v, "pclk")
      BY <1>6
    <3> QED BY <1>3, <1>5, <3>1, JoinedWrites
  <2>3. Leaves(b, "vid_tx", 1)
    BY <1>3, <1>5, JoinedWrites
  <2>4. \A n : n \notin {"port", "pclk", "vid_tx"} => Never(b, n)
    BY <1>3, <1>5, <1>6, JoinedWrites
  <2>5. stream_set_on(k, list) = b \o m \o last
    BY <1>8, <1>13
  <2> HIDE DEF b
  <2> DEFINE path == b \o m
  <2>6. path \in Seq(Accesses) /\ Plain(path)
    BY <1>4, <2>1, PlainJoined
  <2>7. Leaves(path, "port", 1) /\ Leaves(path, "pclk", 1) /\ Leaves(path, "vid_tx", 1)
    <3>1. Never(m, "port") /\ Never(m, "pclk") /\ Never(m, "vid_tx")
      BY <1>4
    <3> QED BY <1>4, <2>1, <2>2, <2>3, <3>1, JoinedWrites
  <2>8. Leaves(path, "pipe", 1)
    BY <1>4, <2>1, JoinedWrites
  <2>9. list[Len(list)] = "pixel" => Leaves(path, "map", 1)
    BY <1>4, <2>1, JoinedWrites
  <2>10. \A n : n \notin {"port", "pclk", "vid_tx", "map", "pipe"} => Never(path, n)
    BY <1>4, <2>1, <2>4, JoinedWrites
  <2>11. stream_set_on(k, list) = path \o last
    BY <2>5
  <2> HIDE DEF path
  <2>12. Opens(path)
    BY <1>9, <2>6, <2>7, <2>8, <2>9, <2>10
  <2> QED BY <1>10, <2>11, <2>12
<1>14. CASE k \in {"gmax3412", "og05b2b"}
  <2> DEFINE b == a \o m
  <2>1. /\ b \in Seq(Accesses) /\ Plain(b)
        /\ Leaves(b, "port", 1) /\ Leaves(b, "pclk", 1) /\ Leaves(b, "pipe", 1)
        /\ \A n : n \notin {"port", "pclk", "map", "pipe"} => Never(b, n)
        /\ list[Len(list)] = "pixel" => Leaves(b, "map", 1)
    BY <1>11
  <2>2. stream_set_on(k, list) = b \o v \o last
    BY <1>8, <1>14
  <2> HIDE DEF b
  <2> DEFINE path == b \o v
  <2>3. path \in Seq(Accesses) /\ Plain(path)
    BY <1>5, <2>1, PlainJoined
  <2>4. /\ Leaves(path, "port", 1) /\ Leaves(path, "pclk", 1) /\ Leaves(path, "pipe", 1)
        /\ list[Len(list)] = "pixel" => Leaves(path, "map", 1)
    <3>1. Never(v, "port") /\ Never(v, "pclk") /\ Never(v, "pipe") /\ Never(v, "map")
      BY <1>6
    <3> QED BY <1>5, <2>1, <3>1, JoinedWrites
  <2>5. Leaves(path, "vid_tx", 1)
    BY <1>5, <2>1, JoinedWrites
  <2>6. \A n : n \notin {"port", "pclk", "vid_tx", "map", "pipe"} => Never(path, n)
    BY <1>5, <1>6, <2>1, JoinedWrites
  <2>7. stream_set_on(k, list) = path \o last
    BY <2>2
  <2> HIDE DEF path
  <2>8. Opens(path)
    BY <1>9, <2>3, <2>4, <2>5, <2>6
  <2> QED BY <1>10, <2>7, <2>8
<1> QED BY <1>1, <1>12, <1>13, <1>14

LEMMA StopSound ==
    ASSUME NEW k \in Gmsl, NEW list
    PROVE  /\ Sound(Call("stop", stream_set_off(k), Set({"stream"}, 0)), k, list)
           /\ Call("stop", stream_set_off(k), Set({"stream"}, 0)).name = "stop"
<1> DEFINE s == sensor_write_table(stop_stream)
           p == z_max96724_stop_streaming
<1>1. s \in Seq(Accesses) /\ Plain(s) /\ Leaves(s, "stream", 0) /\ Only(s, "stream", 0)
      /\ \A n : n # "stream" => Never(s, n)
  <2> DEFINE t == <<W({"stream"}, 0)>>
  <2>1. /\ t \in Seq(Accesses) /\ \A i \in 1 .. Len(t) : t[i].op # "modify"
        /\ Leaves(t, "stream", 0) /\ Only(t, "stream", 0)
    BY PathFields, OneWrite
  <2>2. \A n : n # "stream" => Never(t, n)
    BY PathFields, OneWrite
  <2>3. s = sensor_write_table(t)
    BY DEF stop_stream
  <2> HIDE DEF t
  <2>4. sensor_write_table(t) \in Seq(Accesses) /\ Plain(sensor_write_table(t))
    BY <2>1, PlainTable
  <2>5. Leaves(sensor_write_table(t), "stream", 0) /\ Only(sensor_write_table(t), "stream", 0)
    BY <2>1, TableWrites
  <2>6. \A n : n # "stream" => Never(sensor_write_table(t), n)
    BY <2>1, <2>2, TableWrites
  <2> QED BY <2>3, <2>4, <2>5, <2>6
<1>2. p \in Seq(Accesses) /\ Plain(p)
  BY PathFields, OneDes DEF z_max96724_stop_streaming
<1>3. \A n : n # "pipe" => Never(p, n)
  BY PathFields, OneDes DEF z_max96724_stop_streaming
<1>4. stream_set_off(k) = s \o p \/ stream_set_off(k) = p \o s
  BY DEF stream_set_off
<1> HIDE DEF s, p
<1>5. Never(p, "stream") /\ Only(p, "stream", 0)
  BY <1>3, NeverIsOnly
<1>6. ASSUME NEW code \in {s \o p, p \o s}
      PROVE  /\ code \in Seq(Accesses) /\ Plain(code) /\ Leaves(code, "stream", 0) /\ Only(code, "stream", 0)
             /\ \A n : n \notin {"stream", "pipe"} => Never(code, n)
  <2>1. CASE code = s \o p
    <3>1. code \in Seq(Accesses) /\ Plain(code)
      BY <1>1, <1>2, <2>1, PlainJoined
    <3>2. Leaves(s \o p, "stream", 0) /\ Only(s \o p, "stream", 0)
      BY <1>1, <1>2, <1>5, JoinedWrites
    <3>3. \A n : n \notin {"stream", "pipe"} => Never(s \o p, n)
      BY <1>1, <1>2, <1>3, JoinedWrites
    <3> QED BY <2>1, <3>1, <3>2, <3>3
  <2>2. CASE code = p \o s
    <3>1. code \in Seq(Accesses) /\ Plain(code)
      BY <1>1, <1>2, <2>2, PlainJoined
    <3>2. Leaves(p \o s, "stream", 0) /\ Only(p \o s, "stream", 0)
      BY <1>1, <1>2, <1>5, JoinedWrites
    <3>3. \A n : n \notin {"stream", "pipe"} => Never(p \o s, n)
      BY <1>1, <1>2, <1>3, JoinedWrites
    <3> QED BY <2>2, <3>1, <3>2, <3>3
  <2> QED BY <2>1, <2>2
<1> DEFINE code == stream_set_off(k)
<1>7. code \in {s \o p, p \o s}
  BY <1>4
<1> HIDE DEF code
<1>8. /\ code \in Seq(Accesses) /\ Plain(code) /\ Leaves(code, "stream", 0) /\ Only(code, "stream", 0)
      /\ \A n : n \notin {"stream", "pipe"} => Never(code, n)
  BY <1>6, <1>7
<1>9. /\ Sound(Call("stop", code, Set({"stream"}, 0)), k, list)
      /\ Call("stop", code, Set({"stream"}, 0)).name = "stop"
  BY <1>8, GmslStopSound
<1> QED BY <1>9 DEF code

-----------------------------------------------------------------------------
(* The SC535.                                                              *)
LEMMA ScNames ==
    /\ Zero("sc535") = Held \cup {"hold"} /\ Tracked("sc535") = Rows \cup {"stream"}
    /\ Needs("sc535") = {"fmt"} /\ Made("sc535") \subseteq {"fmt"}
    /\ Rows \in SUBSET Fields /\ {"fmt"} \in SUBSET Fields /\ {"stream", "fmt"} \in SUBSET Fields
    /\ "fmt" \notin Held \cup Rows \cup {"hold"} /\ "stream" \notin Held \cup Rows \cup {"hold"}
    /\ Rows \cap (Held \cup {"hold"}) = {}
<1>1. Zero("sc535") = Held \cup {"hold"}
  BY DEF Zero
<1>2. Tracked("sc535") = Rows \cup {"stream"}
  BY <1>1, FieldNames DEF Tracked, Rows
<1>3. Needs("sc535") = {"fmt"} /\ Made("sc535") \subseteq {"fmt"}
  BY DEF Needs, Made
<1>4. "fmt" \notin Held \cup Rows \cup {"hold"} /\ "stream" \notin Held \cup Rows \cup {"hold"}
  BY DEF Held, Window, FLIP_H, Black, Rows
<1>5. Rows \cap (Held \cup {"hold"}) = {}
  BY FieldNames DEF Rows
<1>6. Rows \in SUBSET Fields /\ {"fmt"} \in SUBSET Fields /\ {"stream", "fmt"} \in SUBSET Fields
  BY FieldNames
<1> QED BY <1>1, <1>2, <1>3, <1>4, <1>5, <1>6

LEMMA ScInitSound ==
    ASSUME NEW list
    PROVE  Sound(InitCall("sc535"), "sc535", list) /\ InitCall("sc535").name = "init"
<1> DEFINE t == sc535_12bit_4line_master_init
           code == sensor_write_table(t)
           sets == Over(Set(Rows, 0), Set({"stream", "fmt"}, 1))
           w == Call("init", code, sets)
           z == SoftReset
           s == W({"stream"}, 0)
           g == W({"stream"}, 1)
           f == W({"fmt"}, 1)
<1>1. Sensor \in SUBSET Fields /\ {"fmt"} \in SUBSET Fields /\ {"stream"} \in SUBSET Fields /\ 0 \in Nat /\ 1 \in Nat
  BY FieldNames
<1>2. /\ z \in Accesses /\ z.op = "write" /\ \A n \in Sensor : z.f[n] = 0
      /\ \A n : Writes(z, n) <=> n \in Sensor
  <2>1. W(Sensor, 0) \in Accesses /\ W(Sensor, 0).op = "write" /\ \A n \in Sensor : W(Sensor, 0).f[n] = 0
    BY <1>1, WIs
  <2>2. \A n : Writes(W(Sensor, 0), n) <=> n \in Sensor
    BY <1>1, WIs
  <2> QED BY <2>1, <2>2 DEF SoftReset
<1>3. s \in Accesses /\ s.op = "write" /\ s.f["stream"] = 0 /\ \A n : Writes(s, n) <=> n = "stream"
  BY <1>1, WIs
<1>4. g \in Accesses /\ g.op = "write" /\ g.f["stream"] = 1 /\ \A n : Writes(g, n) <=> n = "stream"
  BY <1>1, WIs
<1>5. f \in Accesses /\ f.op = "write" /\ f.f["fmt"] = 1 /\ \A n : Writes(f, n) <=> n = "fmt"
  BY <1>1, WIs
<1>6. t = <<z, s, f, g>>
  BY DEF sc535_12bit_4line_master_init
<1> HIDE DEF z, s, g, f
<1> HIDE DEF t
<1>7. t \in Seq(Accesses) /\ Len(t) = 4 /\ t[1] = z /\ t[2] = s /\ t[3] = f /\ t[4] = g
  BY <1>2, <1>3, <1>4, <1>5, <1>6
<1>8. \A i \in 1 .. 4 : i = 1 \/ i = 2 \/ i = 3 \/ i = 4
  OBVIOUS
<1>9. \A i \in 1 .. Len(t) : t[i].op # "modify"
  BY <1>2, <1>3, <1>4, <1>5, <1>7, <1>8
<1>10. ASSUME NEW n, n \notin {"fmt", "stream"}
       PROVE  Only(t, n, 0)
  BY <1>2, <1>3, <1>4, <1>5, <1>7, <1>8, <1>10 DEF Only
<1>11. Leaves(t, "stream", 1)
  <2>1. 4 \in 1 .. Len(t) /\ Writes(t[4], "stream") /\ t[4].f["stream"] = 1
        /\ \A j \in 4 + 1 .. Len(t) : ~ Writes(t[j], "stream")
    BY <1>4, <1>7
  <2> QED BY <1>7, <2>1, LeavesBy
<1>12. Leaves(t, "fmt", 1)
  <2>1. \A j \in 3 + 1 .. 4 : j = 4
    OBVIOUS
  <2>2. 3 \in 1 .. Len(t) /\ Writes(t[3], "fmt") /\ t[3].f["fmt"] = 1
        /\ \A j \in 3 + 1 .. Len(t) : ~ Writes(t[j], "fmt")
    BY <1>4, <1>5, <1>7, <2>1
  <2> QED BY <1>7, <2>2, LeavesBy
<1>13. ASSUME NEW n \in Rows
       PROVE  Leaves(t, n, 0)
  <2>1. n \in Sensor /\ n \notin {"fmt", "stream"}
    BY FieldNames, ScNames
  <2>2. 1 \in 1 .. Len(t) /\ Writes(t[1], n) /\ t[1].f[n] = 0 /\ Only(t, n, 0)
    BY <1>2, <1>7, <1>10, <2>1
  <2> QED BY <1>7, <2>2, LeavesBy
<1>14. /\ code \in Seq(Accesses) /\ Len(code) = 4
       /\ \A i \in 1 .. 4 : code[i].f = t[i].f
  BY <1>7, TableIs
<1>15. \A i \in 1 .. 4 : \A n : Writes(code[i], n) <=> Writes(t[i], n)
  BY <1>7, TableIs
<1>16. Plain(code)
  BY <1>7, <1>9, PlainTable
<1>17. \A n : n \notin {"fmt", "stream"} => Only(code, n, 0)
  BY <1>7, <1>10, TableWrites
<1>18. Leaves(code, "stream", 1) /\ Leaves(code, "fmt", 1)
  BY <1>7, <1>11, <1>12, TableWrites
<1>19. \A n \in Rows : Leaves(code, n, 0)
  BY <1>7, <1>13, TableWrites
<1>20. << >> \o code = code
  BY <1>14, ConcatEmptySeq
<1> HIDE DEF code
<1>21. /\ sets \in Functions /\ DOMAIN sets = Rows \cup {"stream", "fmt"}
       /\ \A n \in Rows : sets[n] = 0
       /\ sets["stream"] = 1 /\ sets["fmt"] = 1
  <2> DEFINE a == Set(Rows, 0)
             T == {"stream", "fmt"}
             b == Set(T, 1)
  <2>1. a \in Functions /\ DOMAIN a = Rows /\ \A n \in Rows : a[n] = 0
    BY <1>1, ScNames, SetIs
  <2>2. T \in SUBSET Fields /\ "stream" \in T /\ "fmt" \in T /\ T \cap Rows = {}
    BY ScNames
  <2> HIDE DEF T
  <2>3. b \in Functions /\ DOMAIN b = T /\ \A n \in T : b[n] = 1
    BY <1>1, <2>2, SetIs
  <2> HIDE DEF a, b
  <2>4. Over(a, b) \in Functions
    BY <2>1, <2>3, OverPart
  <2>5. DOMAIN Over(a, b) = DOMAIN a \cup DOMAIN b
    BY <2>1, <2>3, OverPart
  <2>6. \A n \in DOMAIN a \cup DOMAIN b : Over(a, b)[n] = IF n \in DOMAIN a THEN a[n] ELSE b[n]
    BY <2>1, <2>3, OverPart
  <2>7. sets = Over(a, b)
    BY DEF a, b, T
  <2> HIDE DEF sets
  <2>8. /\ DOMAIN sets = Rows \cup T /\ \A n \in Rows : sets[n] = 0
        /\ sets["stream"] = 1 /\ sets["fmt"] = 1
    BY <2>1, <2>2, <2>3, <2>5, <2>6, <2>7
  <2> QED BY <2>4, <2>7, <2>8 DEF T
<1> HIDE DEF sets
<1>22. \A n \in DOMAIN sets : Leaves(code, n, sets[n])
  BY <1>18, <1>19, <1>21
<1>23. "init" \in Exclusive \cup Settings /\ "init" \in Exclusive /\ "init" \notin Settings /\ "init" \notin {"start", "stop"}
  BY NamesAre
<1>24. Shaped(w) /\ w.name = "init" /\ w.code = code /\ w.sets = sets
  <2>1. \A i \in 1 .. Len(code) : /\ code[i].op # "modify" /\ code[i].skip <= Len(code) - i
                                  /\ code[i].skip > 0 => "init" \in Exclusive
    BY <1>16, <1>23 DEF Plain
  <2>2. \A n \in DOMAIN sets : \E i \in 1 .. Len(code) : Writes(code[i], n)
    BY <1>22 DEF Leaves, Final
  <2>3. code \in Seq(Accesses) /\ sets \in Functions /\ "init" \in Exclusive \cup Settings
    BY <1>14, <1>21, <1>23
  <2> QED BY <2>1, <2>2, <2>3, RunShaped
<1>25. InitCall("sc535") = w
  <2>1. sensor_init_param("sc535") = code
    BY DEF sensor_init_param, code, t
  <2>2. SerialiserSetup("sc535") = << >>
    BY DEF SerialiserSetup, Parallel
  <2> QED BY <1>20, <2>1, <2>2 DEF InitCall, sets
<1> HIDE DEF w
<1>26. Faithful(w, "sc535")
  <2>1. \A n \in Zero("sc535") : Only(code, n, 0) /\ n \notin DOMAIN sets
    BY <1>17, <1>21, ScNames
  <2>2. \A n \in Tracked("sc535") : n \in DOMAIN sets
    BY <1>21, ScNames
  <2>3. \A i \in 1 .. Len(code) : code[i].op # "modify"
    BY <1>16 DEF Plain
  <2> QED BY <1>22, <1>24, <2>1, <2>2, <2>3 DEF Faithful
<1>27. Piped(w, "sc535", list)
  <2>1. ASSUME NEW i \in 1 .. Len(code), Writes(code[i], "stream"), code[i].f["stream"] = 1
        PROVE  \A j \in i + 1 .. Len(code), n \in Needs("sc535") : ~ Writes(code[j], n)
    <3>1. "stream" \in Sensor
      BY FieldNames
    <3>2. i # 1 /\ i # 2 /\ i # 3
      BY <1>2, <1>3, <1>5, <1>7, <1>14, <1>15, <2>1, <3>1
    <3>3. i = 4
      BY <1>8, <1>14, <3>2
    <3> QED BY <1>14, <3>3
  <2>2. Len(code) > 0 /\ Writes(code[1], "stream")
    <3>1. "stream" \in Sensor
      BY FieldNames
    <3> QED BY <1>2, <1>7, <1>14, <1>15, <3>1
  <2>3. "sc535" \notin Gmsl /\ \A n \in Made("sc535") : Leaves(code, n, 1)
    BY <1>18, NamesAre, ScNames
  <2>4. "stream" \in DOMAIN sets
    BY <1>21
  <2> QED BY <1>23, <1>24, <2>1, <2>2, <2>3, <2>4 DEF Piped
<1> QED BY <1>24, <1>25, <1>26, <1>27 DEF Sound

LEMMA RowsSound ==
    ASSUME NEW list, NEW code \in Seq(Accesses), NEW sets \in Functions, DOMAIN sets \subseteq Rows,
           \A i \in 1 .. Len(code) : code[i].op # "modify" /\ code[i].skip = 0 /\ Touched(code[i]) \subseteq Rows,
           \A n \in DOMAIN sets : Leaves(code, n, sets[n]),
           \A n : n \notin DOMAIN sets => Never(code, n)
    PROVE  /\ Sound(Call("expo", code, sets), "sc535", list)
           /\ Call("expo", code, sets).name = "expo"
<1> DEFINE w == Call("expo", code, sets)
<1>1. "expo" \in Exclusive \cup Settings /\ "expo" \notin Exclusive /\ "expo" \in Settings
      /\ "expo" \notin {"init", "start", "stop"}
  BY NamesAre
<1>2. /\ Shaped(w) /\ w.name = "expo" /\ w.code = code /\ w.sets = sets
      /\ \A n : n \in w.writes <=> \E i \in 1 .. Len(code) : n \in Touched(code[i])
  <2>1. \A i \in 1 .. Len(code) : /\ code[i].op # "modify" /\ code[i].skip <= Len(code) - i
                                  /\ code[i].skip > 0 => "expo" \in Exclusive
    <3>1. \A i \in 1 .. Len(code) : 0 <= Len(code) - i
      OBVIOUS
    <3> QED BY <3>1
  <2>2. \A n \in DOMAIN sets : \E i \in 1 .. Len(code) : Writes(code[i], n)
    BY DEF Leaves, Final
  <2> QED BY <1>1, <2>1, <2>2, RunShaped
<1> HIDE DEF w
<1>3. w.writes \subseteq Rows
  BY <1>2
<1>4. Faithful(w, "sc535")
  <2>1. \A n \in Zero("sc535") : n \notin DOMAIN sets /\ Only(code, n, 0)
    BY ScNames, NeverIsOnly
  <2> QED BY <1>1, <1>2, <2>1 DEF Faithful
<1>5. Piped(w, "sc535", list)
  <2>1. \A i \in 1 .. Len(code) : ~ Writes(code[i], "stream")
    BY ScNames DEF Never
  <2>2. "sc535" \notin Gmsl /\ w.writes \cap (Needs("sc535") \cup {"stream"}) = {}
    BY <1>3, NamesAre, ScNames
  <2> QED BY <1>1, <1>2, <2>1, <2>2 DEF Piped
<1> QED BY <1>2, <1>4, <1>5 DEF Sound, w

LEMMA RowsRead ==
    /\ << ReadReg({"rb_0"}), ReadReg({"rb_1"}), ReadReg({"blank_0"}), ReadReg({"blank_0"}) >> \in Seq(Accesses)
    /\ \A i \in 1 .. 4 :
           LET a == << ReadReg({"rb_0"}), ReadReg({"rb_1"}), ReadReg({"blank_0"}), ReadReg({"blank_0"}) >>[i]
           IN  a.op # "modify" /\ a.skip = 0 /\ Touched(a) \subseteq Rows
    /\ Len(<< ReadReg({"rb_0"}), ReadReg({"rb_1"}), ReadReg({"blank_0"}), ReadReg({"blank_0"}) >>) = 4
    /\ \A n : Never(<< ReadReg({"rb_0"}), ReadReg({"rb_1"}), ReadReg({"blank_0"}), ReadReg({"blank_0"}) >>, n)
<1> DEFINE p == ReadReg({"rb_0"})
           q == ReadReg({"rb_1"})
           x == ReadReg({"blank_0"})
           r == <<p, q, x, x>>
<1>1. {"rb_0"} \in SUBSET Fields /\ {"rb_1"} \in SUBSET Fields /\ {"blank_0"} \in SUBSET Fields
      /\ {"rb_0"} \subseteq Rows /\ {"rb_1"} \subseteq Rows /\ {"blank_0"} \subseteq Rows
  BY FieldNames DEF Rows
<1>2. p \in Accesses /\ p.op = "read" /\ p.skip = 0 /\ Touched(p) \subseteq Rows /\ \A n : ~ Writes(p, n)
  BY <1>1, ReadIs
<1>3. q \in Accesses /\ q.op = "read" /\ q.skip = 0 /\ Touched(q) \subseteq Rows /\ \A n : ~ Writes(q, n)
  BY <1>1, ReadIs
<1>4. x \in Accesses /\ x.op = "read" /\ x.skip = 0 /\ Touched(x) \subseteq Rows /\ \A n : ~ Writes(x, n)
  BY <1>1, ReadIs
<1> HIDE DEF p, q, x
<1>5. r \in Seq(Accesses) /\ Len(r) = 4 /\ r[1] = p /\ r[2] = q /\ r[3] = x /\ r[4] = x
  BY <1>2, <1>3, <1>4
<1> HIDE DEF r
<1>6. \A i \in 1 .. 4 : i = 1 \/ i = 2 \/ i = 3 \/ i = 4
  OBVIOUS
<1>7. \A i \in 1 .. 4 : r[i].op # "modify" /\ r[i].skip = 0 /\ Touched(r[i]) \subseteq Rows /\ \A n : ~ Writes(r[i], n)
  BY <1>2, <1>3, <1>4, <1>5, <1>6
<1>8. \A n : Never(r, n)
  BY <1>5, <1>7 DEF Never
<1> QED BY <1>5, <1>7, <1>8 DEF r, p, q, x

LEMMA RowsWritten ==
    ASSUME NEW period \in Nat, NEW expo \in Nat, NEW t,
           t = << W({"blank_0"}, period), W({"blank_1"}, period), W({"rb_0"}, expo), W({"rb_1"}, expo) >>
    PROVE  /\ t \in Seq(Accesses) /\ Len(t) = 4
           /\ \A i \in 1 .. 4 : t[i].op # "modify" /\ t[i].skip = 0 /\ Touched(t[i]) \subseteq Rows
           /\ \A n : n \notin Rows => Never(t, n)
           /\ \A n \in {"blank_0", "blank_1"} : Leaves(t, n, period)
           /\ \A n \in {"rb_0", "rb_1"} : Leaves(t, n, expo)
<1> DEFINE p == W({"blank_0"}, period)
           q == W({"blank_1"}, period)
           x == W({"rb_0"}, expo)
           y == W({"rb_1"}, expo)
<1>1. /\ {"rb_0"} \in SUBSET Fields /\ {"rb_1"} \in SUBSET Fields /\ {"blank_0"} \in SUBSET Fields
      /\ {"blank_1"} \in SUBSET Fields
      /\ {"rb_0"} \subseteq Rows /\ {"rb_1"} \subseteq Rows /\ {"blank_0"} \subseteq Rows /\ {"blank_1"} \subseteq Rows
  BY FieldNames DEF Rows
<1>2. p \in Accesses /\ p.op = "write" /\ p.skip = 0 /\ Touched(p) \subseteq Rows /\ p.f["blank_0"] = period
      /\ \A n : Writes(p, n) <=> n = "blank_0"
  BY <1>1, WIs
<1>3. q \in Accesses /\ q.op = "write" /\ q.skip = 0 /\ Touched(q) \subseteq Rows /\ q.f["blank_1"] = period
      /\ \A n : Writes(q, n) <=> n = "blank_1"
  BY <1>1, WIs
<1>4. x \in Accesses /\ x.op = "write" /\ x.skip = 0 /\ Touched(x) \subseteq Rows /\ x.f["rb_0"] = expo
      /\ \A n : Writes(x, n) <=> n = "rb_0"
  BY <1>1, WIs
<1>5. y \in Accesses /\ y.op = "write" /\ y.skip = 0 /\ Touched(y) \subseteq Rows /\ y.f["rb_1"] = expo
      /\ \A n : Writes(y, n) <=> n = "rb_1"
  BY <1>1, WIs
<1>6. t = <<p, q, x, y>>
  OBVIOUS
<1> HIDE DEF p, q, x, y
<1>7. t \in Seq(Accesses) /\ Len(t) = 4 /\ t[1] = p /\ t[2] = q /\ t[3] = x /\ t[4] = y
  BY <1>2, <1>3, <1>4, <1>5, <1>6
<1>8. \A i \in 1 .. 4 : i = 1 \/ i = 2 \/ i = 3 \/ i = 4
  OBVIOUS
<1>9. \A i \in 1 .. 4 : t[i].op # "modify" /\ t[i].skip = 0 /\ Touched(t[i]) \subseteq Rows
  BY <1>2, <1>3, <1>4, <1>5, <1>7, <1>8
<1>10. \A n : n \notin Rows => Never(t, n)
  BY <1>2, <1>3, <1>4, <1>5, <1>7, <1>8 DEF Never, Rows
<1>11. \A n \in {"blank_0", "blank_1"} : Only(t, n, period)
  BY <1>2, <1>3, <1>4, <1>5, <1>7, <1>8 DEF Only
<1>12. \A n \in {"rb_0", "rb_1"} : Only(t, n, expo)
  BY <1>2, <1>3, <1>4, <1>5, <1>7, <1>8 DEF Only
<1>13. 1 \in 1 .. Len(t) /\ 2 \in 1 .. Len(t) /\ 3 \in 1 .. Len(t) /\ 4 \in 1 .. Len(t)
  BY <1>7
<1>14. Leaves(t, "blank_0", period)
  <2>1. Writes(t[1], "blank_0") /\ t[1].f["blank_0"] = period /\ Only(t, "blank_0", period)
    BY <1>2, <1>7, <1>11
  <2> QED BY <1>7, <1>13, <2>1, LeavesBy
<1>15. Leaves(t, "blank_1", period)
  <2>1. Writes(t[2], "blank_1") /\ t[2].f["blank_1"] = period /\ Only(t, "blank_1", period)
    BY <1>3, <1>7, <1>11
  <2> QED BY <1>7, <1>13, <2>1, LeavesBy
<1>16. Leaves(t, "rb_0", expo)
  <2>1. Writes(t[3], "rb_0") /\ t[3].f["rb_0"] = expo /\ Only(t, "rb_0", expo)
    BY <1>4, <1>7, <1>12
  <2> QED BY <1>7, <1>13, <2>1, LeavesBy
<1>17. Leaves(t, "rb_1", expo)
  <2>1. Writes(t[4], "rb_1") /\ t[4].f["rb_1"] = expo /\ Only(t, "rb_1", expo)
    BY <1>5, <1>7, <1>12
  <2> QED BY <1>7, <1>13, <2>1, LeavesBy
<1> QED BY <1>7, <1>9, <1>10, <1>14, <1>15, <1>16, <1>17

LEMMA ExpoSound ==
    ASSUME NEW list, NEW w \in sc535_ioctl_set
    PROVE  Sound(w, "sc535", list) /\ w.name = "expo"
<1> DEFINE r == << ReadReg({"rb_0"}), ReadReg({"rb_1"}), ReadReg({"blank_0"}), ReadReg({"blank_0"}) >>
<1>1. /\ r \in Seq(Accesses) /\ Len(r) = 4 /\ \A n : Never(r, n)
      /\ \A i \in 1 .. 4 : r[i].op # "modify" /\ r[i].skip = 0 /\ Touched(r[i]) \subseteq Rows
  BY RowsRead
<1>2. CASE w = Call("expo", sc535hgs_set_expo_period(0, 1, 1), Set({}, 0))
  <2>1. sc535hgs_set_expo_period(0, 1, 1) = << >> \o r
    BY DEF sc535hgs_set_expo_period
  <2> HIDE DEF r
  <2>2. << >> \o r = r
    BY <1>1, ConcatEmptySeq
  <2> DEFINE sets == Set({}, 0)
  <2>3. sets \in Functions /\ DOMAIN sets = {}
    <3>1. {} \in SUBSET Fields /\ 0 \in Nat
      OBVIOUS
    <3> QED BY <3>1, SetIs
  <2> HIDE DEF sets
  <2>4. /\ Sound(Call("expo", r, sets), "sc535", list) /\ Call("expo", r, sets).name = "expo"
    BY <1>1, <2>3, RowsSound
  <2> QED BY <1>2, <2>1, <2>2, <2>4 DEF sets
<1>3. ASSUME NEW x \in {1, 2},
             w = Call("expo", sc535hgs_set_expo_period(1, x, 3 - x),
                      Over(Set({"blank_0", "blank_1"}, x), Set({"rb_0", "rb_1"}, 3 - x)))
      PROVE  Sound(w, "sc535", list) /\ w.name = "expo"
  <2>1. PICK expo \in Nat : expo = 3 - x
    OBVIOUS
  <2>2. x \in Nat
    OBVIOUS
  <2> DEFINE t == << W({"blank_0"}, x), W({"blank_1"}, x), W({"rb_0"}, expo), W({"rb_1"}, expo) >>
             code == t \o r
             A == {"blank_0", "blank_1"}
             B == {"rb_0", "rb_1"}
             a == Set(A, x)
             b == Set(B, expo)
             sets == Over(a, b)
  <2>3. sc535hgs_set_expo_period(1, x, expo) = code
    BY DEF sc535hgs_set_expo_period
  <2>4. /\ t \in Seq(Accesses) /\ Len(t) = 4
        /\ \A i \in 1 .. 4 : t[i].op # "modify" /\ t[i].skip = 0 /\ Touched(t[i]) \subseteq Rows
        /\ \A n : n \notin Rows => Never(t, n)
        /\ \A n \in A : Leaves(t, n, x)
        /\ \A n \in B : Leaves(t, n, expo)
    BY <2>1, <2>2, RowsWritten
  <2>5. w = Call("expo", code, sets)
    BY <1>3, <2>1, <2>3
  <2>6. A \in SUBSET Fields /\ B \in SUBSET Fields /\ A \cap B = {} /\ A \cup B = Rows
    BY FieldNames DEF Rows
  <2> HIDE DEF r, t, A, B
  <2>7. a \in Functions /\ DOMAIN a = A /\ \A n \in A : a[n] = x
    BY <2>2, <2>6, SetIs
  <2>8. b \in Functions /\ DOMAIN b = B /\ \A n \in B : b[n] = expo
    BY <2>1, <2>6, SetIs
  <2> HIDE DEF a, b
  <2>9. Over(a, b) \in Functions
    BY <2>7, <2>8, OverPart
  <2>10. DOMAIN Over(a, b) = DOMAIN a \cup DOMAIN b
    BY <2>7, <2>8, OverPart
  <2>11. \A n \in DOMAIN a \cup DOMAIN b : Over(a, b)[n] = IF n \in DOMAIN a THEN a[n] ELSE b[n]
    BY <2>7, <2>8, OverPart
  <2> HIDE DEF sets
  <2>12. sets \in Functions /\ DOMAIN sets = Rows /\ (\A n \in A : sets[n] = x) /\ (\A n \in B : sets[n] = expo)
    BY <2>6, <2>7, <2>8, <2>9, <2>10, <2>11 DEF sets
  <2>13. \A n : Leaves(t, n, x) => Leaves(code, n, x)
    BY <1>1, <2>4, JoinedWrites
  <2>14. \A n : Leaves(t, n, expo) => Leaves(code, n, expo)
    BY <1>1, <2>4, JoinedWrites
  <2>15. \A n : n \notin Rows => Never(code, n)
    BY <1>1, <2>4, JoinedWrites
  <2>16. code \in Seq(Accesses) /\ Len(code) = 8
    <3>1. code \in Seq(Accesses) /\ Len(code) = Len(t) + Len(r)
      BY <1>1, <2>4, Joined
    <3> HIDE DEF code
    <3> QED BY <1>1, <2>4, <3>1
  <2>17. \A i \in 1 .. Len(code) : code[i].op # "modify" /\ code[i].skip = 0 /\ Touched(code[i]) \subseteq Rows
    <3>1. /\ \A i \in 1 .. Len(t) : code[i] = t[i]
          /\ \A i \in Len(t) + 1 .. Len(t) + Len(r) : code[i] = r[i - Len(t)]
      BY <1>1, <2>4, Joined
    <3> HIDE DEF code
    <3>2. \A i \in 1 .. 8 : i \in 1 .. 4 \/ (i \in 4 + 1 .. 4 + 4 /\ i - 4 \in 1 .. 4)
      OBVIOUS
    <3>3. ASSUME NEW i \in 1 .. 8
          PROVE  code[i].op # "modify" /\ code[i].skip = 0 /\ Touched(code[i]) \subseteq Rows
      <4>1. CASE i \in 1 .. 4
        BY <2>4, <3>1, <4>1
      <4>2. CASE i \in 4 + 1 .. 4 + 4 /\ i - 4 \in 1 .. 4
        <5>1. code[i] = r[i - 4]
          BY <1>1, <2>4, <3>1, <4>2
        <5> QED BY <1>1, <4>2, <5>1
      <4> QED BY <3>2, <4>1, <4>2
    <3> QED BY <2>16, <3>3
  <2>18. \A n \in DOMAIN sets : Leaves(code, n, sets[n])
    <3> HIDE DEF code
    <3> QED BY <2>4, <2>6, <2>12, <2>13, <2>14
  <2> HIDE DEF code
  <2>19. Sound(Call("expo", code, sets), "sc535", list) /\ Call("expo", code, sets).name = "expo"
    BY <2>12, <2>15, <2>16, <2>17, <2>18, RowsSound
  <2> QED BY <2>5, <2>19
<1>4. \/ w = Call("expo", sc535hgs_set_expo_period(0, 1, 1), Set({}, 0))
      \/ \E x \in {1, 2} : w = Call("expo", sc535hgs_set_expo_period(1, x, 3 - x),
                                    Over(Set({"blank_0", "blank_1"}, x), Set({"rb_0", "rb_1"}, 3 - x)))
  BY DEF sc535_ioctl_set
<1> QED BY <1>2, <1>3, <1>4

-----------------------------------------------------------------------------
(* All calls of all drivers.                                               *)
LEMMA GmaxCallSound ==
    ASSUME NEW list, NEW w \in gmax3405_ioctl_set
    PROVE  Sound(w, "gmax3405", list) /\ w.name # "init"
<1>1. PICK v \in {0, 1} :
          w \in { Call("gain", gmx3405_sensor_set_gain(v), Set({"gain"}, v)),
                  Call("black", gmax3405_sensor_set_black_level(v), Set(Black, v)),
                  Call("filp", gmax3405_sensor_set_filp("flip_h", v), Set({"flip_h"}, v)),
                  Call("filp", gmax3405_sensor_set_filp("flip_v", v), Set({"flip_v"}, v)),
                  Call("test", gmax3405_sensor_set_test_img(v), Set({"test"}, v)),
                  Call("roi", gmax3405_set_roi_format(v), Over(Set(Window, v), Set({"win_x_num"}, 1))) }
  BY DEF gmax3405_ioctl_set
<1>2. w.name # "init"
  BY <1>1 DEF Call
<1>3. CASE w = Call("gain", gmx3405_sensor_set_gain(v), Set({"gain"}, v))
  BY <1>1, <1>2, <1>3, GainSound
<1>4. CASE w = Call("black", gmax3405_sensor_set_black_level(v), Set(Black, v))
  BY <1>1, <1>2, <1>4, BlackSound
<1>5. CASE w = Call("filp", gmax3405_sensor_set_filp("flip_h", v), Set({"flip_h"}, v))
  BY <1>1, <1>2, <1>5, FilpSound
<1>6. CASE w = Call("filp", gmax3405_sensor_set_filp("flip_v", v), Set({"flip_v"}, v))
  BY <1>1, <1>2, <1>6, FilpSound
<1>7. CASE w = Call("test", gmax3405_sensor_set_test_img(v), Set({"test"}, v))
  BY <1>1, <1>2, <1>7, TestSound
<1>8. CASE w = Call("roi", gmax3405_set_roi_format(v), Over(Set(Window, v), Set({"win_x_num"}, 1)))
  BY <1>1, <1>2, <1>8, RoiSound
<1> QED BY <1>1, <1>2, <1>3, <1>4, <1>5, <1>6, <1>7, <1>8

LEMMA CallsOfDriver ==
    ASSUME NEW k \in Kinds, NEW list \in Lists(k), NEW w \in Calls(k, list)
    PROVE  Sound(w, k, list) /\ w.name # "init"
<1>1. CASE k = "gmax3405"
  <2>1. w \in gmax3405_ioctl_set
    BY <1>1, NamesAre DEF Calls
  <2>2. Sound(w, "gmax3405", list) /\ w.name # "init"
    BY <2>1, GmaxCallSound
  <2> QED BY <1>1, <2>2
<1>2. CASE k = "sc535"
  <2>1. w \in sc535_ioctl_set
    BY <1>2, NamesAre DEF Calls
  <2>2. Sound(w, "sc535", list) /\ w.name = "expo"
    BY <2>1, ExpoSound
  <2> QED BY <1>2, <2>2
<1>3. CASE k \in Gmsl
  <2>1. k # "gmax3405" /\ k # "sc535"
    BY <1>3, GmslNames
  <2>2. w \in { Call("start", stream_set_on(k, list), Set({"stream"}, 1)),
                Call("stop", stream_set_off(k), Set({"stream"}, 0)) }
    BY <1>3, <2>1 DEF Calls, nv_sensor_set_stream
  <2>3. CASE w = Call("start", stream_set_on(k, list), Set({"stream"}, 1))
    <3>1. Sound(w, k, list) /\ w.name = "start"
      BY <1>3, <2>3, StartSound
    <3> QED BY <3>1
  <2>4. CASE w = Call("stop", stream_set_off(k), Set({"stream"}, 0))
    <3>1. Sound(w, k, list) /\ w.name = "stop"
      BY <1>3, <2>4, StopSound
    <3> QED BY <3>1
  <2> QED BY <2>2, <2>3, <2>4
<1> QED BY <1>1, <1>2, <1>3, NamesAre

LEMMA ProbeOfDriver ==
    ASSUME NEW k \in Kinds, NEW list
    PROVE  Sound(InitCall(k), k, list) /\ InitCall(k).name = "init"
<1>1. CASE k = "gmax3405"
  BY <1>1, GmaxInitSound
<1>2. CASE k = "sc535"
  BY <1>2, ScInitSound
<1>3. CASE k \in Gmsl
  BY <1>3, GmslProbeSound
<1> QED BY <1>1, <1>2, <1>3, NamesAre

(* The code of every probe, ioctl and stream_set of the six drivers leaves *)
(* behind what it says it sets, writes no other field that is compared,    *)
(* releases the hold it takes, changes the window only under it, and opens *)
(* the path before it lets the sensor send.                                *)
THEOREM CallsAreSound ==
    ASSUME NEW k \in Kinds, NEW list \in Lists(k), NEW w \in Calls(k, list) \cup {InitCall(k)}
    PROVE  Sound(w, k, list)
BY CallsOfDriver, ProbeOfDriver

LEMMA ProbesAreInit ==
    ASSUME NEW k \in Kinds
    PROVE  InitCall(k).name = "init"
BY ProbeOfDriver

LEMMA CallsAreNotInit ==
    ASSUME NEW k \in Kinds, NEW list \in Lists(k), NEW w \in Calls(k, list)
    PROVE  w.name # "init"
BY CallsOfDriver

-----------------------------------------------------------------------------
(* A caller between two accesses, and what its next one does.              *)
LEMMA TypesAre ==
    ASSUME RegsTypes
    PROVE  /\ driver \in Kinds /\ streams \in Lists(driver)
           /\ reg \in [Fields -> Nat] /\ live \in [Held -> Nat] /\ asked \in [Fields -> Nat]
           /\ call \in [Callers -> CallsOf] /\ at \in [Callers -> Nat] /\ got \in [Callers -> Functions]
           /\ spoilt \in [Callers -> SUBSET Fields] /\ doubtful \subseteq Fields /\ unheld \in BOOLEAN
           /\ lost \in Nat /\ inits \in Nat
BY DEF RegsTypes

LEMMA CallIs ==
    ASSUME RegsTypes, NEW c \in Callers
    PROVE  /\ Idle(c) <=> call[c] = NoCall
           /\ ~ Idle(c) => Sound(call[c], driver, streams)
           /\ call[c] \in CallsOf
           /\ Idle(c) => call[c].writes = {} /\ call[c].name = "none"
           /\ Busy(c) <=> at[c] \in 1 .. Len(call[c].code)
           /\ Len(call[c].code) \in Nat /\ at[c] \in Nat /\ at[c] <= Len(call[c].code) + 1 /\ at[c] >= 1
<1>1. call[c] = NoCall \/ Sound(call[c], driver, streams)
  BY DEF RegsTypes
<1>2. Sound(call[c], driver, streams) => call[c].name # "none"
  BY DEF Sound, Shaped, Exclusive, Settings
<1>3. call[c] \in CallsOf /\ at[c] \in Nat /\ at[c] \in 1 .. Len(call[c].code) + 1
  BY DEF RegsTypes
<1>4. Len(call[c].code) \in Nat
  BY <1>3 DEF CallsOf
<1> QED BY <1>1, <1>2, <1>3, <1>4, NoCallIs DEF Idle, Busy

LEMMA AccessIs ==
    ASSUME RegsTypes, NEW c \in Callers, NEW i \in 1 .. Len(call[c].code)
    PROVE  /\ call[c].code[i] \in Accesses /\ call[c].code[i].f \in Functions
           /\ call[c].code[i].op \in {"read", "write", "modify", "deser"} /\ call[c].code[i].skip \in Nat
           /\ DOMAIN call[c].code[i].f \subseteq Fields
           /\ \A n \in DOMAIN call[c].code[i].f : call[c].code[i].f[n] \in Nat
           /\ ~ Idle(c) /\ Sound(call[c], driver, streams)
           /\ DOMAIN call[c].code[i].f \subseteq call[c].writes
<1>1. call[c].code \in Seq(Accesses) /\ call[c] \in CallsOf
  BY CallIs DEF CallsOf
<1>2. call[c].code[i] \in Accesses
  BY <1>1
<1>3. ~ Idle(c)
  BY CallIs, NoCallIs
<1>4. Sound(call[c], driver, streams)
  BY <1>3, CallIs
<1>5. call[c].code[i].f \in Functions
  BY <1>2 DEF Accesses
<1> QED BY <1>2, <1>3, <1>4, <1>5, FunctionIs DEF Accesses, Sound, Shaped

LEMMA WriteStep ==
    ASSUME RegsTypes, GotInv, NEW c \in Callers, imx_write_reg(c)
    PROVE  /\ at[c] \in 1 .. Len(call[c].code)
           /\ at' \in [Callers -> Nat] /\ at'[c] = at[c] + 1 /\ \A o \in Callers \ {c} : at'[o] = at[o]
           /\ UNCHANGED <<driver, streams, call, got, spoilt, asked, doubtful, lost, inits>>
           /\ unheld' = (IF "hold" \in DOMAIN Access1(c).f THEN FALSE ELSE unheld)
           /\ reg' \in [Fields -> Nat] /\ live' \in [Held -> Nat]
           /\ live' = IF reg'["hold"] = 0 THEN [n \in Held |-> reg'[n]] ELSE live
           /\ Access1(c).op # "read"
           /\ \A n \in Fields :
                  /\ Writes(Access1(c), n) => reg'[n] = Access1(c).f[n]
                  /\ n \notin call[c].writes => reg'[n] = reg[n]
                  /\ ~ Writes(Access1(c), n) /\ n \notin spoilt[c] => reg'[n] = reg[n]
                  /\ ~ Writes(Access1(c), n) /\ n \notin FLIP_H \cup {"flip_v"} => reg'[n] = reg[n]
                  /\ ~ Writes(Access1(c), n) /\ Access1(c).op # "modify" => reg'[n] = reg[n]
<1> DEFINE a == Access1(c)
           f == IF a.op = "modify" THEN Over(a.f, got[c]) ELSE a.f
<1>1. Busy(c) /\ at[c] \in 1 .. Len(call[c].code)
  BY CallIs DEF imx_write_reg
<1>2. /\ a \in Accesses /\ a.f \in Functions /\ DOMAIN a.f \subseteq Fields
      /\ DOMAIN a.f \subseteq call[c].writes /\ Sound(call[c], driver, streams)
  BY <1>1, AccessIs DEF Access1
<1>3. got[c] \in Functions
  BY DEF RegsTypes
<1>4. ASSUME a.op = "modify"
      PROVE  /\ DOMAIN got[c] \subseteq call[c].writes /\ DOMAIN got[c] \subseteq FLIP_H \cup {"flip_v"}
             /\ \A n \in DOMAIN got[c] : n \notin spoilt[c] => got[c][n] = reg[n]
  <2>1. /\ at[c] > 1 /\ DOMAIN call[c].code[at[c] - 1].f \subseteq FLIP_H \cup {"flip_v"}
    BY <1>1, <1>2, <1>4 DEF Sound, Shaped, Access1
  <2>2. DOMAIN call[c].code[at[c] - 1].f \subseteq call[c].writes
    BY <2>1, <1>1, AccessIs
  <2>3. /\ DOMAIN got[c] = DOMAIN call[c].code[at[c] - 1].f
        /\ \A n \in DOMAIN got[c] : n \notin spoilt[c] => got[c][n] = reg[n]
    BY <1>1, <1>4 DEF GotInv
  <2> QED BY <2>1, <2>2, <2>3
<1>5. f \in Functions /\ DOMAIN a.f \subseteq DOMAIN f /\ (\A n \in DOMAIN a.f : f[n] = a.f[n])
      /\ (a.op # "modify" => f = a.f)
      /\ (a.op = "modify" => \A n \in DOMAIN f : n \notin DOMAIN a.f => n \in DOMAIN got[c] /\ f[n] = got[c][n])
  <2>1. CASE a.op = "modify"
    <3>1. f = Over(a.f, got[c])
      BY <2>1
    <3>2. /\ Over(a.f, got[c]) \in Functions /\ DOMAIN Over(a.f, got[c]) = DOMAIN a.f \cup DOMAIN got[c]
          /\ \A n \in DOMAIN a.f \cup DOMAIN got[c] :
                 Over(a.f, got[c])[n] = IF n \in DOMAIN a.f THEN a.f[n] ELSE got[c][n]
      BY <1>2, <1>3, OverPart
    <3> HIDE DEF f
    <3> QED BY <2>1, <3>1, <3>2
  <2>2. CASE a.op # "modify"
    BY <2>2, <1>2
  <2> QED BY <2>1, <2>2
<1>6. a.op # "read" /\ reg' = Over(f, reg) /\ live' = (IF reg'["hold"] = 0 THEN [n \in Held |-> reg'[n]] ELSE live)
  BY DEF imx_write_reg, Land
<1>7. reg \in [Fields -> Nat] /\ live \in [Held -> Nat]
  BY DEF RegsTypes
<1>8. reg' \in [Fields -> Nat] /\ \A n \in Fields : reg'[n] = IF n \in DOMAIN f THEN f[n] ELSE reg[n]
  BY <1>5, <1>6, <1>7, OverFull
<1>9. live' \in [Held -> Nat]
  BY <1>6, <1>7, <1>8, FieldNames
<1>10. at' \in [Callers -> Nat] /\ at'[c] = at[c] + 1 /\ \A o \in Callers \ {c} : at'[o] = at[o]
  <2>1. at' = [at EXCEPT ![c] = at[c] + 1 + 0]
    BY DEF imx_write_reg, Advance
  <2>2. at[c] + 1 + 0 = at[c] + 1
    BY CallIs
  <2>3. at \in [Callers -> Nat] /\ at[c] + 1 \in Nat
    BY TypesAre
  <2> QED BY <2>1, <2>2, <2>3
<1>11. /\ UNCHANGED <<driver, streams, call, got, spoilt, asked, doubtful, lost, inits>>
       /\ unheld' = (IF "hold" \in DOMAIN a.f THEN FALSE ELSE unheld)
  BY DEF imx_write_reg, Advance, camera
<1>12. ASSUME NEW n \in Fields
       PROVE  /\ Writes(a, n) => reg'[n] = a.f[n]
              /\ n \notin call[c].writes => reg'[n] = reg[n]
              /\ ~ Writes(a, n) /\ n \notin spoilt[c] => reg'[n] = reg[n]
              /\ ~ Writes(a, n) /\ n \notin FLIP_H \cup {"flip_v"} => reg'[n] = reg[n]
              /\ ~ Writes(a, n) /\ a.op # "modify" => reg'[n] = reg[n]
  <2>1. Writes(a, n) <=> n \in DOMAIN a.f
    BY <1>6 DEF Writes
  <2>2. CASE a.op = "modify"
    BY <2>1, <2>2, <1>2, <1>4, <1>5, <1>8
  <2>3. CASE a.op # "modify"
    BY <2>1, <2>3, <1>2, <1>5, <1>8
  <2> QED BY <2>2, <2>3
<1> HIDE DEF f
<1> QED BY <1>1, <1>6, <1>8, <1>9, <1>10, <1>11, <1>12

LEMMA ReadStep ==
    ASSUME RegsTypes, NEW c \in Callers, imx_read_reg(c)
    PROVE  /\ at[c] \in 1 .. Len(call[c].code)
           /\ at' \in [Callers -> Nat] /\ at'[c] = at[c] + 1 /\ \A o \in Callers \ {c} : at'[o] = at[o]
           /\ UNCHANGED <<driver, streams, reg, live, call, spoilt, asked, doubtful, unheld, lost, inits>>
           /\ got'[c] = [n \in DOMAIN Access1(c).f |-> reg[n]] /\ \A o \in Callers \ {c} : got'[o] = got[o]
           /\ got' \in [Callers -> Functions] /\ Access1(c).op = "read"
<1>1. Busy(c) /\ at[c] \in 1 .. Len(call[c].code) /\ Access1(c).op = "read"
  BY CallIs DEF imx_read_reg
<1>2. DOMAIN Access1(c).f \subseteq Fields
  BY <1>1, AccessIs DEF Access1
<1>3. [n \in DOMAIN Access1(c).f |-> reg[n]] \in [DOMAIN Access1(c).f -> Nat]
  BY <1>2 DEF RegsTypes
<1>4. [n \in DOMAIN Access1(c).f |-> reg[n]] \in Functions
  BY <1>2, <1>3, FunctionMade
<1>5. got' = [got EXCEPT ![c] = [n \in DOMAIN Access1(c).f |-> reg[n]]]
  BY DEF imx_read_reg
<1>6. got \in [Callers -> Functions]
  BY DEF RegsTypes
<1>7. at' = [at EXCEPT ![c] = at[c] + 1 + 0]
  BY DEF imx_read_reg, Advance
<1>8. at[c] + 1 + 0 = at[c] + 1
  BY CallIs
<1>9. UNCHANGED <<driver, streams, reg, live, call, spoilt, asked, doubtful, unheld, lost, inits>>
  BY DEF imx_read_reg, Advance, camera
<1>10. at' \in [Callers -> Nat] /\ at'[c] = at[c] + 1 /\ \A o \in Callers \ {c} : at'[o] = at[o]
  <2>1. at \in [Callers -> Nat] /\ at[c] + 1 \in Nat
    BY TypesAre
  <2> QED BY <2>1, <1>7, <1>8
<1> QED BY <1>1, <1>4, <1>5, <1>6, <1>9, <1>10

LEMMA LoseStep ==
    ASSUME RegsTypes, NEW c \in Callers, Lose(c)
    PROVE  /\ at[c] \in 1 .. Len(call[c].code) /\ Access1(c).skip \in Nat
           /\ at[c] + 1 + Access1(c).skip \in 1 .. Len(call[c].code) + 1
           /\ at' \in [Callers -> Nat] /\ at'[c] = at[c] + 1 + Access1(c).skip
           /\ UNCHANGED <<driver, streams, reg, live, call, asked, doubtful, inits>>
           /\ got'[c] = IF Access1(c).op = "read" THEN Access1(c).f ELSE got[c]
           /\ got' \in [Callers -> Functions]
           /\ spoilt'[c] = spoilt[c] \cup call[c].writes /\ spoilt' \in [Callers -> SUBSET Fields]
           /\ \A o \in Callers \ {c} : at'[o] = at[o] /\ got'[o] = got[o] /\ spoilt'[o] = spoilt[o]
           /\ lost' = lost + 1 /\ unheld' = IF "hold" \in DOMAIN Access1(c).f THEN TRUE ELSE unheld
<1>1. Busy(c) /\ at[c] \in 1 .. Len(call[c].code)
  BY CallIs DEF Lose
<1>2. Access1(c).f \in Functions /\ Access1(c).skip \in Nat /\ Sound(call[c], driver, streams)
  BY <1>1, AccessIs DEF Access1
<1>3. Access1(c).skip <= Len(call[c].code) - at[c]
  BY <1>1, <1>2 DEF Sound, Shaped, Access1
<1>4. at[c] + 1 + Access1(c).skip \in 1 .. Len(call[c].code) + 1
  BY <1>1, <1>2, <1>3, CallIs
<1>5. got \in [Callers -> Functions] /\ spoilt \in [Callers -> SUBSET Fields] /\ call[c].writes \in SUBSET Fields
  BY CallIs DEF RegsTypes, CallsOf
<1>6. /\ at' = [at EXCEPT ![c] = at[c] + 1 + Access1(c).skip]
      /\ UNCHANGED <<driver, streams, reg, live, call, asked, doubtful, inits>>
      /\ got' = [got EXCEPT ![c] = IF Access1(c).op = "read" THEN Access1(c).f ELSE got[c]]
      /\ spoilt' = [spoilt EXCEPT ![c] = spoilt[c] \cup call[c].writes]
      /\ lost' = lost + 1 /\ unheld' = IF "hold" \in DOMAIN Access1(c).f THEN TRUE ELSE unheld
  BY DEF Lose, Advance, camera
<1>7. got' \in [Callers -> Functions]
  BY <1>2, <1>5, <1>6
<1>8. spoilt' \in [Callers -> SUBSET Fields]
  BY <1>5, <1>6
<1>9. at' \in [Callers -> Nat] /\ at'[c] = at[c] + 1 + Access1(c).skip /\ \A o \in Callers \ {c} : at'[o] = at[o]
  <2>1. at \in [Callers -> Nat] /\ at[c] + 1 + Access1(c).skip \in Nat
    BY <1>2, TypesAre
  <2> QED BY <2>1, <1>6
<1> QED BY <1>1, <1>2, <1>4, <1>5, <1>6, <1>7, <1>8, <1>9

LEMMA ReturnStep ==
    ASSUME RegsTypes, NEW c \in Callers, Return(c)
    PROVE  /\ at[c] = Len(call[c].code) + 1 /\ Sound(call[c], driver, streams)
           /\ call' \in [Callers -> CallsOf] /\ call'[c] = NoCall /\ at' \in [Callers -> Nat] /\ at'[c] = 1
           /\ \A o \in Callers \ {c} : call'[o] = call[o] /\ at'[o] = at[o] /\ spoilt'[o] = spoilt[o]
           /\ UNCHANGED <<driver, streams, reg, live, got, unheld, lost, inits>>
           /\ call[c].sets \in Functions /\ asked' \in [Fields -> Nat]
           /\ \A n \in Fields : asked'[n] = IF n \in DOMAIN call[c].sets THEN call[c].sets[n] ELSE asked[n]
           /\ doubtful' = (doubtful \ DOMAIN call[c].sets) \cup spoilt[c] /\ doubtful' \subseteq Fields
           /\ spoilt'[c] = {} /\ spoilt' \in [Callers -> SUBSET Fields]
<1>1. Sound(call[c], driver, streams) /\ at[c] = Len(call[c].code) + 1
  BY CallIs DEF Return
<1>2. call[c].sets \in Functions
  BY CallIs DEF CallsOf
<1>3. asked \in [Fields -> Nat] /\ doubtful \subseteq Fields /\ spoilt \in [Callers -> SUBSET Fields]
  BY DEF RegsTypes
<1>4. /\ call' = [call EXCEPT ![c] = NoCall] /\ at' = [at EXCEPT ![c] = 1]
      /\ UNCHANGED <<driver, streams, reg, live, got, unheld, lost, inits>>
      /\ asked' = Over(call[c].sets, asked)
      /\ doubtful' = (doubtful \ DOMAIN call[c].sets) \cup spoilt[c]
      /\ spoilt' = [spoilt EXCEPT ![c] = {}]
  BY DEF Return, camera
<1>5. /\ asked' \in [Fields -> Nat]
      /\ \A n \in Fields : asked'[n] = IF n \in DOMAIN call[c].sets THEN call[c].sets[n] ELSE asked[n]
  BY <1>2, <1>3, <1>4, OverFull
<1>6. doubtful' \subseteq Fields /\ spoilt' \in [Callers -> SUBSET Fields]
  BY <1>3, <1>4
<1>7. call \in [Callers -> CallsOf] /\ at \in [Callers -> Nat] /\ NoCall \in CallsOf
  BY TypesAre, NoCallIs
<1>8. /\ call' \in [Callers -> CallsOf] /\ call'[c] = NoCall /\ at' \in [Callers -> Nat] /\ at'[c] = 1 /\ spoilt'[c] = {}
      /\ \A o \in Callers \ {c} : call'[o] = call[o] /\ at'[o] = at[o] /\ spoilt'[o] = spoilt[o]
  BY <1>3, <1>4, <1>7
<1> QED BY <1>1, <1>2, <1>4, <1>5, <1>6, <1>8

(* A caller enters a call; a probe empties the sensor first, or leaves it. *)
Clearing(new) ==
    \/ UNCHANGED <<reg, live>> /\ (new.name = "init" => driver \in {"sc535", "ov5640"})
    \/ /\ new.name = "init"
       /\ \A n \in Fields : reg'[n] = IF n \in Sensor THEN 0 ELSE reg[n]
       /\ \A n \in Held : live'[n] = 0

Entering(c, new) ==
    /\ Idle(c) /\ Sound(new, driver, streams)
    /\ call' \in [Callers -> CallsOf] /\ call'[c] = new /\ at' \in [Callers -> Nat] /\ at'[c] = 1
    /\ got' \in [Callers -> Functions]
    /\ \A o \in Callers \ {c} : call'[o] = call[o] /\ at'[o] = at[o] /\ got'[o] = got[o]
    /\ spoilt' \in [Callers -> SUBSET Fields]
    /\ \A o \in Callers \ {c} : spoilt'[o] = spoilt[o] \cup (new.writes \cap call[o].writes)
    /\ \A n \in Fields : n \in spoilt'[c] <=> n \in new.writes /\ \E o \in Callers \ {c} : n \in call[o].writes
    /\ UNCHANGED <<driver, streams, asked, doubtful, unheld, lost>>
    /\ new.name \in Exclusive => \A o \in Callers \ {c} : Idle(o)
    /\ \A o \in Callers : call[o].name \notin Exclusive
    /\ reg' \in [Fields -> Nat] /\ live' \in [Held -> Nat] /\ inits' \in Nat \ {0}
    /\ Clearing(new) /\ (new.name # "init" => UNCHANGED inits)
    /\ new.name = "start" \/ (new.name = "init" /\ driver \in Gmsl) => asked["stream"] = 0

LEMMA EnterIs ==
    ASSUME RegsTypes, NEW c \in Callers, NEW new, Sound(new, driver, streams), Idle(c), Enter(c, new)
    PROVE  /\ call' \in [Callers -> CallsOf] /\ call'[c] = new /\ at' \in [Callers -> Nat] /\ at'[c] = 1
           /\ got' \in [Callers -> Functions]
           /\ \A o \in Callers \ {c} : call'[o] = call[o] /\ at'[o] = at[o] /\ got'[o] = got[o]
           /\ spoilt' \in [Callers -> SUBSET Fields]
           /\ \A o \in Callers \ {c} : spoilt'[o] = spoilt[o] \cup (new.writes \cap call[o].writes)
           /\ \A n \in Fields : n \in spoilt'[c] <=> n \in new.writes /\ \E o \in Callers \ {c} : n \in call[o].writes
<1>1. new.writes \in SUBSET Fields /\ Set({}, 0) \in Functions
  BY SetIs DEF Sound, Shaped, CallsOf
<1>2. spoilt \in [Callers -> SUBSET Fields] /\ got \in [Callers -> Functions]
  BY DEF RegsTypes
<1>3. spoilt' = [o \in Callers |-> IF o = c THEN new.writes \cap UNION {call[x].writes : x \in Callers \ {c}}
                                           ELSE spoilt[o] \cup (new.writes \cap call[o].writes)]
  BY DEF Enter
<1>4. spoilt'[c] = new.writes \cap UNION {call[x].writes : x \in Callers \ {c}}
  BY <1>3
<1>5. \A o \in Callers \ {c} : spoilt'[o] = spoilt[o] \cup (new.writes \cap call[o].writes)
  BY <1>3
<1>6. spoilt' \in [Callers -> SUBSET Fields]
  BY <1>1, <1>2, <1>3
<1>7. got' \in [Callers -> Functions] /\ \A o \in Callers \ {c} : got'[o] = got[o]
  BY <1>1, <1>2 DEF Enter
<1>9. new \in CallsOf /\ call \in [Callers -> CallsOf] /\ at \in [Callers -> Nat]
  BY TypesAre DEF Sound, Shaped
<1>10. /\ call' \in [Callers -> CallsOf] /\ call'[c] = new /\ at' \in [Callers -> Nat] /\ at'[c] = 1
       /\ \A o \in Callers \ {c} : call'[o] = call[o] /\ at'[o] = at[o]
  BY <1>9 DEF Enter
<1>8. \A n \in Fields : n \in spoilt'[c] <=> n \in new.writes /\ \E o \in Callers \ {c} : n \in call[o].writes
  BY <1>4
<1> QED BY <1>5, <1>6, <1>7, <1>8, <1>10

LEMMA ProbeStep ==
    ASSUME RegsTypes, NEW c \in Callers, nv_sensor_probe(c)
    PROVE  Entering(c, InitCall(driver))
<1>1. driver \in Kinds /\ streams \in Lists(driver) /\ inits \in Nat
  BY DEF RegsTypes
<1>2. Sound(InitCall(driver), driver, streams) /\ InitCall(driver).name = "init"
  BY <1>1, CallsAreSound, ProbesAreInit
<1>3. AllIdle /\ Idle(c) /\ Enter(c, InitCall(driver)) /\ inits' = inits + 1
  BY DEF nv_sensor_probe, AllIdle
<1>4. \A o \in Callers : call[o].name \notin Exclusive
  BY <1>3 DEF AllIdle, Idle, Exclusive
<1>5. reg \in [Fields -> Nat] /\ live \in [Held -> Nat]
  BY DEF RegsTypes
<1>6. \/ UNCHANGED <<reg, live>> /\ driver \in {"sc535", "ov5640"}
      \/ reg' = Over(Set(Sensor, 0), reg) /\ live' = Set(Held, 0)
  BY DEF nv_sensor_probe
<1>7. Set(Sensor, 0) \in Functions /\ DOMAIN Set(Sensor, 0) = Sensor /\ \A n \in Sensor : Set(Sensor, 0)[n] = 0
  BY SetIs, FieldNames
<1>8. /\ Over(Set(Sensor, 0), reg) \in [Fields -> Nat]
      /\ \A n \in Fields : Over(Set(Sensor, 0), reg)[n] = IF n \in Sensor THEN 0 ELSE reg[n]
  BY <1>5, <1>7, OverFull
<1>9. Set(Held, 0) \in [Held -> Nat] /\ \A n \in Held : Set(Held, 0)[n] = 0
  BY DEF Set
<1>10. Clearing(InitCall(driver))
  BY <1>2, <1>6, <1>8, <1>9 DEF Clearing
<1>11. reg' \in [Fields -> Nat] /\ live' \in [Held -> Nat]
  BY <1>5, <1>6, <1>8, <1>9
<1>12. UNCHANGED <<driver, streams, asked, doubtful, unheld, lost>> /\ (driver \in Gmsl => asked["stream"] = 0)
  BY DEF nv_sensor_probe, camera
<1>13. inits' \in Nat \ {0}
  BY <1>1, <1>3
<1>14. \A o \in Callers \ {c} : Idle(o)
  BY <1>3 DEF AllIdle
<1> QED BY <1>2, <1>3, <1>4, <1>10, <1>11, <1>12, <1>13, <1>14, EnterIs DEF Entering

LEMMA IoctlStep ==
    ASSUME RegsTypes, NEW c \in Callers, sensor_camera_ioctl(c)
    PROVE  \E new : Entering(c, new)
<1>1. driver \in Kinds /\ streams \in Lists(driver) /\ inits \in Nat /\ reg \in [Fields -> Nat] /\ live \in [Held -> Nat]
  BY DEF RegsTypes
<1>2. PICK new \in Calls(driver, streams) : (new.name = "start" => asked["stream"] = 0) /\ Enter(c, new)
  BY DEF sensor_camera_ioctl
<1>3. Sound(new, driver, streams) /\ new.name # "init"
  BY <1>1, CallsAreSound, CallsAreNotInit
<1>4. /\ Idle(c) /\ inits > 0 /\ \A o \in Callers : call[o].name \notin Exclusive
      /\ UNCHANGED <<driver, streams, reg, live, asked, doubtful, unheld, lost, inits>>
  BY DEF sensor_camera_ioctl, camera, Exclusive
<1>5. ASSUME new.name \in Exclusive, NEW o \in Callers
      PROVE  Idle(o)
  <2>1. driver \in Gmsl
    BY <1>3, <1>5 DEF Sound, Piped, Exclusive
  <2>2. ~ Idle(o) => call[o].name \in Settings /\ Sound(call[o], driver, streams)
    BY <1>4, CallIs DEF Sound, Shaped
  <2> QED BY <2>1, <2>2 DEF Sound, Piped
<1>6. inits' \in Nat \ {0}
  BY <1>1, <1>4
<1>7. reg' \in [Fields -> Nat] /\ live' \in [Held -> Nat]
  BY <1>1, <1>4
<1>8. Clearing(new)
  BY <1>3, <1>4 DEF Clearing
<1>9. Entering(c, new)
  BY <1>2, <1>3, <1>4, <1>5, <1>6, <1>7, <1>8, EnterIs DEF Entering
<1> QED BY <1>9

-----------------------------------------------------------------------------
(* The types.                                                              *)
LEMMA InitRegs == RegsInit => RegsTypes
<1> SUFFICES ASSUME RegsInit PROVE RegsTypes
  OBVIOUS
<1>1. driver \in Kinds /\ streams \in Lists(driver)
  BY DEF RegsInit, Lists
<1>2. reg \in [Fields -> Nat] /\ live \in [Held -> Nat] /\ asked \in [Fields -> Nat]
  BY DEF RegsInit, Set
<1>3. call \in [Callers -> CallsOf] /\ (\A c \in Callers : call[c] = NoCall /\ at[c] = 1) /\ at \in [Callers -> Nat]
  BY NoCallIs DEF RegsInit
<1>4. got \in [Callers -> Functions]
  BY SetIs DEF RegsInit
<1>5. spoilt \in [Callers -> SUBSET Fields] /\ doubtful \subseteq Fields /\ unheld \in BOOLEAN /\ lost \in Nat /\ inits \in Nat
  BY DEF RegsInit
<1>6. \A c \in Callers : at[c] \in 1 .. Len(call[c].code) + 1
  <2>1. 1 \in 1 .. Len(NoCall.code) + 1
    BY NoCallIs
  <2> QED BY <1>3, <2>1
<1> QED BY <1>1, <1>2, <1>3, <1>4, <1>5, <1>6 DEF RegsTypes

LEMMA TypesNext ==
    ASSUME RegsTypes, UNCHANGED <<driver, streams>>,
           reg' \in [Fields -> Nat], live' \in [Held -> Nat], asked' \in [Fields -> Nat],
           call' \in [Callers -> CallsOf], at' \in [Callers -> Nat], got' \in [Callers -> Functions],
           spoilt' \in [Callers -> SUBSET Fields], doubtful' \subseteq Fields, unheld' \in BOOLEAN,
           lost' \in Nat, inits' \in Nat, NEW c \in Callers,
           \A o \in Callers \ {c} : call'[o] = call[o] /\ at'[o] = at[o],
           call'[c] = NoCall \/ Sound(call'[c], driver, streams),
           at'[c] \in 1 .. Len(call'[c].code) + 1
    PROVE  RegsTypes'
<1>1. ASSUME NEW o \in Callers
      PROVE  /\ call'[o] = NoCall \/ Sound(call'[o], driver, streams)
             /\ at'[o] \in 1 .. Len(call'[o].code) + 1
  <2>1. CASE o = c
    BY <2>1
  <2>2. CASE o # c
    BY <2>2 DEF RegsTypes
  <2> QED BY <2>1, <2>2
<1>2. driver \in Kinds /\ streams \in Lists(driver)
  BY TypesAre
<1> QED BY <1>1, <1>2 DEF RegsTypes

LEMMA EnterTypes ==
    ASSUME RegsTypes, NEW c \in Callers, NEW new, Entering(c, new)
    PROVE  RegsTypes'
<1>1. Len(new.code) \in Nat /\ Sound(new, driver, streams)
  BY DEF Entering, Sound, Shaped, CallsOf
<1>2. /\ call'[c] = new /\ at'[c] = 1 /\ call' \in [Callers -> CallsOf] /\ at' \in [Callers -> Nat]
      /\ got' \in [Callers -> Functions] /\ spoilt' \in [Callers -> SUBSET Fields]
      /\ UNCHANGED <<driver, streams, asked, doubtful, unheld, lost>>
      /\ reg' \in [Fields -> Nat] /\ live' \in [Held -> Nat] /\ inits' \in Nat
      /\ \A o \in Callers \ {c} : call'[o] = call[o] /\ at'[o] = at[o]
  BY DEF Entering
<1>3. asked \in [Fields -> Nat] /\ doubtful \subseteq Fields /\ unheld \in BOOLEAN /\ lost \in Nat
  BY TypesAre
<1>4. at'[c] \in 1 .. Len(call'[c].code) + 1
  BY <1>1, <1>2
<1> QED BY <1>1, <1>2, <1>3, <1>4, TypesNext

LEMMA StepTypes ==
    ASSUME RegsTypes, GotInv, NEW c \in Callers, imx_read_reg(c) \/ imx_write_reg(c) \/ Lose(c) \/ Return(c)
    PROVE  RegsTypes'
<1>1. /\ reg \in [Fields -> Nat] /\ live \in [Held -> Nat] /\ asked \in [Fields -> Nat]
      /\ call \in [Callers -> CallsOf] /\ at \in [Callers -> Nat] /\ got \in [Callers -> Functions]
      /\ spoilt \in [Callers -> SUBSET Fields] /\ doubtful \subseteq Fields /\ unheld \in BOOLEAN
      /\ lost \in Nat /\ inits \in Nat
  BY TypesAre
<1>2. (call[c] = NoCall \/ Sound(call[c], driver, streams)) /\ Len(call[c].code) \in Nat /\ at[c] \in Nat
  BY CallIs
<1>3. CASE imx_read_reg(c)
  <2>1. /\ at[c] \in 1 .. Len(call[c].code)
        /\ at' \in [Callers -> Nat] /\ at'[c] = at[c] + 1 /\ \A o \in Callers \ {c} : at'[o] = at[o]
        /\ UNCHANGED <<driver, streams, reg, live, call, spoilt, asked, doubtful, unheld, lost, inits>>
        /\ got' \in [Callers -> Functions]
    BY <1>3, ReadStep
  <2>2. at'[c] \in 1 .. Len(call'[c].code) + 1
    BY <1>2, <2>1
  <2> QED BY <1>1, <1>2, <2>1, <2>2, TypesNext
<1>4. CASE imx_write_reg(c)
  <2>1. /\ at[c] \in 1 .. Len(call[c].code)
        /\ at' \in [Callers -> Nat] /\ at'[c] = at[c] + 1 /\ \A o \in Callers \ {c} : at'[o] = at[o]
        /\ UNCHANGED <<driver, streams, call, got, spoilt, asked, doubtful, lost, inits>>
        /\ reg' \in [Fields -> Nat] /\ live' \in [Held -> Nat]
        /\ unheld' = (IF "hold" \in DOMAIN Access1(c).f THEN FALSE ELSE unheld)
    BY <1>4, WriteStep
  <2>2. at'[c] \in 1 .. Len(call'[c].code) + 1
    BY <1>2, <2>1
  <2>3. unheld' \in BOOLEAN
    BY <1>1, <2>1, Zenon
  <2> QED BY <1>1, <1>2, <2>1, <2>2, <2>3, TypesNext
<1>5. CASE Lose(c)
  <2>1. /\ at[c] + 1 + Access1(c).skip \in 1 .. Len(call[c].code) + 1
        /\ at' \in [Callers -> Nat] /\ at'[c] = at[c] + 1 + Access1(c).skip
        /\ \A o \in Callers \ {c} : at'[o] = at[o]
        /\ UNCHANGED <<driver, streams, reg, live, call, asked, doubtful, inits>>
        /\ got' \in [Callers -> Functions] /\ spoilt' \in [Callers -> SUBSET Fields]
        /\ lost' = lost + 1 /\ unheld' = IF "hold" \in DOMAIN Access1(c).f THEN TRUE ELSE unheld
    BY <1>5, LoseStep
  <2>2. at'[c] \in 1 .. Len(call'[c].code) + 1 /\ lost' \in Nat
    BY <1>1, <1>2, <2>1
  <2>3. unheld' \in BOOLEAN
    BY <1>1, <2>1, Zenon
  <2> QED BY <1>1, <1>2, <2>1, <2>2, <2>3, TypesNext
<1>6. CASE Return(c)
  <2>1. /\ call' \in [Callers -> CallsOf] /\ call'[c] = NoCall /\ at' \in [Callers -> Nat] /\ at'[c] = 1
        /\ \A o \in Callers \ {c} : call'[o] = call[o] /\ at'[o] = at[o]
        /\ UNCHANGED <<driver, streams, reg, live, got, unheld, lost, inits>>
        /\ asked' \in [Fields -> Nat] /\ doubtful' \subseteq Fields /\ spoilt' \in [Callers -> SUBSET Fields]
    BY <1>6, ReturnStep
  <2>2. at'[c] \in 1 .. Len(call'[c].code) + 1
    BY <2>1, NoCallIs
  <2> QED BY <1>1, <2>1, <2>2, TypesNext
<1> QED BY <1>3, <1>4, <1>5, <1>6

LEMMA StutterTypes == RegsTypes /\ UNCHANGED regsVars => RegsTypes'
BY DEF RegsTypes, regsVars, camera, callVars

-----------------------------------------------------------------------------
(* Who meets whom, and what was read.                                      *)
LEMMA EnterMeets ==
    ASSUME RegsTypes, RegsTypes', MeetInv, NEW c \in Callers, NEW new, Entering(c, new)
    PROVE  MeetInv'
<1>1. call'[c] = new /\ \A o \in Callers \ {c} : call'[o] = call[o]
  BY DEF Entering
<1>2. new.writes \subseteq Fields /\ new.name \in Exclusive \cup Settings
  BY DEF Entering, Sound, Shaped, CallsOf
<1>3. call[c].writes = {} /\ spoilt[c] = {}
  <2>1. Idle(c)
    BY DEF Entering
  <2>2. call[c].writes = {}
    BY <2>1, CallIs
  <2> QED BY <2>2 DEF MeetInv
<1>4. ASSUME NEW p \in Callers, NEW o \in Callers, p # o, call'[p].name \in Exclusive
      PROVE  Idle(o)'
  BY <1>1, <1>4 DEF Entering, Idle
<1>5. ASSUME NEW p \in Callers, NEW o \in Callers, p # o
      PROVE  call'[p].writes \cap call'[o].writes \subseteq spoilt'[p]
  <2>1. CASE p = c
    BY <2>1, <1>1, <1>2, <1>5 DEF Entering
  <2>2. CASE o = c
    BY <2>2, <1>1, <1>5 DEF Entering
  <2>3. CASE p # c /\ o # c
    BY <2>3, <1>1, <1>5 DEF Entering, MeetInv
  <2> QED BY <2>1, <2>2, <2>3
<1>6. ASSUME NEW p \in Callers
      PROVE  spoilt'[p] \subseteq call'[p].writes
  <2>1. CASE p = c
    <3>1. spoilt'[c] \subseteq Fields
      BY DEF RegsTypes
    <3> QED BY <2>1, <3>1, <1>1 DEF Entering
  <2>2. CASE p # c
    BY <2>2, <1>1 DEF Entering, MeetInv
  <2> QED BY <2>1, <2>2
<1> QED BY <1>4, <1>5, <1>6 DEF MeetInv

LEMMA StepMeets ==
    ASSUME RegsTypes, GotInv, MeetInv, NEW c \in Callers,
           imx_read_reg(c) \/ imx_write_reg(c) \/ Lose(c) \/ Return(c)
    PROVE  MeetInv'
<1>1. CASE imx_read_reg(c) \/ imx_write_reg(c)
  <2>1. UNCHANGED <<call, spoilt>>
    BY <1>1, ReadStep, WriteStep
  <2> QED BY <2>1 DEF MeetInv, Idle
<1>2. CASE Lose(c)
  <2>1. /\ UNCHANGED call /\ spoilt'[c] = spoilt[c] \cup call[c].writes
        /\ \A o \in Callers \ {c} : spoilt'[o] = spoilt[o]
    BY <1>2, LoseStep
  <2>2. spoilt'[c] = call[c].writes
    BY <2>1 DEF MeetInv
  <2> QED BY <2>1, <2>2 DEF MeetInv, Idle
<1>3. CASE Return(c)
  <2>2. /\ spoilt'[c] = {} /\ \A o \in Callers \ {c} : spoilt'[o] = spoilt[o]
        /\ call'[c] = NoCall /\ \A o \in Callers \ {c} : call'[o] = call[o]
    BY <1>3, ReturnStep
  <2> QED BY <2>2, NoCallIs DEF MeetInv, Idle, Exclusive
<1> QED BY <1>1, <1>2, <1>3

LEMMA EnterGot ==
    ASSUME RegsTypes, GotInv, NEW c \in Callers, NEW new, Entering(c, new)
    PROVE  GotInv'
<1>1. call'[c] = new /\ at'[c] = 1 /\ \A o \in Callers \ {c} : call'[o] = call[o] /\ at'[o] = at[o] /\ got'[o] = got[o]
  BY DEF Entering
<1> SUFFICES ASSUME NEW p \in Callers, Busy(p)', Access1(p)'.op = "modify"
             PROVE  /\ DOMAIN got'[p] = DOMAIN call'[p].code[at'[p] - 1].f
                    /\ \A n \in DOMAIN got'[p] : n \notin spoilt'[p] => got'[p][n] = reg'[n]
  BY DEF GotInv
<1>2. p # c
  <2>1. Sound(new, driver, streams) /\ Len(new.code) \in Nat
    BY DEF Entering, Sound, Shaped, CallsOf
  <2>2. p = c => 1 \in 1 .. Len(new.code) /\ new.code[1].op = "modify"
    BY <1>1, <2>1 DEF Busy, Access1
  <2> QED BY <2>1, <2>2 DEF Sound, Shaped
<1>3. Busy(p) /\ Access1(p).op = "modify" /\ ~ Idle(p)
  BY <1>1, <1>2 DEF Busy, Access1, Idle
<1>4. UNCHANGED reg
  <2>1. new.name \notin Exclusive
    BY <1>2, <1>3 DEF Entering
  <2>2. Clearing(new)
    BY DEF Entering
  <2> QED BY <2>1, <2>2 DEF Clearing, Exclusive
<1>5. spoilt[p] \subseteq spoilt'[p]
  BY <1>2 DEF Entering
<1> QED BY <1>1, <1>2, <1>3, <1>4, <1>5 DEF GotInv

LEMMA StepGot ==
    ASSUME RegsTypes, GotInv, MeetInv, NEW c \in Callers,
           imx_read_reg(c) \/ imx_write_reg(c) \/ Lose(c) \/ Return(c)
    PROVE  GotInv'
<1> SUFFICES ASSUME NEW p \in Callers, Busy(p)', Access1(p)'.op = "modify"
             PROVE  /\ DOMAIN got'[p] = DOMAIN call'[p].code[at'[p] - 1].f
                    /\ \A n \in DOMAIN got'[p] : n \notin spoilt'[p] => got'[p][n] = reg'[n]
  BY DEF GotInv
<1>1. ASSUME NEW i \in 1 .. Len(call[p].code), call[p].code[i].op = "modify"
      PROVE  /\ i > 1 /\ call[p].code[i - 1].op = "read" /\ call[p].name \notin Exclusive
             /\ DOMAIN call[p].code[i - 1].f \subseteq call[p].writes /\ DOMAIN call[p].code[i - 1].f \subseteq Fields
  <2>1. Sound(call[p], driver, streams)
    BY AccessIs
  <2>2. i > 1 /\ call[p].code[i - 1].op = "read" /\ call[p].name \notin Exclusive
    BY <2>1, <1>1 DEF Sound, Shaped
  <2> QED BY <2>2, AccessIs
<1>2. CASE p # c
  <2>1. call'[p] = call[p] /\ at'[p] = at[p] /\ got'[p] = got[p] /\ spoilt[p] = spoilt'[p]
    <3>1. imx_read_reg(c) \/ imx_write_reg(c) => UNCHANGED <<call, spoilt>> /\ at'[p] = at[p] /\ got'[p] = got[p]
      BY <1>2, ReadStep, WriteStep
    <3>2. Lose(c) => UNCHANGED call /\ at'[p] = at[p] /\ got'[p] = got[p] /\ spoilt[p] = spoilt'[p]
      BY <1>2, LoseStep
    <3>3. Return(c) => UNCHANGED got /\ call'[p] = call[p] /\ at'[p] = at[p] /\ spoilt[p] = spoilt'[p]
      BY <1>2, ReturnStep
    <3> QED BY <3>1, <3>2, <3>3
  <2>2. Busy(p) /\ Access1(p).op = "modify"
    BY <2>1 DEF Busy, Access1, Idle
  <2>3. /\ DOMAIN got[p] = DOMAIN call[p].code[at[p] - 1].f
        /\ \A n \in DOMAIN got[p] : n \notin spoilt[p] => got[p][n] = reg[n]
    BY <2>2 DEF GotInv
  <2>4. DOMAIN got[p] \subseteq call[p].writes /\ DOMAIN got[p] \subseteq Fields
    BY <1>1, <2>2, <2>3, CallIs DEF Access1
  <2>5. \A n \in DOMAIN got[p] : n \notin spoilt[p] => reg'[n] = reg[n]
    <3>1. CASE imx_write_reg(c)
      <4> SUFFICES ASSUME NEW n \in DOMAIN got[p], n \notin spoilt[p]
                   PROVE  reg'[n] = reg[n]
        OBVIOUS
      <4>1. n \notin call[c].writes
        BY <1>2, <2>4 DEF MeetInv
      <4> QED BY <4>1, <2>4, <3>1, WriteStep
    <3>2. CASE ~ imx_write_reg(c)
      BY <3>2, ReadStep, LoseStep, ReturnStep
    <3> QED BY <3>1, <3>2
  <2> QED BY <2>1, <2>3, <2>5
<1>3. CASE p = c /\ (imx_read_reg(c) \/ imx_write_reg(c))
  <2>1. /\ call'[c] = call[c] /\ at'[c] = at[c] + 1 /\ at[c] \in 1 .. Len(call[c].code)
        /\ imx_read_reg(c) => Access1(c).op = "read"
        /\ imx_write_reg(c) => Access1(c).op # "read"
    BY <1>3, ReadStep, WriteStep
  <2>2. at[c] + 1 \in 1 .. Len(call[c].code) /\ call[c].code[at[c] + 1].op = "modify"
    BY <1>3, <2>1, CallIs DEF Busy, Access1
  <2>3. Access1(c).op = "read"
    BY <1>1, <1>3, <2>1, <2>2, CallIs DEF Access1
  <2>4. imx_read_reg(c)
    BY <1>3, <2>1, <2>3
  <2>5. got'[c] = [n \in DOMAIN Access1(c).f |-> reg[n]] /\ reg' = reg
    BY <2>4, ReadStep
  <2>6. at'[c] - 1 = at[c]
    BY <2>1
  <2> QED BY <1>3, <2>1, <2>5, <2>6 DEF Access1
<1>4. CASE p = c /\ Lose(c)
  <2>1. /\ call'[c] = call[c] /\ at'[c] = at[c] + 1 + Access1(c).skip /\ at[c] \in 1 .. Len(call[c].code)
        /\ Access1(c).skip \in Nat /\ reg' = reg
        /\ got'[c] = IF Access1(c).op = "read" THEN Access1(c).f ELSE got[c]
        /\ spoilt'[c] = spoilt[c] \cup call[c].writes
    BY <1>4, LoseStep
  <2>2. at'[c] \in 1 .. Len(call[c].code) /\ call[c].code[at'[c]].op = "modify"
    <3>1. at'[c] <= Len(call[c].code) /\ Len(call[c].code) \in Nat
      BY <1>4, <2>1, CallIs DEF Busy
    <3>2. call[c].code[at'[c]].op = "modify"
      BY <1>4, <2>1 DEF Access1
    <3> QED BY <2>1, <3>1, <3>2
  <2>3. call[c].name \notin Exclusive /\ call[c].code[at'[c] - 1].op = "read"
    BY <1>1, <1>4, <2>2
  <2>4. Access1(c).skip = 0
    <3>1. Sound(call[c], driver, streams)
      BY <2>1, AccessIs
    <3> QED BY <2>1, <2>3, <3>1 DEF Access1, Sound, Shaped
  <2>5. at'[c] - 1 = at[c]
    BY <2>1, <2>4
  <2>6. got'[c] = Access1(c).f
    BY <2>1, <2>3, <2>5 DEF Access1
  <2>7. DOMAIN Access1(c).f \subseteq call[c].writes
    BY <2>1, AccessIs DEF Access1
  <2> QED BY <1>4, <2>1, <2>5, <2>6, <2>7 DEF Access1
<1>5. CASE p = c /\ Return(c)
  <2>1. call'[c] = NoCall
    BY <1>5, ReturnStep
  <2> QED BY <1>5, <2>1, NoCallIs DEF Busy, Idle
<1> QED BY <1>2, <1>3, <1>4, <1>5

-----------------------------------------------------------------------------
(* What is never set.                                                      *)
LEMMA SoundIs ==
    ASSUME RegsTypes, NEW c \in Callers, ~ Idle(c)
    PROVE  /\ Shaped(call[c]) /\ Faithful(call[c], driver) /\ Piped(call[c], driver, streams)
           /\ driver = "gmax3405" => Windowed(call[c])
           /\ call[c].name \in Exclusive \cup Settings /\ DOMAIN call[c].sets \subseteq call[c].writes
           /\ call[c].writes \subseteq Fields
<1>1. Sound(call[c], driver, streams)
  BY CallIs
<1> QED BY <1>1 DEF Sound, Shaped, CallsOf

LEMMA EnterZero ==
    ASSUME RegsTypes, ZeroInv, NEW c \in Callers, NEW new, Entering(c, new)
    PROVE  ZeroInv'
<1>1. driver \in Kinds
  BY TypesAre
<1>2. Zero(driver) \subseteq Fields /\ Zero(driver) \subseteq Sensor
  BY <1>1, ZeroIs, FieldNames
<1>3. UNCHANGED <<driver, asked>> /\ Clearing(new)
  BY DEF Entering
<1>4. \A n \in Zero(driver) : reg'[n] = 0 /\ (n \in Held => live'[n] = 0)
  BY <1>2, <1>3 DEF Clearing, ZeroInv
<1> QED BY <1>3, <1>4 DEF ZeroInv

LEMMA StepZero ==
    ASSUME RegsTypes, GotInv, ZeroInv, NEW c \in Callers,
           imx_read_reg(c) \/ imx_write_reg(c) \/ Lose(c) \/ Return(c)
    PROVE  ZeroInv'
<1>1. driver \in Kinds
  BY TypesAre
<1>2. Zero(driver) \subseteq Fields
  BY <1>1, ZeroIs
<1>3. CASE imx_read_reg(c) \/ Lose(c)
  <2>1. UNCHANGED <<driver, reg, live, asked>>
    BY <1>3, ReadStep, LoseStep
  <2> QED BY <2>1 DEF ZeroInv
<1>4. CASE imx_write_reg(c)
  <2>1. /\ at[c] \in 1 .. Len(call[c].code) /\ UNCHANGED <<driver, asked>>
        /\ live' = IF reg'["hold"] = 0 THEN [n \in Held |-> reg'[n]] ELSE live
    BY <1>4, WriteStep
  <2>2. Faithful(call[c], driver)
    BY <2>1, AccessIs, SoundIs
  <2>3. Access1(c).op = "modify" => driver = "gmax3405"
    BY <2>1, <2>2 DEF Faithful, Access1
  <2>4. ASSUME NEW n \in Zero(driver)
        PROVE  reg'[n] = 0
    <3>1. CASE Writes(Access1(c), n)
      <4>1. reg'[n] = Access1(c).f[n]
        BY <1>2, <1>4, <3>1, WriteStep
      <4>2. Only(call[c].code, n, 0)
        BY <2>2 DEF Faithful
      <4> QED BY <2>1, <3>1, <4>1, <4>2 DEF Only, Access1
    <3>2. CASE ~ Writes(Access1(c), n)
      <4>1. Access1(c).op # "modify" \/ n \notin FLIP_H \cup {"flip_v"}
        BY <1>1, <2>3, ZeroIs, FieldNames
      <4>2. reg'[n] = reg[n]
        BY <1>2, <1>4, <3>2, <4>1, WriteStep
      <4> QED BY <4>2 DEF ZeroInv
    <3> QED BY <3>1, <3>2
  <2>5. \A n \in Zero(driver) : n \in Held => live'[n] = 0
    BY <2>1, <2>4 DEF ZeroInv
  <2> QED BY <2>1, <2>4, <2>5 DEF ZeroInv
<1>5. CASE Return(c)
  <2>1. /\ UNCHANGED <<driver, reg, live>> /\ Sound(call[c], driver, streams)
        /\ \A n \in Fields : asked'[n] = IF n \in DOMAIN call[c].sets THEN call[c].sets[n] ELSE asked[n]
    BY <1>5, ReturnStep
  <2>2. Faithful(call[c], driver)
    BY <2>1 DEF Sound
  <2>3. \A n \in Zero(driver) : asked'[n] = 0
    BY <1>2, <2>1, <2>2 DEF Faithful, ZeroInv
  <2> QED BY <2>1, <2>3 DEF ZeroInv
<1> QED BY <1>3, <1>4, <1>5

-----------------------------------------------------------------------------
(* What a call is to leave behind comes, and then stays.                   *)
LEMMA ComingStep ==
    ASSUME RegsTypes, GotInv, NEW c \in Callers, imx_read_reg(c) \/ imx_write_reg(c),
           NEW n \in Fields, n \notin spoilt[c] \/ n \notin FLIP_H \cup {"flip_v"},
           NEW v, Coming(c, n, v)
    PROVE  Coming(c, n, v)'
<1>1. PICK i \in 1 .. Len(call[c].code) : Final(call[c].code, i, n, v) /\ (i < at[c] => reg[n] = v)
  BY DEF Coming
<1>2. /\ at[c] \in 1 .. Len(call[c].code) /\ at'[c] = at[c] + 1 /\ UNCHANGED call
      /\ imx_read_reg(c) => reg' = reg /\ Access1(c).op = "read"
  BY ReadStep, WriteStep
<1>3. i \in Nat /\ at[c] \in Nat
  BY <1>2, CallIs
<1>4. ASSUME i < at'[c]
      PROVE  reg'[n] = v
  <2>1. CASE Writes(Access1(c), n)
    <3>1. imx_write_reg(c)
      BY <1>2, <2>1 DEF Writes
    <3>2. reg'[n] = Access1(c).f[n]
      BY <2>1, <3>1, WriteStep
    <3>3. at[c] \in i .. Len(call[c].code)
      BY <1>2, <1>3, <1>4
    <3> QED BY <1>1, <2>1, <3>2, <3>3 DEF Final, Access1
  <2>2. CASE ~ Writes(Access1(c), n)
    <3>1. i # at[c]
      BY <1>1, <2>2 DEF Final, Access1
    <3>2. reg'[n] = reg[n]
      BY <1>2, <2>2, WriteStep
    <3> QED BY <1>1, <1>2, <1>3, <1>4, <3>1, <3>2
  <2> QED BY <2>1, <2>2
<1> QED BY <1>1, <1>2, <1>4 DEF Coming

LEMMA ComingStays ==
    ASSUME NEW o \in Callers, NEW n, NEW v, call'[o] = call[o], at'[o] = at[o], reg'[n] = reg[n]
    PROVE  Coming(o, n, v) => Coming(o, n, v)'
BY DEF Coming

LEMMA ComingIs ==
    ASSUME RegsTypes, NEW c \in Callers, at[c] = Len(call[c].code) + 1, NEW n, NEW v, Coming(c, n, v)
    PROVE  reg[n] = v
<1>1. PICK i \in 1 .. Len(call[c].code) : i < at[c] => reg[n] = v
  BY DEF Coming
<1>2. Len(call[c].code) \in Nat
  BY CallIs
<1> QED BY <1>1, <1>2

LEMMA EnterField ==
    ASSUME RegsTypes, MeetInv, FieldInv, NEW c \in Callers, NEW new, Entering(c, new)
    PROVE  FieldInv'
<1>1. driver \in Kinds
  BY TypesAre
<1>2. Tracked(driver) \subseteq Fields
  BY <1>1, ZeroIs
<1>3. /\ Idle(c) /\ Sound(new, driver, streams) /\ call'[c] = new /\ at'[c] = 1
      /\ \A o \in Callers \ {c} : call'[o] = call[o] /\ at'[o] = at[o]
      /\ \A o \in Callers \ {c} : spoilt'[o] = spoilt[o] \cup (new.writes \cap call[o].writes)
      /\ \A n \in Fields : n \in spoilt'[c] <=> n \in new.writes /\ \E o \in Callers \ {c} : n \in call[o].writes
      /\ UNCHANGED <<driver, asked, doubtful>>
      /\ new.name \in Exclusive => \A o \in Callers \ {c} : Idle(o)
      /\ Clearing(new)
  BY DEF Entering
<1>4. Faithful(new, driver) /\ Shaped(new)
  BY <1>3 DEF Sound
<1>5. call[c].writes = {}
  BY <1>3, CallIs
<1> SUFFICES ASSUME NEW n \in Tracked(driver)
             PROVE  /\ n \notin doubtful /\ (\A p \in Callers : n \notin call'[p].writes) => reg'[n] = asked[n]
                    /\ \A p \in Callers : n \in call'[p].writes /\ n \notin spoilt'[p] =>
                           IF n \in DOMAIN call'[p].sets THEN Coming(p, n, call[p].sets[n])'
                           ELSE n \notin doubtful => reg'[n] = asked[n]
  BY <1>3 DEF FieldInv
<1>6. n \in DOMAIN new.sets => n \in new.writes
  BY <1>4 DEF Shaped
<1>7. n \notin DOMAIN new.sets => reg'[n] = reg[n]
  BY <1>3, <1>4 DEF Clearing, Faithful
<1>8. n \notin doubtful /\ (\A p \in Callers \ {c} : n \notin call[p].writes) => reg[n] = asked[n]
  BY <1>5 DEF FieldInv
<1>9. n \notin doubtful /\ (\A p \in Callers : n \notin call'[p].writes) => reg'[n] = asked[n]
  BY <1>3, <1>6, <1>7, <1>8
<1>10. ASSUME NEW p \in Callers, n \in call'[p].writes, n \notin spoilt'[p]
       PROVE  IF n \in DOMAIN call'[p].sets THEN Coming(p, n, call[p].sets[n])'
              ELSE n \notin doubtful => reg'[n] = asked[n]
  <2>1. CASE p = c /\ n \in DOMAIN new.sets
    <3>1. PICK i \in 1 .. Len(new.code) : Final(new.code, i, n, new.sets[n])
      BY <1>4, <2>1 DEF Faithful, Leaves
    <3>2. ~ (i < at'[c])
      BY <1>3
    <3>3. Coming(c, n, call[c].sets[n])'
      BY <1>3, <3>1, <3>2 DEF Coming
    <3> QED BY <2>1, <1>3, <3>3
  <2>2. CASE p = c /\ n \notin DOMAIN new.sets
    <3>1. \A o \in Callers \ {c} : n \notin call[o].writes
      BY <1>2, <1>3, <1>10, <2>2
    <3> QED BY <1>3, <1>7, <1>8, <2>2, <3>1
  <2>3. CASE p # c
    <3>1. call'[p] = call[p] /\ at'[p] = at[p] /\ n \notin spoilt[p] /\ n \in call[p].writes
      BY <1>3, <1>10, <2>3
    <3>2. ~ Idle(p)
      BY <3>1, CallIs
    <3>3. new.name # "init"
      BY <1>3, <2>3, <3>2 DEF Exclusive
    <3>4. reg' = reg
      BY <1>3, <3>3 DEF Clearing
    <3>5. IF n \in DOMAIN call[p].sets THEN Coming(p, n, call[p].sets[n])
          ELSE n \notin doubtful => reg[n] = asked[n]
      BY <3>1 DEF FieldInv
    <3>6. Coming(p, n, call[p].sets[n]) => Coming(p, n, call[p].sets[n])'
      BY <3>1, <3>4 DEF Coming
    <3> QED BY <3>1, <3>4, <3>5, <3>6
  <2> QED BY <2>1, <2>2, <2>3
<1> QED BY <1>9, <1>10

LEMMA StepField ==
    ASSUME RegsTypes, GotInv, MeetInv, FieldInv, NEW c \in Callers,
           imx_read_reg(c) \/ imx_write_reg(c) \/ Lose(c) \/ Return(c)
    PROVE  FieldInv'
<1>1. driver \in Kinds
  BY TypesAre
<1>2. Tracked(driver) \subseteq Fields
  BY <1>1, ZeroIs
<1>3. CASE imx_read_reg(c) \/ imx_write_reg(c)
  <2>1. /\ UNCHANGED <<driver, call, spoilt, asked, doubtful>> /\ at[c] \in 1 .. Len(call[c].code)
        /\ \A o \in Callers \ {c} : at'[o] = at[o]
    BY <1>3, ReadStep, WriteStep
  <2> SUFFICES ASSUME NEW n \in Tracked(driver)
               PROVE  /\ n \notin doubtful /\ (\A p \in Callers : n \notin call[p].writes) => reg'[n] = asked[n]
                      /\ \A p \in Callers : n \in call[p].writes /\ n \notin spoilt[p] =>
                             IF n \in DOMAIN call[p].sets THEN Coming(p, n, call[p].sets[n])'
                             ELSE n \notin doubtful => reg'[n] = asked[n]
    BY <2>1 DEF FieldInv
  <2>2. n \notin call[c].writes => reg'[n] = reg[n]
    BY <1>2, <1>3, ReadStep, WriteStep
  <2>3. n \notin doubtful /\ (\A p \in Callers : n \notin call[p].writes) => reg'[n] = asked[n]
    BY <2>2 DEF FieldInv
  <2>4. ASSUME NEW p \in Callers, n \in call[p].writes, n \notin spoilt[p]
        PROVE  IF n \in DOMAIN call[p].sets THEN Coming(p, n, call[p].sets[n])'
               ELSE n \notin doubtful => reg'[n] = asked[n]
    <3>1. IF n \in DOMAIN call[p].sets THEN Coming(p, n, call[p].sets[n])
          ELSE n \notin doubtful => reg[n] = asked[n]
      BY <2>4 DEF FieldInv
    <3>2. CASE p # c
      <4>1. n \notin call[c].writes
        BY <2>4, <3>2 DEF MeetInv
      <4>2. reg'[n] = reg[n]
        BY <2>2, <4>1
      <4>3. Coming(p, n, call[p].sets[n]) => Coming(p, n, call[p].sets[n])'
        <5>1. call'[p] = call[p] /\ at'[p] = at[p]
          BY <2>1, <3>2
        <5> QED BY <4>2, <5>1 DEF Coming
      <4> QED BY <3>1, <4>2, <4>3
    <3>3. CASE p = c /\ n \in DOMAIN call[c].sets
      <4>1. Coming(c, n, call[c].sets[n])
        BY <3>1, <3>3
      <4>2. n \in Fields /\ n \notin spoilt[c]
        BY <1>2, <2>4, <3>3
      <4>3. Coming(c, n, call[c].sets[n])'
        <5> DEFINE v == call[c].sets[n]
        <5>1. v' = v
          BY <2>1
        <5>2. Coming(c, n, v)
          BY <4>1
        <5> HIDE DEF v
        <5>3. PICK u : u = v
          OBVIOUS
        <5>4. Coming(c, n, u)
          BY <5>2, <5>3
        <5>5. Coming(c, n, u)'
          BY <1>3, <4>2, <5>4, ComingStep
        <5>6. Coming(c, n, v)'
          BY <5>1, <5>3, <5>5
        <5> QED BY <5>6 DEF v
      <4> QED BY <3>3, <4>3
    <3>4. CASE p = c /\ n \notin DOMAIN call[c].sets
      <4>1. Faithful(call[c], driver)
        BY <2>1, AccessIs, SoundIs
      <4>2. ~ Writes(Access1(c), n)
        BY <2>1, <3>4, <4>1 DEF Faithful, Never, Access1
      <4>3. reg'[n] = reg[n]
        BY <1>2, <1>3, <2>4, <3>4, <4>2, ReadStep, WriteStep
      <4> QED BY <3>1, <3>4, <4>3
    <3> QED BY <3>2, <3>3, <3>4
  <2> QED BY <2>3, <2>4
<1>4. CASE Lose(c)
  <2>1. /\ UNCHANGED <<driver, reg, call, asked, doubtful>>
        /\ spoilt'[c] = spoilt[c] \cup call[c].writes
        /\ \A o \in Callers \ {c} : at'[o] = at[o] /\ spoilt'[o] = spoilt[o]
    BY <1>4, LoseStep
  <2> SUFFICES ASSUME NEW n \in Tracked(driver), NEW p \in Callers, n \in call[p].writes, n \notin spoilt'[p]
               PROVE  IF n \in DOMAIN call[p].sets THEN Coming(p, n, call[p].sets[n])'
                      ELSE n \notin doubtful => reg[n] = asked[n]
    BY <2>1 DEF FieldInv
  <2>2. p # c /\ at'[p] = at[p] /\ n \notin spoilt[p]
    BY <2>1
  <2>3. IF n \in DOMAIN call[p].sets THEN Coming(p, n, call[p].sets[n])
        ELSE n \notin doubtful => reg[n] = asked[n]
    BY <2>2 DEF FieldInv
  <2>4. Coming(p, n, call[p].sets[n]) => Coming(p, n, call[p].sets[n])'
    BY <2>1, <2>2 DEF Coming
  <2> QED BY <2>3, <2>4
<1>5. CASE Return(c)
  <2>1. /\ at[c] = Len(call[c].code) + 1 /\ Sound(call[c], driver, streams)
        /\ call'[c] = NoCall /\ UNCHANGED <<driver, reg>>
        /\ \A o \in Callers \ {c} : call'[o] = call[o] /\ at'[o] = at[o] /\ spoilt'[o] = spoilt[o]
        /\ \A n \in Fields : asked'[n] = IF n \in DOMAIN call[c].sets THEN call[c].sets[n] ELSE asked[n]
        /\ doubtful' = (doubtful \ DOMAIN call[c].sets) \cup spoilt[c]
    BY <1>5, ReturnStep
  <2>2. DOMAIN call[c].sets \subseteq call[c].writes
    BY <2>1 DEF Sound, Shaped
  <2> SUFFICES ASSUME NEW n \in Tracked(driver)
               PROVE  /\ n \notin doubtful' /\ (\A p \in Callers : n \notin call'[p].writes) => reg[n] = asked'[n]
                      /\ \A p \in Callers : n \in call'[p].writes /\ n \notin spoilt'[p] =>
                             IF n \in DOMAIN call'[p].sets THEN Coming(p, n, call[p].sets[n])'
                             ELSE n \notin doubtful' => reg[n] = asked'[n]
    BY <2>1 DEF FieldInv
  <2>3. asked'[n] = IF n \in DOMAIN call[c].sets THEN call[c].sets[n] ELSE asked[n]
    BY <1>2, <2>1
  <2>4. ASSUME n \notin doubtful', \A p \in Callers : n \notin call'[p].writes
        PROVE  reg[n] = asked'[n]
    <3>1. n \notin spoilt[c] /\ (n \notin DOMAIN call[c].sets => n \notin doubtful)
      BY <2>1, <2>4
    <3>2. CASE n \in DOMAIN call[c].sets
      <4>1. Coming(c, n, call[c].sets[n])
        BY <2>2, <3>1, <3>2 DEF FieldInv
      <4> QED BY <2>1, <2>3, <3>2, <4>1, ComingIs
    <3>3. CASE n \notin DOMAIN call[c].sets /\ n \in call[c].writes
      BY <2>3, <3>1, <3>3 DEF FieldInv
    <3>4. CASE n \notin DOMAIN call[c].sets /\ n \notin call[c].writes
      <4>1. \A p \in Callers : n \notin call[p].writes
        BY <2>1, <2>4, <3>4
      <4> QED BY <2>3, <3>1, <3>4, <4>1 DEF FieldInv
    <3> QED BY <3>2, <3>3, <3>4
  <2>5. ASSUME NEW p \in Callers, n \in call'[p].writes, n \notin spoilt'[p]
        PROVE  IF n \in DOMAIN call'[p].sets THEN Coming(p, n, call[p].sets[n])'
               ELSE n \notin doubtful' => reg[n] = asked'[n]
    <3>1. p # c
      BY <2>1, <2>5, NoCallIs
    <3>2. call'[p] = call[p] /\ at'[p] = at[p] /\ n \notin spoilt[p] /\ n \in call[p].writes
      BY <2>1, <2>5, <3>1
    <3>3. IF n \in DOMAIN call[p].sets THEN Coming(p, n, call[p].sets[n])
          ELSE n \notin doubtful => reg[n] = asked[n]
      BY <3>2 DEF FieldInv
    <3>4. n \notin call[c].writes
      BY <3>1, <3>2 DEF MeetInv
    <3>5. asked'[n] = asked[n] /\ (n \notin doubtful' => n \notin doubtful)
      BY <2>1, <2>2, <2>3, <3>4
    <3>6. Coming(p, n, call[p].sets[n]) => Coming(p, n, call[p].sets[n])'
      BY <2>1, <3>2 DEF Coming
    <3> QED BY <3>2, <3>3, <3>5, <3>6
  <2> QED BY <2>4, <2>5
<1> QED BY <1>3, <1>4, <1>5

-----------------------------------------------------------------------------
(* The group hold.                                                         *)
LEMMA HoldIsZero ==
    ASSUME RegsTypes, ZeroInv, driver # "gmax3405"
    PROVE  reg["hold"] = 0
<1>1. driver \in Kinds
  BY TypesAre
<1>2. "hold" \in Zero(driver)
  BY <1>1, ZeroIs
<1> QED BY <1>2 DEF ZeroInv

LEMMA EnterHold ==
    ASSUME RegsTypes, HoldInv, NEW c \in Callers, NEW new, Entering(c, new)
    PROVE  HoldInv'
<1>1. /\ Idle(c) /\ call'[c] = new /\ \A o \in Callers \ {c} : call'[o] = call[o] /\ at'[o] = at[o]
      /\ Clearing(new) /\ UNCHANGED <<driver, unheld>>
      /\ \A o \in Callers : call[o].name \notin Exclusive
  BY DEF Entering
<1>2. "hold" \in Fields /\ Held \subseteq Fields /\ "hold" \in Sensor /\ Held \subseteq Sensor
  BY FieldNames
<1>3. reg'["hold"] = 0 => \A n \in Held : live'[n] = reg'[n]
  BY <1>1, <1>2 DEF Clearing, HoldInv
<1>4. ASSUME reg'["hold"] # 0, ~ unheld'
      PROVE  \E o \in Callers : Releasing(o)'
  <2>1. reg' = reg
    BY <1>1, <1>2, <1>4 DEF Clearing
  <2>2. PICK o \in Callers : Releasing(o)
    BY <1>1, <1>4, <2>1 DEF HoldInv
  <2>3. o # c
    <3>1. call[c] = NoCall /\ at[c] \in Nat /\ at[c] >= 1
      BY <1>1, CallIs
    <3>2. Len(call[c].code) = 0
      BY <3>1, NoCallIs
    <3> QED BY <2>2, <3>1, <3>2 DEF Releasing
  <2>4. call'[o] = call[o] /\ at'[o] = at[o]
    BY <1>1, <2>3
  <2> QED BY <2>2, <2>4 DEF Releasing
<1>5. ASSUME NEW p \in Callers, driver = "gmax3405", call'[p].name = "init"
      PROVE  reg'["hold"] = 0 /\ \A n \in Held : reg'[n] = 0
  <2>1. p = c /\ new.name = "init"
    BY <1>1, <1>5 DEF Exclusive
  <2> QED BY <1>1, <1>2, <1>5, <2>1 DEF Clearing
<1> QED BY <1>1, <1>3, <1>4, <1>5 DEF HoldInv

LEMMA StepHold ==
    ASSUME RegsTypes, GotInv, MeetInv, ZeroInv, ZeroInv', RegsTypes', HoldInv, NEW c \in Callers,
           imx_read_reg(c) \/ imx_write_reg(c) \/ Lose(c) \/ Return(c)
    PROVE  HoldInv'
<1>1. "hold" \in Fields /\ Held \subseteq Fields /\ "hold" \notin FLIP_H \cup {"flip_v"}
  BY FieldNames
<1>2. CASE imx_read_reg(c)
  <2>1. /\ UNCHANGED <<driver, reg, live, call, unheld>> /\ at[c] \in 1 .. Len(call[c].code)
        /\ at'[c] = at[c] + 1 /\ Access1(c).op = "read"
        /\ \A o \in Callers \ {c} : at'[o] = at[o]
    BY <1>2, ReadStep
  <2>2. \A o \in Callers : Releasing(o) => Releasing(o)'
    <3> SUFFICES ASSUME NEW o \in Callers, Releasing(o)
                 PROVE  Releasing(o)'
      OBVIOUS
    <3>1. PICK i \in at[o] .. Len(call[o].code) : Writes(call[o].code[i], "hold") /\ call[o].code[i].f["hold"] = 0
      BY DEF Releasing
    <3>2. o = c => i # at[c]
      BY <2>1, <3>1 DEF Writes, Access1
    <3>3. i \in at'[o] .. Len(call[o].code)
      BY <2>1, <3>1, <3>2, CallIs
    <3> QED BY <2>1, <3>1, <3>3 DEF Releasing
  <2> QED BY <2>1, <2>2 DEF HoldInv
<1>3. CASE imx_write_reg(c)
  <2>1. /\ UNCHANGED <<driver, call>> /\ at[c] \in 1 .. Len(call[c].code)
        /\ at'[c] = at[c] + 1 /\ Access1(c).op # "read"
        /\ \A o \in Callers \ {c} : at'[o] = at[o]
        /\ live' = IF reg'["hold"] = 0 THEN [n \in Held |-> reg'[n]] ELSE live
        /\ unheld' = IF "hold" \in DOMAIN Access1(c).f THEN FALSE ELSE unheld
    BY <1>3, WriteStep
  <2>2. ~ Idle(c)
    BY <2>1, AccessIs
  <2>3. Shaped(call[c]) /\ (driver = "gmax3405" => Windowed(call[c]))
    BY <2>2, SoundIs
  <2>4. reg'["hold"] = 0 => \A n \in Held : live'[n] = reg'[n]
    BY <2>1
  <2>5. ASSUME reg'["hold"] # 0, ~ unheld'
        PROVE  \E o \in Callers : Releasing(o)'
    <3>1. driver = "gmax3405"
      <4>1. driver' # "gmax3405" => reg'["hold"] = 0
        <5>1. driver' \in Kinds
          BY DEF RegsTypes
        <5>2. driver' # "gmax3405" => "hold" \in Zero(driver')
          BY <5>1, ZeroIs
        <5> QED BY <5>2 DEF ZeroInv
      <4> QED BY <2>1, <2>5, <4>1
    <3>2. CASE Writes(Access1(c), "hold")
      <4>1. Access1(c).f["hold"] # 0
        BY <1>1, <1>3, <2>5, <3>2, WriteStep
      <4>2. PICK j \in at[c] + 1 .. Len(call[c].code) : Writes(call[c].code[j], "hold") /\ call[c].code[j].f["hold"] = 0
        BY <2>1, <2>3, <3>1, <3>2, <4>1 DEF Windowed, Access1
      <4>3. Releasing(c)'
        BY <2>1, <4>2 DEF Releasing
      <4> QED BY <4>3
    <3>3. CASE ~ Writes(Access1(c), "hold")
      <4>1. reg'["hold"] = reg["hold"]
        BY <1>1, <1>3, <3>3, WriteStep
      <4>2. ~ unheld
        BY <2>1, <2>5, <3>3 DEF Writes
      <4>3. PICK o \in Callers : Releasing(o)
        BY <2>5, <4>1, <4>2 DEF HoldInv
      <4>4. PICK i \in at[o] .. Len(call[o].code) : Writes(call[o].code[i], "hold") /\ call[o].code[i].f["hold"] = 0
        BY <4>3 DEF Releasing
      <4>5. o = c => i # at[c]
        BY <3>3, <4>4 DEF Access1
      <4>6. i \in at'[o] .. Len(call[o].code)
        BY <2>1, <4>4, <4>5, CallIs
      <4>7. Releasing(o)'
        BY <2>1, <4>4, <4>6 DEF Releasing
      <4> QED BY <4>7
    <3> QED BY <3>2, <3>3
  <2>6. ASSUME NEW p \in Callers, driver = "gmax3405", call[p].name = "init"
        PROVE  reg'["hold"] = 0 /\ \A n \in Held : reg'[n] = 0
    <3>1. p = c
      BY <2>2, <2>6 DEF MeetInv, Exclusive
    <3>2. Access1(c).op # "modify"
      BY <2>1, <2>3, <2>6, <3>1 DEF Shaped, Access1, Exclusive
    <3>3. \A n \in Held \cup {"hold"} : Only(call[c].code, n, 0)
      BY <2>3, <2>6, <3>1 DEF Windowed
    <3>4. ASSUME NEW n \in Held \cup {"hold"}
          PROVE  reg'[n] = 0
      <4>1. n \in Fields
        BY <1>1
      <4>2. CASE Writes(Access1(c), n)
        <5>1. reg'[n] = Access1(c).f[n]
          BY <1>3, <4>1, <4>2, WriteStep
        <5> QED BY <2>1, <3>3, <4>2, <5>1 DEF Only, Access1
      <4>3. CASE ~ Writes(Access1(c), n)
        <5>1. reg'[n] = reg[n]
          BY <1>3, <3>2, <4>1, <4>3, WriteStep
        <5>2. reg[n] = 0
          BY <2>6 DEF HoldInv
        <5> QED BY <5>1, <5>2
      <4> QED BY <4>2, <4>3
    <3> QED BY <3>4
  <2> QED BY <2>1, <2>4, <2>5, <2>6 DEF HoldInv
<1>4. CASE Lose(c)
  <2>1. /\ UNCHANGED <<driver, reg, live, call>> /\ at[c] \in 1 .. Len(call[c].code)
        /\ at'[c] = at[c] + 1 + Access1(c).skip /\ Access1(c).skip \in Nat
        /\ \A o \in Callers \ {c} : at'[o] = at[o]
        /\ unheld' = IF "hold" \in DOMAIN Access1(c).f THEN TRUE ELSE unheld
    BY <1>4, LoseStep
  <2>2. ~ Idle(c)
    BY <2>1, AccessIs
  <2>3. Shaped(call[c]) /\ Piped(call[c], driver, streams)
    BY <2>2, SoundIs
  <2>4. ASSUME reg["hold"] # 0, ~ unheld'
        PROVE  \E o \in Callers : Releasing(o)'
    <3>1. driver = "gmax3405"
      BY <2>4, HoldIsZero
    <3>2. ~ unheld /\ ~ Writes(Access1(c), "hold")
      BY <2>1, <2>4 DEF Writes
    <3>3. Access1(c).skip = 0
      <4>1. Access1(c).skip > 0 => call[c].name \in Exclusive
        BY <2>1, <2>3 DEF Shaped, Access1
      <4>2. call[c].name # "init"
        BY <2>4, <3>1 DEF HoldInv
      <4>3. call[c].name \notin {"start", "stop"}
        BY <2>3, <3>1 DEF Piped, Gmsl
      <4> QED BY <2>1, <4>1, <4>2, <4>3 DEF Exclusive
    <3>4. PICK o \in Callers : Releasing(o)
      BY <2>4, <3>2 DEF HoldInv
    <3>5. PICK i \in at[o] .. Len(call[o].code) : Writes(call[o].code[i], "hold") /\ call[o].code[i].f["hold"] = 0
      BY <3>4 DEF Releasing
    <3>6. o = c => i # at[c]
      BY <3>2, <3>5 DEF Access1
    <3>7. i \in at'[o] .. Len(call[o].code)
      BY <2>1, <3>3, <3>5, <3>6, CallIs
    <3>8. Releasing(o)'
      BY <2>1, <3>5, <3>7 DEF Releasing
    <3> QED BY <3>8
  <2> QED BY <2>1, <2>4 DEF HoldInv
<1>5. CASE Return(c)
  <2>1. /\ UNCHANGED <<driver, reg, live, unheld>> /\ at[c] = Len(call[c].code) + 1 /\ call'[c] = NoCall
        /\ \A o \in Callers \ {c} : call'[o] = call[o] /\ at'[o] = at[o]
    BY <1>5, ReturnStep
  <2>2. ~ Releasing(c)
    <3>1. Len(call[c].code) \in Nat
      BY CallIs
    <3> QED BY <2>1, <3>1 DEF Releasing
  <2>3. \A o \in Callers \ {c} : Releasing(o) => Releasing(o)'
    BY <2>1 DEF Releasing
  <2>4. call'[c].name # "init"
    BY <2>1, NoCallIs
  <2> QED BY <2>1, <2>2, <2>3, <2>4 DEF HoldInv
<1> QED BY <1>2, <1>3, <1>4, <1>5

-----------------------------------------------------------------------------
(* The window of the GMAX3405.                                             *)
LEMMA RoiIs ==
    ASSUME RegsTypes, driver = "gmax3405", NEW c \in Callers, call[c].name = "roi"
    PROVE  /\ ~ Idle(c) /\ Len(call[c].code) \in Nat /\ Len(call[c].code) > 1
           /\ Window \subseteq DOMAIN call[c].sets /\ Window \subseteq call[c].writes
           /\ \A m, n \in Window : call[c].sets[m] = call[c].sets[n]
           /\ "hold" \in call[c].writes /\ FLIP_H \subseteq call[c].writes
           /\ Writes(call[c].code[1], "hold") /\ call[c].code[1].f["hold"] = 1
           /\ \A n \in Window : ~ Writes(call[c].code[1], n)
           /\ Writes(call[c].code[Len(call[c].code)], "hold") /\ call[c].code[Len(call[c].code)].f["hold"] = 0
           /\ \A n \in Window : ~ Writes(call[c].code[Len(call[c].code)], n)
           /\ \A i \in 2 .. Len(call[c].code) - 1 : ~ Writes(call[c].code[i], "hold")
<1>1. ~ Idle(c)
  BY DEF Idle
<1>2. Windowed(call[c]) /\ DOMAIN call[c].sets \subseteq call[c].writes
  BY <1>1, SoundIs
<1>3. Len(call[c].code) \in Nat
  BY CallIs
<1> QED BY <1>1, <1>2, <1>3 DEF Windowed

(* Everyone who overlaps a new window knows of it. *)
LEMMA RoiIsMet ==
    ASSUME RegsTypes, MeetInv, driver = "gmax3405", NEW p \in Callers, call[p].name = "roi",
           NEW c \in Callers, c # p, ~ Idle(c)
    PROVE  spoilt[p] # {}
<1>1. "hold" \in call[p].writes /\ FLIP_H \subseteq call[p].writes
  BY RoiIs
<1>2. Windowed(call[c])
  BY SoundIs
<1>3. "hold" \in call[c].writes \/ FLIP_H \subseteq call[c].writes
  BY <1>2 DEF Windowed
<1>4. "test" \in FLIP_H
  BY DEF FLIP_H
<1> QED BY <1>1, <1>3, <1>4 DEF MeetInv

LEMMA WindowIs ==
    /\ Window \subseteq Held /\ Window \subseteq Fields /\ Window \cap (FLIP_H \cup {"flip_v"}) = {} /\ Window # {}
    /\ driver = "gmax3405" => Window \subseteq Tracked(driver)
<1>1. "gmax3405" \in Kinds
  BY DEF Kinds, Parallel
<1>2. Held \subseteq Tracked("gmax3405")
  BY <1>1, ZeroIs
<1>3. Window # {}
  BY DEF Window
<1> QED BY <1>2, <1>3, FieldNames

(* What a call that is over leaves of the window. *)
LEMMA WindowLeft ==
    ASSUME RegsTypes, FieldInv, driver = "gmax3405", NEW c \in Callers, at[c] = Len(call[c].code) + 1,
           NEW n \in Window, n \in DOMAIN call[c].sets, n \notin spoilt[c], ~ Idle(c)
    PROVE  reg[n] = call[c].sets[n]
<1>1. n \in Tracked(driver) /\ n \in call[c].writes
  BY WindowIs, SoundIs
<1>2. Coming(c, n, call[c].sets[n])
  BY <1>1 DEF FieldInv
<1> QED BY <1>2, ComingIs

LEMMA EnterWindow ==
    ASSUME RegsTypes, MeetInv, WindowInv, NEW c \in Callers, NEW new, Entering(c, new)
    PROVE  WindowInv'
<1>1. /\ Idle(c) /\ Sound(new, driver, streams) /\ call'[c] = new /\ at'[c] = 1
      /\ \A o \in Callers \ {c} : call'[o] = call[o] /\ at'[o] = at[o]
      /\ \A o \in Callers \ {c} : spoilt'[o] = spoilt[o] \cup (new.writes \cap call[o].writes)
      /\ \A n \in Fields : n \in spoilt'[c] <=> n \in new.writes /\ \E o \in Callers \ {c} : n \in call[o].writes
      /\ UNCHANGED <<driver, asked, doubtful>> /\ Clearing(new)
      /\ new.name \in Exclusive => \A o \in Callers \ {c} : Idle(o)
  BY DEF Entering
<1> SUFFICES ASSUME driver = "gmax3405"
             PROVE  WindowInv'
  BY <1>1 DEF WindowInv
<1>2. Windowed(new) /\ DOMAIN new.sets \subseteq new.writes /\ Len(new.code) \in Nat
  BY <1>1 DEF Sound, Shaped, CallsOf
<1>3. call[c].writes = {}
  BY <1>1, CallIs
<1>4. new.name = "init" \/ UNCHANGED <<reg, live>>
  BY <1>1 DEF Clearing
<1>5. \A m, n \in Window : asked'[m] = asked'[n]
  BY <1>1 DEF WindowInv
<1>6. \A n \in Window : n \notin doubtful /\ (\A o \in Callers \ {c} : n \notin call[o].writes) => live[n] = asked[n]
  BY <1>3 DEF WindowInv
<1>7. ASSUME NEW n \in Window, n \notin doubtful', \A o \in Callers : n \notin call'[o].writes
      PROVE  live'[n] = asked'[n]
  <2>1. n \notin new.writes /\ \A o \in Callers \ {c} : n \notin call[o].writes
    BY <1>1, <1>7
  <2>2. new.name # "init"
    BY <1>2, <2>1 DEF Windowed
  <2> QED BY <1>1, <1>4, <1>6, <1>7, <2>1, <2>2
<1>8. ASSUME NEW p \in Callers, call'[p].name = "roi"
      PROVE  /\ spoilt'[p] = {} /\ at'[p] <= Len(call'[p].code) =>
                    /\ at'[p] > 1 => reg'["hold"] = 1
                    /\ \A n \in Window : n \notin doubtful' => live'[n] = asked'[n]
             /\ at'[p] > Len(call'[p].code) =>
                    \A n \in Window : n \notin spoilt'[p] => live'[n] = call'[p].sets[n]
  <2>1. CASE p = c
    <3>1. new.name = "roi" /\ Window \subseteq new.writes /\ Len(new.code) > 1
      BY <1>1, <1>2, <1>8, <2>1 DEF Windowed
    <3>2. ASSUME spoilt'[c] = {}, NEW n \in Window, n \notin doubtful
          PROVE  live'[n] = asked[n]
      <4>1. \A o \in Callers \ {c} : n \notin call[o].writes
        BY <1>1, <3>1, <3>2, WindowIs
      <4> QED BY <1>4, <1>6, <3>1, <3>2, <4>1
    <3> QED BY <1>1, <1>2, <2>1, <3>1, <3>2
  <2>2. CASE p # c
    <3>1. call'[p] = call[p] /\ at'[p] = at[p] /\ spoilt[p] \subseteq spoilt'[p] /\ call[p].name = "roi"
      BY <1>1, <1>8, <2>2
    <3>2. ~ Idle(p)
      BY <3>1, RoiIs
    <3>3. UNCHANGED <<reg, live>>
      BY <1>1, <1>4, <2>2, <3>2 DEF Exclusive
    <3>4. /\ spoilt[p] = {} /\ at[p] <= Len(call[p].code) =>
                 /\ at[p] > 1 => reg["hold"] = 1
                 /\ \A n \in Window : n \notin doubtful => live[n] = asked[n]
          /\ at[p] > Len(call[p].code) => \A n \in Window : n \notin spoilt[p] => live[n] = call[p].sets[n]
      BY <3>1 DEF WindowInv
    <3>5. spoilt'[p] = {} => spoilt[p] = {}
      BY <3>1
    <3> QED BY <1>1, <3>1, <3>3, <3>4, <3>5
  <2> QED BY <2>1, <2>2
<1> QED BY <1>5, <1>7, <1>8 DEF WindowInv

LEMMA WriteWindow ==
    ASSUME RegsTypes, GotInv, MeetInv, FieldInv, FieldInv', RegsTypes', WindowInv, NEW c \in Callers, imx_write_reg(c),
           driver = "gmax3405"
    PROVE  WindowInv'
<1>1. /\ at[c] \in 1 .. Len(call[c].code) /\ at' \in [Callers -> Nat]
      /\ at'[c] = at[c] + 1 /\ \A o \in Callers \ {c} : at'[o] = at[o]
      /\ UNCHANGED <<driver, call, spoilt, asked, doubtful>>
      /\ live' = IF reg'["hold"] = 0 THEN [n \in Held |-> reg'[n]] ELSE live
  BY WriteStep
<1>2. ~ Idle(c) /\ Len(call[c].code) \in Nat /\ at[c] \in Nat
  BY <1>1, AccessIs, CallIs
<1>3. "hold" \in Fields /\ "hold" \notin FLIP_H \cup {"flip_v"}
  BY FieldNames
<1>4. \A n \in Window : live'[n] = IF reg'["hold"] = 0 THEN reg'[n] ELSE live[n]
  BY <1>1, WindowIs
<1>5. ASSUME NEW n \in Window, n \notin doubtful, \A p \in Callers : n \notin call[p].writes
      PROVE  live'[n] = asked[n]
  <2>1. reg'[n] = reg[n]
    BY <1>5, WriteStep, WindowIs
  <2>2. reg[n] = asked[n]
    BY <1>5, WindowIs DEF FieldInv
  <2>3. live[n] = asked[n]
    BY <1>5 DEF WindowInv
  <2> QED BY <1>4, <2>1, <2>2, <2>3
<1>6. ASSUME NEW p \in Callers, call[p].name = "roi"
      PROVE  /\ spoilt[p] = {} /\ at'[p] <= Len(call[p].code) =>
                    /\ at'[p] > 1 => reg'["hold"] = 1
                    /\ \A n \in Window : n \notin doubtful => live'[n] = asked[n]
             /\ at'[p] > Len(call[p].code) =>
                    \A n \in Window : n \notin spoilt[p] => live'[n] = call[p].sets[n]
  <2>1. CASE p # c
    <3>1. spoilt[p] # {} /\ at'[p] = at[p]
      BY <1>1, <1>2, <1>6, <2>1, RoiIsMet
    <3>2. ASSUME at[p] > Len(call[p].code), NEW n \in Window, n \notin spoilt[p]
          PROVE  live'[n] = call[p].sets[n]
      <4>1. n \in DOMAIN call[p].sets /\ n \in call[p].writes /\ ~ Idle(p) /\ Len(call[p].code) \in Nat
        BY <1>6, RoiIs
      <4>2. n \notin call[c].writes
        BY <2>1, <3>2, <4>1 DEF MeetInv
      <4>3. reg'[n] = reg[n]
        BY <4>2, WriteStep, WindowIs
      <4>4. at[p] = Len(call[p].code) + 1
        BY <3>2, <4>1, CallIs
      <4>5. reg[n] = call[p].sets[n]
        BY <3>2, <4>1, <4>4, WindowLeft
      <4>6. live[n] = call[p].sets[n]
        BY <1>6, <3>2 DEF WindowInv
      <4> QED BY <1>4, <4>3, <4>5, <4>6
    <3> QED BY <3>1, <3>2
  <2>2. CASE p = c
    <3>1. /\ Len(call[c].code) > 1 /\ Window \subseteq DOMAIN call[c].sets
          /\ Writes(call[c].code[1], "hold") /\ call[c].code[1].f["hold"] = 1
          /\ Writes(call[c].code[Len(call[c].code)], "hold") /\ call[c].code[Len(call[c].code)].f["hold"] = 0
          /\ \A i \in 2 .. Len(call[c].code) - 1 : ~ Writes(call[c].code[i], "hold")
      BY <1>6, <2>2, RoiIs
    <3>2. ASSUME spoilt[c] = {}, at'[c] <= Len(call[c].code)
          PROVE  reg'["hold"] = 1 /\ \A n \in Window : n \notin doubtful => live'[n] = asked[n]
      <4>1. /\ at[c] > 1 => reg["hold"] = 1
            /\ \A n \in Window : n \notin doubtful => live[n] = asked[n]
        <5>1. at[c] <= Len(call[c].code)
          BY <1>1
        <5> QED BY <1>6, <2>2, <3>2, <5>1 DEF WindowInv
      <4>2. reg'["hold"] = 1
        <5>1. CASE at[c] = 1
          <6>1. Writes(Access1(c), "hold") /\ Access1(c).f["hold"] = 1
            BY <3>1, <5>1 DEF Access1
          <6> QED BY <1>3, <6>1, WriteStep
        <5>2. CASE at[c] # 1
          <6>1. at[c] \in 2 .. Len(call[c].code) - 1 /\ at[c] > 1
            BY <1>1, <1>2, <3>2, <5>2
          <6>2. ~ Writes(Access1(c), "hold")
            BY <3>1, <6>1 DEF Access1
          <6> QED BY <1>3, <4>1, <6>1, <6>2, WriteStep
        <5> QED BY <5>1, <5>2
      <4> QED BY <1>4, <4>1, <4>2
    <3>3. ASSUME at'[c] > Len(call[c].code), NEW n \in Window, n \notin spoilt[c]
          PROVE  live'[n] = call[c].sets[n]
      <4>1. at[c] = Len(call[c].code) /\ at'[c] = Len(call'[c].code) + 1
        BY <1>1, <1>2, <3>3
      <4>2. Writes(Access1(c), "hold") /\ Access1(c).f["hold"] = 0
        BY <3>1, <4>1 DEF Access1
      <4>3. reg'["hold"] = 0
        BY <1>3, <4>2, WriteStep
      <4>4. n \in call[c].writes /\ n \in DOMAIN call[c].sets
        BY <1>6, <2>2, RoiIs
      <4>5. Coming(c, n, call[c].sets[n])'
        <5>1. n \in Tracked(driver)'
          BY <1>1, WindowIs
        <5> QED BY <1>1, <3>3, <4>4, <5>1 DEF FieldInv
      <4>6. reg'[n] = call'[c].sets[n]
        <5>1. PICK i \in 1 .. Len(call'[c].code) : i < at'[c] => reg'[n] = call'[c].sets[n]
          BY <4>5 DEF Coming
        <5> QED BY <1>1, <1>2, <4>1, <5>1
      <4> QED BY <1>1, <1>4, <4>3, <4>6
    <3> QED BY <2>2, <3>2, <3>3
  <2> QED BY <2>1, <2>2
<1>7. \A m, n \in Window : asked[m] = asked[n]
  BY DEF WindowInv
<1>8. \A m, n \in Window : asked'[m] = asked'[n]
  BY <1>1, <1>7
<1>9. \A n \in Window : n \notin doubtful' /\ (\A p \in Callers : n \notin call'[p].writes) => live'[n] = asked'[n]
  BY <1>1, <1>5
<1>10. \A p \in Callers : call'[p].name = "roi" =>
           /\ spoilt'[p] = {} /\ at'[p] <= Len(call'[p].code) =>
                  /\ at'[p] > 1 => reg'["hold"] = 1
                  /\ \A n \in Window : n \notin doubtful' => live'[n] = asked'[n]
           /\ at'[p] > Len(call'[p].code) =>
                  \A n \in Window : n \notin spoilt'[p] => live'[n] = call'[p].sets[n]
  <2>1. call' = call /\ spoilt' = spoilt /\ asked' = asked /\ doubtful' = doubtful
    BY <1>1
  <2> QED BY <1>6, <2>1
<1> QED BY <1>8, <1>9, <1>10 DEF WindowInv

LEMMA ReturnWindow ==
    ASSUME RegsTypes, MeetInv, FieldInv, HoldInv, WindowInv, NEW c \in Callers, Return(c), driver = "gmax3405"
    PROVE  WindowInv'
<1>1. /\ at[c] = Len(call[c].code) + 1 /\ Sound(call[c], driver, streams)
      /\ call'[c] = NoCall /\ UNCHANGED <<driver, reg, live>>
      /\ \A o \in Callers \ {c} : call'[o] = call[o] /\ at'[o] = at[o] /\ spoilt'[o] = spoilt[o]
      /\ \A n \in Fields : asked'[n] = IF n \in DOMAIN call[c].sets THEN call[c].sets[n] ELSE asked[n]
      /\ doubtful' = (doubtful \ DOMAIN call[c].sets) \cup spoilt[c]
  BY ReturnStep
<1>2. /\ Windowed(call[c]) /\ DOMAIN call[c].sets \subseteq call[c].writes /\ ~ Idle(c)
      /\ Len(call[c].code) \in Nat
  BY <1>1, CallIs DEF Return, Sound, Shaped
<1>3. \A n \in Window : asked'[n] = IF n \in DOMAIN call[c].sets THEN call[c].sets[n] ELSE asked[n]
  BY <1>1, WindowIs
<1>4. CASE call[c].name \in {"init", "roi"}
  <2>1. Window \subseteq DOMAIN call[c].sets /\ \A m, n \in Window : call[c].sets[m] = call[c].sets[n]
    BY <1>2, <1>4 DEF Windowed
  <2>2. \A m, n \in Window : asked'[m] = asked'[n]
    BY <1>3, <2>1
  <2>3. ASSUME NEW n \in Window, n \notin doubtful'
        PROVE  live[n] = asked'[n]
    <3>1. n \notin spoilt[c] /\ n \in DOMAIN call[c].sets
      BY <1>1, <2>1, <2>3
    <3>2. reg[n] = call[c].sets[n]
      BY <1>1, <1>2, <3>1, WindowLeft
    <3>3. live[n] = call[c].sets[n]
      <4>1. CASE call[c].name = "init"
        <5>1. live[n] = reg[n]
          BY <4>1, WindowIs DEF HoldInv
        <5> QED BY <3>2, <5>1
      <4>2. CASE call[c].name = "roi"
        <5>1. at[c] > Len(call[c].code)
          BY <1>1, <1>2
        <5> QED BY <3>1, <4>2, <5>1 DEF WindowInv
      <4> QED BY <1>4, <4>1, <4>2
    <3> QED BY <1>3, <3>1, <3>3
  <2>4. ASSUME NEW p \in Callers, call'[p].name = "roi"
        PROVE  p # c /\ call[p].name = "roi" /\ spoilt[p] # {}
    <3>1. p # c
      BY <1>1, <2>4, NoCallIs
    <3> QED BY <1>1, <1>2, <2>4, <3>1, RoiIsMet
  <2> QED BY <1>1, <2>2, <2>3, <2>4 DEF WindowInv
<1>5. CASE call[c].name \notin {"init", "roi"}
  <2>1. \A n \in Window : n \notin call[c].writes /\ n \notin DOMAIN call[c].sets
    BY <1>2, <1>5 DEF Windowed
  <2>2. \A n \in Window : asked'[n] = asked[n] /\ (n \notin doubtful' => n \notin doubtful)
    BY <1>1, <1>3, <2>1
  <2>3. ASSUME NEW n \in Window, n \notin doubtful', \A p \in Callers : n \notin call'[p].writes
        PROVE  live[n] = asked'[n]
    <3>1. \A p \in Callers : n \notin call[p].writes
      BY <1>1, <2>1, <2>3
    <3> QED BY <2>2, <2>3, <3>1 DEF WindowInv
  <2>4. ASSUME NEW p \in Callers, call'[p].name = "roi"
        PROVE  p # c /\ call[p].name = "roi" /\ spoilt[p] # {}
    <3>1. p # c
      BY <1>1, <2>4, NoCallIs
    <3> QED BY <1>1, <1>2, <2>4, <3>1, RoiIsMet
  <2>5. \A m, n \in Window : asked'[m] = asked'[n]
    BY <2>2 DEF WindowInv
  <2> QED BY <1>1, <2>3, <2>4, <2>5 DEF WindowInv
<1> QED BY <1>4, <1>5

LEMMA StepWindow ==
    ASSUME RegsTypes, GotInv, MeetInv, FieldInv, FieldInv', RegsTypes', HoldInv, WindowInv, NEW c \in Callers,
           imx_read_reg(c) \/ imx_write_reg(c) \/ Lose(c) \/ Return(c)
    PROVE  WindowInv'
<1>1. driver' = driver
  BY ReadStep, WriteStep, LoseStep, ReturnStep
<1> SUFFICES ASSUME driver = "gmax3405"
             PROVE  WindowInv'
  BY <1>1 DEF WindowInv
<1>2. CASE imx_read_reg(c)
  <2>1. /\ UNCHANGED <<driver, reg, live, call, spoilt, asked, doubtful>> /\ at[c] \in 1 .. Len(call[c].code)
        /\ at'[c] = at[c] + 1 /\ Access1(c).op = "read"
        /\ \A o \in Callers \ {c} : at'[o] = at[o]
    BY <1>2, ReadStep
  <2>2. Len(call[c].code) \in Nat /\ at[c] \in Nat
    BY CallIs
  <2>3. ASSUME call[c].name = "roi"
        PROVE  at[c] > 1 /\ at[c] < Len(call[c].code)
    <3>1. Writes(call[c].code[1], "hold") /\ Writes(call[c].code[Len(call[c].code)], "hold")
      BY <2>3, RoiIs
    <3>2. at[c] # 1 /\ at[c] # Len(call[c].code)
      BY <2>1, <3>1 DEF Writes, Access1
    <3> QED BY <2>1, <2>2, <3>2
  <2>4. ASSUME NEW p \in Callers, call[p].name = "roi"
        PROVE  /\ at'[p] <= Len(call[p].code) <=> at[p] <= Len(call[p].code)
               /\ at'[p] > Len(call[p].code) <=> at[p] > Len(call[p].code)
               /\ at'[p] > 1 <=> at[p] > 1
    BY <2>1, <2>2, <2>3, <2>4
  <2> QED BY <2>1, <2>4 DEF WindowInv
<1>3. CASE Lose(c)
  <2>1. /\ UNCHANGED <<driver, reg, live, call, asked, doubtful>>
        /\ spoilt'[c] = spoilt[c] \cup call[c].writes
        /\ \A o \in Callers \ {c} : at'[o] = at[o] /\ spoilt'[o] = spoilt[o]
    BY <1>3, LoseStep
  <2>2. call[c].name = "roi" => Window \subseteq spoilt'[c] /\ spoilt'[c] # {}
    BY <2>1, RoiIs, WindowIs
  <2> QED BY <2>1, <2>2 DEF WindowInv
<1> QED BY <1>2, <1>3, WriteWindow, ReturnWindow

-----------------------------------------------------------------------------
(* The path of the pixels.                                                 *)
LEMMA NeedsHere ==
    ASSUME RegsTypes
    PROVE  /\ Made(driver) \subseteq Needs(driver) /\ Needs(driver) \subseteq Fields
           /\ driver \notin Gmsl => Made(driver) = Needs(driver)
           /\ Needs(driver) \cap (FLIP_H \cup {"flip_v"}) = {}
           /\ "stream" \in Fields /\ "stream" \in Sensor /\ "stream" \notin FLIP_H \cup {"flip_v"}
           /\ "stream" \in Tracked(driver)
<1>1. driver \in Kinds
  BY TypesAre
<1> QED BY <1>1, NeedsAre, ZeroIs, FieldNames

(* Only a probe or a stream_set touches what the path needs. *)
LEMMA SettingsSpare ==
    ASSUME RegsTypes, NEW c \in Callers, call[c].name \notin Exclusive
    PROVE  call[c].writes \cap (Needs(driver) \cup {"stream"}) = {}
<1>1. CASE Idle(c)
  BY <1>1, CallIs
<1>2. CASE ~ Idle(c)
  BY <1>2, SoundIs DEF Piped
<1> QED BY <1>1, <1>2

LEMMA EnterPath ==
    ASSUME RegsTypes, MeetInv, FieldInv, PathInv, NEW c \in Callers, NEW new, Entering(c, new)
    PROVE  PathInv'
<1>1. /\ Idle(c) /\ Sound(new, driver, streams) /\ call'[c] = new /\ at'[c] = 1
      /\ \A o \in Callers \ {c} : call'[o] = call[o] /\ at'[o] = at[o]
      /\ \A o \in Callers \ {c} : spoilt'[o] = spoilt[o] \cup (new.writes \cap call[o].writes)
      /\ \A n \in Fields : n \in spoilt'[c] <=> n \in new.writes /\ \E o \in Callers \ {c} : n \in call[o].writes
      /\ UNCHANGED <<driver, streams, asked, doubtful, lost>> /\ Clearing(new)
      /\ new.name \in Exclusive => \A o \in Callers \ {c} : Idle(o)
      /\ \A o \in Callers : call[o].name \notin Exclusive
      /\ inits' \in Nat \ {0} /\ (new.name # "init" => UNCHANGED inits)
      /\ new.name = "start" \/ (new.name = "init" /\ driver \in Gmsl) => asked["stream"] = 0
  BY DEF Entering
<1> SUFFICES ASSUME lost = 0
             PROVE  PathInv'
  BY <1>1 DEF PathInv
<1>2. Piped(new, driver, streams) /\ new.name \in Exclusive \cup Settings /\ DOMAIN new.sets \subseteq new.writes
  BY <1>1 DEF Sound, Shaped
<1>3. \A o \in Callers : "stream" \notin call[o].writes
  BY <1>1, SettingsSpare
<1>4. "stream" \notin doubtful /\ \A o \in Callers : "stream" \notin spoilt[o]
  BY DEF PathInv
<1>5. \A o \in Callers : "stream" \notin spoilt'[o]
  <2>1. "stream" \notin spoilt'[c]
    BY <1>1, <1>3, NeedsHere
  <2> QED BY <1>1, <1>3, <1>4, <2>1
<1>6. new.name = "start" \/ (new.name = "init" /\ driver \in Gmsl) => reg["stream"] = 0
  BY <1>1, <1>3, <1>4, NeedsHere DEF FieldInv
<1>7. reg'["stream"] = 0 \/ reg' = reg
  BY <1>1, NeedsHere DEF Clearing
<1>8. new.name # "init" => reg' = reg
  BY <1>1 DEF Clearing
<1>9. \A p \in Callers : call'[p].name \in Exclusive => p = c
  BY <1>1
<1>10. inits' = 0 => AllIdle'
  BY <1>1
<1>11. ASSUME \A p \in Callers : call'[p].name # "init"
       PROVE  \A n \in Made(driver) : reg'[n] = 1
  <2>1. new.name # "init" /\ \A p \in Callers : call[p].name # "init"
    BY <1>1, <1>11 DEF Exclusive
  <2>2. inits > 0 /\ reg' = reg
    <3>1. inits \in Nat
      BY TypesAre
    <3> QED BY <1>1, <1>8, <2>1, <3>1
  <2> QED BY <2>1, <2>2 DEF PathInv
<1>12. ASSUME NEW n \in Fields, Leaves(new.code, n, 1)
       PROVE  Coming(c, n, 1)'
  <2>1. PICK i \in 1 .. Len(new.code) : Final(new.code, i, n, 1)
    BY <1>12 DEF Leaves
  <2>2. ~ (i < at'[c])
    BY <1>1
  <2> QED BY <1>1, <2>1, <2>2 DEF Coming
<1>13. ASSUME NEW p \in Callers, call'[p].name = "init"
       PROVE  /\ driver \in Gmsl => reg'["stream"] = 0
              /\ \A n \in Made(driver) : Coming(p, n, 1)'
  <2>1. p = c /\ new.name = "init"
    BY <1>1, <1>9, <1>13 DEF Exclusive
  <2>2. driver \in Gmsl => reg'["stream"] = 0
    BY <1>6, <1>7, <2>1
  <2>3. \A n \in Made(driver) : Leaves(new.code, n, 1)
    BY <1>2, <2>1 DEF Piped
  <2> QED BY <1>12, <2>1, <2>2, <2>3, NeedsHere
<1>14. ASSUME driver \in Gmsl => streams[Len(streams)] = "pixel"
       PROVE  /\ (\A p \in Callers : call'[p].name \notin Exclusive) /\ reg'["stream"] = 1 => Open'
              /\ \A p \in Callers : call'[p].name = "start" => \A n \in Needs(driver) \ Made(driver) : Coming(p, n, 1)'
              /\ \A p \in Callers : call'[p].name \in {"init", "start"} /\ reg'["stream"] = 1 =>
                     Open' /\ (Rest(p)' \/ (call'[p].name = "init" /\ at'[p] = 1))
  <2>1. reg["stream"] = 1 => Open
    BY <1>1, <1>14 DEF PathInv
  <2>2. reg'["stream"] = 1 => Open' /\ reg' = reg
    <3> SUFFICES ASSUME reg'["stream"] = 1 PROVE Open' /\ reg' = reg
      OBVIOUS
    <3>1. reg' = reg
      BY <1>7
    <3> QED BY <1>1, <2>1, <3>1 DEF Open
  <2>3. ASSUME NEW p \in Callers, call'[p].name = "start"
        PROVE  \A n \in Needs(driver) \ Made(driver) : Coming(p, n, 1)'
    <3>1. p = c /\ new.name = "start"
      BY <1>1, <1>9, <2>3 DEF Exclusive
    <3>2. streams[Len(streams)] = "pixel"
      BY <1>2, <1>14, <3>1 DEF Piped
    <3>3. \A n \in Needs(driver) \ Made(driver) : Leaves(new.code, n, 1)
      BY <1>2, <3>1, <3>2 DEF Piped
    <3> QED BY <1>12, <3>1, <3>3, NeedsHere
  <2>4. ASSUME NEW p \in Callers, call'[p].name \in {"init", "start"}, reg'["stream"] = 1
        PROVE  call'[p].name = "init" /\ at'[p] = 1
    <3>1. p = c
      BY <1>9, <2>4 DEF Exclusive
    <3> QED BY <1>1, <1>6, <2>2, <2>4, <3>1
  <2> QED BY <2>2, <2>3, <2>4
<1>15. "stream" \notin doubtful' /\ driver' = driver /\ streams' = streams
  BY <1>1, <1>4
<1> QED BY <1>5, <1>10, <1>11, <1>13, <1>14, <1>15 DEF PathInv

LEMMA WritePath ==
    ASSUME RegsTypes, GotInv, MeetInv, PathInv, NEW c \in Callers, imx_write_reg(c)
    PROVE  PathInv'
<1>1. /\ at[c] \in 1 .. Len(call[c].code) /\ at'[c] = at[c] + 1 /\ \A o \in Callers \ {c} : at'[o] = at[o]
      /\ UNCHANGED <<driver, streams, call, spoilt, doubtful, lost, inits>>
  BY WriteStep
<1> SUFFICES ASSUME lost = 0
             PROVE  PathInv'
  BY <1>1 DEF PathInv
<1>2. ~ Idle(c) /\ Len(call[c].code) \in Nat /\ at[c] \in Nat
  BY <1>1, AccessIs, CallIs
<1>3. Shaped(call[c]) /\ Piped(call[c], driver, streams)
  BY <1>2, SoundIs
<1>4. \A p \in Callers : call[p].name \in Exclusive => p = c
  BY <1>2 DEF MeetInv
<1>5. \A n \in Fields : Writes(Access1(c), n) => reg'[n] = Access1(c).f[n]
  BY WriteStep
<1>6. \A n \in Needs(driver) \cup {"stream"} : ~ Writes(Access1(c), n) => reg'[n] = reg[n]
  BY WriteStep, NeedsHere
<1>7. call[c].name \notin Exclusive => \A n \in Needs(driver) \cup {"stream"} : reg'[n] = reg[n]
  BY SettingsSpare, WriteStep, NeedsHere
<1>8. inits' = 0 => AllIdle'
  BY <1>1 DEF PathInv, AllIdle, Idle
<1>9. inits > 0
  <2>1. inits # 0
    BY <1>2 DEF PathInv, AllIdle
  <2>2. inits \in Nat
    BY TypesAre
  <2> QED BY <2>1, <2>2
<1>10. ASSUME \A p \in Callers : call[p].name # "init"
       PROVE  \A n \in Made(driver) : reg'[n] = 1
  <2>1. \A n \in Made(driver) : reg[n] = 1
    BY <1>9, <1>10 DEF PathInv
  <2>2. CASE call[c].name \in {"start", "stop"}
    <3>1. \A n \in Made(driver) : ~ Writes(Access1(c), n)
      BY <1>1, <1>3, <2>2 DEF Piped, Never, Access1
    <3> QED BY <1>6, <2>1, <3>1, NeedsHere
  <2>3. CASE call[c].name \notin Exclusive
    BY <1>7, <2>1, <2>3, NeedsHere
  <2> QED BY <1>10, <2>2, <2>3 DEF Exclusive
<1>11. ASSUME NEW n \in Needs(driver), Coming(c, n, 1)
       PROVE  Coming(c, n, 1)'
  BY <1>11, ComingStep, NeedsHere
<1>12. ASSUME NEW p \in Callers, call[p].name = "init"
       PROVE  /\ driver \in Gmsl => reg'["stream"] = 0
              /\ \A n \in Made(driver) : Coming(p, n, 1)'
  <2>1. p = c
    BY <1>4, <1>12 DEF Exclusive
  <2>2. ASSUME driver \in Gmsl
        PROVE  reg'["stream"] = 0
    <3>1. reg["stream"] = 0
      BY <1>12, <2>2 DEF PathInv
    <3>2. Only(call[c].code, "stream", 0)
      BY <1>3, <1>12, <2>1, <2>2 DEF Piped
    <3>3. Writes(Access1(c), "stream") => Access1(c).f["stream"] = 0
      BY <1>1, <3>2 DEF Only, Access1
    <3> QED BY <1>5, <1>6, <3>1, <3>3, NeedsHere
  <2>3. \A n \in Made(driver) : Coming(c, n, 1)
    BY <1>12, <2>1 DEF PathInv
  <2> QED BY <1>11, <2>1, <2>2, <2>3, NeedsHere
<1>13. ASSUME driver \in Gmsl => streams[Len(streams)] = "pixel"
       PROVE  /\ (\A p \in Callers : call[p].name \notin Exclusive) /\ reg'["stream"] = 1 => Open'
              /\ \A p \in Callers : call[p].name = "start" => \A n \in Needs(driver) \ Made(driver) : Coming(p, n, 1)'
              /\ \A p \in Callers : call[p].name \in {"init", "start"} /\ reg'["stream"] = 1 =>
                     Open' /\ (Rest(p)' \/ (call[p].name = "init" /\ at'[p] = 1))
  <2>1. ASSUME \A p \in Callers : call[p].name \notin Exclusive, reg'["stream"] = 1
        PROVE  Open'
    <3>1. reg["stream"] = 1 => Open
      BY <1>13, <2>1 DEF PathInv
    <3> QED BY <1>1, <1>7, <2>1, <3>1 DEF Open
  <2>2. ASSUME NEW p \in Callers, call[p].name = "start"
        PROVE  \A n \in Needs(driver) \ Made(driver) : Coming(p, n, 1)'
    <3>1. p = c
      BY <1>4, <2>2 DEF Exclusive
    <3>2. \A n \in Needs(driver) \ Made(driver) : Coming(c, n, 1)
      BY <1>13, <2>2, <3>1 DEF PathInv
    <3> QED BY <1>11, <3>1, <3>2
  <2>3. ASSUME NEW p \in Callers, call[p].name \in {"init", "start"}, reg'["stream"] = 1
        PROVE  Open' /\ Rest(p)'
    <3>1. p = c
      BY <1>4, <2>3 DEF Exclusive
    <3>2. CASE Writes(Access1(c), "stream")
      <4>1. Access1(c).f["stream"] = 1
        BY <1>5, <2>3, <3>2, NeedsHere
      <4>2. \A j \in at[c] + 1 .. Len(call[c].code), n \in Needs(driver) : ~ Writes(call[c].code[j], n)
        BY <1>1, <1>3, <3>2, <4>1 DEF Piped, Access1
      <4>3. Rest(c)'
        BY <1>1, <4>2 DEF Rest
      <4>4. ASSUME NEW n \in Needs(driver), Coming(c, n, 1)'
            PROVE  reg'[n] = 1
        <5>1. PICK i \in 1 .. Len(call[c].code) : Final(call[c].code, i, n, 1) /\ (i < at'[c] => reg'[n] = 1)
          BY <1>1, <4>4 DEF Coming
        <5>2. ~ (i \in at[c] + 1 .. Len(call[c].code))
          BY <4>2, <5>1 DEF Final
        <5> QED BY <1>1, <1>2, <5>1, <5>2
      <4>5. \A n \in Needs(driver) : reg'[n] = 1
        <5>1. CASE call[c].name = "init"
          <6>1. driver \notin Gmsl
            BY <1>12, <2>3, <5>1
          <6> QED BY <1>12, <4>4, <5>1, <6>1, NeedsHere
        <5>2. CASE call[c].name = "start"
          <6>1. \A p2 \in Callers : call[p2].name # "init"
            BY <1>4, <5>2 DEF Exclusive
          <6>2. \A n \in Made(driver) : reg'[n] = 1
            BY <1>10, <6>1
          <6> QED BY <2>2, <4>4, <5>2, <6>2
        <5> QED BY <2>3, <3>1, <5>1, <5>2
      <4> QED BY <1>1, <3>1, <4>3, <4>5 DEF Open
    <3>3. CASE ~ Writes(Access1(c), "stream")
      <4>1. reg["stream"] = 1
        BY <1>6, <2>3, <3>3
      <4>2. Open /\ (Rest(c) \/ (call[c].name = "init" /\ at[c] = 1))
        BY <1>13, <2>3, <3>1, <4>1 DEF PathInv
      <4>3. ~ (call[c].name = "init" /\ at[c] = 1)
        <5> SUFFICES ASSUME call[c].name = "init", at[c] = 1
                     PROVE  FALSE
          OBVIOUS
        <5>1. driver \notin Gmsl
          BY <4>1 DEF PathInv
        <5>2. Writes(call[c].code[1], "stream")
          BY <1>3, <5>1 DEF Piped
        <5> QED BY <3>3, <5>2 DEF Access1
      <4>4. Rest(c)
        BY <4>2, <4>3
      <4>5. \A n \in Needs(driver) : ~ Writes(Access1(c), n)
        BY <1>1, <1>2, <4>4 DEF Rest, Access1
      <4>6. Open'
        BY <1>1, <1>6, <4>2, <4>5 DEF Open
      <4>7. Rest(c)'
        <5>1. \A i \in at[c] + 1 .. Len(call[c].code) : i \in at[c] .. Len(call[c].code)
          BY <1>2
        <5> QED BY <1>1, <4>4, <5>1 DEF Rest
      <4> QED BY <3>1, <4>6, <4>7
    <3> QED BY <3>2, <3>3
  <2> QED BY <2>1, <2>2, <2>3
<1>14. "stream" \notin doubtful /\ \A p \in Callers : "stream" \notin spoilt[p]
  BY DEF PathInv
<1> QED BY <1>1, <1>8, <1>10, <1>12, <1>13, <1>14 DEF PathInv

LEMMA ReadPath ==
    ASSUME RegsTypes, GotInv, PathInv, NEW c \in Callers, imx_read_reg(c)
    PROVE  PathInv'
<1>1. /\ at[c] \in 1 .. Len(call[c].code) /\ at'[c] = at[c] + 1 /\ \A o \in Callers \ {c} : at'[o] = at[o]
      /\ UNCHANGED <<driver, streams, reg, call, spoilt, doubtful, lost, inits>> /\ Access1(c).op = "read"
  BY ReadStep
<1> SUFFICES ASSUME lost = 0
             PROVE  PathInv'
  BY <1>1 DEF PathInv
<1>2. \A p \in Callers, n \in Needs(driver) : Coming(p, n, 1) => Coming(p, n, 1)'
  <2> SUFFICES ASSUME NEW p \in Callers, NEW n \in Needs(driver), Coming(p, n, 1)
               PROVE  Coming(p, n, 1)'
    OBVIOUS
  <2>1. CASE p = c
    BY <2>1, ComingStep, NeedsHere
  <2>2. CASE p # c
    BY <1>1, <2>2 DEF Coming
  <2> QED BY <2>1, <2>2
<1>3. ASSUME NEW p \in Callers, reg["stream"] = 1, Rest(p) \/ (call[p].name = "init" /\ at[p] = 1)
      PROVE  Rest(p)' \/ (call[p].name = "init" /\ at'[p] = 1)
  <2>1. CASE p # c
    BY <1>1, <1>3, <2>1 DEF Rest
  <2>2. CASE p = c /\ Rest(c)
    <3>1. \A i \in at[c] + 1 .. Len(call[c].code) : i \in at[c] .. Len(call[c].code)
      BY CallIs
    <3>2. Rest(c)'
      BY <1>1, <2>2, <3>1 DEF Rest
    <3> QED BY <2>2, <3>2
  <2>3. CASE p = c /\ call[c].name = "init" /\ at[c] = 1
    <3>1. driver \notin Gmsl
      BY <1>3, <2>3 DEF PathInv
    <3>2. Piped(call[c], driver, streams)
      BY <1>1, AccessIs, SoundIs
    <3>3. Writes(call[c].code[1], "stream")
      BY <2>3, <3>1, <3>2 DEF Piped
    <3> QED BY <1>1, <2>3, <3>3 DEF Writes, Access1
  <2> QED BY <1>3, <2>1, <2>2, <2>3
<1>4. inits' = 0 => AllIdle'
  BY <1>1 DEF PathInv, AllIdle, Idle
<1>5. Open => Open'
  BY <1>1 DEF Open
<1>6. Made(driver) \subseteq Needs(driver)
  BY NeedsHere
<1> QED BY <1>1, <1>2, <1>3, <1>4, <1>5, <1>6 DEF PathInv

LEMMA ReturnPath ==
    ASSUME RegsTypes, MeetInv, FieldInv, PathInv, NEW c \in Callers, Return(c)
    PROVE  PathInv'
<1>1. /\ at[c] = Len(call[c].code) + 1 /\ Sound(call[c], driver, streams) /\ call'[c] = NoCall
      /\ UNCHANGED <<driver, streams, reg, lost, inits>>
      /\ \A o \in Callers \ {c} : call'[o] = call[o] /\ at'[o] = at[o] /\ spoilt'[o] = spoilt[o]
      /\ doubtful' = (doubtful \ DOMAIN call[c].sets) \cup spoilt[c] /\ spoilt'[c] = {}
  BY ReturnStep
<1> SUFFICES ASSUME lost = 0
             PROVE  PathInv'
  BY <1>1 DEF PathInv
<1>2. /\ ~ Idle(c) /\ Piped(call[c], driver, streams) /\ DOMAIN call[c].sets \subseteq call[c].writes
  BY <1>1 DEF Return, Sound, Shaped
<1>3. "stream" \notin doubtful /\ \A p \in Callers : "stream" \notin spoilt[p]
  BY DEF PathInv
<1>4. "stream" \notin doubtful' /\ \A p \in Callers : "stream" \notin spoilt'[p]
  BY <1>1, <1>3
<1>5. inits' # 0
  BY <1>1, <1>2 DEF PathInv, AllIdle
<1>6. call'[c].name = "none"
  BY <1>1, NoCallIs
<1>7. \A p \in Callers : call'[p].name \in Exclusive => p # c /\ call[p].name \in Exclusive
  BY <1>1, <1>6 DEF Exclusive
<1>8. \A p \in Callers : call'[p].name \notin Exclusive
  BY <1>2, <1>7 DEF MeetInv
<1>9. ASSUME inits > 0
      PROVE  \A n \in Made(driver) : reg[n] = 1
  <2>1. CASE call[c].name = "init"
    BY <1>1, <2>1, ComingIs DEF PathInv
  <2>2. CASE call[c].name # "init"
    <3>1. \A p \in Callers : call[p].name # "init"
      BY <1>2, <2>2 DEF MeetInv, Exclusive
    <3> QED BY <1>9, <3>1 DEF PathInv
  <2> QED BY <2>1, <2>2
<1>10. ASSUME driver \in Gmsl => streams[Len(streams)] = "pixel", reg["stream"] = 1
       PROVE  Open
  <2>1. CASE call[c].name \in {"init", "start"}
    BY <1>10, <2>1 DEF PathInv
  <2>2. CASE call[c].name = "stop"
    <3>1. "stream" \in DOMAIN call[c].sets /\ call[c].sets["stream"] = 0 /\ "stream" \in call[c].writes
      BY <1>2, <2>2 DEF Piped, Exclusive
    <3>2. Coming(c, "stream", call[c].sets["stream"])
      BY <1>3, <3>1, NeedsHere DEF FieldInv
    <3>3. reg["stream"] = 0
      BY <1>1, <3>1, <3>2, ComingIs
    <3> QED BY <1>10, <3>3
  <2>3. CASE call[c].name \notin Exclusive
    <3>1. \A p \in Callers : call[p].name \notin Exclusive
      BY <1>2, <2>3 DEF MeetInv
    <3> QED BY <1>10, <3>1 DEF PathInv
  <2> QED BY <2>1, <2>2, <2>3 DEF Exclusive
<1>11. Open => Open'
  BY <1>1 DEF Open
<1>12. {"init", "start"} \subseteq Exclusive /\ "init" \in Exclusive /\ "start" \in Exclusive
  BY DEF Exclusive
<1> QED BY <1>1, <1>4, <1>5, <1>8, <1>9, <1>10, <1>11, <1>12 DEF PathInv

LEMMA StepPath ==
    ASSUME RegsTypes, GotInv, MeetInv, FieldInv, PathInv, NEW c \in Callers,
           imx_read_reg(c) \/ imx_write_reg(c) \/ Lose(c) \/ Return(c)
    PROVE  PathInv'
<1>1. CASE Lose(c)
  <2>1. lost' = lost + 1 /\ lost \in Nat
    BY <1>1, LoseStep, TypesAre
  <2> QED BY <2>1 DEF PathInv
<1> QED BY <1>1, ReadPath, WritePath, ReturnPath

-----------------------------------------------------------------------------
(* All of it together.                                                     *)
RegsInv == RegsTypes /\ MeetInv /\ GotInv /\ ZeroInv /\ FieldInv /\ HoldInv /\ WindowInv /\ PathInv

LEMMA InitRegsInv == RegsInit => RegsInv
<1> SUFFICES ASSUME RegsInit PROVE RegsInv
  OBVIOUS
<1>1. RegsTypes
  BY InitRegs
<1>2. /\ \A c \in Callers : call[c] = NoCall /\ spoilt[c] = {} /\ Idle(c) /\ call[c].name = "none" /\ call[c].writes = {}
      /\ \A n \in Fields : reg[n] = 0 /\ asked[n] = 0
      /\ \A n \in Held : live[n] = 0
      /\ doubtful = {} /\ inits = 0 /\ lost = 0
  BY NoCallIs DEF RegsInit, Set, Idle
<1>3. driver \in Kinds /\ Zero(driver) \subseteq Fields /\ Tracked(driver) \subseteq Fields
  BY <1>1, TypesAre, ZeroIs
<1>4. "hold" \in Fields /\ "stream" \in Fields /\ Held \subseteq Fields /\ Window \subseteq Held
  BY FieldNames
<1>5. "none" \notin Exclusive /\ "none" # "roi" /\ "none" # "init" /\ "none" # "start"
  BY DEF Exclusive
<1>6. MeetInv
  BY <1>2, <1>5 DEF MeetInv
<1>7. GotInv
  BY <1>2 DEF GotInv, Busy
<1>8. ZeroInv
  BY <1>2, <1>3 DEF ZeroInv
<1>9. FieldInv
  BY <1>2, <1>3 DEF FieldInv
<1>10. HoldInv
  BY <1>2, <1>4, <1>5 DEF HoldInv
<1>11. WindowInv
  BY <1>2, <1>4, <1>5 DEF WindowInv
<1>12. PathInv
  <2>1. AllIdle
    BY <1>2 DEF AllIdle
  <2> QED BY <1>2, <1>4, <1>5, <2>1 DEF PathInv
<1> QED BY <1>1, <1>6, <1>7, <1>8, <1>9, <1>10, <1>11, <1>12 DEF RegsInv

LEMMA NextRegsInv == RegsInv /\ [RegsNext]_regsVars => RegsInv'
<1> SUFFICES ASSUME RegsInv, [RegsNext]_regsVars PROVE RegsInv'
  OBVIOUS
<1>1. RegsTypes /\ MeetInv /\ GotInv /\ ZeroInv /\ FieldInv /\ HoldInv /\ WindowInv /\ PathInv
  BY DEF RegsInv
<1>2. ASSUME NEW c \in Callers, NEW new, Entering(c, new)
      PROVE  RegsInv'
  <2>1. RegsTypes'
    BY <1>1, <1>2, EnterTypes
  <2>2. MeetInv'
    BY <1>1, <1>2, <2>1, EnterMeets
  <2>3. GotInv' /\ ZeroInv' /\ FieldInv' /\ HoldInv' /\ WindowInv' /\ PathInv'
    BY <1>1, <1>2, EnterGot, EnterZero, EnterField, EnterHold, EnterWindow, EnterPath
  <2> QED BY <2>1, <2>2, <2>3 DEF RegsInv
<1>3. ASSUME NEW c \in Callers, imx_read_reg(c) \/ imx_write_reg(c) \/ Lose(c) \/ Return(c)
      PROVE  RegsInv'
  <2>1. RegsTypes'
    BY <1>1, <1>3, StepTypes
  <2>2. MeetInv' /\ GotInv' /\ ZeroInv' /\ FieldInv'
    BY <1>1, <1>3, StepMeets, StepGot, StepZero, StepField
  <2>3. HoldInv' /\ WindowInv' /\ PathInv'
    BY <1>1, <1>3, <2>1, <2>2, StepHold, StepWindow, StepPath
  <2> QED BY <2>1, <2>2, <2>3 DEF RegsInv
<1>4. CASE UNCHANGED regsVars
  <2>1. RegsTypes'
    BY <1>1, <1>4, StutterTypes
  <2>2. UNCHANGED <<driver, streams, reg, live, call, at, got, spoilt, asked, doubtful, unheld, lost, inits>>
    BY <1>4 DEF regsVars, camera, callVars
  <2>3. MeetInv' /\ GotInv' /\ ZeroInv' /\ FieldInv' /\ HoldInv' /\ WindowInv'
    BY <1>1, <2>2 DEF MeetInv, GotInv, ZeroInv, FieldInv, HoldInv, WindowInv, Idle, Busy, Access1, Coming, Releasing
  <2>4. PathInv'
    BY <1>1, <2>2 DEF PathInv, Coming, Open, Rest, AllIdle, Idle
  <2> QED BY <2>1, <2>3, <2>4 DEF RegsInv
<1>5. CASE RegsNext
  <2>1. PICK c \in Callers : \/ nv_sensor_probe(c) \/ sensor_camera_ioctl(c) \/ imx_read_reg(c) \/ imx_write_reg(c)
                             \/ Lose(c) \/ Return(c)
    BY <1>5 DEF RegsNext
  <2>2. CASE nv_sensor_probe(c)
    BY <1>1, <1>2, <2>2, ProbeStep
  <2>3. CASE sensor_camera_ioctl(c)
    BY <1>1, <1>2, <2>3, IoctlStep
  <2> QED BY <1>3, <2>1, <2>2, <2>3
<1> QED BY <1>4, <1>5

LEMMA FieldsFollow == RegsInv => FieldsAsAsked
<1> SUFFICES ASSUME RegsInv, AllIdle, ~ unheld
             PROVE  /\ reg["hold"] = 0
                    /\ \A n \in Held \ doubtful : live[n] = asked[n]
                    /\ \A n \in (Rows \cup {"stream"}) \ doubtful : reg[n] = asked[n]
  BY DEF FieldsAsAsked
<1>1. RegsTypes /\ ZeroInv /\ FieldInv /\ HoldInv
  BY DEF RegsInv
<1>2. driver \in Kinds
  BY <1>1, TypesAre
<1>3. \A c \in Callers : call[c] = NoCall /\ call[c].writes = {} /\ at[c] \in Nat /\ at[c] >= 1
  BY <1>1, CallIs DEF AllIdle
<1>4. \A c \in Callers : ~ Releasing(c)
  <2> SUFFICES ASSUME NEW c \in Callers, Releasing(c) PROVE FALSE
    OBVIOUS
  <2>1. Len(call[c].code) = 0
    BY <1>3, NoCallIs
  <2> QED BY <1>3, <2>1 DEF Releasing
<1>5. reg["hold"] = 0 /\ \A n \in Held : live[n] = reg[n]
  BY <1>1, <1>4 DEF HoldInv
<1>6. \A n \in Tracked(driver) \ doubtful : reg[n] = asked[n]
  BY <1>1, <1>3 DEF FieldInv
<1>7. \A n \in Zero(driver) : reg[n] = asked[n]
  BY <1>1 DEF ZeroInv
<1>8. Held \cup Rows \cup {"stream"} \subseteq Tracked(driver) \cup Zero(driver)
  BY <1>2, ZeroIs
<1>9. \A n \in (Held \cup Rows \cup {"stream"}) \ doubtful : reg[n] = asked[n]
  BY <1>6, <1>7, <1>8
<1> QED BY <1>5, <1>9

LEMMA WindowFollows == RegsInv => WindowWhole
<1> SUFFICES ASSUME RegsInv, OneCaller, driver = "gmax3405", Window \cap doubtful = {}
             PROVE  \A m, n \in Window : live[m] = live[n]
  BY DEF WindowWhole
<1>1. RegsTypes /\ HoldInv /\ WindowInv
  BY DEF RegsInv
<1>2. \A c \in Callers : spoilt[c] = {}
  BY DEF OneCaller
<1>3. CASE \E c \in Callers : call[c].name = "roi"
  <2>1. PICK c \in Callers : call[c].name = "roi"
    BY <1>3
  <2>2. Len(call[c].code) \in Nat /\ at[c] \in Nat /\ \A m, n \in Window : call[c].sets[m] = call[c].sets[n]
    BY <1>1, <2>1, CallIs, RoiIs
  <2>3. CASE at[c] <= Len(call[c].code)
    BY <1>1, <1>2, <2>1, <2>3 DEF WindowInv
  <2>4. CASE at[c] > Len(call[c].code)
    <3>1. \A n \in Window : live[n] = call[c].sets[n]
      BY <1>1, <1>2, <2>1, <2>4 DEF WindowInv
    <3> QED BY <2>2, <3>1
  <2> QED BY <2>2, <2>3, <2>4
<1>4. CASE \E c \in Callers : call[c].name = "init"
  <2>1. reg["hold"] = 0 /\ \A n \in Held : reg[n] = 0
    BY <1>1, <1>4 DEF HoldInv
  <2>2. \A n \in Held : live[n] = 0
    BY <1>1, <2>1 DEF HoldInv
  <2> QED BY <2>2, WindowIs
<1>5. CASE \A c \in Callers : call[c].name \notin {"init", "roi"}
  <2>1. ASSUME NEW c \in Callers
        PROVE  call[c].writes \cap Window = {}
    <3>1. CASE Idle(c)
      BY <1>1, <3>1, CallIs
    <3>2. CASE ~ Idle(c)
      <4>1. Windowed(call[c])
        BY <1>1, <3>2, SoundIs
      <4> QED BY <1>5, <4>1 DEF Windowed
    <3> QED BY <3>1, <3>2
  <2>2. \A n \in Window : live[n] = asked[n]
    BY <1>1, <2>1 DEF WindowInv
  <2>3. \A m, n \in Window : asked[m] = asked[n]
    BY <1>1 DEF WindowInv
  <2> QED BY <2>2, <2>3
<1> QED BY <1>3, <1>4, <1>5

LEMMA PathFollows == RegsInv => PathBeforePixels
<1> SUFFICES ASSUME RegsInv, reg["stream"] = 1, lost = 0, \A c \in Callers : call[c].name # "stop",
                    driver \in Gmsl => streams[Len(streams)] = "pixel"
             PROVE  \A n \in Needs(driver) : reg[n] = 1
  BY DEF PathBeforePixels
<1>1. PathInv
  BY DEF RegsInv
<1>2. CASE \A c \in Callers : call[c].name \notin Exclusive
  BY <1>1, <1>2 DEF PathInv, Open
<1>3. CASE \E c \in Callers : call[c].name \in {"init", "start"}
  BY <1>1, <1>3 DEF PathInv, Open
<1> QED BY <1>2, <1>3 DEF Exclusive

(* In every state each caller is in a call of the driver the camera has,   *)
(* at one of its accesses, every field holds a small number, and the code  *)
(* of the call is sound: what sets leaves behind is what it says it sets.  *)
THEOREM RegsTypeCorrect == RegsSpec => []RegsTypes
<1>1. RegsInv => RegsTypes
  BY DEF RegsInv
<1> QED BY <1>1, InitRegsInv, NextRegsInv, PTL DEF RegsSpec

(* When no ioctl, probe or stream_set is under way, and the last access to *)
(* the hold was not lost, the group hold is                                *)
(* released and the registers of each of the six drivers are as asked of   *)
(* them last, whatever calls of gmax3405_ioctl_set or sc535_ioctl_set      *)
(* overlapped without a lock and whatever was lost: only the fields two    *)
(* calls wrote side by side, and those of a call that lost an access, may  *)
(* differ until a call sets them again.                                    *)
THEOREM FieldsComeOut == RegsSpec => []FieldsAsAsked
BY InitRegsInv, NextRegsInv, FieldsFollow, PTL DEF RegsSpec

(* While no call under way overlaps another or has lost an access, and the *)
(* window was set since one that did, a                                    *)
(* GMAX3405 never reads out with half of a window of                       *)
(* gmax3405_set_roi_format and half of the one before: the hold keeps the  *)
(* old one in use until the last of the new registers is written.          *)
THEOREM WindowStaysWhole == RegsSpec => []WindowWhole
BY InitRegsInv, NextRegsInv, WindowFollows, PTL DEF RegsSpec

(* A sensor sends, while no access of its driver was lost, only after      *)
(* init_param wrote its table and, behind a deserialiser whose streams end *)
(* with the pixels, after stream_set opened serialiser, map and pipe,      *)
(* through any number of probes and starts, save while stream_set stops it *)
(* and closes the pipe first.                                              *)
THEOREM PathOpensFirst == RegsSpec => []PathBeforePixels
BY InitRegsInv, NextRegsInv, PathFollows, PTL DEF RegsSpec
=============================================================================
