---------------------------- MODULE DlpRgbProofs ----------------------------
(***************************************************************************)
(* Theorems of module DlpRgb, for every byte width, number of lamps and    *)
(* set of session parameters: its type invariant, the lamp invariants, the *)
(* agreement of mode and lines, and that it implements LampSequence.       *)
(***************************************************************************)
EXTENDS DlpRgb, TLAPS

(* A u8 result is a byte: the value of a conversion or u8 subtraction.     *)
LEMMA ByteResult == ASSUME NEW n \in Int PROVE ToU8(n) \in Byte
BY U8Assumption DEF ToU8, Byte

(* 0 is a byte, a byte is an integer, and a lamp number is a byte.         *)
LEMMA ByteFacts == 0 \in Byte /\ Byte \subseteq Int /\ Lamp \subseteq Byte
BY U8Assumption DEF Byte, Lamp

-----------------------------------------------------------------------------
(* Interrupts keep the types.                                              *)
LEMMA IrqType == ASSUME TypeOK, Irq PROVE TypeOK'
<1> USE DEF TypeOK, configVars, lampVars, ioctlVars, threadVars, handlerVars, countVars
<1>1. CASE XtrigIrq BY <1>1 DEF XtrigIrq
<1>2. CASE XtrigIrqCompare BY <1>2 DEF XtrigIrqCompare
<1>3. CASE ToutIrq BY <1>3 DEF ToutIrq
<1> QED BY <1>1, <1>2, <1>3 DEF Irq

(* So do the thread and the timer.                                         *)
LEMMA ThreadType == ASSUME TypeOK, ThreadStep \/ TimerFire PROVE TypeOK'
<1> USE DEF TypeOK, configVars, lampVars, ioctlVars, threadVars, handlerVars, countVars,
            ThreadLabel
<1>1. CASE ThreadWake BY <1>1 DEF ThreadWake
<1>2. CASE ThreadReadBound
  <2>1. ToU8(rgbTrigIndex) \in Byte BY ByteResult, ByteFacts
  <2> QED BY <1>2, <2>1 DEF ThreadReadBound
<1>3. CASE ThreadReadCount BY <1>3, ByteFacts DEF ThreadReadCount
<1>4. CASE ThreadLight BY <1>4 DEF ThreadLight
<1>5. CASE ThreadArm BY <1>5 DEF ThreadArm
<1>6. CASE ThreadCancelAndReturn BY <1>6 DEF ThreadCancelAndReturn
<1>7. CASE TimerFire BY <1>7 DEF TimerFire
<1> QED BY <1>1, <1>2, <1>3, <1>4, <1>5, <1>6, <1>7 DEF ThreadStep

(* Masking and unmasking a line keeps irqOn a function to the booleans.    *)
LEMMA IrqOnType ==
    ASSUME NEW l \in Line, irqOn \in [Line -> BOOLEAN], m_disable_irq(l) \/ m_enable_irq(l)
    PROVE  irqOn' \in [Line -> BOOLEAN]
BY DEF m_disable_irq, m_enable_irq

(* The probe and the ioctls that only move lines keep the types.           *)
LEMMA LineIoctlType == ASSUME TypeOK, Probe \/ RgbParam \/ IoTrigger PROVE TypeOK'
<1> USE IrqOnType DEF TypeOK, configVars, lampVars, threadVars, handlerVars, countVars,
            IoctlLabel, Line
<1>1. CASE Probe BY <1>1 DEF Probe, ProbeRequest, ProbeDisable
<1>2. CASE RgbParam BY <1>2 DEF RgbParam, RgbParamCall, RgbParamIrq
<1>3. CASE IoTrigger BY <1>3 DEF IoTrigger, IoTriggerCall, IoTriggerEnable
<1> QED BY <1>1, <1>2, <1>3

(* IO_SET_GET_RGB_SYNC_SIGNAL keeps the types.                             *)
LEMMA SyncType == ASSUME TypeOK, Sync PROVE TypeOK'
<1> USE DEF TypeOK, configVars, lampVars, threadVars, handlerVars, countVars, IoctlLabel
<1>1. CASE SyncCall BY <1>1 DEF SyncCall
<1>2. CASE SyncZeroXtrig BY <1>2 DEF SyncZeroXtrig
<1>3. CASE SyncZeroTout BY <1>3 DEF SyncZeroTout
<1>4. CASE SyncBounds
  <2>1. CASE req \in SyncReq
    <3>1. req.dlp \in Byte /\ req.rgb \in Byte
      BY <2>1, ParamAssumption DEF SyncReq, Byte
    <3> QED BY <1>4, <3>1 DEF SyncBounds
  <2>2. CASE req = NoReq
    <3>1. req.dlp \in Byte /\ req.rgb \in Byte
      BY <2>2, ByteFacts DEF NoReq
    <3> QED BY <1>4, <3>1 DEF SyncBounds
  <2> QED BY <2>1, <2>2
<1>5. CASE SyncEnable BY <1>5 DEF SyncEnable, SyncReq, NoReq
<1>6. CASE SyncIrq("xtrig", "sync_irq_x", "sync_irq_t") BY <1>6, IrqOnType DEF SyncIrq, Line
<1>7. CASE SyncIrq("tout0", "sync_irq_t", "idle") BY <1>7, IrqOnType DEF SyncIrq, Line
<1> QED BY <1>1, <1>2, <1>3, <1>4, <1>5, <1>6, <1>7 DEF Sync

(* IO_SET_CLEAR_TRIG_COUNT keeps the types.                                *)
LEMMA ClearType == ASSUME TypeOK, Clear PROVE TypeOK'
<1> USE ByteFacts DEF TypeOK, configVars, lampVars, threadVars, handlerVars, countVars,
                      IoctlLabel
<1>1. CASE ClearModeOff BY <1>1 DEF ClearModeOff
<1>2. CASE ClearReadXtrig
  <2>1. ToU8(xtrig_num) \in Byte BY ByteResult
  <2> QED BY <1>2, <2>1 DEF ClearReadXtrig
<1>3. CASE ClearReadTout
  <2>1. ToU8(tou_num) \in Byte BY ByteResult
  <2> QED BY <1>3, <2>1 DEF ClearReadTout
<1>4. CASE ClearZeroXtrig BY <1>4 DEF ClearZeroXtrig
<1>5. CASE ClearZeroTout BY <1>5 DEF ClearZeroTout
<1>6. CASE ClearReturn BY <1>6 DEF ClearReturn
<1> QED BY <1>1, <1>2, <1>3, <1>4, <1>5, <1>6 DEF Clear

(* Nothing the driver stores ever leaves its type: counters stay natural,  *)
(* what was copied to a u8 stays a byte, last_irq_rgb stays a lamp.        *)
THEOREM TypeCorrect == Spec => []TypeOK
<1>1. Init => TypeOK
  <2>1. 0 \in Lamp
    BY U8Assumption DEF Lamp
  <2>2. XtrigBoot \in Nat /\ ToutBoot \in Nat /\ 0 \in Byte
    BY BootAssumption, ByteFacts
  <2> SUFFICES ASSUME Init PROVE TypeOK
    OBVIOUS
  <2>3. lamp \in [Lamp -> BOOLEAN] /\ irqOn \in [Line -> BOOLEAN] BY DEF Init
  <2>4. ipc \in IoctlLabel /\ tpc \in ThreadLabel BY DEF Init, IoctlLabel, ThreadLabel
  <2> QED BY <2>1, <2>2, <2>3, <2>4 DEF Init, TypeOK
<1>2. TypeOK /\ [Next]_vars => TypeOK'
  <2> SUFFICES ASSUME TypeOK, [Next]_vars PROVE TypeOK'
    OBVIOUS
  <2>1. CASE Next
    BY <2>1, IrqType, ThreadType, LineIoctlType, SyncType, ClearType DEF Next
  <2>2. CASE UNCHANGED vars
    BY <2>2 DEF TypeOK, vars, configVars, lampVars, ioctlVars, threadVars, handlerVars,
                countVars
  <2> QED BY <2>1, <2>2
<1> QED BY <1>1, <1>2, PTL DEF Spec

-----------------------------------------------------------------------------
(***************************************************************************)
(* The lamps.  LitLampIsTimed, AtMostOneLamp and TimerHasLamp are not      *)
(* inductive: that the thread may light a lamp rests on what it saw when   *)
(* it read the counter, that no timer was queued, which nobody else undoes *)
(* because only the thread starts the timer.  LampInv remembers, for each  *)
(* label after that read, what is still true of timer and lamps.           *)
(***************************************************************************)
AllDark == \A i \in Lamp : ~lamp[i]

LampInv ==
    /\ LitLampIsTimed /\ AtMostOneLamp /\ TimerHasLamp
    /\ tpc = "light" => ~timer /\ AllDark
    /\ tpc = "arm"   => ~timer /\ lamp[last_irq_rgb]
    /\ tpc = "dead"  => ~timer

(* A step that leaves thread, timer and lamps alone keeps LampInv.         *)
LEMMA LampFrame ==
    ASSUME LampInv, UNCHANGED <<tpc, timer, lamp, last_irq_rgb>> PROVE LampInv'
BY DEF LampInv, LitLampIsTimed, AtMostOneLamp, TimerHasLamp, AllDark

(* Interrupts, the probe and every ioctl are such steps.                   *)
LEMMA LampUntouched ==
    ASSUME Irq \/ Probe \/ Sync \/ Clear \/ RgbParam \/ IoTrigger
    PROVE  UNCHANGED <<tpc, timer, lamp, last_irq_rgb>>
<1> USE DEF lampVars, threadVars
<1>1. CASE Irq BY <1>1 DEF Irq, XtrigIrq, XtrigIrqCompare, ToutIrq
<1>2. CASE Probe BY <1>2 DEF Probe, ProbeRequest, ProbeDisable
<1>3. CASE Sync
  BY <1>3 DEF Sync, SyncCall, SyncZeroXtrig, SyncZeroTout, SyncBounds, SyncEnable, SyncIrq
<1>4. CASE Clear
  BY <1>4 DEF Clear, ClearModeOff, ClearReadXtrig, ClearReadTout, ClearZeroXtrig,
              ClearZeroTout, ClearReturn
<1>5. CASE RgbParam BY <1>5 DEF RgbParam, RgbParamCall, RgbParamIrq
<1>6. CASE IoTrigger BY <1>6 DEF IoTrigger, IoTriggerCall, IoTriggerEnable
<1> QED BY <1>1, <1>2, <1>3, <1>4, <1>5, <1>6

(* The thread keeps LampInv: it chooses a lamp only in the dark.           *)
LEMMA LampThread == ASSUME TypeOK, LampInv, ThreadStep PROVE LampInv'
<1> USE DEF LampInv, LitLampIsTimed, AtMostOneLamp, TimerHasLamp, AllDark, lampVars
<1>1. CASE ThreadWake BY <1>1 DEF ThreadWake
<1>2. CASE ThreadReadBound BY <1>2 DEF ThreadReadBound
<1>3. CASE ThreadReadCount BY <1>3 DEF ThreadReadCount
<1>4. CASE ThreadLight BY <1>4 DEF ThreadLight, TypeOK
<1>5. CASE ThreadArm BY <1>5 DEF ThreadArm
<1>6. CASE ThreadCancelAndReturn BY <1>6 DEF ThreadCancelAndReturn
<1> QED BY <1>1, <1>2, <1>3, <1>4, <1>5, <1>6 DEF ThreadStep

(* So does the timer: the only lamp it can find lit is the one it names.   *)
LEMMA LampTimer == ASSUME TypeOK, LampInv, TimerFire PROVE LampInv'
BY DEF LampInv, LitLampIsTimed, AtMostOneLamp, TimerHasLamp, AllDark, TimerFire, threadVars,
       TypeOK

THEOREM LampInvariant == Spec => []LampInv
<1>1. Init => LampInv
  BY DEF Init, LampInv, LitLampIsTimed, AtMostOneLamp, TimerHasLamp
<1>2. TypeOK /\ LampInv /\ [Next]_vars => LampInv'
  <2> SUFFICES ASSUME TypeOK, LampInv, [Next]_vars PROVE LampInv'
    OBVIOUS
  <2>1. CASE Irq \/ Probe \/ Sync \/ Clear \/ RgbParam \/ IoTrigger
    BY <2>1, LampUntouched, LampFrame
  <2>2. CASE ThreadStep BY <2>2, LampThread
  <2>3. CASE TimerFire BY <2>3, LampTimer
  <2>4. CASE UNCHANGED vars BY <2>4, LampFrame DEF vars, lampVars, threadVars
  <2> QED BY <2>1, <2>2, <2>3, <2>4 DEF Next
<1> QED BY <1>1, <1>2, TypeCorrect, PTL DEF Spec

(* Until the thread gives up, a lit lamp is the one the thread chose last  *)
(* and its timer is queued or about to be.                                 *)
THEOREM LitLampTimed == Spec => []LitLampIsTimed
<1>1. LampInv => LitLampIsTimed BY DEF LampInv
<1> QED BY <1>1, LampInvariant, PTL

(* Two lamps are never lit at once.                                        *)
THEOREM OneLamp == Spec => []AtMostOneLamp
<1>1. LampInv => AtMostOneLamp BY DEF LampInv
<1> QED BY <1>1, LampInvariant, PTL

(* A queued timer always belongs to a lit lamp.                            *)
THEOREM TimerOwnsLamp == Spec => []TimerHasLamp
<1>1. LampInv => TimerHasLamp BY DEF LampInv
<1> QED BY <1>1, LampInvariant, PTL

-----------------------------------------------------------------------------
(***************************************************************************)
(* Permission.  rgb_enable is only ever raised, and the thread tests it in *)
(* the step that lights the lamp, so NoLampBeforeEnable is inductive.      *)
(***************************************************************************)
LEMMA EnableFrame ==
    ASSUME NoLampBeforeEnable, lamp' = lamp, rgb_enable' = rgb_enable \/ rgb_enable' = 1
    PROVE  NoLampBeforeEnable'
BY DEF NoLampBeforeEnable

LEMMA EnableStep ==
    ASSUME TypeOK, NoLampBeforeEnable, Next PROVE NoLampBeforeEnable'
<1> USE EnableFrame DEF configVars, lampVars
<1>1. CASE Irq BY <1>1 DEF Irq, XtrigIrq, XtrigIrqCompare, ToutIrq
<1>2. CASE ThreadStep
  <2>1. CASE ThreadLight BY <2>1 DEF ThreadLight, NoLampBeforeEnable
  <2>2. CASE ~ThreadLight
    BY <1>2, <2>2 DEF ThreadStep, ThreadWake, ThreadReadBound, ThreadReadCount, ThreadArm,
                      ThreadCancelAndReturn
  <2> QED BY <2>1, <2>2
<1>3. CASE TimerFire BY <1>3 DEF TimerFire, NoLampBeforeEnable, TypeOK
<1>4. CASE Probe BY <1>4 DEF Probe, ProbeRequest, ProbeDisable
<1>5. CASE Sync
  BY <1>5 DEF Sync, SyncCall, SyncZeroXtrig, SyncZeroTout, SyncBounds, SyncEnable, SyncIrq
<1>6. CASE Clear
  BY <1>6 DEF Clear, ClearModeOff, ClearReadXtrig, ClearReadTout, ClearZeroXtrig,
              ClearZeroTout, ClearReturn
<1>7. CASE RgbParam BY <1>7 DEF RgbParam, RgbParamCall, RgbParamIrq
<1>8. CASE IoTrigger BY <1>8 DEF IoTrigger, IoTriggerCall, IoTriggerEnable
<1> QED BY <1>1, <1>2, <1>3, <1>4, <1>5, <1>6, <1>7, <1>8 DEF Next

(* No lamp lights before the first session has been configured.            *)
THEOREM DarkBeforeEnable == Spec => []NoLampBeforeEnable
<1>1. Init => NoLampBeforeEnable BY DEF Init, NoLampBeforeEnable
<1>2. TypeOK /\ NoLampBeforeEnable /\ [Next]_vars => NoLampBeforeEnable'
  BY EnableStep, EnableFrame DEF vars, configVars, lampVars
<1> QED BY <1>1, <1>2, TypeCorrect, PTL DEF Spec

-----------------------------------------------------------------------------
(***************************************************************************)
(* Mode and lines.  LinkageListens speaks of the time between two ioctls;  *)
(* ListenInv says which lines must deliver at each label of an ioctl for   *)
(* that to come out right.                                                 *)
(***************************************************************************)
OffLabel == {"probe_x", "probe_x_off", "probe_t", "probe_t_off", "clear_off",
             "rgb_irq_x", "rgb_irq_t"}
XtrigLabel == {"idle", "sync_irq_t", "clear_t", "clear_zero_x", "clear_zero_t", "clear_ret",
               "trig_t"}
ToutLabel == {"idle", "clear_t", "clear_zero_x", "clear_zero_t", "clear_ret", "trig_x"}

ListenInv ==
    /\ ipc \in OffLabel => rgb_mode = 0
    /\ ipc \in XtrigLabel /\ rgb_mode = 1 => irqOn["xtrig"]
    /\ ipc \in ToutLabel /\ rgb_mode = 1 => irqOn["tout0"]

LEMMA ListenFrame ==
    ASSUME ListenInv, UNCHANGED <<ipc, rgb_mode, irqOn>> PROVE ListenInv'
BY DEF ListenInv

LEMMA ListenStep == ASSUME TypeOK, ListenInv, Next PROVE ListenInv'
<1> USE DEF configVars, ioctlVars
<1>1. CASE Irq BY <1>1, ListenFrame DEF Irq, XtrigIrq, XtrigIrqCompare, ToutIrq
<1>2. CASE ThreadStep \/ TimerFire
  BY <1>2, ListenFrame
  DEF ThreadStep, ThreadWake, ThreadReadBound, ThreadReadCount, ThreadLight, ThreadArm,
      ThreadCancelAndReturn, TimerFire
<1> USE DEF ListenInv, OffLabel, XtrigLabel, ToutLabel, m_disable_irq, m_enable_irq, TypeOK, Line
<1>3. CASE Probe BY <1>3 DEF Probe, ProbeRequest, ProbeDisable
<1>4. CASE Sync
  BY <1>4 DEF Sync, SyncCall, SyncZeroXtrig, SyncZeroTout, SyncBounds, SyncEnable, SyncIrq
<1>5. CASE Clear
  BY <1>5 DEF Clear, ClearModeOff, ClearReadXtrig, ClearReadTout, ClearZeroXtrig,
              ClearZeroTout, ClearReturn, Returning
<1>6. CASE RgbParam BY <1>6 DEF RgbParam, RgbParamCall, RgbParamIrq
<1>7. CASE IoTrigger BY <1>7 DEF IoTrigger, IoTriggerCall, IoTriggerEnable
<1> QED BY <1>1, <1>2, <1>3, <1>4, <1>5, <1>6, <1>7 DEF Next

(* At rest with the linkage on, both camera lines deliver interrupts.      *)
THEOREM Listening == Spec => []LinkageListens
<1>1. Init => ListenInv
  BY DEF Init, ListenInv, OffLabel, XtrigLabel, ToutLabel
<1>2. TypeOK /\ ListenInv /\ [Next]_vars => ListenInv'
  BY ListenStep, ListenFrame DEF vars, configVars, ioctlVars
<1>3. ListenInv => LinkageListens
  BY DEF ListenInv, LinkageListens, XtrigLabel, ToutLabel, Line
<1> QED BY <1>1, <1>2, <1>3, TypeCorrect, PTL DEF Spec

-----------------------------------------------------------------------------
(***************************************************************************)
(* Refinement.  Under the mapping of DlpRgb the driver's steps are steps   *)
(* of LampSequence or change nothing it sees.                              *)
(***************************************************************************)
Lit == {i \in Lamp : lamp[i]}

(* When no lamp is lit the abstract set is empty, and a lamp that lights   *)
(* in the dark is the only one.                                            *)
LEMMA LitFromDark ==
    ASSUME TypeOK, AllDark, NEW k \in Lamp, lamp' = [lamp EXCEPT ![k] = TRUE]
    PROVE  Lit = {} /\ Lit' = {k}
BY DEF Lit, AllDark, TypeOK

(* When the timer of the lit lamp fires, darkness follows.                 *)
LEMMA LitToDark ==
    ASSUME TypeOK, LampInv, timer, lamp' = [lamp EXCEPT ![last_irq_rgb] = FALSE]
    PROVE  Lit' = {}
BY DEF Lit, TypeOK, LampInv, LitLampIsTimed, AtMostOneLamp, TimerHasLamp

LEMMA RefinedStep ==
    ASSUME TypeOK, LampInv, Next PROVE Abstract!Next \/ UNCHANGED Abstract!vars
<1> USE DEF Abstract!Next, Abstract!vars
<1>1. CASE Irq \/ Probe \/ Sync \/ Clear \/ RgbParam \/ IoTrigger
  BY <1>1, LampUntouched
<1>2. CASE ThreadLight
  <2>1. CASE rgb_enable = 1
    <3>1. AllDark /\ ~timer /\ last_irq_rgb \in Lamp BY <1>2 DEF ThreadLight, LampInv, TypeOK
    <3>2. Lit = {} /\ Lit' = {last_irq_rgb}
      BY <3>1, <1>2, <2>1, LitFromDark DEF ThreadLight
    <3>3. Abstract!On
      BY <1>2, <2>1, <3>1, <3>2 DEF Abstract!On, ThreadLight, Lit, Lamp
    <3> QED BY <3>3
  <2>2. CASE rgb_enable # 1 BY <1>2, <2>2 DEF ThreadLight
  <2> QED BY <2>1, <2>2
<1>3. CASE ThreadArm
  <2>1. ~timer /\ lamp[last_irq_rgb] /\ last_irq_rgb \in Lamp
    BY <1>3 DEF ThreadArm, LampInv, TypeOK
  <2> QED BY <1>3, <2>1 DEF ThreadArm, Abstract!StartTimer
<1>4. CASE ThreadCancelAndReturn BY <1>4 DEF ThreadCancelAndReturn, Abstract!GiveUp
<1>5. CASE ThreadWake \/ ThreadReadBound \/ ThreadReadCount
  BY <1>5 DEF ThreadWake, ThreadReadBound, ThreadReadCount, lampVars
<1>6. CASE TimerFire
  <2>1. Lit' = {} BY <1>6, LitToDark DEF TimerFire
  <2> QED BY <1>6, <2>1 DEF TimerFire, threadVars, Abstract!Off, Lit
<1> QED BY <1>1, <1>2, <1>3, <1>4, <1>5, <1>6 DEF Next, ThreadStep

(* The lamps of the driver follow the abstract sequencer.                  *)
THEOREM LampsRefine == Spec => LampsInSequence
<1>1. Init => Abstract!Init BY DEF Init, Abstract!Init
<1>2. TypeOK /\ LampInv /\ [Next]_vars => [Abstract!Next]_(Abstract!vars)
  <2>1. UNCHANGED vars => UNCHANGED Abstract!vars
    BY DEF vars, lampVars, threadVars, Abstract!vars
  <2> QED BY <2>1, RefinedStep
<1> QED BY <1>1, <1>2, TypeCorrect, LampInvariant, PTL DEF Spec, LampsInSequence, Abstract!Spec
=============================================================================
