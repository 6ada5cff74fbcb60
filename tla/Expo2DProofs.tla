---------------------------- MODULE Expo2DProofs ----------------------------
(***************************************************************************)
(* Proofs about Expo2D, for all values of sync_num and camNum but 0: with  *)
(* 0 the code still takes one picture and plays one half wave, so every    *)
(* theorem about quotas and phases says 0 \notin Num.                      *)
(*                                                                         *)
(* The argument is about who may be at work together.  A mode is set only  *)
(* at rest, so a pass of the thread belongs to the mode it was woken for,  *)
(* a burst runs only in mode 0, and an edge that meets a call finds mode   *)
(* 0 or, for a strict user, the input masked.                              *)
(*                                                                         *)
(* The last part is about IrqCtrl, the helpers the service masks its input *)
(* with: for any lines and callers, a flag tells the truth about its line  *)
(* unless two calls were past their tests on it at once.                   *)
(***************************************************************************)
EXTENDS Expo2D, IrqCtrl, TLAPS

(* The variables keep their types, for every user. *)
THEOREM TypeCorrect == Spec => []TypeOK
<1> USE NumAssumption, UsersAssumption, CountAssumption
<1>1. Init => TypeOK
  <2> SUFFICES ASSUME Init PROVE TypeOK
    OBVIOUS
  <2>1. light \in [mode : {0, 1}, num : Num \cup {0}]
    BY DEF Init
  <2>2. pin \in [Pin -> BOOLEAN] /\ oneShot \in [Pin -> BOOLEAN]
    BY DEF Init
  <2> QED BY <2>1, <2>2 DEF Init, TypeOK, IoctlLabel, ThreadLabel
<1>2. TypeOK /\ [Next]_vars => TypeOK'
  <2> SUFFICES ASSUME TypeOK, [Next]_vars PROVE TypeOK'
    OBVIOUS
  <2> USE DEF TypeOK, pinVars, burstVars, IoctlLabel, ThreadLabel
  <2>1. CASE UNCHANGED vars
    BY <2>1 DEF vars
  <2>2. CASE Edge
    BY <2>2 DEF Edge
  <2>3. ASSUME NEW s \in Setting, SetMode(s) PROVE TypeOK'
    BY <2>3 DEF SetMode, Setting
  <2>4. CASE InternalWake \/ InternalMask \/ ExternalZero \/ ExternalOpen \/ TriggerMask \/ TriggerOpen
    <3>1. UNCHANGED <<user, light, pinVars, burstVars, tpc>>
      BY <2>4 DEF InternalWake, InternalMask, ExternalZero, ExternalOpen, TriggerMask, TriggerOpen
    <3>2. thread_flag' \in {0, 1} /\ countNum' \in Nat /\ ipc' \in IoctlLabel
      BY <2>4 DEF InternalWake, InternalMask, ExternalZero, ExternalOpen, TriggerMask, TriggerOpen
    <3>3. irqOn' = irqOn \/ irqOn' = TRUE \/ irqOn' = FALSE
      BY <2>4 DEF InternalWake, InternalMask, ExternalZero, ExternalOpen, TriggerMask, TriggerOpen
    <3>4. irqOn' \in BOOLEAN
      BY <3>3
    <3> QED BY <3>1, <3>2, <3>4
  <2>5. CASE ThreadWake \/ ThreadMask \/ ThreadClear
    BY <2>5 DEF ThreadWake, ThreadMask, ThreadClear
  <2>6. CASE ThreadInternal
    BY <2>6 DEF ThreadInternal
  <2>7. CASE ThreadExternal \/ ThreadArm
    BY <2>7 DEF ThreadExternal, ThreadArm
  <2>8. CASE ThreadCount
    BY <2>8 DEF ThreadCount
  <2>9. CASE BurstFire
    BY <2>9 DEF BurstFire
  <2>10. ASSUME NEW p \in Pin, OneShotFire(p) PROVE TypeOK'
    BY <2>10 DEF OneShotFire
  <2> QED
    BY <2>1, <2>2, <2>3, <2>4, <2>5, <2>6, <2>7, <2>8, <2>9, <2>10
    DEF Next, Ioctl, ThreadStep, Timer
<1> QED BY <1>1, <1>2, PTL DEF Spec
-----------------------------------------------------------------------------
(***************************************************************************)
(* What holds for every user who sets a mode only at rest.                 *)
(***************************************************************************)
Working == thread_flag = 1 \/ tpc # "wait"

\* A setting of the user, not the zeroes of boot, is what the thread is woken for.
SettingIsReal == light.mode = 1 \/ ipc = "int_wake" \/ Working => light.num \in Num

\* A call that starts a burst finds the thread at rest; a burst lives in mode 0, and
\* its pass of the thread is over but for the flag.
BurstAlone ==
    /\ ipc = "int_wake" => ~Working /\ light.mode = 0
    /\ tpc # "wait" => thread_flag = 1
    /\ burst => light.mode = 0 /\ ipc # "int_wake" /\ (tpc = "clear" \/ ~Working)

WavesLeft == burst => g_inter_pwm_count < g_inter_pwm_target_count * 2

Patient   == user # "hasty"
BurstInv  == Patient => SettingIsReal /\ BurstAlone /\ WavesLeft /\ PhaseInStep /\ HighPinIsTimed

LEMMA UserStays == ASSUME [Next]_vars PROVE user' = user
BY DEF Next, vars, Edge, Ioctl, SetMode, InternalWake, InternalMask, ExternalZero, ExternalOpen,
       TriggerMask, TriggerOpen, ThreadStep, ThreadWake, ThreadInternal, ThreadExternal, ThreadArm,
       ThreadCount, ThreadMask, ThreadClear, Timer, BurstFire, OneShotFire

LEMMA Parity ==
    /\ \A n \in Nat : (n + 1) % 2 = 1 <=> ~(n % 2 = 1)
    /\ \A n, t \in Nat : n < t * 2 /\ ~(n + 1 < t * 2) => n % 2 = 1
OBVIOUS

LEMMA ModeAndThread ==
    ASSUME TypeOK, Patient, SettingIsReal, BurstAlone, [Next]_vars
    PROVE  SettingIsReal' /\ BurstAlone'
<1> USE DEF TypeOK, Patient, SettingIsReal, BurstAlone, Working
<1>1. CASE UNCHANGED vars
  BY <1>1 DEF vars, burstVars
<1>2. CASE Edge
  BY <1>2 DEF Edge, burstVars
<1>3. ASSUME NEW s \in Setting, SetMode(s) PROVE SettingIsReal' /\ BurstAlone'
  BY <1>3 DEF SetMode, Setting, Resting, burstVars
<1>4. CASE InternalWake \/ InternalMask \/ ExternalZero \/ ExternalOpen \/ TriggerMask \/ TriggerOpen
  BY <1>4 DEF InternalWake, InternalMask, ExternalZero, ExternalOpen, TriggerMask, TriggerOpen, burstVars
<1>5. CASE ThreadWake \/ ThreadExternal \/ ThreadArm \/ ThreadCount \/ ThreadMask \/ ThreadClear
  BY <1>5 DEF ThreadWake, ThreadExternal, ThreadArm, ThreadCount, ThreadMask, ThreadClear, burstVars
<1>6. CASE ThreadInternal
  BY <1>6 DEF ThreadInternal
<1>7. CASE BurstFire
  BY <1>7 DEF BurstFire
<1>8. ASSUME NEW p \in Pin, OneShotFire(p) PROVE SettingIsReal' /\ BurstAlone'
  BY <1>8 DEF OneShotFire, burstVars
<1> QED
  BY <1>1, <1>2, <1>3, <1>4, <1>5, <1>6, <1>7, <1>8 DEF Next, Ioctl, ThreadStep, Timer

\* Nobody but the thread and the burst's timer touches the wave.
LEMMA WaveStep ==
    ASSUME TypeOK, Patient, 0 \notin Num, SettingIsReal, BurstAlone, WavesLeft, PhaseInStep, [Next]_vars
    PROVE  WavesLeft' /\ PhaseInStep'
<1> USE DEF TypeOK, Patient, WavesLeft, PhaseInStep
<1>1. CASE ThreadInternal
  <2>1. ~burst /\ ~state
    BY <1>1 DEF ThreadInternal, BurstAlone, Working
  <2>2. light.num \in Nat \ {0}
    BY <1>1, NumAssumption DEF ThreadInternal, SettingIsReal, Working
  <2>3. /\ burst' /\ g_inter_pwm_count' = 0 /\ g_inter_pwm_target_count' = light.num
        /\ UNCHANGED <<state, user>>
    BY <1>1 DEF ThreadInternal
  <2> QED BY <2>1, <2>2, <2>3
<1>2. CASE BurstFire
  <2>1. /\ burst /\ state' = ~state /\ g_inter_pwm_count' = g_inter_pwm_count + 1
        /\ burst' = (g_inter_pwm_count + 1 < g_inter_pwm_target_count * 2)
        /\ UNCHANGED <<user, g_inter_pwm_target_count>>
    BY <1>2 DEF BurstFire
  <2>2. state' = (g_inter_pwm_count' % 2 = 1)
    BY <2>1, Parity
  <2>3. ~burst' => ~state'
    BY <2>1, Parity
  <2> QED BY <2>1, <2>2, <2>3
<1>3. CASE UNCHANGED burstVars
  BY <1>3, UserStays DEF burstVars
<1>4. UNCHANGED burstVars \/ ThreadInternal \/ BurstFire
  BY DEF Next, vars, Edge, Ioctl, SetMode, InternalWake, InternalMask, ExternalZero, ExternalOpen,
         TriggerMask, TriggerOpen, ThreadStep, ThreadWake, ThreadExternal, ThreadArm,
         ThreadCount, ThreadMask, ThreadClear, Timer, OneShotFire
<1> QED BY <1>1, <1>2, <1>3, <1>4

LEMMA PinStep ==
    ASSUME TypeOK, Patient, WavesLeft, PhaseInStep, HighPinIsTimed, [Next]_vars
    PROVE  HighPinIsTimed'
<1> SUFFICES ASSUME NEW p \in Pin, pin'[p] PROVE oneShot'[p] \/ burst' \/ tpc' = "arm"
  BY DEF HighPinIsTimed
<1>1. pin[p] => oneShot[p] \/ burst \/ tpc = "arm"
  BY DEF HighPinIsTimed, Patient
<1>2. CASE BurstFire
  <2>1. ~state
    BY <1>2 DEF BurstFire, Pin
  <2>2. g_inter_pwm_count % 2 # 1 /\ g_inter_pwm_count \in Nat /\ g_inter_pwm_target_count \in Nat
    BY <1>2, <2>1 DEF BurstFire, PhaseInStep, Patient, TypeOK
  <2> QED BY <1>2, <2>2, Parity DEF BurstFire, WavesLeft
<1>3. ASSUME NEW q \in Pin, OneShotFire(q) PROVE oneShot'[p] \/ burst' \/ tpc' = "arm"
  <2>1. p # q /\ oneShot'[p] = oneShot[p] /\ pin'[p] = pin[p]
    BY <1>3 DEF OneShotFire, TypeOK
  <2> QED BY <1>1, <1>3, <2>1 DEF OneShotFire, burstVars
<1>4. CASE ThreadArm
  BY <1>4 DEF ThreadArm
<1>5. CASE ThreadExternal \/ ThreadInternal
  BY <1>5 DEF ThreadExternal, ThreadInternal
<1>6. CASE ThreadWake \/ ThreadCount \/ ThreadMask \/ ThreadClear
  BY <1>1, <1>6 DEF ThreadWake, ThreadCount, ThreadMask, ThreadClear, pinVars, burstVars
<1>7. CASE Edge \/ Ioctl \/ UNCHANGED vars
  BY <1>1, <1>7 DEF Edge, Ioctl, SetMode, InternalWake, InternalMask, ExternalZero, ExternalOpen,
                    TriggerMask, TriggerOpen, vars, pinVars, burstVars
<1> QED BY <1>2, <1>3, <1>4, <1>5, <1>6, <1>7 DEF Next, ThreadStep, Timer

LEMMA BurstInvariant == ASSUME 0 \notin Num PROVE Spec => []BurstInv
<1>1. Init => BurstInv
  <2> SUFFICES ASSUME Init PROVE BurstInv
    OBVIOUS
  <2>1. SettingIsReal /\ BurstAlone /\ WavesLeft
    BY DEF Init, SettingIsReal, BurstAlone, WavesLeft, Working
  <2>2. PhaseInStep /\ HighPinIsTimed
    BY DEF Init, PhaseInStep, HighPinIsTimed
  <2> QED BY <2>1, <2>2 DEF BurstInv
<1>2. TypeOK /\ BurstInv /\ [Next]_vars => BurstInv'
  BY ModeAndThread, WaveStep, PinStep, UserStays DEF BurstInv, Patient
<1> QED BY <1>1, <1>2, TypeCorrect, PTL DEF Spec

(* The static phase of the square wave is back at low whenever no burst runs, so the *)
(* next one begins with a rising edge, unless the user is hasty.                     *)
THEOREM PhaseComesBack == ASSUME 0 \notin Num PROVE Spec => []PhaseInStep
<1>1. BurstInv => PhaseInStep
  BY DEF BurstInv, Patient, PhaseInStep
<1> QED BY <1>1, BurstInvariant, PTL

(* A raised pin always has a queued timer, or a thread about to start one, that will *)
(* lower it: the safety half of PinsGoLow.                                           *)
THEOREM HighPinTimed == ASSUME 0 \notin Num PROVE Spec => []HighPinIsTimed
<1>1. BurstInv => HighPinIsTimed
  BY DEF BurstInv, Patient, HighPinIsTimed
<1> QED BY <1>1, BurstInvariant, PTL
-----------------------------------------------------------------------------
(***************************************************************************)
(* The quota of an external session, for the strict user.                  *)
(***************************************************************************)
\* A session begins behind a masked input, so no edge meets the call, and at rest.
CallsAtRest ==
    /\ ipc \in {"ext_zero", "ext_open"} => ~Working /\ light.mode = 1 /\ ~irqOn
    /\ ipc = "ext_open" => countNum = 0
    /\ ipc \in {"int_wake", "int_mask"} => light.mode = 0
    /\ ipc # "reopen"

\* A picture on its way is within the quota, and the input is open only for one that
\* is, or until the thread has masked it.
QuotaKept ==
    light.mode = 1 /\ ipc = "idle" =>
        /\ countNum <= light.num
        /\ tpc # "wait" => thread_flag = 1
        /\ thread_flag = 1 /\ tpc \in {"wait", "branch", "arm", "count"} => countNum < light.num
        /\ irqOn => countNum < light.num \/ tpc = "mask"

QuotaInv == user = "strict" => CallsAtRest /\ QuotaKept

LEMMA QuotaStep ==
    ASSUME TypeOK, user = "strict", 0 \notin Num, SettingIsReal, BurstAlone, CallsAtRest, QuotaKept,
           [Next]_vars
    PROVE  CallsAtRest' /\ QuotaKept'
<1>1. light.num \in Nat /\ countNum \in Nat /\ (light.mode = 1 => light.num # 0)
  <2>1. (light.num \in Num \/ light.num = 0) /\ countNum \in Nat
    BY DEF TypeOK
  <2>2. light.mode = 1 => light.num \in Num
    BY DEF SettingIsReal
  <2>3. light.num \in Nat
    <3>1. CASE light.num \in Num
      BY <3>1, NumAssumption
    <3>2. CASE light.num = 0
      BY <3>2
    <3> QED BY <2>1, <3>1, <3>2
  <2>4. light.mode = 1 => light.num \in Nat \ {0}
    BY <2>2, NumAssumption
  <2> QED BY <2>1, <2>3, <2>4
<1> USE DEF TypeOK, CallsAtRest, QuotaKept, Working
<1>2. CASE UNCHANGED vars
  BY <1>2 DEF vars
<1>3. CASE Edge
  BY <1>3, <1>1 DEF Edge
<1>4. ASSUME NEW s \in Setting, SetMode(s) PROVE CallsAtRest' /\ QuotaKept'
  BY <1>4 DEF SetMode, Setting, Resting
<1>5. CASE InternalWake \/ InternalMask \/ TriggerMask \/ TriggerOpen
  BY <1>5 DEF InternalWake, InternalMask, TriggerMask, TriggerOpen
<1>6. CASE ExternalZero \/ ExternalOpen
  BY <1>6, <1>1 DEF ExternalZero, ExternalOpen
<1>7. CASE ThreadWake \/ ThreadInternal \/ ThreadExternal \/ ThreadArm
  BY <1>7, <1>1 DEF ThreadWake, ThreadInternal, ThreadExternal, ThreadArm, BurstAlone
<1>8. CASE ThreadCount
  BY <1>8, <1>1 DEF ThreadCount, BurstAlone
<1>9. CASE ThreadMask \/ ThreadClear
  BY <1>9, <1>1 DEF ThreadMask, ThreadClear, BurstAlone
<1>10. CASE BurstFire
  BY <1>10 DEF BurstFire
<1>11. ASSUME NEW p \in Pin, OneShotFire(p) PROVE CallsAtRest' /\ QuotaKept'
  BY <1>11 DEF OneShotFire
<1> QED
  BY <1>2, <1>3, <1>4, <1>5, <1>6, <1>7, <1>8, <1>9, <1>10, <1>11 DEF Next, Ioctl, ThreadStep, Timer

(* A strict user gets no picture beyond camNum, however many edges come and wherever *)
(* they fall between the thread's count and its mask.                                *)
THEOREM QuotaHolds == ASSUME 0 \notin Num PROVE Spec => []NoExtraExposure
<1>1. Init => QuotaInv
  BY DEF Init, QuotaInv, CallsAtRest, QuotaKept, Working
<1>2. TypeOK /\ BurstInv /\ QuotaInv /\ [Next]_vars => QuotaInv'
  BY QuotaStep, UserStays DEF QuotaInv, BurstInv, Patient
<1>3. QuotaInv => NoExtraExposure
  BY DEF QuotaInv, QuotaKept, NoExtraExposure
<1> QED BY <1>1, <1>2, <1>3, TypeCorrect, BurstInvariant, PTL DEF Spec
-----------------------------------------------------------------------------
(***************************************************************************)
(* The helpers that mask and unmask the trigger line, IrqCtrl, whose       *)
(* callers may overlap as they like.  The strengthening says, of a line on *)
(* which no two calls have raced, that one caller at most is past its test *)
(* and how far flag and depth are apart at each of that caller's labels.   *)
(***************************************************************************)
At(c, l) == at[c] \in Passed /\ on[c] = l

OnePassed == \A l \in Lines \ raced, c, d \in Callers : At(c, l) /\ At(d, l) => c = d

PassedState ==
    \A l \in Lines \ raced, c \in Callers : on[c] = l =>
        /\ at[c] = "dis_call" => depth[l] = 0 /\ ~disabled[l]
        /\ at[c] = "dis_set"  => depth[l] = 1 /\ ~disabled[l]
        /\ at[c] = "ena_call" => depth[l] = 1 /\ disabled[l]
        /\ at[c] = "ena_set"  => depth[l] = 0 /\ disabled[l]

RaceInv == IrqTypeOK /\ OnePassed /\ PassedState /\ FlagTellsTruth

(* The variables keep their types, however callers overlap. *)
THEOREM IrqTypeCorrect == IrqSpec => []IrqTypeOK
<1>1. IrqInit => IrqTypeOK
  BY DEF IrqInit, IrqTypeOK, Label
<1>2. IrqTypeOK /\ [IrqNext]_irqVars => IrqTypeOK'
  <2> SUFFICES ASSUME IrqTypeOK, [IrqNext]_irqVars PROVE IrqTypeOK'
    OBVIOUS
  <2>1. CASE UNCHANGED irqVars
    BY <2>1 DEF IrqTypeOK, irqVars
  <2>2. ASSUME NEW c \in Callers, NEW l \in Lines, Mask(c, l) \/ Unmask(c, l) \/ Reprogram(c, l)
        PROVE  IrqTypeOK'
    BY <2>2 DEF IrqTypeOK, Mask, Unmask, Reprogram, Enter, Label
  <2>3. ASSUME NEW c \in Callers, Step(c)
        PROVE  IrqTypeOK'
    <3>1. CASE DisableTest(c)
      <4>1. CASE disabled[on[c]]
        BY <3>1, <4>1 DEF DisableTest, IrqTypeOK, LeaveMask, Go, Label
      <4>2. CASE ~disabled[on[c]]
        BY <3>1, <4>2 DEF DisableTest, IrqTypeOK, Pass, Go, Label, Passed
      <4> QED BY <4>1, <4>2
    <3>2. CASE DisableCall(c)
      BY <3>2 DEF DisableCall, IrqTypeOK, Go, Label, Passed
    <3>3. CASE DisableSet(c)
      BY <3>3 DEF DisableSet, IrqTypeOK, LeaveMask, Go, Label
    <3>4. CASE EnableTest(c)
      BY <3>4 DEF EnableTest, IrqTypeOK, Pass, Go, Label, Passed
    <3>5. CASE EnableCall(c)
      BY <3>5 DEF EnableCall, IrqTypeOK, Go, Label, Passed
    <3>6. CASE EnableSet(c)
      BY <3>6 DEF EnableSet, IrqTypeOK, Go, Label
    <3> QED BY <2>3, <3>1, <3>2, <3>3, <3>4, <3>5, <3>6 DEF Step
  <2> QED BY <2>1, <2>2, <2>3 DEF IrqNext
<1> QED BY <1>1, <1>2, PTL DEF IrqSpec

(* Entering the helpers touches no line and passes no test. *)
LEMMA EnterKeeps ==
    ASSUME RaceInv, IrqTypeOK', NEW c \in Callers, NEW l \in Lines,
           NEW label \in {"dis_test", "ena_test"}, Enter(c, l, label)
    PROVE  RaceInv'
<1>1. UNCHANGED <<disabled, depth, raced>>
  BY DEF Enter
<1>2. at[c] \notin Passed /\ at'[c] \notin Passed /\ \A d \in Callers : d # c => at'[d] = at[d] /\ on'[d] = on[d]
  BY DEF Enter, RaceInv, IrqTypeOK, Passed
<1>3. OnePassed'
  BY <1>1, <1>2 DEF RaceInv, OnePassed, At
<1>4. PassedState'
  BY <1>1, <1>2 DEF RaceInv, PassedState, Passed
<1>5. FlagTellsTruth'
  BY <1>1, <1>2 DEF RaceInv, FlagTellsTruth, Truth
<1> QED BY <1>3, <1>4, <1>5 DEF RaceInv

(* A caller that goes past its test on a line that stays free of races     *)
(* finds nobody there and the flag true.                                   *)
LEMMA PassFindsTruth ==
    ASSUME RaceInv, NEW c \in Callers, NEW from \in {"dis_test", "ena_test"}, NEW to,
           Pass(c, from, to), on[c] \notin raced'
    PROVE  /\ \A d \in Callers \ {c} : ~At(d, on[c])
           /\ Truth(on[c])
<1>1. on[c] \in Lines \ raced /\ at[c] \notin Passed
  BY DEF Pass, Go, RaceInv, IrqTypeOK, Passed
<1>2. \A d \in Callers \ {c} : ~At(d, on[c])
  BY DEF Pass, At
<1> QED BY <1>1, <1>2 DEF RaceInv, FlagTellsTruth, At

(* A step of c leaves the other lines and the other callers alone.         *)
LEMMA StepIsLocal ==
    ASSUME RaceInv, NEW c \in Callers, Step(c)
    PROVE  /\ on' = on /\ on[c] \in Lines
           /\ \A d \in Callers \ {c} : at'[d] = at[d]
           /\ \A l \in Lines \ {on[c]} : disabled'[l] = disabled[l] /\ depth'[l] = depth[l]
           /\ raced \subseteq raced' /\ raced' \subseteq raced \cup {on[c]}
<1> USE DEF RaceInv, IrqTypeOK, Go
<1>1. CASE DisableTest(c)
  BY <1>1 DEF DisableTest, LeaveMask, Pass
<1>2. CASE DisableCall(c)
  BY <1>2 DEF DisableCall
<1>3. CASE DisableSet(c)
  BY <1>3 DEF DisableSet, LeaveMask
<1>4. CASE EnableTest(c)
  BY <1>4 DEF EnableTest, Pass
<1>5. CASE EnableCall(c)
  BY <1>5 DEF EnableCall
<1>6. CASE EnableSet(c)
  BY <1>6 DEF EnableSet
<1> QED BY <1>1, <1>2, <1>3, <1>4, <1>5, <1>6 DEF Step

(* A step inside the helpers keeps flag and depth where the label says.    *)
LEMMA StepKeeps ==
    ASSUME RaceInv, IrqTypeOK', NEW c \in Callers, Step(c)
    PROVE  RaceInv'
<1> DEFINE l == on[c]
<1>1. /\ on' = on /\ l \in Lines
      /\ \A d \in Callers \ {c} : at'[d] = at[d]
      /\ \A k \in Lines \ {l} : disabled'[k] = disabled[k] /\ depth'[k] = depth[k]
      /\ raced \subseteq raced' /\ raced' \subseteq raced \cup {l}
  BY StepIsLocal
<1> HIDE DEF l
\* The line the step works on, if it is still free of races.
<1>2. ASSUME l \notin raced'
      PROVE  /\ \A d \in Callers \ {c} : at'[c] \in Passed => ~(at[d] \in Passed /\ on[d] = l)
             /\ at'[c] = "dis_call" => depth'[l] = 0 /\ ~disabled'[l]
             /\ at'[c] = "dis_set"  => depth'[l] = 1 /\ ~disabled'[l]
             /\ at'[c] = "ena_call" => depth'[l] = 1 /\ disabled'[l]
             /\ at'[c] = "ena_set"  => depth'[l] = 0 /\ disabled'[l]
             /\ at[c] \in Passed => \A d \in Callers \ {c} : ~(at[d] \in Passed /\ on[d] = l)
             /\ at'[c] \notin Passed /\ at[c] \in Passed =>
                  depth'[l] = IF disabled'[l] THEN 1 ELSE 0
             /\ at[c] \notin Passed => UNCHANGED <<disabled, depth>>
  <2>0. /\ l \in Lines \ raced
        /\ at[c] \in Passed => \A d \in Callers \ {c} : ~(at[d] \in Passed /\ on[d] = l)
        /\ at \in [Callers -> Label] /\ depth \in [Lines -> Nat] /\ disabled \in [Lines -> BOOLEAN]
    BY <1>1, <1>2 DEF RaceInv, OnePassed, At, IrqTypeOK, l
  <2>1. CASE DisableTest(c)
    <3>1. CASE disabled[l]
      <4>1. at'[c] \in {"ena_test", "out"} /\ at[c] = "dis_test" /\ UNCHANGED <<disabled, depth>>
        BY <2>0, <2>1, <3>1 DEF DisableTest, LeaveMask, Go, l
      <4> QED BY <2>0, <4>1 DEF Passed
    <3>2. CASE ~disabled[l]
      <4>1. Pass(c, "dis_test", "dis_call") /\ UNCHANGED <<disabled, depth>>
        BY <2>1, <3>2 DEF DisableTest, l
      <4>2. at[c] = "dis_test" /\ at'[c] = "dis_call"
        BY <2>0, <4>1 DEF Pass, Go
      <4>3. (\A d \in Callers \ {c} : ~At(d, l)) /\ Truth(l)
        BY <1>2, <4>1, PassFindsTruth DEF l
      <4> QED BY <2>0, <3>2, <4>1, <4>2, <4>3 DEF Passed, Truth, At
    <3> QED BY <3>1, <3>2
  <2>2. CASE EnableTest(c)
    <3>1. CASE ~disabled[l]
      <4>1. at'[c] = "out" /\ at[c] = "ena_test" /\ UNCHANGED <<disabled, depth>>
        BY <2>0, <2>2, <3>1 DEF EnableTest, Go, l
      <4> QED BY <2>0, <4>1 DEF Passed
    <3>2. CASE disabled[l]
      <4>1. Pass(c, "ena_test", "ena_call") /\ UNCHANGED <<disabled, depth>>
        BY <2>2, <3>2 DEF EnableTest, l
      <4>2. at[c] = "ena_test" /\ at'[c] = "ena_call"
        BY <2>0, <4>1 DEF Pass, Go
      <4>3. (\A d \in Callers \ {c} : ~At(d, l)) /\ Truth(l)
        BY <1>2, <4>1, PassFindsTruth DEF l
      <4> QED BY <2>0, <3>2, <4>1, <4>2, <4>3 DEF Passed, Truth, At
    <3> QED BY <3>1, <3>2
  <2>3. CASE DisableCall(c)
    BY <2>0, <2>3 DEF DisableCall, Go, RaceInv, PassedState, Passed, l
  <2>4. CASE DisableSet(c)
    BY <2>0, <2>4 DEF DisableSet, LeaveMask, Go, RaceInv, PassedState, Passed, Truth, l
  <2>5. CASE EnableCall(c)
    BY <2>0, <2>5 DEF EnableCall, Go, RaceInv, PassedState, Passed, l
  <2>6. CASE EnableSet(c)
    BY <2>0, <2>6 DEF EnableSet, Go, RaceInv, PassedState, Passed, Truth, l
  <2> QED BY <2>1, <2>2, <2>3, <2>4, <2>5, <2>6 DEF Step
<1>3. OnePassed'
  <2> SUFFICES ASSUME NEW k \in Lines \ raced', NEW d \in Callers, NEW e \in Callers, d # e,
                      at'[d] \in Passed, at'[e] \in Passed, on[d] = k, on[e] = k
               PROVE  FALSE
    BY <1>1 DEF OnePassed, At
  <2>1. CASE d # c /\ e # c
    BY <2>1, <1>1 DEF RaceInv, OnePassed, At
  <2>2. CASE d = c
    BY <2>2, <1>1, <1>2 DEF l
  <2>3. CASE e = c
    BY <2>3, <1>1, <1>2 DEF l
  <2> QED BY <2>1, <2>2, <2>3
<1>4. PassedState'
  <2> SUFFICES ASSUME NEW k \in Lines \ raced', NEW d \in Callers, on[d] = k
               PROVE  /\ at'[d] = "dis_call" => depth'[k] = 0 /\ ~disabled'[k]
                      /\ at'[d] = "dis_set"  => depth'[k] = 1 /\ ~disabled'[k]
                      /\ at'[d] = "ena_call" => depth'[k] = 1 /\ disabled'[k]
                      /\ at'[d] = "ena_set"  => depth'[k] = 0 /\ disabled'[k]
    BY <1>1 DEF PassedState
  <2>1. CASE d = c
    BY <2>1, <1>2 DEF l
  <2>2. CASE d # c /\ k # l
    BY <2>2, <1>1 DEF RaceInv, PassedState
  <2>3. CASE d # c /\ k = l /\ at[c] \in Passed
    <3>1. at'[d] \notin Passed
      BY <2>3, <1>1, <1>2
    <3> QED BY <3>1 DEF Passed
  <2>4. CASE d # c /\ k = l /\ at[c] \notin Passed
    BY <2>4, <1>1, <1>2 DEF RaceInv, PassedState
  <2> QED BY <2>1, <2>2, <2>3, <2>4
<1>5. FlagTellsTruth'
  <2> SUFFICES ASSUME NEW k \in Lines \ raced', \A d \in Callers : at'[d] \in Passed => on[d] # k
               PROVE  Truth(k)'
    BY <1>1 DEF FlagTellsTruth
  <2>1. CASE k # l
    <3>1. \A d \in Callers : at[d] \in Passed => on[d] # k
      BY <2>1, <1>1 DEF l
    <3> QED BY <2>1, <3>1, <1>1 DEF RaceInv, FlagTellsTruth, Truth
  <2>2. CASE k = l /\ at[c] \in Passed
    <3>1. at'[c] \notin Passed
      BY <2>2 DEF l
    <3>2. depth'[l] = IF disabled'[l] THEN 1 ELSE 0
      BY <2>2, <3>1, <1>2
    <3> QED BY <2>2, <3>2 DEF Truth
  <2>3. CASE k = l /\ at[c] \notin Passed
    BY <2>3, <1>1, <1>2 DEF RaceInv, FlagTellsTruth, Truth
  <2> QED BY <2>1, <2>2, <2>3
<1> QED BY <1>3, <1>4, <1>5 DEF RaceInv

(* However calls overlap on any lines, the flag of a line is wrong only    *)
(* where two of them were once between test and store together.            *)
THEOREM RacesAloneLie == IrqSpec => []FlagTellsTruth
<1>1. IrqInit => RaceInv
  BY DEF IrqInit, RaceInv, IrqTypeOK, Label, OnePassed, PassedState, FlagTellsTruth, Truth, At, Passed
<1>2. RaceInv /\ IrqTypeOK' /\ [IrqNext]_irqVars => RaceInv'
  <2> SUFFICES ASSUME RaceInv, IrqTypeOK', [IrqNext]_irqVars PROVE RaceInv'
    OBVIOUS
  <2>1. CASE UNCHANGED irqVars
    BY <2>1 DEF RaceInv, OnePassed, PassedState, FlagTellsTruth, Truth, At, irqVars
  <2>2. ASSUME NEW c \in Callers, NEW l \in Lines, Mask(c, l) \/ Unmask(c, l) \/ Reprogram(c, l)
        PROVE  RaceInv'
    BY <2>2, EnterKeeps DEF Mask, Unmask, Reprogram
  <2>3. ASSUME NEW c \in Callers, Step(c)
        PROVE  RaceInv'
    BY <2>3, StepKeeps
  <2> QED BY <2>1, <2>2, <2>3 DEF IrqNext
<1>3. RaceInv => FlagTellsTruth
  BY DEF RaceInv
<1> QED BY <1>1, <1>2, <1>3, IrqTypeCorrect, PTL DEF IrqSpec
=============================================================================
