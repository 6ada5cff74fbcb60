------------------------------- MODULE Expo2D -------------------------------
(***************************************************************************)
(* The 2D exposure service of iomanager.c: IO_2D_SET_MODE_PARAM, the edge  *)
(* handler of input 0, the thread ext_2d_exposure_fn and its three timers. *)
(*                                                                         *)
(* Mode 0 (internal): the thread starts a burst of sync_num square waves   *)
(* on both output pins, driven by one periodic timer.  Mode 1 (external):  *)
(* an edge on input 0 wakes the thread, which raises both pins and starts  *)
(* a one-shot timer for each; after camNum exposures it masks the input.   *)
(*                                                                         *)
(* m_disable_irq and m_enable_irq are one step each here; module IrqCtrl   *)
(* looks inside them.  Initialising a queued hrtimer again, as setUsrPwm- *)
(* Func does when a burst still runs, is modelled as a restart.            *)
(***************************************************************************)
EXTENDS Integers

CONSTANTS
    Num,      \* values of sync_num and camNum, the same byte of the union
    Users,    \* the kinds of application, see SetMode and TriggerMask
    MaxCount  \* bound: edges of input 0 stop at this count

ASSUME NumAssumption   == Num \subseteq Nat
ASSUME UsersAssumption == Users \subseteq {"strict", "reopens", "hasty"}
ASSUME CountAssumption == MaxCount \in Nat

VARIABLES
    user,         \* the application at hand, never changes
    light,        \* light_param: mode and the first byte of modeParam
    thread_flag,  \* wake-up flag of the thread
    countNum,     \* exposures of the external session
    irqOn,        \* input 0 delivers interrupts
    pin,          \* levels of RGBW_LED_TRIG ("trig") and IO_SET_OUT_SYNC ("sync")
    oneShot,      \* oneShot[p]: the external timer of pin p is queued
    burst,        \* the internal timer is queued
    state,        \* static bool state of expo_sync_timer_callback
    g_inter_pwm_count, g_inter_pwm_target_count,
    ipc, tpc      \* labels of the ioctl and of the thread

pinVars   == <<pin, oneShot>>
burstVars == <<burst, state, g_inter_pwm_count, g_inter_pwm_target_count>>
vars == <<user, light, thread_flag, countNum, irqOn, pinVars, burstVars, ipc, tpc>>

Pin == {"trig", "sync"}
Setting == [mode : {0, 1}, num : Num]
IoctlLabel  == {"idle", "int_wake", "int_mask", "ext_zero", "ext_open", "reopen"}
ThreadLabel == {"wait", "branch", "arm", "count", "mask", "clear"}

(* wq_2D is zeroed: mode 0 with no waves.                                  *)
Init ==
    /\ user \in Users
    /\ light = [mode |-> 0, num |-> 0] /\ thread_flag = 0 /\ countNum = 0 /\ irqOn = FALSE
    /\ pin = [p \in Pin |-> FALSE] /\ oneShot = [p \in Pin |-> FALSE]
    /\ burst = FALSE /\ state = FALSE
    /\ g_inter_pwm_count = 0 /\ g_inter_pwm_target_count = 1
    /\ ipc = "idle" /\ tpc = "wait"

-----------------------------------------------------------------------------
(* gpio_irq_handler for input 0.                                           *)
Edge ==
    /\ irqOn /\ light.mode = 1 /\ countNum < MaxCount
    /\ thread_flag' = 1
    /\ UNCHANGED <<user, light, countNum, irqOn, pinVars, burstVars, ipc, tpc>>

Resting == /\ ~burst /\ \A p \in Pin : ~oneShot[p]
           /\ tpc = "wait" /\ thread_flag = 0

(* IO_2D_SET_MODE_PARAM: the argument lands in light_param, which the      *)
(* handler and the thread read, before anything else happens.  Only a      *)
(* hasty user sets a mode before the service rests; a strict one also      *)
(* begins an external session only when the input is masked, for an edge   *)
(* that meets the call would be a picture of neither session.              *)
SetMode(s) ==
    /\ ipc = "idle" /\ (user = "hasty" \/ Resting)
    /\ (user = "strict" /\ s.mode = 1) => ~irqOn
    /\ light' = s
    /\ ipc' = IF s.mode = 0 THEN "int_wake" ELSE "ext_zero"
    /\ UNCHANGED <<user, thread_flag, countNum, irqOn, pinVars, burstVars, tpc>>

InternalWake ==
    /\ ipc = "int_wake" /\ ipc' = "int_mask"
    /\ thread_flag' = 1
    /\ UNCHANGED <<user, light, countNum, irqOn, pinVars, burstVars, tpc>>

InternalMask ==
    /\ ipc = "int_mask" /\ ipc' = "idle"
    /\ irqOn' = FALSE
    /\ UNCHANGED <<user, light, thread_flag, countNum, pinVars, burstVars, tpc>>

ExternalZero ==
    /\ ipc = "ext_zero" /\ ipc' = "ext_open"
    /\ countNum' = 0
    /\ UNCHANGED <<user, light, thread_flag, irqOn, pinVars, burstVars, tpc>>

ExternalOpen ==
    /\ ipc = "ext_open" /\ ipc' = "idle"
    /\ irqOn' = TRUE
    /\ UNCHANGED <<user, light, thread_flag, countNum, pinVars, burstVars, tpc>>

(* IO_SET_IO_TRIGGER_PARAM on input 0 masks and then always opens it.      *)
TriggerMask ==
    /\ user = "reopens" /\ ipc = "idle" /\ ipc' = "reopen"
    /\ irqOn' = FALSE
    /\ UNCHANGED <<user, light, thread_flag, countNum, pinVars, burstVars, tpc>>

TriggerOpen ==
    /\ ipc = "reopen" /\ ipc' = "idle"
    /\ irqOn' = TRUE
    /\ UNCHANGED <<user, light, thread_flag, countNum, pinVars, burstVars, tpc>>

Ioctl == (\E s \in Setting : SetMode(s)) \/ InternalWake \/ InternalMask \/ ExternalZero
            \/ ExternalOpen \/ TriggerMask \/ TriggerOpen

-----------------------------------------------------------------------------
(* ext_2d_exposure_fn.  The flag is cleared only at the end of a pass.     *)
ThreadWake ==
    /\ tpc = "wait" /\ thread_flag # 0
    /\ tpc' = "branch"
    /\ UNCHANGED <<user, light, thread_flag, countNum, irqOn, pinVars, burstVars, ipc>>

(* setUsrPwmFunc: counters reset, timer from the high phase on; the static *)
(* state of the callback is not touched.                                   *)
ThreadInternal ==
    /\ tpc = "branch" /\ light.mode = 0
    /\ g_inter_pwm_target_count' = light.num
    /\ g_inter_pwm_count' = 0
    /\ burst' = TRUE
    /\ tpc' = "clear"
    /\ UNCHANGED <<user, light, thread_flag, countNum, irqOn, pinVars, state, ipc>>

ThreadExternal ==
    /\ tpc = "branch" /\ light.mode = 1
    /\ pin' = [p \in Pin |-> TRUE]
    /\ tpc' = "arm"
    /\ UNCHANGED <<user, light, thread_flag, countNum, irqOn, oneShot, burstVars, ipc>>

ThreadArm ==
    /\ tpc = "arm"
    /\ oneShot' = [p \in Pin |-> TRUE]
    /\ tpc' = "count"
    /\ UNCHANGED <<user, light, thread_flag, countNum, irqOn, pin, burstVars, ipc>>

(* Mutant of ThreadCount: the comparison is strict. *)
ThreadCountOneMore ==
    /\ tpc = "count"
    /\ countNum' = countNum + 1
    /\ tpc' = IF countNum + 1 > light.num THEN "mask" ELSE "clear"
    /\ UNCHANGED <<user, light, thread_flag, irqOn, pinVars, burstVars, ipc>>

ThreadCount ==
    /\ tpc = "count"
    /\ countNum' = countNum + 1
    /\ tpc' = IF countNum + 1 >= light.num THEN "mask" ELSE "clear"
    /\ UNCHANGED <<user, light, thread_flag, irqOn, pinVars, burstVars, ipc>>

ThreadMask ==
    /\ tpc = "mask"
    /\ irqOn' = FALSE
    /\ tpc' = "clear"
    /\ UNCHANGED <<user, light, thread_flag, countNum, pinVars, burstVars, ipc>>

ThreadClear ==
    /\ tpc = "clear"
    /\ thread_flag' = 0
    /\ tpc' = "wait"
    /\ UNCHANGED <<user, light, countNum, irqOn, pinVars, burstVars, ipc>>

ThreadStep == ThreadWake \/ ThreadInternal \/ ThreadExternal \/ ThreadArm \/ ThreadCount
                 \/ ThreadMask \/ ThreadClear

-----------------------------------------------------------------------------
(* Mutant of OneShotFire: the pin is not lowered. *)
OneShotFireKeepsPin(p) ==
    /\ oneShot[p]
    /\ oneShot' = [oneShot EXCEPT ![p] = FALSE]
    /\ pin' = pin
    /\ UNCHANGED <<user, light, thread_flag, countNum, irqOn, burstVars, ipc, tpc>>

(* ext_sensor_xtrig_timer_callback and ext_out_sync_timer_callback.        *)
OneShotFire(p) ==
    /\ oneShot[p]
    /\ oneShot' = [oneShot EXCEPT ![p] = FALSE]
    /\ pin' = [pin EXCEPT ![p] = FALSE]
    /\ UNCHANGED <<user, light, thread_flag, countNum, irqOn, burstVars, ipc, tpc>>

(* Mutant of BurstFire: one half wave too many. *)
BurstFireOneMore ==
    /\ burst
    /\ pin' = [p \in Pin |-> ~state]
    /\ state' = ~state
    /\ g_inter_pwm_count' = g_inter_pwm_count + 1
    /\ burst' = (g_inter_pwm_count + 1 <= g_inter_pwm_target_count * 2)
    /\ UNCHANGED <<user, light, thread_flag, countNum, irqOn, oneShot, g_inter_pwm_target_count,
                   ipc, tpc>>

(* expo_sync_timer_callback: the pins follow the static state.             *)
BurstFire ==
    /\ burst
    /\ pin' = [p \in Pin |-> ~state]
    /\ state' = ~state
    /\ g_inter_pwm_count' = g_inter_pwm_count + 1
    /\ burst' = (g_inter_pwm_count + 1 < g_inter_pwm_target_count * 2)
    /\ UNCHANGED <<user, light, thread_flag, countNum, irqOn, oneShot, g_inter_pwm_target_count,
                   ipc, tpc>>

Timer == BurstFire \/ \E p \in Pin : OneShotFire(p)

Next == Edge \/ Ioctl \/ ThreadStep \/ Timer

Spec == Init /\ [][Next]_vars

(* The thread runs when it is runnable and a queued timer expires.         *)
Fairness == WF_vars(ThreadStep) /\ WF_vars(BurstFire) /\ \A p \in Pin : WF_vars(OneShotFire(p))

FairSpec == Spec /\ Fairness
-----------------------------------------------------------------------------
(* Type invariant. *)
TypeOK ==
    /\ user \in Users
    /\ light \in [mode : {0, 1}, num : Num \cup {0}]
    /\ thread_flag \in {0, 1} /\ countNum \in Nat /\ irqOn \in BOOLEAN
    /\ pin \in [Pin -> BOOLEAN] /\ oneShot \in [Pin -> BOOLEAN]
    /\ burst \in BOOLEAN /\ state \in BOOLEAN
    /\ g_inter_pwm_count \in Nat /\ g_inter_pwm_target_count \in Nat
    /\ ipc \in IoctlLabel /\ tpc \in ThreadLabel

(* camNum is the number of pictures to take: a session never takes more,   *)
(* even when edges arrive while the thread masks the input.  It needs a    *)
(* user who neither reopens the input nor begins a session in an open one. *)
NoExtraExposure ==
    (user = "strict" /\ ipc = "idle" /\ light.mode = 1) => countNum <= light.num

(* A pin that is high has somebody on the way who will lower it, however   *)
(* the input is reopened between and during sessions.  Only a mode set     *)
(* while a burst runs (a hasty user) leaves a pin to nobody.               *)
HighPinIsTimed ==
    \A p \in Pin : (user # "hasty" /\ pin[p]) => oneShot[p] \/ burst \/ tpc = "arm"

(* The phase of the square wave: while a burst runs it agrees with the     *)
(* parity of the half waves done, and between bursts it is back at low, so *)
(* the next burst begins with a rising edge.  A hasty user breaks it.      *)
PhaseInStep ==
    user # "hasty" => state = (burst /\ g_inter_pwm_count % 2 = 1)

(* A high pin goes low again.                                              *)
PinsGoLow == \A p \in Pin : (user # "hasty" /\ pin[p]) ~> ~pin[p]
=============================================================================
