------------------------------- MODULE DlpRgb -------------------------------
(***************************************************************************)
(* The DLP + RGB linkage of iomanager.c.                                   *)
(*                                                                         *)
(* A projector (DLP) makes the camera raise an edge on the xtrig line for  *)
(* every pattern and one on tout0 for every frame.  gpio_irq_handler       *)
(* counts both.  Once the xtrig count passes rgbTrigIndex the handler      *)
(* wakes irq_dlp_rgb_thread_fn, which lights the lamp the count selects    *)
(* and arms a one-shot hrtimer that puts that lamp out.  The ioctls of one *)
(* application configure the session, read its verdict and leave it.       *)
(*                                                                         *)
(* Four parties interleave: the ioctl caller (ipc), the xtrig handler      *)
(* (hpc), the kernel thread (tpc) and the timer.  A label of a program     *)
(* counter stands between two accesses to state another party also uses.   *)
(* A local variable is reset to 0 where its value is dead.                 *)
(* The application issues one ioctl at a time; several callers at once are *)
(* the subject of module IrqCtrl.                                          *)
(***************************************************************************)
EXTENDS Integers

CONSTANTS
    U8,         \* number of values of a u8: 256 in the code
    Lamps,      \* number of RGBW lamps: 4 in the code
    XtrigBoot,  \* xtrig_num after probe: 0x100, one above the largest u8
    ToutBoot,   \* tou_num after probe: 0xfff
    SyncDlp,    \* values of syncDlpNum the application passes
    SyncRgb,    \* values of syncRgbNum the application passes
    MaxXtrig,   \* bound: xtrig edges stop once the counter is here
    MaxTout     \* bound: tout0 edges stop once the counter is here

ASSUME U8Assumption    == U8 \in Nat /\ Lamps \in 1..U8
ASSUME BootAssumption  == XtrigBoot \in Nat /\ XtrigBoot >= U8 /\ ToutBoot \in Nat
ASSUME ParamAssumption == SyncDlp \subseteq 0..(U8 - 1) /\ SyncRgb \subseteq 0..(U8 - 1)
ASSUME BoundAssumption == MaxXtrig \in Nat /\ MaxTout \in Nat

VARIABLES
    xtrig_num, tou_num,           \* atomic_t edge counters
    rgbTrigIndex, totalTrigIndex, \* the session's boundaries
    rgb_enable, rgb_mode,         \* lamp permission, linkage on (1) or off (0)
    rgb_flag,                     \* wake-up flag of the thread
    last_irq_rgb,                 \* lamp the thread chose last
    lamp,                         \* lamp[i]: level of the lamp's GPIO
    timer,                        \* rgbTimer is queued
    irqOn,                        \* irqOn[l]: line l delivers interrupts
    ipc, req, cntX, cntT,         \* the ioctl: label, argument, locals index and index_tou
    hpc, hval,                    \* the xtrig handler: label and its local val
    tpc, mRgbIndex                \* the thread: label and its local

ioctlVars  == <<ipc, req, cntX, cntT>>
countVars  == <<xtrig_num, tou_num>>
configVars == <<rgbTrigIndex, totalTrigIndex, rgb_enable, rgb_mode>>
lampVars   == <<last_irq_rgb, lamp, timer>>
handlerVars == <<hpc, hval>>
threadVars == <<tpc, mRgbIndex>>
vars == <<countVars, configVars, rgb_flag, lampVars, irqOn, ioctlVars,
          handlerVars, threadVars>>

-----------------------------------------------------------------------------
Line    == {"xtrig", "tout0"}      \* CAM_XTRIG_1 and CAM_TOUT_0
Lamp    == 0..(Lamps - 1)
Byte    == 0..(U8 - 1)
SyncReq == [mode : {0, 1}, dlp : SyncDlp, rgb : SyncRgb]
NoReq   == [mode |-> 0, dlp |-> 0, rgb |-> 0]

IoctlLabel ==
    {"probe_x", "probe_x_off", "probe_t", "probe_t_off", "idle",
     "sync_x", "sync_t", "sync_bounds", "sync_enable", "sync_irq_x", "sync_irq_t",
     "clear_t", "clear_zero_x", "clear_zero_t", "clear_ret", "clear_off",
     "rgb_irq_x", "rgb_irq_t", "trig_x", "trig_t"}
ThreadLabel == {"wait", "bound", "count", "cancel", "light", "arm", "dead"}

(* A conversion to u8, and the u8 subtraction of line 804. *)
ToU8(n) == n % U8
LampIndex(count, boundary) == ToU8(count - boundary - 1)

(***************************************************************************)
(* After iomanager_probe has started the thread and before it requests the *)
(* interrupts: the counters hold their boot values, everything is dark.    *)
(***************************************************************************)
Init ==
    /\ xtrig_num = XtrigBoot /\ tou_num = ToutBoot
    /\ rgbTrigIndex = 0 /\ totalTrigIndex = 0
    /\ rgb_enable = 0 /\ rgb_mode = 0 /\ rgb_flag = 0
    /\ last_irq_rgb = 0 /\ lamp = [i \in Lamp |-> FALSE] /\ timer = FALSE
    /\ irqOn = [l \in Line |-> FALSE]
    /\ ipc = "probe_x" /\ req = NoReq /\ cntX = 0 /\ cntT = 0
    /\ hpc = "idle" /\ hval = 0
    /\ tpc = "wait" /\ mRgbIndex = 0

-----------------------------------------------------------------------------
(***************************************************************************)
(* Interrupts.  The handler increments first and compares later, and the   *)
(* boundary it compares with may change between the two.                   *)
(***************************************************************************)
XtrigIrq ==
    /\ irqOn["xtrig"] /\ hpc = "idle" /\ xtrig_num < MaxXtrig
    /\ xtrig_num' = xtrig_num + 1
    /\ IF xtrig_num + 1 > U8 - 1
       THEN UNCHANGED handlerVars
       ELSE hpc' = "compare" /\ hval' = xtrig_num + 1
    /\ UNCHANGED <<tou_num, configVars, rgb_flag, lampVars, irqOn, ioctlVars, threadVars>>

XtrigIrqCompare ==
    /\ hpc = "compare"
    /\ rgb_flag' = IF hval > rgbTrigIndex THEN 1 ELSE rgb_flag
    /\ hpc' = "idle" /\ hval' = 0
    /\ UNCHANGED <<countVars, configVars, lampVars, irqOn, ioctlVars, threadVars>>

ToutIrq ==
    /\ irqOn["tout0"] /\ tou_num < MaxTout
    /\ tou_num' = tou_num + 1
    /\ UNCHANGED <<xtrig_num, configVars, rgb_flag, lampVars, irqOn, ioctlVars,
                   handlerVars, threadVars>>

(* disable_irq returns once no handler of the line runs; both helpers are  *)
(* no-ops when the line already is in the state asked for.                 *)
m_disable_irq(l) ==
    /\ l = "xtrig" => hpc = "idle"
    /\ irqOn' = [irqOn EXCEPT ![l] = FALSE]
m_enable_irq(l) == irqOn' = [irqOn EXCEPT ![l] = TRUE]

-----------------------------------------------------------------------------
(***************************************************************************)
(* The kernel thread irq_dlp_rgb_thread_fn and its timer.                  *)
(***************************************************************************)
(* Mutant of ThreadWake: the wake-up flag is not lowered. *)
ThreadWakeKeepsFlag ==
    /\ tpc = "wait" /\ rgb_flag # 0
    /\ rgb_flag' = rgb_flag
    /\ tpc' = "bound"
    /\ UNCHANGED <<countVars, configVars, lampVars, irqOn, ioctlVars, handlerVars, mRgbIndex>>

ThreadWake ==
    /\ tpc = "wait" /\ rgb_flag # 0
    /\ rgb_flag' = 0
    /\ tpc' = "bound"
    /\ UNCHANGED <<countVars, configVars, lampVars, irqOn, ioctlVars, handlerVars, mRgbIndex>>

ThreadReadBound ==
    /\ tpc = "bound"
    /\ mRgbIndex' = ToU8(rgbTrigIndex)
    /\ tpc' = "count"
    /\ UNCHANGED <<countVars, configVars, rgb_flag, lampVars, irqOn, ioctlVars, handlerVars>>

(* Mutant of ThreadReadCount: a queued timer is not noticed. *)
ThreadReadCountUntimed ==
    LET i == LampIndex(ToU8(xtrig_num), mRgbIndex) IN
    /\ tpc = "count"
    /\ mRgbIndex' = 0
    /\ \/ i \notin Lamp /\ tpc' = "wait" /\ UNCHANGED last_irq_rgb
       \/ /\ i \in Lamp
          /\ last_irq_rgb' = i
          /\ tpc' = "light"
    /\ UNCHANGED <<countVars, configVars, rgb_flag, lamp, timer, irqOn, ioctlVars, handlerVars>>

(* Reads the counter and decides.  A timer that is still queued makes the  *)
(* thread cancel it and return for good.                                   *)
ThreadReadCount ==
    LET i == LampIndex(ToU8(xtrig_num), mRgbIndex) IN
    /\ tpc = "count"
    /\ mRgbIndex' = 0
    /\ \/ i \notin Lamp /\ tpc' = "wait" /\ UNCHANGED last_irq_rgb
       \/ i \in Lamp /\ timer /\ tpc' = "cancel" /\ UNCHANGED last_irq_rgb
       \/ /\ i \in Lamp /\ ~timer
          /\ last_irq_rgb' = i
          /\ tpc' = "light"
    /\ UNCHANGED <<countVars, configVars, rgb_flag, lamp, timer, irqOn, ioctlVars, handlerVars>>

(* Mutant of ThreadLight: rgb_enable is not tested. *)
ThreadLightAnyTime ==
    /\ tpc = "light"
    /\ lamp' = [lamp EXCEPT ![last_irq_rgb] = TRUE]
    /\ tpc' = "arm"
    /\ UNCHANGED <<countVars, configVars, rgb_flag, last_irq_rgb, timer, irqOn,
                   ioctlVars, handlerVars, mRgbIndex>>

ThreadLight ==
    /\ tpc = "light"
    /\ IF rgb_enable = 1
       THEN lamp' = [lamp EXCEPT ![last_irq_rgb] = TRUE] /\ tpc' = "arm"
       ELSE tpc' = "wait" /\ UNCHANGED lamp
    /\ UNCHANGED <<countVars, configVars, rgb_flag, last_irq_rgb, timer, irqOn,
                   ioctlVars, handlerVars, mRgbIndex>>

(* Mutant of ThreadArm: the timer is not started. *)
ThreadArmNoTimer ==
    /\ tpc = "arm"
    /\ timer' = timer
    /\ tpc' = "wait"
    /\ UNCHANGED <<countVars, configVars, rgb_flag, last_irq_rgb, lamp, irqOn,
                   ioctlVars, handlerVars, mRgbIndex>>

ThreadArm ==
    /\ tpc = "arm"
    /\ timer' = TRUE
    /\ tpc' = "wait"
    /\ UNCHANGED <<countVars, configVars, rgb_flag, last_irq_rgb, lamp, irqOn,
                   ioctlVars, handlerVars, mRgbIndex>>

ThreadCancelAndReturn ==
    /\ tpc = "cancel"
    /\ timer' = FALSE
    /\ tpc' = "dead"
    /\ UNCHANGED <<countVars, configVars, rgb_flag, last_irq_rgb, lamp, irqOn,
                   ioctlVars, handlerVars, mRgbIndex>>

ThreadStep == ThreadWake \/ ThreadReadBound \/ ThreadReadCount \/ ThreadLight
                 \/ ThreadArm \/ ThreadCancelAndReturn

(* dlp_trig_rgb_func: puts out the lamp last_irq_rgb names at that moment. *)
TimerFire ==
    /\ timer
    /\ timer' = FALSE
    /\ lamp' = [lamp EXCEPT ![last_irq_rgb] = FALSE]
    /\ UNCHANGED <<countVars, configVars, rgb_flag, last_irq_rgb, irqOn, ioctlVars,
                   handlerVars, threadVars>>

-----------------------------------------------------------------------------
(***************************************************************************)
(* The rest of iomanager_probe: each line is requested, hence enabled, and *)
(* then disabled.  Only after that does the device node exist.             *)
(***************************************************************************)
ProbeRequest(l, from, to) ==
    /\ ipc = from /\ ipc' = to
    /\ m_enable_irq(l)
    /\ UNCHANGED <<countVars, configVars, rgb_flag, lampVars, req, cntX, cntT,
                   handlerVars, threadVars>>

ProbeDisable(l, from, to) ==
    /\ ipc = from /\ ipc' = to
    /\ m_disable_irq(l)
    /\ UNCHANGED <<countVars, configVars, rgb_flag, lampVars, req, cntX, cntT,
                   handlerVars, threadVars>>

Probe == \/ ProbeRequest("xtrig", "probe_x", "probe_x_off")
         \/ ProbeDisable("xtrig", "probe_x_off", "probe_t")
         \/ ProbeRequest("tout0", "probe_t", "probe_t_off")
         \/ ProbeDisable("tout0", "probe_t_off", "idle")

-----------------------------------------------------------------------------
(***************************************************************************)
(* IO_SET_GET_RGB_SYNC_SIGNAL, lines 678-710.  The pwm duty and the lamp   *)
(* times are set at the call; only their existence matters here.           *)
(***************************************************************************)
SyncCall ==
    /\ ipc = "idle"
    /\ req' \in SyncReq
    /\ ipc' = "sync_x"
    /\ UNCHANGED <<countVars, configVars, rgb_flag, lampVars, irqOn, cntX, cntT,
                   handlerVars, threadVars>>

SyncZeroXtrig ==
    /\ ipc = "sync_x" /\ ipc' = "sync_t"
    /\ xtrig_num' = 0
    /\ UNCHANGED <<tou_num, configVars, rgb_flag, lampVars, irqOn, req, cntX, cntT,
                   handlerVars, threadVars>>

SyncZeroTout ==
    /\ ipc = "sync_t" /\ ipc' = "sync_bounds"
    /\ tou_num' = 0
    /\ UNCHANGED <<xtrig_num, configVars, rgb_flag, lampVars, irqOn, req, cntX, cntT,
                   handlerVars, threadVars>>

SyncBounds ==
    /\ ipc = "sync_bounds" /\ ipc' = "sync_enable"
    /\ totalTrigIndex' = req.dlp
    /\ rgbTrigIndex' = req.rgb
    /\ UNCHANGED <<countVars, rgb_enable, rgb_mode, rgb_flag, lampVars, irqOn, req, cntX,
                   cntT, handlerVars, threadVars>>

SyncEnable ==
    /\ ipc = "sync_enable" /\ ipc' = "sync_irq_x"
    /\ rgb_enable' = 1
    /\ rgb_mode' = req.mode
    /\ req' = NoReq
    /\ UNCHANGED <<countVars, rgbTrigIndex, totalTrigIndex, rgb_flag, lampVars, irqOn,
                   cntX, cntT, handlerVars, threadVars>>

(* The lines follow the mode, xtrig first. *)
SyncIrq(l, from, to) ==
    /\ ipc = from /\ ipc' = to
    /\ IF rgb_mode = 0 THEN m_disable_irq(l) ELSE m_enable_irq(l)
    /\ UNCHANGED <<countVars, configVars, rgb_flag, lampVars, req, cntX, cntT,
                   handlerVars, threadVars>>

Sync == \/ SyncCall \/ SyncZeroXtrig \/ SyncZeroTout \/ SyncBounds \/ SyncEnable
        \/ SyncIrq("xtrig", "sync_irq_x", "sync_irq_t")
        \/ SyncIrq("tout0", "sync_irq_t", "idle")

-----------------------------------------------------------------------------
(***************************************************************************)
(* IO_SET_CLEAR_TRIG_COUNT, lines 711-741: read both counters as u8, zero  *)
(* them, judge what was read.                                              *)
(***************************************************************************)
ClearModeOff ==
    /\ ipc = "idle" /\ rgb_mode = 0
    /\ ipc' = "clear_off"
    /\ UNCHANGED <<countVars, configVars, rgb_flag, lampVars, irqOn, req, cntX, cntT,
                   handlerVars, threadVars>>

ClearReadXtrig ==
    /\ ipc = "idle" /\ rgb_mode # 0
    /\ cntX' = ToU8(xtrig_num)
    /\ ipc' = "clear_t"
    /\ UNCHANGED <<countVars, configVars, rgb_flag, lampVars, irqOn, req, cntT,
                   handlerVars, threadVars>>

ClearReadTout ==
    /\ ipc = "clear_t" /\ ipc' = "clear_zero_x"
    /\ cntT' = ToU8(tou_num)
    /\ UNCHANGED <<countVars, configVars, rgb_flag, lampVars, irqOn, req, cntX,
                   handlerVars, threadVars>>

ClearZeroXtrig ==
    /\ ipc = "clear_zero_x" /\ ipc' = "clear_zero_t"
    /\ xtrig_num' = 0
    /\ UNCHANGED <<tou_num, configVars, rgb_flag, lampVars, irqOn, req, cntX, cntT,
                   handlerVars, threadVars>>

ClearZeroTout ==
    /\ ipc = "clear_zero_t" /\ ipc' = "clear_ret"
    /\ tou_num' = 0
    /\ UNCHANGED <<xtrig_num, configVars, rgb_flag, lampVars, irqOn, req, cntX, cntT,
                   handlerVars, threadVars>>

(* What the ioctl returns: index = cntX, index_tou = cntT.                 *)
Verdict ==
    CASE ipc = "clear_off" -> 0
      [] cntX # cntT -> 3
      [] cntX = cntT /\ cntX = 0 -> 1
      [] cntX = cntT /\ cntX # 0 /\ cntX = totalTrigIndex -> 0
      [] OTHER -> 2

Returning == ipc \in {"clear_off", "clear_ret"}

ClearReturn ==
    /\ Returning
    /\ ipc' = "idle" /\ cntX' = 0 /\ cntT' = 0
    /\ UNCHANGED <<countVars, configVars, rgb_flag, lampVars, irqOn, req,
                   handlerVars, threadVars>>

Clear == ClearModeOff \/ ClearReadXtrig \/ ClearReadTout \/ ClearZeroXtrig
            \/ ClearZeroTout \/ ClearReturn

-----------------------------------------------------------------------------
(***************************************************************************)
(* IO_SET_RGB_PARAM, lines 606-630: leave the linkage.                     *)
(***************************************************************************)
(* Mutant of RgbParamCall: rgb_mode is not written. *)
RgbParamCallKeepsMode ==
    /\ ipc = "idle" /\ ipc' = "rgb_irq_x"
    /\ rgb_mode' = rgb_mode
    /\ UNCHANGED <<countVars, rgbTrigIndex, totalTrigIndex, rgb_enable, rgb_flag, lampVars,
                   irqOn, req, cntX, cntT, handlerVars, threadVars>>

RgbParamCall ==
    /\ ipc = "idle" /\ ipc' = "rgb_irq_x"
    /\ rgb_mode' = 0
    /\ UNCHANGED <<countVars, rgbTrigIndex, totalTrigIndex, rgb_enable, rgb_flag, lampVars,
                   irqOn, req, cntX, cntT, handlerVars, threadVars>>

RgbParamIrq(l, from, to) ==
    /\ ipc = from /\ ipc' = to
    /\ m_disable_irq(l)
    /\ UNCHANGED <<countVars, configVars, rgb_flag, lampVars, req, cntX, cntT,
                   handlerVars, threadVars>>

RgbParam == \/ RgbParamCall
            \/ RgbParamIrq("xtrig", "rgb_irq_x", "rgb_irq_t")
            \/ RgbParamIrq("tout0", "rgb_irq_t", "idle")

(***************************************************************************)
(* IO_SET_IO_TRIGGER_PARAM, lines 631-649, for num = 2 and num = 3: its    *)
(* range check is commented out, so it reaches these lines too, and it     *)
(* leaves them enabled whatever the mode.                                  *)
(***************************************************************************)
IoTriggerCall(l, to) ==
    /\ ipc = "idle" /\ ipc' = to
    /\ m_disable_irq(l)
    /\ UNCHANGED <<countVars, configVars, rgb_flag, lampVars, req, cntX, cntT,
                   handlerVars, threadVars>>

IoTriggerEnable(l, from) ==
    /\ ipc = from /\ ipc' = "idle"
    /\ m_enable_irq(l)
    /\ UNCHANGED <<countVars, configVars, rgb_flag, lampVars, req, cntX, cntT,
                   handlerVars, threadVars>>

IoTrigger == \/ IoTriggerCall("xtrig", "trig_x") \/ IoTriggerEnable("xtrig", "trig_x")
             \/ IoTriggerCall("tout0", "trig_t") \/ IoTriggerEnable("tout0", "trig_t")

-----------------------------------------------------------------------------
Irq == XtrigIrq \/ XtrigIrqCompare \/ ToutIrq

Next == Irq \/ ThreadStep \/ TimerFire \/ Probe \/ Sync \/ Clear \/ RgbParam \/ IoTrigger

Spec == Init /\ [][Next]_vars

(***************************************************************************)
(* The scheduler runs a runnable kernel thread, an armed hrtimer expires,  *)
(* a handler that started finishes.  Nothing makes the application or the  *)
(* camera act.                                                             *)
(***************************************************************************)
Fairness == WF_vars(ThreadStep) /\ WF_vars(TimerFire) /\ WF_vars(XtrigIrqCompare)

FairSpec == Spec /\ Fairness

-----------------------------------------------------------------------------
(* Type invariant. *)
TypeOK ==
    /\ xtrig_num \in Nat /\ tou_num \in Nat
    /\ rgbTrigIndex \in Byte /\ totalTrigIndex \in Byte
    /\ rgb_enable \in {0, 1} /\ rgb_mode \in {0, 1} /\ rgb_flag \in {0, 1}
    /\ last_irq_rgb \in Lamp /\ lamp \in [Lamp -> BOOLEAN] /\ timer \in BOOLEAN
    /\ irqOn \in [Line -> BOOLEAN]
    /\ ipc \in IoctlLabel /\ req \in SyncReq \cup {NoReq}
    /\ cntX \in Byte /\ cntT \in Byte
    /\ hpc \in {"idle", "compare"} /\ hval \in Nat
    /\ tpc \in ThreadLabel /\ mRgbIndex \in Byte

(* As long as the thread has not taken its early return, a lamp that is    *)
(* lit is the one last_irq_rgb names, and the timer that will put it out   *)
(* is queued or about to be.  The thread may choose another lamp only      *)
(* after the timer of the previous one is gone.                            *)
LitLampIsTimed ==
    tpc # "dead" =>
        \A i \in Lamp : lamp[i] => i = last_irq_rgb /\ (timer \/ tpc \in {"arm", "cancel"})

(* Never two lamps at once, not even after the thread has returned.        *)
AtMostOneLamp == \A i, j \in Lamp : lamp[i] /\ lamp[j] => i = j

(* No lamp lights before the first IO_SET_GET_RGB_SYNC_SIGNAL has set      *)
(* rgb_enable, whatever edges arrive at power-up, in the probe window or   *)
(* after IO_SET_IO_TRIGGER_PARAM has opened the xtrig line by itself.      *)
NoLampBeforeEnable == rgb_enable = 0 => \A i \in Lamp : ~lamp[i]

(* Between two ioctls the linkage never waits on a line that is masked:    *)
(* when it is on, both lines deliver.                                      *)
LinkageListens == (ipc = "idle" /\ rgb_mode = 1) => \A l \in Line : irqOn[l]

(* The timer is queued only for a lamp that is lit: it never fires for a   *)
(* lamp some other pass of the thread has lit or put out.                  *)
TimerHasLamp == timer => lamp[last_irq_rgb]

(* A lit lamp goes out, unless the thread takes its early return.          *)
LampGoesOut == \A i \in Lamp : lamp[i] ~> (~lamp[i] \/ tpc = "dead")

(* A wake-up is never lost: the thread consumes the flag or is dead.       *)
WakeUpServed == (rgb_flag = 1) ~> (rgb_flag = 0 \/ tpc = "dead")

-----------------------------------------------------------------------------
(***************************************************************************)
(* What the sources say of the linkage and the code does not keep.         *)
(***************************************************************************)
(* exposureTime of IO_RGB_SYNC_SIGNAL is the time a lamp stays on: a lamp  *)
(* that is lit always has its timer queued or about to be.                 *)
ExposureIsBounded == \A i \in Lamp : lamp[i] => timer \/ tpc \in {"arm", "cancel"}

(* IO_RGB_SYNC_SIGNAL.mode: 0 means that the projector flashes alone, with *)
(* no RGB lamp linked.  So no lamp lights once the ioctl that chose mode 0 *)
(* has returned and the xtrig line is masked.                              *)
NoLampInModeZero ==
    [][(ipc = "idle" /\ rgb_mode = 0 /\ ~irqOn["xtrig"])
          => \A i \in Lamp : lamp'[i] => lamp[i]]_vars

-----------------------------------------------------------------------------
(***************************************************************************)
(* The lamps as a user of the linkage sees them: module LampSequence.      *)
(***************************************************************************)
Abstract == INSTANCE LampSequence
                WITH lit <- {i \in Lamp : lamp[i]}, timed <- timer, gone <- (tpc = "dead")

(* Whatever the interrupts and ioctls do, the lamps follow LampSequence.   *)
LampsInSequence == Abstract!Spec
=============================================================================
