------------------------------ MODULE RgbBurst ------------------------------
(***************************************************************************)
(* The RGBW burst of iomanager.c without a projector: IO_SET_RGB_PARAM     *)
(* says how long, IO_SET_SINGLE_RGB_TRIG says which lamps, rgb_flash_fn    *)
(* starts the timer and rgb_single_set_callback plays three stages per     *)
(* lamp: lamp and TRIG on, lamp off, TRIG off.  For a lamp whose second    *)
(* stage has length 0 the last two are played in one callback.             *)
(*                                                                         *)
(* Both ioctls write what the callback and the thread read.  The linkage   *)
(* is off here (rgb_mode = 0), else IO_SET_SINGLE_RGB_TRIG does nothing.   *)
(* The linkage drives the same lamps and the 2D service the same TRIG pin; *)
(* neither is in this module: it says what a burst alone does with them.   *)
(*                                                                         *)
(* num is a byte that nothing compares with the size of the tables.  With  *)
(* more than Lamps the loops of rgb_param_legal_check write behind the     *)
(* stage tables and the callback reads behind g_stage_index: the model     *)
(* takes any lengths for the former and any lamp for the latter.           *)
(***************************************************************************)
EXTENDS Integers, Sequences

CONSTANTS
    Lamps,   \* number of RGBW lamps: 4 in the code
    Params,  \* values of num in IO_SET_RGB_PARAM, a byte
    Waits    \* the kinds of application: TRUE waits for the end of a burst

(* The stages of all lamps can be counted in a byte. *)
ASSUME LampsAssumption ==
    /\ Lamps \in Nat \ {0} /\ 3 * Lamps < 256
    /\ Params \subseteq 0..255 /\ Waits \subseteq BOOLEAN

VARIABLES
    waits,               \* the application at hand waits, never changes
    g_stage_index,       \* the lamps of the burst, in order
    g_stage_2,           \* g_stage_2[i]: the lamp is off before TRIG is
    num,                 \* wq_rgb->rgb_param.num
    thread_flag,         \* wake-up flag of the thread
    g_pwm_target_count,  \* stages to play, a byte
    g_pwm_count, g_state, \* stages played, stage to play modulo 3
    timer,               \* pwm_timer is queued
    lamp, trig,          \* levels of the lamps and of IO_RES_SET_TRIG_SENSOR
    ipc, cnt,            \* the ioctl: label and the count it will store in num
    tpc,                 \* label of the thread
    asked,               \* the selection of the latest IO_SET_SINGLE_RGB_TRIG
    shot,                \* history, if it waits: lamps lit since the burst began
    overlong             \* history: a target beyond the tables was set for this burst

paramVars == <<waits, g_stage_index, g_stage_2, num>>
stageVars == <<g_pwm_target_count, g_pwm_count, g_state, timer, overlong>>
outVars   == <<lamp, trig, shot>>
ioctlVars == <<ipc, cnt, asked>>
vars == <<paramVars, thread_flag, stageVars, outVars, ioctlVars, tpc>>

Lamp == 0..(Lamps - 1)

(* What the loop over rgbw_on can put together: lamps by rising index.     *)
Selections ==
    UNION {{s \in [1..n -> Lamp] : \A i, j \in 1..n : i < j => s[i] < s[j]} : n \in 0..Lamps}

(* The loop overwrites the first entries of g_stage_index only.            *)
Overwrite(old, new) == [k \in 1..Lamps |-> IF k <= Len(new) THEN new[k] ELSE old[k]]

Init ==
    /\ waits \in Waits
    /\ g_stage_index = [k \in 1..Lamps |-> 0] /\ g_stage_2 = [i \in Lamp |-> FALSE] /\ num = 0
    /\ thread_flag = 0
    /\ g_pwm_target_count = 0 /\ g_pwm_count = 0 /\ g_state = 0 /\ timer = FALSE
    /\ overlong = FALSE
    /\ lamp = [i \in Lamp |-> FALSE] /\ trig = FALSE /\ shot = <<>>
    /\ ipc = "idle" /\ cnt = 0 /\ asked = <<>> /\ tpc = "wait"

Resting == ipc = "idle" /\ thread_flag = 0 /\ tpc = "wait" /\ ~timer
MayCall == ipc = "idle" /\ (waits => Resting)
-----------------------------------------------------------------------------
(* IO_SET_RGB_PARAM: rgb_param_legal_check writes the stage lengths, then  *)
(* the whole rgb_param is replaced, num included.  expoSensor is one of    *)
(* the exposure times, so at least that lamp has no second stage.          *)
RgbParamCheck ==
    /\ MayCall /\ ipc' = "store"
    /\ cnt' \in Params
    /\ \E two \in SUBSET Lamp :
          /\ cnt' \in 1..Lamps => ~(0..(cnt' - 1) \subseteq two)
          /\ g_stage_2' = [i \in Lamp |-> IF i < cnt' THEN i \in two ELSE g_stage_2[i]]
    /\ UNCHANGED <<waits, g_stage_index, num, thread_flag, stageVars, outVars, asked, tpc>>

RgbParamCopy ==
    /\ ipc = "store" /\ ipc' = "idle"
    /\ num' = cnt /\ cnt' = 0
    /\ UNCHANGED <<waits, g_stage_index, g_stage_2, thread_flag, stageVars, outVars, asked, tpc>>

(* IO_SET_SINGLE_RGB_TRIG: without a lamp it returns before the wake-up.   *)
TrigSelect ==
    /\ MayCall /\ ipc' = "num"
    /\ asked' \in Selections
    /\ g_stage_index' = Overwrite(g_stage_index, asked')
    /\ cnt' = Len(asked')
    /\ UNCHANGED <<waits, g_stage_2, num, thread_flag, stageVars, outVars, tpc>>

TrigNum ==
    /\ ipc = "num" /\ ipc' = IF cnt = 0 THEN "idle" ELSE "wake"
    /\ num' = cnt /\ cnt' = 0
    /\ UNCHANGED <<waits, g_stage_index, g_stage_2, thread_flag, stageVars, outVars, asked, tpc>>

TrigWake ==
    /\ ipc = "wake" /\ ipc' = "idle"
    /\ thread_flag' = 1
    /\ UNCHANGED <<paramVars, stageVars, outVars, cnt, asked, tpc>>

Ioctl == RgbParamCheck \/ RgbParamCopy \/ TrigSelect \/ TrigNum \/ TrigWake
-----------------------------------------------------------------------------
(* rgb_flash_fn: the target is written before the test for a burst that    *)
(* still runs, and the flag is lowered whether a burst was started or not. *)
ThreadWake ==
    /\ tpc = "wait" /\ thread_flag # 0
    /\ tpc' = IF num = 0 THEN "clear" ELSE "target"
    /\ UNCHANGED <<paramVars, thread_flag, stageVars, outVars, ioctlVars>>

(* The history of targets starts anew with a burst. *)
NoteTarget == overlong' = ((timer /\ overlong) \/ g_pwm_target_count' > 3 * Lamps)

(* Mutant of ThreadTarget: lamps are counted, not stages. *)
ThreadTargetLamps ==
    /\ tpc = "target" /\ tpc' = "check"
    /\ g_pwm_target_count' = num /\ NoteTarget
    /\ UNCHANGED <<paramVars, thread_flag, g_pwm_count, g_state, timer, outVars, ioctlVars>>

ThreadTarget ==
    /\ tpc = "target" /\ tpc' = "check"
    /\ g_pwm_target_count' = (num * 3) % 256 /\ NoteTarget
    /\ UNCHANGED <<paramVars, thread_flag, g_pwm_count, g_state, timer, outVars, ioctlVars>>

ThreadCheck ==
    /\ tpc = "check" /\ tpc' = IF g_pwm_count # 0 THEN "clear" ELSE "start"
    /\ UNCHANGED <<paramVars, thread_flag, stageVars, outVars, ioctlVars>>

(* A timer that is queued already is wiped and started anew.               *)
ThreadStart ==
    /\ tpc = "start" /\ tpc' = "clear"
    /\ g_pwm_count' = 0 /\ g_state' = 0 /\ timer' = TRUE
    /\ shot' = <<>>
    /\ UNCHANGED <<paramVars, thread_flag, g_pwm_target_count, overlong, lamp, trig, ioctlVars>>

ThreadClear ==
    /\ tpc = "clear" /\ tpc' = "wait"
    /\ thread_flag' = 0
    /\ UNCHANGED <<paramVars, stageVars, outVars, ioctlVars>>

ThreadStep == ThreadWake \/ ThreadTarget \/ ThreadCheck \/ ThreadStart \/ ThreadClear
-----------------------------------------------------------------------------
Round == g_pwm_count \div 3

(* The lamp the callback reads: behind the table it may find any.          *)
IsMIndex(i) == i \in Lamp /\ (Round < Lamps => i = g_stage_index[Round + 1])

(* Mutant of Advance: g_state is not reset. *)
AdvanceKeepsState(stages) ==
    LET done == g_pwm_count + stages >= g_pwm_target_count IN
    /\ g_pwm_count' = IF done THEN 0 ELSE g_pwm_count + stages
    /\ g_state' = g_state + stages
    /\ timer' = ~done

(* The end of the callback, after it has played `stages` stages.           *)
Advance(stages) ==
    LET done == g_pwm_count + stages >= g_pwm_target_count IN
    /\ g_pwm_count' = IF done THEN 0 ELSE g_pwm_count + stages
    /\ g_state' = IF done THEN 0 ELSE g_state + stages
    /\ timer' = ~done

(* Mutant of LampOn: TRIG is not raised. *)
LampOnNoTrig ==
    /\ timer /\ g_state % 3 = 0
    /\ trig' = trig
    /\ \E mIndex \in Lamp :
          /\ IsMIndex(mIndex) /\ lamp' = [lamp EXCEPT ![mIndex] = TRUE]
          /\ shot' = IF waits THEN Append(shot, mIndex) ELSE shot
    /\ Advance(1)
    /\ UNCHANGED <<paramVars, thread_flag, g_pwm_target_count, overlong, ioctlVars, tpc>>

LampOn ==
    /\ timer /\ g_state % 3 = 0
    /\ trig' = TRUE
    /\ \E mIndex \in Lamp :
          /\ IsMIndex(mIndex) /\ lamp' = [lamp EXCEPT ![mIndex] = TRUE]
          /\ shot' = IF waits THEN Append(shot, mIndex) ELSE shot
    /\ Advance(1)
    /\ UNCHANGED <<paramVars, thread_flag, g_pwm_target_count, overlong, ioctlVars, tpc>>

LampOff ==
    /\ timer /\ g_state % 3 = 1
    /\ \E mIndex \in Lamp :
          /\ IsMIndex(mIndex) /\ lamp' = [lamp EXCEPT ![mIndex] = FALSE]
          /\ \/ g_stage_2[mIndex] /\ Advance(1) /\ UNCHANGED trig
             \/ ~g_stage_2[mIndex] /\ Advance(2) /\ trig' = FALSE
    /\ UNCHANGED <<paramVars, thread_flag, g_pwm_target_count, overlong, shot, ioctlVars, tpc>>

(* Mutant of TrigOff: the counters do not advance. *)
TrigOffStuck ==
    /\ timer /\ g_state % 3 = 2
    /\ trig' = FALSE
    /\ UNCHANGED <<g_pwm_count, g_state, timer>>
    /\ UNCHANGED <<paramVars, thread_flag, g_pwm_target_count, overlong, lamp, shot, ioctlVars, tpc>>

TrigOff ==
    /\ timer /\ g_state % 3 = 2
    /\ trig' = FALSE
    /\ Advance(1)
    /\ UNCHANGED <<paramVars, thread_flag, g_pwm_target_count, overlong, lamp, shot, ioctlVars, tpc>>

TimerFire == LampOn \/ LampOff \/ TrigOff

Next == Ioctl \/ ThreadStep \/ TimerFire

Spec == Init /\ [][Next]_vars

(* A runnable thread runs and a queued timer fires.                        *)
Fairness == WF_vars(ThreadStep) /\ WF_vars(TimerFire)
FairSpec == Spec /\ Fairness
-----------------------------------------------------------------------------
(* Type invariant. *)
TypeOK ==
    /\ waits \in Waits
    /\ g_stage_index \in [1..Lamps -> Lamp] /\ g_stage_2 \in [Lamp -> BOOLEAN]
    /\ num \in 0..255 /\ thread_flag \in {0, 1} /\ g_pwm_target_count \in 0..255
    /\ g_pwm_count \in Nat /\ g_state \in Nat /\ timer \in BOOLEAN /\ overlong \in BOOLEAN
    /\ lamp \in [Lamp -> BOOLEAN] /\ trig \in BOOLEAN /\ shot \in Seq(Lamp)
    /\ ipc \in {"idle", "store", "num", "wake"} /\ cnt \in 0..255
    /\ tpc \in {"wait", "target", "check", "start", "clear"}
    /\ asked \in Seq(Lamp)

(* However the ioctls and the thread rewrite a burst that plays, the two   *)
(* counters of the callback stay in step, and it leaves g_stage_index only *)
(* in a burst for which the thread itself set more stages than the tables  *)
(* hold: an earlier burst and a num the thread did not read do no harm.    *)
StageInRange ==
    /\ g_pwm_count = g_state
    /\ Round >= Lamps => overlong
    /\ ~timer => g_pwm_count = 0

(* usr_io.h:57: num is at most four, as many as the tables have entries.   *)
(* Fails: rgb_param_legal_check does not look, and the callback reads      *)
(* behind the last entry when such a num reaches the thread after a        *)
(* selection of lamps.                                                     *)
BurstInTable == timer => Round < Lamps

(* A lamp lights only inside the sensor's exposure, and only one at a      *)
(* time, when nobody reconfigures the burst while it runs.                 *)
LampInsideTrig ==
    waits => \A i \in Lamp : lamp[i] =>
                 trig /\ timer /\ \A j \in Lamp : lamp[j] => i = j

(* When a burst is over every selected lamp was lit once, in rising order. *)
BurstComplete == (waits /\ Resting /\ asked # <<>>) => shot = asked

(* A burst ends, and leaves the outputs dark.                              *)
Dark == ~trig /\ \A i \in Lamp : ~lamp[i]
BurstEnds == (waits /\ timer) ~> (~timer /\ Dark)
-----------------------------------------------------------------------------
(* One configuration stands for num rounds (IO_RGB_SET in usr_io.h), each  *)
(* of which ends with its lamp and TRIG off: at rest nothing is lit.       *)
RestIsDark == Resting => Dark
=============================================================================
