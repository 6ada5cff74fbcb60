------------------------------ MODULE OutPulse ------------------------------
(***************************************************************************)
(* One output pin of iomanager.c: IO_SET_OUT, out_pulse_thread_fn and the  *)
(* timer my_thread_hrtTimer_func.  Every pin has its own WORK_STRUCT,      *)
(* thread and timer, so one pin stands for all.  Pins 0 and 3 are also     *)
(* written by the 2D service (its thread and timers, module Expo2D), pin 3 *)
(* by the burst (module RgbBurst): for those two shared may be TRUE, and   *)
(* Others is whatever these services do.                                   *)
(*                                                                         *)
(* The ioctl overwrites the command in place and raises thread_flag; the   *)
(* thread reads the command field by field and lowers the flag at the end  *)
(* of the pass; the callback reads defaultState when it fires.             *)
(***************************************************************************)
EXTENDS Integers

CONSTANTS
    Bytes,  \* values of outState and defaultState the application passes
    Holds,  \* values of "holdTime is not 0" the application uses
    Pacings \* the kinds of application: when it sends the next command

ASSUME BytesAssumption  == Bytes \subseteq Nat /\ 0 \in Bytes
ASSUME HoldsAssumption  == Holds \subseteq BOOLEAN /\ Holds # {}
ASSUME PacingAssumption == Pacings \subseteq {"settled", "handled", "free"}

VARIABLES
    pacing,       \* the application at hand, never changes: see MaySend
    shared,       \* another service drives the pin too, never changes
    param,        \* the command: outState, defaultState, hold
    thread_flag,  \* wake-up flag of the thread
    pin,          \* level of the GPIO
    hrtTimer,     \* the timer is queued
    ipc, tpc      \* labels of the ioctl and of the thread

vars == <<pacing, shared, param, thread_flag, pin, hrtTimer, ipc, tpc>>

Level   == {0, 1}
Command == [outState : Bytes, defaultState : Bytes, hold : BOOLEAN]
Idle    == ipc = "idle" /\ thread_flag = 0 /\ tpc = "wait"

(* gpiod_set_value: every value but 0 is high. *)
Logic(v) == IF v = 0 THEN 0 ELSE 1

(* "free": at any moment.  "handled": once the thread is done with the     *)
(* previous command.  "settled": once the pulse is over too.               *)
MaySend ==
    /\ ipc = "idle"
    /\ pacing # "free" => Idle
    /\ pacing = "settled" => ~hrtTimer

(* The WORK_STRUCT is zeroed, the pin requested low.                       *)
Init ==
    /\ pacing \in Pacings /\ shared \in BOOLEAN
    /\ param = [outState |-> 0, defaultState |-> 0, hold |-> FALSE]
    /\ thread_flag = 0 /\ pin = 0 /\ hrtTimer = FALSE
    /\ ipc = "idle" /\ tpc = "wait"
-----------------------------------------------------------------------------
SetOutCopy ==
    /\ MaySend
    /\ param' \in [outState : Bytes, defaultState : Bytes, hold : Holds]
    /\ ipc' = "wake"
    /\ UNCHANGED <<pacing, shared, thread_flag, pin, hrtTimer, tpc>>

SetOutWake ==
    /\ ipc = "wake" /\ ipc' = "idle"
    /\ thread_flag' = 1
    /\ UNCHANGED <<pacing, shared, param, pin, hrtTimer, tpc>>

ThreadWake ==
    /\ tpc = "wait" /\ thread_flag # 0
    /\ tpc' = "test"
    /\ UNCHANGED <<pacing, shared, param, thread_flag, pin, hrtTimer, ipc>>

ThreadTest ==
    /\ tpc = "test"
    /\ tpc' = IF param.hold THEN "pulse" ELSE "level"
    /\ UNCHANGED <<pacing, shared, param, thread_flag, pin, hrtTimer, ipc>>

(* Mutant of ThreadLevel: the default is written. *)
ThreadLevelDefault ==
    /\ tpc = "level" /\ tpc' = "clear"
    /\ pin' = Logic(param.defaultState)
    /\ UNCHANGED <<pacing, shared, param, thread_flag, hrtTimer, ipc>>

ThreadLevel ==
    /\ tpc = "level" /\ tpc' = "clear"
    /\ pin' = Logic(param.outState)
    /\ UNCHANGED <<pacing, shared, param, thread_flag, hrtTimer, ipc>>

ThreadPulse ==
    /\ tpc = "pulse" /\ tpc' = "arm"
    /\ pin' = Logic(param.outState)
    /\ UNCHANGED <<pacing, shared, param, thread_flag, hrtTimer, ipc>>

(* Mutant of ThreadArm: a timer is started only for a level. *)
ThreadArmNoTimer ==
    /\ tpc = "arm" /\ tpc' = "clear"
    /\ hrtTimer' = ~param.hold
    /\ UNCHANGED <<pacing, shared, param, thread_flag, pin, ipc>>

(* hrtimer_start restarts a timer that is still queued.                    *)
ThreadArm ==
    /\ tpc = "arm" /\ tpc' = "clear"
    /\ hrtTimer' = TRUE
    /\ UNCHANGED <<pacing, shared, param, thread_flag, pin, ipc>>

ThreadClear ==
    /\ tpc = "clear" /\ tpc' = "wait"
    /\ thread_flag' = 0
    /\ UNCHANGED <<pacing, shared, param, pin, hrtTimer, ipc>>

ThreadStep == ThreadWake \/ ThreadTest \/ ThreadLevel \/ ThreadPulse \/ ThreadArm \/ ThreadClear

(* Mutant of TimerFire: the pin keeps the pulse level. *)
TimerFireOutState ==
    /\ hrtTimer
    /\ hrtTimer' = FALSE
    /\ pin' = Logic(param.outState)
    /\ UNCHANGED <<pacing, shared, param, thread_flag, ipc, tpc>>

TimerFire ==
    /\ hrtTimer
    /\ hrtTimer' = FALSE
    /\ pin' = Logic(param.defaultState)
    /\ UNCHANGED <<pacing, shared, param, thread_flag, ipc, tpc>>

(* expo_sync_timer_callback, the one-shot timers and the thread of the 2D  *)
(* service, and the callback of the burst.                                 *)
Others ==
    /\ shared
    /\ pin' \in Level
    /\ UNCHANGED <<pacing, shared, param, thread_flag, hrtTimer, ipc, tpc>>

Next == SetOutCopy \/ SetOutWake \/ ThreadStep \/ TimerFire \/ Others

Spec == Init /\ [][Next]_vars

(* The ioctl runs to its end, a runnable thread runs, a queued timer fires. *)
Fairness == WF_vars(SetOutWake) /\ WF_vars(ThreadStep) /\ WF_vars(TimerFire)
FairSpec == Spec /\ Fairness
-----------------------------------------------------------------------------
(* Type invariant. *)
TypeOK ==
    /\ pacing \in Pacings /\ shared \in BOOLEAN
    /\ param \in Command /\ thread_flag \in {0, 1} /\ pin \in Level
    /\ hrtTimer \in BOOLEAN /\ ipc \in {"idle", "wake"}
    /\ tpc \in {"wait", "test", "level", "pulse", "arm", "clear"}

(* Pulses may overlap if commands do not: once all is over the pin is at   *)
(* the defaultState of the latest pulse, if the pin is not shared.         *)
RestsAtDefault ==
    (pacing # "free" /\ ~shared /\ Idle /\ ~hrtTimer /\ param.hold) => pin = Logic(param.defaultState)

(* A pulse that is asked for is given, if its command is not rewritten     *)
(* under the thread and the pin is not shared; and whatever commands come  *)
(* meanwhile and whoever else drives the pin, a pulse that was begun is    *)
(* followed by the defaultState of the command in force.                   *)
PulseGivenAndOver ==
    /\ (pacing # "free" /\ ~shared /\ ipc = "wake" /\ param.hold)
          ~> (tpc = "arm" /\ pin = Logic(param.outState))
    /\ tpc = "arm" ~> pin = Logic(param.defaultState)

(* What the pin, the command and the service are for PulseOutput.          *)
Phase == IF ipc = "wake" \/ (tpc = "wait" /\ thread_flag = 1) \/ tpc \in {"test", "level", "pulse"}
         THEN "asked"
         ELSE IF hrtTimer \/ tpc = "arm" THEN "pulse" ELSE "steady"

Wanted == [outState |-> Logic(param.outState), defaultState |-> Logic(param.defaultState),
           hold |-> param.hold]
Promise == INSTANCE PulseOutput WITH level <- pin, want <- Wanted, phase <- Phase

(* A pin that is not shared obeys an application that waits for the end of *)
(* its pulses: the steps of such a behaviour are steps of PulseOutput.     *)
PinObeys ==
    /\ Promise!Init
    /\ [][pacing = "settled" /\ ~shared => [Promise!Next]_(Promise!vars)]_vars
-----------------------------------------------------------------------------
(* IO_PLUSE_SET.holdTime: 0 means hold for ever.  So once the thread has   *)
(* handled such a command the pin keeps the outState until the next one.   *)
LevelStays == (Idle /\ ~param.hold) => pin = Logic(param.outState)
=============================================================================
