------------------------------ MODULE LedFlash ------------------------------
(***************************************************************************)
(* One status LED (or the beeper) of iomanager.c: IO_SET_FLASH_LED,        *)
(* my_led_flash_fn and its periodic timer thread_flash_led_func.           *)
(*                                                                         *)
(* The callback counts half periods in g_led_flash_count and compares the  *)
(* count with the times of the command in place, which the ioctl may have  *)
(* overwritten.  times = 0 lights the LED and leaves the timer alone.  The *)
(* period only sets the pace, whatever its value.                          *)
(***************************************************************************)
EXTENDS Integers

CONSTANTS
    Times,  \* values of times the application passes
    Pacings \* the kinds of application: when it sends the next command

ASSUME TimesAssumption  == Times \subseteq Nat
ASSUME PacingAssumption == Pacings \subseteq {"settled", "handled", "free"}

VARIABLES
    pacing,             \* the application at hand, never changes: see MaySend
    flash_param,        \* times of the latest command
    thread_flag,        \* wake-up flag of the thread
    led,                \* level of the GPIO
    hrtTimer,           \* the timer is queued
    g_led_flash_count,  \* half periods of this flash
    ipc, tpc,           \* labels of the ioctl and of the thread
    blinks              \* history: rising edges since the thread started the flash

vars == <<pacing, flash_param, thread_flag, led, hrtTimer, g_led_flash_count, ipc, tpc, blinks>>

Idle == ipc = "idle" /\ thread_flag = 0 /\ tpc = "wait"

(* "free": at any moment.  "handled": once the thread is done with the     *)
(* previous command.  "settled": once its flash is over too.               *)
MaySend ==
    /\ ipc = "idle"
    /\ pacing # "free" => Idle
    /\ pacing = "settled" => ~hrtTimer

Init ==
    /\ pacing \in Pacings
    /\ flash_param = 0 /\ thread_flag = 0 /\ led = FALSE /\ hrtTimer = FALSE
    /\ g_led_flash_count = 0 /\ ipc = "boot" /\ tpc = "wait" /\ blinks = 0
-----------------------------------------------------------------------------
(* The first command finds ipc = "boot": no command was handled before.    *)
SetFlashCopy ==
    /\ MaySend \/ ipc = "boot"
    /\ flash_param' \in Times
    /\ ipc' = "wake"
    /\ UNCHANGED <<pacing, thread_flag, led, hrtTimer, g_led_flash_count, tpc, blinks>>

SetFlashWake ==
    /\ ipc = "wake" /\ ipc' = "idle"
    /\ thread_flag' = 1
    /\ UNCHANGED <<pacing, flash_param, led, hrtTimer, g_led_flash_count, tpc, blinks>>

(* Mutant of ThreadWake: times = 0 is treated like a flash. *)
ThreadWakeNoHold ==
    /\ tpc = "wait" /\ thread_flag # 0
    /\ tpc' = "cancel"
    /\ UNCHANGED <<pacing, flash_param, thread_flag, led, hrtTimer, g_led_flash_count, ipc, blinks>>

ThreadWake ==
    /\ tpc = "wait" /\ thread_flag # 0
    /\ tpc' = IF flash_param = 0 THEN "hold" ELSE "cancel"
    /\ UNCHANGED <<pacing, flash_param, thread_flag, led, hrtTimer, g_led_flash_count, ipc, blinks>>

ThreadHold ==
    /\ tpc = "hold" /\ tpc' = "clear"
    /\ led' = TRUE
    /\ UNCHANGED <<pacing, flash_param, thread_flag, hrtTimer, g_led_flash_count, ipc, blinks>>

(* hrtimer_cancel waits for a running callback.                            *)
ThreadCancel ==
    /\ tpc = "cancel" /\ tpc' = "zero"
    /\ hrtTimer' = FALSE
    /\ UNCHANGED <<pacing, flash_param, thread_flag, led, g_led_flash_count, ipc, blinks>>

(* Mutant of ThreadZero: the count is not reset. *)
ThreadZeroKeeps ==
    /\ tpc = "zero" /\ tpc' = "start"
    /\ g_led_flash_count' = g_led_flash_count /\ blinks' = 0
    /\ UNCHANGED <<pacing, flash_param, thread_flag, led, hrtTimer, ipc>>

ThreadZero ==
    /\ tpc = "zero" /\ tpc' = "start"
    /\ g_led_flash_count' = 0 /\ blinks' = 0
    /\ UNCHANGED <<pacing, flash_param, thread_flag, led, hrtTimer, ipc>>

ThreadStart ==
    /\ tpc = "start" /\ tpc' = "clear"
    /\ hrtTimer' = TRUE
    /\ UNCHANGED <<pacing, flash_param, thread_flag, led, g_led_flash_count, ipc, blinks>>

ThreadClear ==
    /\ tpc = "clear" /\ tpc' = "wait"
    /\ thread_flag' = 0
    /\ UNCHANGED <<pacing, flash_param, led, hrtTimer, g_led_flash_count, ipc, blinks>>

ThreadStep == ThreadWake \/ ThreadHold \/ ThreadCancel \/ ThreadZero \/ ThreadStart \/ ThreadClear

(* Mutant of TimerFire: the comparison is strict. *)
TimerFireStrict ==
    LET even == g_led_flash_count % 2 = 0
        more == 2 * flash_param > g_led_flash_count
    IN  /\ hrtTimer
        /\ led' = even
        /\ blinks' = IF even THEN blinks + 1 ELSE blinks
        /\ g_led_flash_count' = IF more THEN g_led_flash_count + 1 ELSE g_led_flash_count
        /\ hrtTimer' = more
        /\ UNCHANGED <<pacing, flash_param, thread_flag, ipc, tpc>>

(* Mutant of TimerFire: the timer restarts itself. *)
TimerFireRestarts ==
    LET even == g_led_flash_count % 2 = 0
        more == 2 * flash_param >= g_led_flash_count
    IN  /\ hrtTimer
        /\ led' = even
        /\ blinks' = IF even THEN blinks + 1 ELSE blinks
        /\ g_led_flash_count' = IF more THEN g_led_flash_count + 1 ELSE g_led_flash_count
        /\ hrtTimer' = TRUE
        /\ UNCHANGED <<pacing, flash_param, thread_flag, ipc, tpc>>

(* Even counts light the LED, odd ones put it out; the test comes after.   *)
TimerFire ==
    LET even == g_led_flash_count % 2 = 0
        more == 2 * flash_param >= g_led_flash_count
    IN  /\ hrtTimer
        /\ led' = even
        /\ blinks' = IF even THEN blinks + 1 ELSE blinks
        /\ g_led_flash_count' = IF more THEN g_led_flash_count + 1 ELSE g_led_flash_count
        /\ hrtTimer' = more
        /\ UNCHANGED <<pacing, flash_param, thread_flag, ipc, tpc>>

Next == SetFlashCopy \/ SetFlashWake \/ ThreadStep \/ TimerFire

Spec == Init /\ [][Next]_vars

(* The ioctl runs to its end, a runnable thread runs, a queued timer fires. *)
Fairness == WF_vars(SetFlashWake) /\ WF_vars(ThreadStep) /\ WF_vars(TimerFire)
FairSpec == Spec /\ Fairness
-----------------------------------------------------------------------------
(* Type invariant. *)
TypeOK ==
    /\ pacing \in Pacings
    /\ flash_param \in Times \cup {0} /\ thread_flag \in {0, 1} /\ led \in BOOLEAN
    /\ hrtTimer \in BOOLEAN /\ g_led_flash_count \in Nat /\ blinks \in Nat
    /\ ipc \in {"boot", "idle", "wake"}
    /\ tpc \in {"wait", "hold", "cancel", "zero", "start", "clear"}

(* Whatever command interrupts which flash, once the thread has handled it *)
(* and the timer is done, a flashing command leaves the LED dark.          *)
FlashEndsDark == (pacing # "free" /\ Idle /\ ~hrtTimer /\ flash_param # 0) => ~led

(* The LED is lit for each of the even half periods 0 to 2 * times, so     *)
(* exactly times + 1 times, one more than usr_io.h:51 says: a flash that   *)
(* interrupts another one has neither blinks of that one nor fewer of its  *)
(* own.                                                                    *)
BlinksCounted ==
    (pacing # "free" /\ Idle /\ ~hrtTimer /\ flash_param # 0) => blinks = flash_param + 1

(* What usr_io.h says of times, "number of flashes", for an application    *)
(* that waits for the end of each flash.  Fails by one.                    *)
BlinksAsTold ==
    (pacing = "settled" /\ Idle /\ ~hrtTimer /\ flash_param # 0) => blinks = flash_param

(* times = 0, sent when no flash is running, keeps the LED lit until the   *)
(* next command.                                                           *)
HoldStays == (pacing = "settled" /\ Idle /\ flash_param = 0) => led

(* A flash ends, however often times is rewritten under it.                *)
FlashEnds == hrtTimer ~> ~hrtTimer
=============================================================================
