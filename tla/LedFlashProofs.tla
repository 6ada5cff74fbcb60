--------------------------- MODULE LedFlashProofs ---------------------------
(***************************************************************************)
(* Proofs about LedFlash, for every set of times.  The count of half       *)
(* periods is odd when a flash is over because it stops one past twice its *)
(* times, which needs that the times are those it was started with: a      *)
(* command may be rewritten under the callback, but the thread starts a    *)
(* new flash before it is through with the command.                        *)
(***************************************************************************)
EXTENDS LedFlash, TLAPS

(* The command, the counts and the labels keep their types. *)
THEOREM TypeCorrect == Spec => []TypeOK
<1> USE TimesAssumption, PacingAssumption
<1>1. Init => TypeOK
  <2>1. Init => flash_param \in Times \cup {0}
    BY DEF Init
  <2>2. Init => pacing \in Pacings /\ thread_flag \in {0, 1} /\ led \in BOOLEAN /\ hrtTimer \in BOOLEAN
    BY DEF Init
  <2>3. Init => g_led_flash_count \in Nat /\ blinks \in Nat
    BY DEF Init
  <2>4. Init => ipc = "boot" /\ tpc = "wait"
    BY DEF Init
  <2> QED BY <2>1, <2>2, <2>3, <2>4, Zenon DEF TypeOK
<1>2. TypeOK /\ [Next]_vars => TypeOK'
  <2> SUFFICES ASSUME TypeOK, [Next]_vars PROVE TypeOK'
    OBVIOUS
  <2> USE DEF TypeOK
  <2>1. CASE UNCHANGED vars
    BY <2>1 DEF vars
  <2>2. CASE SetFlashCopy \/ SetFlashWake
    <3>1. UNCHANGED <<pacing, led, hrtTimer, g_led_flash_count, tpc, blinks>>
      BY <2>2 DEF SetFlashCopy, SetFlashWake
    <3>2. thread_flag' \in {0, 1} /\ ipc' \in {"boot", "idle", "wake"}
      BY <2>2 DEF SetFlashCopy, SetFlashWake
    <3>3. flash_param' \in Times \cup {0}
      BY <2>2 DEF SetFlashCopy, SetFlashWake
    <3> QED BY <3>1, <3>2, <3>3
  <2>3. CASE ThreadStep
    <3> USE DEF ThreadStep, ThreadWake, ThreadHold, ThreadCancel, ThreadZero, ThreadStart, ThreadClear
    <3>1. UNCHANGED <<pacing, flash_param, ipc>>
      BY <2>3
    <3>2. thread_flag' \in {0, 1} /\ led' \in BOOLEAN /\ hrtTimer' \in BOOLEAN
      BY <2>3
    <3>3. g_led_flash_count' \in Nat /\ blinks' \in Nat
      BY <2>3
    <3>4. tpc' \in {"wait", "hold", "cancel", "zero", "start", "clear"}
      BY <2>3
    <3> QED BY <3>1, <3>2, <3>3, <3>4
  <2>4. CASE TimerFire
    BY <2>4 DEF TimerFire
  <2> QED BY <2>1, <2>2, <2>3, <2>4 DEF Next
<1> QED BY <1>1, <1>2, PTL DEF Spec
-----------------------------------------------------------------------------
(***************************************************************************)
(* For every application.                                                  *)
(***************************************************************************)
\* Half periods and rising edges of a flash agree, even when its times are rewritten.
HalvesAgree == hrtTimer => blinks = (g_led_flash_count + 1) \div 2

\* The thread stops the timer before it resets the counts, and starts it after; no timer
\* runs before the first command.
CountInv ==
    /\ tpc \in {"zero", "start"} => ~hrtTimer
    /\ tpc = "start" => g_led_flash_count = 0 /\ blinks = 0
    /\ ipc = "boot" => thread_flag = 0 /\ tpc = "wait" /\ ~hrtTimer
    /\ ipc # "boot" => flash_param \in Times
    /\ HalvesAgree

LEMMA Halves ==
    \A n \in Nat : /\ n % 2 = 0 => (n + 2) \div 2 = (n + 1) \div 2 + 1 /\ (n + 1) % 2 # 0
                   /\ n % 2 # 0 => (n + 2) \div 2 = (n + 1) \div 2
                   /\ \A t \in Nat : n = 2 * t + 1 => n % 2 # 0 /\ (n + 1) \div 2 = t + 1
OBVIOUS

LEMMA CountStep == ASSUME TypeOK, CountInv, [Next]_vars PROVE CountInv'
<1> USE TimesAssumption DEF TypeOK, CountInv, HalvesAgree
<1>1. CASE UNCHANGED vars
  BY <1>1 DEF vars
<1>2. CASE SetFlashCopy \/ SetFlashWake
  BY <1>2 DEF SetFlashCopy, SetFlashWake
<1>3. CASE ThreadWake \/ ThreadHold \/ ThreadCancel \/ ThreadZero \/ ThreadClear
  BY <1>3 DEF ThreadWake, ThreadHold, ThreadCancel, ThreadZero, ThreadClear
<1>4. CASE ThreadStart
  BY <1>4 DEF ThreadStart
<1>5. CASE TimerFire
  <2>1. /\ hrtTimer /\ ipc # "boot" /\ tpc \notin {"zero", "start"}
        /\ UNCHANGED <<flash_param, thread_flag, ipc, tpc>>
        /\ hrtTimer' = (2 * flash_param >= g_led_flash_count)
    BY <1>5 DEF TimerFire
  <2>2. flash_param \in Times /\ flash_param \in Nat
    BY <2>1
  <2>3. ASSUME hrtTimer'
        PROVE  blinks' = (g_led_flash_count' + 1) \div 2
    <3>1. g_led_flash_count' = g_led_flash_count + 1 /\ 2 * flash_param >= g_led_flash_count
      BY <1>5, <2>1, <2>3 DEF TimerFire
    <3>2. blinks' = (g_led_flash_count + 2) \div 2
      BY <1>5, <2>1, Halves DEF TimerFire
    <3> QED BY <2>2, <3>1, <3>2, Halves
  <2> QED BY <2>1, <2>2, <2>3
<1> QED BY <1>1, <1>2, <1>3, <1>4, <1>5 DEF Next, ThreadStep

LEMMA CountInvariant == Spec => []CountInv
<1>1. Init => CountInv
  BY DEF Init, CountInv, HalvesAgree
<1> QED BY <1>1, CountStep, TypeCorrect, PTL DEF Spec
-----------------------------------------------------------------------------
(***************************************************************************)
(* For an application that waits until its command is handled.             *)
(***************************************************************************)
Handled == tpc = "clear" \/ Idle

TakesTurns ==
    /\ ipc = "wake" => thread_flag = 0 /\ tpc = "wait"
    /\ tpc # "wait" => thread_flag = 1
    /\ tpc = "hold" => flash_param = 0
    /\ tpc \in {"cancel", "zero", "start"} => flash_param # 0

\* A flash that was started runs to one past twice its times, and then it is dark and
\* has blinked once more than that.
DarkAtEnd ==
    Handled /\ flash_param # 0 =>
        IF hrtTimer THEN g_led_flash_count <= 2 * flash_param + 1
                    ELSE ~led /\ blinks = flash_param + 1

HandledInv == pacing # "free" => TakesTurns /\ DarkAtEnd

LEMMA PacingStays == ASSUME [Next]_vars PROVE pacing' = pacing
BY DEF Next, vars, SetFlashCopy, SetFlashWake, ThreadStep, ThreadWake, ThreadHold, ThreadCancel,
       ThreadZero, ThreadStart, ThreadClear, TimerFire

LEMMA HandledStep ==
    ASSUME TypeOK, CountInv, HandledInv, [Next]_vars PROVE HandledInv'
<1> SUFFICES ASSUME pacing # "free", TakesTurns, DarkAtEnd PROVE TakesTurns' /\ DarkAtEnd'
  BY PacingStays DEF HandledInv
<1> USE TimesAssumption DEF TypeOK, CountInv, TakesTurns, DarkAtEnd, Handled, Idle
<1>1. CASE UNCHANGED vars
  BY <1>1 DEF vars
<1>2. CASE SetFlashCopy \/ SetFlashWake
  BY <1>2 DEF SetFlashCopy, SetFlashWake, MaySend
<1>3. CASE ThreadWake \/ ThreadHold \/ ThreadCancel \/ ThreadZero \/ ThreadClear
  BY <1>3 DEF ThreadWake, ThreadHold, ThreadCancel, ThreadZero, ThreadClear
<1>4. CASE ThreadStart
  BY <1>4 DEF ThreadStart
<1>5. CASE TimerFire
  <2>1. /\ hrtTimer /\ UNCHANGED <<flash_param, thread_flag, ipc, tpc>>
        /\ hrtTimer' <=> 2 * flash_param >= g_led_flash_count
        /\ led' <=> g_led_flash_count % 2 = 0
        /\ hrtTimer' => g_led_flash_count' = g_led_flash_count + 1
    BY <1>5 DEF TimerFire
  <2>2. flash_param \in Nat /\ g_led_flash_count \in Nat
    OBVIOUS
  <2>6. /\ blinks = (g_led_flash_count + 1) \div 2
        /\ g_led_flash_count % 2 # 0 => blinks' = blinks
    BY <1>5 DEF TimerFire, HalvesAgree
  <2>3. TakesTurns'
    BY <2>1
  <2>4. ASSUME Handled, flash_param # 0, ~hrtTimer'
        PROVE  ~led' /\ blinks' = flash_param + 1
    <3>1. g_led_flash_count <= 2 * flash_param + 1 /\ ~(2 * flash_param >= g_led_flash_count)
      BY <2>1, <2>4
    <3>2. g_led_flash_count = 2 * flash_param + 1
      BY <2>2, <3>1
    <3> QED BY <2>1, <2>2, <2>6, <3>2, Halves
  <2>5. DarkAtEnd'
    BY <2>1, <2>2, <2>4
  <2> QED BY <2>3, <2>5
<1> QED BY <1>1, <1>2, <1>3, <1>4, <1>5 DEF Next, ThreadStep

LEMMA HandledInvariant == Spec => []HandledInv
<1>1. Init => HandledInv
  BY DEF Init, HandledInv, TakesTurns, DarkAtEnd, Handled, Idle
<1> QED BY <1>1, HandledStep, TypeCorrect, CountInvariant, PTL DEF Spec

(* Every flash that is over has lit its LED once for each of its times and once more, *)
(* whatever flash it interrupted.                                                     *)
THEOREM BlinksRight == Spec => []BlinksCounted
<1>1. HandledInv => BlinksCounted
  BY DEF HandledInv, DarkAtEnd, Handled, BlinksCounted
<1> QED BY <1>1, HandledInvariant, PTL

(* A flash that is over leaves its LED dark, whatever flash it interrupted. *)
THEOREM EndsDark == Spec => []FlashEndsDark
<1>1. HandledInv => FlashEndsDark
  BY DEF HandledInv, DarkAtEnd, Handled, FlashEndsDark
<1> QED BY <1>1, HandledInvariant, PTL
-----------------------------------------------------------------------------
(***************************************************************************)
(* For an application that also waits for the end of a flash.              *)
(***************************************************************************)
Unhandled  == ipc = "wake" \/ (thread_flag = 1 /\ tpc # "clear")
SettledInv ==
    pacing = "settled" =>
        /\ Unhandled => ~hrtTimer
        /\ Handled /\ flash_param = 0 => led /\ ~hrtTimer

LEMMA SettledStep ==
    ASSUME TypeOK, CountInv, HandledInv, SettledInv, [Next]_vars PROVE SettledInv'
<1> SUFFICES ASSUME pacing = "settled", TakesTurns, SettledInv PROVE SettledInv'
  BY PacingStays DEF SettledInv, HandledInv
<1> USE DEF TypeOK, TakesTurns, SettledInv, Unhandled, Handled, Idle
<1>1. CASE UNCHANGED vars
  BY <1>1 DEF vars
<1>2. CASE SetFlashCopy \/ SetFlashWake
  BY <1>2 DEF SetFlashCopy, SetFlashWake, MaySend, CountInv
<1>3. CASE ThreadWake \/ ThreadHold \/ ThreadCancel \/ ThreadZero \/ ThreadClear
  BY <1>3 DEF ThreadWake, ThreadHold, ThreadCancel, ThreadZero, ThreadClear
<1>4. CASE ThreadStart
  BY <1>4 DEF ThreadStart
<1>5. CASE TimerFire
  BY <1>5 DEF TimerFire
<1> QED BY <1>1, <1>2, <1>3, <1>4, <1>5 DEF Next, ThreadStep

(* A hold sent while no flash runs keeps the LED lit until the next command. *)
THEOREM HoldLasts == Spec => []HoldStays
<1>1. Init => SettledInv
  BY DEF Init, SettledInv, Unhandled, Handled, Idle
<1>2. SettledInv => HoldStays
  BY DEF SettledInv, Handled, HoldStays
<1> QED BY <1>1, <1>2, SettledStep, HandledInvariant, CountInvariant, TypeCorrect, PTL DEF Spec
=============================================================================
