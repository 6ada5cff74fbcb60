--------------------------- MODULE OutPulseProofs ---------------------------
(***************************************************************************)
(* Proofs about OutPulse, for every set of bytes and every mix of          *)
(* applications.  All rests on where an application may stand that waits   *)
(* until its command is handled: a command is never rewritten under the    *)
(* thread, so the two branches of the thread know what they were taken     *)
(* for, and a pin without a queued timer is where the command left it.     *)
(***************************************************************************)
EXTENDS OutPulse, TLAPS

\* An ioctl and the thread are never both at work, and a branch fits its command.
TakesTurns ==
    /\ ipc = "wake" => thread_flag = 0 /\ tpc = "wait"
    /\ tpc # "wait" => thread_flag = 1
    /\ tpc = "level" => ~param.hold
    /\ tpc \in {"pulse", "arm"} => param.hold

\* After its pulse a pin is at the default, from the moment the thread is through.
FallenBack ==
    (~shared /\ ~hrtTimer /\ param.hold /\ (tpc = "clear" \/ Idle)) => pin = Logic(param.defaultState)

HandledInv == pacing # "free" => TakesTurns /\ FallenBack

\* Who also waits for the end of the pulse never meets the timer of an old one.
Busy       == ipc = "wake" \/ (thread_flag = 1 /\ tpc \in {"wait", "test", "level", "pulse", "arm"})
SettledInv == pacing = "settled" => (Busy => ~hrtTimer)

LEMMA LogicIsLevel == \A v : Logic(v) \in Level
BY DEF Logic, Level

(* The command, the pin and the labels keep their types. *)
THEOREM TypeCorrect == Spec => []TypeOK
<1> USE LogicIsLevel
<1>1. Init => TypeOK
  <2>1. Init => param \in Command
    BY BytesAssumption DEF Init, Command
  <2>2. Init => pin \in Level
    BY DEF Init, Level
  <2> QED BY <2>1, <2>2 DEF Init, TypeOK
<1>2. TypeOK /\ [Next]_vars => TypeOK'
  <2> SUFFICES ASSUME TypeOK, [Next]_vars PROVE TypeOK'
    OBVIOUS
  <2> USE DEF TypeOK
  <2>1. CASE UNCHANGED vars
    BY <2>1 DEF vars
  <2>2. CASE SetOutCopy
    BY <2>2, HoldsAssumption DEF SetOutCopy, Command
  <2>3. CASE SetOutWake \/ ThreadWake \/ ThreadTest \/ ThreadArm \/ ThreadClear
    BY <2>3 DEF SetOutWake, ThreadWake, ThreadTest, ThreadArm, ThreadClear
  <2>4. CASE ThreadLevel \/ ThreadPulse \/ TimerFire \/ Others
    BY <2>4 DEF ThreadLevel, ThreadPulse, TimerFire, Others
  <2> QED BY <2>1, <2>2, <2>3, <2>4 DEF Next, ThreadStep
<1> QED BY <1>1, <1>2, PTL DEF Spec

LEMMA HandledStep ==
    ASSUME TypeOK, HandledInv, [Next]_vars PROVE HandledInv'
<1> SUFFICES ASSUME pacing # "free", TakesTurns, FallenBack PROVE TakesTurns' /\ FallenBack'
  BY DEF HandledInv, Next, vars, SetOutCopy, SetOutWake, ThreadStep, ThreadWake, ThreadTest,
         ThreadLevel, ThreadPulse, ThreadArm, ThreadClear, TimerFire, Others
<1> USE DEF TypeOK, TakesTurns, FallenBack, Idle
<1>1. CASE UNCHANGED vars
  BY <1>1 DEF vars
<1>2. CASE SetOutCopy
  BY <1>2 DEF SetOutCopy, MaySend
<1>3. CASE SetOutWake
  BY <1>3 DEF SetOutWake
<1>4. CASE ThreadWake \/ ThreadTest
  BY <1>4 DEF ThreadWake, ThreadTest
<1>5. CASE ThreadLevel \/ ThreadPulse
  BY <1>5 DEF ThreadLevel, ThreadPulse
<1>6. CASE ThreadArm \/ ThreadClear
  BY <1>6 DEF ThreadArm, ThreadClear
<1>7. CASE TimerFire
  BY <1>7 DEF TimerFire
<1>8. CASE Others
  BY <1>8 DEF Others
<1> QED BY <1>1, <1>2, <1>3, <1>4, <1>5, <1>6, <1>7, <1>8 DEF Next, ThreadStep

LEMMA HandledInvariant == Spec => []HandledInv
<1>1. Init => HandledInv
  BY DEF Init, HandledInv, TakesTurns, FallenBack, Idle
<1> QED BY <1>1, HandledStep, TypeCorrect, PTL DEF Spec

(* However pulses overlap, if commands do not, a pin that no other service drives *)
(* comes to rest at the default state of the latest pulse.                        *)
THEOREM PinRests == Spec => []RestsAtDefault
<1>1. HandledInv => RestsAtDefault
  BY DEF HandledInv, FallenBack, RestsAtDefault
<1> QED BY <1>1, HandledInvariant, PTL
-----------------------------------------------------------------------------
LEMMA SettledStep ==
    ASSUME TypeOK, HandledInv, SettledInv, [Next]_vars PROVE SettledInv'
<1> SUFFICES ASSUME pacing = "settled", TakesTurns, Busy => ~hrtTimer, Busy' PROVE ~hrtTimer'
  BY DEF SettledInv, HandledInv, Next, vars, SetOutCopy, SetOutWake, ThreadStep, ThreadWake,
         ThreadTest, ThreadLevel, ThreadPulse, ThreadArm, ThreadClear, TimerFire, Others
<1> USE DEF TypeOK, TakesTurns, Busy
<1>1. CASE UNCHANGED vars
  BY <1>1 DEF vars
<1>2. CASE SetOutCopy \/ SetOutWake
  BY <1>2 DEF SetOutCopy, MaySend, SetOutWake
<1>3. CASE ThreadStep
  BY <1>3 DEF ThreadStep, ThreadWake, ThreadTest, ThreadLevel, ThreadPulse, ThreadArm, ThreadClear
<1>4. CASE TimerFire \/ Others
  BY <1>4 DEF TimerFire, Others
<1> QED BY <1>1, <1>2, <1>3, <1>4 DEF Next

LEMMA SettledInvariant == Spec => []SettledInv
<1>1. Init => SettledInv
  BY DEF Init, SettledInv
<1> QED BY <1>1, SettledStep, HandledInvariant, TypeCorrect, PTL DEF Spec

(* Every step a patient application can see is one of PulseOutput. *)
LEMMA PromisedStep ==
    ASSUME TypeOK, HandledInv, SettledInv, [Next]_vars, pacing = "settled", ~shared
    PROVE  [Promise!Next]_(Promise!vars)
<1>1. TakesTurns /\ (Busy => ~hrtTimer)
  BY DEF HandledInv, SettledInv
<1> USE DEF TypeOK, Promise!vars, Phase, Wanted
<1>2. CASE UNCHANGED vars
  BY <1>2 DEF vars
<1>3. CASE SetOutCopy
  <2>1. Wanted' \in Promise!Command
    BY <1>3, HoldsAssumption, LogicIsLevel DEF SetOutCopy, Promise!Command, Level
  <2>2. Phase' = "asked" /\ pin' = pin
    BY <1>3 DEF SetOutCopy
  <2> QED BY <2>1, <2>2 DEF Promise!Next, Promise!Ask
<1>4. CASE SetOutWake \/ ThreadWake \/ ThreadTest \/ ThreadArm \/ ThreadClear
  <2>1. UNCHANGED <<pin, param>>
    BY <1>4 DEF SetOutWake, ThreadWake, ThreadTest, ThreadArm, ThreadClear
  <2>2. Phase' = Phase
    BY <1>4, <1>1 DEF SetOutWake, ThreadWake, ThreadTest, ThreadArm, ThreadClear, TakesTurns
  <2> QED BY <2>1, <2>2
<1>5. CASE ThreadLevel \/ ThreadPulse
  <2>1. pin' = Wanted.outState /\ UNCHANGED param
    BY <1>5 DEF ThreadLevel, ThreadPulse
  <2>2. Phase = "asked" /\ ~hrtTimer /\ ~hrtTimer' /\ ipc' = "idle" /\ thread_flag' = 1
    BY <1>5, <1>1 DEF ThreadLevel, ThreadPulse, TakesTurns, Busy
  <2>3. Phase' = IF Wanted.hold THEN "pulse" ELSE "steady"
    BY <1>5, <1>1, <2>2 DEF ThreadLevel, ThreadPulse, TakesTurns
  <2> QED BY <2>1, <2>2, <2>3 DEF Promise!Next, Promise!Apply
<1>6. CASE TimerFire
  <2>1. Phase = "pulse" /\ tpc # "arm"
    BY <1>6, <1>1 DEF TimerFire, TakesTurns, Busy
  <2>2. Phase' = "steady" /\ pin' = Wanted.defaultState /\ UNCHANGED param
    BY <1>6, <2>1 DEF TimerFire
  <2> QED BY <2>1, <2>2 DEF Promise!Next, Promise!Expire
<1> QED BY <1>2, <1>3, <1>4, <1>5, <1>6 DEF Next, ThreadStep, Others

(* OutPulse implements PulseOutput for an application that waits for the end of its *)
(* pulses, on a pin no other service drives: IO_SET_OUT, the thread and the timer   *)
(* keep what usr_io.h promises.                                                     *)
THEOREM PulsesRefine == Spec => PinObeys
<1>1. Init => Promise!Init
  BY DEF Init, Promise!Init, Promise!Command, Wanted, Phase, Logic
<1>2. TypeOK /\ HandledInv /\ SettledInv /\ [Next]_vars
        => [pacing = "settled" /\ ~shared => [Promise!Next]_(Promise!vars)]_vars
  BY PromisedStep
<1> QED BY <1>1, <1>2, TypeCorrect, HandledInvariant, SettledInvariant, PTL DEF Spec, PinObeys
=============================================================================
