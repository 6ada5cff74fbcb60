--------------------------- MODULE RgbBurstProofs ---------------------------
(***************************************************************************)
(* Proofs about RgbBurst, for any number of lamps.                         *)
(*                                                                         *)
(* num is any byte here.  That the callback leaves its tables only under a *)
(* target the thread set for this burst needs no more than its counters    *)
(* and that target.  What the outputs do needs the application to wait:    *)
(* then ioctl, thread and timer take turns, the selection survives until   *)
(* the burst is over, and outputs and history follow g_pwm_count.          *)
(***************************************************************************)
EXTENDS RgbBurst, SequenceTheorems, TLAPS

Stage == g_pwm_count % 3
mIndex == g_stage_index[Round + 1]

CountInRange ==
    /\ g_pwm_count = g_state
    /\ g_pwm_count >= 3 * Lamps => overlong
    /\ g_pwm_target_count > 3 * Lamps => overlong
    /\ ~timer => g_pwm_count = 0

TakesTurns ==
    /\ ipc # "idle" => thread_flag = 0 /\ tpc = "wait" /\ ~timer
    /\ tpc # "wait" => thread_flag = 1
    /\ timer => IF tpc = "wait" THEN thread_flag = 0 ELSE tpc = "clear"

(* The selection reaches num, the tables and the target unchanged.         *)
AskedKept ==
    /\ Len(asked) <= Lamps
    /\ \A j \in 1..Len(asked) : g_stage_index[j] = asked[j]
    /\ ipc = "num" => cnt = Len(asked)
    /\ ipc = "wake" \/ (thread_flag = 1 /\ tpc # "clear") => num = Len(asked) /\ num > 0
    /\ tpc \in {"check", "start"} \/ timer => g_pwm_target_count = 3 * Len(asked)

(* TRIG and the lamps are what the stage to play next says.                *)
OutputsFollow ==
    /\ timer => g_pwm_count < g_pwm_target_count
    /\ trig <=> (timer /\ Stage # 0)
    /\ \A i \in Lamp : lamp[i] <=> (timer /\ Stage = 1 /\ i = mIndex)

(* The lamps lit so far are the first of the selection, then all of it.    *)
ShotKept ==
    /\ timer => /\ Len(shot) = (g_pwm_count + 2) \div 3
                /\ \A j \in 1..Len(shot) : shot[j] = asked[j]
    /\ (~timer /\ ipc \in {"idle", "store"} /\ (thread_flag = 0 \/ tpc = "clear") /\ asked # <<>>)
          => shot = asked

BurstInv == TakesTurns /\ AskedKept /\ OutputsFollow /\ ShotKept
-----------------------------------------------------------------------------
(* Facts about the arithmetic of stages. *)
LEMMA Thirds ==
    ASSUME NEW n \in Nat
    PROVE  /\ n \div 3 \in Nat /\ n % 3 \in 0..2
           /\ n = 3 * (n \div 3) + (n % 3)
<1>1. n \div 3 \in Nat
  OBVIOUS
<1>2. n % 3 \in 0..2
  OBVIOUS
<1>3. n = 3 * (n \div 3) + (n % 3)
  OBVIOUS
<1> QED BY <1>1, <1>2, <1>3

LEMMA ThirdsOf ==
    ASSUME NEW n \in Nat, NEW k \in Nat, NEW r \in 0..2, n = 3 * k + r
    PROVE  n \div 3 = k /\ n % 3 = r
OBVIOUS

(* A selection is a sequence of at most Lamps lamps. *)
LEMMA SelectionIsSeq ==
    ASSUME NEW s \in Selections
    PROVE  s \in Seq(Lamp) /\ Len(s) \in 0..Lamps
<1>1. PICK n \in 0..Lamps : s \in [1..n -> Lamp]
  BY DEF Selections
<1>2. n \in Nat
  BY <1>1, LampsAssumption
<1> QED BY <1>1, <1>2

(* How many lamps are selected fits the byte num and the table.            *)
LEMMA CountFits == ASSUME NEW n \in 0..Lamps PROVE n \in 0..255 /\ 1..n \subseteq 1..Lamps
BY LampsAssumption

(* The entry the callback reads exists.  *)
LEMMA IndexInTable ==
    ASSUME TypeOK, g_pwm_count < 3 * Lamps
    PROVE  mIndex \in Lamp /\ Round \in Nat /\ Round < Lamps
<1>1. Round \in Nat /\ Round < Lamps /\ Round + 1 \in 1..Lamps
  BY LampsAssumption, Thirds DEF TypeOK, Round
<1> QED BY <1>1 DEF TypeOK, mIndex

(* What the thread stores for a selection of lamps does not wrap.          *)
LEMMA TargetFits == ASSUME NEW n \in 0..Lamps PROVE (n * 3) % 256 = 3 * n
<1>1. n * 3 \in Nat /\ n * 3 < 256 /\ n * 3 = 3 * n
  BY LampsAssumption
<1>2. \A m \in Nat : m < 256 => m % 256 = m
  OBVIOUS
<1> QED BY <1>1, <1>2

(* Who leaves the counters, the target and the timer alone keeps the range. *)
LEMMA CountsStay == ASSUME CountInRange, UNCHANGED stageVars PROVE CountInRange'
<1>1. /\ g_pwm_target_count' = g_pwm_target_count /\ g_pwm_count' = g_pwm_count
      /\ g_state' = g_state /\ timer' = timer /\ overlong' = overlong
  BY DEF stageVars
<1> QED BY <1>1, Zenon DEF CountInRange

(* The three outcomes of Advance. *)
LEMMA AdvanceKeeps ==
    ASSUME TypeOK, CountInRange, NEW stages \in {1, 2}, Advance(stages),
           UNCHANGED <<g_pwm_target_count, overlong>>
    PROVE  /\ g_pwm_count' \in Nat /\ g_state' \in Nat /\ timer' \in BOOLEAN
           /\ CountInRange'
<1> DEFINE n == g_pwm_count + stages
<1>1. n \in Nat /\ g_pwm_count = g_state /\ 3 * Lamps \in Nat /\ g_pwm_target_count \in Nat
  BY LampsAssumption DEF TypeOK, CountInRange
<1>2. timer' \in BOOLEAN /\ (timer' <=> ~(n >= g_pwm_target_count))
  BY DEF Advance
<1>3. CASE n >= g_pwm_target_count
  <2>1. g_pwm_count' = 0 /\ g_state' = 0
    BY <1>3 DEF Advance
  <2>2. ~(0 >= 3 * Lamps)
    BY LampsAssumption
  <2> QED BY <1>2, <2>1, <2>2 DEF CountInRange
<1>4. CASE ~(n >= g_pwm_target_count)
  <2>1. g_pwm_count' = n /\ g_state' = n /\ timer'
    BY <1>1, <1>2, <1>4 DEF Advance
  <2>2. n >= 3 * Lamps => g_pwm_target_count > 3 * Lamps
    <3> HIDE DEF n
    <3> QED BY <1>1, <1>4
  <2> QED BY <1>1, <1>2, <2>1, <2>2 DEF CountInRange
<1> QED BY <1>3, <1>4

(* The thread's new target and its history agree.                          *)
LEMMA TargetKeeps ==
    ASSUME TypeOK, CountInRange, ThreadTarget
    PROVE  TypeOK' /\ CountInRange'
<1>1. /\ g_pwm_target_count' = (num * 3) % 256 /\ tpc' = "check" /\ NoteTarget
      /\ UNCHANGED <<paramVars, thread_flag, g_pwm_count, g_state, timer, outVars, ioctlVars>>
  BY DEF ThreadTarget
<1>2. g_pwm_target_count' \in 0..255
  <2>1. \A m \in Nat : m % 256 \in 0..255
    OBVIOUS
  <2>2. num * 3 \in Nat
    BY DEF TypeOK
  <2> QED BY <1>1, <2>1, <2>2
<1>3. overlong' \in BOOLEAN
  BY <1>1 DEF NoteTarget
<1>4. TypeOK'
  BY <1>1, <1>2, <1>3 DEF TypeOK, paramVars, outVars, ioctlVars
<1>5. g_pwm_count' >= 3 * Lamps => overlong'
  <2>1. SUFFICES ASSUME g_pwm_count' >= 3 * Lamps PROVE overlong'
    OBVIOUS
  <2>2. g_pwm_count >= 3 * Lamps
    BY <1>1, <2>1
  <2>3. g_pwm_count # 0
    BY <2>2, LampsAssumption DEF TypeOK
  <2>4. timer /\ overlong
    BY <2>2, <2>3, Zenon DEF CountInRange
  <2> QED BY <1>1, <2>4, Zenon DEF NoteTarget
<1>6. g_pwm_target_count' > 3 * Lamps => overlong'
  BY <1>1, Zenon DEF NoteTarget
<1>7. g_pwm_count' = g_state' /\ (~timer' => g_pwm_count' = 0)
  BY <1>1, Zenon DEF CountInRange
<1> QED BY <1>4, <1>5, <1>6, <1>7, Zenon DEF CountInRange

(* The variables keep their types and the counters their range, whatever   *)
(* the ioctls rewrite under the callback.                                  *)
LEMMA TypesAndCounts == Spec => [](TypeOK /\ CountInRange)
<1>1. Init => TypeOK /\ CountInRange
  <2> SUFFICES ASSUME Init PROVE TypeOK /\ CountInRange
    OBVIOUS
  <2>1. g_stage_index \in [1..Lamps -> Lamp]
    <3>1. 0 \in Lamp
      BY LampsAssumption DEF Lamp
    <3> QED BY <3>1 DEF Init
  <2>2. g_stage_2 \in [Lamp -> BOOLEAN] /\ lamp \in [Lamp -> BOOLEAN]
    BY DEF Init
  <2>3. shot \in Seq(Lamp) /\ asked \in Seq(Lamp)
    BY DEF Init
  <2>4. waits \in Waits /\ trig \in BOOLEAN /\ timer \in BOOLEAN /\ overlong \in BOOLEAN
    BY DEF Init
  <2>5. CountInRange
    <3>1. ~(0 >= 3 * Lamps) /\ ~(0 > 3 * Lamps)
      BY LampsAssumption
    <3> QED BY <3>1 DEF Init, CountInRange
  <2>6. num \in 0..255 /\ cnt \in 0..255 /\ g_pwm_target_count \in 0..255
    BY DEF Init
  <2>7. g_pwm_count \in Nat /\ g_state \in Nat /\ thread_flag \in {0, 1}
        /\ ipc \in {"idle", "store", "num", "wake"}
        /\ tpc \in {"wait", "target", "check", "start", "clear"}
    BY DEF Init
  <2> QED BY <2>1, <2>2, <2>3, <2>4, <2>5, <2>6, <2>7 DEF TypeOK
<1>2. TypeOK /\ CountInRange /\ [Next]_vars => (TypeOK /\ CountInRange)'
  <2> SUFFICES ASSUME TypeOK, CountInRange, [Next]_vars PROVE TypeOK' /\ CountInRange'
    OBVIOUS
  <2> USE DEF TypeOK, paramVars, stageVars, outVars, ioctlVars
  <2>1. CASE UNCHANGED vars
    BY <2>1, CountsStay DEF vars
  <2>2. CASE RgbParamCheck
    <3>0. cnt' \in Params /\ UNCHANGED stageVars
      BY <2>2, Zenon DEF RgbParamCheck
    <3>1. cnt' \in 0..255 /\ UNCHANGED stageVars
      BY <3>0, LampsAssumption
    <3>2. g_stage_2' \in [Lamp -> BOOLEAN]
      <4>1. PICK two : g_stage_2' = [i \in Lamp |-> IF i < cnt' THEN i \in two ELSE g_stage_2[i]]
        BY <2>2, Zenon DEF RgbParamCheck
      <4>2. ASSUME NEW i \in Lamp
            PROVE  (IF i < cnt' THEN i \in two ELSE g_stage_2[i]) \in BOOLEAN
        <5>1. g_stage_2[i] \in BOOLEAN
          OBVIOUS
        <5>2. (i \in two) \in BOOLEAN
          OBVIOUS
        <5> QED BY <5>1, <5>2, Zenon
      <4> QED BY <4>1, <4>2, Zenon
    <3> QED BY <2>2, <3>1, <3>2, CountsStay DEF RgbParamCheck
  <2>3. CASE TrigSelect
    <3>0. asked' \in Selections
      BY <2>3, Zenon DEF TrigSelect
    <3>1. asked' \in Seq(Lamp) /\ Len(asked') \in 0..Lamps
      BY <3>0, SelectionIsSeq
    <3>3. Len(asked') \in 0..255
      BY <3>1, CountFits, Zenon
    <3>2. g_stage_index' \in [1..Lamps -> Lamp]
      <4>1. \A k \in 1..Lamps : k <= Len(asked') => asked'[k] \in Lamp
        BY <3>1
      <4>2. \A k \in 1..Lamps : g_stage_index[k] \in Lamp
        OBVIOUS
      <4> QED BY <2>3, <4>1, <4>2 DEF TrigSelect, Overwrite
    <3> QED BY <2>3, <3>1, <3>2, <3>3, CountsStay DEF TrigSelect
  <2>4. CASE RgbParamCopy \/ TrigNum \/ TrigWake
    <3>1. UNCHANGED stageVars
      BY <2>4 DEF RgbParamCopy, TrigNum, TrigWake
    <3>5. CountInRange'
      BY <3>1, CountsStay
    <3>2. CASE RgbParamCopy
      BY <3>5, <3>2 DEF RgbParamCopy
    <3>3. CASE TrigNum
      BY <3>5, <3>3 DEF TrigNum
    <3>4. CASE TrigWake
      BY <3>5, <3>4 DEF TrigWake
    <3> QED BY <2>4, <3>2, <3>3, <3>4, <3>5
  <2>5. CASE ThreadWake \/ ThreadCheck \/ ThreadClear
    <3>1. UNCHANGED stageVars
      BY <2>5 DEF ThreadWake, ThreadCheck, ThreadClear
    <3>2. CountInRange'
      BY <3>1, CountsStay
    <3>3. CASE ThreadWake
      BY <3>2, <3>3 DEF ThreadWake
    <3>4. CASE ThreadCheck
      BY <3>2, <3>4 DEF ThreadCheck
    <3>5. CASE ThreadClear
      BY <3>2, <3>5 DEF ThreadClear
    <3> QED BY <2>5, <3>2, <3>3, <3>4, <3>5
  <2>6. CASE ThreadStart
    <3>1. /\ tpc' = "clear" /\ g_pwm_count' = 0 /\ g_state' = 0 /\ timer' = TRUE /\ shot' = <<>>
          /\ UNCHANGED <<paramVars, thread_flag, g_pwm_target_count, overlong, lamp, trig, ioctlVars>>
      BY <2>6 DEF ThreadStart
    <3>2. ~(0 >= 3 * Lamps)
      BY LampsAssumption
    <3>3. CountInRange'
      BY <3>1, <3>2 DEF CountInRange
    <3> QED BY <3>1, <3>3
  <2>7. CASE ThreadTarget
    BY <2>7, TargetKeeps
  <2>8. CASE LampOn
    <3>1. PICK i \in Lamp : /\ lamp' = [lamp EXCEPT ![i] = TRUE]
                            /\ shot' = IF waits THEN Append(shot, i) ELSE shot
      BY <2>8 DEF LampOn
    <3>2. shot' \in Seq(Lamp)
      BY <3>1
    <3>3. lamp' \in [Lamp -> BOOLEAN]
      BY <3>1
    <3>4. Advance(1) /\ trig' = TRUE
          /\ UNCHANGED <<paramVars, thread_flag, g_pwm_target_count, overlong, ioctlVars, tpc>>
      BY <2>8 DEF LampOn
    <3> QED BY <3>2, <3>3, <3>4, AdvanceKeeps
  <2>9. CASE LampOff
    <3>1. PICK i \in Lamp : /\ lamp' = [lamp EXCEPT ![i] = FALSE]
                            /\ (Advance(1) /\ UNCHANGED trig) \/ (Advance(2) /\ trig' = FALSE)
      BY <2>9 DEF LampOff
    <3>2. lamp' \in [Lamp -> BOOLEAN] /\ trig' \in BOOLEAN
      BY <3>1
    <3>3. UNCHANGED <<paramVars, thread_flag, g_pwm_target_count, overlong, shot, ioctlVars, tpc>>
      BY <2>9 DEF LampOff
    <3> QED BY <3>1, <3>2, <3>3, AdvanceKeeps
  <2>10. CASE TrigOff
    BY <2>10, AdvanceKeeps DEF TrigOff
  <2> QED BY <2>1, <2>2, <2>3, <2>4, <2>5, <2>6, <2>7, <2>8, <2>9, <2>10
          DEF Next, Ioctl, ThreadStep, TimerFire
<1> QED BY <1>1, <1>2, PTL DEF Spec

(* The variables keep their types. *)
THEOREM TypeCorrect == Spec => []TypeOK
BY TypesAndCounts, PTL

(* Whatever num the callers hand in and whenever, the two counters of the  *)
(* callback agree, and it leaves its tables only in a burst for which the  *)
(* thread set a target beyond them.                                        *)
THEOREM TablesHold == Spec => []StageInRange
<1>1. TypeOK /\ CountInRange => StageInRange
  <2> SUFFICES ASSUME TypeOK, CountInRange PROVE StageInRange
    OBVIOUS
  <2>1. Round >= Lamps => g_pwm_count >= 3 * Lamps
    BY LampsAssumption, Thirds DEF TypeOK, Round
  <2> QED BY <2>1 DEF CountInRange, StageInRange
<1> QED BY <1>1, TypesAndCounts, PTL
-----------------------------------------------------------------------------
(* From here on the application waits.  What the ioctls do to the          *)
(* invariant, then the thread, then the three stages of the callback.      *)
LEMMA IoctlKeeps ==
    ASSUME TypeOK, TypeOK', BurstInv, waits, Ioctl
    PROVE  BurstInv'
<1> USE DEF TypeOK, BurstInv, paramVars, stageVars, outVars, ioctlVars
<1>1. CASE RgbParamCheck
  <2>1. Resting /\ ipc' = "store" /\ asked' = asked
    BY <1>1 DEF RgbParamCheck, MayCall
  <2>2. UNCHANGED <<g_stage_index, num, thread_flag, stageVars, outVars, asked, tpc>>
    BY <1>1 DEF RgbParamCheck
  <2>3. TakesTurns' /\ AskedKept'
    BY <2>1, <2>2 DEF Resting, TakesTurns, AskedKept
  <2>4. OutputsFollow'
    BY <2>1, <2>2 DEF Resting, OutputsFollow, Stage, Round, mIndex
  <2>5. ShotKept'
    BY <2>1, <2>2 DEF Resting, ShotKept
  <2> QED BY <2>3, <2>4, <2>5
<1>2. CASE RgbParamCopy \/ TrigNum \/ TrigWake
  <2>1. ipc # "idle" /\ UNCHANGED <<g_stage_index, stageVars, outVars, asked, tpc>>
    BY <1>2 DEF RgbParamCopy, TrigNum, TrigWake
  <2>2. TakesTurns'
    BY <1>2, <2>1 DEF RgbParamCopy, TrigNum, TrigWake, TakesTurns
  <2>3. AskedKept'
    <3>1. CASE RgbParamCopy
      BY <2>1, <3>1 DEF RgbParamCopy, TakesTurns, AskedKept
    <3>2. CASE TrigNum
      BY <2>1, <3>2 DEF TrigNum, TakesTurns, AskedKept
    <3>3. CASE TrigWake
      BY <2>1, <3>3 DEF TrigWake, TakesTurns, AskedKept
    <3> QED BY <1>2, <3>1, <3>2, <3>3
  <2>4. OutputsFollow'
    BY <2>1 DEF TakesTurns, OutputsFollow, Stage, Round, mIndex
  <2>5. ShotKept'
    <3>1. CASE RgbParamCopy
      BY <2>1, <3>1 DEF RgbParamCopy, TakesTurns, ShotKept
    <3>2. CASE TrigNum
      <4>1. ipc' = "idle" => asked = <<>>
        BY <3>2, EmptySeq DEF TrigNum, AskedKept
      <4> QED BY <2>1, <3>2, <4>1 DEF TrigNum, TakesTurns, ShotKept
    <3>3. CASE TrigWake
      BY <2>1, <3>3 DEF TrigWake, TakesTurns, ShotKept
    <3> QED BY <1>2, <3>1, <3>2, <3>3
  <2> QED BY <2>2, <2>3, <2>4, <2>5
<1>3. CASE TrigSelect
  <2>1. /\ Resting /\ ipc' = "num" /\ asked' \in Selections /\ cnt' = Len(asked')
        /\ g_stage_index' = Overwrite(g_stage_index, asked')
        /\ UNCHANGED <<num, thread_flag, stageVars, outVars, tpc>>
    BY <1>3 DEF TrigSelect, MayCall
  <2>2. asked' \in Seq(Lamp) /\ Len(asked') \in 0..Lamps
    BY <2>1, SelectionIsSeq
  <2>3. TakesTurns'
    BY <2>1 DEF Resting, TakesTurns
  <2>4. \A j \in 1..Len(asked') : g_stage_index'[j] = asked'[j]
    <3>1. 1..Len(asked') \subseteq 1..Lamps
      BY <2>2, CountFits, Zenon
    <3>2. \A k \in 1..Lamps : k <= Len(asked') => g_stage_index'[k] = asked'[k]
      BY <2>1 DEF Overwrite
    <3>3. \A j \in 1..Len(asked') : j <= Len(asked')
      BY <2>2
    <3> QED BY <3>1, <3>2, <3>3, Zenon
  <2>5. AskedKept'
    <3>1. Len(asked') <= Lamps
      BY <2>2, LampsAssumption
    <3>2. ipc' = "num" /\ cnt' = Len(asked') /\ thread_flag' = 0 /\ tpc' = "wait" /\ ~timer'
      BY <2>1 DEF Resting
    <3> QED BY <2>4, <3>1, <3>2 DEF AskedKept
  <2>6. OutputsFollow'
    BY <2>1 DEF Resting, OutputsFollow, Stage, Round, mIndex
  <2>7. ShotKept'
    BY <2>1 DEF Resting, ShotKept
  <2> QED BY <2>3, <2>5, <2>6, <2>7
<1> QED BY <1>1, <1>2, <1>3 DEF Ioctl

LEMMA ThreadKeeps ==
    ASSUME TypeOK, TypeOK', CountInRange, BurstInv, waits, ThreadStep
    PROVE  BurstInv'
<1> USE DEF TypeOK, BurstInv, paramVars, stageVars, outVars, ioctlVars
<1>1. CASE ThreadWake \/ ThreadTarget \/ ThreadCheck \/ ThreadClear
  <2>1. UNCHANGED <<g_stage_index, num, g_pwm_count, g_state, timer, outVars, ioctlVars>>
    BY <1>1 DEF ThreadWake, ThreadTarget, ThreadCheck, ThreadClear
  <2>2. TakesTurns'
    BY <1>1, <2>1 DEF ThreadWake, ThreadTarget, ThreadCheck, ThreadClear, TakesTurns
  <2>3. AskedKept'
    <3>1. CASE ThreadWake
      BY <2>1, <3>1 DEF ThreadWake, TakesTurns, AskedKept
    <3>2. CASE ThreadTarget
      <4>1. num = Len(asked) /\ num > 0 /\ thread_flag' = thread_flag /\ ~timer
            /\ Len(asked) \in 0..Lamps
        BY <3>2, LampsAssumption DEF ThreadTarget, TakesTurns, AskedKept
      <4>2. g_pwm_target_count' = 3 * Len(asked) /\ tpc' = "check"
        BY <3>2, <4>1, TargetFits DEF ThreadTarget
      <4> QED BY <2>1, <4>1, <4>2 DEF AskedKept, TakesTurns
    <3>3. CASE ThreadCheck
      BY <2>1, <3>3 DEF ThreadCheck, TakesTurns, AskedKept
    <3>4. CASE ThreadClear
      BY <2>1, <3>4 DEF ThreadClear, TakesTurns, AskedKept
    <3> QED BY <1>1, <3>1, <3>2, <3>3, <3>4
  <2>4. OutputsFollow'
    <3>1. timer => g_pwm_target_count' = g_pwm_target_count
      BY <1>1 DEF ThreadWake, ThreadTarget, ThreadCheck, ThreadClear, TakesTurns
    <3> QED BY <2>1, <3>1 DEF OutputsFollow, Stage, Round, mIndex
  <2>5. ShotKept'
    <3>1. ~timer /\ thread_flag = 1 /\ tpc # "clear" => tpc' # "clear" /\ thread_flag' = 1
      <4> SUFFICES ASSUME ~timer, thread_flag = 1, tpc # "clear"
                   PROVE  tpc' # "clear" /\ thread_flag' = 1
        OBVIOUS
      <4>1. num > 0 /\ g_pwm_count = 0
        BY DEF AskedKept, CountInRange
      <4>2. num # 0
        BY <4>1
      <4> QED BY <1>1, <4>1, <4>2 DEF ThreadWake, ThreadTarget, ThreadCheck, ThreadClear
    <3>2. thread_flag = 0 => thread_flag' = 0
      BY <1>1 DEF ThreadWake, ThreadTarget, ThreadCheck, ThreadClear, TakesTurns
    <3> QED BY <2>1, <3>1, <3>2 DEF ShotKept
  <2> QED BY <2>2, <2>3, <2>4, <2>5
<1>2. CASE ThreadStart
  <2>1. /\ tpc = "start" /\ tpc' = "clear" /\ g_pwm_count' = 0 /\ timer' /\ shot' = <<>>
        /\ UNCHANGED <<paramVars, thread_flag, g_pwm_target_count, lamp, trig, ioctlVars>>
    BY <1>2 DEF ThreadStart
  <2>2. ipc = "idle" /\ thread_flag = 1 /\ ~timer
    BY <2>1 DEF TakesTurns
  <2>3. TakesTurns'
    BY <2>1, <2>2 DEF TakesTurns
  <2>4. g_pwm_target_count = 3 * Len(asked) /\ Len(asked) > 0 /\ Len(asked) \in Nat
    BY <2>1, <2>2 DEF AskedKept
  <2>5. AskedKept'
    BY <2>1, <2>2, <2>4 DEF AskedKept
  <2>6. OutputsFollow'
    <3>1. g_pwm_count' < g_pwm_target_count'
      BY <2>1, <2>4
    <3>2. Stage' = 0
      BY <2>1 DEF Stage
    <3>3. ~trig /\ \A i \in Lamp : ~lamp[i]
      BY <2>2 DEF OutputsFollow
    <3> QED BY <2>1, <3>1, <3>2, <3>3 DEF OutputsFollow
  <2>7. ShotKept'
    <3>1. Len(shot') = 0 /\ (0 + 2) \div 3 = 0
      BY <2>1
    <3> QED BY <2>1, <3>1 DEF ShotKept
  <2> QED BY <2>3, <2>5, <2>6, <2>7
<1> QED BY <1>1, <1>2 DEF ThreadStep

(* Where a queued timer finds the burst. *)
LEMMA InBurst ==
    ASSUME TypeOK, CountInRange, BurstInv, timer
    PROVE  /\ Round \in Nat /\ Stage \in 0..2 /\ g_state % 3 = Stage
           /\ g_pwm_count = 3 * Round + Stage
           /\ Len(asked) \in Nat /\ g_pwm_target_count = 3 * Len(asked) /\ Round < Len(asked)
           /\ mIndex \in Lamp /\ mIndex = asked[Round + 1]
           /\ \A i \in Lamp : IsMIndex(i) <=> i = mIndex
           /\ ipc = "idle"
<1>1. /\ Round \in Nat /\ Stage \in 0..2 /\ g_state % 3 = Stage
      /\ g_pwm_count = 3 * Round + Stage
  BY Thirds DEF TypeOK, CountInRange, Round, Stage
<1>2. Len(asked) \in Nat /\ g_pwm_target_count = 3 * Len(asked)
  BY DEF TypeOK, BurstInv, AskedKept
<1>3. Round < Len(asked)
  BY <1>1, <1>2 DEF BurstInv, OutputsFollow
<1>4. mIndex \in Lamp /\ \A i \in Lamp : IsMIndex(i) <=> i = mIndex
  <2>1. Len(asked) <= Lamps
    BY DEF BurstInv, AskedKept
  <2>2. Round < Lamps /\ g_pwm_count < 3 * Lamps
    BY <1>1, <1>2, <1>3, <2>1, LampsAssumption
  <2> QED BY <2>2, IndexInTable DEF IsMIndex, mIndex
<1>5. mIndex = asked[Round + 1]
  <2>1. Round + 1 \in 1..Len(asked)
    BY <1>1, <1>2, <1>3
  <2> QED BY <2>1 DEF mIndex, Round, BurstInv, AskedKept
<1>6. ipc = "idle"
  BY DEF BurstInv, TakesTurns
<1> QED BY <1>1, <1>2, <1>3, <1>4, <1>5, <1>6

LEMMA CountSplit == ASSUME g_pwm_count' \in Nat PROVE g_pwm_count' = 3 * Round' + Stage'
<1> DEFINE n == g_pwm_count'
<1>1. n = 3 * (n \div 3) + (n % 3)
  <2>1. n \in Nat
    OBVIOUS
  <2> HIDE DEF n
  <2> QED BY <2>1, Thirds
<1> QED BY <1>1 DEF Round, Stage

(* What Advance makes of it: the next stage, the next lamp or the end.     *)
LEMMA StageMoves ==
    ASSUME TypeOK, CountInRange, BurstInv, timer, UNCHANGED g_pwm_target_count,
           NEW stages \in {1, 2}, Stage + stages <= 3, Advance(stages)
    PROVE  /\ Stage + stages < 3 => timer' /\ Round' = Round /\ Stage' = Stage + stages
           /\ Stage + stages = 3 /\ Round + 1 < Len(asked) => timer' /\ Round' = Round + 1 /\ Stage' = 0
           /\ Stage + stages = 3 /\ ~(Round + 1 < Len(asked)) => ~timer' /\ Round + 1 = Len(asked)
           /\ timer' => g_pwm_count' < g_pwm_target_count'
           /\ g_pwm_count' \in Nat
<1> DEFINE k == Round  r == Stage  L == Len(asked)  n == g_pwm_count  t == g_pwm_target_count
<1>0. Round' = n' \div 3 /\ Stage' = n' % 3
  BY DEF Round, Stage
<1>1. k \in Nat /\ r \in 0..2 /\ n = 3 * k + r /\ L \in Nat /\ t = 3 * L /\ k < L
  BY InBurst
<1>2. timer' <=> ~(n + stages >= t)
  BY DEF Advance
<1>3. n + stages < t => n' = n + stages
  BY <1>1, <1>2 DEF Advance
<1>4. n + stages >= t => n' = 0
  BY DEF Advance
<1>5. n' \in Nat /\ n \in Nat /\ t \in Nat
  BY <1>1, <1>3, <1>4
<1>6. timer' => n' < t'
  BY <1>1, <1>2, <1>3
<1>7. ASSUME r + stages < 3 PROVE timer' /\ Round' = k /\ Stage' = r + stages
  <2>1. n + stages < t
    <3> HIDE DEF k, r, L, n, t
    <3> QED BY <1>1, <1>7
  <2>2. n' = 3 * k + (r + stages)
    <3> HIDE DEF k, r, L, n, t
    <3> QED BY <1>1, <1>3, <2>1
  <2>3. n' \div 3 = k /\ n' % 3 = r + stages
    <3> HIDE DEF k, r, L, n, t
    <3> QED BY <1>1, <1>5, <1>7, <2>2, ThirdsOf
  <2>4. timer'
    <3> HIDE DEF k, r, L, n, t
    <3> QED BY <1>1, <1>2, <1>5, <2>1
  <2> QED BY <1>0, <2>3, <2>4, Zenon
<1>8. ASSUME r + stages = 3, k + 1 < L PROVE timer' /\ Round' = k + 1 /\ Stage' = 0
  <2>1. n + stages < t
    <3> HIDE DEF k, r, L, n, t
    <3> QED BY <1>1, <1>8
  <2>2. n' = 3 * (k + 1) + 0
    <3> HIDE DEF k, r, L, n, t
    <3> QED BY <1>1, <1>3, <1>8, <2>1
  <2>3. n' \div 3 = k + 1 /\ n' % 3 = 0
    <3> HIDE DEF k, r, L, n, t
    <3> QED BY <1>1, <1>5, <2>2, ThirdsOf
  <2>4. timer'
    <3> HIDE DEF k, r, L, n, t
    <3> QED BY <1>1, <1>2, <1>5, <2>1
  <2> QED BY <1>0, <2>3, <2>4, Zenon
<1>9. ASSUME r + stages = 3, ~(k + 1 < L) PROVE ~timer' /\ k + 1 = L
  <2>1. k + 1 = L /\ n + stages >= t
    <3> HIDE DEF k, r, L, n, t
    <3> QED BY <1>1, <1>9
  <2> QED BY <1>2, <2>1
<1> QED BY <1>5, <1>6, <1>7, <1>8, <1>9

(* The callback leaves the application and the thread where they are. *)
LEMMA TurnsStay ==
    ASSUME TypeOK, BurstInv, timer, UNCHANGED <<ipc, thread_flag, tpc>>
    PROVE  TakesTurns'
BY DEF BurstInv, TakesTurns

LEMMA AskedStays ==
    ASSUME TypeOK, BurstInv, timer,
           UNCHANGED <<paramVars, thread_flag, g_pwm_target_count, ioctlVars, tpc>>
    PROVE  AskedKept'
BY DEF BurstInv, AskedKept, paramVars, ioctlVars

LEMMA LampOnKeeps ==
    ASSUME TypeOK, CountInRange, BurstInv, waits, LampOn
    PROVE  BurstInv'
<1> USE DEF paramVars, stageVars, outVars, ioctlVars
<1>1. /\ timer /\ trig' /\ lamp' = [lamp EXCEPT ![mIndex] = TRUE] /\ shot' = Append(shot, mIndex)
      /\ Advance(1) /\ UNCHANGED <<paramVars, thread_flag, g_pwm_target_count, ioctlVars, tpc>>
  <2>1. \A i \in Lamp : IsMIndex(i) <=> i = mIndex
    BY InBurst DEF LampOn
  <2> QED BY <2>1 DEF LampOn
<1>2. Stage = 0 /\ Round \in Nat /\ Round < Len(asked) /\ Len(asked) \in Nat
      /\ mIndex \in Lamp /\ mIndex = asked[Round + 1] /\ g_pwm_count = 3 * Round
  BY <1>1, InBurst DEF LampOn
<1>3. timer' /\ Round' = Round /\ Stage' = 1 /\ g_pwm_count' < g_pwm_target_count' /\ g_pwm_count' \in Nat
  <2>1. Stage + 1 <= 3 /\ Stage + 1 < 3 /\ Stage + 1 = 1
    BY <1>2
  <2> QED BY <1>1, <2>1, StageMoves
<1>4. mIndex' = mIndex
  BY <1>1, <1>3 DEF mIndex, Round
<1>5. TakesTurns' /\ AskedKept'
  BY <1>1, TurnsStay, AskedStays
<1>6. OutputsFollow'
  <2>1. \A i \in Lamp : ~lamp[i]
    BY <1>2 DEF BurstInv, OutputsFollow
  <2>2. \A i \in Lamp : lamp'[i] <=> i = mIndex
    BY <1>1, <1>2, <2>1 DEF TypeOK
  <2> QED BY <1>1, <1>3, <1>4, <2>2 DEF OutputsFollow
<1>7. ShotKept'
  <2>1. Len(shot) = Round /\ \A j \in 1..Len(shot) : shot[j] = asked[j]
    <3>1. Len(shot) = (g_pwm_count + 2) \div 3 /\ \A j \in 1..Len(shot) : shot[j] = asked[j]
      BY <1>1 DEF BurstInv, ShotKept
    <3>2. (3 * Round + 2) \div 3 = Round
      BY <1>2, ThirdsOf
    <3> QED BY <1>2, <3>1, <3>2
  <2>2. Len(shot') = Round + 1 /\ \A j \in 1..(Round + 1) : shot'[j] = asked[j]
    BY <1>1, <1>2, <2>1 DEF TypeOK
  <2>3. (g_pwm_count' + 2) \div 3 = Round + 1
    <3>1. g_pwm_count' = 3 * Round + 1
      BY <1>3, CountSplit
    <3>2. g_pwm_count' + 2 = 3 * (Round + 1) + 0
      BY <1>2, <3>1
    <3>3. g_pwm_count' + 2 \in Nat
      BY <1>2, <3>2
    <3>4. Round + 1 \in Nat
      BY <1>2
    <3> QED BY <3>2, <3>3, <3>4, ThirdsOf
  <2> QED BY <1>1, <1>3, <2>2, <2>3 DEF ShotKept
<1> QED BY <1>5, <1>6, <1>7 DEF BurstInv

(* The lamp goes out; TRIG follows at once if the second stage is empty.   *)
LEMMA DarkKeeps ==
    ASSUME TypeOK, CountInRange, BurstInv, waits, NEW stages \in {1, 2}, timer,
           Stage \in {1, 2}, Stage + stages <= 3, Advance(stages),
           shot' = shot, \A i \in Lamp : ~lamp'[i],
           trig' <=> Stage + stages < 3,
           UNCHANGED <<paramVars, thread_flag, g_pwm_target_count, ioctlVars, tpc>>
    PROVE  BurstInv'
<1>1. Round \in Nat /\ Round < Len(asked) /\ Len(asked) \in Nat /\ g_pwm_count = 3 * Round + Stage
  BY InBurst
<1>2. /\ Stage + stages < 3 => timer' /\ Round' = Round /\ Stage' = Stage + stages
      /\ Stage + stages = 3 /\ Round + 1 < Len(asked) => timer' /\ Round' = Round + 1 /\ Stage' = 0
      /\ Stage + stages = 3 /\ ~(Round + 1 < Len(asked)) => ~timer' /\ Round + 1 = Len(asked)
      /\ timer' => g_pwm_count' < g_pwm_target_count'
      /\ g_pwm_count' \in Nat
  BY StageMoves
<1>3. Stage + stages \in {2, 3}
  OBVIOUS
<1>4. TakesTurns' /\ AskedKept'
  BY TurnsStay, AskedStays DEF ioctlVars
<1>5. OutputsFollow'
  <2>1. trig' <=> (timer' /\ Stage' # 0)
    BY <1>2, <1>3
  <2>2. ~(timer' /\ Stage' = 1)
    BY <1>2, <1>3
  <2> QED BY <1>2, <2>1, <2>2 DEF OutputsFollow
<1>6. Len(shot) = Round + 1 /\ \A j \in 1..Len(shot) : shot[j] = asked[j]
  <2>1. Len(shot) = (g_pwm_count + 2) \div 3 /\ \A j \in 1..Len(shot) : shot[j] = asked[j]
    BY DEF BurstInv, ShotKept
  <2>2. g_pwm_count + 2 \in Nat /\ Round + 1 \in Nat /\ Stage - 1 \in 0..2
        /\ g_pwm_count + 2 = 3 * (Round + 1) + (Stage - 1)
    BY <1>1
  <2> QED BY <2>1, <2>2, ThirdsOf
<1>7. ShotKept'
  <2>1. CASE timer'
    <3>1. (g_pwm_count' + 2) \div 3 = Round + 1
      <4>1. g_pwm_count' = 3 * Round' + Stage'
        BY <1>2, CountSplit
      <4>2. PICK m \in 0..2 : g_pwm_count' + 2 = 3 * (Round + 1) + m
        <5>1. CASE Stage + stages = 2
          <6>1. g_pwm_count' + 2 = 3 * (Round + 1) + 1
            BY <1>1, <1>2, <4>1, <5>1
          <6> QED BY <6>1
        <5>2. CASE Stage + stages = 3
          <6>1. g_pwm_count' + 2 = 3 * (Round + 1) + 2
            BY <1>1, <1>2, <2>1, <4>1, <5>2
          <6> QED BY <6>1
        <5> QED BY <1>3, <5>1, <5>2
      <4>3. g_pwm_count' + 2 \in Nat
        BY <1>1, <4>2
      <4>4. Round + 1 \in Nat
        BY <1>1
      <4> QED BY <4>2, <4>3, <4>4, ThirdsOf
    <3> QED BY <1>6, <2>1, <3>1 DEF ShotKept, ioctlVars
  <2>2. CASE ~timer'
    <3>1. Len(shot) = Len(asked)
      BY <1>2, <1>3, <1>6, <2>2
    <3>2. shot = asked
      BY <1>6, <3>1 DEF TypeOK
    <3> QED BY <2>2, <3>2 DEF ShotKept, ioctlVars
  <2> QED BY <2>1, <2>2
<1> QED BY <1>4, <1>5, <1>7 DEF BurstInv

LEMMA OffKeeps ==
    ASSUME TypeOK, CountInRange, BurstInv, waits, LampOff \/ TrigOff
    PROVE  BurstInv'
<1>1. timer /\ shot' = shot
      /\ UNCHANGED <<paramVars, thread_flag, g_pwm_target_count, ioctlVars, tpc>>
  BY DEF LampOff, TrigOff
<1>2. g_state % 3 = Stage /\ mIndex \in Lamp
  BY <1>1, InBurst
<1>5. \A i \in Lamp : IsMIndex(i) <=> i = mIndex
  BY <1>1, InBurst
<1>3. CASE LampOff
  <2>1. Stage = 1
    BY <1>2, <1>3 DEF LampOff
  <2>2. trig /\ \A i \in Lamp : lamp[i] <=> i = mIndex
    BY <1>1, <2>1 DEF BurstInv, OutputsFollow
  <2>3. \A i \in Lamp : ~lamp'[i]
    <3>1. lamp' = [lamp EXCEPT ![mIndex] = FALSE]
      BY <1>3, <1>5 DEF LampOff
    <3> QED BY <1>2, <2>2, <3>1 DEF TypeOK
  <2>6. (Advance(1) /\ UNCHANGED trig) \/ (Advance(2) /\ trig' = FALSE)
    BY <1>3 DEF LampOff
  <2>4. CASE Advance(1) /\ UNCHANGED trig
    <3>1. Stage + 1 < 3 /\ Stage + 1 <= 3 /\ Stage \in {1, 2}
      BY <2>1
    <3> QED BY <1>1, <2>2, <2>3, <2>4, <3>1, DarkKeeps
  <2>5. CASE Advance(2) /\ trig' = FALSE
    <3>1. ~(Stage + 2 < 3) /\ Stage + 2 <= 3 /\ Stage \in {1, 2}
      BY <2>1
    <3> QED BY <1>1, <2>3, <2>5, <3>1, DarkKeeps
  <2> QED BY <2>4, <2>5, <2>6
<1>4. CASE TrigOff
  <2>1. Stage = 2 /\ trig' = FALSE /\ Advance(1) /\ lamp' = lamp
    BY <1>2, <1>4 DEF TrigOff
  <2>2. \A i \in Lamp : ~lamp[i]
    BY <2>1 DEF BurstInv, OutputsFollow
  <2>3. ~(Stage + 1 < 3) /\ Stage + 1 <= 3 /\ Stage \in {1, 2}
    BY <2>1
  <2> QED BY <1>1, <2>1, <2>2, <2>3, DarkKeeps
<1> QED BY <1>3, <1>4

(* The invariant of a waiting application, under the types and the counts. *)
LEMMA WaitingBurst == Spec => [](TypeOK /\ CountInRange /\ (waits => BurstInv))
<1>1. Init => (waits => BurstInv)
  <2> SUFFICES ASSUME Init PROVE BurstInv
    OBVIOUS
  <2>1. TakesTurns
    BY DEF Init, TakesTurns
  <2>2. Len(asked) = 0 /\ Len(shot) = 0
    BY DEF Init
  <2>3. AskedKept
    BY <2>2, LampsAssumption DEF Init, AskedKept
  <2>4. OutputsFollow /\ ShotKept
    BY <2>2 DEF Init, OutputsFollow, ShotKept
  <2> QED BY <2>1, <2>3, <2>4 DEF BurstInv
<1>2. TypeOK /\ TypeOK' /\ CountInRange /\ (waits => BurstInv) /\ [Next]_vars => (waits => BurstInv)'
  <2> SUFFICES ASSUME TypeOK, TypeOK', CountInRange, waits => BurstInv, [Next]_vars, waits'
               PROVE  BurstInv'
    OBVIOUS
  <2>1. waits' = waits
    BY DEF Next, Ioctl, ThreadStep, TimerFire, RgbParamCheck, RgbParamCopy, TrigSelect, TrigNum, TrigWake,
           ThreadWake, ThreadTarget, ThreadCheck, ThreadStart, ThreadClear, LampOn, LampOff, TrigOff,
           vars, paramVars
  <2>2. waits /\ BurstInv
    BY <2>1
  <2>3. CASE UNCHANGED vars
    BY <2>2, <2>3 DEF BurstInv, TakesTurns, AskedKept, OutputsFollow, ShotKept, Stage, Round, mIndex,
                      vars, paramVars, stageVars, outVars, ioctlVars
  <2>4. CASE Ioctl
    BY <2>2, <2>4, IoctlKeeps
  <2>5. CASE ThreadStep
    BY <2>2, <2>5, ThreadKeeps
  <2>6. CASE TimerFire
    BY <2>2, <2>6, LampOnKeeps, OffKeeps DEF TimerFire
  <2> QED BY <2>3, <2>4, <2>5, <2>6 DEF Next
<1> QED BY <1>1, <1>2, TypesAndCounts, PTL DEF Spec

(* A lamp of an application that waits lights only inside the sensor's     *)
(* exposure, and only one at a time.                                       *)
THEOREM LitInExposure == Spec => []LampInsideTrig
<1>1. (waits => BurstInv) => LampInsideTrig
  <2> SUFFICES ASSUME BurstInv, NEW i \in Lamp, lamp[i]
               PROVE  trig /\ timer /\ \A j \in Lamp : lamp[j] => i = j
    BY DEF LampInsideTrig
  <2>1. timer /\ Stage = 1 /\ i = mIndex /\ \A j \in Lamp : lamp[j] => j = mIndex
    BY DEF BurstInv, OutputsFollow
  <2>2. trig
    BY <2>1 DEF BurstInv, OutputsFollow
  <2> QED BY <2>1, <2>2
<1> QED BY <1>1, WaitingBurst, PTL

(* When a burst of an application that waits is over, every lamp it chose  *)
(* was lit once, in the order of their indices.                            *)
THEOREM AllLampsLit == Spec => []BurstComplete
<1>1. (waits => BurstInv) => BurstComplete
  BY DEF BurstInv, ShotKept, BurstComplete, Resting
<1> QED BY <1>1, WaitingBurst, PTL

(* Between the bursts of such an application nothing is lit. *)
THEOREM DarkAtRest == Spec => [](waits => RestIsDark)
<1>1. (waits => BurstInv) => (waits => RestIsDark)
  BY DEF BurstInv, OutputsFollow, RestIsDark, Resting, Dark
<1> QED BY <1>1, WaitingBurst, PTL
=============================================================================
