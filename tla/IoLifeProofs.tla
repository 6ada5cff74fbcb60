---------------------------- MODULE IoLifeProofs ----------------------------
(***************************************************************************)
(* Proofs about IoLife, for any number of probes, edges and calls.  What   *)
(* is held is closed downwards: whoever holds a resource holds every one   *)
(* that was taken before it or was passed over in this probe, since probe  *)
(* goes up and the device core goes down the same list.                    *)
(***************************************************************************)
EXTENDS IoLife, TLAPS

Idx == 1 .. 15
There(i) == Order[i] \in held \cup absent

LEMMA OrderFacts ==
    /\ Len(Order) = 15 /\ Parts = {Order[i] : i \in Idx}
    /\ Order[1] = "gdev" /\ Order[2] = "pwm" /\ Order[8] = "rgb" /\ Order[9] = "wq_2D"
    /\ Order[12] = "irqIo" /\ Order[13] = "irq0" /\ Order[14] = "irq1" /\ Order[15] = "irq2"
BY DEF Order, Managed, Parts, Idx

LEMMA OrderTwoDiffer == \A i, j \in Idx : Order[i] = Order[j] => i = j
BY DEF Order, Managed, Idx

LEMMA IrqIsLate == \A l \in Inputs : \E i \in {13, 14, 15} : Irq(l) = Order[i]
BY OrderFacts DEF Irq, Lines, Inputs, CAM_XTRIG_1

\* What a handler touches was taken no later than its interrupt.
LEMMA UsesAreEarlier ==
    ASSUME NEW l \in Inputs
    PROVE  \A r \in HandlerUses(l) : r = Irq(l) \/ \E j \in 1 .. 12 : r = Order[j]
<1>1. l \in {0, 1, 2}
  BY DEF Inputs, Lines, CAM_XTRIG_1
<1>2. HandlerUses(l) \subseteq {"gdev", "irqIo", Irq(l), "wq_2D", "rgb"}
  <2>1. CASE l = 0
    BY <2>1 DEF HandlerUses, CAM_XTRIG_1
  <2>2. CASE l = 1
    BY <2>2 DEF HandlerUses, CAM_XTRIG_1
  <2>3. CASE l = 2
    BY <2>3 DEF HandlerUses, CAM_XTRIG_1
  <2> QED BY <1>1, <2>1, <2>2, <2>3
<1> QED BY <1>2, OrderFacts
-----------------------------------------------------------------------------
Complete == {"chrdev", "debugfs", "bound", "remove_mask"}
Rising   == {"probe", "ramp", "mask"}

ClosedDown == \A i, j \in Idx : j < i /\ Order[i] \in held => There(j)

StepKnown ==
    /\ step \in Idx
    /\ pc \in Rising => \A j \in Idx : j < step => There(j)
    /\ pc \in {"ramp", "mask"} => Order[step] \in held
    /\ pc \in Complete => \A j \in Idx : There(j)
    /\ pc = "unwind" => \A i \in Idx : i > step => Order[i] \notin held
    /\ pc = "unbound" => \A i \in Idx : Order[i] \notin held

HandlerLabel == {"idle", "store", "load", "count", "signal", "wake"}

UsersHold ==
    /\ handler \in [Inputs -> HandlerLabel]
    /\ open \subseteq held
    /\ \A l \in Inputs : handler[l] # "idle" => Irq(l) \in held
    /\ files # {} => pc \in Complete

LifeInv == ClosedDown /\ StepKnown /\ UsersHold

LEMMA LifeIsSafe == LifeInv => PartsBeforeUse
<1> SUFFICES ASSUME LifeInv PROVE PartsBeforeUse
  OBVIOUS
<1> USE DEF LifeInv, UsersHold, ClosedDown, StepKnown
<1>1. ASSUME NEW l \in Inputs, Irq(l) \in open \/ handler[l] # "idle"
      PROVE  HandlerUses(l) \subseteq held \cup absent
  <2>1. PICK i \in {13, 14, 15} : Irq(l) = Order[i] /\ Order[i] \in held
    BY <1>1, IrqIsLate
  <2>2. \A j \in 1 .. 12 : There(j)
    BY <2>1 DEF Idx
  <2> QED BY <2>1, <2>2, UsesAreEarlier DEF There
<1>2. files # {} => Parts \subseteq held \cup absent
  BY OrderFacts DEF There
<1> QED BY <1>1, <1>2 DEF PartsBeforeUse

\* A step of anybody but probe and remove: what is held stays, an interrupt is open or
\* running only if it is held.
LEMMA OthersKeep ==
    ASSUME LifeInv, UNCHANGED <<pc, step, held, absent, files>>, UsersHold' PROVE LifeInv'
BY DEF LifeInv, ClosedDown, StepKnown, There

LEMMA AcquireKeeps == ASSUME LifeInv, Acquire PROVE LifeInv'
<1>1. /\ step \in Idx /\ pc = "probe" /\ held' = held \cup {Order[step]} /\ absent' = absent
      /\ \A j \in Idx : j < step => There(j)
      /\ handler' = handler /\ files' = files /\ open' \subseteq open \cup {Order[step]}
  BY DEF LifeInv, StepKnown, Rising, Acquire, irqs
<1>2. ClosedDown'
  BY <1>1, OrderTwoDiffer DEF LifeInv, ClosedDown, Idx, There
<1>3. \/ step' = step /\ pc' \in {"ramp", "mask"}
      \/ step' = step /\ step = 15 /\ pc' = "chrdev"
      \/ step' = step + 1 /\ step # 15 /\ pc' = "probe"
  BY OrderFacts DEF Acquire, Last
<1>4. \A j \in Idx : j <= step => There(j)'
  BY <1>1 DEF Idx, There
<1>5. step' \in Idx
  BY <1>1, <1>3 DEF Idx
<1>6. StepKnown'
  BY <1>1, <1>3, <1>4, <1>5 DEF StepKnown, Rising, Complete, Idx, There
<1>7. UsersHold'
  BY <1>1 DEF LifeInv, UsersHold, Complete
<1> QED BY <1>2, <1>6, <1>7 DEF LifeInv

\* The ramp and the mask end by going on to the next entry.
LEMMA ContinueKeeps ==
    ASSUME LifeInv, pc \in {"ramp", "mask"}, Continue \/ UNCHANGED <<pc, step>>,
           open' \subseteq open, UNCHANGED <<held, absent, files, handler>>
    PROVE  LifeInv'
<1>1. /\ step \in Idx
      /\ \A j \in Idx : j <= step => There(j)
  BY DEF LifeInv, StepKnown, Rising, Idx, There
<1>2. files = {}
  BY DEF LifeInv, UsersHold, Complete
<1>3. CASE Continue
  <2>1. \/ step' = step /\ step = 15 /\ pc' = "chrdev"
        \/ step' = step + 1 /\ step # 15 /\ pc' = "probe"
    BY <1>3, OrderFacts DEF Continue, Last
  <2>2. step' \in Idx
    BY <1>1, <2>1 DEF Idx
  <2>3. StepKnown'
    BY <1>1, <2>1, <2>2 DEF StepKnown, Rising, Complete, Idx, There
  <2> QED BY <1>2, <2>3 DEF LifeInv, ClosedDown, UsersHold, There
<1>4. CASE UNCHANGED <<pc, step>>
  BY <1>2, <1>4 DEF LifeInv, ClosedDown, StepKnown, UsersHold, There
<1> QED BY <1>3, <1>4

LEMMA FailKeeps == ASSUME LifeInv, Fail PROVE LifeInv'
<1>1. /\ step \in Idx /\ pc = "probe" /\ UNCHANGED <<held, files, open, handler>>
      /\ \A j \in Idx : j < step => There(j)
  BY DEF LifeInv, StepKnown, Rising, Fail, irqs
<1>2. \/ Order[step] \in Optional /\ absent' = absent \cup {Order[step]} /\ pc' = "probe" /\ step' = step + 1
      \/ pc' = "unwind" /\ step' = 15 /\ absent' = absent
  BY <1>1, OrderFacts DEF Fail
<1>3. step' \in Idx
  BY <1>1, <1>2, OrderFacts DEF Idx, Optional
<1>4. StepKnown'
  <2>1. CASE pc' = "probe"
    <3>1. \A j \in Idx : j <= step => There(j)'
      BY <1>1, <1>2, <2>1 DEF Idx, There
    <3> QED BY <1>1, <1>2, <1>3, <2>1, <3>1 DEF StepKnown, Rising, Complete, Idx
  <2>2. CASE pc' = "unwind"
    BY <1>2, <1>3, <2>2 DEF StepKnown, Rising, Complete, Idx
  <2> QED BY <1>2, <2>1, <2>2
<1>5. files = {}
  BY <1>1 DEF LifeInv, UsersHold, Complete
<1>6. ClosedDown'
  BY <1>1, <1>2 DEF LifeInv, ClosedDown, There
<1> QED BY <1>1, <1>4, <1>5, <1>6 DEF LifeInv, UsersHold

\* Probe begins, the entries appear, remove begins.
LEMMA ProbeKeeps == ASSUME LifeInv, Probe PROVE LifeInv'
<1>1. /\ pc = "unbound" /\ pc' = "probe" /\ step' = 1 /\ UNCHANGED <<held, files, open, handler>>
  BY DEF Probe, irqs
<1>2. \A i \in Idx : Order[i] \notin held
  BY <1>1 DEF LifeInv, StepKnown
<1>3. StepKnown' /\ ClosedDown'
  BY <1>1, <1>2 DEF StepKnown, ClosedDown, Rising, Complete, Idx
<1> QED BY <1>1, <1>3 DEF LifeInv, UsersHold, Complete

LEMMA EntriesKeep ==
    ASSUME LifeInv, RegisterChrdev \/ debugfs_init \/ Remove \/ RemoveMask PROVE LifeInv'
<1>1. UNCHANGED <<held, absent, handler>> /\ open' \subseteq open
  BY DEF RegisterChrdev, debugfs_init, Remove, RemoveMask, irqs
<1>2. ClosedDown'
  BY <1>1 DEF LifeInv, ClosedDown, There
<1>3. pc \in Complete /\ step \in Idx /\ \A j \in Idx : There(j)'
  BY <1>1 DEF RegisterChrdev, debugfs_init, Remove, RemoveMask, LifeInv, StepKnown, Complete, There
<1>4. StepKnown' /\ (files' # {} => pc' \in Complete)
  <2>1. CASE RegisterChrdev \/ debugfs_init \/ Remove
    BY <1>3, <2>1 DEF RegisterChrdev, debugfs_init, Remove, StepKnown, Rising, Complete, Idx, FirstIrq
  <2>2. CASE RemoveMask
    BY <1>3, <2>2, OrderFacts DEF RemoveMask, Last, StepKnown, Rising, Complete, Idx
  <2> QED BY <2>1, <2>2
<1> QED BY <1>1, <1>2, <1>4 DEF LifeInv, UsersHold

LEMMA UnwindKeeps == ASSUME LifeInv, Unwind PROVE LifeInv'
<1>1. /\ step \in Idx /\ pc = "unwind" /\ held' = held \ {Order[step]} /\ absent' = absent
      /\ open' = open \ {Order[step]} /\ UNCHANGED <<files, handler>> /\ Idle(Order[step])
      /\ \A i \in Idx : i > step => Order[i] \notin held
  BY DEF LifeInv, StepKnown, Unwind, irqs
<1>2. \/ step = 1 /\ pc' = "unbound" /\ step' = step
      \/ step # 1 /\ pc' = "unwind" /\ step' = step - 1
  BY DEF Unwind
<1>3. ClosedDown'
  BY <1>1, OrderTwoDiffer DEF LifeInv, ClosedDown, Idx, There
<1>4. StepKnown'
  <2>1. step' \in Idx
    BY <1>1, <1>2 DEF Idx
  <2>2. \A i \in Idx : i > step - 1 => Order[i] \notin held'
    BY <1>1 DEF Idx
  <2>3. step = 1 => \A i \in Idx : Order[i] \notin held'
    BY <2>2 DEF Idx
  <2> QED BY <1>1, <1>2, <2>1, <2>2, <2>3 DEF StepKnown, Rising, Complete
<1>5. UsersHold'
  BY <1>1 DEF LifeInv, UsersHold, Complete, Idle
<1> QED BY <1>3, <1>4, <1>5 DEF LifeInv

LEMMA LifeStep == ASSUME LifeInv, [Next]_vars PROVE LifeInv'
<1> USE DEF vars, life, irqs, apps, Quiet
<1>1. CASE iomanager_probe
  <2>1. CASE PowerRamp \/ MaskNew
    BY <2>1, ContinueKeeps DEF PowerRamp, MaskNew
  <2> QED BY <1>1, <2>1, AcquireKeeps, FailKeeps, ProbeKeeps, EntriesKeep DEF iomanager_probe
<1>2. CASE iomanager_remove
  BY <1>2, EntriesKeep, UnwindKeeps DEF iomanager_remove
<1>3. CASE iomanager_ioctl \/ iomanager_fasync \/ Deliver \/ UNCHANGED vars
  <2>1. UNCHANGED <<pc, step, held, absent, files, open, handler>>
    BY <1>3 DEF iomanager_ioctl, iomanager_fasync, Deliver, IO_GET_TRIGGER_PIN, IO_SET_DLP_STATUS, SetDlp,
                SetDlpLate, IO_SET_USB_ENABLE_DLP_STATUS, IO_SET_SINGLE_RGB_TRIG, TrigWakes
  <2> QED BY <2>1, OthersKeep DEF LifeInv, UsersHold
<1>4. ASSUME NEW l \in Inputs, Edge(l) \/ gpio_irq_handler(l) \/ (l = CAM_XTRIG_1 /\ (XtrigEdge \/ WakeLamps))
      PROVE  LifeInv'
  <2>1. UNCHANGED <<pc, step, held, absent, files, open>>
    BY <1>4 DEF Edge, gpio_irq_handler, StorePin, LoadCount, StoreCount, KillFasync, XtrigEdge, WakeLamps
  <2>2. Irq(l) \in held
    BY <1>4 DEF LifeInv, UsersHold, Edge, gpio_irq_handler, StorePin, LoadCount, StoreCount, KillFasync,
                XtrigEdge, WakeLamps, At
  <2>3. \E at \in HandlerLabel : handler' = [handler EXCEPT ![l] = at]
    BY <1>4 DEF Edge, gpio_irq_handler, StorePin, LoadCount, StoreCount, KillFasync, XtrigEdge, WakeLamps,
                At, HandlerLabel
  <2> QED BY <2>1, <2>2, <2>3, OthersKeep DEF LifeInv, UsersHold
<1>5. ASSUME NEW l \in Inputs, SetOpen(l) PROVE LifeInv'
  <2>1. UNCHANGED <<pc, step, held, absent, files, handler>> /\ open' \subseteq open \cup {Irq(l)}
    BY <1>5 DEF SetOpen
  <2>2. Irq(l) \in held
    BY <1>5 DEF SetOpen
  <2> QED BY <2>1, <2>2, OthersKeep DEF LifeInv, UsersHold
<1>6. ASSUME NEW l \in Lines, count_write(l) PROVE LifeInv'
  <2>1. UNCHANGED <<pc, step, held, absent, files, open, handler>>
    BY <1>6 DEF count_write
  <2> QED BY <2>1, OthersKeep DEF LifeInv, UsersHold
<1>7. Lines \subseteq Inputs /\ CAM_XTRIG_1 \in Inputs
  BY DEF Inputs
<1> QED BY <1>1, <1>2, <1>3, <1>4, <1>5, <1>6, <1>7 DEF Next

(* Wherever the probe fails and whenever the driver is unbound, under whatever calls *)
(* and old files: a handler never runs, and no entry exists, without what it touches *)
(* but for parts that this very probe had passed over.                               *)
THEOREM PartsOutliveUse == Spec => []PartsBeforeUse
<1>1. Init => LifeInv
  BY DEF Init, LifeInv, ClosedDown, StepKnown, UsersHold, Rising, Complete, Idx, HandlerLabel
<1> QED BY <1>1, LifeStep, LifeIsSafe, PTL DEF Spec
-----------------------------------------------------------------------------
\* A handler between its load and its store has read a count that a reset may have
\* made stale, but that is not below what was counted since.
CountTypes == /\ handler \in [Inputs -> HandlerLabel]
              /\ total \in [Lines -> Nat] /\ since \in [Lines -> Nat] /\ local \in [Lines -> Nat]
              /\ g_triggerPin_input_count \in [Lines -> Nat]
LoadedCount == \A l \in Lines : handler[l] = "count" => since[l] <= local[l] /\ local[l] <= total[l]
CountInv == CountTypes /\ LoadedCount /\ NoEdgeUncounted

LEMMA CountStep == ASSUME CountInv, [Next]_vars PROVE CountInv'
<1> USE DEF CountInv, CountTypes, LoadedCount, NoEdgeUncounted, HandlerLabel, Inputs
<1>1. CASE UNCHANGED <<handler, local, g_triggerPin_input_count, total, since>>
  BY <1>1
<1>2. ASSUME NEW l \in Inputs,
             Edge(l) \/ StorePin(l) \/ KillFasync(l) \/ (l = CAM_XTRIG_1 /\ (XtrigEdge \/ WakeLamps))
      PROVE CountInv'
  <2>1. UNCHANGED <<local, g_triggerPin_input_count, total, since>>
    BY <1>2 DEF Edge, StorePin, KillFasync, XtrigEdge, WakeLamps
  <2>2. \E at \in HandlerLabel \ {"count"} : handler' = [handler EXCEPT ![l] = at]
    BY <1>2 DEF Edge, StorePin, KillFasync, XtrigEdge, WakeLamps, At
  <2>3. handler' \in [Inputs -> HandlerLabel] /\ LoadedCount'
    BY <2>1, <2>2
  <2> QED BY <2>1, <2>3
<1>3. ASSUME NEW l \in Lines, LoadCount(l) PROVE CountInv'
  BY <1>3 DEF LoadCount, At
<1>4. ASSUME NEW l \in Lines, StoreCount(l) PROVE CountInv'
  BY <1>4 DEF StoreCount, At
<1>5. ASSUME NEW l \in Lines, count_write(l) PROVE CountInv'
  BY <1>5 DEF count_write
<1>6. ASSUME NEW l \in Inputs, SetOpen(l) PROVE CountInv'
  BY <1>1, <1>6 DEF SetOpen, Quiet, irqs
<1>7. CASE iomanager_probe \/ iomanager_remove
  BY <1>1, <1>7 DEF iomanager_probe, Probe, Acquire, PowerRamp, MaskNew, Fail, RegisterChrdev,
                    debugfs_init, iomanager_remove, Remove, RemoveMask, Unwind, irqs
<1>8. CASE iomanager_ioctl \/ iomanager_fasync \/ Deliver \/ UNCHANGED vars
  BY <1>1, <1>8 DEF iomanager_ioctl, iomanager_fasync, Deliver, IO_GET_TRIGGER_PIN, IO_SET_DLP_STATUS,
                    SetDlp, SetDlpLate, IO_SET_USB_ENABLE_DLP_STATUS, IO_SET_SINGLE_RGB_TRIG, TrigWakes,
                    Quiet, irqs, vars
<1> QED BY <1>2, <1>3, <1>4, <1>5, <1>6, <1>7, <1>8 DEF Next, gpio_irq_handler

(* No edge on a trigger input is lost to a reset that meets its handler, whatever both *)
(* interleave with: the count is never below the edges since the last reset.           *)
THEOREM EdgesCounted == Spec => []NoEdgeUncounted
<1>1. Init => CountInv
  BY DEF Init, CountInv, CountTypes, LoadedCount, NoEdgeUncounted, HandlerLabel
<1>2. CountInv => NoEdgeUncounted
  BY DEF CountInv
<1> QED BY <1>1, <1>2, CountStep, PTL DEF Spec
-----------------------------------------------------------------------------
\* Once the application listens, a stored line it has not read is on its way to it: in a
\* handler that will still send SIGIO, in a pending SIGIO, or in the call that reads it.
OnItsWay ==
    \/ read = triggerPin \/ sigio \/ app = "reading"
    \/ \E l \in Lines : handler[l] \in {"load", "count", "signal"}
ReportInv == handler \in [Inputs -> HandlerLabel] /\ (~missed => share_async /\ OnItsWay)

LEMMA ReportStep == ASSUME ReportInv, [Next]_vars PROVE ReportInv'
<1> USE DEF ReportInv, OnItsWay, HandlerLabel, Inputs
<1>1. CASE UNCHANGED <<handler, triggerPin, share_async, sigio, app, read, missed>>
  BY <1>1
<1>2. ASSUME NEW l \in Inputs, Edge(l) \/ (l = CAM_XTRIG_1 /\ (XtrigEdge \/ WakeLamps)) PROVE ReportInv'
  <2>1. /\ handler[l] \in {"idle", "wake"} /\ \E at \in {"store", "wake", "idle"} : handler' = [handler EXCEPT ![l] = at]
        /\ UNCHANGED <<triggerPin, share_async, sigio, app, read, missed>>
    BY <1>2 DEF Edge, XtrigEdge, WakeLamps, At, apps
  <2> QED BY <2>1
<1>3. ASSUME NEW l \in Lines, StorePin(l) PROVE ReportInv'
  BY <1>3 DEF StorePin, At
<1>4. ASSUME NEW l \in Lines, LoadCount(l) \/ StoreCount(l) PROVE ReportInv'
  <2>1. /\ \E at \in {"count", "signal"} : handler' = [handler EXCEPT ![l] = at]
        /\ handler[l] \in {"load", "count"}
        /\ UNCHANGED <<triggerPin, share_async, sigio, app, read, missed>>
    BY <1>4 DEF LoadCount, StoreCount, At, apps
  <2> QED BY <2>1
<1>5. ASSUME NEW l \in Lines, KillFasync(l) PROVE ReportInv'
  BY <1>5 DEF KillFasync, At
<1>6. CASE Deliver \/ IO_GET_TRIGGER_PIN \/ iomanager_fasync
  BY <1>6 DEF Deliver, IO_GET_TRIGGER_PIN, iomanager_fasync, irqs
<1>7. ASSUME NEW l \in Inputs, SetOpen(l) \/ count_write(l) PROVE ReportInv'
  BY <1>1, <1>7 DEF SetOpen, count_write, Quiet, irqs, apps
<1>8. CASE iomanager_probe \/ iomanager_remove
  BY <1>1, <1>8 DEF iomanager_probe, Probe, Acquire, PowerRamp, MaskNew, Fail, RegisterChrdev,
                    debugfs_init, iomanager_remove, Remove, RemoveMask, Unwind, irqs, apps
<1>9. CASE \/ IO_SET_DLP_STATUS \/ SetDlp \/ SetDlpLate \/ IO_SET_USB_ENABLE_DLP_STATUS
           \/ IO_SET_SINGLE_RGB_TRIG \/ TrigWakes \/ UNCHANGED vars
  BY <1>1, <1>9 DEF IO_SET_DLP_STATUS, SetDlp, SetDlpLate, IO_SET_USB_ENABLE_DLP_STATUS,
                    IO_SET_SINGLE_RGB_TRIG, TrigWakes, Quiet, irqs, apps, vars
<1> QED
  BY <1>2, <1>3, <1>4, <1>5, <1>6, <1>7, <1>8, <1>9 DEF Next, gpio_irq_handler, iomanager_ioctl

(* SIGIO does not queue and triggerPin is overwritten, yet once nothing is under way an *)
(* application that answers every SIGIO has read the line of the last edge.             *)
THEOREM LastEdgeRead == Spec => []LastEdgeReported
<1>1. Init => ReportInv
  BY DEF Init, ReportInv, HandlerLabel
<1>2. ReportInv => LastEdgeReported
  BY DEF ReportInv, OnItsWay, LastEdgeReported
<1> QED BY <1>1, <1>2, ReportStep, PTL DEF Spec
=============================================================================
