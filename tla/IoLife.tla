------------------------------- MODULE IoLife -------------------------------
(***************************************************************************)
(* The life of the iomanager driver: iomanager_probe takes its resources   *)
(* one after the other and any of them may fail, iomanager_remove and the  *)
(* device core give them back, interrupts arrive in between; and the way   *)
(* an edge on a trigger input takes to the application: the handler's      *)
(* shared variables, a SIGIO that does not queue, IO_GET_TRIGGER_PIN.      *)
(*                                                                         *)
(* The pwm and the lamps are optional: a probe that does not find them     *)
(* goes on without, and the queues that belong to the lamps are not made.  *)
(* iomanager_remove waits for no call, and a file that is still open       *)
(* reaches the driver when it is unbound and while it is probed again:     *)
(* such a call finds memory that was given back or is not there yet, and   *)
(* what it does to it is not followed.                                     *)
(*                                                                         *)
(* Of the cameras' own pins only xtrig is here, for the queue it wakes     *)
(* (DlpRgb has what it counts).  Nothing ever stops the threads: started   *)
(* is all they are here.                                                   *)
(***************************************************************************)
EXTENDS Integers, Sequences

CONSTANTS MaxProbes,   \* bound on the probes
          MaxEvents,   \* bound on the edges of both lines and the calls that set the power
                       \* of the DLPs and of usb, together
          Masks        \* what they ask: the DLPs that shall have power
ASSUME BoundsAssumption == {MaxProbes, MaxEvents} \subseteq Nat
ASSUME MasksAssumption  == Masks \subseteq SUBSET (0 .. 3)

Lines == {0, 1}                 \* the inputs for 2D and 3D triggers
CAM_XTRIG_1 == 2                \* the input of the camera's xtrig
Inputs == Lines \cup {CAM_XTRIG_1}
Dlps  == 0 .. 3
IO_INPUT(l) == l + 1

Managed  == <<"gdev", "pwm", "dlp", "input", "usb", "output", "flash", "rgb", "wq_2D",
              "wq_flash", "wq_outpin", "irqIo", "irq0", "irq1", "irq2">>
Optional == {"pwm", "rgb"}
Irq(l)   == CASE l = 0 -> "irq0" [] l = 1 -> "irq1" [] OTHER -> "irq2"
Irqs     == {"irq0", "irq1", "irq2"}
FirstIrq == 13

(* Mutant of Order: the interrupts are requested before the 2D thread exists. *)
OrderIrqFirst == <<"gdev", "pwm", "dlp", "input", "usb", "output", "flash", "rgb", "irqIo",
                   "irq0", "irq1", "irq2", "wq_2D", "wq_flash", "wq_outpin">>

Order == Managed

Parts == {Order[i] : i \in DOMAIN Order}

(* What gpio_irq_handler touches for an input; "rgb" stands for the lamps  *)
(* with the queue of irq_dlp_rgb_thread_fn.                                *)
HandlerUses(l) ==
    {"gdev", "irqIo", Irq(l)} \cup
    (CASE l = 0 -> {"wq_2D"} [] l = CAM_XTRIG_1 -> {"rgb"} [] OTHER -> {})

VARIABLES
    pc,        \* of probe and remove
    step,      \* next entry of Order, or the last that is still held
    held,      \* resources held
    absent,    \* optional resources the latest probe did not find
    threads,   \* threads that were started: queues they wait on
    open,      \* interrupts requested and not masked
    files,     \* entries user space can reach
    dlpOn,     \* DLPs that have power
    usbOn,     \* value of the first usb pin
    probes     \* probes so far, for the bound
life == <<pc, step, held, absent, threads, open, files, dlpOn, usbOn, probes>>

VARIABLES
    handler,   \* where the handler of each input is
    local,     \* the count each handler has read
    triggerPin, g_triggerPin_input_count,
    total,     \* history: edges counted on each line
    since,     \* history: of these, after the last reset
    edges      \* edges so far, for the bound
irqs == <<handler, local, triggerPin, g_triggerPin_input_count, total, since, edges>>

VARIABLES
    share_async, \* the application has the file open and asked for SIGIO
    sigio,       \* SIGIO is pending
    app,         \* the application's signal handler
    read,        \* what it read last
    missed,      \* history: the line was stored before the application listened
    call,        \* IO_SET_DLP_STATUS under way: the mask and the next pin; calls so far
    trig         \* IO_SET_SINGLE_RGB_TRIG under way, past its test
apps == <<share_async, sigio, app, read, missed, call, trig>>
vars == <<life, irqs, apps>>

NoCall == [mask |-> {}, next |-> 4]

Init ==
    /\ pc = "unbound" /\ step = 1 /\ held = {} /\ absent = {} /\ threads = {} /\ open = {} /\ files = {}
    /\ dlpOn = {} /\ usbOn = 0 /\ probes = 0
    /\ handler = [l \in Inputs |-> "idle"] /\ local = [l \in Lines |-> 0]
    /\ triggerPin = 0 /\ g_triggerPin_input_count = [l \in Lines |-> 0]
    /\ total = [l \in Lines |-> 0] /\ since = [l \in Lines |-> 0] /\ edges = 0
    /\ share_async = FALSE /\ sigio = FALSE /\ app = "idle" /\ read = 0 /\ missed = TRUE
    /\ call = [args |-> NoCall, count |-> 0] /\ trig = FALSE
-----------------------------------------------------------------------------
(* iomanager_probe.                                                        *)
Probe ==
    /\ pc = "unbound" /\ probes < MaxProbes
    /\ pc' = "probe" /\ step' = 1 /\ probes' = probes + 1 /\ absent' = {}
    /\ UNCHANGED <<held, threads, open, files, dlpOn, usbOn, irqs, apps>>

Last == step = Len(Order)
Queues == {"rgb", "wq_2D", "wq_flash", "wq_outpin"}

\* An interrupt that is requested is open until the next step masks it; the pins of the
\* DLPs are low when they are requested, and rise one by one.
Acquire ==
    LET r == Order[step] IN
    /\ pc = "probe" /\ held' = held \cup {r}
    /\ threads' = IF r \in Queues THEN threads \cup {r} ELSE threads
    /\ open'  = IF r \in Irqs THEN open \cup {r} ELSE open
    /\ dlpOn' = IF r = "dlp" THEN {} ELSE dlpOn
    /\ usbOn' = IF r = "usb" THEN 1 ELSE usbOn
    /\ pc' = CASE r = "dlp" -> "ramp" [] r \in Irqs -> "mask"
               [] OTHER -> IF Last THEN "chrdev" ELSE "probe"
    /\ step' = IF r \in {"dlp"} \cup Irqs \/ Last THEN step ELSE step + 1
    /\ UNCHANGED <<absent, files, probes, irqs, apps>>

Continue == pc' = (IF Last THEN "chrdev" ELSE "probe") /\ step' = IF Last THEN step ELSE step + 1

PowerRamp ==
    /\ pc = "ramp"
    /\ IF dlpOn = Dlps
       THEN Continue /\ UNCHANGED dlpOn
       ELSE /\ dlpOn' = dlpOn \cup {CHOOSE d \in Dlps \ dlpOn : \A o \in Dlps \ dlpOn : d <= o}
            /\ UNCHANGED <<pc, step>>
    /\ UNCHANGED <<held, absent, threads, open, files, usbOn, probes, irqs, apps>>

\* m_disable_irq: disable_irq waits for the handler.
Idle(r) == \A l \in Inputs : Irq(l) = r => handler[l] = "idle"

MaskNew ==
    LET r == Order[step] IN
    /\ pc = "mask" /\ Idle(r)
    /\ open' = open \ {r} /\ Continue
    /\ UNCHANGED <<held, absent, threads, files, dlpOn, usbOn, probes, irqs, apps>>

\* What is optional is passed over; anything else ends the probe, also what comes after
\* the pins of the lamps were found, and the device core takes back what it holds.
Fail ==
    LET r == Order[step] IN
    /\ pc = "probe"
    /\ \/ r \in Optional /\ pc' = pc /\ step' = step + 1 /\ absent' = absent \cup {r} /\ UNCHANGED threads
       \/ /\ r # "pwm" /\ pc' = "unwind" /\ step' = Len(Order) /\ UNCHANGED absent
          /\ threads' \in {threads} \cup {threads \cup {x} : x \in {r} \cap {"rgb"}}
    /\ UNCHANGED <<held, open, files, dlpOn, usbOn, probes, irqs, apps>>

RegisterChrdev ==
    /\ pc = "chrdev" /\ pc' = "debugfs" /\ files' = files \cup {"chrdev"}
    /\ UNCHANGED <<step, held, absent, threads, open, dlpOn, usbOn, probes, irqs, apps>>

debugfs_init ==
    /\ pc = "debugfs" /\ pc' = "bound" /\ files' = files \cup {"debugfs"}
    /\ UNCHANGED <<step, held, absent, threads, open, dlpOn, usbOn, probes, irqs, apps>>

(* iomanager_remove, and the device core after it.  Neither waits for the  *)
(* calls: debugfs goes first, then each interrupt is masked, then the file *)
(* of the driver goes.                                                     *)
Remove ==
    /\ pc = "bound"
    /\ pc' = "remove_mask" /\ files' = files \ {"debugfs"} /\ step' = FirstIrq
    /\ UNCHANGED <<held, absent, threads, open, dlpOn, usbOn, probes, irqs, apps>>

RemoveMask ==
    /\ pc = "remove_mask" /\ Idle(Order[step]) /\ open' = open \ {Order[step]}
    /\ IF Last THEN pc' = "unwind" /\ files' = {} /\ UNCHANGED step
               ELSE step' = step + 1 /\ UNCHANGED <<pc, files>>
    /\ UNCHANGED <<held, absent, threads, dlpOn, usbOn, probes, irqs, apps>>

\* The last resource goes first; free_irq waits for the handler.
Unwind ==
    /\ pc = "unwind"
    /\ Idle(Order[step])
    /\ held' = held \ {Order[step]} /\ open' = open \ {Order[step]}
    /\ IF step = 1 THEN pc' = "unbound" /\ UNCHANGED step ELSE step' = step - 1 /\ UNCHANGED pc
    /\ UNCHANGED <<absent, threads, files, dlpOn, usbOn, probes, irqs, apps>>
-----------------------------------------------------------------------------
(* gpio_irq_handler.  The handlers of two inputs may run side by side.     *)
Edge(l) ==
    /\ Irq(l) \in open /\ handler[l] = "idle" /\ edges + call.count < MaxEvents
    /\ edges' = edges + 1 /\ handler' = [handler EXCEPT ![l] = "store"]
    /\ UNCHANGED <<life, local, triggerPin, g_triggerPin_input_count, total, since, apps>>

XtrigEdge ==
    /\ Irq(CAM_XTRIG_1) \in open /\ handler[CAM_XTRIG_1] = "idle"
    /\ handler' = [handler EXCEPT ![CAM_XTRIG_1] = "wake"]
    /\ UNCHANGED <<life, local, triggerPin, g_triggerPin_input_count, total, since, edges, apps>>

At(l, from, to) == handler[l] = from /\ handler' = [handler EXCEPT ![l] = to]

StorePin(l) ==
    /\ At(l, "store", "load") /\ triggerPin' = IO_INPUT(l) /\ missed' = ~share_async
    /\ UNCHANGED <<life, local, g_triggerPin_input_count, total, since, edges,
                   share_async, sigio, app, read, call, trig>>

LoadCount(l) ==
    /\ At(l, "load", "count") /\ local' = [local EXCEPT ![l] = g_triggerPin_input_count[l]]
    /\ UNCHANGED <<life, triggerPin, g_triggerPin_input_count, total, since, edges, apps>>

(* Mutant of StoreCount: both lines count on the first. *)
StoreCountFirst(l) ==
    /\ At(l, "count", "signal")
    /\ g_triggerPin_input_count' = [g_triggerPin_input_count EXCEPT ![0] = local[l] + 1]
    /\ total' = [total EXCEPT ![l] = @ + 1] /\ since' = [since EXCEPT ![l] = @ + 1]
    /\ UNCHANGED <<life, local, triggerPin, edges, apps>>

\* For line 0 the thread of wq_2D is woken here (Expo2D).
StoreCount(l) ==
    /\ At(l, "count", "signal")
    /\ g_triggerPin_input_count' = [g_triggerPin_input_count EXCEPT ![l] = local[l] + 1]
    /\ total' = [total EXCEPT ![l] = @ + 1] /\ since' = [since EXCEPT ![l] = @ + 1]
    /\ UNCHANGED <<life, local, triggerPin, edges, apps>>

(* Mutant of KillFasync: line 1 sends none, as the lines of TOUT do not. *)
KillFasyncFirst(l) ==
    /\ At(l, "signal", "idle") /\ sigio' = (sigio \/ (share_async /\ l = 0))
    /\ UNCHANGED <<life, local, triggerPin, g_triggerPin_input_count, total, since, edges,
                   share_async, app, read, missed, call, trig>>

KillFasync(l) ==
    /\ At(l, "signal", "idle") /\ sigio' = (sigio \/ share_async)
    /\ UNCHANGED <<life, local, triggerPin, g_triggerPin_input_count, total, since, edges,
                   share_async, app, read, missed, call, trig>>

WakeLamps ==
    /\ At(CAM_XTRIG_1, "wake", "idle")
    /\ UNCHANGED <<life, local, triggerPin, g_triggerPin_input_count, total, since, edges, apps>>

gpio_irq_handler(l) == StorePin(l) \/ LoadCount(l) \/ StoreCount(l) \/ KillFasync(l)
-----------------------------------------------------------------------------
(* The application and whoever uses debugfs.                               *)
Quiet == <<pc, step, held, absent, threads, files, probes, irqs>>

iomanager_fasync ==
    /\ "chrdev" \in files /\ ~share_async /\ share_async' = TRUE
    /\ UNCHANGED <<life, irqs, sigio, app, read, missed, call, trig>>

\* IrqCtrl has the calls that mask and unmask.  The file may be an old one: the interrupt
\* may be one that is masked for the removal, or that was just requested again.
SetOpen(l) ==
    /\ share_async /\ Irq(l) \in held
    /\ \/ Irq(l) \notin open /\ open' = open \cup {Irq(l)}
       \/ Irq(l) \in open /\ Idle(Irq(l)) /\ open' = open \ {Irq(l)}
    /\ UNCHANGED <<Quiet, dlpOn, usbOn, apps>>

\* A second SIGIO waits while the handler runs, and does not queue.
Deliver ==
    /\ sigio /\ app = "idle"
    /\ sigio' = FALSE /\ app' = "reading"
    /\ UNCHANGED <<life, irqs, share_async, read, missed, call, trig>>

IO_GET_TRIGGER_PIN ==
    /\ app = "reading" /\ app' = "idle" /\ read' = triggerPin
    /\ UNCHANGED <<life, irqs, share_async, sigio, missed, call, trig>>

count_write(l) ==
    /\ "debugfs" \in files /\ g_triggerPin_input_count[l] > 0
    /\ g_triggerPin_input_count' = [g_triggerPin_input_count EXCEPT ![l] = 0]
    /\ since' = [since EXCEPT ![l] = 0]
    /\ UNCHANGED <<life, handler, local, triggerPin, total, edges, apps>>

IO_SET_DLP_STATUS ==
    /\ share_async /\ call.args = NoCall /\ edges + call.count < MaxEvents
    /\ \E mask \in Masks :
           call' = [args |-> [mask |-> mask, next |-> 0], count |-> call.count + 1]
    /\ UNCHANGED <<life, irqs, share_async, sigio, app, read, missed, trig>>

SetDlp ==
    LET d == call.args.next IN
    /\ d \in Dlps /\ "dlp" \in held
    /\ dlpOn' = IF d \in call.args.mask THEN dlpOn \cup {d} ELSE dlpOn \ {d}
    /\ call' = [call EXCEPT !.args = IF d = 3 THEN NoCall ELSE [@ EXCEPT !.next = d + 1]]
    /\ UNCHANGED <<Quiet, open, usbOn, share_async, sigio, app, read, missed, trig>>

\* The pins were given back under the call.
SetDlpLate ==
    /\ call.args # NoCall /\ "dlp" \notin held
    /\ call' = [call EXCEPT !.args = NoCall]
    /\ UNCHANGED <<life, irqs, share_async, sigio, app, read, missed, trig>>

IO_SET_USB_ENABLE_DLP_STATUS ==
    /\ share_async /\ "usb" \in held /\ edges + call.count < MaxEvents
    /\ usbOn' \in {0, 1} /\ call' = [call EXCEPT !.count = @ + 1]
    /\ UNCHANGED <<Quiet, open, dlpOn, share_async, sigio, app, read, missed, trig>>

\* The test is for the pwm; what follows writes wq_rgb and wakes its queue.
IO_SET_SINGLE_RGB_TRIG ==
    /\ share_async /\ "chrdev" \in files /\ ~trig /\ "pwm" \in held
    /\ trig' = TRUE
    /\ UNCHANGED <<life, irqs, share_async, sigio, app, read, missed, call>>

TrigWakes ==
    /\ trig /\ trig' = FALSE
    /\ UNCHANGED <<life, irqs, share_async, sigio, app, read, missed, call>>
-----------------------------------------------------------------------------
iomanager_probe  == Probe \/ Acquire \/ PowerRamp \/ MaskNew \/ Fail \/ RegisterChrdev \/ debugfs_init
iomanager_remove == Remove \/ RemoveMask \/ Unwind
iomanager_ioctl  ==
    \/ IO_GET_TRIGGER_PIN \/ IO_SET_DLP_STATUS \/ SetDlp \/ SetDlpLate
    \/ IO_SET_USB_ENABLE_DLP_STATUS \/ IO_SET_SINGLE_RGB_TRIG \/ TrigWakes

Next ==
    \/ iomanager_probe \/ iomanager_remove \/ iomanager_ioctl \/ iomanager_fasync \/ Deliver
    \/ \E l \in Lines : Edge(l) \/ gpio_irq_handler(l) \/ count_write(l)
    \/ \E l \in Inputs : SetOpen(l)
    \/ XtrigEdge \/ WakeLamps

Spec == Init /\ [][Next]_vars
-----------------------------------------------------------------------------
(* Properties.                                                             *)

TypeOK ==
    /\ pc \in {"unbound", "probe", "ramp", "mask", "chrdev", "debugfs", "bound", "remove_mask", "unwind"}
    /\ step \in 1 .. Len(Order) /\ held \subseteq Parts /\ absent \subseteq Optional /\ threads \subseteq Queues
    /\ open \subseteq Irqs /\ files \subseteq {"chrdev", "debugfs"}
    /\ dlpOn \subseteq Dlps /\ usbOn \in {0, 1} /\ probes \in Nat
    /\ handler \in [Inputs -> {"idle", "store", "load", "count", "signal", "wake"}]
    /\ local \in [Lines -> Nat] /\ g_triggerPin_input_count \in [Lines -> Nat]
    /\ triggerPin \in 0 .. 2 /\ read \in 0 .. 2 /\ trig \in BOOLEAN

\* Whatever step of the probe fails and however it is unbound, under calls that go on and
\* files that stay open: a handler never runs without what it touches, nor does an entry
\* exist that user space could open before or after all the driver is made of.  The one
\* thing either may lack is a part that this very probe did not find and passed over.
PartsBeforeUse ==
    /\ \A l \in Inputs : Irq(l) \in open \/ handler[l] # "idle" => HandlerUses(l) \subseteq held \cup absent
    /\ files # {} => Parts \subseteq held \cup absent

\* iomanager.c:745 answers "not support rgb set" where the driver has no lamps, as line 609
\* does for IO_SET_RGB_PARAM.  Fails: line 743 looks for the pwm, which is found by itself,
\* and the call goes on to wq_rgb, which was never made.
RgbSupported == trig /\ pc = "bound" => "rgb" \in held

\* SIGIO coalesces and the line of one edge overwrites that of another; but once nothing
\* is under way the application has read the line of the last edge it listened to.
LastEdgeReported ==
    pc = "bound" /\ (\A l \in Lines : handler[l] = "idle") /\ ~sigio /\ app = "idle" /\ ~missed
        => read = triggerPin

\* A reset that meets an increment may be lost, an edge may not: a count lies between the
\* edges counted since it was last reset and all that were.
NoEdgeUncounted ==
    \A l \in Lines : since[l] <= g_triggerPin_input_count[l] /\ g_triggerPin_input_count[l] <= total[l]
=============================================================================
