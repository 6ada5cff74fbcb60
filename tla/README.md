# TLA+ models of usr_drive

usr_drive is a set of Linux kernel drivers for a 3D camera on an NVIDIA Jetson:
`3-iomanager` drives the lamps, output pins, LEDs and trigger inputs of the
device from user ioctls, GPIO interrupts, kernel threads and hrtimers;
`7-new_sensor` drives image sensors behind a GMSL serialiser and deserialiser.
This directory holds TLA+ modules of the drivers, TLC configurations that check
them on small instances and TLAPS proofs of the main results.

A run is `tlc -config X.cfg M`, a proof check is `tlapm M.tla`.

## 1. The system

### Components of `3-iomanager/iomanager.c`

All services share one pattern. An ioctl copies its argument into a
`WORK_STRUCT` (or a plain global), raises a `thread_flag` and wakes a wait queue. A
kernel thread waits for the flag, reads the argument field by field, moves pins
and starts an hrtimer, and lowers the flag. The timer callback moves pins again
and may restart itself. No service takes a lock: what an ioctl, a handler, a
thread and a callback read may be rewritten by another of them at any point.
This is where the hard behaviour is.

| Component | State it keeps | Operations | Correct when |
|---|---|---|---|
| DLP + RGB linkage | edge counters `xtrig_num`, `tou_num`; session `rgbTrigIndex`, `totalTrigIndex`, `rgb_mode`, `rgb_enable`; `last_irq_rgb`, lamps, `rgbTimer` | xtrig and tout0 handlers; `irq_dlp_rgb_thread_fn`; `dlp_trig_rgb_func`; ioctls `IO_SET_GET_RGB_SYNC_SIGNAL`, `IO_SET_CLEAR_TRIG_COUNT`, `IO_SET_RGB_PARAM`, `IO_SET_IO_TRIGGER_PARAM` | one lamp at a time, each put out by its timer, none before a session, lines open while a session runs |
| Interrupt line control | `IRQ_CTRL.disabled`, the kernel's disable depth | `m_disable_irq`, `m_enable_irq`, reprogramming of an edge | the flag tells whether the line is masked |
| 2D exposure | `light_param`, `countNum`, wave counters and the static phase, two pins, three timers | `IO_2D_SET_MODE_PARAM`, edge of input 0, `ext_2d_exposure_fn`, timers | `camNum` pictures and no more, pins go low again, waves start in phase |
| Output pins | `IO_PLUSE_SET` command, pin, timer, one each per pin | `IO_SET_OUT`, `out_pulse_thread_fn`, `my_thread_hrtTimer_func` | level, width and resting level are those of the latest command |
| Status LEDs | `IO_FLASH_SET` command, half-period count, LED, timer | `IO_SET_FLASH_LED`, `my_led_flash_fn`, `thread_flash_led_func` | a flash ends dark after its blinks, a hold stays |
| RGBW burst | stage table, stage counters, lamps, TRIG, timer | `IO_SET_RGB_PARAM`, `IO_SET_SINGLE_RGB_TRIG`, `rgb_flash_fn`, `rgb_single_set_callback` | every selected lamp once, inside the exposure, dark at the end |
| Trigger notification | `triggerPin`, `g_triggerPin_input_count`, a pending SIGIO | the two handlers, `IO_GET_TRIGGER_PIN`, the debugfs file that resets a count | once all is quiet the application has read the line of the last edge; no edge goes uncounted |
| Power switches, version | pins of the DLPs and of usb | the ramp at probe, `IO_SET_DLP_STATUS`, `IO_SET_USB_ENABLE_DLP_STATUS`; single reads | - |
| debugfs | its entries | made last in probe, removed first in remove | no entry without the data it shows |
| Life cycle | resources held, threads started, interrupts open, entries user space sees | `iomanager_probe` with every failure, `iomanager_remove`, the device core's unwinding | nothing that can be entered lacks the memory it uses |
| Time arithmetic | `GPIO_EX_MRGBW` tables | conversions of microseconds in `rgb_param_legal_check` and the threads | no wrap, stage lengths not negative |

### Components of `7-new_sensor`

Here one function runs at a time for a caller, but several callers and several
cameras run side by side, most of them without a lock, and any transfer on the
bus may be lost.

| Component | State | Operations | Correct when |
|---|---|---|---|
| GMSL deserialiser (`max96724_drv.c`) | mutex, `link_lock_status`, registers 0x0006 (open links) and 0x00f4 (pipes), the pipe's map | lock, unlock, monopolize, enable, restore, start and stop streaming | the mutex is released on every path, links reopen, a pipe is on only when asked |
| GMSL link status (`gmsl_status.c`) | link number and addresses of a camera, its streams | device tree reading, transfers to a serialiser | one camera at a time answers at its default address |
| Framework glue (`nv_sensor.c`, `imx_sensor_common.c`) | `camera_common` power state, the parameter `modeType`, the shared directory `nv_imx` | probe, remove, set_stream, ioctl entry, table writer | power follows what the sensor answered; no freed dentry is used |
| IMX565 and IMX566 | `priv` (bit, binning, sizes), static register tables, sensor registers, the XHS pwm | board power, init_param, ROI, flips, gain, black level, test picture | the sensor holds one mode and the settings it was told |
| GMAX3405 and SC535 | sensor registers, the group hold, `priv` | the same, with a window under the hold | as above; a window is used whole |
| GMSL sensors (`gmax3412`, `og02c1b`, `og05b2b`, `ov5640`) | sensor, serialiser and pipe | board_setup, init_param, stream_set | pixels are sent into an open path |

### How they interact

The services of iomanager meet in three places. The interrupt lines: the
linkage, the 2D service and `IO_SET_IO_TRIGGER_PARAM` all mask and unmask
them through `m_disable_irq` and `m_enable_irq`. The lamps: linkage and burst
drive the same GPIOs. `rgb_mode`, which `IO_SET_SINGLE_RGB_TRIG` tests and
`IO_SET_RGB_PARAM` resets, is meant to keep them apart, but a lamp of the linkage may
still light after the reset (section 6), and nobody ends a burst that plays when the linkage is
switched on. The RGB parameters: `IO_SET_RGB_PARAM` writes the table the burst plays. A fourth
place is the output pins 0 and 3: the 2D service raises and lowers both, the burst uses pin 3
as TRIG, and `IO_SET_OUT` drives them like the others. All services
live from probe to remove, and nothing stops their threads.

On the sensor side cameras meet at the deserialiser's mutex and registers, at
the address their serialisers boot with, in the debugfs directory `nv_imx`, in
the static tables of a driver file, and in `modeType`. Callers of one camera
meet in its registers. The sensor drivers share nothing with iomanager but the
wires.

## 2. Modules

| Module | What it is | Proofs |
|---|---|---|
| `DlpRgb` | the linkage, with the probe window; `MCDlpRgb` gives it values | `DlpRgbProofs`, refinement included |
| `LampSequence` | abstract: what the lamps promise | |
| `IrqCtrl` | the mask helpers and the kernel's depth | in `Expo2DProofs` |
| `Expo2D` | the 2D service | `Expo2DProofs` |
| `OutPulse` | an output pin | `OutPulseProofs`, refinement included |
| `PulseOutput` | abstract: what an output pin promises | |
| `LedFlash` | a status LED | `LedFlashProofs` |
| `RgbBurst` | the burst | `RgbBurstProofs` |
| `IoLife` | probe and remove of iomanager, its two trigger inputs and what they tell an application | `IoLifeProofs` |
| `GmslLink` | cameras behind one deserialiser: setup, streaming, removal; `MCGmslLink` gives boards | `GmslLinkProofs` |
| `SensorProbe` | probe, power and removal of the four parallel sensors; `MCSensorProbe` | `SensorProofs` |
| `Imx56x` | the two Sony drivers in use; `MCImx56x` | in `SensorProofs` |
| `SensorRegs` | the register programs of the other six drivers; `MCSensorRegs` | in `GmslLinkProofs` |

The modules are cut where the code shares little. Where services meet, the other side appears
as an action: masks and reopened lines in `DlpRgb` and `Expo2D`, the other writers of an output
pin in `OutPulse` (`Others`), the deserialiser's pipe in `SensorRegs`, resets from debugfs in
`IoLife`. Three meetings are left out: the lamps of the linkage while a burst still plays (`DlpRgb`,
`RgbBurst`), the 2D service's use of the burst's TRIG pin (`RgbBurst`), and `IO_SET_OUT` on the
two pins of the 2D service (`Expo2D`). Those modules say what a service does to its outputs when
no other service is told to use them.

What would come next: the conversions of microseconds, once it is decided what a time
that does not fit should do.

Three modules share a proof module with another one: `Expo2DProofs` also holds the proofs
about `IrqCtrl`, `SensorProofs` those about `SensorProbe` and `Imx56x`, `GmslLinkProofs`
those about `GmslLink` and `SensorRegs`, so the definitions of `IrqCtrl`, `Imx56x` and
`SensorRegs` that would clash carry a prefix (`IrqSpec`, `ImxSpec`, `RegsSpec`, `irqVars`,
`imxVars`, `regsVars`).

## 3. Modules and code

A label of a program counter (`ipc` for the ioctl, `hpc` for the handler, `tpc`
for the thread) stands between two accesses to state that another party also
uses. Straight-line code that touches only local state is one action with the
access next to it. hrtimers are a Boolean "queued"; their lengths are
abstracted, so any order of expiry and edges is explored. Waking, logging and
duty cycles are left out.

**DlpRgb.** `XtrigIrq` counts the edge and, unless the count has left a u8,
goes on to `XtrigIrqCompare`, because `rgbTrigIndex` may change between the two.
`ThreadWake` lowers the flag, `ThreadReadBound` and `ThreadReadCount` read
boundary and counter and choose the lamp modulo u8, then `ThreadLight` and
`ThreadArm`; a timer still queued leads to `ThreadCancelAndReturn`, the
`return 0` of the code, and the label `"dead"`. `TimerFire` puts out the lamp
`last_irq_rgb` names at that moment. `Sync`, `Clear`, `RgbParam` and
`IoTrigger` are the ioctls, a step per shared access; `Probe` requests and
masks the two lines one after the other while edges may come. Atomic counters
are unbounded in the model up to `MaxXtrig`, `MaxTout`; where the code stores
them in a u8, `ToU8` wraps them.

**LampSequence.** The lamps as the user sees them. `Abstract` maps the lit
lamps, the queued timer and the thread's end to its three variables.

**IrqCtrl.** The helpers taken apart: test, kernel call, store. `depth` is the
kernel's counter, taken from how disable_irq and enable_irq behave. Callers overlap in any way,
on one line or on several. `raced` is a history variable: the lines on which two calls have been
between test and store at once.

**Expo2D.** `SetMode` writes `light_param` in place; the four following steps
are the rest of the ioctl. Edges come whenever the line is open, inside the ioctl too. The thread lowers its flag last (`ThreadClear`).
`user` is fixed at the start: `"strict"` sets a mode only at rest and a mode 1 only when the input
is closed (one begun in an open input may get a picture more than it asked for), `"reopens"`
also calls `IO_SET_IO_TRIGGER_PARAM` on input 0, and `"hasty"` does what the ioctls
let him do.

**OutPulse, LedFlash, RgbBurst.** One pin, one LED, one burst. Every pin and every LED has its own
command, thread and timer, so one stands for all; but pins 0 and 3 have other writers, for which
`shared` lets `Others` set the level at any time. `pacing` and `waits` are the same
device as `user`: the application sends when everything is over (`"settled"`),
when the thread is done (`"handled"`) or whenever it likes (`"free"`). Nothing in
the ioctl interface tells an application which of these it is, so each
invariant says which it needs. A byte handed to `gpiod_set_value` goes through
`Logic`. `num` in `RgbBurst` is any byte of `Params`; with more than `Lamps` the check's loops run behind
the stage tables, and a callback that is past `g_stage_index` may read any lamp (`IsMIndex`). `overlong` is
history: the thread itself set more stages than the tables hold for the burst at hand. A set bit of `g_stage_2` means "the lamp is off before TRIG
is"; the check that writes it makes one of the exposures the longest, so at
least one lamp has an empty second stage.

**GmslLink.** A camera is its link number. `SetupStep` is `board_setup` of the
four GMSL sensors, an action per access to the deserialiser's mutex, its
registers or the link; the drivers differ in the error path (`ErrExit`), in
having a power-on and in what they look at. A serialiser is an address (`ser`)
and a translation (`xlat`); `Reach` says who hears a transfer, given the links
that are open. Any transfer over a link may be lost (`Hits`), and most drivers do not
notice. `LockLink` gives the mutex back and goes on when the link is marked,
as the code does: nothing clears the mark when a camera is removed, so every camera that is bound
anew works without the mutex. `LoadMarks` and `EnableLink` are the two halves of a `|=`.
`StreamStep` is `stream_set` with the deserialiser's
read-modify-write of 0x00f4. `told`, `bare` and `crossed` are history: who is told to stream, who is in
a setup repeated on a marked link, and whether anybody began a setup or a stream call while one was.

**IoLife.** `Managed` is the list of what `iomanager_probe` takes, in its
order; `step` walks up it in probe (`Acquire`, `PowerRamp`, `MaskNew`, `Fail`) and down
in `Unwind`, which is the device core releasing what devm registered. An
interrupt is open from its request to the `m_disable_irq` after it, so edges come
in between. `Fail` ends the probe, or passes over the pwm or the lamps, which are optional, and notes them in
`absent`; queue and thread of the lamps are then not made. `Remove` waits for no call: the calls of
`iomanager_ioctl` go on through `Unwind` and, on a file that was left open, into the next probe (`SetDlpLate`
is one whose pins were given back). The handler of an input is four
steps (`StorePin`, `LoadCount`, `StoreCount`, `KillFasync`), the count being read,
incremented and stored without atomicity while `count_write` may zero it; that of xtrig wakes the queue of the
lamps (`WakeLamps`), what it counts is in `DlpRgb`. `IO_SET_SINGLE_RGB_TRIG` is the test, `TrigWakes` the use. `sigio`
is one bit: signals do not queue. `missed` says that the last line was stored
before anybody listened.

**SensorProbe.** One program counter per camera through `nv_sensor_probe` and
`nv_sensor_remove`. The power sequences of the drivers are tuples of pin moves that
`PowerOnStep` and `PowerOffStep` play one at a time; any step may fail, the identification
may be right, wrong or lost (`ReadId`), and `AfterOff` says what each driver returns for it.
`modeType` is written at any time: the probe reads a sanitised copy, `InitParam` the
parameter itself, and a null table leads to the label `"oops"`. debugfs is a name
(`linked`), directories with reference counts (`refs`) and their maker (`owner`);
lookup takes a reference nobody gives back.

**Imx56x.** Cameras that are powered, and callers inside an ioctl. `RegNames` are
the groups the properties tell apart. `set_roi_format` is the code's loop: the caller
computes `priv`, fills the cells of the static table of its model (`column`, shared by
cameras), and then writes row after row, choosing the column by `priv` as it
is at that row; with binning 3 a row indexed by it yields the byte behind its three (`AtBinning`). The XHS pulses get
twice the period of a line. Flips are read, changed and written back; gain and black level are two
writes; the test picture of the IMX566 ends in two writes of 0 to the black level (`PicBlack`). An
application mixes all these calls. A transfer may be lost and nobody notices. `asked` and `hurt` are history:
what a call told a register nobody else wrote meanwhile, and whose image was set by calls that met.

**SensorRegs.** Every function that writes registers is the sequence of its
accesses (`W`, `ReadReg`, `Modify`, `Des`). A call is such a sequence (`code`) with the fields it is to
set (`sets`) and those of the registers it touches (`writes`); a caller is at one access (`at`) and takes
one per step. A lost access skips what the code's early return skips (`skip`). `live` is what the sensor works with:
it follows `reg` unless the group hold is set. `stream_set` of the GMSL sensors
includes the serialiser's port and transmitter and the deserialiser's map and pipe, with
the streams a device tree may list. `doubtful` and `spoilt` mark the fields of calls
that overlapped or lost an access.

## 4. What the runs show

| Run | Instance | Result |
|---|---|---|
| `dlp_rgb` | bytes of 5 values, 2 lamps, counters to 6 and 1 | a lit lamp is timed, none before a session, lines open while the linkage is on, the refinement of `LampSequence`, and both liveness properties |
| `irq_ctrl` | 3 lines, 2 callers that overlap | flag and depth agree where no two calls raced, a reprogrammed line ends open |
| `expo2d` | 1 to 3 pictures or waves, 4 edges, all three users | count, phase and liveness hold for the users named in each property |
| `out_pulse` | bytes 0, 1, 2; all three pacings; a pin of its own and a shared one | on its own pin the promise is kept for `"settled"`, the rest level and the pulse itself for `"handled"`; what was begun falls back for all |
| `led_flash` | times 0, 1, 2, 5; all three pacings | dark end, hold, exactly `times` + 1 blinks, an end to every flash |
| `rgb_burst` | 2 lamps, num 1, 3 and 86, waiting and not | completeness, order and dark end when waiting; counters in step always, tables left only by a target the thread set too large |
| `io_life` | 2 probes, 2 edges or calls for two DLPs | nothing runs or exists without what it touches, but for parts that were passed over; the last edge's line is read, no edge goes uncounted |
| `gmsl_link` | 2 links; an ov5640 with another, an og02c1b or an og05b2b; bound anew at will | one setup at a time, pipes as asked and addresses apart until a repeated setup is crossed; marked links open after every setup; every setup ends |
| `sensor_probe` | 2 cameras of any kinds, 3 dentries, 2 probes each, one write of `modeType` | no freed dentry, no file of an unbound camera, pins in order, power as the answer was |
| `imx56x` | 2 cameras, 2 callers, 4 ROIs, levels 0, 48, 60; 2 calls of any sort, one loss | the image of a call alone, one mode, and settings that stay |
| `sensor_regs` | each of 6 sensors, 2 callers, 3 calls, one loss, 2 probes | fields as asked, whole windows, a path before pixels |
| `dlp_rgb_stuck` | as `dlp_rgb` | **violated** `ExposureIsBounded` |

The last checks a sentence of the repository against the code; PROJECT.json quotes it and says what the
counterexample shows. The other statements that the code breaks are listed in section 6. Each property of
the other runs has a mutant: a definition of the model changed the way a bug would
change it, under which TLC finds the property violated.

### Bounds

`U8 = 5` keeps the wrap of u8 and the guard `> 255` (here `> 4`) within reach of
a counter that goes to 6: 5 is the boot value just outside a byte, so the counter is both
above and, after a session starts, below the guard. Two lamps give an index
inside and three outside the range the thread accepts. `syncRgbNum` 0 and 4 put
the boundary at both ends of the byte. One tout0 edge is enough to make the two
counts differ or agree. In `Expo2D` four edges exceed the largest quota by
one, so an extra picture would be seen. In `LedFlash` the values 1, 2 and 5
let a rewrite shorten a flash to below and above the current count. In `RgbBurst`
two lamps make a burst that can shrink, grow and reorder under the callback; a num of 3 is one beyond
the tables, and 86 is the least for which the stages wrap in a byte (to 2).
`MaxDepth` 2 lets two calls mask a line twice: nobody begins to mask a line that has this depth, and those
inside may raise it further. In `GmslLink` two
cameras of one kind share the boot address, the sensor address and
`serdes_lock__`; the mixed boards have the setups without and with a power-off on error, and the one without a
power-on. gmax3412 takes the path of og05b2b, step by step. The boards all have an ov5640, whose setup is the
shortest, to keep the liveness check within minutes; the four invariants are proved for every board (section 5).

In `io_life` two probes are a failure or a removal and all that comes after it, with two edges, two calls or one of
each to be under way meanwhile. Two edges on different lines let one overwrite the other's pin while its signal is pending, two on one
line let an increment meet a reset. In
`sensor_probe` the two cameras may be of one kind or of two; three dentries are one
more than can be referenced while a third is made. In `imx56x` the ROIs differ in bit,
binning and height, so any two of them mixed are seen, and one has binning 3; 48 fits a 9-bit gain, 60
does not. Two calls are a setting and what undoes it, or two that overlap. In `sensor_regs` three calls are two that overlap and one that repairs,
and the second probe finds the registers of the first. Callers, cameras and dentries are
symmetric: no definition names one or chooses among them. The run checks invariants
only, for which symmetry is sound.

Deadlock is not checked where the system may really stop: in the runs of `GmslLink` and
in `sensor_probe` all cameras may wait at `"oops"`, in `sensor_probe` the last probe may be over, and in the runs of `Imx56x`,
`SensorRegs` and `IoLife` the bounds on calls, probes and edges are used up.

### Fairness

Weak fairness, of three kinds. A thread whose condition is true is woken by
the ioctl's or handler's `wake_up` and the scheduler runs it. A queued hrtimer
expires. A handler or ioctl that has begun reaches its end (`SetOutWake`,
`SetFlashWake`, `XtrigIrqCompare`; the helpers of `IrqCtrl`). Neither the
application nor the camera is ever assumed to act. In `GmslLink` a call that has
begun runs on, and a setup that waits for the deserialiser's mutex gets it if it is free again
and again (strong fairness of `LockLink`: a kernel mutex hands over to its queue). In `Expo2D` and
`RgbBurst` the ioctl needs no fairness, for no liveness property there waits
for it. `IoLife`, `SensorProbe`, `Imx56x` and `SensorRegs` state safety
only and assume none.

## 5. What is proved

`DlpRgbProofs`, for every byte width, number of lamps, set of session values,
boot values and bound allowed by the assumptions of `DlpRgb` (`Lamps` is between 1 and
`U8`; boot value of the xtrig counter at least `U8`; parameters are bytes):

- `TypeCorrect`: the type invariant. The interesting conjuncts are the u8
  values (lemma `ByteResult`) and `last_irq_rgb`, which needs the range test of
  the thread.
- `LitLampTimed`, `OneLamp`, `TimerOwnsLamp`: by the inductive invariant
  `LampInv`. None of the three is inductive alone: that two lamps are never lit
  needs to know that at the label `"light"` none is, which needs that a lit lamp
  is the timed one, which needs that a timer is queued only for the lamp of
  `last_irq_rgb`, and what remains true after the thread is gone.
  The lemmas for thread, timer and everything else are separate; the ioctls and handlers
  do not touch the lamps.
- `DarkBeforeEnable`: with `LampInv`, since the thread enters `"light"` only
  after having seen `rgb_enable`.
- `Listening`: mode on and lines open, between ioctls.
- `LampsRefine`: `Spec => Abstract!Spec`, one step lemma per kind of step; every
  handler and ioctl is a stutter of `LampSequence`.

`Expo2DProofs`, second part, about `IrqCtrl`, for any set of lines and of callers, overlapping in any way:
`IrqTypeCorrect`, and `RacesAloneLie`: a line on which no two calls were past their tests at once
has a flag that agrees with the depth whenever nobody is past his test on it. The inductive invariant `RaceInv` says
that on such a line one caller at most is past his test, and how far flag and depth are apart at each of his labels.

`GmslLinkProofs`, for any set of links, any boards and any loss of transfers, with cameras bound anew at any
time: `TypeCorrect`, `SetupAlone`, `LinksComeBack`, `PipesFollow` and
`SerializersApart`. The inductive invariant `LinkInv` says that, until somebody crosses a repeated setup,
whoever is at a label between lock and unlock holds the mutex or is the one repeated setup at work, and that
the copy of 0x00f4 is fresh until it is written; and that, crossed or not, the marked links are open when no setup
is between closing and reopening them. `AddressInv` adds how far a setup has moved
addresses; it needs `LinkInv` because a transfer reaches only the camera's own
serialiser when its link alone is open.

`Expo2DProofs`, for any quotas but 0 (the code takes a picture for a quota of 0):
`TypeCorrect`, `PhaseComesBack`, `HighPinTimed` and `QuotaHolds`. For the first two `BurstInv`:
a mode is set only at rest, so a pass of the thread belongs to the mode it was woken
for, a burst lives in mode 0 and has half waves left; parity does the rest. A raised
pin then has a timer, since the last half wave is a low one. `QuotaInv` adds for the
strict user that a picture on its way is within the quota and that the input
is open only below it or until the thread has masked it.

`OutPulseProofs`, for any bytes and pacings: `TypeCorrect`, `PinRests`, and
`PulsesRefine`: the steps a patient application sees are steps of `PulseOutput`.
`HandledInv` says that ioctl and thread take turns, so that a branch of the thread fits its command and
a pin with no timer is where the command left it; `SettledInv` adds that no old timer is
queued while a command waits. `PinRests` and `PulsesRefine` speak of pins nobody else drives.

`LedFlashProofs`, for any times: `TypeCorrect`, `BlinksRight` and `EndsDark`
when commands are handled one by one, `HoldLasts` when flashes are. The key is that a
flash stops one past twice its times, an odd count, which is true only while the times
are those it was started with; `HalvesAgree` ties the blinks to the count of half periods for
every application.

`IoLifeProofs`, for any number of probes, edges and calls: `PartsOutliveUse` from
`LifeInv`: what is held is closed downwards in the list, but for what this probe passed over, since probe goes up and the
device core goes down; `EdgesCounted` from the count a handler has loaded; `LastEdgeRead` from
`ReportInv`: a line not yet read is in a handler, in a pending SIGIO or in a call.

`RgbBurstProofs`, for any number of lamps and any num: `TypeCorrect`; `TablesHold` from `CountInRange`,
which is about the callback's own counters only: whatever target the thread writes
under it is at most three stages per lamp, or is noted in `overlong`. `LitInExposure`, `AllLampsLit` and `DarkAtRest`
are for an application that waits, and follow from `BurstInv`: ioctl, thread and
timer take turns, the selection reaches tables and target unchanged, the outputs are what
the stage to play next says, and the lamps lit so far are a prefix of the selection.

`SensorProofs`, first part, about `SensorProbe`, for any cameras, dentries, probes and writes:
`TypeCorrect`; `DentriesAlive` and `FilesBound` from `DirInv`, which says that a directory's
maker holds one reference and every other camera that knows it another, which is the
one lookup leaked; `RampKeepsOrder` and `PowerTells` from `PowerInv`, which says for each step of
each driver's sequence which pins are high (`PinsAtStep`) and how far a camera comes with each
answer (`AnswerAtStep`). `modeType` may change under the sequences: the copy in `cam` decides them.

`SensorProofs`, second part, about `Imx56x`, for any sensors, callers, calls and losses, any ROIs
with a documented bit and binning, and any levels, all mixed freely:

- `ImxTypeCorrect`.
- `SettingsStay` from `SetInv`. Four parts: a call that may count on its register is the only one that
  tells it (`AloneTells`); between its read and its write the other flip is what it read, and between
  its two writes the low byte of a level is in (`GoodIsRight`); everything told before is held
  (`Held`); a sensor that is off was told nothing (`OffIdle`). ROI calls and test pictures step over it: what they
  write is another register, or is noted.
- `OwnImageStays` and `OneModeStays` from `ImgInv`. A camera's private data were computed from
  the tables, once it had a ROI call (`PrivOk`). A sensor that is settled, and was not hurt,
  holds the six rows of its last ROI or the mode of its first table (`ReadyOk`). A caller on an
  unhurt sensor has done what its label says: pulses set from `"fill"` on, cells filled from
  `"standby"` on, rows written one by one (`Staged`). And two callers that
  could spoil this, on one sensor or at the cells of one model and bit, have hurt
  their cameras (`Apart`). `OneMode` also needs that `orin_calculate_pwm_period`
  rounds in the right direction, a lemma about `\div` at every HMAX.

`GmslLinkProofs`, second part, about `SensorRegs`, for any callers, calls, losses and probes,
whatever the bounds: `RegsTypeCorrect`,
`FieldsComeOut`, `WindowStaysWhole` and `PathOpensFirst`. The proof has two halves.

- `CallsAreSound`: what the invariants need of a register program (`Sound`) is proved of each,
  from the tables up. Every field it claims to set is written, last with that
  value (`Leaves`), and no other field that is compared is written (`Faithful`); the hold
  is released after it was taken and the window changes only in between (`Windowed`); the path is
  made and opened before the stream bit, and nothing of it is written after (`Piped`); a
  write-back follows its read (`Shaped`). Lemmas say what becomes of these facts when a
  table is run (`TableWrites`) or one sequence follows another (`JoinedWrites`).
- The inductive invariant `RegsInv` speaks only of `Sound` and of the access a caller is at.
  `MeetInv`: probes and stream calls are alone, and two callers at one field have spoilt
  it. `GotInv`: what a call read and will write back is still there, unless spoilt.
  `ZeroInv`: fields a driver never sets are 0. `FieldInv`: a field an unspoilt call sets still
  has its last write before it, or has its value (`Coming`); without it "as asked at rest" is not inductive.
  `HoldInv`: whoever raised the hold is before a release, or the release was lost.
  `WindowInv`: until its release a ROI call leaves the old window in use, then its own. `PathInv`:
  without losses a driver goes from made to open to sending.

The types, `OneLamp`, `TimerOwnsLamp`, `HighPinTimed` and `DarkAtRest` are proved and checked by no
run. Each proof was preceded by a TLC run of the property, and where the inductive
invariant has many parts, as in `Imx56x`, of the invariant.

Model-checked only: the promise that a pulse is given (`PulseGivenAndOver`), and all liveness (fairness is outside what the prover does),
`ReprogramOpens` of `IrqCtrl` among it.

## 6. Where code and documentation differ

`dlp_rgb_stuck` shows a lamp that stays lit after the thread's early return.

Other statements of the modules fail as well, each stated next to the property that says what is left of it. No run
checks them; TLC finds the counterexample within half a minute when the name is put into the `INVARIANTS` of the
module's cfg (`NoLampInModeZero`, which speaks of steps, into its `PROPERTIES`). The first six are sentences of the repository.

- `IsEnableShown` (`IrqCtrl`; `readme.md` on the file `irq_set`): two calls of `m_disable_irq` both pass the test, the
  line is masked twice, one unmask no longer opens it, and `irq_set` shows it as enabled (`iomanager.c:163`).
  `FlagTellsTruth` leaves such a line aside. The properties of the other modules
  assume one such call at a time.
- `BlinksAsTold` (`LedFlash`; `usr_io.h:51`, the number of flashes): a flash of `times` n lights the LED n + 1 times,
  for the callback plays the half periods 0 to 2n + 1. `BlinksCounted` states the n + 1.
- `BurstInTable` (`RgbBurst`; `usr_io.h:57`, at most four): `rgb_param_legal_check` does not look at `num`. A larger one
  that is stored between a selection and the thread's read makes the callback go on behind `g_stage_index`.
  `StageInRange` says that nothing else does.
- `RgbSupported` (`IoLife`; `iomanager.c:745`, "not support rgb set"): `IO_SET_SINGLE_RGB_TRIG` tests the pwm and uses
  the lamps' queue, which is not made when the lamps are missing. The handler of xtrig wakes the queue of
  a linkage that was not initialised either (line 191): what `PartsBeforeUse` calls absent.
- `MonopolyAlways` (`GmslLink`; the name and message of `z_max96724_monopolize_link`): a camera that is bound again finds
  its link marked, gives the mutex back and goes on as if it held
  it. A second camera may cross it: then none of `Monopoly`, `OwnSerializer` and `PipesAsAsked`
  holds without its `crossed`; the marked links come back all the same (`LinksRestored`).
- `BinsAsAsked` (`Imx56x`; `nv_sensor_common.h:178`, binning 3): `set_roi_format` reads the byte behind the three of
  `val_1` for it. The IMX565 reads out all pixels under the gate timing of a binned mode; the IMX566 gets the same
  0, which no row of its table holds.
- `NoLampInModeZero` (`DlpRgb`): a lamp is lit after mode 0 was chosen, because the
  thread was woken in the session before.
- `LevelStays` (`OutPulse`): a level set to stay is overwritten by the timer of an
  earlier pulse.
- `RestIsDark` (`RgbBurst`): a burst rewritten while it plays ends with a lamp or TRIG on.

Met while modelling, in `3-iomanager`:

- In `Expo2D` the timer of the previous picture may lower the pin between the
  thread raising it and restarting the timer, so that a picture is counted that
  has no pulse (`usr_io.h:100` promises an exposure time). A `camNum` of 0 takes one
  picture, a `sync_num` of 0 plays one half wave and leaves the outputs high.
- `IO_SET_CLEAR_TRIG_COUNT` also returns 2, which the comment at
  `usr_io.h:152` does not list (`Verdict` in `DlpRgb`).
- `IO_FLASH_SET.period` 0 is documented to hold the LED (`usr_io.h:52`); the
  thread tests `times`, so only `times = 0` does.
- In `Expo2D` the `"hasty"` user loses: a wake-up of mode 0 may be run as the first
  picture of mode 1, the mask at the end of a session may close the next one,
  and a burst restarted in its high phase begins with a low one because the
  static phase is not reset.
- In all services with the flag lowered last, a command stored while the
  thread works on the previous one is never applied. Nothing tells an application
  when its command is handled.
- Nothing stops the kernel threads: after a failed probe and after `iomanager_remove`
  they run on memory devm has freed. A probe that fails leaves DLPs powered. `iomanager_remove`
  waits for no call: one that is under way, or comes through a file kept open, goes on after it.
- A 2D session that is begun while the input is still open, from the session before or from `IO_SET_IO_TRIGGER_PARAM`,
  may get a picture more than it asked for: an edge that meets the call wakes the thread before the counter starts anew.
- `triggerPin` and the counts are written by two handlers at once: a reset may be
  undone, and a second edge hides the first (`NoEdgeUncounted` and
  `LastEdgeReported` say what is left).
- Index checks: `index > gdev->num_flash` (line 561) and `index <= num_usb`
  (line 537) are off by one; `IO_SET_DLP_STATUS` loops to 4 whatever the
  number of DLPs. Times
  are multiplied by 1000 in 32 bits, and a later lamp with the longest exposure makes the last stage
  of an earlier one negative.

In `7-new_sensor`:

- A sensor whose id is wrong ends `board_setup` with result 0 in all drivers but
  gmax3405 and ov5640: the probe succeeds with the sensor off or its link closed. A lost read of
  the id of an SC535 is an error that leaves the power on. gmax3405
  never disables mclk and never sets `power->state`; remove leaves power and clock of the
  other drivers on, and a failed v4l2 registration those of all.
- `modeType` 1 is documented (`nv_sensor.c:31`), but `mode_table[1]` is null in
  imx565, gmax3405 and sc535, as is entry 2 of imx566. `init_param` is given the parameter as it is
  then, not the copy the probe checked, so an IMX566 may be slave by pin and master by
  register.
- What keeps the debugfs directory of another camera from being freed is the reference
  that `debugfs_lookup` leaks. A removal by any camera takes the files of all away.
- The static ROI column is shared by the cameras of a model: two ROI calls that
  overlap, on one camera or on two with the same bit, write a mixture
  (`OwnImage` excludes exactly these). Under binning VMAX and HMAX come from fixed columns of the table whatever the
  height is, so there `OwnImage` compares the height alone.
- The test picture of the IMX566 ends with a black level of 0 (`imx566_mode_tbls.c:891-892`): a level told before
  is gone, and nobody is told. A gain of 52 or more wraps in 9 bits. A read that fails in
  `set_filp` clears the other flip, and in gmax3405 the other fields of its register.
  `set_roi_format` returns 0 whatever was lost.
- gmax3405's group hold is shared by callers: the release of the first latches half
  of the second's window. `test_img` is written outside the hold. The SC535's read-back of
  its blank rows reads the low byte twice (lines 540 and 542).
- `nv_sensor_set_stream` drops the result of every start and stop; a start table that
  fails leaves the pipe on. gmax3412 and ov5640 close the pipe before they stop the
  sensor. When the device tree lists several streams, the last one is what the
  pipe maps. `serdes_lock__` is never initialised.
- `set_group_hold` is a field of one structure all sensors share: the last one probed
  decides it (`nv_sensor.c:373`).

## 7. Not modelled, and why

- Time arithmetic: all modules reduce times to the order of events. What a time that
  wraps should do is said nowhere, so there is no property to state.
- The threads of iomanager after unbind, and calls on a file kept open: they run on
  freed memory, whose content no model can say. `IoLife` records which threads were started.
- The tegracam controls of gain, exposure and frame rate (`nv_sensor.c:242-328`, whose bodies
  are compiled out), formats and selections (copies of sizes), identification, temperature and
  minimum-interval reads (no state), raw register access from user space.
- In the deserialiser its own probe and reload (which clear the marks), version check and link reset, the status
  printout, `set_link_bandwidth` (no caller). The serialiser's video timing and error counters.
- The second table of `og02c1b_mode_tbls.c`, which nothing refers to, and
  og05b2b's `CAM_SET_CUSTOM_TEST`, one write to an address no camera of this kind owns.
- `set_io_led_flash`, which has no caller. Waking, logging, pwm duty cycles, device tree parsing.
- The test programs are callers; their patterns are the environment of the models. Build
  scripts have no run-time behaviour.

`PROJECT.json` lists the hazards of the code with the properties that cover them, and
for the few that none covers the reason.
