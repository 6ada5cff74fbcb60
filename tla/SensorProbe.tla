----------------------------- MODULE SensorProbe -----------------------------
(***************************************************************************)
(* nv_sensor_probe and nv_sensor_remove of the cameras on the parallel     *)
(* sensor boards (IMX565, IMX566, GMAX3405, SC535): the pins move one by   *)
(* one, every step may fail, cameras are bound and unbound side by side,   *)
(* share a debugfs directory and read a parameter that may be written at   *)
(* any time.  GmslLink has the probe of the cameras behind a deserialiser. *)
(***************************************************************************)
EXTENDS Integers, Sequences

CONSTANTS Cameras,     \* the i2c clients
          Dirs,        \* dentries debugfs may make for "nv_imx"
          MaxProbes,   \* bound on the probes of a camera
          MaxWrites    \* bound on the writes of modeType

NoDir == "none"
ASSUME DirsAssumption == NoDir \notin Dirs

Kinds == {"imx565", "imx566", "gmax3405", "sc535"}
Imx   == {"imx565", "imx566"}
Modes == 0 .. 2                    \* written to modeType; 0 and 1 are documented

-----------------------------------------------------------------------------
(* Pins in the order the code drives them.                                 *)
imx56x_dtb_init   == <<"pwdn", "xclr", "inck", "xmaster">>
gmax3405_dtb_init == <<"pwdn", "reset", "clk">>
sc535_dtb_init    == <<"pwdn", "reset", "pwdnb">>

dtb_init(k) ==
    CASE k \in Imx       -> imx56x_dtb_init
      [] k = "gmax3405" -> gmax3405_dtb_init
      [] k = "sc535"    -> sc535_dtb_init

\* The IMX565 looks at its sensorMode, which is constant, the IMX566 at the parameter.
imx565_slave       == TRUE
imx566_slave(mode) == mode = 0

imx56x_power_on(slave) ==
    << <<"inck", 0>>, <<"xclr", 0>>, <<"pwdn", 0>>, <<"xmaster", IF slave THEN 1 ELSE 0>>,
       <<"pwdn", 1>>, <<"xclr", 1>>, <<"inck", 1>> >>
gmax3405_power_on == << <<"pwdn", 1>>, <<"clk", 1>>, <<"reset", 1>> >>
sc535_power_on    == << <<"pwdn", 0>>, <<"pwdn", 1>>, <<"reset", 1>>, <<"pwdnb", 1>> >>

power_on_set(k, mode) ==
    CASE k \in Imx       -> imx56x_power_on(IF k = "imx565" THEN imx565_slave ELSE imx566_slave(mode))
      [] k = "gmax3405" -> gmax3405_power_on
      [] k = "sc535"    -> sc535_power_on

imx56x_power_off   == << <<"inck", 0>>, <<"xclr", 0>>, <<"pwdn", 0>>, <<"xmaster", 0>> >>
gmax3405_power_off == << <<"reset", 0>>, <<"clk", 0>>, <<"pwdn", 0>> >>
sc535_power_off    == << <<"pwdnb", 0>>, <<"reset", 0>>, <<"pwdn", 0>> >>

power_off_set(k) ==
    CASE k \in Imx       -> imx56x_power_off
      [] k = "gmax3405" -> gmax3405_power_off
      [] k = "sc535"    -> sc535_power_off

\* Only these entries of a mode table are not null.
HasTable(k, mode) == mode = 0 \/ (k = "imx566" /\ mode = 1)

\* XMSTA once init_param is through: 0 starts the sensor as master.
Xmsta(k, mode) == IF k = "imx566" /\ mode # 1 THEN 1 ELSE 0

-----------------------------------------------------------------------------
VARIABLES kind,       \* of each camera
          modeType,   \* the module's parameter
          pc,         \* where each camera is in its probe or removal
          answer,     \* what each sensor gave for its identification
          cam,        \* of each camera: pins, XMSTA, power->state, the mode its probe and
                      \* its init_param read, enables of mclk its probe has not given back
          dir,        \* debugfs_dir of each camera
          linked,     \* the dentry the name nv_imx leads to, or NoDir
          owner,      \* the camera whose files a dentry holds
          refs,       \* references of each dentry; it is freed when none is left
          probes,     \* probes of each camera, for the bound
          writes      \* writes of modeType, for the bound

debugfs == <<dir, linked, owner, refs>>
vars == <<kind, modeType, pc, answer, cam, debugfs, probes, writes>>

Pcs == {"unbound", "dtb", "register", "mclk", "on", "id", "off", "init", "v4l2", "lookup",
        "create", "bound", "rmdir", "unregister", "failed", "torn", "oops"}

Pins == {"pwdn", "xclr", "inck", "xmaster", "reset", "clk", "pwdnb"}
Cam == [step : Nat, mode : Modes, pins : SUBSET Pins,
        mclk : {0, 1}, state : {"on", "off"}, xmsta : {0, 1}, seen : Modes]

Init ==
    /\ kind \in [Cameras -> Kinds] /\ modeType = 0 /\ writes = 0
    /\ pc = [c \in Cameras |-> "unbound"]
    /\ cam = [c \in Cameras |-> [step |-> 1, mode |-> 0, pins |-> {}, mclk |-> 0,
                                 state |-> "off", xmsta |-> 1, seen |-> 0]]
    /\ answer = [c \in Cameras |-> "none"]
    /\ dir = [c \in Cameras |-> NoDir] /\ linked = NoDir
    /\ owner = [d \in Dirs |-> NoDir] /\ refs = [d \in Dirs |-> 0]
    /\ probes = [c \in Cameras |-> 0]

Rest == <<kind, modeType, answer, probes, writes, debugfs>>
Goto(c, where) == pc' = [pc EXCEPT ![c] = where]
Drive(c, move) == IF move[2] = 1 THEN cam[c].pins \cup {move[1]} ELSE cam[c].pins \ {move[1]}

\* /sys/module/.../parameters/modeType is writable.
WriteModeType ==
    /\ writes < MaxWrites /\ writes' = writes + 1
    /\ \E m \in Modes : modeType' = m
    /\ UNCHANGED <<kind, pc, answer, cam, debugfs, probes>>

-----------------------------------------------------------------------------
(* nv_sensor_probe, up to the power of the board.                          *)
Probe(c) ==
    /\ pc[c] \in {"unbound", "failed", "torn"} /\ probes[c] < MaxProbes
    /\ probes' = [probes EXCEPT ![c] = @ + 1]
    /\ cam' = [cam EXCEPT ![c].mode = IF modeType \in {0, 1} THEN modeType ELSE 0,
                          ![c].step = 1, ![c].mclk = 0, ![c].seen = 0]
    /\ answer' = [answer EXCEPT ![c] = "none"]
    /\ Goto(c, "dtb")
    /\ UNCHANGED <<kind, modeType, writes, debugfs>>

\* A gpio that is requested is driven low, the supply first; one may be missing.
DtbStep(c) ==
    LET order == dtb_init(kind[c]) IN
    /\ pc[c] = "dtb"
    /\ \/ /\ cam' = [cam EXCEPT ![c].pins = Drive(c, <<order[cam[c].step], 0>>), ![c].xmsta = 1,
                                ![c].step = IF @ = Len(order) THEN 1 ELSE @ + 1]
          /\ Goto(c, IF cam[c].step = Len(order) THEN "register" ELSE "dtb")
       \/ Goto(c, "torn") /\ UNCHANGED cam
    /\ UNCHANGED Rest

\* tegracam_device_register calls sensor_power_get.
Register(c) ==
    /\ pc[c] = "register"
    /\ cam' = [cam EXCEPT ![c].state = "off"]
    /\ Goto(c, "mclk") \/ Goto(c, "failed")
    /\ UNCHANGED Rest

MclkEnable(c) ==
    /\ pc[c] = "mclk"
    /\ \/ cam' = [cam EXCEPT ![c].mclk = 1, ![c].step = 1] /\ Goto(c, "on")
       \/ UNCHANGED cam /\ Goto(c, "failed")
    /\ UNCHANGED Rest

\* The GMAX3405 alone leaves power->state as it is.
PowerOnStep(c) ==
    LET moves == power_on_set(kind[c], cam[c].mode)
        last  == cam[c].step = Len(moves) IN
    /\ pc[c] = "on"
    /\ cam' = [cam EXCEPT ![c].pins = Drive(c, moves[cam[c].step]),
                          ![c].step = IF last THEN 1 ELSE @ + 1,
                          ![c].state = IF last /\ kind[c] # "gmax3405" THEN "on" ELSE @]
    /\ Goto(c, IF last THEN "id" ELSE "on")
    /\ UNCHANGED Rest

\* The register that identifies the sensor is right, wrong or cannot be read.  The SC535
\* expects 0, which is also what a failed read leaves.
ReadId(c) ==
    /\ pc[c] = "id"
    /\ \E a \in {"ok", "wrong", "lost"} :
           /\ answer' = [answer EXCEPT ![c] = a]
           /\ Goto(c, CASE a = "ok" -> "init"
                        [] a = "lost" /\ kind[c] = "sc535" -> "failed"
                        [] OTHER -> "off")
    /\ UNCHANGED <<cam, kind, modeType, probes, writes, debugfs>>

\* What follows the power off: board_setup returns the result of its last read, so a
\* wrong answer that could be read is a success; only the GMAX3405 returns -1.
AfterOff(c) ==
    CASE answer[c] = "ok" -> "rmdir"
      [] answer[c] = "wrong" /\ kind[c] # "gmax3405" -> "init"
      [] OTHER -> "failed"

(* Mutant of PowerOffStep: the supply goes first. *)
PowerOffStepBackwards(c) ==
    LET moves == power_off_set(kind[c])
        last  == cam[c].step = Len(moves) IN
    /\ pc[c] = "off"
    /\ cam' = [cam EXCEPT ![c].pins = Drive(c, moves[Len(moves) + 1 - cam[c].step]),
                          ![c].step = IF last THEN 1 ELSE @ + 1]
    /\ Goto(c, IF last THEN AfterOff(c) ELSE "off")
    /\ UNCHANGED Rest

(* Mutant of PowerOffStep: mclk stays on. *)
PowerOffStepKeepsClock(c) ==
    LET moves == power_off_set(kind[c])
        last  == cam[c].step = Len(moves) IN
    /\ pc[c] = "off"
    /\ cam' = [cam EXCEPT ![c].pins = Drive(c, moves[cam[c].step]),
                          ![c].step = IF last THEN 1 ELSE @ + 1,
                          ![c].state = IF last THEN "off" ELSE @]
    /\ Goto(c, IF last THEN AfterOff(c) ELSE "off")
    /\ UNCHANGED Rest

\* The GMAX3405 leaves mclk on, and power->state as it is.
PowerOffStep(c) ==
    LET moves == power_off_set(kind[c])
        last  == cam[c].step = Len(moves)
        gmax  == kind[c] = "gmax3405" IN
    /\ pc[c] = "off"
    /\ cam' = [cam EXCEPT ![c].pins = Drive(c, moves[cam[c].step]),
                          ![c].step = IF last THEN 1 ELSE @ + 1,
                          ![c].mclk = IF last /\ ~gmax THEN 0 ELSE @,
                          ![c].state = IF last /\ ~gmax THEN "off" ELSE @]
    /\ Goto(c, IF last THEN AfterOff(c) ELSE "off")
    /\ UNCHANGED Rest

\* sensor_init_param is given the parameter as it is now, and takes a null table for one.
InitParam(c) ==
    /\ pc[c] = "init"
    /\ cam' = [cam EXCEPT ![c].seen = modeType,
                          ![c].xmsta = IF answer[c] = "ok" THEN Xmsta(kind[c], modeType) ELSE @]
    /\ Goto(c, IF HasTable(kind[c], modeType) THEN "v4l2" ELSE "oops")
    /\ UNCHANGED Rest

\* A failure here leaves the board as it is.
RegisterSubdev(c) ==
    /\ pc[c] = "v4l2"
    /\ Goto(c, "lookup") \/ Goto(c, "failed")
    /\ UNCHANGED <<cam, Rest>>

-----------------------------------------------------------------------------
(* nv_sensor_debugfs_init and nv_sensor_debugfs_remove.                    *)

(* Mutant of DebugfsLookup: the reference is given back at once. *)
DebugfsLookupPut(c) ==
    /\ pc[c] = "lookup"
    /\ dir' = [dir EXCEPT ![c] = linked]
    /\ Goto(c, IF linked = NoDir THEN "create" ELSE "bound")
    /\ UNCHANGED <<kind, modeType, answer, cam, probes, writes, refs, linked, owner>>

\* debugfs_lookup returns a reference, which nobody ever gives back.
DebugfsLookup(c) ==
    /\ pc[c] = "lookup"
    /\ IF linked = NoDir
       THEN Goto(c, "create") /\ UNCHANGED <<dir, refs>>
       ELSE /\ Goto(c, "bound")
            /\ dir' = [dir EXCEPT ![c] = linked]
            /\ refs' = [refs EXCEPT ![linked] = @ + 1]
    /\ UNCHANGED <<kind, modeType, answer, cam, probes, writes, linked, owner>>

\* The directory may have been made meanwhile: debugfs_create_dir then returns an error
\* and the probe goes on.
DebugfsCreate(c) ==
    /\ pc[c] = "create" /\ Goto(c, "bound")
    /\ IF linked = NoDir
       THEN \E d \in {d \in Dirs : refs[d] = 0} :
                /\ linked' = d /\ dir' = [dir EXCEPT ![c] = d]
                /\ refs' = [refs EXCEPT ![d] = 1] /\ owner' = [owner EXCEPT ![d] = c]
       ELSE UNCHANGED debugfs
    /\ UNCHANGED <<kind, modeType, answer, cam, probes, writes>>

\* nv_sensor_remove: board_off_power is the GMAX3405's alone.
Remove(c) ==
    /\ pc[c] = "bound"
    /\ IF kind[c] = "gmax3405"
       THEN Goto(c, "off") /\ cam' = [cam EXCEPT ![c].step = 1]
       ELSE Goto(c, "rmdir") /\ UNCHANGED cam
    /\ UNCHANGED Rest

(* Mutant of DebugfsRemove: only the last user removes the directory. *)
DebugfsRemoveShared(c) ==
    /\ pc[c] = "rmdir" /\ Goto(c, "unregister")
    /\ dir' = [dir EXCEPT ![c] = NoDir]
    /\ IF linked # NoDir /\ dir[c] = linked
       THEN /\ refs' = [refs EXCEPT ![linked] = @ - 1]
            /\ linked' = IF refs[linked] = 1 THEN NoDir ELSE linked
       ELSE UNCHANGED <<refs, linked>>
    /\ UNCHANGED <<kind, modeType, answer, cam, probes, writes, owner>>

\* debugfs_remove_recursive takes the directory away whoever made it; of one that is
\* away already it does nothing.
DebugfsRemove(c) ==
    /\ pc[c] = "rmdir" /\ Goto(c, "unregister")
    /\ dir' = [dir EXCEPT ![c] = NoDir]
    /\ IF linked # NoDir /\ dir[c] = linked
       THEN linked' = NoDir /\ refs' = [refs EXCEPT ![linked] = @ - 1]
       ELSE UNCHANGED <<linked, refs>>
    /\ UNCHANGED <<kind, modeType, answer, cam, probes, writes, owner>>

Unregister(c) ==
    /\ pc[c] = "unregister" /\ Goto(c, "unbound")
    /\ answer' = [answer EXCEPT ![c] = "none"]
    /\ cam' = [cam EXCEPT ![c].seen = 0, ![c].mode = 0]
    /\ UNCHANGED <<kind, modeType, probes, writes, debugfs>>

-----------------------------------------------------------------------------
nv_sensor_probe(c) ==
    \/ Probe(c) \/ DtbStep(c) \/ Register(c) \/ MclkEnable(c) \/ PowerOnStep(c) \/ ReadId(c)
    \/ InitParam(c) \/ RegisterSubdev(c) \/ DebugfsLookup(c) \/ DebugfsCreate(c)

nv_sensor_remove(c) == Remove(c) \/ DebugfsRemove(c) \/ Unregister(c)

Next ==
    \/ WriteModeType
    \/ \E c \in Cameras : nv_sensor_probe(c) \/ PowerOffStep(c) \/ nv_sensor_remove(c)

Spec == Init /\ [][Next]_vars

-----------------------------------------------------------------------------
(* Properties.                                                             *)

TypeOK ==
    /\ kind \in [Cameras -> Kinds] /\ modeType \in Modes
    /\ answer \in [Cameras -> {"none", "ok", "wrong", "lost"}]
    /\ pc \in [Cameras -> Pcs] /\ cam \in [Cameras -> Cam]
    /\ dir \in [Cameras -> Dirs \cup {NoDir}] /\ linked \in Dirs \cup {NoDir}
    /\ owner \in [Dirs -> Cameras \cup {NoDir}] /\ refs \in [Dirs -> Nat]
    /\ probes \in [Cameras -> Nat] /\ writes \in Nat

\* The dentry a camera will hand to debugfs_remove_recursive is not freed before, though
\* another camera may have removed the directory.
DentryIsAlive == \A c \in Cameras : dir[c] # NoDir => refs[dir[c]] > 0

\* A file of nv_imx reads the struct of the camera that made it: as long as the name
\* exists, that camera is bound or has its own removal of the directory before it.
FilesOfTheBound ==
    linked # NoDir => /\ dir[owner[linked]] = linked
                      /\ pc[owner[linked]] \in {"bound", "off", "rmdir"}

Ramp(k) == CASE k \in Imx -> <<"pwdn", "xclr", "inck">>
             [] k = "gmax3405" -> <<"pwdn", "clk", "reset">>
             [] k = "sc535" -> <<"pwdn", "reset", "pwdnb">>
Lit(c) == \A i \in 1 .. 3 : Ramp(kind[c])[i] \in cam[c].pins

\* Supply, reset or clock go up in the sensor's order and down in the opposite one, on
\* every path; dtb_init, which drives low the pins of a camera that was on, is the exception.
PowerInOrder ==
    \A c \in Cameras : pc[c] \notin {"dtb", "torn"} =>
        \A i \in 1 .. 2 : Ramp(kind[c])[i + 1] \in cam[c].pins => Ramp(kind[c])[i] \in cam[c].pins

\* A bound camera is lit exactly if it answered as itself, and power->state says so where
\* the driver keeps it; the probe of an IMX that fails for the answer leaves the pins low
\* and the clock off.
PowerFollowsAnswer ==
    \A c \in Cameras :
        /\ pc[c] = "bound" => /\ Lit(c) <=> answer[c] = "ok"
                              /\ kind[c] # "gmax3405" => (cam[c].state = "on" <=> Lit(c))
        /\ pc[c] = "failed" /\ answer[c] \in {"wrong", "lost"} /\ kind[c] \in Imx =>
               cam[c].pins = {} /\ cam[c].mclk = 0
=============================================================================
