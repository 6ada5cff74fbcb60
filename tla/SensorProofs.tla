-------------------------- MODULE SensorProofs ---------------------------
(***************************************************************************)
(* Proofs about the sensor drivers.                                        *)
(*                                                                         *)
(* SensorProbe, first part, for any cameras, dentries and bounds: no       *)
(* camera ever removes a directory that was freed, no file of nv_imx       *)
(* outlives the camera it reads, the pins keep their order on every path   *)
(* and a bound camera is lit exactly if it answered.  For the directory    *)
(* the strengthening counts just enough: while it has its name, a second   *)
(* camera that holds it makes two references, of which the removal takes   *)
(* one.  For the pins it says which are high at each step of a sequence.   *)
(*                                                                         *)
(* Imx56x, second part, for any sensors, callers, ROIs and levels, with    *)
(* settings, images and test pictures in any mixture: a setting told by a  *)
(* call whose register nobody wrote meanwhile is what the sensor holds     *)
(* until it is written again, and so is the image of a ROI call that met   *)
(* no other.                                                               *)
(***************************************************************************)
EXTENDS SensorProbe, Imx56x, TLAPS

DirTypes ==
    /\ kind \in [Cameras -> Kinds]
    /\ pc \in [Cameras -> Pcs]
    /\ answer \in [Cameras -> {"none", "ok", "wrong", "lost"}]
    /\ dir \in [Cameras -> Dirs \cup {NoDir}]
    /\ linked \in Dirs \cup {NoDir}
    /\ owner \in [Dirs -> Cameras \cup {NoDir}]
    /\ refs \in [Dirs -> Nat]

(* The GMAX3405 alone powers off in its removal: it is bound only if it answered. *)
Answered ==
    \A c \in Cameras : kind[c] = "gmax3405" /\ pc[c] \in {"init", "v4l2", "lookup", "create", "bound"}
        => answer[c] = "ok"

HoldersAreBound ==
    \A c \in Cameras : dir[c] # NoDir =>
        pc[c] \in {"bound", "off", "rmdir"} /\ (pc[c] = "off" => answer[c] = "ok")

OwnerHolds == linked # NoDir => owner[linked] \in Cameras /\ dir[owner[linked]] = linked

TwoAreTwo ==
    linked # NoDir => \A c \in Cameras : dir[c] = linked /\ c # owner[linked] => refs[linked] >= 2

DirInv == DirTypes /\ Answered /\ HoldersAreBound /\ OwnerHolds /\ TwoAreTwo /\ DentryIsAlive

LEMMA AfterOffIsPc == ASSUME NEW c \in Cameras PROVE AfterOff(c) \in Pcs
BY DEF AfterOff, Pcs

(* Steps that leave debugfs alone, and every answer but their own camera's. *)
LEMMA QuietStep ==
    ASSUME DirInv, NEW c \in Cameras, NEW where \in Pcs, Goto(c, where), UNCHANGED <<kind, debugfs>>,
           answer' \in [Cameras -> {"none", "ok", "wrong", "lost"}],
           \A o \in Cameras : o # c => answer'[o] = answer[o],
           dir[c] # NoDir => where \in {"bound", "off", "rmdir"} /\ (where = "off" => answer'[c] = "ok"),
           kind[c] = "gmax3405" /\ where \in {"init", "v4l2", "lookup", "create", "bound"} => answer'[c] = "ok"
    PROVE  DirInv'
<1> USE DEF DirInv, debugfs, Goto
<1>1. DirTypes'
  BY DEF DirTypes
<1>2. Answered'
  BY DEF DirTypes, Answered
<1>3. HoldersAreBound'
  BY DEF DirTypes, HoldersAreBound
<1>4. OwnerHolds' /\ TwoAreTwo' /\ DentryIsAlive'
  BY DEF DirTypes, OwnerHolds, TwoAreTwo, DentryIsAlive
<1> QED BY <1>1, <1>2, <1>3, <1>4

LEMMA InitDirInv == Init => DirInv
BY DirsAssumption DEF Init, DirInv, DirTypes, Answered, HoldersAreBound, OwnerHolds, TwoAreTwo,
   DentryIsAlive, Pcs

LEMMA LookupKeeps == ASSUME DirInv, NEW c \in Cameras, DebugfsLookup(c) PROVE DirInv'
<1> USE DEF DirInv, DebugfsLookup, Goto
<1>1. pc[c] = "lookup" /\ dir[c] = NoDir
  BY DEF HoldersAreBound
<1>2. DirTypes'
  BY <1>1 DEF DirTypes, Pcs
<1>3. Answered'
  BY <1>1 DEF DirTypes, Answered
<1>4. HoldersAreBound'
  BY <1>1 DEF DirTypes, HoldersAreBound
<1>5. CASE linked = NoDir
  BY <1>1, <1>2, <1>3, <1>4, <1>5 DEF DirTypes, OwnerHolds, TwoAreTwo, DentryIsAlive
<1>6. CASE linked # NoDir
  <2>1. dir' = [dir EXCEPT ![c] = linked] /\ refs' = [refs EXCEPT ![linked] = @ + 1]
        /\ linked \in Dirs /\ UNCHANGED <<linked, owner>>
    BY <1>6 DEF DirTypes
  <2>2. owner[linked] \in Cameras /\ dir[owner[linked]] = linked /\ owner[linked] # c /\ refs[linked] >= 1
    BY <1>1, <1>6 DEF OwnerHolds, DentryIsAlive, DirTypes
  <2>3. refs'[linked] >= 2
    BY <2>1, <2>2 DEF DirTypes
  <2>4. OwnerHolds'
    BY <2>1, <2>2 DEF OwnerHolds, DirTypes
  <2>5. TwoAreTwo'
    BY <2>1, <2>3 DEF TwoAreTwo, DirTypes
  <2>6. DentryIsAlive'
    BY <2>1, <2>3 DEF DentryIsAlive, DirTypes
  <2> QED BY <1>2, <1>3, <1>4, <2>4, <2>5, <2>6
<1> QED BY <1>5, <1>6

LEMMA CreateKeeps == ASSUME DirInv, NEW c \in Cameras, DebugfsCreate(c) PROVE DirInv'
<1> USE DEF DirInv, Goto
<1>1. pc[c] = "create" /\ dir[c] = NoDir /\ pc' = [pc EXCEPT ![c] = "bound"] /\ UNCHANGED <<kind, answer>>
  BY DEF HoldersAreBound, DebugfsCreate
<1>2. CASE linked = NoDir
  <2>1. PICK d \in Dirs : /\ refs[d] = 0 /\ linked' = d /\ dir' = [dir EXCEPT ![c] = d]
                          /\ refs' = [refs EXCEPT ![d] = 1] /\ owner' = [owner EXCEPT ![d] = c]
    BY <1>2 DEF DebugfsCreate
  <2>2. \A o \in Cameras : dir[o] # d
    BY <2>1, DirsAssumption DEF DentryIsAlive
  <2>3. DirTypes'
    BY <1>1, <2>1 DEF DirTypes, Pcs
  <2>4. Answered' /\ HoldersAreBound'
    BY <1>1, <2>1 DEF DirTypes, Answered, HoldersAreBound
  <2>5. OwnerHolds' /\ TwoAreTwo'
    BY <2>1, <2>2 DEF DirTypes, OwnerHolds, TwoAreTwo
  <2>6. DentryIsAlive'
    BY <2>1, <2>2 DEF DirTypes, DentryIsAlive
  <2> QED BY <2>3, <2>4, <2>5, <2>6
<1>3. CASE linked # NoDir
  <2>1. UNCHANGED debugfs
    BY <1>3 DEF DebugfsCreate
  <2> QED BY <1>1, <2>1, QuietStep DEF DirTypes, Answered, Pcs
<1> QED BY <1>2, <1>3

LEMMA RemoveKeeps == ASSUME DirInv, NEW c \in Cameras, DebugfsRemove(c) PROVE DirInv'
<1> USE DEF DirInv, Goto
<1>1. /\ pc[c] = "rmdir" /\ pc' = [pc EXCEPT ![c] = "unregister"] /\ UNCHANGED <<kind, answer, owner>>
      /\ dir' = [dir EXCEPT ![c] = NoDir]
  BY DEF DebugfsRemove
<1>2. CASE linked # NoDir /\ dir[c] = linked
  <2>1. linked \in Dirs /\ linked' = NoDir /\ refs' = [refs EXCEPT ![linked] = @ - 1]
    BY <1>2 DEF DebugfsRemove, DirTypes
  <2>2. refs[linked] >= 1
    BY <1>2, <2>1 DEF DentryIsAlive, DirTypes
  <2>3. \A o \in Cameras : o # c /\ dir[o] = linked => refs[linked] >= 2
    BY <1>2 DEF TwoAreTwo, OwnerHolds
  <2>4. DirTypes'
    BY <1>1, <2>1, <2>2 DEF DirTypes, Pcs
  <2>5. Answered' /\ HoldersAreBound'
    BY <1>1 DEF DirTypes, Answered, HoldersAreBound
  <2>6. OwnerHolds' /\ TwoAreTwo'
    BY <2>1 DEF OwnerHolds, TwoAreTwo
  <2>7. DentryIsAlive'
    BY <1>1, <2>1, <2>3 DEF DirTypes, DentryIsAlive
  <2> QED BY <2>4, <2>5, <2>6, <2>7
<1>3. CASE ~(linked # NoDir /\ dir[c] = linked)
  <2>1. UNCHANGED <<linked, refs>>
    BY <1>3 DEF DebugfsRemove
  <2>2. DirTypes'
    BY <1>1, <2>1 DEF DirTypes, Pcs
  <2>3. Answered' /\ HoldersAreBound'
    BY <1>1 DEF DirTypes, Answered, HoldersAreBound
  <2>4. OwnerHolds' /\ TwoAreTwo' /\ DentryIsAlive'
    BY <1>1, <1>3, <2>1 DEF DirTypes, OwnerHolds, TwoAreTwo, DentryIsAlive
  <2> QED BY <2>2, <2>3, <2>4
<1> QED BY <1>2, <1>3

LEMMA NextKeeps == DirInv /\ [Next]_vars => DirInv'
<1> SUFFICES ASSUME DirInv, [Next]_vars PROVE DirInv'
  OBVIOUS
<1> USE DEF Pcs
<1>1. CASE UNCHANGED vars \/ WriteModeType
  <2>1. UNCHANGED <<kind, pc, answer, dir, linked, owner, refs>>
    BY <1>1 DEF vars, debugfs, WriteModeType
  <2>2. DirTypes' /\ Answered' /\ HoldersAreBound'
    BY <2>1 DEF DirInv, DirTypes, Answered, HoldersAreBound
  <2>3. OwnerHolds' /\ TwoAreTwo' /\ DentryIsAlive'
    BY <2>1 DEF DirInv, OwnerHolds, TwoAreTwo, DentryIsAlive
  <2> QED BY <2>2, <2>3 DEF DirInv
<1>2. ASSUME NEW c \in Cameras, Probe(c) \/ DtbStep(c) \/ Register(c) \/ MclkEnable(c) PROVE DirInv'
  <2>1. dir[c] = NoDir /\ UNCHANGED <<kind, debugfs>>
    BY <1>2 DEF DirInv, HoldersAreBound, Probe, DtbStep, Register, MclkEnable, Rest
  <2>2. \E where \in {"dtb", "torn", "register", "mclk", "failed", "on"} : Goto(c, where)
    BY <1>2 DEF Probe, DtbStep, Register, MclkEnable
  <2>3. answer' = answer \/ answer' = [answer EXCEPT ![c] = "none"]
    BY <1>2 DEF Probe, DtbStep, Register, MclkEnable, Rest
  <2> QED BY <2>1, <2>2, <2>3, QuietStep DEF DirInv, DirTypes
<1>3. ASSUME NEW c \in Cameras, PowerOnStep(c) PROVE DirInv'
  <2>1. dir[c] = NoDir /\ UNCHANGED <<kind, debugfs, answer>>
    BY <1>3 DEF DirInv, HoldersAreBound, PowerOnStep, Rest
  <2>2. \E where \in {"on", "id"} : Goto(c, where)
    BY <1>3 DEF PowerOnStep
  <2> QED BY <2>1, <2>2, QuietStep DEF DirInv, DirTypes
<1>4. ASSUME NEW c \in Cameras, ReadId(c) PROVE DirInv'
  <2>1. dir[c] = NoDir /\ UNCHANGED <<kind, debugfs>>
    BY <1>4 DEF DirInv, HoldersAreBound, ReadId
  <2>2. PICK a \in {"ok", "wrong", "lost"} :
            /\ answer' = [answer EXCEPT ![c] = a]
            /\ Goto(c, CASE a = "ok" -> "init"
                         [] a = "lost" /\ kind[c] = "sc535" -> "failed"
                         [] OTHER -> "off")
    BY <1>4 DEF ReadId
  <2>3. \E where \in {"init", "failed", "off"} : Goto(c, where) /\ (where = "init" => a = "ok")
    BY <2>2
  <2> QED BY <2>1, <2>2, <2>3, QuietStep DEF DirInv, DirTypes
<1>5. ASSUME NEW c \in Cameras, PowerOffStep(c) PROVE DirInv'
  <2>1. pc[c] = "off" /\ UNCHANGED <<kind, debugfs, answer>>
    BY <1>5 DEF PowerOffStep, Rest
  <2>2. Goto(c, AfterOff(c)) \/ Goto(c, "off")
    BY <1>5 DEF PowerOffStep
  <2>3. /\ dir[c] # NoDir => answer[c] = "ok"
        /\ answer[c] = "ok" => AfterOff(c) = "rmdir"
        /\ kind[c] = "gmax3405" => AfterOff(c) \notin {"init", "v4l2", "lookup", "create", "bound"}
    BY <2>1 DEF AfterOff, DirInv, HoldersAreBound
  <2>4. AfterOff(c) \in Pcs
    BY AfterOffIsPc
  <2> QED BY <2>1, <2>2, <2>3, <2>4, QuietStep DEF DirInv, DirTypes
<1>6. ASSUME NEW c \in Cameras, InitParam(c) \/ RegisterSubdev(c) PROVE DirInv'
  <2>1. dir[c] = NoDir /\ UNCHANGED <<kind, debugfs, answer>> /\ pc[c] \in {"init", "v4l2"}
    BY <1>6 DEF DirInv, HoldersAreBound, InitParam, RegisterSubdev, Rest
  <2>2. \E where \in {"v4l2", "oops", "lookup", "failed"} : Goto(c, where)
    BY <1>6 DEF InitParam, RegisterSubdev
  <2> QED BY <2>1, <2>2, QuietStep DEF DirInv, DirTypes, Answered
<1>7. ASSUME NEW c \in Cameras, Remove(c) PROVE DirInv'
  <2>1. pc[c] = "bound" /\ UNCHANGED <<kind, debugfs, answer>>
    BY <1>7 DEF Remove, Rest
  <2>2. (kind[c] = "gmax3405" /\ Goto(c, "off")) \/ Goto(c, "rmdir")
    BY <1>7 DEF Remove
  <2> QED BY <2>1, <2>2, QuietStep DEF DirInv, DirTypes, Answered
<1>8. ASSUME NEW c \in Cameras, Unregister(c) PROVE DirInv'
  <2>1. dir[c] = NoDir /\ UNCHANGED <<kind, debugfs>> /\ Goto(c, "unbound")
        /\ answer' = [answer EXCEPT ![c] = "none"]
    BY <1>8 DEF DirInv, HoldersAreBound, Unregister
  <2> QED BY <2>1, QuietStep DEF DirInv, DirTypes
<1> QED
  BY <1>1, <1>2, <1>3, <1>4, <1>5, <1>6, <1>7, <1>8, LookupKeeps, CreateKeeps, RemoveKeeps
  DEF Next, nv_sensor_probe, nv_sensor_remove

(* debugfs_remove_recursive is never given a dentry that was freed: the reference that *)
(* every lookup leaves behind keeps the directory of a camera that did not make it.    *)
THEOREM DentriesAlive == Spec => []DentryIsAlive
<1>1. DirInv => DentryIsAlive
  BY DEF DirInv
<1> QED BY <1>1, InitDirInv, NextKeeps, PTL DEF Spec

(* A file of nv_imx never outlives the camera whose struct it reads. *)
THEOREM FilesBound == Spec => []FilesOfTheBound
<1>1. DirInv => FilesOfTheBound
  BY DEF DirInv, DirTypes, OwnerHolds, HoldersAreBound, FilesOfTheBound
<1> QED BY <1>1, InitDirInv, NextKeeps, PTL DEF Spec-----------------------------------------------------------------------------
(***************************************************************************)
(* The pins.  Every board has three that make the ramp; the moves of       *)
(* power_on reach them in order from step Rise on, those of power_off in   *)
(* the opposite order from the first.  So the step of a camera tells which *)
(* of its pins are high, and the answer of its sensor what follows.        *)
(***************************************************************************)
Wires(k) == {dtb_init(k)[i] : i \in 1 .. Len(dtb_init(k))}
Rise(k)  == CASE k \in Imx -> 5 [] k = "gmax3405" -> 1 [] k = "sc535" -> 2

(* What dtb_init requests, and the ramp in it. *)
LEMMA Boards ==
    ASSUME NEW k \in Kinds
    PROVE  /\ Len(dtb_init(k)) \in {3, 4}
           /\ Rise(k) \in {1, 2, 5}
           /\ \A i \in 1 .. 3 : Ramp(k)[i] \in Wires(k) /\ Ramp(k)[i] # "xmaster"
           /\ \A i, j \in 1 .. 3 : Ramp(k)[i] = Ramp(k)[j] => i = j
           /\ Wires(k) \in SUBSET Pins
           /\ Wires(k) = {Ramp(k)[i] : i \in 1 .. 3} \cup (IF k \in Imx THEN {"xmaster"} ELSE {})
<1>1. CASE k \in Imx
  <2>1. dtb_init(k) = <<"pwdn", "xclr", "inck", "xmaster">> /\ Ramp(k) = <<"pwdn", "xclr", "inck">> /\ Rise(k) = 5
    BY <1>1 DEF Imx, dtb_init, imx56x_dtb_init, Ramp, Rise
  <2>2. Wires(k) = {"pwdn", "xclr", "inck", "xmaster"}
    BY <2>1 DEF Wires
  <2>3. {Ramp(k)[i] : i \in 1 .. 3} = {Ramp(k)[1], Ramp(k)[2], Ramp(k)[3]}
    OBVIOUS
  <2> QED BY <2>3, <1>1, <2>1, <2>2 DEF Pins
<1>2. CASE k = "gmax3405"
  <2>1. dtb_init(k) = <<"pwdn", "reset", "clk">> /\ Ramp(k) = <<"pwdn", "clk", "reset">> /\ Rise(k) = 1 /\ k \notin Imx
    BY <1>2 DEF Imx, dtb_init, gmax3405_dtb_init, Ramp, Rise
  <2>2. Wires(k) = {"pwdn", "reset", "clk"}
    BY <2>1 DEF Wires
  <2>3. {Ramp(k)[i] : i \in 1 .. 3} = {Ramp(k)[1], Ramp(k)[2], Ramp(k)[3]}
    OBVIOUS
  <2> QED BY <2>3, <2>1, <2>2 DEF Pins
<1>3. CASE k = "sc535"
  <2>1. dtb_init(k) = <<"pwdn", "reset", "pwdnb">> /\ Ramp(k) = <<"pwdn", "reset", "pwdnb">> /\ Rise(k) = 2 /\ k \notin Imx
    BY <1>3 DEF Imx, dtb_init, sc535_dtb_init, Ramp, Rise
  <2>2. Wires(k) = {"pwdn", "reset", "pwdnb"}
    BY <2>1 DEF Wires
  <2>3. {Ramp(k)[i] : i \in 1 .. 3} = {Ramp(k)[1], Ramp(k)[2], Ramp(k)[3]}
    OBVIOUS
  <2> QED BY <2>3, <2>1, <2>2 DEF Pins
<1> QED BY <1>1, <1>2, <1>3 DEF Kinds, Imx

(* Before the ramp only xmaster may be raised; then the pins go up one by one. *)
LEMMA UpMoves ==
    ASSUME NEW k \in Kinds, NEW mode
    PROVE  /\ Len(power_on_set(k, mode)) = Rise(k) + 2
           /\ \A i \in 1 .. 3 : power_on_set(k, mode)[Rise(k) + i - 1] = <<Ramp(k)[i], 1>>
           /\ \A s \in 1 .. Rise(k) - 1 :
                  /\ power_on_set(k, mode)[s][1] \in Wires(k)
                  /\ power_on_set(k, mode)[s][2] = 1 => power_on_set(k, mode)[s][1] = "xmaster"
<1>1. CASE k \in Imx
  <2>1. PICK x \in {0, 1} : power_on_set(k, mode) =
          << <<"inck", 0>>, <<"xclr", 0>>, <<"pwdn", 0>>, <<"xmaster", x>>, <<"pwdn", 1>>, <<"xclr", 1>>, <<"inck", 1>> >>
    BY <1>1 DEF Imx, power_on_set, imx56x_power_on
  <2>2. Ramp(k) = <<"pwdn", "xclr", "inck">> /\ Rise(k) = 5 /\ Wires(k) = {"pwdn", "xclr", "inck", "xmaster"}
    BY <1>1 DEF Imx, dtb_init, imx56x_dtb_init, Ramp, Rise, Wires
  <2> QED BY <2>1, <2>2
<1>2. CASE k = "gmax3405"
  <2>1. power_on_set(k, mode) = << <<"pwdn", 1>>, <<"clk", 1>>, <<"reset", 1>> >>
    BY <1>2 DEF Imx, power_on_set, gmax3405_power_on
  <2>2. Ramp(k) = <<"pwdn", "clk", "reset">> /\ Rise(k) = 1
    BY <1>2 DEF Imx, Ramp, Rise
  <2> QED BY <2>1, <2>2
<1>3. CASE k = "sc535"
  <2>1. power_on_set(k, mode) = << <<"pwdn", 0>>, <<"pwdn", 1>>, <<"reset", 1>>, <<"pwdnb", 1>> >>
    BY <1>3 DEF Imx, power_on_set, sc535_power_on
  <2>2. Ramp(k) = <<"pwdn", "reset", "pwdnb">> /\ Rise(k) = 2 /\ Wires(k) = {"pwdn", "reset", "pwdnb"}
    BY <1>3 DEF Imx, Ramp, Rise, Wires, dtb_init, sc535_dtb_init
  <2> QED BY <2>1, <2>2
<1> QED BY <1>1, <1>2, <1>3 DEF Kinds, Imx

(* The three pins go down in the opposite order, xmaster last. *)
LEMMA DownMoves ==
    ASSUME NEW k \in Kinds
    PROVE  /\ Len(power_off_set(k)) = IF k \in Imx THEN 4 ELSE 3
           /\ \A s \in 1 .. 3 : power_off_set(k)[s] = <<Ramp(k)[4 - s], 0>>
           /\ k \in Imx => power_off_set(k)[4] = <<"xmaster", 0>>
<1>1. CASE k \in Imx
  BY <1>1 DEF Imx, power_off_set, imx56x_power_off, Ramp
<1>2. CASE k = "gmax3405"
  BY <1>2 DEF Imx, power_off_set, gmax3405_power_off, Ramp
<1>3. CASE k = "sc535"
  BY <1>3 DEF Imx, power_off_set, sc535_power_off, Ramp
<1> QED BY <1>1, <1>2, <1>3 DEF Kinds, Imx
-----------------------------------------------------------------------------
CamTypes ==
    /\ kind \in [Cameras -> Kinds] /\ modeType \in Modes /\ writes \in Nat /\ probes \in [Cameras -> Nat]
    /\ pc \in [Cameras -> Pcs]
    /\ answer \in [Cameras -> {"none", "ok", "wrong", "lost"}]
    /\ cam \in [Cameras -> Cam]

(* The first n pins of the ramp are high and the others low. *)
LitUpTo(c, n) == \A i \in 1 .. 3 : Ramp(kind[c])[i] \in cam[c].pins <=> i <= n

(* The states of a camera whose identification was accepted. *)
Accepted == {"init", "v4l2", "lookup", "create", "bound"}

StepInRange(c) ==
    /\ pc[c] = "dtb" => cam[c].step \in 1 .. Len(dtb_init(kind[c]))
    /\ pc[c] = "on"  => cam[c].step \in 1 .. Rise(kind[c]) + 2
    /\ pc[c] = "off" => cam[c].step \in 1 .. Len(power_off_set(kind[c]))
    /\ pc[c] = "id"  => cam[c].step = 1

PinsAtStep(c) ==
    /\ cam[c].pins \subseteq Wires(kind[c])
    /\ pc[c] = "dtb" => \A i \in 1 .. cam[c].step - 1 : dtb_init(kind[c])[i] \notin cam[c].pins
    /\ pc[c] \in {"register", "mclk"} => cam[c].pins = {}
    /\ pc[c] = "on"  => LitUpTo(c, cam[c].step - Rise(kind[c]))
    /\ pc[c] = "id"  => LitUpTo(c, 3)
    /\ pc[c] = "off" => LitUpTo(c, 4 - cam[c].step)
    /\ pc[c] \notin {"dtb", "torn"} =>
        \A i \in 1 .. 2 : Ramp(kind[c])[i + 1] \in cam[c].pins => Ramp(kind[c])[i] \in cam[c].pins

AnswerAtStep(c) ==
    /\ pc[c] \in {"dtb", "register", "mclk", "on", "id"} => answer[c] = "none"
    /\ pc[c] = "id" /\ kind[c] # "gmax3405" => cam[c].state = "on"
    /\ pc[c] \in Accepted =>
           /\ answer[c] = "ok" \/ (answer[c] = "wrong" /\ kind[c] # "gmax3405")
           /\ LitUpTo(c, IF answer[c] = "ok" THEN 3 ELSE 0)
           /\ kind[c] # "gmax3405" => (cam[c].state = "on" <=> answer[c] = "ok")
    /\ pc[c] \in Accepted \cup {"failed"} /\ answer[c] \in {"wrong", "lost"} /\ kind[c] \in Imx =>
           cam[c].pins = {} /\ cam[c].mclk = 0

PowerOf(c) == StepInRange(c) /\ PinsAtStep(c) /\ AnswerAtStep(c)
PowerInv   == CamTypes /\ \A c \in Cameras : PowerOf(c)

LEMMA ModeOfProbe == ASSUME modeType \in Modes PROVE (IF modeType \in {0, 1} THEN modeType ELSE 0) \in Modes
BY DEF Modes

LEMMA InitCamTypes == Init => CamTypes
<1> SUFFICES ASSUME Init PROVE CamTypes
  OBVIOUS
<1>1. [step |-> 1, mode |-> 0, pins |-> {}, mclk |-> 0, state |-> "off", xmsta |-> 1, seen |-> 0] \in Cam
  BY DEF Cam, Modes
<1>2. cam \in [Cameras -> Cam]
  BY <1>1 DEF Init
<1>3. kind \in [Cameras -> Kinds] /\ modeType \in Modes /\ writes \in Nat /\ probes \in [Cameras -> Nat]
  BY DEF Init, Modes
<1>4. pc \in [Cameras -> Pcs] /\ answer \in [Cameras -> {"none", "ok", "wrong", "lost"}]
  BY DEF Init, Pcs
<1> QED BY <1>2, <1>3, <1>4 DEF CamTypes

LEMMA InitPower == Init => PowerInv
<1> SUFFICES ASSUME Init, NEW c \in Cameras PROVE PowerOf(c)
  BY InitCamTypes DEF PowerInv
<1> USE DEF Init
<1>1. StepInRange(c) /\ AnswerAtStep(c)
  BY DEF StepInRange, AnswerAtStep, Accepted
<1>2. PinsAtStep(c)
  BY DEF PinsAtStep
<1> QED BY <1>1, <1>2 DEF PowerOf

LEMMA CamType ==
    ASSUME NEW x \in Cam
    PROVE /\ x.step \in Nat /\ x.mode \in Modes /\ x.pins \in SUBSET Pins /\ x.mclk \in {0, 1}
          /\ x.state \in {"on", "off"} /\ x.xmsta \in {0, 1} /\ x.seen \in Modes
BY DEF Cam

(* A step of one camera leaves the others where they were. *)
LEMMA OneCamera ==
    ASSUME PowerInv, NEW c \in Cameras, CamTypes', kind' = kind,
           \A o \in Cameras : o # c => /\ pc'[o] = pc[o] /\ cam'[o] = cam[o] /\ answer'[o] = answer[o],
           PowerOf(c)'
    PROVE  PowerInv'
<1> SUFFICES ASSUME NEW o \in Cameras, o # c PROVE PowerOf(o)'
  BY DEF PowerInv
<1>1. PowerOf(o) /\ UNCHANGED <<pc[o], cam[o], answer[o], kind>>
  BY DEF PowerInv
<1> QED BY <1>1 DEF PowerOf, StepInRange, PinsAtStep, AnswerAtStep, LitUpTo
(* A step that moves camera c alone, by what it makes of its record. *)
LEMMA Moved ==
    ASSUME CamTypes, NEW c \in Cameras, NEW where \in Pcs, Goto(c, where),
           NEW r \in Cam, cam' = [cam EXCEPT ![c] = r], UNCHANGED <<kind, modeType, writes, probes, answer>>
    PROVE  /\ CamTypes' /\ kind' = kind
           /\ pc'[c] = where /\ cam'[c] = r /\ answer'[c] = answer[c]
           /\ \A o \in Cameras : o # c => pc'[o] = pc[o] /\ cam'[o] = cam[o] /\ answer'[o] = answer[o]
BY DEF CamTypes, Goto

(* dtb_init drives its pins low; at the end all are. *)
LEMMA DtbKeeps == ASSUME PowerInv, NEW c \in Cameras, DtbStep(c) PROVE PowerInv'
<1> DEFINE k == kind[c]
           s == cam[c].step
<1>1. /\ CamTypes /\ PowerOf(c) /\ k \in Kinds /\ pc[c] = "dtb" /\ s \in 1 .. Len(dtb_init(k)) /\ cam[c] \in Cam
      /\ answer[c] = "none" /\ UNCHANGED <<kind, modeType, writes, probes, answer>>
  BY DEF PowerInv, PowerOf, StepInRange, AnswerAtStep, CamTypes, DtbStep, Rest
<1>2. CASE Goto(c, "torn") /\ UNCHANGED cam
  <2>1. CamTypes' /\ PowerOf(c)'
    BY <1>1, <1>2 DEF CamTypes, Goto, Pcs, PowerOf, StepInRange, PinsAtStep, AnswerAtStep, Accepted
  <2> QED BY <1>1, <1>2, <2>1, OneCamera DEF Goto, CamTypes
<1>3. CASE /\ cam' = [cam EXCEPT ![c].pins = Drive(c, <<dtb_init(k)[s], 0>>), ![c].xmsta = 1,
                                 ![c].step = IF @ = Len(dtb_init(k)) THEN 1 ELSE @ + 1]
           /\ Goto(c, IF s = Len(dtb_init(k)) THEN "register" ELSE "dtb")
  <2> DEFINE r == [cam[c] EXCEPT !.pins = @ \ {dtb_init(k)[s]}, !.xmsta = 1,
                                 !.step = IF @ = Len(dtb_init(k)) THEN 1 ELSE @ + 1]
             where == IF s = Len(dtb_init(k)) THEN "register" ELSE "dtb"
  <2>0. Drive(c, <<dtb_init(k)[s], 0>>) = cam[c].pins \ {dtb_init(k)[s]}
    BY DEF Drive
  <2>1. cam' = [cam EXCEPT ![c] = r]
    BY <1>1, <1>3, <2>0 DEF CamTypes
  <2>2. /\ r \in Cam /\ where \in Pcs /\ Goto(c, where)
        /\ r.pins = cam[c].pins \ {dtb_init(k)[s]}
        /\ r.step = IF s = Len(dtb_init(k)) THEN 1 ELSE s + 1
    <3>1. (IF s = Len(dtb_init(k)) THEN 1 ELSE s + 1) \in Nat /\ cam[c].pins \ {dtb_init(k)[s]} \in SUBSET Pins
      BY <1>1, Boards, CamType
    <3> QED BY <1>1, <1>3, <3>1 DEF Cam, Pcs
  <2> HIDE DEF r, where
  <2>3. /\ CamTypes' /\ kind' = kind /\ pc'[c] = where /\ cam'[c] = r /\ answer'[c] = answer[c]
        /\ \A o \in Cameras : o # c => pc'[o] = pc[o] /\ cam'[o] = cam[o] /\ answer'[o] = answer[o]
    BY <1>1, <2>1, <2>2, Moved
  <2>4. (\A i \in 1 .. s : dtb_init(k)[i] \notin r.pins) /\ r.pins \subseteq Wires(k)
    BY <1>1, <2>2, Boards DEF PowerOf, PinsAtStep
  <2>5. s = Len(dtb_init(k)) => r.pins = {}
    BY <1>1, <2>4, Boards DEF Wires
  <2>6. StepInRange(c)' /\ AnswerAtStep(c)'
    BY <1>1, <2>2, <2>3, Boards DEF where, StepInRange, AnswerAtStep, Accepted
  <2>7. PinsAtStep(c)'
    BY <1>1, <2>2, <2>3, <2>4, <2>5, Boards DEF where, PinsAtStep
  <2> QED BY <2>3, <2>6, <2>7, OneCamera DEF PowerOf
<1> QED BY <1>1, <1>2, <1>3 DEF DtbStep
(* Up: one pin of the ramp a step, once it has begun. *)
LEMMA UpKeeps == ASSUME PowerInv, NEW c \in Cameras, PowerOnStep(c) PROVE PowerInv'
<1> DEFINE k == kind[c]
           s == cam[c].step
           ups == power_on_set(k, cam[c].mode)
           last == s = Len(ups)
           r == [cam[c] EXCEPT !.pins = Drive(c, ups[s]), !.step = IF last THEN 1 ELSE @ + 1,
                               !.state = IF last /\ k # "gmax3405" THEN "on" ELSE @]
           where == IF last THEN "id" ELSE "on"
<1>1. /\ CamTypes /\ PowerOf(c) /\ k \in Kinds /\ pc[c] = "on" /\ s \in 1 .. Rise(k) + 2 /\ cam[c] \in Cam
      /\ answer[c] = "none" /\ UNCHANGED <<kind, modeType, writes, probes, answer>>
      /\ Goto(c, where)
  BY DEF PowerInv, PowerOf, StepInRange, AnswerAtStep, CamTypes, PowerOnStep, Rest
<1>2. cam' = [cam EXCEPT ![c] = r]
  BY <1>1 DEF PowerOnStep, CamTypes
<1>3. Len(ups) = Rise(k) + 2 /\ Rise(k) \in {1, 2, 5}
  BY <1>1, UpMoves, Boards
<1>4. Drive(c, ups[s]) \subseteq Wires(k) /\ \A i \in 1 .. 3 : Ramp(k)[i] \in Drive(c, ups[s]) <=> i <= s + 1 - Rise(k)
  <2>1. cam[c].pins \subseteq Wires(k) /\ \A i \in 1 .. 3 : Ramp(k)[i] \in cam[c].pins <=> i <= s - Rise(k)
    BY <1>1 DEF PowerOf, PinsAtStep, LitUpTo
  <2>2. CASE s < Rise(k)
    <3>1. ups[s][1] \in Wires(k) /\ (ups[s][2] = 1 => ups[s][1] = "xmaster")
      BY <1>1, <1>3, <2>2, UpMoves
    <3>2. Drive(c, ups[s]) = (IF ups[s][2] = 1 THEN cam[c].pins \cup {ups[s][1]} ELSE cam[c].pins \ {ups[s][1]})
      BY DEF Drive
    <3>3. \A i \in 1 .. 3 : Ramp(k)[i] \notin Drive(c, ups[s])
      BY <1>1, <1>3, <2>1, <2>2, <3>1, <3>2, Boards
    <3>4. \A i \in 1 .. 3 : ~(i <= s + 1 - Rise(k))
      BY <1>1, <1>3, <2>2
    <3>5. Drive(c, ups[s]) \subseteq Wires(k)
      BY <2>1, <3>1, <3>2
    <3> QED BY <3>3, <3>4, <3>5
  <2>3. CASE s >= Rise(k)
    <3>1. PICK j \in 1 .. 3 : s = Rise(k) + j - 1
      BY <1>1, <1>3, <2>3
    <3>2. ups[s] = <<Ramp(k)[j], 1>>
      BY <1>1, <3>1, UpMoves
    <3>3. Drive(c, ups[s]) = cam[c].pins \cup {Ramp(k)[j]}
      BY <3>2 DEF Drive
    <3>4. Drive(c, ups[s]) \subseteq Wires(k)
      BY <1>1, <2>1, <3>3, Boards
    <3>5. \A i \in 1 .. 3 : Ramp(k)[i] \in Drive(c, ups[s]) <=> i <= j - 1 \/ i = j
      BY <1>1, <1>3, <2>1, <3>1, <3>3, Boards
    <3> QED BY <1>3, <3>1, <3>4, <3>5
  <2> QED BY <1>1, <1>3, <2>2, <2>3
<1>5. /\ r \in Cam /\ where \in Pcs
      /\ r.pins = Drive(c, ups[s]) /\ r.step = (IF last THEN 1 ELSE s + 1)
      /\ last /\ k # "gmax3405" => r.state = "on"
  <2>1. (IF last THEN 1 ELSE s + 1) \in Nat /\ Drive(c, ups[s]) \in SUBSET Pins
    BY <1>1, <1>3, <1>4, Boards
  <2> QED BY <1>1, <2>1 DEF Cam, Pcs
<1> HIDE DEF r, where
<1>6. /\ CamTypes' /\ kind' = kind /\ pc'[c] = where /\ cam'[c] = r /\ answer'[c] = answer[c]
      /\ \A o \in Cameras : o # c => pc'[o] = pc[o] /\ cam'[o] = cam[o] /\ answer'[o] = answer[o]
  BY <1>1, <1>2, <1>5, Moved
<1>7. StepInRange(c)' /\ AnswerAtStep(c)'
  BY <1>1, <1>3, <1>5, <1>6 DEF where, StepInRange, AnswerAtStep, Accepted
<1>8. PinsAtStep(c)'
  BY <1>1, <1>3, <1>4, <1>5, <1>6 DEF where, PinsAtStep, LitUpTo
<1> QED BY <1>6, <1>7, <1>8, OneCamera DEF PowerOf
(* Down: the pins go one by one, and what follows depends on the answer alone. *)
LEMMA DownKeeps == ASSUME PowerInv, NEW c \in Cameras, PowerOffStep(c) PROVE PowerInv'
<1> DEFINE k == kind[c]
           s == cam[c].step
           down == power_off_set(k)
           last == s = Len(down)
           r == [cam[c] EXCEPT !.pins = Drive(c, down[s]), !.step = IF last THEN 1 ELSE @ + 1,
                               !.mclk = IF last /\ k # "gmax3405" THEN 0 ELSE @,
                               !.state = IF last /\ k # "gmax3405" THEN "off" ELSE @]
           where == IF last THEN AfterOff(c) ELSE "off"
<1>1. /\ CamTypes /\ PowerOf(c) /\ k \in Kinds /\ pc[c] = "off" /\ s \in 1 .. Len(down) /\ cam[c] \in Cam
      /\ UNCHANGED <<kind, modeType, writes, probes, answer>> /\ Goto(c, where)
  BY DEF PowerInv, PowerOf, StepInRange, CamTypes, PowerOffStep, Rest
<1>2. cam' = [cam EXCEPT ![c] = r]
  BY <1>1 DEF PowerOffStep, CamTypes
<1>3. Len(down) = (IF k \in Imx THEN 4 ELSE 3) /\ answer[c] \in {"none", "ok", "wrong", "lost"}
  BY <1>1, DownMoves DEF CamTypes
<1>4. /\ cam[c].pins \subseteq Wires(k) /\ (\A i \in 1 .. 3 : Ramp(k)[i] \in cam[c].pins <=> i <= 4 - s)
  BY <1>1 DEF PowerOf, PinsAtStep, LitUpTo
<1>5. down[s][1] \in Wires(k) /\ down[s][2] = 0 /\ (s < 4 => down[s][1] = Ramp(k)[4 - s]) /\ (s = 4 => down[s][1] = "xmaster")
  <2>1. CASE s < 4
    <3>1. s \in 1 .. 3 /\ 4 - s \in 1 .. 3
      BY <1>1, <1>3, <2>1
    <3>2. down[s] = <<Ramp(k)[4 - s], 0>> /\ Ramp(k)[4 - s] \in Wires(k)
      BY <1>1, <3>1, DownMoves, Boards
    <3> QED BY <2>1, <3>2
  <2>2. CASE s = 4
    <3>1. k \in Imx /\ down[s] = <<"xmaster", 0>>
      BY <1>1, <1>3, <2>2, DownMoves
    <3> QED BY <1>1, <2>2, <3>1, Boards
  <2> QED BY <1>1, <1>3, <2>1, <2>2
<1>6. Drive(c, down[s]) = cam[c].pins \ {down[s][1]}
  BY <1>5 DEF Drive
<1>7. Drive(c, down[s]) \subseteq Wires(k) /\ \A i \in 1 .. 3 : Ramp(k)[i] \in Drive(c, down[s]) <=> i <= 3 - s
  <2>1. CASE s < 4
    <3>1. 4 - s \in 1 .. 3 /\ down[s][1] = Ramp(k)[4 - s]
      BY <1>1, <1>3, <1>5, <2>1
    <3>2. \A i \in 1 .. 3 : Ramp(k)[i] \in Drive(c, down[s]) <=> i <= 4 - s /\ i # 4 - s
      BY <1>1, <1>4, <1>6, <3>1, Boards
    <3> QED BY <1>1, <1>3, <1>4, <1>6, <3>2
  <2>2. CASE s = 4
    BY <1>1, <1>4, <1>5, <1>6, <2>2, Boards
  <2> QED BY <1>1, <1>3, <2>1, <2>2
<1>8. last /\ k \in Imx => Drive(c, down[s]) = {}
  <2> SUFFICES ASSUME last, k \in Imx, NEW w \in Drive(c, down[s]) PROVE FALSE
    OBVIOUS
  <2>1. w \in Wires(k) /\ w # "xmaster" /\ \A i \in 1 .. 3 : w # Ramp(k)[i]
    BY <1>3, <1>5, <1>6, <1>7
  <2> QED BY <1>1, <2>1, Boards
<1>9. /\ r \in Cam /\ where \in Pcs
      /\ r.pins = Drive(c, down[s]) /\ r.step = (IF last THEN 1 ELSE s + 1)
      /\ last /\ k # "gmax3405" => r.mclk = 0 /\ r.state = "off"
  <2>1. (IF last THEN 1 ELSE s + 1) \in Nat /\ Drive(c, down[s]) \in SUBSET Pins
    BY <1>1, <1>3, <1>7, Boards
  <2>2. where \in Pcs
    BY DEF Pcs, AfterOff
  <2> QED BY <1>1, <2>1, <2>2 DEF Cam
<1>10. last => /\ where \in {"rmdir", "init", "failed"}
               /\ where = "init" => answer[c] = "wrong" /\ k # "gmax3405"
  BY DEF AfterOff
<1>11. "gmax3405" \notin Imx
  BY DEF Imx
<1> HIDE DEF r
<1>12. /\ CamTypes' /\ kind' = kind /\ pc'[c] = where /\ cam'[c] = r /\ answer'[c] = answer[c]
       /\ \A o \in Cameras : o # c => pc'[o] = pc[o] /\ cam'[o] = cam[o] /\ answer'[o] = answer[o]
  BY <1>1, <1>2, <1>9, Moved
<1>13. CASE last
  <2> HIDE DEF where
  <2>1. \A i \in 1 .. 3 : Ramp(k)[i] \notin r.pins
    BY <1>3, <1>7, <1>9, <1>13
  <2>2. StepInRange(c)' /\ PinsAtStep(c)'
    BY <1>9, <1>10, <1>12, <1>13, <1>7, <2>1 DEF StepInRange, PinsAtStep
  <2>3. AnswerAtStep(c)'
    BY <1>8, <1>9, <1>10, <1>11, <1>12, <1>13, <2>1 DEF AnswerAtStep, Accepted, LitUpTo
  <2> QED BY <1>12, <2>2, <2>3, OneCamera DEF PowerOf
<1>14. CASE ~last
  <2>1. StepInRange(c)' /\ AnswerAtStep(c)'
    BY <1>1, <1>3, <1>9, <1>12, <1>14 DEF StepInRange, AnswerAtStep, Accepted
  <2>2. PinsAtStep(c)'
    BY <1>1, <1>3, <1>7, <1>9, <1>12, <1>14 DEF PinsAtStep, LitUpTo
  <2> QED BY <1>12, <2>1, <2>2, OneCamera DEF PowerOf
<1> QED BY <1>13, <1>14

(* Steps that leave the pins alone, out of what is behind the ramps. *)
LEMMA StillKeeps ==
    ASSUME PowerInv, NEW c \in Cameras, NEW where \in Pcs, Goto(c, where),
           NEW r \in Cam, cam' = [cam EXCEPT ![c] = r], UNCHANGED <<kind, modeType, writes, probes, answer>>,
           r.pins = cam[c].pins, r.mclk = cam[c].mclk, r.state = cam[c].state,
           pc[c] \notin {"dtb", "torn"},
           where \notin {"dtb", "register", "mclk", "on", "id", "off"},
           where \in Accepted \cup {"failed"} => pc[c] \in Accepted
    PROVE  PowerInv'
<1>1. /\ CamTypes' /\ kind' = kind /\ pc'[c] = where /\ cam'[c] = r /\ answer'[c] = answer[c]
      /\ \A o \in Cameras : o # c => pc'[o] = pc[o] /\ cam'[o] = cam[o] /\ answer'[o] = answer[o]
  BY Moved DEF PowerInv
<1>2. PowerOf(c)
  BY DEF PowerInv
<1>3. StepInRange(c)' /\ PinsAtStep(c)'
  BY <1>1, <1>2 DEF PowerOf, StepInRange, PinsAtStep
<1>4. AnswerAtStep(c)'
  BY <1>1, <1>2 DEF PowerOf, AnswerAtStep, LitUpTo, Accepted
<1> QED BY <1>1, <1>3, <1>4, OneCamera DEF PowerOf
(* The two steps before the ramp, which leave the pins low. *)
LEMMA DarkKeeps ==
    ASSUME PowerInv, NEW c \in Cameras, NEW where \in {"mclk", "failed", "on"}, Goto(c, where),
           NEW r \in Cam, cam' = [cam EXCEPT ![c] = r], UNCHANGED <<kind, modeType, writes, probes, answer>>,
           pc[c] \in {"register", "mclk"}, r.pins = cam[c].pins, where = "on" => r.step = 1
    PROVE  PowerInv'
<1>1. where \in Pcs /\ CamTypes /\ PowerOf(c) /\ kind[c] \in Kinds /\ cam[c].pins = {} /\ answer[c] = "none"
  BY DEF PowerInv, CamTypes, PowerOf, PinsAtStep, AnswerAtStep, Pcs
<1>2. /\ CamTypes' /\ kind' = kind /\ pc'[c] = where /\ cam'[c] = r /\ answer'[c] = answer[c]
      /\ \A o \in Cameras : o # c => pc'[o] = pc[o] /\ cam'[o] = cam[o] /\ answer'[o] = answer[o]
  BY <1>1, Moved
<1>3. StepInRange(c)' /\ AnswerAtStep(c)'
  BY <1>1, <1>2, Boards DEF StepInRange, AnswerAtStep, Accepted
<1>4. PinsAtStep(c)'
  BY <1>1, <1>2, Boards DEF PinsAtStep, LitUpTo
<1> QED BY <1>2, <1>3, <1>4, OneCamera DEF PowerOf

LEMMA PowerNext == ASSUME PowerInv, [Next]_vars PROVE PowerInv'
<1> USE DEF Pcs
<1>1. CASE UNCHANGED vars \/ WriteModeType
  <2>1. UNCHANGED <<kind, pc, answer, cam, probes>> /\ modeType' \in Modes /\ writes' \in Nat
    BY <1>1 DEF vars, debugfs, WriteModeType, PowerInv, CamTypes
  <2>2. CamTypes'
    BY <2>1 DEF PowerInv, CamTypes
  <2>3. ASSUME NEW c \in Cameras PROVE PowerOf(c)'
    BY <2>1 DEF PowerInv, PowerOf, StepInRange, PinsAtStep, AnswerAtStep, LitUpTo
  <2> QED BY <2>2, <2>3 DEF PowerInv
<1>2. ASSUME NEW c \in Cameras, Probe(c) PROVE PowerInv'
  <2> DEFINE m == IF modeType \in {0, 1} THEN modeType ELSE 0
             r == [cam[c] EXCEPT !.mode = m, !.step = 1, !.mclk = 0, !.seen = 0]
  <2>1. /\ CamTypes /\ PowerOf(c) /\ cam[c] \in Cam /\ kind[c] \in Kinds /\ m \in Modes /\ 0 \in Modes
        /\ UNCHANGED <<kind, modeType, writes>>
    BY <1>2, ModeOfProbe DEF PowerInv, CamTypes, Modes, Probe
  <2>2. cam' = [cam EXCEPT ![c] = r]
    BY <1>2, <2>1 DEF Probe, CamTypes
  <2> HIDE DEF m
  <2>3. r \in Cam /\ r.pins = cam[c].pins /\ r.step = 1
    BY <2>1 DEF Cam
  <2> HIDE DEF r
  <2>4. pc' = [pc EXCEPT ![c] = "dtb"] /\ answer' = [answer EXCEPT ![c] = "none"] /\ probes' = [probes EXCEPT ![c] = @ + 1]
    BY <1>2 DEF Probe, Goto
  <2>5. CamTypes'
    BY <2>1, <2>2, <2>3, <2>4 DEF CamTypes
  <2>6. /\ pc'[c] = "dtb" /\ cam'[c] = r /\ answer'[c] = "none"
        /\ \A o \in Cameras : o # c => pc'[o] = pc[o] /\ cam'[o] = cam[o] /\ answer'[o] = answer[o]
    BY <2>1, <2>2, <2>4 DEF CamTypes
  <2>7. PowerOf(c)'
    <3>0. 1 \in 1 .. Len(dtb_init(kind[c]))
      <4>1. Len(dtb_init(kind[c])) \in {3, 4}
        BY <2>1, Boards, Zenon
      <4> QED BY <4>1
    <3>1. StepInRange(c)' /\ AnswerAtStep(c)'
      <4>1. StepInRange(c)'
        BY <2>1, <2>3, <2>6, <3>0 DEF StepInRange
      <4> QED BY <2>6, <4>1 DEF AnswerAtStep, Accepted
    <3>2. PinsAtStep(c)'
      BY <2>1, <2>3, <2>6 DEF PowerOf, PinsAtStep
    <3> QED BY <3>1, <3>2 DEF PowerOf
  <2> QED BY <2>1, <2>5, <2>6, <2>7, OneCamera
<1>3. ASSUME NEW c \in Cameras, Register(c) \/ MclkEnable(c) PROVE PowerInv'
  <2>1. CamTypes /\ cam[c] \in Cam /\ UNCHANGED <<kind, modeType, writes, probes, answer>> /\ pc[c] \in {"register", "mclk"}
    BY <1>3 DEF PowerInv, CamTypes, Register, MclkEnable, Rest
  <2>2. CASE Register(c)
    <3> DEFINE r == [cam[c] EXCEPT !.state = "off"]
    <3>1. r \in Cam /\ r.pins = cam[c].pins
      BY <2>1 DEF Cam
    <3>2. cam' = [cam EXCEPT ![c] = r] /\ (Goto(c, "mclk") \/ Goto(c, "failed"))
      BY <2>1, <2>2 DEF CamTypes, Register
    <3> HIDE DEF r
    <3> QED BY <2>1, <3>1, <3>2, DarkKeeps
  <2>3. CASE MclkEnable(c)
    <3> DEFINE r == [cam[c] EXCEPT !.mclk = 1, !.step = 1]
    <3>1. r \in Cam /\ r.pins = cam[c].pins /\ r.step = 1
      BY <2>1 DEF Cam
    <3>2. \/ cam' = [cam EXCEPT ![c] = r] /\ Goto(c, "on")
          \/ cam' = [cam EXCEPT ![c] = cam[c]] /\ Goto(c, "failed")
      BY <2>1, <2>3 DEF CamTypes, MclkEnable
    <3> HIDE DEF r
    <3> QED BY <2>1, <3>1, <3>2, DarkKeeps
  <2> QED BY <1>3, <2>2, <2>3
<1>4. ASSUME NEW c \in Cameras, ReadId(c) PROVE PowerInv'
  <2>1. CamTypes /\ PowerOf(c) /\ kind[c] \in Kinds /\ pc[c] = "id" /\ UNCHANGED <<cam, kind, modeType, writes, probes>>
    BY <1>4 DEF PowerInv, CamTypes, ReadId
  <2>2. PICK a \in {"ok", "wrong", "lost"} :
            /\ answer' = [answer EXCEPT ![c] = a]
            /\ Goto(c, CASE a = "ok" -> "init"
                         [] a = "lost" /\ kind[c] = "sc535" -> "failed"
                         [] OTHER -> "off")
    BY <1>4 DEF ReadId
  <2>3. PICK where \in {"init", "failed", "off"} :
            /\ Goto(c, where) /\ (where = "init" <=> a = "ok")
            /\ where = "failed" => kind[c] = "sc535"
    BY <2>2
  <2>4. /\ CamTypes' /\ pc'[c] = where /\ answer'[c] = a
        /\ \A o \in Cameras : o # c => pc'[o] = pc[o] /\ answer'[o] = answer[o]
    BY <2>1, <2>2, <2>3 DEF Goto, CamTypes
  <2>5. StepInRange(c)'
    BY <2>1, <2>3, <2>4, DownMoves DEF PowerOf, StepInRange
  <2>6. PinsAtStep(c)'
    BY <2>1, <2>3, <2>4 DEF PowerOf, StepInRange, PinsAtStep, LitUpTo
  <2>7. AnswerAtStep(c)'
    BY <2>1, <2>3, <2>4 DEF PowerOf, PinsAtStep, AnswerAtStep, LitUpTo, Accepted, Imx
  <2> QED BY <2>1, <2>4, <2>5, <2>6, <2>7, OneCamera DEF PowerOf
<1>5. ASSUME NEW c \in Cameras, InitParam(c) \/ RegisterSubdev(c) \/ DebugfsLookup(c) \/ DebugfsCreate(c)
                                  \/ DebugfsRemove(c)
      PROVE  PowerInv'
  <2>1. CamTypes /\ cam[c] \in Cam /\ UNCHANGED <<kind, modeType, writes, probes, answer>>
        /\ [cam[c] EXCEPT !.seen = modeType, !.xmsta = IF answer[c] = "ok" THEN Xmsta(kind[c], modeType) ELSE @] \in Cam
    BY <1>5 DEF PowerInv, CamTypes, InitParam, RegisterSubdev, DebugfsLookup, DebugfsCreate, DebugfsRemove, Rest, Cam, Xmsta
  <2>2. PICK r \in Cam : cam' = [cam EXCEPT ![c] = r] /\ r.pins = cam[c].pins /\ r.mclk = cam[c].mclk /\ r.state = cam[c].state
    <3>1. CASE InitParam(c)
      <4>1. cam' = [cam EXCEPT ![c] = [cam[c] EXCEPT !.seen = modeType,
                        !.xmsta = IF answer[c] = "ok" THEN Xmsta(kind[c], modeType) ELSE @]]
        BY <2>1, <3>1 DEF InitParam, CamTypes
      <4> QED BY <2>1, <4>1 DEF Cam
    <3>2. CASE ~InitParam(c)
      <4>1. cam' = [cam EXCEPT ![c] = cam[c]]
        BY <1>5, <2>1, <3>2 DEF RegisterSubdev, DebugfsLookup, DebugfsCreate, DebugfsRemove, CamTypes
      <4> QED BY <2>1, <4>1
    <3> QED BY <3>1, <3>2
  <2>3. PICK where \in {"v4l2", "oops", "lookup", "failed", "create", "bound", "unregister"} :
            /\ Goto(c, where) /\ pc[c] \notin {"dtb", "torn"}
            /\ where \in Accepted \cup {"failed"} => pc[c] \in Accepted
    BY <1>5 DEF InitParam, RegisterSubdev, DebugfsLookup, DebugfsCreate, DebugfsRemove, Accepted
  <2> QED BY <2>1, <2>2, <2>3, StillKeeps
<1>6. ASSUME NEW c \in Cameras, Unregister(c) PROVE PowerInv'
  <2>1. CamTypes /\ PowerOf(c) /\ cam[c] \in Cam /\ kind[c] \in Kinds /\ pc[c] = "unregister" /\ 0 \in Modes
        /\ UNCHANGED <<kind, modeType, writes, probes>>
    BY <1>6 DEF PowerInv, CamTypes, Unregister, Modes
  <2> DEFINE r == [cam[c] EXCEPT !.seen = 0, !.mode = 0]
  <2>2. r \in Cam /\ r.pins = cam[c].pins
    BY <2>1 DEF Cam
  <2>3. cam' = [cam EXCEPT ![c] = r]
    BY <1>6, <2>1 DEF Unregister, CamTypes
  <2> HIDE DEF r
  <2>4. /\ CamTypes' /\ kind' = kind /\ pc'[c] = "unbound" /\ cam'[c] = r
        /\ \A o \in Cameras : o # c => pc'[o] = pc[o] /\ cam'[o] = cam[o] /\ answer'[o] = answer[o]
    BY <1>6, <2>1, <2>2, <2>3 DEF Unregister, Goto, CamTypes
  <2>5. PowerOf(c)'
    BY <2>1, <2>2, <2>4 DEF PowerOf, StepInRange, PinsAtStep, AnswerAtStep, Accepted
  <2> QED BY <2>4, <2>5, OneCamera
<1>7. ASSUME NEW c \in Cameras, Remove(c) PROVE PowerInv'
  <2>1. CamTypes /\ PowerOf(c) /\ cam[c] \in Cam /\ kind[c] \in Kinds /\ pc[c] = "bound"
        /\ UNCHANGED <<kind, modeType, writes, probes, answer>>
    BY <1>7 DEF PowerInv, CamTypes, Remove, Rest
  <2>2. CASE kind[c] # "gmax3405"
    <3>1. Goto(c, "rmdir") /\ cam' = [cam EXCEPT ![c] = cam[c]]
      BY <1>7, <2>1, <2>2 DEF Remove, CamTypes
    <3> QED BY <2>1, <3>1, StillKeeps DEF Accepted
  <2>3. CASE kind[c] = "gmax3405"
    <3> DEFINE r == [cam[c] EXCEPT !.step = 1]
    <3>1. r \in Cam /\ r.pins = cam[c].pins /\ r.step = 1
      BY <2>1 DEF Cam
    <3>2. Goto(c, "off") /\ cam' = [cam EXCEPT ![c] = r]
      BY <1>7, <2>1, <2>3 DEF Remove, CamTypes
    <3> HIDE DEF r
    <3>3. /\ CamTypes' /\ kind' = kind /\ pc'[c] = "off" /\ cam'[c] = r /\ answer'[c] = answer[c]
          /\ \A o \in Cameras : o # c => pc'[o] = pc[o] /\ cam'[o] = cam[o] /\ answer'[o] = answer[o]
      BY <2>1, <3>1, <3>2, Moved
    <3>4. LitUpTo(c, 3)
      BY <2>1, <2>3 DEF PowerOf, AnswerAtStep, Accepted
    <3>5. StepInRange(c)' /\ AnswerAtStep(c)'
      BY <2>1, <3>1, <3>3, DownMoves DEF StepInRange, AnswerAtStep, Accepted
    <3>6. PinsAtStep(c)'
      BY <2>1, <3>1, <3>3, <3>4 DEF PowerOf, PinsAtStep, LitUpTo
    <3> QED BY <3>3, <3>5, <3>6, OneCamera DEF PowerOf
  <2> QED BY <2>2, <2>3
<1> QED
  BY <1>1, <1>2, <1>3, <1>4, <1>5, <1>6, <1>7, DtbKeeps, UpKeeps, DownKeeps
  DEF Next, nv_sensor_probe, nv_sensor_remove

(* Along every path of probe and removal, failures included, supply, clock and reset *)
(* rise in the order of the sensor and fall in the opposite one.                     *)
THEOREM RampKeepsOrder == Spec => []PowerInOrder
<1>1. PowerInv => PowerInOrder
  BY DEF PowerInv, PowerOf, PinsAtStep, PowerInOrder
<1> QED BY <1>1, InitPower, PowerNext, PTL DEF Spec

(* A bound camera is lit exactly if its sensor identified itself. *)
THEOREM PowerTells == Spec => []PowerFollowsAnswer
<1>1. PowerInv => PowerFollowsAnswer
  <2> SUFFICES ASSUME PowerInv, NEW c \in Cameras
               PROVE /\ pc[c] = "bound" => /\ Lit(c) <=> answer[c] = "ok"
                                           /\ kind[c] # "gmax3405" => (cam[c].state = "on" <=> Lit(c))
                     /\ pc[c] = "failed" /\ answer[c] \in {"wrong", "lost"} /\ kind[c] \in Imx =>
                            cam[c].pins = {} /\ cam[c].mclk = 0
    BY DEF PowerFollowsAnswer
  <2>1. AnswerAtStep(c)
    BY DEF PowerInv, PowerOf
  <2>2. pc[c] = "bound" => (Lit(c) <=> answer[c] = "ok")
    BY <2>1 DEF AnswerAtStep, Accepted, LitUpTo, Lit
  <2> QED BY <2>1, <2>2 DEF AnswerAtStep, Accepted
<1> QED BY <1>1, InitPower, PowerNext, PTL DEF Spec

(* Whatever fails, the variables of the probes keep their types. *)
THEOREM TypeCorrect == Spec => []TypeOK
<1>1. DirInv /\ PowerInv => TypeOK
  BY DEF DirInv, DirTypes, PowerInv, CamTypes, TypeOK
<1> QED BY <1>1, InitDirInv, NextKeeps, InitPower, PowerNext, PTL DEF Spec

(***************************************************************************)
(* Imx56x.  Types: a register holds what its kind of value is; of the      *)
(* mixed record of registers it is enough to know its fields and settings. *)
(***************************************************************************)
AtCell  == {"xhs", "fill", "standby", "rows"}
RowRegs == <<"HVMODE", "VMAX", "HMAX", "Gate", "HEIGHT", "ADBIT">>
SetRegs == {"REVERSE"} \cup Levels
TableRegs == {"HVMODE", "VMAX", "HMAX", "Gate", "ADBIT"} \cup Levels
Gates   == Int \X Int \X Int
Priv    == [bit : Bits, binning : Binnings, height : Int, gate : Gates, hmax : Int, vmax : Int, period : Int]
Cells   == [VMAX : Int, HMAX : Int, HEIGHT : Int]

Plain  == [pc : {"xhs", "fill", "standby", "wake"}, cam : Sensors]
AtRow  == [pc : {"rows"}, cam : Sensors, row : 1 .. 6]
Black  == [pc : {"black"}, cam : Sensors, byte : {1, 2}]
Flip   == [pc : {"flip"}, cam : Sensors, good : BOOLEAN, reg : {"REVERSE"}, type : Flips, value : [Flips -> {0, 1}]]
Level  == [pc : {"level"}, cam : Sensors, good : BOOLEAN, reg : Levels, val : Int]
ImxCall == {Idle} \cup Plain \cup AtRow \cup Black \cup Flip \cup Level

RegsType ==
    /\ regs = [c \in Sensors |-> regs[c]]
    /\ \A c \in Sensors :
          /\ regs[c] = [r \in RegNames |-> regs[c][r]]
          /\ regs[c].REVERSE \in [Flips -> {0, 1}]
          /\ regs[c].GAIN \in [1 .. 2 -> Nat] /\ regs[c].BLKLEVEL \in [1 .. 2 -> Nat]

ImxTypes ==
    /\ model \in [Sensors -> Models] /\ up \in [Sensors -> {"off", "up", "oops"}]
    /\ call \in [Callers -> ImxCall]
    /\ asked \in [Sensors -> [Flips \cup Levels -> Int]]
    /\ priv \in [Sensors -> Priv]
    /\ column \in [Models -> [Bits -> Cells]]
    /\ xhs \in [Sensors -> Int]
    /\ RegsType

(* The tables of the two files. *)
LEMMA ParmIsGate ==
    ASSUME NEW m \in Models, NEW bit \in Bits, NEW binning \in Binnings
    PROVE  /\ SetParm(m, bit, binning).gate \in Gates
           /\ SetParm(m, bit, binning).gate # <<0, 0, 0>>
           /\ SetParm(m, bit, binning).hmax \in Int
BY DEF SetParm, imx565SetParm, imx566SetParm, Parm, Models, Bits, Binnings, Gates

LEMMA RowNames ==
    ASSUME NEW m \in Models
    PROVE  Len(Rows(m)) = 6 /\ \A i \in 1 .. 6 : Rows(m)[i].reg = RowRegs[i]
BY DEF Rows, sensor_imx565_bit, sensor_imx566_bit, RowRegs, Models

LEMMA TableRows ==
    ASSUME NEW m \in Models, NEW type \in {0, 1}
    PROVE  LET t == mode_table(m, type) IN
           /\ Len(t) \in Nat
           /\ \A i \in 1 .. Len(t) : t[i][1] \in TableRegs /\ (t[i][1] \in Levels => t[i][2] \in [1 .. 2 -> Nat])
           /\ \A i, j \in 1 .. Len(t) : t[i][1] = t[j][1] => i = j
<1>0. <<15, 0>> \in [1 .. 2 -> Nat] /\ <<0, 0>> \in [1 .. 2 -> Nat]
  OBVIOUS
<1>1. CASE m = "imx565" /\ type = 0
  BY <1>0, <1>1 DEF mode_table, imx565_8bit_4line_master_init, TableRegs, Levels
<1>2. CASE m = "imx565" /\ type = 1
  BY <1>2 DEF mode_table, Null
<1>3. CASE m = "imx566" /\ type = 0
  BY <1>0, <1>3 DEF mode_table, imx566_8bit_4line_mono_master_init, TableRegs, Levels
<1>4. CASE m = "imx566" /\ type = 1
  BY <1>4 DEF mode_table, imx566_10bit_4line_color_master_init, TableRegs, Levels
<1> QED BY <1>1, <1>2, <1>3, <1>4 DEF Models

(* A table that is written in part or in whole leaves the flips alone, and *)
(* levels are levels.                                                      *)
LEMMA TableKeeps ==
    ASSUME ImxTypes, NEW c \in Sensors, NEW m \in Models, NEW type \in {0, 1},
           NEW n \in 0 .. Len(mode_table(m, type))
    PROVE  LET w == sensor_write_table(c, mode_table(m, type), n) IN
           /\ w = [r \in RegNames |-> w[r]]
           /\ \A r \in RegNames \ TableRegs : w[r] = regs[c][r]
           /\ \A l \in Levels : w[l] \in [1 .. 2 -> Nat]
<1> DEFINE t == mode_table(m, type)
           w == sensor_write_table(c, t, n)
<1>1. /\ Len(t) \in Nat
      /\ \A i \in 1 .. Len(t) : t[i][1] \in TableRegs /\ (t[i][1] \in Levels => t[i][2] \in [1 .. 2 -> Nat])
      /\ \A i, j \in 1 .. Len(t) : t[i][1] = t[j][1] => i = j
  BY TableRows
<1>2. w = [r \in RegNames |-> w[r]]
  BY DEF sensor_write_table
<1> HIDE DEF t
<1>3. ASSUME NEW r \in RegNames \ TableRegs
      PROVE  w[r] = regs[c][r]
  <2>1. {i \in 1 .. n : t[i][1] = r} = {}
    BY <1>1 DEF t
  <2> QED BY <2>1 DEF sensor_write_table
<1>4. ASSUME NEW l \in Levels
      PROVE  w[l] \in [1 .. 2 -> Nat]
  <2> DEFINE rows == {i \in 1 .. n : t[i][1] = l}
  <2>0. l \in RegNames /\ regs[c][l] \in [1 .. 2 -> Nat]
    BY DEF Levels, RegNames, ImxTypes, RegsType
  <2>1. w[l] = IF rows = {} THEN regs[c][l] ELSE t[CHOOSE k \in rows : \A j \in rows : j <= k][2]
    BY <2>0 DEF sensor_write_table
  <2>2. ASSUME NEW i \in rows
        PROVE  w[l] \in [1 .. 2 -> Nat]
    <3>1. rows = {i} /\ i \in Int
      BY <1>1 DEF t
    <3>2. t[i][2] \in [1 .. 2 -> Nat]
      BY <1>1, <2>2 DEF t
    <3> HIDE DEF rows, w
    <3>3. (CHOOSE k \in rows : \A j \in rows : j <= k) = i
      BY <3>1
    <3> QED BY <2>1, <3>1, <3>2, <3>3
  <2> HIDE DEF rows, w
  <2> QED BY <2>0, <2>1, <2>2
<1> QED BY <1>2, <1>3, <1>4 DEF t

LEMMA SettingNames ==
    /\ {"REVERSE", "STANDBY"} \subseteq RegNames \ TableRegs
    /\ Levels = {"GAIN", "BLKLEVEL"} /\ SetRegs = {"REVERSE", "GAIN", "BLKLEVEL"} /\ SetRegs \subseteq RegNames
    /\ \A i \in 1 .. 6 : RowRegs[i] \in RegNames \ (SetRegs \cup {"STANDBY"})
    /\ "STANDBY" \in RegNames \ SetRegs
BY DEF RegNames, RowRegs, SetRegs, TableRegs, Levels

(* One register of one sensor is written. *)
Written(c, r, v) == regs' = [regs EXCEPT ![c][r] = v]

LEMMA OneWrite ==
    ASSUME ImxTypes, NEW c \in Sensors, NEW r \in RegNames \ SetRegs, NEW v,
           Written(c, r, v)
    PROVE  /\ RegsType' /\ regs'[c][r] = v
           /\ \A d \in Sensors : \A s \in RegNames : (d # c \/ s # r) => regs'[d][s] = regs[d][s]
<1>0. regs' = [regs EXCEPT ![c][r] = v]
  BY DEF Written
<1>1. regs' = [d \in Sensors |-> regs'[d]]
  BY <1>0 DEF ImxTypes, RegsType
<1>2. \A d \in Sensors \ {c} : regs'[d] = regs[d]
  BY <1>0 DEF ImxTypes, RegsType
<1>3. regs'[c] = [s \in RegNames |-> IF s = r THEN v ELSE regs[c][s]]
  BY <1>0 DEF ImxTypes, RegsType
<1>4. regs'[c].REVERSE = regs[c].REVERSE /\ regs'[c].GAIN = regs[c].GAIN /\ regs'[c].BLKLEVEL = regs[c].BLKLEVEL
  BY <1>3, SettingNames
<1>5. RegsType
  BY DEF ImxTypes
<1>6. RegsType'
  BY <1>1, <1>2, <1>3, <1>4, <1>5 DEF RegsType
<1> QED BY <1>2, <1>3, <1>6

LEMMA WriteKeeps ==
    ASSUME ImxTypes, NEW c \in Sensors, NEW r \in RegNames \ SetRegs, NEW v,
           imx_write_reg(c, r, v)
    PROVE  /\ RegsType'
           /\ \A d \in Sensors : \A s \in RegNames : (d # c \/ s # r) => regs'[d][s] = regs[d][s]
           /\ regs'[c][r] = v \/ (regs' = regs /\ c \in hurt')
<1>0. RegsType
  BY DEF ImxTypes
<1>1. CASE UNCHANGED regs /\ hurt' = hurt \cup {c}
  <2>1. RegsType'
    BY <1>0, <1>1 DEF RegsType
  <2>2. c \in hurt' /\ regs' = regs
    BY <1>1
  <2> QED BY <2>1, <2>2
<1>2. CASE regs' = [regs EXCEPT ![c][r] = v]
  <2>1. /\ RegsType' /\ regs'[c][r] = v
        /\ \A d \in Sensors : \A s \in RegNames : (d # c \/ s # r) => regs'[d][s] = regs[d][s]
    <3>1. Written(c, r, v)
      BY <1>2, Zenon DEF Written
    <3> QED BY <3>1, OneWrite, Zenon
  <2> QED BY <2>1
<1> QED BY <1>1, <1>2 DEF imx_write_reg

LEMMA Width16 == U16 \in Nat /\ 5000 < U16
BY SMT DEF U16

LEMMA LevelRange ==
    ASSUME NEW reg \in Levels, NEW val \in Int
    PROVE  LevelOf(reg, val) \in Nat
<1>1. \A n \in Int : n % U16 \in Nat
  BY Width16
<1>2. CASE reg = "GAIN"
  BY <1>1, <1>2 DEF LevelOf
<1>3. CASE reg # "GAIN"
  BY <1>1, <1>3 DEF LevelOf
<1> QED BY <1>2, <1>3

LEMMA InitWrites ==
    ASSUME ImxTypes, NEW c \in Sensors, NEW m \in Models, NEW type \in {0, 1},
           NEW n \in 0 .. Len(mode_table(m, type)),
           regs' = [regs EXCEPT ![c] = [sensor_write_table(c, mode_table(m, type), n) EXCEPT !.STANDBY = 0]]
    PROVE  /\ RegsType'
           /\ \A d \in Sensors \ {c} : regs'[d] = regs[d]
           /\ regs'[c]["REVERSE"] = regs[c]["REVERSE"]
           /\ \A r \in RegNames \ {"STANDBY"} :
                 regs'[c][r] = sensor_write_table(c, mode_table(m, type), n)[r]
<1> DEFINE w == sensor_write_table(c, mode_table(m, type), n)
<1>1. /\ w = [r \in RegNames |-> w[r]]
      /\ \A r \in RegNames \ TableRegs : w[r] = regs[c][r]
      /\ \A l \in Levels : w[l] \in [1 .. 2 -> Nat]
  BY TableKeeps
<1>2. regs' = [regs EXCEPT ![c] = [w EXCEPT !.STANDBY = 0]]
  OBVIOUS
<1> HIDE DEF w
<1>3. regs'[c] = [r \in RegNames |-> IF r = "STANDBY" THEN 0 ELSE w[r]]
  BY <1>1, <1>2 DEF ImxTypes, RegsType
<1>4. regs' = [d \in Sensors |-> regs'[d]] /\ \A d \in Sensors \ {c} : regs'[d] = regs[d]
  BY <1>2 DEF ImxTypes, RegsType
<1>5. \A r \in RegNames \ {"STANDBY"} : regs'[c][r] = w[r]
  BY <1>3
<1>6. /\ regs'[c]["REVERSE"] = regs[c]["REVERSE"]
      /\ regs'[c]["GAIN"] \in [1 .. 2 -> Nat] /\ regs'[c]["BLKLEVEL"] \in [1 .. 2 -> Nat]
  <2>1. /\ "REVERSE" \in RegNames \ {"STANDBY"} /\ "REVERSE" \notin TableRegs
        /\ \A l \in Levels : l \in RegNames \ {"STANDBY"}
    BY SettingNames
  <2>2. "GAIN" \in Levels /\ "BLKLEVEL" \in Levels
    BY DEF Levels
  <2> QED BY <1>1, <1>5, <2>1, <2>2
<1>7. RegsType'
  BY <1>3, <1>4, <1>6 DEF ImxTypes, RegsType
<1> QED BY <1>4, <1>5, <1>6, <1>7 DEF w

LEMMA TypesInit == ImxInit => ImxTypes
<1> SUFFICES ASSUME ImxInit PROVE ImxTypes
  OBVIOUS
<1>1. model \in [Sensors -> Models] /\ up \in [Sensors -> {"off", "up", "oops"}] /\ xhs \in [Sensors -> Int]
  BY DEF ImxInit
<1>2. call \in [Callers -> ImxCall]
  BY DEF ImxInit, ImxCall
<1>3. asked \in [Sensors -> [Flips \cup Levels -> Int]]
  BY DEF ImxInit, Flips, Levels, Unknown
<1>4. priv \in [Sensors -> Priv]
  <2>1. \A c \in Sensors : PixelHeight(model[c]) \in Int
    BY <1>1, SMT DEF PixelHeight, Models
  <2>2. <<0, 0, 0>> \in Gates
    BY DEF Gates
  <2> QED BY <2>1, <2>2 DEF ImxInit, Priv, Bits, Binnings
<1>5. column \in [Models -> [Bits -> Cells]]
  BY DEF ImxInit, Cells
<1>6. RegsType
  <2>1. ASSUME NEW c \in Sensors
        PROVE  /\ regs[c] = [r \in RegNames |-> regs[c][r]]
               /\ regs[c]["REVERSE"] = [f \in {"VERTICAL", "HORIZONTAL"} |-> 0]
               /\ regs[c]["GAIN"] = <<0, 0>> /\ regs[c]["BLKLEVEL"] = <<0, 0>>
    BY DEF ImxInit, RegNames
  <2>2. <<0, 0>> \in [1 .. 2 -> Nat]
    OBVIOUS
  <2>3. regs = [c \in Sensors |-> regs[c]]
    BY DEF ImxInit
  <2> QED BY <2>1, <2>2, <2>3 DEF RegsType, Flips
<1> QED BY <1>1, <1>2, <1>3, <1>4, <1>5, <1>6 DEF ImxTypes

LEMMA ReverseWrites ==
    ASSUME ImxTypes, NEW c \in Sensors, NEW v \in [Flips -> {0, 1}], Written(c, "REVERSE", v)
    PROVE  /\ RegsType' /\ regs'[c]["REVERSE"] = v
           /\ \A d \in Sensors : \A r \in RegNames : (d # c \/ r # "REVERSE") => regs'[d][r] = regs[d][r]
<1>0. regs' = [regs EXCEPT ![c] = [regs[c] EXCEPT !["REVERSE"] = v]]
  BY DEF ImxTypes, RegsType, Written
<1>1. regs'[c] = [r \in RegNames |-> IF r = "REVERSE" THEN v ELSE regs[c][r]]
  BY <1>0, SettingNames DEF ImxTypes, RegsType
<1>2. regs' = [d \in Sensors |-> regs'[d]] /\ \A d \in Sensors \ {c} : regs'[d] = regs[d]
  BY <1>0 DEF ImxTypes, RegsType
<1>3. \A r \in RegNames \ {"REVERSE"} : regs'[c][r] = regs[c][r]
  BY <1>1
<1>4. regs'[c]["REVERSE"] = v /\ regs'[c].GAIN = regs[c].GAIN /\ regs'[c].BLKLEVEL = regs[c].BLKLEVEL
  BY <1>1, SettingNames
<1>5. RegsType'
  BY <1>1, <1>2, <1>4 DEF ImxTypes, RegsType
<1> QED BY <1>2, <1>3, <1>4, <1>5

ByteWritten(c, reg, i, x) == regs' = [regs EXCEPT ![c][reg][i] = x]

LEMMA LevelWrites ==
    ASSUME ImxTypes, NEW c \in Sensors, NEW reg \in Levels, NEW i \in {1, 2}, NEW x \in Nat,
           ByteWritten(c, reg, i, x)
    PROVE  /\ RegsType'
           /\ regs'[c][reg][i] = x
           /\ \A j \in {1, 2} \ {i} : regs'[c][reg][j] = regs[c][reg][j]
           /\ \A d \in Sensors : \A r \in RegNames : (d # c \/ r # reg) => regs'[d][r] = regs[d][r]
<1>1. regs[c][reg] \in [1 .. 2 -> Nat] /\ reg \in RegNames
  BY SettingNames DEF ImxTypes, RegsType, Levels
<1> DEFINE v == [regs[c][reg] EXCEPT ![i] = x]
<1>2. v \in [1 .. 2 -> Nat] /\ v[i] = x /\ \A j \in {1, 2} \ {i} : v[j] = regs[c][reg][j]
  BY <1>1
<1>3. regs' = [regs EXCEPT ![c] = [regs[c] EXCEPT ![reg] = v]]
  BY DEF ImxTypes, RegsType, ByteWritten
<1> HIDE DEF v
<1>4. regs'[c] = [r \in RegNames |-> IF r = reg THEN v ELSE regs[c][r]]
  <2>1. regs[c] = [r \in RegNames |-> regs[c][r]] /\ regs = [d \in Sensors |-> regs[d]]
    BY DEF ImxTypes, RegsType
  <2>2. regs'[c] = [regs[c] EXCEPT ![reg] = v]
    BY <1>3, <2>1
  <2> QED BY <1>1, <2>1, <2>2
<1>5. regs' = [d \in Sensors |-> regs'[d]] /\ \A d \in Sensors \ {c} : regs'[d] = regs[d]
  BY <1>3 DEF ImxTypes, RegsType
<1>6. \A r \in RegNames \ {reg} : regs'[c][r] = regs[c][r]
  BY <1>4
<1>7. regs'[c][reg] = v
  BY <1>1, <1>4
<1>8. regs'[c].REVERSE = regs[c].REVERSE
  BY <1>6, SettingNames DEF Levels
<1>9. regs'[c].GAIN \in [1 .. 2 -> Nat] /\ regs'[c].BLKLEVEL \in [1 .. 2 -> Nat]
  BY <1>2, <1>6, <1>7, SettingNames DEF Levels, ImxTypes, RegsType
<1>10. RegsType'
  BY <1>4, <1>5, <1>8, <1>9 DEF ImxTypes, RegsType
<1> QED BY <1>2, <1>5, <1>6, <1>7, <1>10

(* Calls change as a whole: what the actions put in call has its type.     *)
LEMMA CallTypes ==
    ASSUME ImxTypes, NEW p \in Callers
    PROVE  /\ call[p] # Idle => call[p].cam \in Sensors
           /\ call[p].pc = "idle" <=> call[p] = Idle
           /\ call[p].pc \in {"xhs", "fill", "standby", "wake"} <=> call[p] \in Plain
           /\ call[p].pc = "rows" <=> call[p] \in AtRow
           /\ call[p].pc = "black" <=> call[p] \in Black
           /\ call[p].pc = "flip" <=> call[p] \in Flip
           /\ call[p].pc = "level" <=> call[p] \in Level
<1>1. call[p] \in ImxCall
  BY DEF ImxTypes
<1>2. CASE call[p] = Idle
  BY <1>2 DEF Idle, Plain, AtRow, Black, Flip, Level
<1>3. CASE call[p] \in Plain
  BY <1>3 DEF Idle, Plain, AtRow, Black, Flip, Level
<1>4. CASE call[p] \in AtRow
  BY <1>4 DEF Idle, Plain, AtRow, Black, Flip, Level
<1>5. CASE call[p] \in Flip
  BY <1>5 DEF Idle, Plain, AtRow, Black, Flip, Level
<1>6. CASE call[p] \in Level
  BY <1>6 DEF Idle, Plain, AtRow, Black, Flip, Level
<1>7. CASE call[p] \in Black
  BY <1>7 DEF Idle, Plain, AtRow, Black, Flip, Level
<1> QED BY <1>1, <1>2, <1>3, <1>4, <1>5, <1>6, <1>7 DEF ImxCall

LEMMA NewCalls ==
    ASSUME ImxTypes, NEW p \in Callers, NEW e \in ImxCall, call' = [call EXCEPT ![p] = e]
    PROVE  call' \in [Callers -> ImxCall] /\ call'[p] = e /\ \A q \in Callers \ {p} : call'[q] = call[q]
BY DEF ImxTypes

(* A call that is telling its sensor a register, in doubt and not.         *)
Told(p) == call[p].pc \in {"flip", "level"}

LEMMA ToldEntry ==
    ASSUME ImxTypes, NEW q \in Callers, Told(q)
    PROVE  /\ call[q] \in Flip \cup Level /\ call[q].cam \in Sensors /\ call[q].reg \in SetRegs
           /\ call[q] # Idle /\ ~ Programming(q) /\ Tells(q, call[q].cam, call[q].reg)
           /\ call[q].pc = "flip" => call[q].reg = "REVERSE"
           /\ call[q].pc = "level" => call[q].reg \in Levels
<1>1. call[q] \in Flip \cup Level
  BY CallTypes DEF Told
<1>2. /\ call[q].cam \in Sensors /\ call[q].reg \in SetRegs /\ call[q] # Idle
      /\ call[q].pc = "flip" => call[q].reg = "REVERSE"
      /\ call[q].pc = "level" => call[q].reg \in Levels
  BY <1>1 DEF Flip, Level, SetRegs, Idle
<1> QED BY <1>1, <1>2 DEF Told, Tells, Programming

LEMMA GoodLost ==
    ASSUME NEW e \in Flip \cup Level, NEW g \in BOOLEAN, NEW e1, e1 = [e EXCEPT !.good = g]
    PROVE  /\ e1 \in Flip \cup Level /\ e1.pc = e.pc /\ e1.cam = e.cam /\ e1.reg = e.reg /\ (e1.good <=> g)
           /\ e.pc = "flip" => e1.type = e.type /\ e1.value = e.value
           /\ e.pc = "level" => e1.val = e.val
<1>1. CASE e \in Flip
  BY <1>1 DEF Flip, Level
<1>2. CASE e \in Level
  BY <1>2 DEF Flip, Level
<1> QED BY <1>1, <1>2

\* What a step that writes register reg of sensor c may do to the call of q.
Fate(q, c, reg) ==
    \/ call'[q] = call[q] /\ ~ Tells(q, c, reg)
    \/ /\ ~ Told(q) \/ Tells(q, c, reg)
       /\ ~ Told(q)' \/ Tells(q, c, reg)'
       /\ call'[q] = Idle \/ call'[q].cam = c

LEMMA Doubted ==
    ASSUME ImxTypes, NEW c \in Sensors, NEW reg \in SetRegs, NEW q \in Callers,
           call'[q] = Doubt(c, reg)[q]
    PROVE  /\ call'[q] \in ImxCall
           /\ Fate(q, c, reg)
           /\ Tells(q, c, reg)' => ~ call'[q].good
           /\ Tells(q, c, reg)' <=> Tells(q, c, reg)
           /\ \/ call'[q] = call[q]
              \/ ~ Programming(q) /\ ~ Programming(q)' /\ call[q] # Idle /\ call'[q].cam = call[q].cam
<1>1. CASE ~ Tells(q, c, reg)
  <2>1. call'[q] = call[q]
    BY <1>1 DEF Doubt
  <2>2. Tells(q, c, reg)' <=> Tells(q, c, reg)
    BY <2>1 DEF Tells
  <2> QED BY <1>1, <2>1, <2>2 DEF Fate, ImxTypes
<1>2. CASE Tells(q, c, reg)
  <2>1. call'[q] = [call[q] EXCEPT !.good = FALSE]
    BY <1>2 DEF Doubt
  <2>2. Told(q) /\ call[q].cam = c /\ call[q].reg = reg
    BY <1>2 DEF Told, Tells
  <2>3. call[q] \in Flip \cup Level /\ call[q] # Idle /\ ~ Programming(q)
    BY <2>2, ToldEntry
  <2>4. /\ call'[q] \in Flip \cup Level /\ call'[q].pc = call[q].pc
        /\ call'[q].cam = call[q].cam /\ call'[q].reg = call[q].reg /\ ~ call'[q].good
    BY <2>1, <2>3, GoodLost
  <2>5. Tells(q, c, reg)' /\ ~ Programming(q)'
    BY <2>2, <2>4 DEF Tells, Told, Programming
  <2>6. call'[q] \in ImxCall
    BY <2>4 DEF ImxCall
  <2> QED BY <1>2, <2>2, <2>3, <2>4, <2>5, <2>6 DEF Fate
<1> QED BY <1>1, <1>2

(* A call that begins to tell: the others of its register are in doubt,    *)
(* and if there are any so is it.                                          *)
LEMMA Telling ==
    ASSUME ImxTypes, NEW p \in Callers, NEW entry \in Flip \cup Level, NEW ok \in BOOLEAN,
           Tell(p, entry, ok), call[p] = Idle
    PROVE  /\ call' \in [Callers -> ImxCall]
           /\ Tells(p, entry.cam, entry.reg)' /\ ~ Programming(p)' /\ call'[p].pc = entry.pc
           /\ entry.pc = "flip" => call'[p].type = entry.type /\ call'[p].value = entry.value
           /\ entry.pc = "level" => call'[p].val = entry.val
           /\ call'[p].good => ok /\ \A q \in Callers : ~ Tells(q, entry.cam, entry.reg)
           /\ \A q \in Callers \ {p} : call'[q] = Doubt(entry.cam, entry.reg)[q]
<1> DEFINE c == entry.cam
           reg == entry.reg
           others == {q \in Callers : Tells(q, c, reg)}
           g == (ok /\ others = {})
<1>1. /\ entry.pc \in {"flip", "level"} /\ c \in Sensors /\ reg \in SetRegs
  BY DEF Flip, Level, SetRegs
<1>2. call' = [Doubt(c, reg) EXCEPT ![p] = [entry EXCEPT !.good = g]]
  BY DEF Tell
<1>3. g \in BOOLEAN /\ (g => ok /\ \A q \in Callers : ~ Tells(q, c, reg))
  OBVIOUS
<1> HIDE DEF g
<1>4. /\ DOMAIN call' = Callers /\ call'[p] = [entry EXCEPT !.good = g]
      /\ \A q \in Callers \ {p} : call'[q] = Doubt(c, reg)[q]
      /\ call' = [q \in Callers |-> call'[q]]
  BY <1>2 DEF Doubt
<1>5. /\ call'[p] \in Flip \cup Level /\ call'[p].pc = entry.pc /\ call'[p].cam = c /\ call'[p].reg = reg
      /\ (call'[p].good <=> g)
      /\ entry.pc = "flip" => call'[p].type = entry.type /\ call'[p].value = entry.value
      /\ entry.pc = "level" => call'[p].val = entry.val
  BY <1>3, <1>4, GoodLost
<1>6. \A q \in Callers \ {p} : call'[q] \in ImxCall
  BY <1>1, <1>4, Doubted
<1>7. call'[p] \in ImxCall
  BY <1>5 DEF ImxCall
<1>8. call' \in [Callers -> ImxCall]
  BY <1>4, <1>6, <1>7
<1>9. Tells(p, c, reg)' /\ ~ Programming(p)'
  BY <1>1, <1>5 DEF Tells, Programming
<1> QED BY <1>3, <1>4, <1>5, <1>8, <1>9

LEMMA TypesInitParam ==
    ASSUME ImxTypes, NEW c \in Sensors, sensor_init_param(c)
    PROVE  ImxTypes'
<1>1. PICK type \in {0, 1} : imx565_init_param(c, type) \/ imx566_init_param(c, type)
  BY DEF sensor_init_param
<1>2. UNCHANGED <<model, column, xhs, call, asked>>
  BY <1>1 DEF imx565_init_param, imx566_init_param
<1>3. up' \in [Sensors -> {"off", "up", "oops"}]
  BY <1>1 DEF imx565_init_param, imx566_init_param, ImxTypes
<1>4. RegsType'
  <2>1. CASE imx565_init_param(c, type)
    <3>1. CASE UNCHANGED regs
      BY <3>1 DEF ImxTypes, RegsType
    <3>2. CASE \E n \in 0 .. Len(mode_table("imx565", type)) :
                  regs' = [regs EXCEPT ![c] =
                              [sensor_write_table(c, mode_table("imx565", type), n) EXCEPT !.STANDBY = 0]]
      BY <3>2, InitWrites DEF Models
    <3> QED BY <2>1, <3>1, <3>2 DEF imx565_init_param
  <2>2. CASE imx566_init_param(c, type)
    BY <2>2, InitWrites DEF imx566_init_param, Models
  <2> QED BY <1>1, <2>1, <2>2
<1>5. priv' \in [Sensors -> Priv]
  <2>1. CASE imx565_init_param(c, type)
    BY <2>1 DEF imx565_init_param, ImxTypes
  <2>2. CASE imx566_init_param(c, type)
    <3> DEFINE hmax == imx566SetParm.normal[2].hmax
               per  == (hmax * Mega) \div input_freq + 1
    <3>1. hmax \in Int /\ per \in Int
      BY SMT DEF imx566SetParm, Parm, input_freq, Mega
    <3>2. priv' = priv \/ priv' = [priv EXCEPT ![c].hmax = hmax, ![c].period = per]
      BY <2>2, SMT DEF imx566_init_param
    <3> HIDE DEF hmax, per
    <3>3. priv[c] \in Priv
      BY DEF ImxTypes
    <3>4. [[priv[c] EXCEPT !.hmax = hmax] EXCEPT !.period = per] \in Priv
      BY <3>1, <3>3 DEF Priv
    <3> QED BY <3>2, <3>4 DEF ImxTypes
  <2> QED BY <1>1, <2>1, <2>2
<1> QED BY <1>2, <1>3, <1>4, <1>5 DEF ImxTypes

(* The arithmetic of a line. *)
LEMMA LineIsInt ==
    ASSUME NEW h \in Int
    PROVE  /\ orin_calculate_pwm_period(h).hmax \in Int /\ orin_calculate_pwm_period(h).period \in Int
           /\ orin_calculate_pwm_period(h).hmax * Mega
                <= (orin_calculate_pwm_period(h).period + 14) * input_freq
BY SMT DEF orin_calculate_pwm_period, Ceil, input_freq, Mega

(* What a new ROI makes of the private data of a camera. *)
Line(m, bit, binning) == orin_calculate_pwm_period(SetParm(m, bit, binning).hmax)
Computed(c) ==
    /\ priv[c].gate   = SetParm(model[c], priv[c].bit, priv[c].binning).gate
    /\ priv[c].hmax   = Line(model[c], priv[c].bit, priv[c].binning).hmax
    /\ priv[c].period = Line(model[c], priv[c].bit, priv[c].binning).period

LEMMA RoiComputes ==
    ASSUME ImxTypes, NEW p \in Callers, NEW c \in Sensors, NEW roi \in Rois, RoiCompute(p, c, roi)
    PROVE  /\ priv' \in [Sensors -> Priv] /\ \A d \in Sensors \ {c} : priv'[d] = priv[d]
           /\ Computed(c)' /\ priv'[c].bit = roi.bit
           /\ call[p] = Idle /\ up[c] = "up"
           /\ call' = [call EXCEPT ![p] = [pc |-> "xhs", cam |-> c]]
           /\ UNCHANGED <<model, up, regs, column, xhs, lost, asked>>
<1> DEFINE parm == SetParm(model[c], roi.bit, roi.binning)
           line == orin_calculate_pwm_period(parm.hmax)
           h    == CALCULATE_ROUND(roi.height)
           vmax == update_vmax_fps(model[c], h, parm.gate, priv[c].vmax)
           new  == [bit |-> roi.bit, binning |-> roi.binning, height |-> h, gate |-> parm.gate,
                    hmax |-> line.hmax, period |-> line.period, vmax |-> vmax]
<1>1. roi.bit \in Bits /\ roi.binning \in Binnings /\ roi.height \in Int /\ model[c] \in Models
  <2>1. roi \in [bit : Bits, binning : Binnings, height : Nat]
    BY RoisAssumption
  <2> QED BY <2>1 DEF ImxTypes
<1>2. parm.gate \in Gates /\ parm.hmax \in Int
  BY <1>1, ParmIsGate
<1>3. line.hmax \in Int /\ line.period \in Int
  BY <1>2, LineIsInt
<1>4. h \in Int
  BY <1>1 DEF CALCULATE_ROUND
<1>5. vmax \in Int
  <2>1. priv[c].vmax \in Int
    BY DEF ImxTypes, Priv
  <2> HIDE DEF h, parm
  <2> QED BY <1>2, <1>4, <2>1 DEF update_vmax_fps, Gates
<1>6. /\ priv' = [priv EXCEPT ![c] = new]
      /\ Begin(p, c) /\ call' = [call EXCEPT ![p] = [pc |-> "xhs", cam |-> c]]
      /\ UNCHANGED <<model, up, regs, column, xhs, lost, asked>>
  BY DEF RoiCompute
<1>7. new \in Priv /\ new.gate = parm.gate /\ new.hmax = line.hmax /\ new.period = line.period
      /\ new.bit = roi.bit /\ new.binning = roi.binning
  <2> DEFINE g == parm.gate  y == line.hmax  z == line.period  v == vmax  k == h
  <2>1. g \in Gates /\ y \in Int /\ z \in Int /\ v \in Int /\ k \in Int
    BY <1>2, <1>3, <1>4, <1>5
  <2>2. new = [bit |-> roi.bit, binning |-> roi.binning, height |-> k, gate |-> g,
               hmax |-> y, period |-> z, vmax |-> v]
    OBVIOUS
  <2> HIDE DEF new, g, y, z, v, k
  <2>3. /\ new \in Priv /\ new.gate = g /\ new.hmax = y /\ new.period = z
        /\ new.bit = roi.bit /\ new.binning = roi.binning
    BY <1>1, <2>1, <2>2 DEF Priv
  <2> QED BY <2>3 DEF g, y, z
<1>8. priv' \in [Sensors -> Priv] /\ priv'[c] = new /\ \A d \in Sensors \ {c} : priv'[d] = priv[d]
  <2> HIDE DEF new
  <2> QED BY <1>6, <1>7 DEF ImxTypes
<1>9. Computed(c)' /\ priv'[c].bit = roi.bit
  <2>1. model' = model
    BY <1>6
  <2>2. /\ priv'[c].gate = parm.gate /\ priv'[c].hmax = line.hmax /\ priv'[c].period = line.period
        /\ priv'[c].bit = roi.bit /\ priv'[c].binning = roi.binning
    <3> HIDE DEF new
    <3> QED BY <1>7, <1>8
  <2> QED BY <2>1, <2>2, Zenon DEF Computed, Line
<1> QED BY <1>6, <1>8, <1>9 DEF Begin

(* The steps of a call that programs a ROI or a test picture. *)
LEMMA TypesRoi ==
    ASSUME ImxTypes, NEW p \in Callers,
           \/ SetRoi(p) \/ Wake(p)
           \/ \E c \in Sensors : sensor_debug_pic_set(p, c)
    PROVE  /\ ImxTypes' /\ UNCHANGED <<model, up, asked>>
           /\ \A q \in Callers \ {p} : call'[q] = call[q]
           /\ ~ Told(p) /\ ~ Told(p)'
           /\ \/ call'[p] = Idle \/ up[call'[p].cam] = "up"
              \/ call[p] # Idle /\ call'[p].cam = call[p].cam
           /\ \A d \in Sensors : \A r \in SetRegs : regs'[d][r] = regs[d][r]
<1>0. RegsType /\ call[p] \in ImxCall
  BY DEF ImxTypes
<1>1. ASSUME NEW e \in ImxCall, call' = [call EXCEPT ![p] = e], UNCHANGED <<model, up, asked>>,
             priv' \in [Sensors -> Priv], column' \in [Models -> [Bits -> Cells]], xhs' \in [Sensors -> Int],
             RegsType', e.pc \notin {"flip", "level"}, call[p].pc \notin {"flip", "level"},
             e = Idle \/ up[e.cam] = "up" \/ (call[p] # Idle /\ e.cam = call[p].cam)
      PROVE  /\ ImxTypes' /\ \A q \in Callers \ {p} : call'[q] = call[q]
             /\ ~ Told(p) /\ ~ Told(p)'
             /\ \/ call'[p] = Idle \/ up[call'[p].cam] = "up"
                \/ call[p] # Idle /\ call'[p].cam = call[p].cam
  <2>1. call' \in [Callers -> ImxCall] /\ call'[p] = e /\ \A q \in Callers \ {p} : call'[q] = call[q]
    BY <1>1, NewCalls
  <2>2. ImxTypes'
    BY <1>1, <2>1 DEF ImxTypes
  <2> QED BY <1>1, <2>1, <2>2 DEF Told
<1>2. ASSUME NEW c \in Sensors, NEW roi \in Rois, RoiCompute(p, c, roi)
      PROVE  /\ [pc |-> "xhs", cam |-> c] \in ImxCall /\ call[p].pc = "idle"
  BY <1>2, RoiComputes DEF ImxCall, Plain, Idle
<1>3. CASE \E c \in Sensors, roi \in Rois : RoiCompute(p, c, roi)
  <2>1. PICK c \in Sensors, roi \in Rois : RoiCompute(p, c, roi)
    BY <1>3
  <2>2. RegsType'
    BY <1>0, <2>1, RoiComputes DEF RegsType
  <2> DEFINE e == [pc |-> "xhs", cam |-> c]
  <2>3. e \in ImxCall /\ call[p].pc = "idle" /\ e.pc = "xhs"
    BY <1>2, <2>1
  <2>4. call' = [call EXCEPT ![p] = e] /\ up[c] = "up" /\ e.cam = c /\ priv' \in [Sensors -> Priv]
        /\ UNCHANGED <<model, up, regs, column, xhs, asked>>
    BY <2>1, RoiComputes
  <2> HIDE DEF e
  <2> QED BY <1>1, <2>2, <2>3, <2>4 DEF ImxTypes
<1>4. ASSUME call[p].pc \in AtCell \cup {"wake"}
      PROVE  /\ call[p].cam \in Sensors /\ call[p] # Idle /\ call[p].pc \notin {"flip", "level"}
             /\ call[p].pc # "rows" => call[p] \in Plain
             /\ call[p].pc = "rows" => call[p] \in AtRow
  BY <1>0, <1>4, CallTypes DEF AtCell, Idle
<1>5. CASE update_xhs_pwm(p)
  <2>1. call[p].pc = "xhs" /\ call[p] \in Plain
    BY <1>4, <1>5 DEF update_xhs_pwm, AtCell
  <2>2. call' = [call EXCEPT ![p] = [call[p] EXCEPT !.pc = "fill"]] /\ [call[p] EXCEPT !.pc = "fill"] \in Plain
    BY <1>5, <2>1 DEF update_xhs_pwm, Plain, ImxTypes
  <2>3. xhs' \in [Sensors -> Int]
    BY <1>4, <1>5, <2>1 DEF update_xhs_pwm, ImxTypes, Priv, AtCell
  <2>4. UNCHANGED <<model, up, regs, priv, column, asked>>
    BY <1>5 DEF update_xhs_pwm
  <2> HIDE DEF AtCell
  <2>5. RegsType'
    BY <1>0, <2>4 DEF RegsType
  <2>6. [call[p] EXCEPT !.pc = "fill"] \in ImxCall /\ [call[p] EXCEPT !.pc = "fill"].pc = "fill"
        /\ [call[p] EXCEPT !.pc = "fill"].cam = call[p].cam
    BY <2>1, <2>2 DEF ImxCall, Plain
  <2> QED BY <1>1, <1>4, <2>1, <2>2, <2>3, <2>4, <2>5, <2>6 DEF ImxTypes, AtCell
<1>6. CASE RoiFill(p)
  <2>1. call[p].pc = "fill" /\ call[p] \in Plain /\ call[p].cam \in Sensors
    BY <1>4, <1>6 DEF RoiFill, AtCell
  <2>2. call' = [call EXCEPT ![p] = [call[p] EXCEPT !.pc = "standby"]] /\ [call[p] EXCEPT !.pc = "standby"] \in Plain
    BY <1>6, <2>1 DEF RoiFill, Plain, ImxTypes
  <2>3. column' \in [Models -> [Bits -> Cells]]
    BY <1>6, <2>1 DEF RoiFill, ImxTypes, Priv, Cells
  <2>4. UNCHANGED <<model, up, regs, priv, xhs, asked>>
    BY <1>6 DEF RoiFill, bounds
  <2>5. RegsType'
    BY <1>0, <2>4 DEF RegsType
  <2>6. [call[p] EXCEPT !.pc = "standby"] \in ImxCall /\ [call[p] EXCEPT !.pc = "standby"].pc = "standby"
        /\ [call[p] EXCEPT !.pc = "standby"].cam = call[p].cam
    BY <2>1, <2>2 DEF ImxCall, Plain
  <2> QED BY <1>1, <1>4, <2>1, <2>2, <2>3, <2>4, <2>5, <2>6 DEF ImxTypes, AtCell
<1>7. CASE RoiStandby(p)
  <2>1. call[p].pc = "standby" /\ call[p].cam \in Sensors
    BY <1>4, <1>7 DEF RoiStandby, AtCell
  <2> DEFINE e == [pc |-> "rows", cam |-> call[p].cam, row |-> 1]
  <2>2. call' = [call EXCEPT ![p] = e] /\ e \in ImxCall /\ e.pc = "rows" /\ e.cam = call[p].cam
    BY <1>7, <2>1 DEF RoiStandby, AtRow, ImxCall
  <2>3. UNCHANGED <<model, up, priv, column, xhs, asked>> /\ imx_write_reg(call[p].cam, "STANDBY", 1)
    BY <1>7 DEF RoiStandby
  <2> HIDE DEF e
  <2>4. /\ RegsType'
        /\ \A d \in Sensors : \A r \in SetRegs : regs'[d][r] = regs[d][r]
    BY <2>1, <2>3, WriteKeeps, SettingNames
  <2> QED BY <1>1, <1>4, <2>1, <2>2, <2>3, <2>4 DEF ImxTypes, AtCell
<1>8. CASE RoiRow(p)
  <2> DEFINE c == call[p].cam
             i == call[p].row
             e == IF i = Len(Rows(model[c])) THEN [pc |-> "wake", cam |-> c] ELSE [call[p] EXCEPT !.row = i + 1]
  <2>1. call[p].pc = "rows" /\ c \in Sensors /\ i \in 1 .. 6 /\ call[p] \in AtRow
    BY <1>4, <1>8 DEF RoiRow, AtRow, AtCell
  <2>2. Len(Rows(model[c])) = 6 /\ Rows(model[c])[i].reg = RowRegs[i]
    BY <2>1, RowNames DEF ImxTypes
  <2>3. call' = [call EXCEPT ![p] = e] /\ imx_write_reg(c, RowRegs[i], RowValue(c, Rows(model[c])[i]))
    BY <1>8, <2>2 DEF RoiRow, ImxTypes
  <2>4. e \in ImxCall /\ e.pc \in {"wake", "rows"} /\ e.cam = call[p].cam
    <3>1. CASE i = 6
      BY <2>1, <2>2, <3>1 DEF ImxCall, Plain
    <3>2. CASE i # 6
      BY <2>1, <2>2, <3>2 DEF ImxCall, AtRow
    <3> QED BY <3>1, <3>2
  <2>5. UNCHANGED <<model, up, priv, column, xhs, asked>>
    BY <1>8 DEF RoiRow
  <2>6. /\ RegsType'
        /\ \A d \in Sensors : \A r \in SetRegs : regs'[d][r] = regs[d][r]
    <3> HIDE DEF c, i, e
    <3>1. RowRegs[i] \in RegNames \ SetRegs
      BY <2>1, SettingNames
    <3>2. /\ RegsType'
          /\ \A d \in Sensors : \A r \in RegNames : (d # c \/ r # RowRegs[i]) => regs'[d][r] = regs[d][r]
      BY <2>1, <2>3, <3>1, WriteKeeps
    <3>3. \A r \in SetRegs : r \in RegNames /\ r # RowRegs[i]
      BY <3>1, SettingNames
    <3> QED BY <3>2, <3>3
  <2> HIDE DEF e
  <2> QED BY <1>1, <1>4, <2>1, <2>3, <2>4, <2>5, <2>6 DEF ImxTypes, AtCell
<1>9. CASE Wake(p)
  <2>1. call[p].pc = "wake" /\ call[p].cam \in Sensors
    BY <1>4, <1>9 DEF Wake
  <2>2. call' = [call EXCEPT ![p] = Idle] /\ Idle \in ImxCall /\ Idle.pc = "idle"
    BY <1>9, <2>1 DEF Wake, Idle, ImxCall
  <2>3. UNCHANGED <<model, up, priv, column, xhs, asked>> /\ imx_write_reg(call[p].cam, "STANDBY", 0)
    BY <1>9 DEF Wake
  <2>4. /\ RegsType'
        /\ \A d \in Sensors : \A r \in SetRegs : regs'[d][r] = regs[d][r]
    BY <2>1, <2>3, WriteKeeps, SettingNames
  <2> QED BY <1>1, <1>4, <2>1, <2>2, <2>3, <2>4 DEF ImxTypes
<1>10. CASE \E c \in Sensors : sensor_debug_pic_set(p, c)
  <2>1. PICK c \in Sensors : sensor_debug_pic_set(p, c)
    BY <1>10
  <2> DEFINE e == [pc |-> "black", cam |-> c, byte |-> 1]
  <2>2. call' = [call EXCEPT ![p] = e] /\ e \in ImxCall /\ e.pc = "black" /\ e.cam = c /\ call[p].pc = "idle" /\ up[c] = "up"
    BY <2>1 DEF sensor_debug_pic_set, Begin, ImxCall, Black, Idle
  <2>3. UNCHANGED <<model, up, priv, column, xhs, asked>>
    BY <2>1 DEF sensor_debug_pic_set
  <2>4. /\ RegsType'
        /\ \A d \in Sensors : \A r \in SetRegs : regs'[d][r] = regs[d][r]
    <3>1. UNCHANGED regs \/ regs' = [regs EXCEPT ![c].STANDBY = 1]
      BY <2>1 DEF sensor_debug_pic_set
    <3>2. CASE UNCHANGED regs
      <4>1. RegsType'
        BY <1>0, <3>2 DEF RegsType
      <4> QED BY <3>2, <4>1
    <3>3. CASE regs' = [regs EXCEPT ![c]["STANDBY"] = 1]
      <4>1. "STANDBY" \in RegNames \ SetRegs
            /\ SetRegs \subseteq RegNames
        BY SettingNames
      <4>2. RegsType' /\ regs'[c]["STANDBY"] = 1
            /\ \A d \in Sensors : \A s \in RegNames : (d # c \/ s # "STANDBY") => regs'[d][s] = regs[d][s]
        <5>1. Written(c, "STANDBY", 1)
          BY <3>3, Zenon DEF Written
        <5> QED BY <4>1, <5>1, OneWrite, Zenon
      <4>3. \A d \in Sensors : \A s \in SetRegs : s # "STANDBY" /\ s \in RegNames
        BY <4>1
      <4> QED BY <4>2, <4>3
    <3> QED BY <3>1, <3>2, <3>3
  <2> HIDE DEF e
  <2> QED BY <1>1, <2>2, <2>3, <2>4 DEF ImxTypes
<1> QED BY <1>3, <1>5, <1>6, <1>7, <1>8, <1>9, <1>10 DEF SetRoi

(***************************************************************************)
(* Settings.  Of the calls that tell a sensor one of its registers, one    *)
(* that may count on it is alone, and what it has read or written already  *)
(* is what the register holds.  Of a camera that is off nothing is known.  *)
(***************************************************************************)
LEMMA SettleUnknown ==
    ASSUME ImxTypes, NEW c \in Sensors, NEW names, NEW new, Settle(c, names, FALSE, new)
    PROVE  /\ asked' \in [Sensors -> [Flips \cup Levels -> Int]]
           /\ \A d \in Sensors \ {c} : asked'[d] = asked[d]
           /\ \A s \in Flips \cup Levels : asked'[c][s] = IF s \notin names THEN asked[c][s] ELSE Unknown
<1> DEFINE v == [s \in Flips \cup Levels |-> IF s \notin names THEN asked[c][s] ELSE Unknown]
<1>1. asked' = [asked EXCEPT ![c] = v]
  BY DEF Settle, ImxTypes
<1>2. v \in [Flips \cup Levels -> Int]
  <2>1. asked[c] \in [Flips \cup Levels -> Int]
    BY DEF ImxTypes
  <2> QED BY <2>1 DEF Unknown
<1>3. \A s \in Flips \cup Levels : v[s] = IF s \notin names THEN asked[c][s] ELSE Unknown
  OBVIOUS
<1> HIDE DEF v
<1>4. asked' \in [Sensors -> [Flips \cup Levels -> Int]] /\ asked'[c] = v
      /\ \A d \in Sensors \ {c} : asked'[d] = asked[d]
  BY <1>1, <1>2 DEF ImxTypes
<1> QED BY <1>3, <1>4

LEMMA SettleKnown ==
    ASSUME ImxTypes, NEW c \in Sensors, NEW s \in Flips \cup Levels, NEW new, new[s] \in Int,
           NEW names, names = {s}, Settle(c, names, TRUE, new)
    PROVE  /\ asked' \in [Sensors -> [Flips \cup Levels -> Int]]
           /\ \A d \in Sensors \ {c} : asked'[d] = asked[d]
           /\ asked'[c][s] = new[s]
           /\ \A r \in (Flips \cup Levels) \ {s} : asked'[c][r] = asked[c][r]
<1> DEFINE v == [r \in Flips \cup Levels |-> IF r # s THEN asked[c][r] ELSE new[r]]
<1>1. asked' = [asked EXCEPT ![c] = v]
  BY DEF Settle, ImxTypes
<1>2. v \in [Flips \cup Levels -> Int]
  <2>1. asked[c] \in [Flips \cup Levels -> Int]
    BY DEF ImxTypes
  <2> QED BY <2>1
<1>3. v[s] = new[s] /\ \A r \in (Flips \cup Levels) \ {s} : v[r] = asked[c][r]
  OBVIOUS
<1> HIDE DEF v
<1>4. asked' \in [Sensors -> [Flips \cup Levels -> Int]] /\ asked'[c] = v
      /\ \A d \in Sensors \ {c} : asked'[d] = asked[d]
  BY <1>1, <1>2 DEF ImxTypes
<1> QED BY <1>3, <1>4

LEMMA ReadEntry ==
    ASSUME ImxTypes, NEW c \in Sensors, NEW type \in Flips, NEW val \in {0, 1}, NEW ok \in BOOLEAN
    PROVE  LET value == IF ok THEN regs[c].REVERSE ELSE [f \in Flips |-> 0]
               entry == [pc |-> "flip", cam |-> c, good |-> TRUE, reg |-> "REVERSE", type |-> type,
                         value |-> [value EXCEPT ![type] = val]]
           IN  /\ entry \in Flip /\ entry.cam = c /\ entry.reg = "REVERSE" /\ entry.pc = "flip" /\ entry.type = type
               /\ ok => \A f \in Flips \ {type} : entry.value[f] = regs[c].REVERSE[f]
<1> DEFINE value == IF ok THEN regs[c].REVERSE ELSE [f \in Flips |-> 0]
           v     == [value EXCEPT ![type] = val]
<1>1. value \in [Flips -> {0, 1}]
  BY DEF ImxTypes, RegsType
<1>2. v \in [Flips -> {0, 1}] /\ \A f \in Flips \ {type} : v[f] = value[f]
  <2> HIDE DEF value
  <2> QED BY <1>1
<1>3. ok => value = regs[c].REVERSE
  OBVIOUS
<1> HIDE DEF v
<1>4. LET entry == [pc |-> "flip", cam |-> c, good |-> TRUE, reg |-> "REVERSE", type |-> type, value |-> v]
      IN  entry \in Flip /\ entry.cam = c /\ entry.reg = "REVERSE" /\ entry.pc = "flip" /\ entry.type = type /\ entry.value = v
  BY <1>2 DEF Flip
<1> QED BY <1>2, <1>3, <1>4 DEF v

LEMMA LevelEntry ==
    ASSUME NEW c \in Sensors, NEW reg \in Levels, NEW val \in LevelValues
    PROVE  LET entry == [pc |-> "level", cam |-> c, good |-> TRUE, reg |-> reg, val |-> val]
           IN  entry \in Level /\ entry.cam = c /\ entry.pc = "level" /\ entry.reg = reg /\ entry.val = val
BY LevelsAssumption DEF Level

(* The inductive invariant of the settings. *)
SettingsOf(reg) == IF reg = "REVERSE" THEN Flips ELSE {reg}
AloneTells ==
    \A p, q \in Callers : \A c \in Sensors : \A reg \in SetRegs :
        Tells(p, c, reg) /\ call[p].good /\ Tells(q, c, reg) => p = q
Right(p) ==
    /\ call[p].pc = "flip" =>
          \A f \in Flips \ {call[p].type} : call[p].value[f] = regs[call[p].cam]["REVERSE"][f]
    /\ call[p].pc = "level" =>
          regs[call[p].cam][call[p].reg][1] = LevelOf(call[p].reg, call[p].val) % 256
GoodIsRight == \A p \in Callers : Told(p) /\ call[p].good => Right(p)
FlipHeld(c, f) == asked[c][f] \in {regs[c]["REVERSE"][f], Unknown}
LevelHeld(c, l) ==
    \/ asked[c][l] \notin 0 .. MaxLevel[l]
    \/ \E p \in Callers : call[p].pc = "level" /\ Tells(p, c, l)
    \/ regs[c][l][1] + 256 * regs[c][l][2] = (IF l = "GAIN" THEN 10 ELSE 1) * asked[c][l]
HeldAt(c, reg) == IF reg = "REVERSE" THEN \A f \in Flips : FlipHeld(c, f) ELSE LevelHeld(c, reg)
Held == \A c \in Sensors : \A reg \in SetRegs : HeldAt(c, reg)
OffIdle(c) ==
    up[c] = "off" => /\ \A s \in Flips \cup Levels : asked[c][s] = Unknown
                     /\ \A p \in Callers : call[p] # Idle => call[p].cam # c
SetInv == AloneTells /\ GoodIsRight /\ Held /\ \A c \in Sensors : OffIdle(c)

LEMMA HeldIsAsked == Held => SettingsAsAsked
<1> SUFFICES ASSUME Held PROVE SettingsAsAsked
  OBVIOUS
<1>1. \A c \in Sensors : (\A f \in Flips : FlipHeld(c, f)) /\ \A l \in Levels : LevelHeld(c, l)
  BY DEF Held, HeldAt, SetRegs, Levels
<1> QED BY <1>1, Zenon DEF FlipHeld, LevelHeld, SettingsAsAsked

LEMMA LevelNat == \A l \in Levels : Unknown \notin 0 .. MaxLevel[l]
BY SMT DEF Levels, MaxLevel, Unknown

LEMMA UnknownHolds ==
    ASSUME NEW c \in Sensors, NEW reg \in SetRegs
    PROVE  /\ (\A s \in SettingsOf(reg) : asked[c][s] = Unknown) => HeldAt(c, reg)
           /\ (\A s \in SettingsOf(reg) : asked'[c][s] = Unknown) => HeldAt(c, reg)'
<1>1. CASE reg = "REVERSE"
  BY <1>1 DEF HeldAt, FlipHeld, SettingsOf
<1>2. CASE reg # "REVERSE"
  <2>1. reg \in Levels /\ SettingsOf(reg) = {reg} /\ Unknown \notin 0 .. MaxLevel[reg]
    BY <1>2, LevelNat DEF SetRegs, SettingsOf
  <2>2. (asked[c][reg] = Unknown => LevelHeld(c, reg)) /\ (asked'[c][reg] = Unknown => LevelHeld(c, reg)')
    BY <2>1 DEF LevelHeld
  <2> QED BY <1>2, <2>1, <2>2 DEF HeldAt
<1> QED BY <1>1, <1>2

LEMMA OneSetting ==
    /\ \A reg \in SetRegs : SettingsOf(reg) \subseteq Flips \cup Levels
    /\ \A reg, r \in SetRegs : reg # r => SettingsOf(reg) \cap SettingsOf(r) = {}
    /\ \A s \in Flips \cup Levels : \E reg \in SetRegs : s \in SettingsOf(reg)
<1>1. SettingsOf("REVERSE") = Flips /\ SettingsOf("GAIN") = {"GAIN"} /\ SettingsOf("BLKLEVEL") = {"BLKLEVEL"}
  BY DEF SettingsOf
<1>2. Flips \cap Levels = {} /\ SetRegs = {"REVERSE", "GAIN", "BLKLEVEL"} /\ Levels = {"GAIN", "BLKLEVEL"}
  BY DEF Flips, Levels, SetRegs
<1> QED BY <1>1, <1>2

(* What is told of a register is held through a step that leaves the       *)
(* register, its settings and the calls that tell it alone.                *)
LEMMA HeldKept ==
    ASSUME NEW d \in Sensors, NEW r \in SetRegs, HeldAt(d, r), regs'[d][r] = regs[d][r],
           \A s \in SettingsOf(r) : asked'[d][s] = asked[d][s],
           \A q \in Callers : Tells(q, d, r) => call'[q] = call[q]
    PROVE  HeldAt(d, r)'
<1>1. CASE r = "REVERSE"
  BY <1>1 DEF HeldAt, FlipHeld, SettingsOf
<1>2. CASE r # "REVERSE"
  <2>1. LevelHeld(d, r) /\ asked'[d][r] = asked[d][r]
    BY <1>2 DEF HeldAt, SettingsOf
  <2>2. ASSUME NEW q \in Callers, call[q].pc = "level", Tells(q, d, r)
        PROVE  call'[q].pc = "level" /\ Tells(q, d, r)'
    BY <2>2 DEF Tells
  <2>3. LevelHeld(d, r)'
    BY <2>1, <2>2 DEF LevelHeld
  <2> QED BY <1>2, <2>3 DEF HeldAt
<1> QED BY <1>1, <1>2

(* A step of register reg of sensor c, and of nothing else that is told.   *)
LEMMA RegisterStep ==
    ASSUME ImxTypes, ImxTypes', SetInv, NEW c \in Sensors, NEW reg \in SetRegs, up[c] # "off", UNCHANGED up,
           \A d \in Sensors : \A r \in SetRegs : (d # c \/ r # reg) =>
              regs'[d][r] = regs[d][r] /\ \A s \in SettingsOf(r) : asked'[d][s] = asked[d][s],
           \A q \in Callers : Fate(q, c, reg),
           \A q \in Callers : Tells(q, c, reg)' /\ call'[q].good =>
              Right(q)' /\ \A r \in Callers : Tells(r, c, reg)' => r = q,
           HeldAt(c, reg)'
    PROVE  SetInv'
<1>1. ASSUME NEW q \in Callers, NEW d \in Sensors, NEW r \in SetRegs, d # c \/ r # reg
      PROVE  /\ Tells(q, d, r) => call'[q] = call[q]
             /\ Tells(q, d, r)' => call'[q] = call[q] /\ Tells(q, d, r)
  <2>1. Tells(q, d, r) => Told(q) /\ ~ Tells(q, c, reg)
    BY <1>1 DEF Tells, Told
  <2>2. Tells(q, d, r)' => Told(q)' /\ ~ Tells(q, c, reg)'
    BY <1>1 DEF Tells, Told
  <2>3. call'[q] = call[q] => (Tells(q, d, r)' <=> Tells(q, d, r))
    BY DEF Tells
  <2> QED BY <2>1, <2>2, <2>3 DEF Fate
<1>2. AloneTells'
  <2> SUFFICES ASSUME NEW q \in Callers, NEW r \in Callers, NEW d \in Sensors, NEW s \in SetRegs,
                      Tells(q, d, s)', call'[q].good, Tells(r, d, s)'
               PROVE  q = r
    BY DEF AloneTells
  <2>1. CASE d = c /\ s = reg
    BY <2>1
  <2>2. CASE d # c \/ s # reg
    BY <1>1, <2>2 DEF SetInv, AloneTells
  <2> QED BY <2>1, <2>2
<1>3. GoodIsRight'
  <2> SUFFICES ASSUME NEW q \in Callers, Told(q)', call'[q].good PROVE Right(q)'
    BY DEF GoodIsRight
  <2>1. CASE Tells(q, c, reg)'
    BY <2>1
  <2>2. CASE ~ Tells(q, c, reg)'
    <3>1. call'[q] = call[q] /\ ~ Tells(q, c, reg) /\ Told(q)
      BY <2>2 DEF Fate, Told
    <3> DEFINE d == call[q].cam  r == call[q].reg
    <3>2. /\ d \in Sensors /\ r \in SetRegs /\ (d # c \/ r # reg)
          /\ call[q].pc = "flip" => r = "REVERSE"
      BY <3>1, ToldEntry
    <3>3. regs'[d][r] = regs[d][r] /\ Right(q)
      BY <3>1, <3>2 DEF SetInv, GoodIsRight
    <3> QED BY <3>1, <3>2, <3>3 DEF Right
  <2> QED BY <2>1, <2>2
<1>4. ASSUME NEW d \in Sensors, NEW r \in SetRegs PROVE HeldAt(d, r)'
  <2>1. CASE d # c \/ r # reg
    <3>1. HeldAt(d, r)
      BY DEF SetInv, Held
    <3> QED BY <1>1, <2>1, <3>1, HeldKept
  <2> QED BY <2>1
<1>5. ASSUME NEW d \in Sensors PROVE OffIdle(d)'
  <2> SUFFICES ASSUME up[d] = "off"
               PROVE  /\ \A s \in Flips \cup Levels : asked'[d][s] = Unknown
                      /\ \A p \in Callers : call'[p] # Idle => call'[p].cam # d
    BY DEF OffIdle
  <2>1. d # c /\ OffIdle(d)
    BY DEF SetInv
  <2>2. \A s \in Flips \cup Levels : asked'[d][s] = asked[d][s]
    BY <2>1, OneSetting
  <2>3. \A p \in Callers : call'[p] # Idle => call'[p].cam # d
    BY <2>1 DEF Fate, OffIdle
  <2> QED BY <2>1, <2>2, <2>3 DEF OffIdle
<1> QED BY <1>2, <1>3, <1>4, <1>5 DEF SetInv, Held

(* A step that leaves every setting and every telling call alone.          *)
LEMMA SettingsKept ==
    ASSUME ImxTypes, SetInv, UNCHANGED asked,
           \A d \in Sensors : up[d] # "off" => \A r \in SetRegs : regs'[d][r] = regs[d][r],
           \A d \in Sensors : up'[d] = "off" => up[d] = "off",
           \A q \in Callers : \/ call'[q] = call[q]
                              \/ /\ ~ Told(q) /\ ~ Told(q)'
                                 /\ \/ call'[q] = Idle \/ up[call'[q].cam] = "up"
                                    \/ call[q] # Idle /\ call'[q].cam = call[q].cam
    PROVE  SetInv'
<1>1. ASSUME NEW q \in Callers, Told(q) \/ Told(q)'
      PROVE  /\ call'[q] = call[q] /\ Told(q) /\ call[q].cam \in Sensors /\ up[call[q].cam] # "off"
             /\ call[q].reg \in SetRegs /\ (call[q].pc = "flip" => call[q].reg = "REVERSE")
  <2>1. call'[q] = call[q]
    BY <1>1
  <2>2. Told(q)
    BY <1>1, <2>1 DEF Told
  <2>3. /\ call[q].cam \in Sensors /\ call[q] # Idle
        /\ call[q].reg \in SetRegs /\ (call[q].pc = "flip" => call[q].reg = "REVERSE")
    BY <2>2, ToldEntry
  <2>4. up[call[q].cam] # "off"
    BY <2>3 DEF SetInv, OffIdle
  <2> QED BY <2>1, <2>2, <2>3, <2>4
<1>2. AloneTells'
  <2> SUFFICES ASSUME NEW q \in Callers, NEW r \in Callers, NEW d \in Sensors, NEW s \in SetRegs,
                      Tells(q, d, s)', call'[q].good, Tells(r, d, s)'
               PROVE  q = r
    BY DEF AloneTells
  <2>1. call'[q] = call[q] /\ call'[r] = call[r]
    BY <1>1 DEF Tells, Told
  <2>2. Tells(q, d, s) /\ call[q].good /\ Tells(r, d, s)
    BY <2>1 DEF Tells
  <2> QED BY <2>2 DEF SetInv, AloneTells
<1>3. GoodIsRight'
  <2> SUFFICES ASSUME NEW q \in Callers, Told(q)', call'[q].good PROVE Right(q)'
    BY DEF GoodIsRight
  <2>1. Right(q) /\ regs'[call[q].cam][call[q].reg] = regs[call[q].cam][call[q].reg]
    BY <1>1 DEF SetInv, GoodIsRight
  <2> QED BY <1>1, <2>1 DEF Right
<1>4. ASSUME NEW d \in Sensors, NEW r \in SetRegs PROVE HeldAt(d, r)'
  <2>1. CASE up[d] = "off"
    <3>1. \A s \in SettingsOf(r) : asked'[d][s] = Unknown
      BY <2>1, OneSetting DEF SetInv, OffIdle
    <3> QED BY <3>1, UnknownHolds
  <2>2. CASE up[d] # "off"
    <3>1. HeldAt(d, r) /\ regs'[d][r] = regs[d][r] /\ \A s \in SettingsOf(r) : asked'[d][s] = asked[d][s]
      BY <2>2 DEF SetInv, Held
    <3>2. \A q \in Callers : Tells(q, d, r) => call'[q] = call[q]
      BY <1>1 DEF Tells, Told
    <3> QED BY <3>1, <3>2, HeldKept
  <2> QED BY <2>1, <2>2
<1>5. ASSUME NEW d \in Sensors PROVE OffIdle(d)'
  <2> SUFFICES ASSUME up'[d] = "off" PROVE OffIdle(d)'
    BY DEF OffIdle
  <2>1. up[d] = "off" /\ OffIdle(d)
    BY DEF SetInv
  <2>2. \A p \in Callers : call'[p] # Idle => call'[p].cam # d
    BY <2>1 DEF OffIdle
  <2> QED BY <2>1, <2>2 DEF OffIdle
<1> QED BY <1>2, <1>3, <1>4, <1>5 DEF SetInv, Held

(* What the kinds of steps make of the calls. *)
LEMMA TellStep ==
    ASSUME ImxTypes, ImxTypes', SetInv, NEW p \in Callers, NEW entry \in Flip \cup Level, NEW ok \in BOOLEAN,
           Tell(p, entry, ok), call[p] = Idle, up[entry.cam] = "up", UNCHANGED <<up, asked>>,
           \A d \in Sensors : \A r \in SetRegs : (d # entry.cam \/ r # entry.reg) => regs'[d][r] = regs[d][r],
           entry.pc = "flip" /\ ok =>
               \A f \in Flips \ {entry.type} : entry.value[f] = regs'[entry.cam]["REVERSE"][f],
           entry.pc = "level" /\ ok =>
               regs'[entry.cam][entry.reg][1] = LevelOf(entry.reg, entry.val) % 256,
           Tells(p, entry.cam, entry.reg)' /\ call'[p].pc = entry.pc => HeldAt(entry.cam, entry.reg)'
    PROVE  SetInv'
<1> DEFINE c == entry.cam
           reg == entry.reg
<1>1. c \in Sensors /\ reg \in SetRegs /\ entry.pc \in {"flip", "level"}
  BY DEF Flip, Level, SetRegs
<1>2. /\ Tells(p, c, reg)' /\ call'[p].pc = entry.pc
      /\ entry.pc = "flip" => call'[p].type = entry.type /\ call'[p].value = entry.value
      /\ entry.pc = "level" => call'[p].val = entry.val
      /\ call'[p].good => ok /\ \A q \in Callers : ~ Tells(q, c, reg)
      /\ \A q \in Callers \ {p} : call'[q] = Doubt(c, reg)[q]
  BY Telling
<1>3. ASSUME NEW q \in Callers \ {p}
      PROVE  /\ Fate(q, c, reg) /\ (Tells(q, c, reg)' => ~ call'[q].good)
             /\ Tells(q, c, reg)' <=> Tells(q, c, reg)
  BY <1>1, <1>2, Doubted
<1>4. call'[p].cam = c /\ call'[p].reg = reg
  BY <1>2 DEF Tells
<1>5. Fate(p, c, reg)
  <2>1. ~ Told(p)
    BY DEF Told, Idle
  <2> QED BY <1>2, <1>4, <2>1 DEF Fate
<1>6. ASSUME call'[p].good PROVE Right(p)' /\ \A r \in Callers : Tells(r, c, reg)' => r = p
  <2>1. Right(p)'
    BY <1>2, <1>4, <1>6 DEF Right
  <2> QED BY <1>2, <1>3, <1>6, <2>1
<1>7. HeldAt(c, reg)'
  BY <1>2
<1> HIDE DEF c, reg
<1>8. /\ \A q \in Callers : Fate(q, c, reg)
      /\ \A q \in Callers : Tells(q, c, reg)' /\ call'[q].good =>
            Right(q)' /\ \A r \in Callers : Tells(r, c, reg)' => r = q
  BY <1>3, <1>5, <1>6
<1>9. up[c] # "off" /\ UNCHANGED up
  BY DEF c
<1>10. \A d \in Sensors : \A r \in SetRegs : (d # c \/ r # reg) =>
           regs'[d][r] = regs[d][r] /\ \A s \in SettingsOf(r) : asked'[d][s] = asked[d][s]
  BY DEF c, reg
<1> QED BY <1>1, <1>7, <1>8, <1>9, <1>10, RegisterStep

LEMMA EndStep ==
    ASSUME ImxTypes, ImxTypes', SetInv, NEW p \in Callers, Told(p), call' = [call EXCEPT ![p] = Idle], UNCHANGED up,
           NEW c \in Sensors, NEW reg \in SetRegs, c = call[p].cam, reg = call[p].reg,
           \A d \in Sensors : \A r \in SetRegs : (d # c \/ r # reg) =>
              regs'[d][r] = regs[d][r] /\ \A s \in SettingsOf(r) : asked'[d][s] = asked[d][s],
           HeldAt(c, reg)'
    PROVE  SetInv'
<1>1. Tells(p, c, reg) /\ call[p] # Idle
  BY ToldEntry
<1>2. call'[p] = Idle /\ \A q \in Callers \ {p} : call'[q] = call[q]
  BY DEF ImxTypes
<1>3. up[c] # "off"
  BY <1>1 DEF SetInv, OffIdle
<1>4. ~ Told(p)' /\ ~ Tells(p, c, reg)'
  BY <1>2 DEF Told, Tells, Idle
<1>5. ASSUME NEW q \in Callers PROVE Fate(q, c, reg)
  <2>1. CASE q = p
    BY <1>1, <1>2, <1>4, <2>1 DEF Fate
  <2>2. CASE q # p /\ Tells(q, c, reg)
    BY <1>2, <2>2 DEF Fate, Tells
  <2>3. CASE q # p /\ ~ Tells(q, c, reg)
    BY <1>2, <2>3 DEF Fate
  <2> QED BY <2>1, <2>2, <2>3
<1>6. ASSUME NEW q \in Callers, Tells(q, c, reg)', call'[q].good PROVE FALSE
  <2>1. q # p /\ call'[q] = call[q] /\ Tells(q, c, reg) /\ call[q].good
    BY <1>2, <1>4, <1>6 DEF Tells
  <2> QED BY <1>1, <2>1 DEF SetInv, AloneTells
<1> QED BY <1>3, <1>5, <1>6, RegisterStep

LEMMA DoubtStep ==
    ASSUME ImxTypes, ImxTypes', SetInv, NEW c \in Sensors, NEW reg \in SetRegs, up[c] # "off", UNCHANGED up,
           \A q \in Callers : \/ call'[q] = Doubt(c, reg)[q]
                              \/ ~ Told(q) /\ ~ Told(q)' /\ call'[q].cam = c,
           \A d \in Sensors : \A r \in SetRegs : (d # c \/ r # reg) =>
              regs'[d][r] = regs[d][r] /\ \A s \in SettingsOf(r) : asked'[d][s] = asked[d][s],
           \A s \in SettingsOf(reg) : asked'[c][s] = Unknown
    PROVE  SetInv'
<1>1. ASSUME NEW q \in Callers
      PROVE  Fate(q, c, reg) /\ (Tells(q, c, reg)' => ~ call'[q].good)
  <2>1. CASE call'[q] = Doubt(c, reg)[q]
    BY <2>1, Doubted
  <2>2. CASE ~ Told(q) /\ ~ Told(q)' /\ call'[q].cam = c
    BY <2>2 DEF Fate, Tells, Told
  <2> QED BY <2>1, <2>2
<1>2. HeldAt(c, reg)'
  BY UnknownHolds
<1> QED BY <1>1, <1>2, RegisterStep

LEMMA ReadStep ==
    ASSUME ImxTypes, SetInv, NEW p \in Callers, NEW c \in Sensors, NEW type \in Flips, NEW val \in {0, 1},
           set_filp_read(p, c, type, val)
    PROVE  ImxTypes' /\ SetInv'
<1> DEFINE read(ok) == IF ok THEN regs[c].REVERSE ELSE [f \in Flips |-> 0]
           told(ok) == [pc |-> "flip", cam |-> c, good |-> TRUE, reg |-> "REVERSE", type |-> type,
                        value |-> [read(ok) EXCEPT ![type] = val]]
<1>1. PICK ok \in BOOLEAN : Tell(p, told(ok), ok)
  BY DEF set_filp_read
<1>2. /\ call[p] = Idle /\ up[c] = "up"
      /\ UNCHANGED <<model, up, regs, priv, column, xhs, asked>>
  BY DEF set_filp_read, Begin
<1> DEFINE entry == told(ok)
<1>4. /\ entry \in Flip /\ entry.cam = c /\ entry.reg = "REVERSE" /\ entry.pc = "flip" /\ entry.type = type
      /\ ok => \A f \in Flips \ {type} : entry.value[f] = regs[c].REVERSE[f]
  BY ReadEntry
<1>3. Tell(p, entry, ok)
  BY <1>1
<1> HIDE DEF entry
<1>5. call' \in [Callers -> ImxCall]
  BY <1>2, <1>3, <1>4, Telling
<1>6. RegsType'
  <2>1. RegsType
    BY DEF ImxTypes
  <2> QED BY <1>2, <2>1 DEF RegsType
<1>7. ImxTypes'
  BY <1>2, <1>5, <1>6 DEF ImxTypes
<1>8. HeldAt(c, "REVERSE")'
  <2>1. HeldAt(c, "REVERSE")
    BY DEF SetInv, Held, SetRegs
  <2> QED BY <1>2, <2>1 DEF HeldAt, FlipHeld
<1>9. SetInv'
  BY <1>2, <1>3, <1>4, <1>7, <1>8, TellStep
<1> QED BY <1>7, <1>9

LEMMA LowStep ==
    ASSUME ImxTypes, SetInv, NEW p \in Callers, NEW c \in Sensors, NEW reg \in Levels, NEW val \in LevelValues,
           set_level_low(p, c, reg, val)
    PROVE  ImxTypes' /\ SetInv'
<1> DEFINE entry == [pc |-> "level", cam |-> c, good |-> TRUE, reg |-> reg, val |-> val]
           low   == LevelOf(reg, val) % 256
<1>1. PICK ok \in BOOLEAN :
          /\ IF ok THEN regs' = [regs EXCEPT ![c][reg][1] = low] ELSE UNCHANGED regs
          /\ Tell(p, entry, ok)
  BY DEF set_level_low
<1>2. /\ call[p] = Idle /\ up[c] = "up"
      /\ UNCHANGED <<model, up, priv, column, xhs, asked>>
  BY DEF set_level_low, Begin
<1>3. entry \in Level /\ entry.cam = c /\ entry.pc = "level" /\ entry.reg = reg /\ entry.val = val
  BY LevelEntry
<1>4. low \in Nat
  <2>1. LevelOf(reg, val) \in Nat
    BY LevelRange, LevelsAssumption
  <2> QED BY <2>1
<1> HIDE DEF entry
<1>5. call' \in [Callers -> ImxCall]
  BY <1>1, <1>2, <1>3, Telling
<1>6. /\ RegsType'
      /\ \A d \in Sensors : \A r \in SetRegs : (d # c \/ r # reg) => regs'[d][r] = regs[d][r]
      /\ ok => regs'[c][reg][1] = low
  <2> HIDE DEF low
  <2>1. CASE ok
    <3>0. ByteWritten(c, reg, 1, low)
      BY <1>1, <2>1, Zenon DEF ByteWritten
    <3>1. /\ RegsType' /\ regs'[c][reg][1] = low
          /\ \A d \in Sensors : \A r \in RegNames : (d # c \/ r # reg) => regs'[d][r] = regs[d][r]
      <4>1. 1 \in {1, 2}
        OBVIOUS
      <4> QED BY <3>0, <1>4, <4>1, LevelWrites, SMTT(30)
    <3> QED BY <3>1, SettingNames
  <2>2. CASE ~ ok
    <3>1. RegsType /\ regs' = regs
      BY <1>1, <2>2 DEF ImxTypes
    <3>2. RegsType'
      BY <3>1 DEF RegsType
    <3> QED BY <3>1, <3>2, <2>2
  <2> QED BY <2>1, <2>2
<1>7. ImxTypes'
  BY <1>2, <1>5, <1>6 DEF ImxTypes
<1>8. Tells(p, c, reg)' /\ call'[p].pc = "level" => HeldAt(c, reg)'
  <2>1. reg # "REVERSE"
    BY DEF Levels
  <2> QED BY <2>1 DEF HeldAt, LevelHeld
<1>9. SetInv'
  BY <1>1, <1>2, <1>3, <1>6, <1>7, <1>8, TellStep
<1> QED BY <1>7, <1>9

(* A told setting arrives, or does not: the call ends. *)
LEMMA FlipStep ==
    ASSUME ImxTypes, SetInv, NEW p \in Callers, set_filp_write(p)
    PROVE  ImxTypes' /\ SetInv'
<1>0. call[p] \in Flip
  BY CallTypes DEF set_filp_write
<1>a. PICK c \in Sensors, t \in Flips, v \in [Flips -> {0, 1}] :
        call[p].cam = c /\ call[p].type = t /\ call[p].value = v
  BY <1>0 DEF Flip
<1>1. /\ call[p].pc = "flip" /\ Told(p) /\ call' = [call EXCEPT ![p] = Idle]
      /\ UNCHANGED <<model, up, priv, column, xhs>>
  BY <1>a DEF set_filp_write, Told
<1>2. /\ call' \in [Callers -> ImxCall] /\ c \in Sensors /\ call[p] \in Flip /\ call[p].reg = "REVERSE"
  <2>1. Idle \in ImxCall
    BY <1>a DEF ImxCall
  <2> QED BY <1>a, <1>1, <2>1, NewCalls, ToldEntry, CallTypes
<1>3. t \in Flips /\ v \in [Flips -> {0, 1}] /\ call[p].good \in BOOLEAN
  BY <1>a, <1>2 DEF Flip
<1>4. \/ /\ regs' = [regs EXCEPT ![c].REVERSE = v]
         /\ IF call[p].good THEN Settle(c, {t}, TRUE, v) ELSE Settle(c, Flips, FALSE, << >>)
      \/ UNCHANGED regs /\ Settle(c, Flips, FALSE, << >>)
  BY <1>a DEF set_filp_write
<1>5. /\ RegsType'
      /\ \A d \in Sensors : \A r \in RegNames : (d # c \/ r # "REVERSE") => regs'[d][r] = regs[d][r]
  <2>1. CASE UNCHANGED regs
    <3>1. RegsType
      BY <1>a DEF ImxTypes
    <3>2. RegsType'
      BY <1>a, <2>1, <3>1 DEF RegsType
    <3> QED BY <1>a, <2>1, <3>2
  <2>2. CASE Written(c, "REVERSE", v)
    BY <1>a, <2>2, <1>2, <1>3, ReverseWrites
  <2> QED BY <1>a, <1>4, <2>1, <2>2 DEF Written
<1>6. /\ asked' \in [Sensors -> [Flips \cup Levels -> Int]]
      /\ \A d \in Sensors \ {c} : asked'[d] = asked[d]
      /\ \A s \in Levels : asked'[c][s] = asked[c][s]
      /\ \/ \A f \in Flips : asked'[c][f] = Unknown
         \/ /\ call[p].good /\ regs'[c]["REVERSE"] = v
            /\ \A f \in Flips : asked'[c][f] = IF f = t THEN v[f] ELSE asked[c][f]
  <2>0. Flips \cap Levels = {}
    BY <1>a DEF Flips, Levels
  <2>1. CASE Settle(c, Flips, FALSE, << >>)
    <3>1. /\ asked' \in [Sensors -> [Flips \cup Levels -> Int]]
          /\ \A d \in Sensors \ {c} : asked'[d] = asked[d]
          /\ \A s \in Flips \cup Levels : asked'[c][s] = IF s \notin Flips THEN asked[c][s] ELSE Unknown
      BY <1>a, <1>2, <2>1, SettleUnknown
    <3> QED BY <1>a, <2>0, <3>1
  <2>2. CASE Written(c, "REVERSE", v) /\ call[p].good /\ Settle(c, {t}, TRUE, v)
    <3>1. v[t] \in Int /\ t \in Flips \cup Levels
      BY <1>a, <1>3
    <3>2. /\ asked' \in [Sensors -> [Flips \cup Levels -> Int]]
          /\ \A d \in Sensors \ {c} : asked'[d] = asked[d]
          /\ asked'[c][t] = v[t]
          /\ \A r \in (Flips \cup Levels) \ {t} : asked'[c][r] = asked[c][r]
      BY <1>2, <2>2, <3>1, SettleKnown
    <3>3. regs'[c]["REVERSE"] = v
      BY <1>a, <2>2, <1>2, <1>3, ReverseWrites
    <3> QED BY <1>a, <1>3, <2>0, <2>2, <3>2, <3>3
  <2> QED BY <1>a, <1>4, <2>1, <2>2 DEF Written
<1>7. ImxTypes'
  BY <1>a, <1>1, <1>2, <1>5, <1>6 DEF ImxTypes
<1>8. ASSUME NEW f \in Flips PROVE FlipHeld(c, f)'
  <2>1. FlipHeld(c, f)
    BY <1>a, <1>2 DEF SetInv, Held, HeldAt, SetRegs
  <2>3. CASE asked'[c][f] = Unknown
    BY <1>a, <2>3 DEF FlipHeld
  <2>4. CASE /\ call[p].good /\ regs'[c]["REVERSE"] = v
             /\ asked'[c][f] = IF f = t THEN v[f] ELSE asked[c][f]
    <3>1. f # t => v[f] = regs[c]["REVERSE"][f]
      BY <1>a, <1>1, <2>4 DEF SetInv, GoodIsRight, Right, Told
    <3> QED BY <1>a, <2>1, <2>4, <3>1 DEF FlipHeld
  <2> QED BY <1>a, <1>6, <2>3, <2>4
<1>9. HeldAt(c, "REVERSE")'
  BY <1>a, <1>8 DEF HeldAt
<1>10. \A d \in Sensors : \A r \in SetRegs : (d # c \/ r # "REVERSE") =>
          regs'[d][r] = regs[d][r] /\ \A s \in SettingsOf(r) : asked'[d][s] = asked[d][s]
  <2>1. \A r \in SetRegs : r \in RegNames /\ (r # "REVERSE" => r \in Levels /\ SettingsOf(r) = {r})
    BY <1>a, SettingNames DEF SettingsOf, SetRegs
  <2> QED BY <1>a, <1>5, <1>6, <2>1
<1>11. SetInv'
  <2>1. "REVERSE" \in SetRegs
    BY <1>a DEF SetRegs
  <2> QED BY <1>a, <1>1, <1>2, <1>7, <1>9, <1>10, <2>1, EndStep
<1> QED BY <1>a, <1>7, <1>11

(* A level that fits its two bytes is put together again.                  *)
LEMMA BytesMeet ==
    ASSUME NEW n \in Nat, NEW w \in {2, 16}, n < 256 * w
    PROVE  (n % 256) + 256 * ((n \div 256) % w) = n
<1>1. n \div 256 \in Nat /\ n % 256 \in Nat /\ n = 256 * (n \div 256) + (n % 256)
  OBVIOUS
<1> DEFINE h == n \div 256
<1>2. h \in Nat /\ h < w
  BY <1>1
<1> HIDE DEF h
<1>3. h % w = h
  BY <1>2
<1> QED BY <1>1, <1>3 DEF h

LEMMA LevelFits ==
    ASSUME NEW l \in Levels, NEW val \in Int, val \in 0 .. MaxLevel[l]
    PROVE  LET n == LevelOf(l, val)  w == IF l = "GAIN" THEN 2 ELSE 16
           IN  n \in Nat /\ n = (IF l = "GAIN" THEN 10 ELSE 1) * val /\ n < 256 * w
<1>1. CASE l = "GAIN"
  <2>1. val \in 0 .. 51
    BY <1>1 DEF MaxLevel
  <2>2. 10 * val \in 0 .. 510 /\ U16 \in Nat /\ 5000 < U16
    BY <2>1, Width16
  <2>3. (10 * val) % U16 = 10 * val
    BY <2>2
  <2> QED BY <1>1, <2>2, <2>3 DEF LevelOf
<1>2. CASE l = "BLKLEVEL"
  <2>1. val \in 0 .. 4095
    BY <1>2, SMT DEF MaxLevel
  <2>2. val % U16 = val
    BY <2>1, Width16, SMT
  <2>3. LevelOf(l, val) = val
    BY <1>2, <2>2, SMT DEF LevelOf
  <2> QED BY <1>2, <2>1, <2>3, SMT
<1> QED BY <1>1, <1>2 DEF Levels

LEMMA HighStep ==
    ASSUME ImxTypes, SetInv, NEW p \in Callers, set_level_high(p)
    PROVE  ImxTypes' /\ SetInv'
<1>0. call[p] \in Level
  BY CallTypes DEF set_level_high
<1>a. PICK c \in Sensors, r \in Levels, val \in Int : call[p].cam = c /\ call[p].reg = r /\ call[p].val = val
  BY <1>0 DEF Level
<1> DEFINE w == IF r = "GAIN" THEN 2 ELSE 16
           high == (LevelOf(r, val) \div 256) % w
           new == [l \in Levels |-> val]
<1>1. /\ call[p].pc = "level" /\ Told(p) /\ call' = [call EXCEPT ![p] = Idle]
      /\ UNCHANGED <<model, up, priv, column, xhs>>
  BY <1>a DEF set_level_high, Told
<1>2. /\ call' \in [Callers -> ImxCall] /\ c \in Sensors /\ call[p] \in Level
  <2>1. Idle \in ImxCall
    BY <1>a DEF ImxCall
  <2> QED BY <1>a, <1>1, <2>1, NewCalls, ToldEntry, CallTypes
<1>3. r \in Levels /\ val \in Int /\ call[p].good \in BOOLEAN
  BY <1>a, <1>2 DEF Level
<1>4. PICK ok \in BOOLEAN :
          /\ IF ok THEN regs' = [regs EXCEPT ![c][r][2] = high] ELSE UNCHANGED regs
          /\ Settle(c, {r}, ok /\ call[p].good, new)
  BY <1>a DEF set_level_high
<1>5. high \in Nat
  <2>1. LevelOf(r, val) \in Nat
    BY <1>a, <1>3, LevelRange
  <2>2. LevelOf(r, val) \div 256 \in Nat
    BY <1>a, <2>1
  <2> QED BY <1>a, <2>2
<1>6. new[r] = val
  BY <1>a, <1>3
<1> HIDE DEF high, new, w
<1>7. /\ RegsType'
      /\ ok => regs'[c][r][2] = high
      /\ regs'[c][r][1] = regs[c][r][1]
      /\ \A d \in Sensors : \A s \in RegNames : (d # c \/ s # r) => regs'[d][s] = regs[d][s]
  <2>1. CASE ok
    <3>1. ByteWritten(c, r, 2, high) /\ 2 \in {1, 2} /\ 1 \in {1, 2} \ {2}
      BY <1>a, <1>4, <2>1 DEF ByteWritten
    <3>2. /\ RegsType' /\ regs'[c][r][2] = high
          /\ \A j \in {1, 2} \ {2} : regs'[c][r][j] = regs[c][r][j]
          /\ \A d \in Sensors : \A s \in RegNames : (d # c \/ s # r) => regs'[d][s] = regs[d][s]
      BY <1>a, <3>1, <1>2, <1>3, <1>5, LevelWrites, SMTT(30)
    <3> QED BY <1>a, <3>1, <3>2
  <2>2. CASE ~ ok
    <3>1. RegsType /\ regs' = regs
      BY <1>a, <1>4, <2>2 DEF ImxTypes
    <3>2. RegsType'
      BY <1>a, <3>1 DEF RegsType
    <3> QED BY <1>a, <3>1, <3>2, <2>2
  <2> QED BY <1>a, <2>1, <2>2
<1>8. /\ asked' \in [Sensors -> [Flips \cup Levels -> Int]]
      /\ \A d \in Sensors \ {c} : asked'[d] = asked[d]
      /\ \A s \in (Flips \cup Levels) \ {r} : asked'[c][s] = asked[c][s]
      /\ IF ok /\ call[p].good THEN asked'[c][r] = val ELSE asked'[c][r] = Unknown
  <2>0. r \in Flips \cup Levels
    BY <1>a, <1>3
  <2>3. new[r] \in Int
    BY <1>a, <1>3, <1>6
  <2>1. CASE ok /\ call[p].good
    <3>1. Settle(c, {r}, TRUE, new)
      BY <1>a, <1>4, <2>1 DEF Settle
    <3>2. /\ asked' \in [Sensors -> [Flips \cup Levels -> Int]]
          /\ \A d \in Sensors \ {c} : asked'[d] = asked[d]
          /\ asked'[c][r] = new[r]
          /\ \A s \in (Flips \cup Levels) \ {r} : asked'[c][s] = asked[c][s]
      BY <2>0, <2>3, <3>1, SettleKnown
    <3> QED BY <1>a, <1>6, <2>1, <3>2
  <2>2. CASE ~ (ok /\ call[p].good)
    <3>1. Settle(c, {r}, FALSE, new)
      BY <1>a, <1>4, <2>2 DEF Settle
    <3>2. /\ asked' \in [Sensors -> [Flips \cup Levels -> Int]]
          /\ \A d \in Sensors \ {c} : asked'[d] = asked[d]
          /\ \A s \in Flips \cup Levels : asked'[c][s] = IF s \notin {r} THEN asked[c][s] ELSE Unknown
      BY <1>a, <1>2, <3>1, SettleUnknown
    <3> QED BY <1>a, <2>0, <2>2, <3>2
  <2> QED BY <1>a, <2>1, <2>2
<1>9. ImxTypes'
  BY <1>a, <1>1, <1>2, <1>7, <1>8 DEF ImxTypes
<1>10. LevelHeld(c, r)'
  <2>2. CASE asked'[c][r] \in 0 .. MaxLevel[r]
    <3>1. ok /\ call[p].good /\ asked'[c][r] = val
      BY <1>a, <1>8, <2>2, LevelNat DEF Unknown
    <3>2. regs'[c][r][1] = LevelOf(r, val) % 256 /\ regs'[c][r][2] = (LevelOf(r, val) \div 256) % w
      BY <1>a, <1>1, <1>7, <3>1 DEF SetInv, GoodIsRight, Right, Told, high
    <3> DEFINE n == LevelOf(r, val)
    <3>3. n \in Nat /\ n = (IF r = "GAIN" THEN 10 ELSE 1) * val /\ n < 256 * w
      BY <1>a, <1>3, <2>2, <3>1, LevelFits DEF w
    <3>4. w \in {2, 16}
      BY <1>a DEF w
    <3> HIDE DEF n
    <3>5. (n % 256) + 256 * ((n \div 256) % w) = n
      BY <1>a, <3>3, <3>4, BytesMeet
    <3>6. regs'[c][r][1] + 256 * regs'[c][r][2] = n
      BY <1>a, <3>2, <3>5, Zenon DEF n
    <3> QED BY <1>a, <2>2, <3>1, <3>3, <3>6, Zenon DEF LevelHeld
  <2>3. CASE asked'[c][r] \notin 0 .. MaxLevel[r]
    BY <1>a, <2>3 DEF LevelHeld
  <2> QED BY <1>a, <2>2, <2>3
<1>11. r # "REVERSE" /\ r \in SetRegs
  BY <1>a, <1>3 DEF Levels, SetRegs
<1>12. HeldAt(c, r)'
  BY <1>a, <1>10, <1>11 DEF HeldAt
<1>13. \A d \in Sensors : \A s \in SetRegs : (d # c \/ s # r) =>
          regs'[d][s] = regs[d][s] /\ \A x \in SettingsOf(s) : asked'[d][x] = asked[d][x]
  <2>1. \A s \in SetRegs : s # r => r \notin SettingsOf(s)
    BY <1>a, <1>3, <1>11, OneSetting DEF SettingsOf
  <2> QED BY <1>a, <1>7, <1>8, <2>1, SettingNames, OneSetting
<1>14. c = call[p].cam /\ r = call[p].reg
  BY <1>a
<1>15. SetInv'
  BY <1>a, <1>1, <1>9, <1>11, <1>12, <1>13, <1>14, EndStep, Zenon
<1> QED BY <1>a, <1>9, <1>15

(* The steps that tell nothing of a setting. *)
LEMMA InitParamStep ==
    ASSUME ImxTypes, SetInv, NEW c \in Sensors, sensor_init_param(c)
    PROVE  ImxTypes' /\ SetInv'
<1>1. ImxTypes'
  BY TypesInitParam
<1>2. up[c] = "off" /\ UNCHANGED <<asked, call>>
      /\ up' \in {[up EXCEPT ![c] = "up"], [up EXCEPT ![c] = "oops"]}
  BY DEF sensor_init_param, imx565_init_param, imx566_init_param
<1>3. \A d \in Sensors \ {c} : regs'[d] = regs[d]
  <2>1. PICK type \in {0, 1} : imx565_init_param(c, type) \/ imx566_init_param(c, type)
    BY DEF sensor_init_param
  <2>2. \/ UNCHANGED regs
        \/ \E m \in Models : \E n \in 0 .. Len(mode_table(m, type)) :
              regs' = [regs EXCEPT ![c] = [sensor_write_table(c, mode_table(m, type), n) EXCEPT !.STANDBY = 0]]
    BY <2>1 DEF imx565_init_param, imx566_init_param, Models
  <2> QED BY <2>2, InitWrites
<1>4. \A d \in Sensors : up'[d] = "off" => up[d] = "off"
  BY <1>2 DEF ImxTypes
<1>5. \A d \in Sensors : up[d] # "off" => \A r \in SetRegs : regs'[d][r] = regs[d][r]
  BY <1>2, <1>3
<1>6. \A q \in Callers : call'[q] = call[q]
  BY <1>2
<1> QED BY <1>1, <1>2, <1>4, <1>5, <1>6, SettingsKept

LEMMA RoiStep ==
    ASSUME ImxTypes, SetInv, NEW p \in Callers,
           \/ SetRoi(p) \/ Wake(p)
           \/ \E c \in Sensors : sensor_debug_pic_set(p, c)
    PROVE  ImxTypes' /\ SetInv'
<1>1. /\ ImxTypes' /\ UNCHANGED <<up, asked>>
      /\ \A q \in Callers \ {p} : call'[q] = call[q]
      /\ ~ Told(p) /\ ~ Told(p)'
      /\ \/ call'[p] = Idle \/ up[call'[p].cam] = "up"
         \/ call[p] # Idle /\ call'[p].cam = call[p].cam
      /\ \A d \in Sensors : \A r \in SetRegs : regs'[d][r] = regs[d][r]
  BY TypesRoi
<1> QED BY <1>1, SettingsKept

LEMMA PicBlackStep ==
    ASSUME ImxTypes, SetInv, NEW p \in Callers, PicBlack(p)
    PROVE  ImxTypes' /\ SetInv'
<1>1. call[p].pc = "black" /\ call[p] \in Black /\ call[p] # Idle /\ ~ Told(p)
  <2>1. call[p].pc = "black"
    BY DEF PicBlack
  <2> QED BY <2>1, CallTypes DEF Told, Idle
<1>2. PICK c \in Sensors, i \in {1, 2} : call[p].cam = c /\ call[p].byte = i
  BY <1>1 DEF Black
<1> DEFINE e == IF i = 1 THEN [call[p] EXCEPT !.byte = 2] ELSE [pc |-> "wake", cam |-> c]
<1>3. /\ regs' = regs \/ ByteWritten(c, "BLKLEVEL", i, 0)
      /\ Settle(c, {"BLKLEVEL"}, FALSE, << >>)
      /\ call' = [Doubt(c, "BLKLEVEL") EXCEPT ![p] = e]
      /\ UNCHANGED <<model, up, priv, column, xhs>>
  BY <1>2 DEF PicBlack, ByteWritten
<1>4. e \in ImxCall /\ e.cam = c /\ e.pc \in {"black", "wake"}
  <2>1. CASE i = 1
    <3>1. [call[p] EXCEPT !.byte = 2] \in Black /\ [call[p] EXCEPT !.byte = 2].pc = "black"
          /\ [call[p] EXCEPT !.byte = 2].cam = c
      BY <1>1, <1>2 DEF Black
    <3> QED BY <2>1, <3>1 DEF ImxCall
  <2>2. CASE i # 1
    BY <2>2 DEF ImxCall, Plain
  <2> QED BY <2>1, <2>2
<1> HIDE DEF e
<1>5. "BLKLEVEL" \in Levels /\ "BLKLEVEL" \in SetRegs /\ SettingsOf("BLKLEVEL") = {"BLKLEVEL"}
  BY DEF Levels, SetRegs, SettingsOf
<1>6. /\ call' = [q \in Callers |-> call'[q]] /\ call'[p] = e
      /\ \A q \in Callers \ {p} : call'[q] = Doubt(c, "BLKLEVEL")[q]
  BY <1>3 DEF Doubt
<1>7. call' \in [Callers -> ImxCall]
  <2>1. \A q \in Callers \ {p} : call'[q] \in ImxCall
    BY <1>5, <1>6, Doubted
  <2> QED BY <1>4, <1>6, <2>1
<1>8. RegsType' /\ \A d \in Sensors : \A r \in RegNames : (d # c \/ r # "BLKLEVEL") => regs'[d][r] = regs[d][r]
  <2>1. CASE regs' = regs
    <3>1. RegsType
      BY DEF ImxTypes
    <3>2. RegsType'
      BY <2>1, <3>1 DEF RegsType
    <3> QED BY <2>1, <3>2
  <2>2. CASE ByteWritten(c, "BLKLEVEL", i, 0)
    BY <1>5, <2>2, LevelWrites, SMTT(30)
  <2> QED BY <1>3, <2>1, <2>2
<1>9. /\ asked' \in [Sensors -> [Flips \cup Levels -> Int]]
      /\ \A d \in Sensors \ {c} : asked'[d] = asked[d]
      /\ \A s \in Flips \cup Levels : asked'[c][s] = IF s \notin {"BLKLEVEL"} THEN asked[c][s] ELSE Unknown
  <2>1. Settle(c, {"BLKLEVEL"}, FALSE, << >>)
    BY <1>3
  <2> QED BY <2>1, SettleUnknown
<1>10. ImxTypes'
  BY <1>3, <1>7, <1>8, <1>9 DEF ImxTypes
<1>11. up[c] # "off"
  BY <1>1, <1>2 DEF SetInv, OffIdle
<1>12. \A q \in Callers : \/ call'[q] = Doubt(c, "BLKLEVEL")[q]
                          \/ ~ Told(q) /\ ~ Told(q)' /\ call'[q].cam = c
  <2>1. ~ Told(p)' /\ call'[p].cam = c
    BY <1>4, <1>6 DEF Told
  <2> QED BY <1>1, <1>6, <2>1
<1>13. \A d \in Sensors : \A r \in SetRegs : (d # c \/ r # "BLKLEVEL") =>
          regs'[d][r] = regs[d][r] /\ \A s \in SettingsOf(r) : asked'[d][s] = asked[d][s]
  <2>1. \A r \in SetRegs : r # "BLKLEVEL" => "BLKLEVEL" \notin SettingsOf(r)
    BY <1>5, OneSetting
  <2> QED BY <1>8, <1>9, <2>1, SettingNames, OneSetting
<1>14. \A s \in SettingsOf("BLKLEVEL") : asked'[c][s] = Unknown
  BY <1>5, <1>9
<1>15. SetInv'
  BY <1>3, <1>5, <1>10, <1>11, <1>12, <1>13, <1>14, DoubtStep
<1> QED BY <1>10, <1>15

LEMMA DebugStep ==
    ASSUME ImxTypes, SetInv, NEW c \in Sensors, reg_debug_set(c)
    PROVE  ImxTypes' /\ SetInv'
<1>1. up[c] = "up" /\ UNCHANGED <<model, up, priv, column, xhs>>
  BY DEF reg_debug_set
<1>2. CASE regs' = [regs EXCEPT ![c].HVMODE = 1] /\ UNCHANGED <<asked, call>>
  <2>1. RegsType' /\ \A d \in Sensors : \A s \in RegNames : (d # c \/ s # "HVMODE") => regs'[d][s] = regs[d][s]
    <3>1. Written(c, "HVMODE", 1)
      BY <1>2, Zenon DEF Written
    <3>2. "HVMODE" \in RegNames \ SetRegs
      BY DEF RegNames, SetRegs, Levels
    <3> QED BY <3>1, <3>2, OneWrite
  <2>2. ImxTypes'
    BY <1>1, <1>2, <2>1 DEF ImxTypes
  <2>3. \A d \in Sensors : \A r \in SetRegs : regs'[d][r] = regs[d][r]
    <3>1. \A r \in SetRegs : r \in RegNames /\ r # "HVMODE"
      BY SettingNames
    <3> QED BY <2>1, <3>1
  <2>4. SetInv'
    BY <1>1, <1>2, <2>3, SettingsKept
  <2> QED BY <2>2, <2>4
<1>3. CASE /\ regs' = [regs EXCEPT ![c].REVERSE = [f \in Flips |-> 1]]
           /\ Settle(c, Flips, FALSE, << >>) /\ call' = Doubt(c, "REVERSE")
  <2> DEFINE v == [f \in Flips |-> 1]
  <2>1. v \in [Flips -> {0, 1}] /\ Written(c, "REVERSE", v)
    BY <1>3 DEF Written
  <2> HIDE DEF v
  <2>2. RegsType' /\ \A d \in Sensors : \A r \in RegNames : (d # c \/ r # "REVERSE") => regs'[d][r] = regs[d][r]
    BY <2>1, ReverseWrites
  <2>3. /\ asked' \in [Sensors -> [Flips \cup Levels -> Int]]
        /\ \A d \in Sensors \ {c} : asked'[d] = asked[d]
        /\ \A s \in Flips \cup Levels : asked'[c][s] = IF s \notin Flips THEN asked[c][s] ELSE Unknown
    BY <1>3, SettleUnknown
  <2>4. "REVERSE" \in SetRegs /\ SettingsOf("REVERSE") = Flips
    BY DEF SetRegs, SettingsOf
  <2>5. \A q \in Callers : call'[q] = Doubt(c, "REVERSE")[q]
    BY <1>3
  <2>6. call' \in [Callers -> ImxCall]
    <3>1. \A q \in Callers : call'[q] \in ImxCall
      BY <2>4, <2>5, Doubted
    <3>2. call' = [q \in Callers |-> call'[q]]
      BY <1>3 DEF Doubt
    <3> QED BY <3>1, <3>2
  <2>7. ImxTypes'
    BY <1>1, <2>2, <2>3, <2>6 DEF ImxTypes
  <2>8. \A d \in Sensors : \A r \in SetRegs : (d # c \/ r # "REVERSE") =>
            regs'[d][r] = regs[d][r] /\ \A s \in SettingsOf(r) : asked'[d][s] = asked[d][s]
    <3>1. \A r \in SetRegs : r # "REVERSE" => \A s \in SettingsOf(r) : s \notin Flips
      BY <2>4, OneSetting
    <3> QED BY <2>2, <2>3, <3>1, SettingNames, OneSetting
  <2>9. \A s \in SettingsOf("REVERSE") : asked'[c][s] = Unknown
    BY <2>3, <2>4
  <2>10. SetInv'
    BY <1>1, <2>4, <2>5, <2>7, <2>8, <2>9, DoubtStep
  <2> QED BY <2>7, <2>10
<1> QED BY <1>2, <1>3 DEF reg_debug_set

LEMMA SetInit == ImxInit => ImxTypes /\ SetInv
<1> SUFFICES ASSUME ImxInit PROVE ImxTypes /\ SetInv
  OBVIOUS
<1>1. ImxTypes
  BY TypesInit
<1>2. /\ \A p \in Callers : call[p] = Idle /\ ~ Told(p)
      /\ \A c \in Sensors : up[c] = "off" /\ \A s \in Flips \cup Levels : asked[c][s] = Unknown
  BY DEF ImxInit, Told, Idle
<1>3. \A c \in Sensors : \A reg \in SetRegs : HeldAt(c, reg)
  <2>1. \A c \in Sensors : \A reg \in SetRegs : \A s \in SettingsOf(reg) : asked[c][s] = Unknown
    BY <1>2, OneSetting
  <2> QED BY <2>1, UnknownHolds
<1>4. AloneTells /\ GoodIsRight
  BY <1>2 DEF AloneTells, GoodIsRight, Tells, Told
<1> QED BY <1>1, <1>2, <1>3, <1>4 DEF SetInv, Held, OffIdle

LEMMA SetNext ==
    ASSUME ImxTypes, SetInv, [ImxNext]_imxVars
    PROVE  ImxTypes' /\ SetInv'
<1>1. CASE ImxNext
  <2>1. CASE \E c \in Sensors : sensor_init_param(c)
    BY <2>1, InitParamStep
  <2>2. CASE \E c \in Sensors : reg_debug_set(c)
    BY <2>2, DebugStep
  <2>3. ASSUME NEW p \in Callers, Ioctl(p)
        PROVE  ImxTypes' /\ SetInv'
    <3>1. CASE SetRoi(p) \/ Wake(p) \/ \E c \in Sensors : sensor_debug_pic_set(p, c)
      BY <3>1, RoiStep
    <3>2. CASE PicBlack(p)
      BY <3>2, PicBlackStep
    <3>3. CASE set_filp_write(p)
      BY <3>3, FlipStep
    <3>4. CASE set_level_high(p)
      BY <3>4, HighStep
    <3>5. CASE \E c \in Sensors, type \in Flips, val \in {0, 1} : set_filp_read(p, c, type, val)
      BY <3>5, ReadStep
    <3>6. CASE \E c \in Sensors, reg \in Levels, val \in LevelValues : set_level_low(p, c, reg, val)
      BY <3>6, LowStep
    <3> QED BY <2>3, <3>1, <3>2, <3>3, <3>4, <3>5, <3>6 DEF Ioctl
  <2> QED BY <1>1, <2>1, <2>2, <2>3 DEF ImxNext
<1>2. CASE UNCHANGED imxVars
  <2>1. UNCHANGED <<model, up, regs, priv, column, xhs, call, asked>>
    BY <1>2 DEF imxVars
  <2>2. ImxTypes'
    BY <2>1 DEF ImxTypes, RegsType
  <2>3. \A q \in Callers : call'[q] = call[q]
    BY <2>1
  <2>4. SetInv'
    BY <2>1, <2>3, SettingsKept
  <2> QED BY <2>2, <2>4
<1> QED BY <1>1, <1>2

(* Calls, private data, column and settings always have their types.       *)
THEOREM ImxTypeCorrect == ImxSpec => []ImxTypes
<1>1. ImxInit => ImxTypes /\ SetInv
  BY SetInit
<1>2. ImxTypes /\ SetInv /\ [ImxNext]_imxVars => (ImxTypes /\ SetInv)'
  BY SetNext
<1> QED BY <1>1, <1>2, PTL DEF ImxSpec

(* A flip, a gain in range or a black level in range that was told by a call *)
(* whose register nobody wrote meanwhile is in the register until the next  *)
(* call that writes it, whatever other settings, images and test pictures   *)
(* the callers program meanwhile on any sensor; only a test picture of the  *)
(* IMX566 takes the black level away with it.                               *)
THEOREM SettingsStay == ImxSpec => []SettingsAsAsked
<1>1. ImxInit => ImxTypes /\ SetInv
  BY SetInit
<1>2. ImxTypes /\ SetInv /\ [ImxNext]_imxVars => (ImxTypes /\ SetInv)'
  BY SetNext
<1>3. SetInv => SettingsAsAsked
  BY HeldIsAsked DEF SetInv
<1> QED BY <1>1, <1>2, <1>3, PTL DEF ImxSpec

(***************************************************************************)
(* Images.  The invariant says how far a call has brought the sensor whose *)
(* image is to be trusted: the pulses from "fill" on, the shared cells     *)
(* from "standby" on, the registers row by row.                            *)
(***************************************************************************)
Zero(c) == priv[c].gate = <<0, 0, 0>>
Busy(c) == \E p \in Callers : call[p].pc \in AtCell /\ call[p].cam = c
Cell(c) == [VMAX |-> priv[c].vmax, HMAX |-> priv[c].hmax, HEIGHT |-> priv[c].height]

\* What the loop writes once the cells hold what the camera put there.
Want(c, j) ==
    LET row == Rows(model[c])[j] IN
    IF row.reuse = 1 THEN AtBinning(row, priv[c].binning)
    ELSE IF row.reuse = 2 /\ priv[c].binning # 0 THEN row.val_2[priv[c].bit + 1]
    ELSE IF row.val_1 = << >> THEN Cell(c)[row.reg]
    ELSE row.val_1[priv[c].bit + 1]
RowsIn(c, n) == \A j \in 1 .. n : regs[c][RowRegs[j]] = Want(c, j)

FirstHv(c) == regs[c].HVMODE = Rows(model[c])[1].val_1[1]
FirstMode(c) ==
    /\ FirstHv(c)
    /\ \E bit \in Bits : /\ regs[c].Gate = SetParm(model[c], bit, 0).gate
                         /\ regs[c].ADBIT = Rows(model[c])[6].val_1[bit + 1]

PrivOk(c) ==
    /\ ~ Zero(c) => Computed(c)
    /\ Zero(c) => xhs[c] = 0 /\ ~ Busy(c)
    /\ up[c] # "up" => Zero(c) /\ \A p \in Callers : call[p] # Idle => call[p].cam # c
    /\ up[c] = "off" => FirstHv(c)
Apart(p, q, c, d) ==
    p # q /\ Programming(p) /\ Programming(q) /\ call[p].cam = c /\ call[q].cam = d =>
        /\ c = d => c \in hurt
        /\ (/\ call[p].pc \in AtCell /\ call[q].pc \in AtCell
            /\ model[c] = model[d] /\ priv[c].bit = priv[d].bit) => c \in hurt /\ d \in hurt
Staged(p, c) ==
    Programming(p) /\ call[p].cam = c /\ c \notin hurt =>
        /\ call[p].pc \in {"fill", "standby", "rows"} => xhs[c] = 2 * priv[c].period
        /\ call[p].pc \in {"standby", "rows"} => column[model[c]][priv[c].bit] = Cell(c)
        /\ call[p].pc = "rows" => RowsIn(c, call[p].row - 1)
Settled(c) == IF Zero(c) THEN FirstMode(c) ELSE xhs[c] = 2 * priv[c].period /\ RowsIn(c, 6)
ReadyOk(c) == up[c] = "up" /\ c \notin hurt /\ ~ Busy(c) => Settled(c)

ImgInv ==
    /\ \A c \in Sensors : PrivOk(c) /\ ReadyOk(c)
    /\ \A p \in Callers, c \in Sensors : Staged(p, c)
    /\ \A p, q \in Callers, c, d \in Sensors : Apart(p, q, c, d)

(* The rows a whole loop leaves are the image of OwnImage and OneMode.     *)
LEMMA LineLasts ==
    ASSUME NEW h \in Int
    PROVE  h * Mega <= (orin_calculate_pwm_period(h).period + 14) * input_freq
BY SMT DEF orin_calculate_pwm_period, Ceil, input_freq, Mega

LEMMA TwoLines ==
    ASSUME NEW h \in Int, NEW k \in Int, h * Mega <= (k + 14) * input_freq
    PROVE  2 * h * Mega <= (2 * k + 28) * input_freq
BY SMT DEF Mega, input_freq

LEMMA RowShapes ==
    ASSUME NEW m \in Models
    PROVE  /\ Rows(m)[1].reuse = 1
           /\ Rows(m)[2].reuse = 2 /\ Rows(m)[2].val_1 = << >> /\ Rows(m)[2].reg = "VMAX"
           /\ Rows(m)[3].reuse = 2 /\ Rows(m)[3].val_1 = << >> /\ Rows(m)[3].reg = "HMAX"
           /\ Rows(m)[4].reuse = 2
           /\ Rows(m)[5].reuse = 0 /\ Rows(m)[5].val_1 = << >> /\ Rows(m)[5].reg = "HEIGHT"
           /\ Rows(m)[6].reuse = 3
BY DEF Rows, sensor_imx565_bit, sensor_imx566_bit, Models

LEMMA FullRows ==
    ASSUME NEW m \in Models
    PROVE  Rows(m)[4].val_1 # << >> /\ Rows(m)[6].val_1 # << >>
<1>1. Len(Rows(m)[4].val_1) = 3 /\ Len(Rows(m)[6].val_1) = 3
  BY DEF Rows, sensor_imx565_bit, sensor_imx566_bit, Models
<1>2. Len(<< >>) # 3
  OBVIOUS
<1> QED BY <1>1, <1>2, Zenon

LEMMA RowValues ==
    ASSUME NEW m \in Models, NEW bit \in Bits, NEW binning \in Binnings
    PROVE  /\ binning = 0 => Rows(m)[4].val_1[bit + 1] = SetParm(m, bit, binning).gate
           /\ binning # 0 => /\ Rows(m)[4].val_2[bit + 1] = SetParm(m, bit, binning).gate
                             /\ Rows(m)[3].val_2[bit + 1] = SetParm(m, bit, binning).hmax
<1>1. bit = 0 \/ bit = 1 \/ bit = 2
  BY DEF Bits
<1>2. binning = 0 => Rows(m)[4].val_1[bit + 1] = SetParm(m, bit, binning).gate
  <2>1. CASE m = "imx565"
    BY <1>1, <2>1 DEF Rows, sensor_imx565_bit, SetParm, imx565SetParm, Parm
  <2>2. CASE m = "imx566"
    BY <1>1, <2>2 DEF Rows, sensor_imx566_bit, SetParm, imx566SetParm, Parm
  <2> QED BY <2>1, <2>2 DEF Models
<1>3. binning # 0 => Rows(m)[4].val_2[bit + 1] = SetParm(m, bit, binning).gate
  <2>1. CASE m = "imx565"
    BY <1>1, <2>1 DEF Rows, sensor_imx565_bit, SetParm, imx565SetParm, Parm
  <2>2. CASE m = "imx566"
    BY <1>1, <2>2 DEF Rows, sensor_imx566_bit, SetParm, imx566SetParm, Parm
  <2> QED BY <2>1, <2>2 DEF Models
<1>4. binning # 0 => Rows(m)[3].val_2[bit + 1] = SetParm(m, bit, binning).hmax
  <2>1. CASE m = "imx565"
    BY <1>1, <2>1 DEF Rows, sensor_imx565_bit, SetParm, imx565SetParm, Parm
  <2>2. CASE m = "imx566"
    BY <1>1, <2>2 DEF Rows, sensor_imx566_bit, SetParm, imx566SetParm, Parm
  <2> QED BY <2>1, <2>2 DEF Models
<1> QED BY <1>2, <1>3, <1>4

LEMMA Wanted ==
    ASSUME ImxTypes, NEW c \in Sensors
    PROVE  /\ Want(c, 1) = AtBinning(Rows(model[c])[1], priv[c].binning)
           /\ priv[c].binning = 0 => Want(c, 2) = priv[c].vmax /\ Want(c, 3) = priv[c].hmax
           /\ priv[c].binning # 0 => Want(c, 3) = SetParm(model[c], priv[c].bit, priv[c].binning).hmax
           /\ Want(c, 4) = SetParm(model[c], priv[c].bit, priv[c].binning).gate
           /\ Want(c, 5) = priv[c].height
           /\ Want(c, 6) = Rows(model[c])[6].val_1[priv[c].bit + 1]
<1> DEFINE bit == priv[c].bit
           bin == priv[c].binning
           m   == model[c]
<1>1. bit \in Bits /\ bin \in Binnings /\ m \in Models
  BY DEF ImxTypes, Priv
<1>2. Cell(c)["VMAX"] = priv[c].vmax /\ Cell(c)["HMAX"] = priv[c].hmax /\ Cell(c)["HEIGHT"] = priv[c].height
  BY DEF Cell
<1> HIDE DEF bit, bin, m
<1>3. \A j \in 1 .. 6 :
         Want(c, j) = LET row == Rows(m)[j] IN
                      IF row.reuse = 1 THEN AtBinning(row, bin)
                      ELSE IF row.reuse = 2 /\ bin # 0 THEN row.val_2[bit + 1]
                      ELSE IF row.val_1 = << >> THEN Cell(c)[row.reg]
                      ELSE row.val_1[bit + 1]
  BY DEF Want, bit, bin, m
<1>4. Want(c, 1) = AtBinning(Rows(m)[1], bin)
  BY <1>1, <1>3, RowShapes
<1>5. bin = 0 => Want(c, 2) = priv[c].vmax /\ Want(c, 3) = priv[c].hmax
  BY <1>1, <1>2, <1>3, RowShapes
<1>6. bin # 0 => Want(c, 3) = SetParm(m, bit, bin).hmax
  BY <1>1, <1>3, RowShapes, RowValues
<1>7. Want(c, 4) = SetParm(m, bit, bin).gate
  BY <1>1, <1>3, RowShapes, FullRows, RowValues
<1>8. Want(c, 5) = priv[c].height
  BY <1>1, <1>2, <1>3, RowShapes
<1>9. Want(c, 6) = Rows(m)[6].val_1[bit + 1]
  BY <1>1, <1>3, RowShapes, FullRows
<1> QED BY <1>4, <1>5, <1>6, <1>7, <1>8, <1>9 DEF bit, bin, m

LEMMA ImageSeen ==
    ASSUME ImxTypes, ImgInv
    PROVE  OwnImage /\ OneMode
<1>1. ASSUME NEW c \in Sensors, Quiet(c) PROVE Settled(c) /\ PrivOk(c)
  <2>1. up[c] = "up" /\ c \notin hurt
    BY <1>1 DEF Quiet
  <2>2. ~ Busy(c)
    <3>1. ASSUME NEW p \in Callers, call[p].pc \in AtCell, call[p].cam = c PROVE FALSE
      <4>1. call[p] # Idle /\ Programming(p)
        BY <3>1 DEF AtCell, Idle, Programming
      <4> QED BY <1>1, <3>1, <4>1 DEF Quiet, InUse
    <3> QED BY <3>1 DEF Busy
  <2> QED BY <2>1, <2>2 DEF ImgInv, ReadyOk
<1>2. /\ RowRegs[1] = "HVMODE" /\ RowRegs[2] = "VMAX" /\ RowRegs[3] = "HMAX"
      /\ RowRegs[4] = "Gate" /\ RowRegs[5] = "HEIGHT" /\ RowRegs[6] = "ADBIT"
  BY DEF RowRegs
<1>3. ASSUME NEW c \in Sensors, Quiet(c), ~ Zero(c)
      PROVE  /\ regs[c].HVMODE = Want(c, 1) /\ regs[c].VMAX = Want(c, 2) /\ regs[c].HMAX = Want(c, 3)
             /\ regs[c].Gate = Want(c, 4) /\ regs[c].HEIGHT = Want(c, 5) /\ regs[c].ADBIT = Want(c, 6)
             /\ xhs[c] = 2 * priv[c].period
  <2>1. RowsIn(c, 6) /\ xhs[c] = 2 * priv[c].period
    BY <1>1, <1>3 DEF Settled
  <2>2. \A j \in 1 .. 6 : regs[c][RowRegs[j]] = Want(c, j)
    BY <2>1 DEF RowsIn
  <2> QED BY <1>2, <2>1, <2>2
<1>4. OwnImage
  BY <1>3, Wanted DEF OwnImage, Zero, Normal
<1>5. ASSUME NEW c \in Sensors, Quiet(c)
      PROVE  /\ \E bit \in Bits, binning \in Binnings \ {3} :
                   /\ regs[c].Gate = SetParm(model[c], bit, binning).gate
                   /\ regs[c].ADBIT = Rows(model[c])[6].val_1[bit + 1]
                   /\ priv[c].binning # 3 => regs[c].HVMODE = AtBinning(Rows(model[c])[1], binning)
             /\ xhs[c] # 0 => 2 * regs[c].HMAX * Mega <= (xhs[c] + 28) * input_freq
  <2>1. CASE Zero(c)
    <3>1. FirstMode(c) /\ xhs[c] = 0
      BY <1>1, <1>5, <2>1 DEF Settled, PrivOk
    <3>2. 0 \in Binnings \ {3} /\ AtBinning(Rows(model[c])[1], 0) = Rows(model[c])[1].val_1[1]
      BY DEF Binnings, AtBinning
    <3> QED BY <3>1, <3>2 DEF FirstMode, FirstHv
  <2>2. CASE ~ Zero(c)
    <3> DEFINE bit == priv[c].bit  bin == priv[c].binning  parm == SetParm(model[c], bit, bin)
    <3>1. bit \in Bits /\ bin \in Binnings /\ model[c] \in Models
      BY DEF ImxTypes, Priv
    <3>2. /\ regs[c].Gate = parm.gate
          /\ regs[c].ADBIT = Rows(model[c])[6].val_1[bit + 1]
          /\ regs[c].HVMODE = AtBinning(Rows(model[c])[1], bin)
      BY <1>3, <1>5, <2>2, Wanted
    <3>3. Computed(c)
      BY <1>1, <1>5, <2>2 DEF PrivOk
    <3>4. parm.hmax \in Int
      BY <3>1, ParmIsGate
    <3> DEFINE line == orin_calculate_pwm_period(parm.hmax)
    <3>5. xhs[c] = 2 * line.period /\ priv[c].hmax = line.hmax
      BY <1>3, <1>5, <2>2, <3>3, Zenon DEF Computed, Line
    <3>6. regs[c].HMAX = IF bin = 0 THEN line.hmax ELSE parm.hmax
      BY <1>3, <1>5, <2>2, <3>5, Wanted
    <3> HIDE DEF parm
    <3>7. line.hmax * Mega <= (line.period + 14) * input_freq /\ parm.hmax * Mega <= (line.period + 14) * input_freq
      BY <3>4, LineIsInt, LineLasts, Zenon
    <3> HIDE DEF line
    <3>8. 2 * regs[c].HMAX * Mega <= (xhs[c] + 28) * input_freq
      <4>1. line.hmax \in Int /\ line.period \in Int
        BY <3>4, LineIsInt DEF line
      <4>2. /\ 2 * line.hmax * Mega <= (2 * line.period + 28) * input_freq
            /\ 2 * parm.hmax * Mega <= (2 * line.period + 28) * input_freq
        BY <3>4, <3>7, <4>1, TwoLines
      <4> QED BY <3>5, <3>6, <4>2, Zenon
    <3> DEFINE b == IF bin = 3 THEN 2 ELSE bin
    <3>9. b \in Binnings \ {3} /\ SetParm(model[c], bit, b).gate = parm.gate /\ (bin # 3 => b = bin)
      <4>1. b \in Binnings \ {3} /\ (bin # 3 => b = bin)
        BY <3>1 DEF Binnings
      <4>2. CASE bin = 3
        <5>1. b = 2 /\ SetParm(model[c], bit, 2) = SetParm(model[c], bit, 3)
          BY <4>2 DEF SetParm
        <5>2. SetParm(model[c], bit, b) = parm
          BY <4>2, <5>1, Zenon DEF parm
        <5> HIDE DEF b
        <5> QED BY <4>1, <5>2
      <4>3. CASE bin # 3
        BY <4>1, <4>3 DEF parm
      <4> QED BY <4>2, <4>3
    <3> HIDE DEF b
    <3> QED BY <3>1, <3>2, <3>8, <3>9
  <2> QED BY <2>1, <2>2
<1>6. OneMode
  BY <1>5, Zenon DEF OneMode
<1> QED BY <1>4, <1>6

(* What a step that leaves a sensor and its private data alone keeps.      *)
SameRows(c) == \A j \in 1 .. 6 : regs'[c][RowRegs[j]] = regs[c][RowRegs[j]]
SameCam(c) == model'[c] = model[c] /\ priv'[c] = priv[c] /\ SameRows(c)

LEMMA SensorKept ==
    ASSUME NEW c \in Sensors, SameCam(c)
    PROVE  /\ Zero(c)' <=> Zero(c)
           /\ Computed(c)' <=> Computed(c)
           /\ FirstHv(c)' <=> FirstHv(c)
           /\ FirstMode(c)' <=> FirstMode(c)
           /\ Cell(c)' = Cell(c)
           /\ \A j \in 1 .. 6 : Want(c, j)' = Want(c, j)
           /\ \A n \in 0 .. 6 : RowsIn(c, n)' <=> RowsIn(c, n)
<1>0. model'[c] = model[c] /\ priv'[c] = priv[c]
  BY DEF SameCam
<1>1. Zero(c)' <=> Zero(c)
  BY <1>0 DEF Zero
<1>2. Computed(c)' <=> Computed(c)
  BY <1>0, Zenon DEF Computed
<1>3. regs'[c].HVMODE = regs[c].HVMODE /\ regs'[c].Gate = regs[c].Gate /\ regs'[c].ADBIT = regs[c].ADBIT
  BY DEF SameCam, SameRows, RowRegs
<1>4. FirstHv(c)' <=> FirstHv(c)
  BY <1>0, <1>3, Zenon DEF FirstHv
<1>5. FirstMode(c)' <=> FirstMode(c)
  BY <1>0, <1>3, <1>4, Zenon DEF FirstMode
<1>6. Cell(c)' = Cell(c)
  BY <1>0, Zenon DEF Cell
<1>7. ASSUME NEW j \in 1 .. 6 PROVE Want(c, j)' = Want(c, j)
  BY <1>0, <1>6, Zenon DEF Want
<1>8. ASSUME NEW n \in 0 .. 6 PROVE RowsIn(c, n)' <=> RowsIn(c, n)
  <2>1. \A j \in 1 .. n : j \in 1 .. 6
    OBVIOUS
  <2>2. \A j \in 1 .. n : regs'[c][RowRegs[j]] = regs[c][RowRegs[j]] /\ Want(c, j)' = Want(c, j)
    BY <1>7, <2>1 DEF SameCam, SameRows
  <2> QED BY <2>2 DEF RowsIn
<1> QED BY <1>1, <1>2, <1>4, <1>5, <1>6, <1>7, <1>8

LEMMA SettledKept ==
    ASSUME NEW c \in Sensors, SameCam(c), xhs'[c] = xhs[c]
    PROVE  Settled(c)' <=> Settled(c)
<1>1. priv'[c].period = priv[c].period
  BY DEF SameCam
<1>2. 6 \in 0 .. 6
  OBVIOUS
<1>3. Zero(c)' <=> Zero(c)
  BY SensorKept
<1>4. FirstMode(c)' <=> FirstMode(c)
  BY SensorKept
<1>5. RowsIn(c, 6)' <=> RowsIn(c, 6)
  BY <1>2, SensorKept
<1> QED BY <1>1, <1>3, <1>4, <1>5 DEF Settled

(* A call that goes on, and the calls that do not. *)
LEMMA StagedKept ==
    ASSUME ImxTypes, NEW q \in Callers, NEW c \in Sensors, Staged(q, c), call'[q] = call[q],
           c \in hurt => c \in hurt',
           Programming(q) /\ call[q].cam = c => SameCam(c) /\ xhs'[c] = xhs[c],
           call[q].pc \in AtCell /\ call[q].cam = c /\ c \notin hurt =>
               column'[model[c]][priv[c].bit] = column[model[c]][priv[c].bit]
    PROVE  Staged(q, c)'
<1> SUFFICES ASSUME Programming(q)', call'[q].cam = c, c \notin hurt'
             PROVE  Staged(q, c)'
  BY DEF Staged
<1>1. Programming(q) /\ call[q].cam = c /\ c \notin hurt
  BY DEF Programming
<1>2. SameCam(c) /\ xhs'[c] = xhs[c]
      /\ (call[q].pc \in AtCell => column'[model[c]][priv[c].bit] = column[model[c]][priv[c].bit])
  BY <1>1
<1>3. priv'[c] = priv[c] /\ model'[c] = model[c]
  BY <1>2 DEF SameCam
<1>4. Cell(c)' = Cell(c)
  BY <1>2, SensorKept
<1>5. call[q].pc = "rows" => (RowsIn(c, call[q].row - 1)' <=> RowsIn(c, call[q].row - 1))
  <2>1. ASSUME call[q].pc = "rows"
        PROVE  RowsIn(c, call[q].row - 1)' <=> RowsIn(c, call[q].row - 1)
    <3> DEFINE n == call[q].row - 1
    <3>1. n \in 0 .. 6 /\ call'[q].row - 1 = n
      BY <2>1, CallTypes DEF AtRow
    <3>2. \A k \in 0 .. 6 : RowsIn(c, k)' <=> RowsIn(c, k)
      BY <1>2, SensorKept
    <3> QED BY <3>1, <3>2
  <2> QED BY <2>1
<1>6. /\ call[q].pc \in {"fill", "standby", "rows"} => xhs[c] = 2 * priv[c].period
      /\ call[q].pc \in {"standby", "rows"} => column[model[c]][priv[c].bit] = Cell(c)
      /\ call[q].pc = "rows" => RowsIn(c, call[q].row - 1)
  BY <1>1 DEF Staged
<1> QED BY <1>2, <1>3, <1>4, <1>5, <1>6 DEF Staged, AtCell

LEMMA AtCellWorks ==
    ASSUME ImxTypes, NEW p \in Callers
    PROVE  /\ call[p].pc \in AtCell => Programming(p)
           /\ Programming(p) => call[p] # Idle /\ call[p].cam \in Sensors
<1>1. call[p].pc \in AtCell => Programming(p)
  BY DEF AtCell, Programming
<1>2. Programming(p) => call[p] # Idle
  BY DEF Programming, Idle
<1> QED BY <1>1, <1>2, CallTypes

(* One call goes on, on camera c, whose private data it leaves alone.      *)
LEMMA OneCallMoves ==
    ASSUME ImxTypes, ImxTypes', ImgInv, NEW p \in Callers, NEW c \in Sensors, up[c] = "up",
           \A q \in Callers \ {p} : call'[q] = call[q],
           call[p] # Idle => call[p].cam = c, call'[p] # Idle => call'[p].cam = c,
           UNCHANGED <<model, up, priv>>, hurt \subseteq hurt',
           \A d \in Sensors \ {c} : SameRows(d) /\ xhs'[d] = xhs[d],
           call'[p].pc \in AtCell => call[p].pc \in AtCell,
           call[p].pc \in AtCell \/ (xhs'[c] = xhs[c] /\ UNCHANGED column),
           \A m \in Models, b \in Bits : (m # model[c] \/ b # priv[c].bit) => column'[m][b] = column[m][b],
           \A q \in Callers \ {p} : Programming(q) /\ call[q].cam = c => c \in hurt',
           Staged(p, c)', ReadyOk(c)'
    PROVE  ImgInv'
<1>1. \A d \in Sensors \ {c} : SameCam(d)
  BY DEF SameCam
<1>2. /\ call[p].pc \in AtCell => call[p].cam = c /\ Programming(p)
      /\ Programming(p)' => call'[p].cam = c
      /\ call'[p].pc \in AtCell => call'[p].cam = c
  <2>1. call[p].pc \in AtCell => call[p] # Idle /\ Programming(p)
    BY AtCellWorks
  <2>2. Programming(p)' => call'[p] # Idle
    BY DEF Programming, Idle
  <2>3. call'[p].pc \in AtCell => call'[p] # Idle
    BY DEF AtCell, Idle
  <2> QED BY <2>1, <2>2, <2>3
<1>3. ASSUME NEW d \in Sensors \ {c} PROVE Busy(d)' <=> Busy(d)
  <2>1. ASSUME NEW q \in Callers
        PROVE  (call'[q].pc \in AtCell /\ call'[q].cam = d) <=> (call[q].pc \in AtCell /\ call[q].cam = d)
    BY <1>2
  <2> QED BY <2>1 DEF Busy
<1>4. ASSUME NEW d \in Sensors PROVE PrivOk(d)'
  <2>0. PrivOk(d)
    BY DEF ImgInv
  <2>1. CASE d # c
    <3>1. (Zero(d)' <=> Zero(d)) /\ (Computed(d)' <=> Computed(d)) /\ (FirstHv(d)' <=> FirstHv(d))
      BY <1>1, <2>1, SensorKept
    <3>2. (Busy(d)' <=> Busy(d)) /\ xhs'[d] = xhs[d]
      BY <1>3, <2>1
    <3>3. ASSUME NEW q \in Callers, up[d] # "up", call'[q] # Idle PROVE call'[q].cam # d
      BY <2>0, <2>1, <3>3 DEF PrivOk
    <3> QED BY <2>0, <3>1, <3>2, <3>3 DEF PrivOk
  <2>2. CASE d = c
    <3>1. (Zero(c)' <=> Zero(c)) /\ (Computed(c)' <=> Computed(c))
      BY Zenon DEF Zero, Computed
    <3>2. ASSUME Zero(c) PROVE xhs'[c] = 0 /\ ~ Busy(c)'
      <4>1. xhs[c] = 0 /\ ~ Busy(c)
        BY <2>0, <2>2, <3>2 DEF PrivOk
      <4>2. call[p].pc \notin AtCell
        BY <1>2, <4>1 DEF Busy
      <4>3. ~ Busy(c)'
        BY <4>1, <4>2 DEF Busy
      <4> QED BY <4>1, <4>2, <4>3
    <3> QED BY <2>0, <2>2, <3>1, <3>2 DEF PrivOk
  <2> QED BY <2>1, <2>2
<1>5. ASSUME NEW d \in Sensors PROVE ReadyOk(d)'
  <2>1. CASE d # c
    <3>1. Settled(d)' <=> Settled(d)
      BY <1>1, <2>1, SettledKept
    <3>2. ReadyOk(d)
      BY DEF ImgInv
    <3> QED BY <1>3, <2>1, <3>1, <3>2 DEF ReadyOk
  <2> QED BY <2>1
<1>6. ASSUME NEW q \in Callers, NEW d \in Sensors PROVE Staged(q, d)'
  <2>1. CASE q = p
    BY <1>2, <2>1 DEF Staged
  <2>2. CASE q # p /\ d = c
    BY <2>2 DEF Staged, Programming
  <2>3. CASE q # p /\ d # c
    <3>1. Staged(q, d) /\ call'[q] = call[q]
      BY <2>3 DEF ImgInv
    <3>2. SameCam(d) /\ xhs'[d] = xhs[d]
      BY <1>1, <2>3
    <3>3. ASSUME call[q].pc \in AtCell, call[q].cam = d, d \notin hurt
          PROVE  column'[model[d]][priv[d].bit] = column[model[d]][priv[d].bit]
      <4>1. model[d] \in Models /\ priv[d].bit \in Bits
        BY DEF ImxTypes, Priv
      <4>2. CASE call[p].pc \in AtCell
        <5>1. Apart(p, q, c, d) /\ Programming(p) /\ Programming(q) /\ call[p].cam = c
          BY <1>2, <3>3, <4>2, AtCellWorks DEF ImgInv
        <5>2. model[c] # model[d] \/ priv[c].bit # priv[d].bit
          BY <2>3, <3>3, <4>2, <5>1 DEF Apart
        <5> QED BY <4>1, <5>2
      <4>3. CASE UNCHANGED column
        BY <4>3
      <4> QED BY <4>2, <4>3
    <3> QED BY <3>1, <3>2, <3>3, StagedKept
  <2> QED BY <2>1, <2>2, <2>3
<1>7. ASSUME NEW q \in Callers, NEW r \in Callers, NEW d \in Sensors, NEW e \in Sensors
      PROVE  Apart(q, r, d, e)'
  <2>0. /\ Apart(q, r, d, e) /\ Apart(p, r, c, e) /\ Apart(p, q, c, d)
        /\ \A f \in Sensors : model'[f] = model[f] /\ priv'[f].bit = priv[f].bit
    BY DEF ImgInv
  <2>1. CASE q # p /\ r # p
    BY <2>0, <2>1 DEF Apart, Programming
  <2>2. CASE q = p /\ r # p
    BY <1>2, <2>0, <2>2 DEF Apart, Programming
  <2>3. CASE q # p /\ r = p
    BY <1>2, <2>0, <2>3 DEF Apart, Programming
  <2>4. CASE q = r
    BY <2>4 DEF Apart
  <2> QED BY <2>1, <2>2, <2>3, <2>4
<1> QED BY <1>4, <1>5, <1>6, <1>7 DEF ImgInv

LEMMA AtWork ==
    ASSUME ImxTypes, ImgInv, NEW p \in Callers, Programming(p)
    PROVE  /\ call[p].cam \in Sensors /\ up[call[p].cam] = "up" /\ call[p] # Idle
           /\ call[p].pc \in AtCell => ~ Zero(call[p].cam)
           /\ \A q \in Callers \ {p} : Programming(q) /\ call[q].cam = call[p].cam => call[p].cam \in hurt
           /\ Staged(p, call[p].cam)
<1> DEFINE c == call[p].cam
<1>1. c \in Sensors /\ call[p] # Idle
  BY AtCellWorks
<1>2. PrivOk(c) /\ Staged(p, c) /\ \A q \in Callers : Apart(p, q, c, c)
  BY <1>1 DEF ImgInv
<1>3. up[c] = "up"
  BY <1>1, <1>2 DEF PrivOk
<1>4. call[p].pc \in AtCell => ~ Zero(c)
  BY <1>2 DEF PrivOk, Busy
<1>5. \A q \in Callers \ {p} : Programming(q) /\ call[q].cam = c => c \in hurt
  BY <1>2 DEF Apart
<1> QED BY <1>1, <1>2, <1>3, <1>4, <1>5

LEMMA PwmMoves ==
    ASSUME ImxTypes, ImxTypes', ImgInv, NEW p \in Callers, update_xhs_pwm(p)
    PROVE  ImgInv'
<1>1. call[p].pc = "xhs" /\ Programming(p) /\ call[p].pc \in AtCell
  BY DEF update_xhs_pwm, Programming, AtCell
<1>0. PICK c \in Sensors : call[p].cam = c
  BY <1>1, AtWork
<1>2. /\ up[c] = "up" /\ call[p] # Idle
      /\ \A q \in Callers \ {p} : Programming(q) /\ call[q].cam = c => c \in hurt
  BY <1>0, <1>1, AtWork
<1>3. /\ UNCHANGED <<model, up, regs, priv, column>>
      /\ hurt \subseteq hurt' /\ (c \notin hurt' => xhs'[c] = 2 * priv[c].period)
      /\ \A d \in Sensors \ {c} : xhs'[d] = xhs[d]
  BY <1>0 DEF update_xhs_pwm, ImxTypes
<1>4. /\ call'[p].pc = "fill" /\ call'[p].cam = c /\ \A q \in Callers \ {p} : call'[q] = call[q]
  <2>1. call[p] \in Plain
    BY <1>1, CallTypes
  <2>2. call' = [call EXCEPT ![p].pc = "fill"]
    BY DEF update_xhs_pwm
  <2> QED BY <1>0, <2>1, <2>2 DEF ImxTypes, Plain
<1>5. Staged(p, c)'
  BY <1>3, <1>4 DEF Staged
<1>6. ReadyOk(c)'
  <2>1. Busy(c)'
    BY <1>4 DEF Busy, AtCell
  <2> QED BY <2>1 DEF ReadyOk
<1>7. \A d \in Sensors \ {c} : SameRows(d) /\ xhs'[d] = xhs[d]
  BY <1>3 DEF SameRows
<1>8. \A q \in Callers \ {p} : Programming(q) /\ call[q].cam = c => c \in hurt'
  BY <1>2, <1>3
<1> QED BY <1>0, <1>1, <1>2, <1>3, <1>4, <1>5, <1>6, <1>7, <1>8, OneCallMoves

LEMMA FillMoves ==
    ASSUME ImxTypes, ImxTypes', ImgInv, NEW p \in Callers, RoiFill(p)
    PROVE  ImgInv'
<1>1. call[p].pc = "fill" /\ Programming(p) /\ call[p].pc \in AtCell
  BY DEF RoiFill, Programming, AtCell
<1>0. PICK c \in Sensors : call[p].cam = c
  BY <1>1, AtWork
<1>2. /\ up[c] = "up" /\ call[p] # Idle /\ Staged(p, c)
      /\ \A q \in Callers \ {p} : Programming(q) /\ call[q].cam = c => c \in hurt
  BY <1>0, <1>1, AtWork
<1>3. UNCHANGED <<model, up, regs, priv, xhs, hurt>>
  BY DEF RoiFill
<1>4. /\ call'[p].pc = "standby" /\ call'[p].cam = c /\ \A q \in Callers \ {p} : call'[q] = call[q]
  <2>1. call[p] \in Plain
    BY <1>1, CallTypes
  <2>2. call' = [call EXCEPT ![p].pc = "standby"]
    BY DEF RoiFill
  <2> QED BY <1>0, <2>1, <2>2 DEF ImxTypes, Plain
<1>5. /\ column'[model[c]][priv[c].bit] = Cell(c)
      /\ \A m \in Models, b \in Bits : (m # model[c] \/ b # priv[c].bit) => column'[m][b] = column[m][b]
  <2>1. model[c] \in Models /\ priv[c].bit \in Bits
    BY <1>2 DEF ImxTypes, Priv
  <2>2. column' = [column EXCEPT ![model[c]][priv[c].bit] = Cell(c)]
    BY <1>0 DEF RoiFill, Cell
  <2> QED BY <2>1, <2>2 DEF ImxTypes
<1>6. Staged(p, c)'
  <2>1. Cell(c)' = Cell(c)
    BY <1>3, Zenon DEF Cell
  <2>2. c \notin hurt => xhs[c] = 2 * priv[c].period
    BY <1>0, <1>1, <1>2 DEF Staged
  <2> QED BY <1>3, <1>4, <1>5, <2>1, <2>2 DEF Staged
<1>7. ReadyOk(c)'
  <2>1. Busy(c)'
    BY <1>4 DEF Busy, AtCell
  <2> QED BY <2>1 DEF ReadyOk
<1>8. \A d \in Sensors \ {c} : SameRows(d) /\ xhs'[d] = xhs[d]
  BY <1>3 DEF SameRows
<1>9. hurt \subseteq hurt'
  BY <1>3
<1> QED BY <1>0, <1>1, <1>2, <1>3, <1>4, <1>5, <1>6, <1>7, <1>8, <1>9, OneCallMoves

(* A register written by a call: rows of the other sensors stay, and of    *)
(* its own sensor all rows but the one written.                            *)
LEMMA RowWritten ==
    ASSUME ImxTypes, NEW c \in Sensors, NEW r \in RegNames \ SetRegs, NEW v,
           imx_write_reg(c, r, v)
    PROVE  /\ \A d \in Sensors \ {c} : SameRows(d)
           /\ \A j \in 1 .. 6 : RowRegs[j] # r => regs'[c][RowRegs[j]] = regs[c][RowRegs[j]]
           /\ hurt \subseteq hurt' /\ (c \notin hurt' => regs'[c][r] = v)
<1>1. /\ \A d \in Sensors : \A s \in RegNames : (d # c \/ s # r) => regs'[d][s] = regs[d][s]
      /\ regs'[c][r] = v \/ (regs' = regs /\ c \in hurt')
  BY WriteKeeps, SMTT(30)
<1>2. \A j \in 1 .. 6 : RowRegs[j] \in RegNames
  BY SettingNames
<1>3. \A d \in Sensors \ {c} : SameRows(d)
  BY <1>1, <1>2 DEF SameRows
<1>4. hurt \subseteq hurt'
  BY DEF imx_write_reg
<1> QED BY <1>1, <1>2, <1>3, <1>4

LEMMA StandbyMoves ==
    ASSUME ImxTypes, ImxTypes', ImgInv, NEW p \in Callers, RoiStandby(p)
    PROVE  ImgInv'
<1>1. call[p].pc = "standby" /\ Programming(p) /\ call[p].pc \in AtCell
  BY DEF RoiStandby, Programming, AtCell
<1>0. PICK c \in Sensors : call[p].cam = c
  BY <1>1, AtWork
<1>2. /\ up[c] = "up" /\ call[p] # Idle /\ Staged(p, c)
      /\ \A q \in Callers \ {p} : Programming(q) /\ call[q].cam = c => c \in hurt
  BY <1>0, <1>1, AtWork
<1>3. UNCHANGED <<model, up, priv, column, xhs>> /\ imx_write_reg(c, "STANDBY", 1)
  BY <1>0 DEF RoiStandby
<1>4. /\ call'[p].pc = "rows" /\ call'[p].cam = c /\ call'[p].row = 1 /\ \A q \in Callers \ {p} : call'[q] = call[q]
  BY <1>0 DEF RoiStandby, ImxTypes
<1>5. /\ \A d \in Sensors \ {c} : SameRows(d) /\ xhs'[d] = xhs[d]
      /\ hurt \subseteq hurt'
  <2>1. "STANDBY" \in RegNames \ SetRegs
    BY SettingNames
  <2> QED BY <1>3, <2>1, RowWritten
<1>6. Staged(p, c)'
  <2>1. Cell(c)' = Cell(c)
    BY <1>3, Zenon DEF Cell
  <2>2. c \notin hurt => xhs[c] = 2 * priv[c].period /\ column[model[c]][priv[c].bit] = Cell(c)
    BY <1>0, <1>1, <1>2 DEF Staged
  <2>3. RowsIn(c, 0)'
    BY DEF RowsIn
  <2>4. call'[p].row - 1 = 0
    BY <1>4
  <2> QED BY <1>3, <1>4, <1>5, <2>1, <2>2, <2>3, <2>4 DEF Staged
<1>7. ReadyOk(c)'
  <2>1. Busy(c)'
    BY <1>4 DEF Busy, AtCell
  <2> QED BY <2>1 DEF ReadyOk
<1> QED BY <1>0, <1>1, <1>2, <1>3, <1>4, <1>5, <1>6, <1>7, OneCallMoves

LEMMA RowMoves ==
    ASSUME ImxTypes, ImxTypes', ImgInv, NEW p \in Callers, RoiRow(p)
    PROVE  ImgInv'
<1>1. call[p].pc = "rows" /\ Programming(p) /\ call[p].pc \in AtCell
  BY DEF RoiRow, Programming, AtCell
<1>0. PICK c \in Sensors, i \in 1 .. 6 : call[p].cam = c /\ call[p].row = i
  BY <1>1, CallTypes DEF AtRow
<1>2. /\ up[c] = "up" /\ call[p] # Idle /\ Staged(p, c) /\ ~ Zero(c)
      /\ \A q \in Callers \ {p} : Programming(q) /\ call[q].cam = c => c \in hurt
  BY <1>0, <1>1, AtWork
<1> DEFINE row == Rows(model[c])[i]
<1>3. Len(Rows(model[c])) = 6 /\ row.reg = RowRegs[i]
  BY <1>0, RowNames DEF ImxTypes
<1>4. UNCHANGED <<model, up, priv, column, xhs>> /\ imx_write_reg(c, RowRegs[i], RowValue(c, row))
  BY <1>0, <1>3 DEF RoiRow
<1>5. /\ call'[p].cam = c
      /\ IF i = 6 THEN call'[p].pc = "wake" ELSE call'[p].pc = "rows" /\ call'[p].row = i + 1
      /\ \A q \in Callers \ {p} : call'[q] = call[q]
  <2>1. call[p] \in AtRow
    BY <1>1, CallTypes
  <2>2. call' = [call EXCEPT ![p] = IF i = 6 THEN [pc |-> "wake", cam |-> c] ELSE [call[p] EXCEPT !.row = i + 1]]
    BY <1>0, <1>3 DEF RoiRow, ImxTypes
  <2>3. CASE i = 6
    BY <2>2, <2>3 DEF ImxTypes
  <2>4. CASE i # 6
    BY <1>0, <1>1, <2>1, <2>2, <2>4 DEF ImxTypes, AtRow
  <2> QED BY <2>3, <2>4
<1>6. /\ \A d \in Sensors \ {c} : SameRows(d) /\ xhs'[d] = xhs[d]
      /\ \A j \in 1 .. 6 : j # i => regs'[c][RowRegs[j]] = regs[c][RowRegs[j]]
      /\ hurt \subseteq hurt' /\ (c \notin hurt' => regs'[c][RowRegs[i]] = RowValue(c, row))
  <2>1. RowRegs[i] \in RegNames \ SetRegs
    BY SettingNames
  <2>2. /\ \A d \in Sensors \ {c} : SameRows(d)
        /\ \A j \in 1 .. 6 : RowRegs[j] # RowRegs[i] => regs'[c][RowRegs[j]] = regs[c][RowRegs[j]]
        /\ hurt \subseteq hurt' /\ (c \notin hurt' => regs'[c][RowRegs[i]] = RowValue(c, row))
    BY <1>4, <2>1, RowWritten
  <2>3. \A j \in 1 .. 6 : j # i => RowRegs[j] # RowRegs[i]
    BY DEF RowRegs
  <2> QED BY <1>4, <2>2, <2>3
<1>7. c \notin hurt => /\ xhs[c] = 2 * priv[c].period /\ column[model[c]][priv[c].bit] = Cell(c)
                      /\ RowsIn(c, i - 1) /\ RowValue(c, row) = Want(c, i)
  <2>1. c \notin hurt => /\ xhs[c] = 2 * priv[c].period /\ column[model[c]][priv[c].bit] = Cell(c)
                        /\ RowsIn(c, i - 1)
    BY <1>0, <1>1, <1>2 DEF Staged
  <2>2. column[model[c]][priv[c].bit] = Cell(c) => RowValue(c, row) = Want(c, i)
    BY Zenon DEF RowValue, Want
  <2> QED BY <2>1, <2>2
<1>8. c \notin hurt' => RowsIn(c, i)'
  <2>1. \A j \in 1 .. 6 : Want(c, j)' = Want(c, j)
    BY <1>4, Zenon DEF Want, Cell
  <2> SUFFICES ASSUME c \notin hurt', NEW j \in 1 .. i
               PROVE  regs'[c][RowRegs[j]] = Want(c, j)'
    BY DEF RowsIn
  <2>2. CASE j = i
    BY <1>6, <1>7, <2>1, <2>2
  <2>3. CASE j # i
    <3>1. j \in 1 .. (i - 1) /\ j \in 1 .. 6
      BY <2>3
    <3> QED BY <1>6, <1>7, <2>1, <2>3, <3>1 DEF RowsIn
  <2> QED BY <2>2, <2>3
<1> HIDE DEF row
<1>9. Staged(p, c)'
  <2>1. Cell(c)' = Cell(c)
    BY <1>4, Zenon DEF Cell
  <2>2. CASE i = 6
    BY <1>5, <2>2 DEF Staged
  <2>3. CASE i # 6
    <3>1. call'[p].pc = "rows" /\ call'[p].row - 1 = i
      BY <1>5, <2>3
    <3> QED BY <1>4, <1>6, <1>7, <1>8, <2>1, <3>1 DEF Staged
  <2> QED BY <2>2, <2>3
<1>10. ReadyOk(c)'
  <2>1. CASE i = 6
    <3>1. Zero(c)' <=> Zero(c)
      BY <1>4, Zenon DEF Zero
    <3> QED BY <1>2, <1>4, <1>6, <1>7, <1>8, <2>1, <3>1 DEF ReadyOk, Settled
  <2>2. CASE i # 6
    <3>1. Busy(c)'
      BY <1>5, <2>2 DEF Busy, AtCell
    <3> QED BY <3>1 DEF ReadyOk
  <2> QED BY <2>1, <2>2
<1>11. \A q \in Callers \ {p} : Programming(q) /\ call[q].cam = c => c \in hurt'
  BY <1>2, <1>6
<1> QED BY <1>0, <1>1, <1>2, <1>4, <1>5, <1>6, <1>9, <1>10, <1>11, OneCallMoves

(* Standby is not of the image: a step that writes no row leaves it settled. *)
LEMMA ReadyKept ==
    ASSUME NEW c \in Sensors, ReadyOk(c), SameCam(c), xhs'[c] = xhs[c], up'[c] = "up" => up[c] = "up",
           c \notin hurt' => c \notin hurt, Busy(c) => Busy(c)'
    PROVE  ReadyOk(c)'
<1>1. Settled(c)' <=> Settled(c)
  BY SettledKept
<1> QED BY <1>1 DEF ReadyOk

LEMMA WakeMoves ==
    ASSUME ImxTypes, ImxTypes', ImgInv, NEW p \in Callers, Wake(p)
    PROVE  ImgInv'
<1>1. call[p].pc = "wake" /\ Programming(p) /\ call[p].pc \notin AtCell
  BY DEF Wake, Programming, AtCell
<1>0. PICK c \in Sensors : call[p].cam = c
  BY <1>1, AtWork
<1>2. /\ up[c] = "up" /\ call[p] # Idle
      /\ \A q \in Callers \ {p} : Programming(q) /\ call[q].cam = c => c \in hurt
  BY <1>0, <1>1, AtWork
<1>3. UNCHANGED <<model, up, priv, column, xhs>> /\ imx_write_reg(c, "STANDBY", 0)
  BY <1>0 DEF Wake
<1>4. call'[p] = Idle /\ \A q \in Callers \ {p} : call'[q] = call[q]
  BY DEF Wake, ImxTypes
<1>5. /\ \A d \in Sensors : SameRows(d) /\ xhs'[d] = xhs[d]
      /\ hurt \subseteq hurt'
  <2>1. "STANDBY" \in RegNames \ SetRegs /\ \A j \in 1 .. 6 : RowRegs[j] # "STANDBY"
    BY SettingNames
  <2> QED BY <1>3, <2>1, RowWritten DEF SameRows
<1>6. Idle.pc = "idle"
  BY DEF Idle
<1>7. Staged(p, c)'
  BY <1>4, <1>6 DEF Staged, Programming
<1>8. ReadyOk(c)'
  <2>1. Busy(c) => Busy(c)'
    BY <1>1, <1>4 DEF Busy
  <2>2. SameCam(c) /\ ReadyOk(c)
    BY <1>3, <1>5 DEF SameCam, ImgInv
  <2> QED BY <1>2, <1>5, <2>1, <2>2, ReadyKept
<1>9. call'[p].pc \notin AtCell
  BY <1>4, <1>6 DEF AtCell
<1> QED BY <1>0, <1>2, <1>3, <1>4, <1>5, <1>7, <1>8, <1>9, OneCallMoves

LEMMA PicMoves ==
    ASSUME ImxTypes, ImxTypes', ImgInv, NEW p \in Callers, NEW c \in Sensors, sensor_debug_pic_set(p, c)
    PROVE  ImgInv'
<1>1. /\ call[p] = Idle /\ up[c] = "up" /\ Idle.pc = "idle"
      /\ UNCHANGED <<model, up, priv, column, xhs>>
  BY DEF sensor_debug_pic_set, Begin, Idle
<1>2. /\ call'[p].pc = "black" /\ call'[p].cam = c /\ \A q \in Callers \ {p} : call'[q] = call[q]
  BY DEF sensor_debug_pic_set, ImxTypes
<1>3. /\ hurt \subseteq hurt'
      /\ \A q \in Callers \ {p} : Programming(q) /\ call[q].cam = c => c \in hurt'
  <2>1. \A q \in Callers : Programming(q) /\ call[q].cam = c => q \in InUse(c)
    BY AtCellWorks DEF InUse
  <2> QED BY <2>1 DEF sensor_debug_pic_set
<1>4. \A d \in Sensors : SameRows(d) /\ xhs'[d] = xhs[d]
  <2>1. "STANDBY" \in RegNames \ SetRegs
        /\ \A j \in 1 .. 6 : RowRegs[j] \in RegNames /\ RowRegs[j] # "STANDBY"
    BY SettingNames
  <2>2. UNCHANGED regs \/ Written(c, "STANDBY", 1)
    BY DEF sensor_debug_pic_set, Written
  <2>3. CASE UNCHANGED regs
    BY <1>1, <2>3 DEF SameRows
  <2>4. CASE Written(c, "STANDBY", 1)
    <3>1. \A d \in Sensors : \A s \in RegNames : (d # c \/ s # "STANDBY") => regs'[d][s] = regs[d][s]
      BY <2>1, <2>4, OneWrite, Zenon
    <3>2. ASSUME NEW d \in Sensors PROVE SameRows(d)
      BY <2>1, <3>1 DEF SameRows
    <3> QED BY <1>1, <3>2
  <2> QED BY <2>2, <2>3, <2>4
<1>5. Staged(p, c)'
  BY <1>2 DEF Staged
<1>6. ReadyOk(c)'
  <2>1. Busy(c) => Busy(c)'
    BY <1>1, <1>2 DEF Busy, AtCell
  <2>2. SameCam(c) /\ ReadyOk(c)
    BY <1>1, <1>4 DEF SameCam, ImgInv
  <2> QED BY <1>1, <1>3, <1>4, <2>1, <2>2, ReadyKept
<1>7. call'[p].pc \notin AtCell
  BY <1>2 DEF AtCell
<1> QED BY <1>1, <1>2, <1>3, <1>4, <1>5, <1>6, <1>7, OneCallMoves

(* A ROI call that begins: the camera gets new private data, and whoever   *)
(* is in its way, or it in theirs, loses its image.                        *)
LEMMA ComputeMoves ==
    ASSUME ImxTypes, ImxTypes', ImgInv, NEW p \in Callers, NEW c \in Sensors, NEW roi \in Rois, RoiCompute(p, c, roi)
    PROVE  ImgInv'
<1>1. /\ priv' \in [Sensors -> Priv] /\ \A d \in Sensors \ {c} : priv'[d] = priv[d]
      /\ Computed(c)' /\ priv'[c].bit = roi.bit
      /\ call[p] = Idle /\ up[c] = "up"
      /\ call' = [call EXCEPT ![p] = [pc |-> "xhs", cam |-> c]]
      /\ UNCHANGED <<model, up, regs, column, xhs>>
  BY RoiComputes
<1>2. call'[p].pc = "xhs" /\ call'[p].cam = c /\ \A q \in Callers \ {p} : call'[q] = call[q]
  BY <1>1 DEF ImxTypes
<1>3. ~ Programming(p) /\ call[p].pc \notin AtCell
  BY <1>1 DEF Programming, Idle, AtCell
<1>4. /\ \A q \in Callers : Programming(q) /\ call[q].cam = c => c \in hurt'
      /\ \A q \in Callers, d \in Sensors :
            call[q].pc \in AtCell /\ call[q].cam = d /\ model[d] = model[c] /\ priv[d].bit = roi.bit
               => d \in hurt' /\ c \in hurt'
      /\ \A d \in Sensors \ {c} : d \in hurt => d \in hurt'
      /\ c \in hurt => c \in hurt' \/ \A q \in Callers : Programming(q) => call[q].cam # c
  <2> DEFINE bad == Clash(c, roi.bit)
  <2>1. hurt' = IF bad = {} THEN hurt \ {c} ELSE hurt \cup bad \cup {c}
    BY DEF RoiCompute
  <2>2. \A q \in Callers : Programming(q) /\ call[q].cam = c => c \in bad
    BY DEF Clash
  <2>3. \A q \in Callers : call[q].pc \in AtCell /\ model[call[q].cam] = model[c] /\ priv[call[q].cam].bit = roi.bit
           => call[q].cam \in bad
    BY AtCellWorks DEF Clash, AtCell
  <2> HIDE DEF bad
  <2> QED BY <2>1, <2>2, <2>3
<1>5. \A d \in Sensors \ {c} : SameCam(d) /\ xhs'[d] = xhs[d]
  BY <1>1 DEF SameCam, SameRows
<1>6. \A d \in Sensors \ {c} : Busy(d)' <=> Busy(d)
  BY <1>2, <1>3 DEF Busy
<1>7. ~ Zero(c)'
  <2>1. priv'[c].bit \in Bits /\ priv'[c].binning \in Binnings /\ model'[c] \in Models
    BY DEF ImxTypes, Priv
  <2>2. SetParm(model'[c], priv'[c].bit, priv'[c].binning).gate # <<0, 0, 0>>
    BY <2>1, ParmIsGate
  <2> QED BY <1>1, <2>2, Zenon DEF Computed, Zero
<1>8. ASSUME NEW d \in Sensors PROVE PrivOk(d)' /\ ReadyOk(d)'
  <2>0. PrivOk(d) /\ ReadyOk(d)
    BY DEF ImgInv
  <2>1. CASE d # c
    <3>1. (Zero(d)' <=> Zero(d)) /\ (Computed(d)' <=> Computed(d)) /\ (FirstHv(d)' <=> FirstHv(d))
      BY <1>5, <2>1, SensorKept
    <3>2. \A q \in Callers : call'[q] # Idle /\ call'[q].cam = d => call[q] # Idle /\ call[q].cam = d
      BY <1>2, <2>1
    <3>3. PrivOk(d)'
      BY <1>1, <1>6, <2>0, <2>1, <3>1, <3>2 DEF PrivOk
    <3>4. ReadyOk(d)'
      BY <1>1, <1>4, <1>5, <1>6, <2>0, <2>1, ReadyKept
    <3> QED BY <3>3, <3>4
  <2>2. CASE d = c
    <3>1. Busy(c)'
      BY <1>2 DEF Busy, AtCell
    <3>2. PrivOk(c)'
      BY <1>1, <1>7 DEF PrivOk
    <3> QED BY <2>2, <3>1, <3>2 DEF ReadyOk
  <2> QED BY <2>1, <2>2
<1>9. ASSUME NEW q \in Callers, NEW d \in Sensors PROVE Staged(q, d)'
  <2>1. CASE q = p
    BY <1>2, <2>1 DEF Staged
  <2>2. CASE q # p /\ d = c
    BY <1>2, <1>4, <2>2 DEF Staged, Programming
  <2>3. CASE q # p /\ d # c
    <3>1. Staged(q, d) /\ call'[q] = call[q] /\ SameCam(d) /\ xhs'[d] = xhs[d] /\ column' = column
      BY <1>1, <1>2, <1>5, <2>3 DEF ImgInv
    <3>2. d \in hurt => d \in hurt'
      BY <1>4, <2>3
    <3> QED BY <3>1, <3>2, StagedKept
  <2> QED BY <2>1, <2>2, <2>3
<1>10. ASSUME NEW q \in Callers, NEW r \in Callers, NEW d \in Sensors, NEW e \in Sensors
       PROVE  Apart(q, r, d, e)'
  <2>0. Apart(q, r, d, e) /\ model' = model
    BY <1>1 DEF ImgInv
  <2> SUFFICES ASSUME q # r, Programming(q)', Programming(r)', call'[q].cam = d, call'[r].cam = e
               PROVE  /\ d = e => d \in hurt'
                      /\ (/\ call'[q].pc \in AtCell /\ call'[r].pc \in AtCell
                          /\ model[d] = model[e] /\ priv'[d].bit = priv'[e].bit) => d \in hurt' /\ e \in hurt'
    BY <2>0 DEF Apart
  <2>1. CASE q # p /\ r # p
    <3>1. /\ call'[q] = call[q] /\ call'[r] = call[r] /\ Programming(q) /\ Programming(r)
          /\ call[q].cam = d /\ call[r].cam = e
      BY <1>2, <2>1 DEF Programming
    <3>2. d = e => d \in hurt'
      BY <1>4, <2>0, <3>1 DEF Apart
    <3>3. ASSUME call[q].pc \in AtCell, call[r].pc \in AtCell, model[d] = model[e], priv'[d].bit = priv'[e].bit
          PROVE  d \in hurt' /\ e \in hurt'
      <4>1. CASE d # c /\ e # c
        BY <1>1, <1>4, <2>0, <3>1, <3>3, <4>1 DEF Apart
      <4>2. CASE d = c /\ e = c
        BY <1>4, <3>1, <4>2
      <4>3. CASE d = c /\ e # c
        BY <1>1, <1>4, <3>1, <3>3, <4>3
      <4>4. CASE d # c /\ e = c
        BY <1>1, <1>4, <3>1, <3>3, <4>4
      <4> QED BY <4>1, <4>2, <4>3, <4>4
    <3> QED BY <3>1, <3>2, <3>3
  <2>2. CASE q = p
    <3>1. d = c /\ call'[r] = call[r] /\ Programming(r) /\ call[r].cam = e
      BY <1>2, <2>2 DEF Programming
    <3>2. d = e => d \in hurt'
      BY <1>4, <3>1
    <3>3. ASSUME call[r].pc \in AtCell, model[d] = model[e], priv'[d].bit = priv'[e].bit
          PROVE  d \in hurt' /\ e \in hurt'
      BY <1>1, <1>4, <3>1, <3>3
    <3> QED BY <3>1, <3>2, <3>3
  <2>3. CASE r = p
    <3>1. e = c /\ call'[q] = call[q] /\ Programming(q) /\ call[q].cam = d
      BY <1>2, <2>3 DEF Programming
    <3>2. d = e => d \in hurt'
      BY <1>4, <3>1
    <3>3. ASSUME call[q].pc \in AtCell, model[d] = model[e], priv'[d].bit = priv'[e].bit
          PROVE  d \in hurt' /\ e \in hurt'
      BY <1>1, <1>4, <3>1, <3>3
    <3> QED BY <3>1, <3>2, <3>3
  <2> QED BY <2>1, <2>2, <2>3
<1> QED BY <1>8, <1>9, <1>10 DEF ImgInv

(* Settings leave images alone. *)
LEMMA SettingRows ==
    ASSUME ImxTypes, NEW c \in Sensors,
           \/ UNCHANGED regs
           \/ \E v \in [Flips -> {0, 1}] : Written(c, "REVERSE", v)
           \/ \E l \in Levels, i \in {1, 2}, x \in Nat : ByteWritten(c, l, i, x)
    PROVE  \A d \in Sensors : SameRows(d)
<1>0. \A j \in 1 .. 6 : RowRegs[j] \in RegNames /\ RowRegs[j] # "REVERSE" /\ RowRegs[j] \notin Levels
  BY SettingNames DEF Levels
<1>1. CASE UNCHANGED regs
  BY <1>1 DEF SameRows
<1>2. ASSUME NEW v \in [Flips -> {0, 1}], Written(c, "REVERSE", v)
      PROVE  \A d \in Sensors : SameRows(d)
  <2>1. \A d \in Sensors : \A r \in RegNames : (d # c \/ r # "REVERSE") => regs'[d][r] = regs[d][r]
    BY <1>2, ReverseWrites
  <2> QED BY <1>0, <2>1 DEF SameRows
<1>3. ASSUME NEW l \in Levels, NEW i \in {1, 2}, NEW x \in Nat, ByteWritten(c, l, i, x)
      PROVE  \A d \in Sensors : SameRows(d)
  <2>1. \A d \in Sensors : \A r \in RegNames : (d # c \/ r # l) => regs'[d][r] = regs[d][r]
    BY <1>3, LevelWrites, SMTT(30)
  <2> QED BY <1>0, <2>1 DEF SameRows
<1> QED BY <1>1, <1>2, <1>3

\* A step of a setting, or of the black level of a test picture, as the images see call q.
Aside(q) ==
    \/ call'[q] = call[q]
    \/ /\ call[q].pc \notin AtCell /\ call'[q].pc \notin AtCell
       /\ Programming(q)' => Programming(q) /\ call'[q].cam = call[q].cam
       /\ call'[q] # Idle => \/ call[q] # Idle /\ call'[q].cam = call[q].cam
                             \/ up[call'[q].cam] = "up"

LEMMA DoubtAside ==
    ASSUME ImxTypes, NEW c \in Sensors, NEW reg \in SetRegs, NEW q \in Callers, call'[q] = Doubt(c, reg)[q]
    PROVE  Aside(q)
<1>1. CASE call'[q] = call[q]
  BY <1>1 DEF Aside
<1>2. CASE call'[q] # call[q]
  <2>1. ~ Programming(q) /\ ~ Programming(q)' /\ call[q] # Idle /\ call'[q].cam = call[q].cam
    BY <1>2, Doubted
  <2>2. call[q].pc \notin AtCell /\ call'[q].pc \notin AtCell
    BY <2>1 DEF Programming, AtCell
  <2> QED BY <2>1, <2>2 DEF Aside
<1> QED BY <1>1, <1>2

LEMMA SettingMoves ==
    ASSUME ImxTypes, ImxTypes', ImgInv,
           UNCHANGED <<model, up, priv, column, xhs, hurt>>,
           \A d \in Sensors : SameRows(d),
           \A q \in Callers : Aside(q)
    PROVE  ImgInv'
<1>1. ASSUME NEW q \in Callers
      PROVE  /\ (call'[q].pc \in AtCell <=> call[q].pc \in AtCell)
             /\ (call'[q].pc \in AtCell => call'[q].cam = call[q].cam)
             /\ (Programming(q)' => Programming(q) /\ call'[q].cam = call[q].cam)
  BY DEF Aside, Programming
<1>2. ASSUME NEW d \in Sensors PROVE Busy(d)' <=> Busy(d)
  BY <1>1 DEF Busy
<1>3. ASSUME NEW d \in Sensors PROVE PrivOk(d)' /\ ReadyOk(d)'
  <2>0. PrivOk(d) /\ ReadyOk(d) /\ SameCam(d)
    BY DEF ImgInv, SameCam
  <2>1. (Zero(d)' <=> Zero(d)) /\ (Computed(d)' <=> Computed(d)) /\ (FirstHv(d)' <=> FirstHv(d))
    BY <2>0, SensorKept
  <2>2. ASSUME up[d] # "up", NEW q \in Callers, call'[q] # Idle PROVE call'[q].cam # d
    BY <2>0, <2>2 DEF PrivOk, Aside
  <2>3. PrivOk(d)'
    BY <1>2, <2>0, <2>1, <2>2 DEF PrivOk
  <2>4. ReadyOk(d)'
    BY <1>2, <2>0, ReadyKept
  <2> QED BY <2>3, <2>4
<1>4. ASSUME NEW q \in Callers, NEW d \in Sensors PROVE Staged(q, d)'
  <2>1. Staged(q, d) /\ SameCam(d)
    BY DEF ImgInv, SameCam
  <2>2. CASE call'[q] = call[q]
    BY <2>1, <2>2, StagedKept
  <2>3. CASE call'[q].pc \notin AtCell
    BY <2>3 DEF Staged, AtCell
  <2> QED BY <2>2, <2>3 DEF Aside
<1>5. ASSUME NEW q \in Callers, NEW r \in Callers, NEW d \in Sensors, NEW e \in Sensors
      PROVE  Apart(q, r, d, e)'
  <2>1. Apart(q, r, d, e)
    BY DEF ImgInv
  <2> QED BY <1>1, <2>1 DEF Apart
<1> QED BY <1>3, <1>4, <1>5 DEF ImgInv

(* The test picture takes the black level away: no row of an image is it.  *)
LEMMA BlackMoves ==
    ASSUME ImxTypes, ImxTypes', ImgInv, NEW p \in Callers, PicBlack(p)
    PROVE  ImgInv'
<1>1. call[p].pc = "black" /\ call[p] \in Black /\ call[p] # Idle /\ Programming(p)
  <2>1. call[p].pc = "black"
    BY DEF PicBlack
  <2> QED BY <2>1, CallTypes DEF Programming, Idle
<1>2. PICK c \in Sensors, i \in {1, 2} : call[p].cam = c /\ call[p].byte = i
  BY <1>1 DEF Black
<1> DEFINE e == IF i = 1 THEN [call[p] EXCEPT !.byte = 2] ELSE [pc |-> "wake", cam |-> c]
<1>3. /\ UNCHANGED regs \/ ByteWritten(c, "BLKLEVEL", i, 0)
      /\ call' = [Doubt(c, "BLKLEVEL") EXCEPT ![p] = e]
      /\ UNCHANGED <<model, up, priv, column, xhs, hurt>>
  BY <1>2 DEF PicBlack, ByteWritten
<1>4. e.cam = c /\ e.pc \in {"black", "wake"}
  BY <1>1, <1>2 DEF Black
<1> HIDE DEF e
<1>5. "BLKLEVEL" \in Levels /\ "BLKLEVEL" \in SetRegs
  BY DEF Levels, SetRegs
<1>6. call'[p] = e /\ \A q \in Callers \ {p} : call'[q] = Doubt(c, "BLKLEVEL")[q]
  BY <1>3 DEF Doubt
<1>7. \A d \in Sensors : SameRows(d)
  BY <1>3, <1>5, SettingRows
<1>8. Aside(p)
  BY <1>1, <1>2, <1>4, <1>6 DEF Aside, AtCell
<1>9. \A q \in Callers : Aside(q)
  BY <1>5, <1>6, <1>8, DoubtAside
<1> QED BY <1>3, <1>7, <1>9, SettingMoves

LEMMA ToldMoves ==
    ASSUME ImxTypes, ImxTypes', ImgInv, NEW p \in Callers,
           \/ set_filp_write(p) \/ set_level_high(p)
           \/ \E c \in Sensors : \/ \E type \in Flips, val \in {0, 1} : set_filp_read(p, c, type, val)
                                 \/ \E reg \in Levels, val \in LevelValues : set_level_low(p, c, reg, val)
    PROVE  ImgInv'
<1>1. ASSUME Told(p), call' = [call EXCEPT ![p] = Idle]
      PROVE  \A q \in Callers : Aside(q)
  <2>1. call'[p] = Idle /\ \A q \in Callers \ {p} : call'[q] = call[q]
    BY <1>1 DEF ImxTypes
  <2>2. Aside(p)
    BY <1>1, <2>1 DEF Aside, Told, AtCell, Programming, Idle
  <2> QED BY <2>1, <2>2 DEF Aside
<1>2. ASSUME NEW entry \in Flip \cup Level, NEW ok \in BOOLEAN, Tell(p, entry, ok),
             call[p] = Idle, up[entry.cam] = "up"
      PROVE  \A q \in Callers : Aside(q)
  <2>1. /\ Tells(p, entry.cam, entry.reg)' /\ ~ Programming(p)'
        /\ \A q \in Callers \ {p} : call'[q] = Doubt(entry.cam, entry.reg)[q]
    BY <1>2, Telling
  <2>2. entry.cam \in Sensors /\ entry.reg \in SetRegs
    BY DEF Flip, Level, SetRegs
  <2>3. Aside(p)
    <3>1. call'[p].cam = entry.cam /\ call'[p].pc \in {"flip", "level"}
      BY <2>1 DEF Tells
    <3> QED BY <1>2, <2>1, <3>1 DEF Aside, AtCell, Idle
  <2> QED BY <2>1, <2>2, <2>3, DoubtAside
<1>3. CASE set_filp_write(p)
  <2>1. /\ Told(p) /\ call[p].pc = "flip" /\ call' = [call EXCEPT ![p] = Idle]
        /\ UNCHANGED <<model, up, priv, column, xhs, hurt>>
    BY <1>3 DEF set_filp_write, Told
  <2>2. call[p].cam \in Sensors /\ call[p].value \in [Flips -> {0, 1}]
    BY <2>1, CallTypes DEF Flip
  <2>3. UNCHANGED regs \/ Written(call[p].cam, "REVERSE", call[p].value)
    BY <1>3 DEF set_filp_write, Written
  <2>4. \A d \in Sensors : SameRows(d)
    BY <2>2, <2>3, SettingRows
  <2> QED BY <1>1, <2>1, <2>4, SettingMoves
<1>4. CASE set_level_high(p)
  <2>1. /\ Told(p) /\ call[p].pc = "level" /\ call' = [call EXCEPT ![p] = Idle]
        /\ UNCHANGED <<model, up, priv, column, xhs, hurt>>
    BY <1>4 DEF set_level_high, Told
  <2> DEFINE r == call[p].reg
             high == (LevelOf(r, call[p].val) \div 256) % (IF r = "GAIN" THEN 2 ELSE 16)
  <2>2. call[p].cam \in Sensors /\ r \in Levels /\ high \in Nat
    <3>1. call[p].cam \in Sensors /\ r \in Levels /\ LevelOf(r, call[p].val) \in Nat
      BY <2>1, CallTypes, LevelRange DEF Level
    <3>2. LevelOf(r, call[p].val) \div 256 \in Nat
      BY <3>1
    <3> QED BY <3>1, <3>2
  <2>3. UNCHANGED regs \/ ByteWritten(call[p].cam, r, 2, high)
    BY <1>4 DEF set_level_high, ByteWritten
  <2> HIDE DEF r, high
  <2>4. 2 \in {1, 2}
    OBVIOUS
  <2>5. \A d \in Sensors : SameRows(d)
    BY <2>2, <2>3, <2>4, SettingRows
  <2> QED BY <1>1, <2>1, <2>5, SettingMoves
<1>5. ASSUME NEW c \in Sensors, NEW type \in Flips, NEW val \in {0, 1}, set_filp_read(p, c, type, val)
      PROVE  ImgInv'
  <2>1. /\ call[p] = Idle /\ up[c] = "up"
        /\ UNCHANGED <<model, up, regs, priv, column, xhs, hurt>>
    BY <1>5 DEF set_filp_read, Begin
  <2> DEFINE read(ok) == IF ok THEN regs[c].REVERSE ELSE [f \in Flips |-> 0]
             told(ok) == [pc |-> "flip", cam |-> c, good |-> TRUE, reg |-> "REVERSE", type |-> type,
                          value |-> [read(ok) EXCEPT ![type] = val]]
  <2>2. PICK ok \in BOOLEAN : Tell(p, told(ok), ok)
    BY <1>5 DEF set_filp_read
  <2> DEFINE entry == told(ok)
  <2>3. entry \in Flip /\ entry.cam = c
    BY ReadEntry
  <2>4. Tell(p, entry, ok)
    BY <2>2
  <2> HIDE DEF entry
  <2>5. \A q \in Callers : Aside(q)
    BY <1>2, <2>1, <2>3, <2>4
  <2>6. \A d \in Sensors : SameRows(d)
    BY <2>1 DEF SameRows
  <2> QED BY <2>1, <2>5, <2>6, SettingMoves
<1>6. ASSUME NEW c \in Sensors, NEW reg \in Levels, NEW val \in LevelValues, set_level_low(p, c, reg, val)
      PROVE  ImgInv'
  <2> DEFINE entry == [pc |-> "level", cam |-> c, good |-> TRUE, reg |-> reg, val |-> val]
             low   == LevelOf(reg, val) % 256
  <2>1. /\ call[p] = Idle /\ up[c] = "up"
        /\ UNCHANGED <<model, up, priv, column, xhs, hurt>>
    BY <1>6 DEF set_level_low, Begin
  <2>2. PICK ok \in BOOLEAN :
            /\ IF ok THEN regs' = [regs EXCEPT ![c][reg][1] = low] ELSE UNCHANGED regs
            /\ Tell(p, entry, ok)
    BY <1>6 DEF set_level_low
  <2>3. entry \in Level /\ entry.cam = c
    BY LevelEntry
  <2>4. low \in Nat /\ 1 \in {1, 2}
    <3>1. LevelOf(reg, val) \in Nat
      BY LevelRange, LevelsAssumption
    <3> QED BY <3>1
  <2> HIDE DEF entry, low
  <2>5. \A q \in Callers : Aside(q)
    BY <1>2, <2>1, <2>2, <2>3
  <2>6. UNCHANGED regs \/ ByteWritten(c, reg, 1, low)
    BY <2>2 DEF ByteWritten
  <2>7. \A d \in Sensors : SameRows(d)
    BY <2>4, <2>6, SettingRows
  <2> QED BY <2>1, <2>5, <2>7, SettingMoves
<1> QED BY <1>3, <1>4, <1>5, <1>6

LEMMA DebugMoves ==
    ASSUME ImxTypes, ImxTypes', ImgInv, NEW c \in Sensors, reg_debug_set(c)
    PROVE  ImgInv'
<1>0. up[c] = "up" /\ UNCHANGED <<model, up, priv, column, xhs>>
  BY DEF reg_debug_set
<1>1. CASE Written(c, "HVMODE", 1) /\ hurt' = hurt \cup {c} /\ UNCHANGED call
  <2>1. ASSUME NEW d \in Sensors \ {c} PROVE SameCam(d) /\ xhs'[d] = xhs[d]
    <3>1. "HVMODE" \in RegNames \ SetRegs
      BY DEF RegNames, SetRegs, Levels
    <3>2. \A e \in Sensors : \A s \in RegNames : (e # c \/ s # "HVMODE") => regs'[e][s] = regs[e][s]
      BY <1>1, <3>1, OneWrite, Zenon
    <3>3. \A j \in 1 .. 6 : RowRegs[j] \in RegNames
      BY SettingNames
    <3> QED BY <1>0, <3>2, <3>3 DEF SameCam, SameRows
  <2>2. \A d \in Sensors : Busy(d)' <=> Busy(d)
    BY <1>1 DEF Busy
  <2>3. ASSUME NEW d \in Sensors PROVE PrivOk(d)' /\ ReadyOk(d)'
    <3>0. PrivOk(d) /\ ReadyOk(d)
      BY DEF ImgInv
    <3>1. CASE d = c
      <4>1. (Zero(c)' <=> Zero(c)) /\ (Computed(c)' <=> Computed(c))
        BY <1>0, Zenon DEF Zero, Computed
      <4> QED BY <1>0, <1>1, <2>2, <3>0, <3>1, <4>1 DEF PrivOk, ReadyOk
    <3>2. CASE d # c
      <4>1. (Zero(d)' <=> Zero(d)) /\ (Computed(d)' <=> Computed(d)) /\ (FirstHv(d)' <=> FirstHv(d))
        BY <2>1, <3>2, SensorKept
      <4>2. ReadyOk(d)'
        BY <1>0, <1>1, <2>1, <2>2, <3>0, <3>2, ReadyKept
      <4> QED BY <1>0, <1>1, <2>2, <3>0, <4>1, <4>2 DEF PrivOk
    <3> QED BY <3>1, <3>2
  <2>4. ASSUME NEW q \in Callers, NEW d \in Sensors PROVE Staged(q, d)'
    <3>1. Staged(q, d) /\ call'[q] = call[q] /\ column' = column
      BY <1>0, <1>1 DEF ImgInv
    <3>2. CASE d = c
      BY <1>1, <3>2 DEF Staged
    <3>3. CASE d # c
      BY <1>1, <2>1, <3>1, <3>3, StagedKept
    <3> QED BY <3>2, <3>3
  <2>5. ASSUME NEW q \in Callers, NEW r \in Callers, NEW d \in Sensors, NEW e \in Sensors
        PROVE  Apart(q, r, d, e)'
    BY <1>0, <1>1 DEF ImgInv, Apart, Programming
  <2> QED BY <2>3, <2>4, <2>5 DEF ImgInv
<1>2. CASE /\ Written(c, "REVERSE", [f \in Flips |-> 1]) /\ UNCHANGED hurt
           /\ call' = Doubt(c, "REVERSE")
  <2>1. \A d \in Sensors : SameRows(d)
    <3> DEFINE v == [f \in Flips |-> 1]
    <3>1. v \in [Flips -> {0, 1}] /\ Written(c, "REVERSE", v)
      BY <1>2
    <3> HIDE DEF v
    <3> QED BY <3>1, SettingRows
  <2>2. \A q \in Callers : Aside(q)
    <3>1. "REVERSE" \in SetRegs /\ \A q \in Callers : call'[q] = Doubt(c, "REVERSE")[q]
      BY <1>2 DEF SetRegs
    <3> QED BY <3>1, DoubtAside
  <2> QED BY <1>0, <1>2, <2>1, <2>2, SettingMoves
<1> QED BY <1>1, <1>2, Zenon DEF reg_debug_set, Written

(* The mode table of a probe that loses nothing. *)
LEMMA LastRow ==
    ASSUME NEW c, NEW table, NEW n \in Nat, NEW i \in 1 .. n, NEW r \in RegNames, table[i][1] = r,
           \A j \in 1 .. n : table[j][1] = r => j = i
    PROVE  sensor_write_table(c, table, n)[r] = table[i][2]
<1> DEFINE rows == {j \in 1 .. n : table[j][1] = r}
<1>1. rows = {i}
  OBVIOUS
<1>2. sensor_write_table(c, table, n)[r] =
         IF rows = {} THEN regs[c][r] ELSE table[CHOOSE k \in rows : \A j \in rows : j <= k][2]
  BY DEF sensor_write_table
<1> HIDE DEF rows
<1>3. (CHOOSE k \in rows : \A j \in rows : j <= k) = i
  BY <1>1
<1> QED BY <1>1, <1>2, <1>3

LEMMA FirstTable ==
    ASSUME NEW c, NEW m \in Models, NEW type \in {0, 1}, mode_table(m, type) # Null,
           regs[c]["HVMODE"] = Rows(m)[1].val_1[1]
    PROVE  LET t == mode_table(m, type)  w == sensor_write_table(c, t, Len(t)) IN
           /\ w["HVMODE"] = Rows(m)[1].val_1[1]
           /\ \E bit \in Bits : /\ w["Gate"] = SetParm(m, bit, 0).gate
                                /\ w["ADBIT"] = Rows(m)[6].val_1[bit + 1]
<1> DEFINE t == mode_table(m, type)
           w == sensor_write_table(c, t, Len(t))
<1>0. {"HVMODE", "Gate", "ADBIT"} \subseteq RegNames
  BY DEF RegNames
<1>1. CASE m = "imx565"
  <2>1. t = imx565_8bit_4line_master_init
    BY <1>1 DEF mode_table
  <2>2. /\ Len(t) = 4 /\ t[1][1] = "HMAX" /\ t[4][1] = "BLKLEVEL" /\ t[2] = <<"Gate", <<4, 26, 12>> >> /\ t[3] = <<"ADBIT", 37>>
        /\ t[2][1] = "Gate" /\ t[3][1] = "ADBIT" /\ t[2][2] = <<4, 26, 12>> /\ t[3][2] = 37
    BY <2>1 DEF imx565_8bit_4line_master_init
  <2> HIDE DEF t
  <2>3. w["Gate"] = t[2][2]
    BY <1>0, <2>2, LastRow
  <2>4. w["ADBIT"] = t[3][2]
    BY <1>0, <2>2, LastRow
  <2>5. w["HVMODE"] = regs[c]["HVMODE"]
    <3>1. {j \in 1 .. Len(t) : t[j][1] = "HVMODE"} = {}
      BY <2>2
    <3> QED BY <1>0, <3>1 DEF sensor_write_table
  <2> HIDE DEF w
  <2>6. SetParm(m, 0, 0).gate = <<4, 26, 12>> /\ Rows(m)[6].val_1[0 + 1] = 37 /\ 0 \in Bits
    BY <1>1 DEF SetParm, imx565SetParm, Parm, Rows, sensor_imx565_bit, Bits
  <2> QED BY <2>2, <2>3, <2>4, <2>5, <2>6 DEF t, w
<1>2. CASE m = "imx566"
  <2> DEFINE b == type
             gate == IF type = 0 THEN <<6, 36, 16>> ELSE <<4, 30, 14>>
             adbit == IF type = 0 THEN 37 ELSE 5
  <2>1. t = IF type = 0 THEN imx566_8bit_4line_mono_master_init ELSE imx566_10bit_4line_color_master_init
    BY <1>2 DEF mode_table
  <2>2. /\ Len(t) \in {5, 6} /\ t[1][1] = "HVMODE" /\ t[2][1] = "HMAX" /\ t[3][1] = "Gate" /\ t[4][1] = "ADBIT"
        /\ t[1][2] = 2 /\ t[3][2] = gate /\ t[4][2] = adbit
    <3>1. CASE type = 0
      BY <2>1, <3>1 DEF imx566_8bit_4line_mono_master_init
    <3>2. CASE type = 1
      BY <2>1, <3>2 DEF imx566_10bit_4line_color_master_init
    <3> QED BY <3>1, <3>2
  <2>8. \A i, j \in 1 .. Len(t) : t[i][1] = t[j][1] => i = j
    BY TableRows
  <2> HIDE DEF t
  <2>9. Len(t) \in Nat /\ {1, 3, 4} \subseteq 1 .. Len(t)
    BY <2>2
  <2>3. w["HVMODE"] = t[1][2]
    <3>1. \A j \in 1 .. Len(t) : t[j][1] = "HVMODE" => j = 1
      BY <2>2, <2>8, <2>9
    <3>2. 1 \in 1 .. Len(t) /\ t[1][1] = "HVMODE" /\ "HVMODE" \in RegNames
      BY <1>0, <2>2, <2>9
    <3> QED BY <2>9, <3>1, <3>2, LastRow
  <2>4. w["Gate"] = t[3][2]
    <3>1. \A j \in 1 .. Len(t) : t[j][1] = "Gate" => j = 3
      BY <2>2, <2>8, <2>9
    <3>2. 3 \in 1 .. Len(t) /\ t[3][1] = "Gate" /\ "Gate" \in RegNames
      BY <1>0, <2>2, <2>9
    <3> QED BY <2>9, <3>1, <3>2, LastRow
  <2>5. w["ADBIT"] = t[4][2]
    <3>1. \A j \in 1 .. Len(t) : t[j][1] = "ADBIT" => j = 4
      BY <2>2, <2>8, <2>9
    <3>2. 4 \in 1 .. Len(t) /\ t[4][1] = "ADBIT" /\ "ADBIT" \in RegNames
      BY <1>0, <2>2, <2>9
    <3> QED BY <2>9, <3>1, <3>2, LastRow
  <2> HIDE DEF w
  <2>6. SetParm(m, b, 0).gate = gate /\ Rows(m)[6].val_1[b + 1] = adbit /\ b \in Bits
    BY <1>2 DEF SetParm, imx566SetParm, Parm, Rows, sensor_imx566_bit, Bits
  <2>7. Rows(m)[1].val_1[1] = 2
    BY <1>2 DEF Rows, sensor_imx566_bit
  <2> QED BY <2>2, <2>3, <2>4, <2>5, <2>6, <2>7 DEF t, w
<1> QED BY <1>1, <1>2 DEF Models

LEMMA InitMoves ==
    ASSUME ImxTypes, ImxTypes', ImgInv, NEW c \in Sensors, sensor_init_param(c)
    PROVE  ImgInv'
<1>0. up[c] = "off"
  BY DEF sensor_init_param
<1>1. PICK type \in {0, 1} : imx565_init_param(c, type) \/ imx566_init_param(c, type)
  BY DEF sensor_init_param
<1>2. UNCHANGED <<model, column, xhs, call>>
  BY <1>1 DEF imx565_init_param, imx566_init_param
<1>3. /\ \A d \in Sensors \ {c} : priv'[d] = priv[d]
      /\ priv'[c].gate = priv[c].gate
      /\ \A d \in Sensors : priv'[d].bit = priv[d].bit
  <2>1. priv[c] \in Priv
    BY DEF ImxTypes
  <2>2. UNCHANGED priv \/ \E x, y : priv' = [priv EXCEPT ![c].hmax = x, ![c].period = y]
    <3>1. CASE imx565_init_param(c, type)
      BY <3>1 DEF imx565_init_param
    <3>2. CASE imx566_init_param(c, type)
      <4> DEFINE hm == imx566SetParm.normal[2].hmax
                 pe == (hm * Mega) \div input_freq + 1
      <4>1. UNCHANGED priv \/ priv' = [priv EXCEPT ![c].hmax = hm, ![c].period = pe]
        BY <3>2, SMT DEF imx566_init_param
      <4> HIDE DEF hm, pe
      <4> QED BY <4>1
    <3> QED BY <1>1, <3>1, <3>2
  <2>3. CASE UNCHANGED priv
    BY <2>3
  <2>4. ASSUME NEW x, NEW y, priv' = [priv EXCEPT ![c].hmax = x, ![c].period = y]
        PROVE  /\ \A d \in Sensors \ {c} : priv'[d] = priv[d]
               /\ priv'[c].gate = priv[c].gate
               /\ \A d \in Sensors : priv'[d].bit = priv[d].bit
    BY <2>1, <2>4 DEF ImxTypes, Priv
  <2> QED BY <2>2, <2>3, <2>4
<1>4. /\ up' = [up EXCEPT ![c] = up'[c]] /\ up'[c] \in {"up", "oops"}
      /\ \A d \in Sensors \ {c} : up'[d] = up[d]
      /\ hurt \subseteq hurt' /\ hurt' \subseteq hurt \cup {c}
  BY <1>1 DEF imx565_init_param, imx566_init_param, ImxTypes
<1>5. /\ \A d \in Sensors \ {c} : regs'[d] = regs[d]
      /\ up'[c] = "up" /\ c \notin hurt' =>
            LET t == mode_table(model[c], type) IN
            /\ t # Null
            /\ \A r \in RegNames \ {"STANDBY"} : regs'[c][r] = sensor_write_table(c, t, Len(t))[r]
  <2> DEFINE t == mode_table(model[c], type)
  <2>1. model[c] \in Models /\ Len(t) \in Nat
    <3>1. model[c] \in Models
      BY DEF ImxTypes
    <3> QED BY <3>1, TableRows
  <2>2. CASE UNCHANGED regs /\ up'[c] = "oops"
    BY <2>2
  <2>3. ASSUME NEW n \in 0 .. Len(t), n < Len(t) => c \in hurt', t # Null,
               regs' = [regs EXCEPT ![c] = [sensor_write_table(c, t, n) EXCEPT !.STANDBY = 0]]
        PROVE  /\ \A d \in Sensors \ {c} : regs'[d] = regs[d]
               /\ c \notin hurt' =>
                     \A r \in RegNames \ {"STANDBY"} : regs'[c][r] = sensor_write_table(c, t, Len(t))[r]
    <3>1. /\ \A d \in Sensors \ {c} : regs'[d] = regs[d]
          /\ \A r \in RegNames \ {"STANDBY"} : regs'[c][r] = sensor_write_table(c, t, n)[r]
      BY <2>1, <2>3, InitWrites
    <3>2. c \notin hurt' => n = Len(t)
      BY <2>1, <2>3
    <3> QED BY <3>1, <3>2
  <2>4. \/ UNCHANGED regs /\ up'[c] = "oops"
        \/ /\ t # Null
           /\ \E n \in 0 .. Len(t) :
                 /\ n < Len(t) => c \in hurt'
                 /\ regs' = [regs EXCEPT ![c] = [sensor_write_table(c, t, n) EXCEPT !.STANDBY = 0]]
    <3>1. CASE imx565_init_param(c, type)
      BY <3>1 DEF imx565_init_param, ImxTypes
    <3>2. CASE imx566_init_param(c, type)
      <4>1. model[c] = "imx566" /\ t # Null
        <5>1. model[c] = "imx566"
          BY <3>2 DEF imx566_init_param
        <5>2. Len(t) \in {5, 6}
          BY <5>1 DEF mode_table, imx566_8bit_4line_mono_master_init, imx566_10bit_4line_color_master_init
        <5>3. Len(Null) \notin {5, 6}
          BY DEF Null
        <5> QED BY <5>1, <5>2, <5>3, Zenon
      <4> QED BY <3>2, <4>1 DEF imx566_init_param
    <3> QED BY <1>1, <3>1, <3>2
  <2> HIDE DEF t
  <2> QED BY <2>2, <2>3, <2>4 DEF t
<1>6. Zero(c) /\ xhs[c] = 0 /\ ~ Busy(c) /\ FirstHv(c) /\ \A q \in Callers : call[q] # Idle => call[q].cam # c
  BY <1>0 DEF ImgInv, PrivOk
<1>7. ASSUME NEW d \in Sensors \ {c} PROVE SameCam(d) /\ xhs'[d] = xhs[d]
  BY <1>2, <1>3, <1>5 DEF SameCam, SameRows
<1>8. \A d \in Sensors : Busy(d)' <=> Busy(d)
  BY <1>2 DEF Busy
<1>9. Zero(c)'
  BY <1>3, <1>6 DEF Zero
<1>10. up'[c] = "up" /\ c \notin hurt' => FirstMode(c)'
  <2> SUFFICES ASSUME up'[c] = "up", c \notin hurt' PROVE FirstMode(c)'
    OBVIOUS
  <2> DEFINE t == mode_table(model[c], type)
             w == sensor_write_table(c, t, Len(t))
  <2>1. t # Null /\ \A r \in RegNames \ {"STANDBY"} : regs'[c][r] = w[r]
    BY <1>5
  <2>2. model[c] \in Models /\ regs[c]["HVMODE"] = Rows(model[c])[1].val_1[1]
    BY <1>6 DEF ImxTypes, FirstHv
  <2>3. /\ w["HVMODE"] = Rows(model[c])[1].val_1[1]
        /\ \E bit \in Bits : /\ w["Gate"] = SetParm(model[c], bit, 0).gate
                             /\ w["ADBIT"] = Rows(model[c])[6].val_1[bit + 1]
    BY <2>1, <2>2, FirstTable
  <2> HIDE DEF w, t
  <2>4. regs'[c]["HVMODE"] = w["HVMODE"] /\ regs'[c]["Gate"] = w["Gate"] /\ regs'[c]["ADBIT"] = w["ADBIT"]
    BY <2>1 DEF RegNames
  <2> QED BY <1>2, <2>3, <2>4, Zenon DEF FirstMode, FirstHv
<1>11. ASSUME NEW d \in Sensors PROVE PrivOk(d)' /\ ReadyOk(d)'
  <2>1. CASE d = c
    BY <1>2, <1>4, <1>6, <1>8, <1>9, <1>10, <2>1 DEF PrivOk, ReadyOk, Settled
  <2>2. CASE d # c
    <3>0. PrivOk(d) /\ ReadyOk(d)
      BY DEF ImgInv
    <3>1. (Zero(d)' <=> Zero(d)) /\ (Computed(d)' <=> Computed(d)) /\ (FirstHv(d)' <=> FirstHv(d))
      BY <1>7, <2>2, SensorKept
    <3>2. ReadyOk(d)'
      BY <1>4, <1>7, <1>8, <2>2, <3>0, ReadyKept
    <3> QED BY <1>2, <1>4, <1>8, <2>2, <3>0, <3>1, <3>2 DEF PrivOk
  <2> QED BY <2>1, <2>2
<1>12. ASSUME NEW q \in Callers, NEW d \in Sensors PROVE Staged(q, d)'
  <2>1. Staged(q, d) /\ call'[q] = call[q] /\ column' = column
    BY <1>2 DEF ImgInv
  <2>2. CASE d = c
    BY <1>2, <1>6, <2>2, AtCellWorks DEF Staged, Programming
  <2>3. CASE d # c
    BY <1>4, <1>7, <2>1, <2>3, StagedKept
  <2> QED BY <2>2, <2>3
<1>13. ASSUME NEW q \in Callers, NEW r \in Callers, NEW d \in Sensors, NEW e \in Sensors
       PROVE  Apart(q, r, d, e)'
  <2>1. Apart(q, r, d, e)
    BY DEF ImgInv
  <2> QED BY <1>2, <1>3, <1>4, <2>1 DEF Apart, Programming
<1> QED BY <1>11, <1>12, <1>13 DEF ImgInv

LEMMA ImgInit == ImxInit => ImgInv
<1> SUFFICES ASSUME ImxInit PROVE ImgInv
  OBVIOUS
<1>1. \A p \in Callers : call[p] = Idle /\ call[p].pc = "idle"
  BY DEF ImxInit, Idle
<1>2. ASSUME NEW c \in Sensors
      PROVE  /\ up[c] = "off" /\ xhs[c] = 0 /\ priv[c].gate = <<0, 0, 0>> /\ model[c] \in Models
             /\ regs[c]["HVMODE"] = IF model[c] = "imx565" THEN 0 ELSE 2
  BY DEF ImxInit, RegNames
<1>3. ASSUME NEW c \in Sensors PROVE FirstHv(c)
  <2>1. CASE model[c] = "imx565"
    BY <1>2, <2>1 DEF FirstHv, Rows, sensor_imx565_bit
  <2>2. CASE model[c] = "imx566"
    BY <1>2, <2>2 DEF FirstHv, Rows, sensor_imx566_bit
  <2> QED BY <1>2, <2>1, <2>2 DEF Models
<1>4. \A c \in Sensors : ~ Busy(c)
  BY <1>1 DEF Busy, AtCell
<1> QED BY <1>1, <1>2, <1>3, <1>4 DEF ImgInv, PrivOk, ReadyOk, Staged, Apart, Programming, Zero

LEMMA ImgNext ==
    ASSUME ImxTypes, SetInv, ImgInv, [ImxNext]_imxVars
    PROVE  ImgInv'
<1>0. ImxTypes'
  BY SetNext
<1>1. ASSUME NEW c \in Sensors, sensor_init_param(c) \/ reg_debug_set(c) PROVE ImgInv'
  BY <1>0, <1>1, InitMoves, DebugMoves
<1>2. ASSUME NEW p \in Callers, Ioctl(p) PROVE ImgInv'
  <2>1. ASSUME NEW c \in Sensors, NEW roi \in Rois, RoiCompute(p, c, roi) PROVE ImgInv'
    BY <1>0, <2>1, ComputeMoves
  <2>2. CASE update_xhs_pwm(p) \/ RoiFill(p) \/ RoiStandby(p) \/ RoiRow(p) \/ Wake(p)
    BY <1>0, <2>2, PwmMoves, FillMoves, StandbyMoves, RowMoves, WakeMoves
  <2>3. ASSUME NEW c \in Sensors, sensor_debug_pic_set(p, c) PROVE ImgInv'
    BY <1>0, <2>3, PicMoves
  <2>5. CASE PicBlack(p)
    BY <1>0, <2>5, BlackMoves
  <2>4. CASE \/ set_filp_write(p) \/ set_level_high(p)
             \/ \E c \in Sensors : \/ \E type \in Flips, val \in {0, 1} : set_filp_read(p, c, type, val)
                                   \/ \E reg \in Levels, val \in LevelValues : set_level_low(p, c, reg, val)
    BY <1>0, <2>4, ToldMoves
  <2> QED BY <1>2, <2>1, <2>2, <2>3, <2>4, <2>5 DEF Ioctl, SetRoi
<1>3. CASE UNCHANGED imxVars
  <2>1. UNCHANGED <<model, up, regs, priv, column, xhs, call, hurt>>
    BY <1>3 DEF imxVars
  <2>2. ASSUME NEW c \in Sensors PROVE PrivOk(c)' /\ ReadyOk(c)'
    <3>1. SameCam(c) /\ PrivOk(c) /\ ReadyOk(c) /\ (Busy(c)' <=> Busy(c))
      BY <2>1 DEF SameCam, SameRows, Busy, ImgInv
    <3>2. (Zero(c)' <=> Zero(c)) /\ (Computed(c)' <=> Computed(c)) /\ (FirstHv(c)' <=> FirstHv(c))
      BY <3>1, SensorKept
    <3>3. ReadyOk(c)'
      BY <2>1, <3>1, ReadyKept
    <3> QED BY <2>1, <3>1, <3>2, <3>3 DEF PrivOk
  <2>3. ASSUME NEW q \in Callers, NEW d \in Sensors PROVE Staged(q, d)'
    <3>1. SameCam(d) /\ Staged(q, d)
      BY <2>1 DEF SameCam, SameRows, ImgInv
    <3> QED BY <2>1, <3>1, StagedKept
  <2>4. ASSUME NEW q \in Callers, NEW r \in Callers, NEW d \in Sensors, NEW e \in Sensors
        PROVE  Apart(q, r, d, e)'
    BY <2>1 DEF ImgInv, Apart, Programming
  <2> QED BY <2>2, <2>3, <2>4 DEF ImgInv
<1> QED BY <1>1, <1>2, <1>3 DEF ImxNext

LEMMA ImgAlways == ImxSpec => [](ImxTypes /\ ImgInv)
<1>1. ImxInit => ImxTypes /\ SetInv /\ ImgInv
  BY SetInit, ImgInit
<1>2. (ImxTypes /\ SetInv /\ ImgInv) /\ [ImxNext]_imxVars => (ImxTypes /\ SetInv /\ ImgInv)'
  BY SetNext, ImgNext
<1> QED BY <1>1, <1>2, PTL DEF ImxSpec

(* However the ROI calls of any number of sensors interleave over the      *)
(* cells that cameras of one model share (set_roi_format fills them, the   *)
(* loop over the rows reads them), a camera whose last call met no other   *)
(* has its own height, and without binning its own VMAX and HMAX, in its   *)
(* registers.                                                              *)
THEOREM OwnImageStays == ImxSpec => []OwnImage
<1>1. ImxTypes /\ ImgInv => OwnImage
  BY ImageSeen
<1> QED BY <1>1, ImgAlways, PTL

(* The gates, the converter and the readout of such a camera are of one    *)
(* mode of its tables from the probe on, the readout under binning 3 apart *)
(* (it is the index byte of its row), and the pulses of XHS, of twice the  *)
(* period orin_calculate_pwm_period rounds, leave two lines the time their *)
(* HMAX asks for.                                                          *)
THEOREM OneModeStays == ImxSpec => []OneMode
<1>1. ImxTypes /\ ImgInv => OneMode
  BY ImageSeen
<1> QED BY <1>1, ImgAlways, PTL
=============================================================================
