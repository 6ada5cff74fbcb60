----------------------------- MODULE SensorRegs -----------------------------
(***************************************************************************)
(* What the drivers write to a sensor that is not a Sony one (Imx56x has   *)
(* those): the tables of sensor_init_param, the settings of GMAX3405 and   *)
(* SC535, which two callers may change side by side without any lock, and  *)
(* stream_set with the serialiser and the deserialiser's pipe behind it.   *)
(*                                                                         *)
(* A function of the source is the sequence of its register accesses; a    *)
(* caller takes one at a time, and any but the deserialiser's may be lost. *)
(* A register is the fields it has, a field a small number, 0 after a      *)
(* reset; registers nothing reads or compares are one field, "fmt".        *)
(* Left out: the timing registers, CAM_GET_MIN_EXPOSE, which only counts,  *)
(* raw register access from user space.                                    *)
(***************************************************************************)
EXTENDS Integers, Sequences

CONSTANTS Callers,    \* threads that call ioctls
          MaxCalls,   \* bound on the calls
          MaxLost,    \* bound on the accesses lost
          MaxInits    \* bound on the probes
ASSUME BoundsAssumption == {MaxCalls, MaxLost, MaxInits} \subseteq Nat

Parallel == {"gmax3405", "sc535"}
Gmsl     == {"gmax3412", "og05b2b", "og02c1b", "ov5640"}
Kinds    == Parallel \cup Gmsl

Window  == {"win1_start", "win1_length", "win_all_len", "win0_x_length", "win0_x_start"}
FLIP_H  == {"flip_h", "test", "win_x_num"}            \* the fields of one register
Black   == {"doff_odd", "doff_even"}
Held    == Window \cup FLIP_H \cup Black \cup {"flip_v", "gain"}
Rows    == {"blank_0", "blank_1", "rb_0", "rb_1"}     \* of the SC535
Sensor  == Held \cup Rows \cup {"hold", "fmt", "clock", "stream"}
Path    == {"type", "port", "pclk", "vid_tx", "map", "pipe"}
Fields  == Sensor \cup Path

-----------------------------------------------------------------------------
(* Accesses.  "skip" is what a loss makes the caller leave out.            *)
Set(names, v)   == [n \in names |-> v]
Over(f, g)      == [n \in DOMAIN f \cup DOMAIN g |-> IF n \in DOMAIN f THEN f[n] ELSE g[n]]
Access(op, f)   == [op |-> op, f |-> f, skip |-> 0]
W(names, v)     == Access("write", Set(names, v))
ReadReg(names)  == Access("read", Set(names, 0))
Modify(n, v)    == Access("modify", Set({n}, v))      \* writes what was read, one field changed
Des(names, v)   == Access("deser", Set(names, v))

\* sensor_write_table ends at the first write that fails.
sensor_write_table(table) ==
    [i \in DOMAIN table |-> [table[i] EXCEPT !.skip = Len(table) - i]]

SoftReset == W(Sensor, 0)

gmax3405_12bit_4line_master_init ==
    << W({"stream"}, 0), W({"hold"}, 0), W({"flip_v"}, 0), W({"win1_start", "win1_length"}, 0),
       W({"gain"}, 0), W({"clock"}, 0), W(FLIP_H, 0), W({"win0_x_length", "win0_x_start"}, 0),
       W({"win_all_len"}, 0), W(Black, 0), W({"fmt"}, 1) >>
sc535_12bit_4line_master_init == << SoftReset, W({"stream"}, 0), W({"fmt"}, 1), W({"stream"}, 1) >>
gmax3412_mode_12bit_2592x1944_30fps ==
    << W({"stream"}, 0), W({"hold"}, 0), W({"gain"}, 0), W({"clock"}, 0), W(FLIP_H, 0), W({"fmt"}, 1) >>
og05b2b_mode_10bit_2592x1944_30fps == << SoftReset, W({"fmt"}, 1), W({"stream"}, 0) >>
og02c1b_mode_8bit_1440x630_400fps  == << SoftReset, W({"stream"}, 0), W({"fmt"}, 1) >>
ov5640_9295_mode_1920x1080_30fps   == << SoftReset, W({"stream"}, 0), W({"fmt"}, 1) >>

start_stream == << W({"stream"}, 1) >>
stop_stream  == << W({"stream"}, 0) >>

\* 0x3005, 0x3024 and 0x3023 bring the clock up; 0x2E00 lets the sensor run.
gmax3405_init_param ==
    sensor_write_table(gmax3405_12bit_4line_master_init)
        \o << W({"clock"}, 1), W({"stream"}, 1) >>
gmax3412_init_param ==
    sensor_write_table(gmax3412_mode_12bit_2592x1944_30fps) \o << W({"stream"}, 0), W({"clock"}, 1) >>

sensor_init_param(k) ==
    CASE k = "gmax3405" -> gmax3405_init_param
      [] k = "gmax3412" -> gmax3412_init_param
      [] k = "sc535"    -> sensor_write_table(sc535_12bit_4line_master_init)
      [] k = "og05b2b"  -> sensor_write_table(og05b2b_mode_10bit_2592x1944_30fps)
      [] k = "og02c1b"  -> sensor_write_table(og02c1b_mode_8bit_1440x630_400fps)
      [] k = "ov5640"   -> sensor_write_table(ov5640_9295_mode_1920x1080_30fps)

\* The data type the serialiser lets pass; the OG02C1B opens its port here already, the
\* serialiser of the OV5640 passes what comes.
SerialiserSetup(k) ==
    CASE k \in Parallel  -> << >>
      [] k = "og02c1b" -> << W({"type"}, 1), W({"port"}, 1) >>
      [] k = "ov5640"  -> << >>
      [] OTHER         -> << W({"type"}, 1) >>

-----------------------------------------------------------------------------
(* The settings of the GMAX3405 and the SC535.                             *)
Hold(v) == W({"hold"}, v)

gmx3405_sensor_set_gain(v) == << Hold(1), W({"gain"}, v), Hold(0) >>
gmax3405_sensor_set_black_level(v) == << Hold(1), W({"doff_odd"}, v), W({"doff_even"}, v), Hold(0) >>

(* Mutant of gmax3405_sensor_set_filp: the other fields are not read first. *)
SetFilpUnread(n, v) ==
    << Hold(1), W(IF n = "flip_h" THEN FLIP_H ELSE {n}, v), Hold(0) >>

gmax3405_sensor_set_filp(n, v) ==
    << Hold(1), ReadReg(IF n = "flip_h" THEN FLIP_H ELSE {n}), Modify(n, v), Hold(0) >>

\* Alone without the hold.
gmax3405_sensor_set_test_img(v) == << ReadReg(FLIP_H), Modify("test", v) >>

(* Mutant of gmax3405_set_roi_format: the hold ends before the columns are written. *)
SetRoiEarly(v) ==
    << Hold(1), ReadReg(FLIP_H), Modify("win_x_num", 1), W({"win1_start"}, v), W({"win1_length"}, v),
       Hold(0), W({"win_all_len"}, v), W({"win0_x_length"}, v), W({"win0_x_start"}, v) >>

gmax3405_set_roi_format(v) ==
    << Hold(1), ReadReg(FLIP_H), Modify("win_x_num", 1), W({"win1_start"}, v), W({"win1_length"}, v),
       W({"win_all_len"}, v), W({"win0_x_length"}, v), W({"win0_x_start"}, v), Hold(0) >>

\* The answer's period is read from BLANK_ROWS_0 twice.
sc535hgs_set_expo_period(type, period, expo) ==
    (IF type = 1 THEN << W({"blank_0"}, period), W({"blank_1"}, period), W({"rb_0"}, expo), W({"rb_1"}, expo) >>
                 ELSE << >>)
        \o << ReadReg({"rb_0"}), ReadReg({"rb_1"}), ReadReg({"blank_0"}), ReadReg({"blank_0"}) >>

(* stream_set of the cameras behind a deserialiser.                        *)
\* The device tree may list several streams; each overwrites the map of the one before.
MapOf(list) == [i \in DOMAIN list |-> Des({"map"}, IF list[i] = "pixel" THEN 1 ELSE 0)]

z_max96724_start_streaming(list) == MapOf(list) \o << Des({"pipe"}, 1) >>
z_max96724_stop_streaming == << Des({"pipe"}, 0) >>

(* Mutant of stream_set_on: the sensor starts before the pipe. *)
stream_set_onEarly(k, list) ==
    << W({"port"}, 1), W({"pclk"}, 1) >> \o sensor_write_table(start_stream) \o z_max96724_start_streaming(list)
        \o << W({"vid_tx"}, 1) >>

stream_set_on(k, list) ==
    CASE k = "og02c1b" -> << W({"port"}, 1), W({"pclk"}, 1) >> \o z_max96724_start_streaming(list)
                              \o sensor_write_table(start_stream)
      [] k = "ov5640"  -> << W({"port"}, 1), W({"pclk"}, 1), W({"vid_tx"}, 1) >>
                              \o z_max96724_start_streaming(list) \o sensor_write_table(start_stream)
      [] OTHER         -> << W({"port"}, 1), W({"pclk"}, 1) >> \o z_max96724_start_streaming(list)
                              \o << W({"vid_tx"}, 1) >> \o sensor_write_table(start_stream)

stream_set_off(k) ==
    IF k \in {"og02c1b", "og05b2b"}
    THEN sensor_write_table(stop_stream) \o z_max96724_stop_streaming
    ELSE z_max96724_stop_streaming \o sensor_write_table(stop_stream)

-----------------------------------------------------------------------------
(* Calls: the accesses they make, what they are to leave behind, and the *)
(* fields of the registers they touch, all of which a call may spoil.      *)
Touched(a) == IF a.op = "modify" /\ DOMAIN a.f \subseteq FLIP_H THEN FLIP_H ELSE DOMAIN a.f
Call(name, code, sets) ==
    [name |-> name, code |-> code, sets |-> sets, writes |-> UNION {Touched(code[i]) : i \in DOMAIN code}]

gmax3405_ioctl_set ==
    UNION {{ Call("gain", gmx3405_sensor_set_gain(v), Set({"gain"}, v)),
             Call("black", gmax3405_sensor_set_black_level(v), Set(Black, v)),
             Call("filp", gmax3405_sensor_set_filp("flip_h", v), Set({"flip_h"}, v)),
             Call("filp", gmax3405_sensor_set_filp("flip_v", v), Set({"flip_v"}, v)),
             Call("test", gmax3405_sensor_set_test_img(v), Set({"test"}, v)),
             Call("roi", gmax3405_set_roi_format(v), Over(Set(Window, v), Set({"win_x_num"}, 1)))
           } : v \in {0, 1}}

sc535_ioctl_set ==
    {Call("expo", sc535hgs_set_expo_period(0, 1, 1), Set({}, 0))}
        \cup {Call("expo", sc535hgs_set_expo_period(1, x, 3 - x),
                   Over(Set({"blank_0", "blank_1"}, x), Set({"rb_0", "rb_1"}, 3 - x))) : x \in {1, 2}}

nv_sensor_set_stream(k, list) ==
    { Call("start", stream_set_on(k, list), Set({"stream"}, 1)),
      Call("stop", stream_set_off(k), Set({"stream"}, 0)) }

Calls(k, list) ==
    CASE k = "gmax3405" -> gmax3405_ioctl_set
      [] k = "sc535"    -> sc535_ioctl_set
      [] k \in Gmsl     -> nv_sensor_set_stream(k, list)

InitCall(k) ==
    Call("init", SerialiserSetup(k) \o sensor_init_param(k),
         CASE k = "gmax3405" -> Over(Set(Held, 0), Set({"stream", "clock", "fmt"}, 1))
           [] k = "sc535"    -> Over(Set(Rows, 0), Set({"stream", "fmt"}, 1))
           [] OTHER          -> Over(Set({"fmt"}, 1), Set({"stream"}, 0)))

VARIABLES
    driver,    \* of the camera
    streams,   \* what its device tree lists
    reg,       \* the fields, as written
    live,      \* as the sensor uses them
    call,      \* the call each caller is in
    at,        \* the next access of its code
    got,       \* what it has read
    spoilt,    \* of each caller: fields that another wrote, or that a loss may have changed
    asked,     \* history: what the fields were last set to
    doubtful,  \* history: fields a call left behind spoilt, not set since
    unheld,    \* the last access to the hold was lost
    count, lost, inits
camera   == <<driver, streams>>
callVars == <<call, at, got, spoilt>>
regsVars == <<camera, reg, live, callVars, asked, doubtful, unheld, count, lost, inits>>

NoCall == Call("none", << >>, Set({}, 0))
Idle(c) == call[c].name = "none"
AllIdle == \A c \in Callers : Idle(c)

RegsInit ==
    /\ driver \in Kinds
    /\ streams \in IF driver \in Gmsl THEN {<<"pixel">>, <<"embed", "pixel">>, <<"pixel", "embed">>} ELSE {<< >>}
    /\ reg = Set(Fields, 0) /\ live = Set(Held, 0)
    /\ call = [c \in Callers |-> NoCall] /\ at = [c \in Callers |-> 1]
    /\ got = [c \in Callers |-> Set({}, 0)] /\ spoilt = [c \in Callers |-> {}]
    /\ asked = Set(Fields, 0) /\ doubtful = {} /\ unheld = FALSE
    /\ count = 0 /\ lost = 0 /\ inits = 0

-----------------------------------------------------------------------------
Enter(c, new) ==
    /\ call' = [call EXCEPT ![c] = new] /\ at' = [at EXCEPT ![c] = 1]
    /\ got' = [got EXCEPT ![c] = Set({}, 0)]
    /\ spoilt' = [o \in Callers |->
           IF o = c THEN new.writes \cap UNION {call[x].writes : x \in Callers \ {c}}
                    ELSE spoilt[o] \cup (new.writes \cap call[o].writes)]

\* A probe takes power from the sensors whose driver does so when it is removed, and
\* nobody calls while it runs.
nv_sensor_probe(c) ==
    /\ AllIdle /\ inits < MaxInits /\ inits' = inits + 1
    /\ driver \in Gmsl => asked["stream"] = 0
    /\ Enter(c, InitCall(driver))
    /\ IF driver \in {"sc535", "ov5640"}
       THEN UNCHANGED <<reg, live>>
       ELSE reg' = Over(Set(Sensor, 0), reg) /\ live' = Set(Held, 0)
    /\ UNCHANGED <<camera, asked, doubtful, unheld, count, lost>>

\* The video device serialises the calls of stream_set, nothing those of the ioctls.
sensor_camera_ioctl(c) ==
    /\ inits > 0 /\ Idle(c) /\ count < MaxCalls /\ count' = count + 1
    /\ \A o \in Callers : call[o].name \notin {"init", "start", "stop"}
    /\ \E new \in Calls(driver, streams) :
           /\ new.name = "start" => asked["stream"] = 0
           /\ new.name = "stop" => asked["stream"] = 1
           /\ Enter(c, new)
    /\ UNCHANGED <<camera, reg, live, asked, doubtful, unheld, lost, inits>>

Land(f) ==
    /\ reg' = Over(f, reg)
    /\ live' = IF reg'["hold"] = 0 THEN [n \in Held |-> reg'[n]] ELSE live

Access1(c) == call[c].code[at[c]]
Busy(c)    == ~Idle(c) /\ at[c] <= Len(call[c].code)
Advance(c, skip) == at' = [at EXCEPT ![c] = @ + 1 + skip] /\ UNCHANGED call

imx_read_reg(c) ==
    /\ Busy(c) /\ Access1(c).op = "read" /\ Advance(c, 0)
    /\ got' = [got EXCEPT ![c] = [n \in DOMAIN Access1(c).f |-> reg[n]]]
    /\ UNCHANGED <<camera, reg, live, spoilt, asked, doubtful, unheld, count, lost, inits>>

imx_write_reg(c) ==
    LET a == Access1(c) IN
    /\ Busy(c) /\ a.op # "read" /\ Advance(c, 0)
    /\ Land(IF a.op = "modify" THEN Over(a.f, got[c]) ELSE a.f)
    /\ unheld' = IF "hold" \in DOMAIN a.f THEN FALSE ELSE unheld
    /\ UNCHANGED <<camera, got, spoilt, asked, doubtful, count, lost, inits>>

\* A read that is lost gives 0.
Lose(c) ==
    LET a == Access1(c) IN
    /\ Busy(c) /\ a.op # "deser" /\ lost < MaxLost /\ lost' = lost + 1
    /\ Advance(c, a.skip)
    /\ got' = [got EXCEPT ![c] = IF a.op = "read" THEN a.f ELSE @]
    /\ spoilt' = [spoilt EXCEPT ![c] = @ \cup call[c].writes]
    /\ unheld' = IF "hold" \in DOMAIN a.f THEN TRUE ELSE unheld
    /\ UNCHANGED <<camera, reg, live, asked, doubtful, count, inits>>

Return(c) ==
    /\ ~Idle(c) /\ ~Busy(c)
    /\ call' = [call EXCEPT ![c] = NoCall] /\ at' = [at EXCEPT ![c] = 1]
    /\ asked' = Over(call[c].sets, asked)
    /\ doubtful' = (doubtful \ DOMAIN call[c].sets) \cup spoilt[c]
    /\ spoilt' = [spoilt EXCEPT ![c] = {}]
    /\ UNCHANGED <<camera, reg, live, got, unheld, count, lost, inits>>

RegsNext == \E c \in Callers :
                \/ nv_sensor_probe(c) \/ sensor_camera_ioctl(c) \/ imx_read_reg(c) \/ imx_write_reg(c)
                \/ Lose(c) \/ Return(c)
RegsSpec == RegsInit /\ [][RegsNext]_regsVars
-----------------------------------------------------------------------------
(* Properties.                                                             *)

\* When nobody calls, the hold is released and every field the sensor uses is what was
\* asked of it last, however the calls overlapped, save for those two calls wrote side by
\* side and those of a call that lost an access; the next call repairs what it sets.
FieldsAsAsked ==
    AllIdle /\ ~unheld =>
        /\ reg["hold"] = 0
        /\ \A n \in Held \ doubtful : live[n] = asked[n]
        /\ \A n \in (Rows \cup {"stream"}) \ doubtful : reg[n] = asked[n]

\* As long as no call under way overlaps another or has lost an access, the window in use
\* is one that was asked for, never half of the next.
OneCaller ==
    /\ \A c, o \in Callers : ~Idle(c) /\ ~Idle(o) => c = o
    /\ \A c \in Callers : spoilt[c] = {}
    /\ ~unheld
WindowWhole ==
    OneCaller /\ driver = "gmax3405" /\ Window \cap doubtful = {} =>
        \A m, n \in Window : live[m] = live[n]

\* A sensor sends only after its table is through and, behind a deserialiser, into a path
\* that is open to its end, if the device tree lists its pixels last and no access of the
\* driver was lost; the pipe is closed first only while stream_set stops the camera.
Needs(k) == CASE k = "sc535"    -> {"fmt"}
              [] k = "gmax3405" -> {"fmt", "clock"}
              [] k = "gmax3412" -> {"fmt", "clock"} \cup Path
              [] k = "og05b2b"  -> {"fmt"} \cup Path
              [] k = "og02c1b"  -> {"fmt"} \cup (Path \ {"vid_tx"})
              [] k = "ov5640"   -> {"fmt"} \cup (Path \ {"type"})
PathBeforePixels ==
    reg["stream"] = 1 /\ lost = 0 /\ (\A c \in Callers : call[c].name # "stop")
        /\ (driver \in Gmsl => streams[Len(streams)] = "pixel")
        => \A n \in Needs(driver) : reg[n] = 1
=============================================================================
