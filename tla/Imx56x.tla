------------------------------- MODULE Imx56x -------------------------------
(***************************************************************************)
(* The IMX565 and IMX566 drivers once a camera is powered: the mode table  *)
(* written by sensor_init_param, and the ioctls that move registers.  The two     *)
(* files are copies that differ in tables, in sensor_init_param and in XMSTA; one *)
(* camera is of one model.                                                 *)
(*                                                                         *)
(* Registers are the groups the properties tell apart: a multi-byte value  *)
(* is one register, and Gate stands for GMRWT, GMTWT and GSDLY.  A write   *)
(* may be lost on the bus; the drivers look at no result.  Nothing checks  *)
(* the bit and binning of a ROI: they are those the interface documents.   *)
(***************************************************************************)
EXTENDS Integers, Sequences

CONSTANTS Sensors,    \* the sensors of the device
          Callers,    \* threads of applications that are inside an ioctl
          Rois,       \* the SENSOR_FORMAT_ROI_PARAM they pass
          LevelValues, \* the gains and black levels they pass
          MaxCalls,   \* bound on the ioctls of a behaviour
          MaxLost     \* bound on the transfers lost in it

Models == {"imx565", "imx566"}
Bits == 0 .. 2             \* 8, 10 and 12 bit
Binnings == 0 .. 3         \* none, and by SENSOR_FORMAT_ROI_PARAM h, v and hv binning

ASSUME RoisAssumption ==
    \A r \in Rois : r \in [bit : Bits, binning : Binnings, height : Nat]
ASSUME LevelsAssumption == LevelValues \subseteq Int

-----------------------------------------------------------------------------
(* Tables.  SETTING_PARAM by bit, without and with binning.                *)
Parm(gmrwt, gmtwt, gsdly, hmax) == [gate |-> <<gmrwt, gmtwt, gsdly>>, hmax |-> hmax]

imx565SetParm ==
    [normal |-> <<Parm(4, 26, 12, 555), Parm(4, 22, 10, 684), Parm(4, 18, 8, 812)>>,
     binned |-> <<Parm(8, 48, 24, 297), Parm(8, 40, 20, 361), Parm(8, 36, 16, 425)>>]

imx566SetParm ==
    [normal |-> <<Parm(6, 36, 16, 396), Parm(4, 30, 14, 485), Parm(4, 26, 12, 574)>>,
     binned |-> <<Parm(12, 68, 28, 218), Parm(8, 56, 24, 262), Parm(8, 48, 20, 307)>>]

\* Rows in the order of the loop.  reuse: what indexes the row (1 binning; 2 bit,
\* with a second column under binning; 0 and 3 bit).  index is the byte behind val_1.  A row whose val_1 is empty is
\* one whose cells set_roi_format fills first: they are in the variable column.
sensor_imx565_bit ==
    << [reg |-> "HVMODE", reuse |-> 1, val_1 |-> <<0, 8, 16>>, index |-> 0, val_2 |-> <<0, 0, 0>>],
       [reg |-> "VMAX",   reuse |-> 2, val_1 |-> << >>,                  val_2 |-> <<1640, 1628, 1620>>],
       [reg |-> "HMAX",   reuse |-> 2, val_1 |-> << >>,                  val_2 |-> <<297, 361, 425>>],
       [reg |-> "Gate",   reuse |-> 2, val_1 |-> << <<4, 26, 12>>, <<4, 22, 10>>, <<4, 18, 8>> >>,
                                       val_2 |-> << <<8, 48, 24>>, <<8, 40, 20>>, <<8, 36, 16>> >>],
       [reg |-> "HEIGHT", reuse |-> 0, val_1 |-> << >>,                  val_2 |-> <<0, 0, 0>>],
       [reg |-> "ADBIT",  reuse |-> 3, val_1 |-> <<37, 5, 21>>,          val_2 |-> <<0, 0, 0>>] >>

sensor_imx566_bit ==
    << [reg |-> "HVMODE", reuse |-> 1, val_1 |-> <<2, 10, 18>>, index |-> 0, val_2 |-> <<0, 0, 0>>],
       [reg |-> "VMAX",   reuse |-> 2, val_1 |-> << >>,                  val_2 |-> <<1588, 1568, 1556>>],
       [reg |-> "HMAX",   reuse |-> 2, val_1 |-> << >>,                  val_2 |-> <<218, 262, 307>>],
       [reg |-> "Gate",   reuse |-> 2, val_1 |-> << <<6, 36, 16>>, <<4, 30, 14>>, <<4, 26, 12>> >>,
                                       val_2 |-> << <<12, 68, 28>>, <<8, 56, 24>>, <<8, 48, 20>> >>],
       [reg |-> "HEIGHT", reuse |-> 0, val_1 |-> << >>,                  val_2 |-> <<0, 0, 0>>],
       [reg |-> "ADBIT",  reuse |-> 3, val_1 |-> <<37, 5, 21>>,          val_2 |-> <<0, 0, 0>>] >>

\* The rows of the mode tables that set one of these registers.  Of GAIN and BLKLEVEL
\* they set the low byte: the high one is still 0.
imx565_8bit_4line_master_init ==
    << <<"HMAX", 555>>, <<"Gate", <<4, 26, 12>> >>, <<"ADBIT", 37>>, <<"BLKLEVEL", <<15, 0>> >> >>

imx566_8bit_4line_mono_master_init ==
    << <<"HVMODE", 2>>, <<"HMAX", 396>>, <<"Gate", <<6, 36, 16>> >>, <<"ADBIT", 37>>,
       <<"GAIN", <<0, 0>> >>, <<"BLKLEVEL", <<15, 0>> >> >>

imx566_10bit_4line_color_master_init ==
    << <<"HVMODE", 2>>, <<"HMAX", 485>>, <<"Gate", <<4, 30, 14>> >>, <<"ADBIT", 5>>, <<"VMAX", 7654>> >>

Null == << >>
mode_table(m, type) ==
    IF m = "imx565" THEN IF type = 0 THEN imx565_8bit_4line_master_init ELSE Null
    ELSE IF type = 0 THEN imx566_8bit_4line_mono_master_init
         ELSE imx566_10bit_4line_color_master_init

Rows(m)       == IF m = "imx565" THEN sensor_imx565_bit ELSE sensor_imx566_bit
PixelHeight(m) == IF m = "imx565" THEN 3008 ELSE 2848
SetParm(m, bit, binning) ==
    LET t == IF m = "imx565" THEN imx565SetParm ELSE imx566SetParm
    IN  (IF binning = 0 THEN t.normal ELSE t.binned)[bit + 1]

-----------------------------------------------------------------------------
(* Arithmetic of the line period, in nanoseconds at 74250 kHz.             *)
input_freq == 74250
Mega == 1000000
Ceil(a, b) == (a + b - 1) \div b

orin_calculate_pwm_period(hmax) ==
    LET mDivisor == Ceil(6375 * hmax, input_freq * 4)
        mPeriod  == (32000 * mDivisor) \div 51
    IN  [period |-> mPeriod, hmax |-> (mPeriod * input_freq) \div Mega]

CALCULATE_ROUND(h) == 8 * (h \div 8)

\* An illegal height leaves vmax as it was.
update_vmax_fps(m, h, gate, old) ==
    IF h < 8 \/ PixelHeight(m) < h THEN old ELSE h + gate[1] + gate[2] + gate[3] + 86 + 1

-----------------------------------------------------------------------------
VARIABLES model,     \* of each camera
          up,        \* "off", "up" or, a null mode table followed, "oops"
          regs,      \* registers of each sensor
          priv,      \* struct nv_sony_sensor of each camera
          column,    \* the cells set_roi_format fills, one table for each model
          xhs,       \* period of the XHS pulses of each camera, 0 when off
          call,      \* the ioctl each caller is in
          calls,     \* ioctls so far, for the bound
          lost,      \* transfers lost so far, for the bound
          asked,     \* history: the flips and levels each camera was last told, or Unknown
          hurt       \* history: cameras whose latest image is not to be trusted

bounds == <<calls, lost>>
imxVars == <<model, up, regs, priv, column, xhs, call, bounds, asked, hurt>>

RegNames == {"STANDBY", "HVMODE", "VMAX", "HMAX", "Gate", "HEIGHT", "ADBIT", "REVERSE", "GAIN", "BLKLEVEL"}
Idle == [pc |-> "idle"]
InUse(c) == {p \in Callers : call[p] # Idle /\ call[p].cam = c}

Flips  == {"VERTICAL", "HORIZONTAL"}   \* the bits of register REVERSE
Levels == {"GAIN", "BLKLEVEL"}         \* registers of two bytes
Unknown == -1

ImxInit ==
    /\ model \in [Sensors -> Models]
    /\ up = [c \in Sensors |-> "off"]
    /\ regs = [c \in Sensors |-> [r \in RegNames |->
                   CASE r = "STANDBY" -> 1
                     [] r = "Gate"    -> <<0, 0, 0>>
                     [] r = "HVMODE"  -> IF model[c] = "imx565" THEN 0 ELSE 2
                     [] r = "REVERSE" -> [f \in {"VERTICAL", "HORIZONTAL"} |-> 0]
                     [] r \in {"GAIN", "BLKLEVEL"} -> <<0, 0>>
                     [] OTHER         -> 0]]
    /\ priv = [c \in Sensors |-> [bit |-> IF model[c] = "imx565" THEN 0 ELSE 1, binning |-> 0,
                   height |-> PixelHeight(model[c]), gate |-> <<0, 0, 0>>, hmax |-> 0, vmax |-> 0, period |-> 0]]
    /\ column = [m \in Models |-> [b \in Bits |-> [VMAX |-> 0, HMAX |-> 0, HEIGHT |-> 0]]]
    /\ xhs = [c \in Sensors |-> 0]
    /\ call = [p \in Callers |-> Idle]
    /\ asked = [c \in Sensors |-> [s \in Flips \cup Levels |-> Unknown]]
    /\ hurt = {}
    /\ calls = 0 /\ lost = 0

Begin(p, c) == call[p] = Idle /\ up[c] = "up" /\ calls < MaxCalls /\ calls' = calls + 1
Lose(n) == lost + n <= MaxLost /\ lost' = lost + n

\* imx_write_reg: the transfer arrives or is lost.
imx_write_reg(c, r, v) ==
    \/ regs' = [regs EXCEPT ![c][r] = v] /\ UNCHANGED <<hurt, lost>>
    \/ hurt' = hurt \cup {c} /\ Lose(1) /\ UNCHANGED regs

\* sensor_write_table stops at the first transfer that fails: n rows arrive, and of
\* those that name one register the last one stays.
sensor_write_table(c, table, n) ==
    [r \in RegNames |->
        LET rows == {i \in 1 .. n : table[i][1] = r} IN
        IF rows = {} THEN regs[c][r] ELSE table[CHOOSE i \in rows : \A j \in rows : j <= i][2]]

-----------------------------------------------------------------------------
(* Probe: nothing else reaches the sensor yet.                             *)
imx565_init_param(c, type) ==
    LET table == mode_table("imx565", type) IN
    /\ model[c] = "imx565"
    /\ IF table = Null
       THEN up' = [up EXCEPT ![c] = "oops"] /\ UNCHANGED <<regs, hurt, lost>>
       ELSE \E n \in 0 .. Len(table) :
                /\ up' = [up EXCEPT ![c] = "up"]
                /\ regs' = [regs EXCEPT ![c] = [sensor_write_table(c, table, n) EXCEPT !.STANDBY = 0]]
                /\ IF n < Len(table) THEN Lose(1) /\ hurt' = hurt \cup {c} ELSE UNCHANGED <<lost, hurt>>
    /\ UNCHANGED <<model, priv, column, xhs, call, calls, asked>>

imx566_init_param(c, type) ==
    LET table == mode_table("imx566", type)
        hmax  == imx566SetParm.normal[2].hmax IN
    /\ model[c] = "imx566"
    /\ up' = [up EXCEPT ![c] = "up"]
    /\ \E n \in 0 .. Len(table) :
           /\ regs' = [regs EXCEPT ![c] = [sensor_write_table(c, table, n) EXCEPT !.STANDBY = 0]]
           /\ IF n < Len(table) THEN Lose(1) /\ hurt' = hurt \cup {c} ELSE UNCHANGED <<lost, hurt>>
    /\ priv' = IF type = 1
               THEN [priv EXCEPT ![c].hmax = hmax, ![c].period = (hmax * Mega) \div input_freq + 1]
               ELSE priv
    /\ UNCHANGED <<model, column, xhs, call, calls, asked>>

sensor_init_param(c) ==
    /\ up[c] = "off"
    /\ \E type \in {0, 1} : imx565_init_param(c, type) \/ imx566_init_param(c, type)

-----------------------------------------------------------------------------
(* CAM_SET_ROI_FORMAT.  A call that begins hurts the image of a camera     *)
(* being programmed, or about to take its cells from the same column.      *)
Programming(p) == call[p].pc \notin {"idle", "flip", "level"}
Clash(c, bit) ==
    {call[p].cam : p \in {p \in Callers : /\ Programming(p)
                                          /\ \/ call[p].cam = c
                                             \/ /\ call[p].pc \in {"xhs", "fill", "standby", "rows"}
                                                /\ model[call[p].cam] = model[c]
                                                /\ priv[call[p].cam].bit = bit}}

\* x, y and width are rounded and filled as height is.
RoiCompute(p, c, roi) ==
    LET parm == SetParm(model[c], roi.bit, roi.binning)
        gate == parm.gate
        line == orin_calculate_pwm_period(parm.hmax)
        h    == CALCULATE_ROUND(roi.height)
        bad  == Clash(c, roi.bit) IN
    /\ Begin(p, c)
    /\ priv' = [priv EXCEPT ![c] = [bit |-> roi.bit, binning |-> roi.binning, height |-> h, gate |-> gate,
                                    hmax |-> line.hmax, period |-> line.period,
                                    vmax |-> update_vmax_fps(model[c], h, gate, priv[c].vmax)]]
    /\ call' = [call EXCEPT ![p] = [pc |-> "xhs", cam |-> c]]
    /\ hurt' = IF bad = {} THEN hurt \ {c} ELSE hurt \cup bad \cup {c}
    /\ UNCHANGED <<model, up, regs, column, xhs, lost, asked>>

\* The PWM is stopped, then started with twice the period of a line; either may fail.
update_xhs_pwm(p) ==
    LET c == call[p].cam IN
    /\ call[p].pc = "xhs"
    /\ \/ xhs' = [xhs EXCEPT ![c] = 2 * priv[c].period] /\ UNCHANGED <<hurt, lost>>
       \/ \E old \in {0, xhs[c]} : xhs' = [xhs EXCEPT ![c] = old] /\ hurt' = hurt \cup {c} /\ Lose(1)
    /\ call' = [call EXCEPT ![p].pc = "fill"]
    /\ UNCHANGED <<model, up, regs, priv, column, calls, asked>>

(* Mutant of RoiFill: the height is not renewed. *)
RoiFillNoHeight(p) ==
    LET c == call[p].cam IN
    /\ call[p].pc = "fill"
    /\ column' = [column EXCEPT ![model[c]][priv[c].bit].VMAX = priv[c].vmax,
                                ![model[c]][priv[c].bit].HMAX = priv[c].hmax]
    /\ call' = [call EXCEPT ![p].pc = "standby"]
    /\ UNCHANGED <<model, up, regs, priv, xhs, bounds, asked, hurt>>

RoiFill(p) ==
    LET c == call[p].cam IN
    /\ call[p].pc = "fill"
    /\ column' = [column EXCEPT ![model[c]][priv[c].bit] =
                      [VMAX |-> priv[c].vmax, HMAX |-> priv[c].hmax, HEIGHT |-> priv[c].height]]
    /\ call' = [call EXCEPT ![p].pc = "standby"]
    /\ UNCHANGED <<model, up, regs, priv, xhs, bounds, asked, hurt>>

RoiStandby(p) ==
    /\ call[p].pc = "standby"
    /\ imx_write_reg(call[p].cam, "STANDBY", 1)
    /\ call' = [call EXCEPT ![p] = [pc |-> "rows", cam |-> call[p].cam, row |-> 1]]
    /\ UNCHANGED <<model, up, priv, column, xhs, calls, asked>>

\* val_1 of a row indexed by binning has three bytes; the next in memory is index.
AtBinning(row, binning) == IF binning < 3 THEN row.val_1[binning + 1] ELSE row.index

(* Mutant of RowValue: rows with a second column ignore binning. *)
RowValueNormal(c, row) ==
    IF row.reuse = 1 THEN AtBinning(row, priv[c].binning)
    ELSE IF row.val_1 = << >> THEN column[model[c]][priv[c].bit][row.reg]
    ELSE row.val_1[priv[c].bit + 1]

\* What the loop writes for a row, from the camera's bit and binning of the moment.
RowValue(c, row) ==
    IF row.reuse = 1 THEN AtBinning(row, priv[c].binning)
    ELSE IF row.reuse = 2 /\ priv[c].binning # 0 THEN row.val_2[priv[c].bit + 1]
    ELSE IF row.val_1 = << >> THEN column[model[c]][priv[c].bit][row.reg]
    ELSE row.val_1[priv[c].bit + 1]

RoiRow(p) ==
    /\ call[p].pc = "rows"
    /\ LET c   == call[p].cam
           i   == call[p].row
           row == Rows(model[c])[i] IN
       /\ imx_write_reg(c, row.reg, RowValue(c, row))
       /\ call' = [call EXCEPT ![p] = IF i = Len(Rows(model[c])) THEN [pc |-> "wake", cam |-> c]
                                      ELSE [@ EXCEPT !.row = i + 1]]
    /\ UNCHANGED <<model, up, priv, column, xhs, calls, asked>>

Wake(p) ==
    /\ call[p].pc = "wake"
    /\ imx_write_reg(call[p].cam, "STANDBY", 0)
    /\ call' = [call EXCEPT ![p] = Idle]
    /\ UNCHANGED <<model, up, priv, column, xhs, calls, asked>>

SetRoi(p) ==
    \/ \E c \in Sensors, roi \in Rois : RoiCompute(p, c, roi)
    \/ update_xhs_pwm(p) \/ RoiFill(p) \/ RoiStandby(p) \/ RoiRow(p)

-----------------------------------------------------------------------------
(* CAM_SET_HFLIP, CAM_SET_VFLIP: register REVERSE is read, changed, written. *)
(* CAM_SET_GAIN, CAM_SET_BLACK_LEVEL: two bytes, the low one first.        *)
Tells(p, c, reg) == call[p].pc \in {"flip", "level"} /\ call[p].cam = c /\ call[p].reg = reg

\* A call tells its sensor something for sure only if no transfer of it is lost and
\* nothing else writes its register meanwhile: those of reg on c are in doubt.
Doubt(c, reg) == [q \in Callers |-> IF Tells(q, c, reg) THEN [call[q] EXCEPT !.good = FALSE] ELSE call[q]]

Tell(p, entry, ok) ==
    LET others == {q \in Callers : Tells(q, entry.cam, entry.reg)} IN
    call' = [Doubt(entry.cam, entry.reg) EXCEPT ![p] = [entry EXCEPT !.good = ok /\ others = {}]]

Settle(c, names, good, new) ==
    asked' = [asked EXCEPT ![c] = [s \in Flips \cup Levels |->
                 IF s \notin names THEN @[s] ELSE IF good THEN new[s] ELSE Unknown]]

(* Mutant of set_filp_read: the other flip is not kept. *)
set_filp_readAlone(p, c, type, val) ==
    /\ Begin(p, c)
    /\ Tell(p, [pc |-> "flip", cam |-> c, good |-> TRUE, reg |-> "REVERSE", type |-> type,
                value |-> [f \in Flips |-> IF f = type THEN val ELSE 0]], TRUE)
    /\ UNCHANGED <<model, up, regs, priv, column, xhs, lost, asked, hurt>>

set_filp_read(p, c, type, val) ==
    /\ Begin(p, c)
    /\ \E ok \in BOOLEAN :
       /\ IF ok THEN UNCHANGED lost ELSE Lose(1)
       /\ LET value == IF ok THEN regs[c].REVERSE ELSE [f \in Flips |-> 0] IN
          Tell(p, [pc |-> "flip", cam |-> c, good |-> TRUE, reg |-> "REVERSE", type |-> type,
                   value |-> [value EXCEPT ![type] = val]], ok)
    /\ UNCHANGED <<model, up, regs, priv, column, xhs, asked, hurt>>

\* A lost read clears the other flip too: both are unknown afterwards.
set_filp_write(p) ==
    LET c == call[p].cam
        t == call[p].type IN
    /\ call[p].pc = "flip"
    /\ \/ /\ regs' = [regs EXCEPT ![c].REVERSE = call[p].value]
          /\ IF call[p].good THEN Settle(c, {t}, TRUE, call[p].value) ELSE Settle(c, Flips, FALSE, << >>)
          /\ UNCHANGED lost
       \/ UNCHANGED regs /\ Lose(1) /\ Settle(c, Flips, FALSE, << >>)
    /\ call' = [call EXCEPT ![p] = Idle]
    /\ UNCHANGED <<model, up, priv, column, xhs, calls, hurt>>

\* What the driver makes of an argument: a gain is in tenths, both are 16 bits wide.
U16 == 65536
LevelOf(reg, val) == (IF reg = "GAIN" THEN 10 * val ELSE val) % U16

set_level_low(p, c, reg, val) ==
    LET level == LevelOf(reg, val) IN
    /\ Begin(p, c)
    /\ \E ok \in BOOLEAN :
       /\ IF ok THEN regs' = [regs EXCEPT ![c][reg][1] = level % 256] /\ UNCHANGED lost
          ELSE UNCHANGED regs /\ Lose(1)
       /\ Tell(p, [pc |-> "level", cam |-> c, good |-> TRUE, reg |-> reg, val |-> val], ok)
    /\ UNCHANGED <<model, up, priv, column, xhs, asked, hurt>>

set_level_high(p) ==
    LET c    == call[p].cam
        r    == call[p].reg
        high == LevelOf(r, call[p].val) \div 256 IN
    /\ call[p].pc = "level"
    /\ \E ok \in BOOLEAN :
       /\ IF ok THEN regs' = [regs EXCEPT ![c][r][2] = high % (IF r = "GAIN" THEN 2 ELSE 16)] /\ UNCHANGED lost
          ELSE UNCHANGED regs /\ Lose(1)
       /\ Settle(c, {r}, ok /\ call[p].good, [l \in Levels |-> call[p].val])
    /\ call' = [call EXCEPT ![p] = Idle]
    /\ UNCHANGED <<model, up, priv, column, xhs, calls, hurt>>

-----------------------------------------------------------------------------
(* CAM_SET_CUSTOM_TEST of the IMX566: between standby and wake, the last   *)
(* bytes of a test picture take the black level away.                      *)
sensor_debug_pic_set(p, c) ==
    /\ Begin(p, c) /\ model[c] = "imx566"
    /\ \/ /\ regs' = [regs EXCEPT ![c].STANDBY = 1]
          /\ hurt' = IF \E q \in InUse(c) : Programming(q) THEN hurt \cup {c} ELSE hurt
          /\ UNCHANGED lost
       \/ UNCHANGED regs /\ hurt' = hurt \cup {c} /\ Lose(1)
    /\ call' = [call EXCEPT ![p] = [pc |-> "black", cam |-> c, byte |-> 1]]
    /\ UNCHANGED <<model, up, priv, column, xhs, asked>>

PicBlack(p) ==
    LET c == call[p].cam
        i == call[p].byte IN
    /\ call[p].pc = "black"
    /\ \/ regs' = [regs EXCEPT ![c]["BLKLEVEL"][i] = 0] /\ UNCHANGED lost
       \/ UNCHANGED regs /\ Lose(1)
    /\ Settle(c, {"BLKLEVEL"}, FALSE, << >>)
    /\ call' = [Doubt(c, "BLKLEVEL") EXCEPT ![p] = IF i = 1 THEN [call[p] EXCEPT !.byte = 2]
                                                   ELSE [pc |-> "wake", cam |-> c]]
    /\ UNCHANGED <<model, up, priv, column, xhs, calls, hurt>>

\* V4L2_CID_REGIST_IOCTL writes any register.
reg_debug_set(c) ==
    /\ up[c] = "up" /\ calls < MaxCalls /\ calls' = calls + 1
    /\ \/ /\ regs' = [regs EXCEPT ![c].HVMODE = 1]
          /\ hurt' = hurt \cup {c} /\ UNCHANGED <<asked, call>>
       \/ /\ regs' = [regs EXCEPT ![c].REVERSE = [f \in Flips |-> 1]]
          /\ Settle(c, Flips, FALSE, << >>)
          /\ call' = Doubt(c, "REVERSE")
          /\ UNCHANGED hurt
    /\ UNCHANGED <<model, up, priv, column, xhs, lost>>

Ioctl(p) ==
    \/ SetRoi(p) \/ Wake(p) \/ PicBlack(p) \/ set_filp_write(p) \/ set_level_high(p)
    \/ \E c \in Sensors : \/ sensor_debug_pic_set(p, c)
                          \/ \E type \in Flips, val \in {0, 1} : set_filp_read(p, c, type, val)
                          \/ \E reg \in Levels, val \in LevelValues : set_level_low(p, c, reg, val)

ImxNext ==
    \/ \E c \in Sensors : sensor_init_param(c) \/ reg_debug_set(c)
    \/ \E p \in Callers : Ioctl(p)

ImxSpec == ImxInit /\ [][ImxNext]_imxVars

-----------------------------------------------------------------------------
(* Properties.                                                             *)
Quiet(c) == up[c] = "up" /\ c \notin hurt /\ ~ \E p \in InUse(c) : Programming(p)

\* The largest arguments a 9-bit gain in tenths and a 12-bit black level can hold.
MaxLevel == [GAIN |-> 51, BLKLEVEL |-> 4095]

Normal(c) == priv[c].binning = 0

\* After a ROI call that met no other one on its sensor, nor one of the same model and bit,
\* the sensor holds that ROI: the cells go through a static table which cameras share.
OwnImage ==
    \A c \in Sensors : Quiet(c) /\ priv[c].gate # <<0, 0, 0>> =>
        /\ regs[c].HEIGHT = priv[c].height
        /\ Normal(c) => regs[c].VMAX = priv[c].vmax /\ regs[c].HMAX = priv[c].hmax

\* From the first table on, the registers that set width of the converter, gate timing
\* and readout belong to one mode, whichever table they were taken from, and a period of
\* the XHS pulses leaves two lines the time HMAX asks for.  Binning 3 is left to BinsAsAsked.
OneMode ==
    \A c \in Sensors : Quiet(c) =>
        /\ \E bit \in Bits, binning \in Binnings \ {3} :
               /\ regs[c].Gate = SetParm(model[c], bit, binning).gate
               /\ regs[c].ADBIT = Rows(model[c])[6].val_1[bit + 1]
               /\ priv[c].binning # 3 => regs[c].HVMODE = AtBinning(Rows(model[c])[1], binning)
        /\ xhs[c] # 0 => 2 * regs[c].HMAX * Mega <= (xhs[c] + 28) * input_freq

\* The documented binnings, the third too, end in a readout that bins (nv_sensor_common.h:178).
\* Fails: for binning 3 set_roi_format reads the byte behind the three of val_1.
BinsAsAsked ==
    \A c \in Sensors : Quiet(c) /\ ~ Normal(c) => regs[c].HVMODE # Rows(model[c])[1].val_1[1]

\* A flip, gain or black level told by a call whose register nobody wrote meanwhile stays
\* what it was told through every other setting, ROI and test picture, but that a test
\* picture takes the black level away: flips share a register, levels span two.
SettingsAsAsked ==
    \A c \in Sensors :
        /\ \A f \in Flips : asked[c][f] \in {regs[c].REVERSE[f], Unknown}
        /\ \A l \in Levels :
               \/ asked[c][l] \notin 0 .. MaxLevel[l]
               \/ \E p \in Callers : call[p].pc = "level" /\ Tells(p, c, l)
               \/ regs[c][l][1] + 256 * regs[c][l][2] = (IF l = "GAIN" THEN 10 ELSE 1) * asked[c][l]
=============================================================================
