------------------------------ MODULE GmslLink ------------------------------
(***************************************************************************)
(* Cameras behind one MAX96724 deserialiser: the board_setup and stream_set *)
(* functions of the GMSL sensors (ov5640, og02c1b, og05b2b, gmax3412) and  *)
(* the calls of max96724_drv.c they make.                                  *)
(*                                                                         *)
(* Every camera is named by its link.  Serialisers of a kind start at the  *)
(* same address and so do the sensors behind them; a setup therefore takes *)
(* the deserialiser's mutex, closes all other links, moves its serialiser  *)
(* to an address of its own, lets it translate the sensor's address, and   *)
(* reopens the links that are set up.                                      *)
(*                                                                         *)
(* Transfers to the deserialiser succeed, those over a link may fail.      *)
(* Left out: the camera clock and the failure to start it, the sensors'    *)
(* register tables, link resets, the serialiser's video set-up.            *)
(***************************************************************************)
EXTENDS Integers

CONSTANTS
    Sensors,  \* the links in use, numbers 0 to 3
    Mixes     \* the boards: which sensor sits on which link

ASSUME SensorsAssumption == Sensors \subseteq 0..3
Models == {"ov5640", "og02c1b", "og05b2b", "gmax3412"}
ASSUME MixesAssumption   == Mixes \subseteq [Sensors -> Models]

VARIABLES
    kind,      \* the board at hand, never changes
    mutex,     \* lock of the deserialiser: its holder, or None
    serdes,    \* serdes[k]: lock of the sensor driver of kind k
    link_lock_status,  \* links that are set up
    enabled,   \* register 0x0006: links that are open
    stream,    \* register 0x00f4: links whose pipe is on
    ser,       \* ser[s]: address serialiser s answers at
    xlat,      \* xlat[s]: camera whose address serialiser s translates, or None
    power,     \* sensors with clock and reset released
    pc, ret, val, \* each camera's label, return code and copy of 0x00f4
    told,      \* history: cameras last told to stream
    bare,      \* history: cameras set up again, which work without the mutex
    crossed    \* history: somebody began while such a setup was at work

regVars == <<link_lock_status, enabled, stream>>
busVars == <<ser, xlat, power>>
races   == <<bare, crossed>>
vars == <<kind, mutex, serdes, regVars, busVars, pc, ret, val, told, races>>

None  == -1
Setup     == {"mono", "alias", "serid", "power", "id", "xlat", "enable", "mark", "off",
              "restore", "unlock"}
Streaming == {"start", "read", "write", "table", "stop_read", "stop_write"}
Label == {"unbound", "lock", "bound", "oops"} \cup Setup \cup Streaming

(* The address a serialiser has after reset and the one it is moved to.    *)
Default(s) == IF kind[s] \in {"ov5640", "og02c1b"} THEN 64 ELSE 66
Base(s)    == IF kind[s] = "ov5640" THEN 32 ELSE 66

(* Mutant of Alias: the link is not added. *)
AliasOfKind(s) == Base(s)

Alias(s) == Base(s) + s

(* The serialisers a transfer to an address reaches: open links only.      *)
Reach(a) == {t \in enabled : ser[t] = a}

Go(s, label) == pc' = [pc EXCEPT ![s] = label]

Init ==
    /\ kind \in Mixes
    /\ mutex = None /\ serdes = [k \in Models |-> None]
    /\ link_lock_status = {} /\ enabled = {} /\ stream = {}
    /\ ser = [s \in Sensors |-> Default(s)] /\ xlat = [s \in Sensors |-> None]
    /\ power = {s \in Sensors : kind[s] = "ov5640"}
    /\ pc = [s \in Sensors |-> "unbound"] /\ ret = [s \in Sensors |-> "ok"]
    /\ val = [s \in Sensors |-> {}] /\ told = {} /\ bare = {} /\ crossed = FALSE
-----------------------------------------------------------------------------
(***************************************************************************)
(* board_setup, called by nv_sensor_probe.  Steps that differ by kind say  *)
(* so; the other accesses are the same in the four drivers.                *)
(***************************************************************************)
Probe(s) ==
    /\ pc[s] = "unbound" /\ Go(s, "lock")
    /\ ret' = [ret EXCEPT ![s] = "ok"]
    /\ UNCHANGED <<kind, mutex, serdes, regVars, busVars, val, told, races>>

(* A link that is set up already, of a camera bound anew: the mutex is     *)
(* given back at once, an error is stored, and the setup goes on without   *)
(* it.  The error is overwritten by the next read.                         *)
LockLink(s) ==
    /\ pc[s] = "lock" /\ mutex = None /\ Go(s, "mono")
    /\ \/ /\ s \notin link_lock_status
          /\ mutex' = s /\ UNCHANGED bare
       \/ /\ s \in link_lock_status
          /\ bare' = bare \cup {s} /\ UNCHANGED mutex
    /\ crossed' = (crossed \/ bare # {})
    /\ UNCHANGED <<kind, serdes, regVars, busVars, ret, val, told>>

(* Mutant of Monopolize: the link is added to those that are open. *)
MonopolizeAdds(s) ==
    /\ pc[s] = "mono" /\ Go(s, "alias")
    /\ enabled' = enabled \cup {s}
    /\ UNCHANGED <<kind, mutex, serdes, link_lock_status, stream, busVars, ret, val, told, races>>

Monopolize(s) ==
    /\ pc[s] = "mono" /\ Go(s, "alias")
    /\ enabled' = {s}
    /\ UNCHANGED <<kind, mutex, serdes, link_lock_status, stream, busVars, ret, val, told, races>>

(* A write reaches them or is lost; the drivers seldom look which.         *)
Hits(a) == {Reach(a), {}}

(* Whoever answers at the default address moves.                           *)
WriteAlias(s) ==
    /\ pc[s] = "alias" /\ Go(s, "serid")
    /\ \E hit \in Hits(Default(s)) :
          ser' = [t \in Sensors |-> IF t \in hit THEN Alias(s) ELSE ser[t]]
    /\ UNCHANGED <<kind, mutex, serdes, regVars, xlat, power, ret, val, told, races>>

(* The error path: og05b2b and gmax3412 power the sensor off first.        *)
ErrExit(s) == Go(s, IF kind[s] \in {"og05b2b", "gmax3412"} THEN "off" ELSE "restore")

ReadSerializerId(s) ==
    /\ pc[s] = "serid"
    /\ \/ /\ Reach(Alias(s)) # {}
          /\ Go(s, IF kind[s] = "ov5640" THEN "id" ELSE "power")
          /\ ret' = [ret EXCEPT ![s] = "ok"]
       \/ ErrExit(s) /\ ret' = [ret EXCEPT ![s] = "err"]
    /\ UNCHANGED <<kind, mutex, serdes, regVars, busVars, val, told, races>>

(* og05b2b and gmax3412 look at the result of the write that releases the  *)
(* reset, og02c1b does not.                                                *)
PowerOn(s) ==
    /\ pc[s] = "power"
    /\ \E hit \in Hits(Alias(s)) :
          /\ power' = power \cup hit
          /\ \/ /\ Reach(Alias(s)) # {} /\ (kind[s] # "og02c1b" => hit # {})
                /\ Go(s, "id") /\ UNCHANGED ret
             \/ ErrExit(s) /\ ret' = [ret EXCEPT ![s] = "err"]
    /\ UNCHANGED <<kind, mutex, serdes, regVars, ser, xlat, val, told, races>>

(* A transfer that fails leaves an error; an answer that is not the id     *)
(* expected is an error for ov5640 only.                                   *)
ReadSensorId(s) ==
    /\ pc[s] = "id"
    /\ \/ /\ \E t \in enabled \cap power : kind[t] = kind[s]
          /\ Go(s, "xlat") /\ UNCHANGED ret
       \/ /\ ErrExit(s)
          /\ ret' \in {[ret EXCEPT ![s] = r] : r \in IF kind[s] = "ov5640" THEN {"err"}
                                                     ELSE {"ok", "err"}}
    /\ UNCHANGED <<kind, mutex, serdes, regVars, busVars, val, told, races>>

Translate(s) ==
    /\ pc[s] = "xlat" /\ Go(s, "enable")
    /\ \E hit \in Hits(Alias(s)) :
          xlat' = [t \in Sensors |-> IF t \in hit THEN s ELSE xlat[t]]
    /\ UNCHANGED <<kind, mutex, serdes, regVars, ser, power, ret, val, told, races>>

(* link_lock_status |= 1 << link, a load and a store.                      *)
LoadMarks(s) ==
    /\ pc[s] = "enable" /\ Go(s, "mark")
    /\ val' = [val EXCEPT ![s] = link_lock_status]
    /\ UNCHANGED <<kind, mutex, serdes, regVars, busVars, ret, told, races>>

EnableLink(s) ==
    /\ pc[s] = "mark" /\ Go(s, "restore")
    /\ link_lock_status' = val[s] \cup {s}
    /\ val' = [val EXCEPT ![s] = {}]
    /\ UNCHANGED <<kind, mutex, serdes, enabled, stream, busVars, ret, told, races>>

SwitchOff(s) == \E hit \in Hits(Alias(s)) : power' = power \ hit

PowerOffOnError(s) ==
    /\ pc[s] = "off" /\ Go(s, "restore")
    /\ SwitchOff(s)
    /\ UNCHANGED <<kind, mutex, serdes, regVars, ser, xlat, ret, val, told, races>>

(* Mutant of RestoreLink: the other links stay closed. *)
RestoreLinkNot(s) ==
    /\ pc[s] = "restore" /\ Go(s, "unlock")
    /\ enabled' = enabled
    /\ UNCHANGED <<kind, mutex, serdes, link_lock_status, stream, busVars, ret, val, told, races>>

RestoreLink(s) ==
    /\ pc[s] = "restore" /\ Go(s, "unlock")
    /\ enabled' = link_lock_status
    /\ UNCHANGED <<kind, mutex, serdes, link_lock_status, stream, busVars, ret, val, told, races>>

(* Mutant of UnlockLink: the mutex is kept after an error. *)
UnlockLinkOnSuccess(s) ==
    /\ pc[s] = "unlock" /\ Go(s, IF ret[s] = "ok" THEN "bound" ELSE "unbound")
    /\ mutex' = IF ret[s] = "ok" THEN None ELSE mutex
    /\ bare' = bare \ {s}
    /\ UNCHANGED <<kind, serdes, regVars, busVars, ret, val, told, crossed>>

(* mutex_unlock does not ask who holds the mutex.                          *)
UnlockLink(s) ==
    /\ pc[s] = "unlock" /\ Go(s, IF ret[s] = "ok" THEN "bound" ELSE "unbound")
    /\ mutex' = None /\ bare' = bare \ {s}
    /\ UNCHANGED <<kind, serdes, regVars, busVars, ret, val, told, crossed>>

SetupStep(s) ==
    \/ LockLink(s) \/ Monopolize(s) \/ WriteAlias(s) \/ ReadSerializerId(s) \/ PowerOn(s)
    \/ ReadSensorId(s) \/ Translate(s) \/ LoadMarks(s) \/ EnableLink(s)
    \/ PowerOffOnError(s) \/ RestoreLink(s) \/ UnlockLink(s)

(* nv_sensor_remove: the sensor goes off, link and mark stay.  A camera    *)
(* that streams is not removed.                                            *)
Remove(s) ==
    /\ pc[s] = "bound" /\ s \notin told /\ Go(s, "unbound")
    /\ IF kind[s] = "ov5640" THEN UNCHANGED power ELSE SwitchOff(s)
    /\ UNCHANGED <<kind, mutex, serdes, regVars, ser, xlat, ret, val, told, races>>
-----------------------------------------------------------------------------
(***************************************************************************)
(* stream_set.  serdes_lock__ is never initialised: a waiter either gets   *)
(* it by spinning or stops on the missing wait list.                       *)
(***************************************************************************)
StreamOn(s) ==
    /\ pc[s] = "bound" /\ Go(s, "start")
    /\ UNCHANGED <<kind, mutex, serdes, regVars, busVars, ret, val, told, races>>

StreamOff(s) ==
    /\ pc[s] = "bound" /\ s \in told /\ Go(s, "stop_read")
    /\ UNCHANGED <<kind, mutex, serdes, regVars, busVars, ret, val, told, races>>

LockSerdes(s) ==
    /\ pc[s] = "start"
    /\ \/ /\ serdes[kind[s]] = None
          /\ serdes' = [serdes EXCEPT ![kind[s]] = s] /\ Go(s, "read")
       \/ /\ serdes[kind[s]] # None
          /\ Go(s, "oops") /\ UNCHANGED serdes
    /\ UNCHANGED <<kind, mutex, regVars, busVars, ret, val, told, races>>

(* Mutant of ReadStreams: the mutex is not taken. *)
ReadStreamsUnlocked(s, from, to) ==
    /\ pc[s] = from /\ Go(s, to)
    /\ val' = [val EXCEPT ![s] = stream]
    /\ crossed' = (crossed \/ bare # {})
    /\ UNCHANGED <<kind, mutex, serdes, regVars, busVars, ret, told, bare>>

(* z_max96724_start_streaming and z_max96724_stop_streaming lock, read the *)
(* register, write it with the link's bit changed and unlock.              *)
ReadStreams(s, from, to) ==
    /\ pc[s] = from /\ Go(s, to)
    /\ mutex = None /\ mutex' = s
    /\ val' = [val EXCEPT ![s] = stream]
    /\ crossed' = (crossed \/ bare # {})
    /\ UNCHANGED <<kind, serdes, regVars, busVars, ret, told, bare>>

WriteStreams(s, from, to, on) ==
    /\ pc[s] = from /\ Go(s, to)
    /\ stream' = IF on THEN val[s] \cup {s} ELSE val[s] \ {s}
    /\ mutex' = None
    /\ val' = [val EXCEPT ![s] = {}] /\ told' = IF on THEN told \cup {s} ELSE told \ {s}
    /\ UNCHANGED <<kind, serdes, link_lock_status, enabled, busVars, ret, races>>

(* The sensor's table is written; nv_sensor_set_stream drops the result.   *)
StartTable(s) ==
    /\ pc[s] = "table" /\ Go(s, "bound")
    /\ serdes' = [serdes EXCEPT ![kind[s]] = None]
    /\ UNCHANGED <<kind, mutex, regVars, busVars, ret, val, told, races>>

Acquire(s) == ReadStreams(s, "read", "write") \/ ReadStreams(s, "stop_read", "stop_write")

StreamStep(s) ==
    \/ LockSerdes(s) \/ Acquire(s) \/ StartTable(s)
    \/ WriteStreams(s, "write", "table", TRUE) \/ WriteStreams(s, "stop_write", "bound", FALSE)

Next == \E s \in Sensors :
            Probe(s) \/ SetupStep(s) \/ Remove(s) \/ StreamOn(s) \/ StreamOff(s) \/ StreamStep(s)

Spec == Init /\ [][Next]_vars

(* A call that has begun runs on; the mutex is handed to a waiting setup   *)
(* (to a waiting start or stop as well, which nothing here relies on).     *)
Fairness == \A s \in Sensors :
                WF_vars(SetupStep(s)) /\ WF_vars(StreamStep(s)) /\ SF_vars(LockLink(s))
FairSpec == Spec /\ Fairness
-----------------------------------------------------------------------------
(* Type invariant. *)
TypeOK ==
    /\ kind \in Mixes
    /\ mutex \in Sensors \cup {None} /\ serdes \in [Models -> Sensors \cup {None}]
    /\ link_lock_status \subseteq Sensors /\ enabled \subseteq Sensors /\ stream \subseteq Sensors
    /\ ser \in [Sensors -> Nat] /\ xlat \in [Sensors -> Sensors \cup {None}]
    /\ power \subseteq Sensors /\ told \subseteq Sensors /\ pc \in [Sensors -> Label]
    /\ ret \in [Sensors -> {"ok", "err"}] /\ val \in [Sensors -> SUBSET Sensors]
    /\ bare \subseteq Sensors /\ crossed \in BOOLEAN

(* While a camera is being set up its link, and no other, is open: in      *)
(* first setups always, in repeated ones, which have lost the mutex, as    *)
(* long as nobody else comes to the deserialiser meanwhile.                *)
Alone == {"alias", "serid", "power", "id", "xlat", "enable", "mark", "off", "restore"}
BusToItself(s) == pc[s] \in Alone => enabled = {s}
Monopoly == crossed \/ \A s \in Sensors : BusToItself(s)

(* What the name and the message of z_max96724_monopolize_link promise     *)
(* every setup.  Fails: a repeated setup and another one close each        *)
(* other's link.                                                           *)
MonopolyAlways == \A s \in Sensors : BusToItself(s)

(* A camera that is set up has a serialiser of its own, at an address of   *)
(* its own, that translates no other camera's address; nor does another    *)
(* serialiser translate this camera's.  As long as nobody crossed a        *)
(* repeated setup.                                                         *)
OwnSerializer ==
    crossed \/ \A s \in link_lock_status :
        /\ ser[s] = Alias(s) /\ xlat[s] \in {s, None}
        /\ \A t \in Sensors \ {s} : xlat[t] # s
        /\ \A t \in link_lock_status \ {s} : ser[t] # ser[s]

(* When no setup runs the links that are open are those that are marked:   *)
(* no setup, failed, repeated or crossed, leaves a marked camera cut off.  *)
LinksRestored == (\A s \in Sensors : pc[s] \notin Setup) => enabled = link_lock_status

(* The pipe of every link is as its camera asked last: no start or stop of *)
(* another camera undoes it, as long as nobody crossed a repeated setup,   *)
(* whose end gives back the mutex of another.                              *)
PipesAsAsked ==
    crossed \/ \A s \in Sensors :
        pc[s] \notin {"write", "stop_write"} => (s \in stream <=> s \in told)

(* A setup ends, whatever fails in it and whoever else holds the mutex.    *)
SetupEnds == \A s \in Sensors : pc[s] = "lock" ~> pc[s] \in {"bound", "unbound"}
=============================================================================
