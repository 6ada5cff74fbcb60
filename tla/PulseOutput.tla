---------------------------- MODULE PulseOutput ----------------------------
(***************************************************************************)
(* What IO_SET_OUT promises for one output pin: a command puts the pin at  *)
(* its outState; with a holdTime the pin later falls to the defaultState   *)
(* of the same command, without one it stays until the next command.  The  *)
(* promises are those of IO_PLUSE_SET in usr_io.h.                         *)
(***************************************************************************)
VARIABLES
    level,  \* the pin
    want,   \* the latest command
    phase   \* "asked", "pulse" or "steady"

vars == <<level, want, phase>>

Command == [outState : {0, 1}, defaultState : {0, 1}, hold : BOOLEAN]

Init == level = 0 /\ want \in Command /\ phase = "steady"

Ask ==
    /\ want' \in Command
    /\ phase' = "asked"
    /\ UNCHANGED level

Apply ==
    /\ phase = "asked"
    /\ level' = want.outState
    /\ phase' = IF want.hold THEN "pulse" ELSE "steady"
    /\ UNCHANGED want

Expire ==
    /\ phase = "pulse"
    /\ level' = want.defaultState
    /\ phase' = "steady"
    /\ UNCHANGED want

Next == Ask \/ Apply \/ Expire

Spec == Init /\ [][Next]_vars
=============================================================================
