---------------------------- MODULE LampSequence ----------------------------
(***************************************************************************)
(* What a user of the DLP + RGB linkage sees of the lamps, and all that    *)
(* the linkage promises about them: one lamp at a time, each flash a lamp  *)
(* going on out of darkness, a timer starting, the lamp going off with the *)
(* timer.  A sequencer may give up, which stops its timer and freezes the  *)
(* lamps as they are.                                                      *)
(***************************************************************************)
EXTENDS Naturals

CONSTANT Lamps

VARIABLES
    lit,    \* the lamps that are on
    timed,  \* a timer will put the lit lamp out
    gone    \* the sequencer has given up

vars == <<lit, timed, gone>>

Init == lit = {} /\ timed = FALSE /\ gone = FALSE

On ==
    /\ ~gone /\ lit = {} /\ ~timed
    /\ \E i \in 0..(Lamps - 1) : lit' = {i}
    /\ UNCHANGED <<timed, gone>>

StartTimer ==
    /\ ~gone /\ lit # {} /\ ~timed
    /\ timed' = TRUE
    /\ UNCHANGED <<lit, gone>>

Off ==
    /\ timed
    /\ lit' = {} /\ timed' = FALSE
    /\ UNCHANGED gone

GiveUp ==
    /\ ~gone
    /\ gone' = TRUE /\ timed' = FALSE
    /\ UNCHANGED lit

Next == On \/ StartTimer \/ Off \/ GiveUp

Spec == Init /\ [][Next]_vars
=============================================================================
