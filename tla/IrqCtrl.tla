------------------------------ MODULE IrqCtrl ------------------------------
(***************************************************************************)
(* The interrupt lines of iomanager.c and everybody who masks them.        *)
(*                                                                         *)
(* m_disable_irq and m_enable_irq test IRQ_CTRL.disabled, call the kernel  *)
(* and store the flag, with no lock around the three steps.  ioctl calls   *)
(* of several processes and the 2D thread (which masks line 0 on its own)  *)
(* may be in them at once.  The kernel keeps a depth of its own:           *)
(* disable_irq raises it, enable_irq lowers it, and the line delivers at   *)
(* depth 0 only.                                                           *)
(***************************************************************************)
EXTENDS Integers

CONSTANTS
    Lines,    \* the entries of irqIo
    Callers,  \* processes and threads that mask or unmask lines
    MaxDepth  \* bound: nobody begins to mask a line at this depth

ASSUME DepthAssumption == MaxDepth \in Nat \ {0}

VARIABLES
    disabled, \* disabled[l]: IRQ_CTRL.disabled, what the driver believes
    depth,    \* depth[l]: the kernel's disable depth, what is true
    at,       \* at[c]: label of caller c
    on,       \* on[c]: the line caller c works on
    reopen,   \* reopen[c]: caller c unmasks the line when it has masked it
    raced     \* history: lines on which two calls were past their tests at once

irqVars == <<disabled, depth, at, on, reopen, raced>>

Passed == {"dis_call", "dis_set", "ena_call", "ena_set"}
Label  == {"out", "dis_test", "ena_test"} \cup Passed

(* devm_request_irq leaves a line enabled; the probe has masked each one   *)
(* before the device node exists.                                          *)
IrqInit ==
    /\ disabled = [l \in Lines |-> TRUE] /\ depth = [l \in Lines |-> 1]
    /\ at = [c \in Callers |-> "out"]
    /\ on \in [Callers -> Lines] /\ \A c, d \in Callers : on[c] = on[d]
    /\ reopen = [c \in Callers |-> FALSE] /\ raced = {}

(* Nothing keeps a caller out while others are inside.                     *)
Enter(c, l, label) ==
    /\ at[c] = "out"
    /\ at' = [at EXCEPT ![c] = label]
    /\ on' = [on EXCEPT ![c] = l]
    /\ UNCHANGED <<disabled, depth, raced>>

(* A caller that masks, one that unmasks, and IO_SET_IO_TRIGGER_PARAM,     *)
(* which masks, reprograms the edge and unmasks whatever was before.       *)
Mask(c, l)      == Enter(c, l, "dis_test") /\ depth[l] < MaxDepth /\ UNCHANGED reopen
Unmask(c, l)    == Enter(c, l, "ena_test") /\ UNCHANGED reopen
Reprogram(c, l) == Enter(c, l, "dis_test") /\ depth[l] < MaxDepth
                      /\ reopen' = [reopen EXCEPT ![c] = TRUE]

Go(c, from, to) == at[c] = from /\ at' = [at EXCEPT ![c] = to] /\ UNCHANGED on

(* Going past the test, which remembers who was there before.              *)
Pass(c, from, to) ==
    /\ Go(c, from, to)
    /\ raced' = IF \E d \in Callers \ {c} : at[d] \in Passed /\ on[d] = on[c]
                THEN raced \cup {on[c]} ELSE raced

(* Mutant of LeaveMask: a reprogrammed line is left masked. *)
LeaveMaskClosed(c, from) ==
    /\ Go(c, from, "out")
    /\ reopen' = [reopen EXCEPT ![c] = FALSE]

(* m_disable_irq returns.                                                  *)
LeaveMask(c, from) ==
    /\ Go(c, from, IF reopen[c] THEN "ena_test" ELSE "out")
    /\ reopen' = [reopen EXCEPT ![c] = FALSE]

DisableTest(c) ==
    /\ IF disabled[on[c]]
       THEN LeaveMask(c, "dis_test") /\ UNCHANGED raced
       ELSE Pass(c, "dis_test", "dis_call") /\ UNCHANGED reopen
    /\ UNCHANGED <<disabled, depth>>

DisableCall(c) ==
    /\ Go(c, "dis_call", "dis_set")
    /\ depth' = [depth EXCEPT ![on[c]] = @ + 1]
    /\ UNCHANGED <<disabled, reopen, raced>>

DisableSet(c) ==
    /\ LeaveMask(c, "dis_set")
    /\ disabled' = [disabled EXCEPT ![on[c]] = TRUE]
    /\ UNCHANGED <<depth, raced>>

EnableTest(c) ==
    /\ IF disabled[on[c]]
       THEN Pass(c, "ena_test", "ena_call")
       ELSE Go(c, "ena_test", "out") /\ UNCHANGED raced
    /\ UNCHANGED <<disabled, depth, reopen>>

(* enable_irq at depth 0 only warns ("Unbalanced enable").                 *)
EnableCall(c) ==
    /\ Go(c, "ena_call", "ena_set")
    /\ depth' = [depth EXCEPT ![on[c]] = IF @ > 0 THEN @ - 1 ELSE 0]
    /\ UNCHANGED <<disabled, reopen, raced>>

(* Mutant of EnableSet: the flag is not stored. *)
EnableSetKeepsFlag(c) ==
    /\ Go(c, "ena_set", "out")
    /\ disabled' = disabled
    /\ UNCHANGED <<depth, reopen, raced>>

EnableSet(c) ==
    /\ Go(c, "ena_set", "out")
    /\ disabled' = [disabled EXCEPT ![on[c]] = FALSE]
    /\ UNCHANGED <<depth, reopen, raced>>

Step(c) == \/ DisableTest(c) \/ DisableCall(c) \/ DisableSet(c)
           \/ EnableTest(c) \/ EnableCall(c) \/ EnableSet(c)

IrqNext == \E c \in Callers :
            \/ \E l \in Lines : Mask(c, l) \/ Unmask(c, l) \/ Reprogram(c, l)
            \/ Step(c)

IrqSpec == IrqInit /\ [][IrqNext]_irqVars

(* A caller inside the helpers runs on.                                    *)
IrqFairSpec == IrqSpec /\ \A c \in Callers : WF_irqVars(Step(c))
-----------------------------------------------------------------------------
(* Type invariant. *)
IrqTypeOK ==
    /\ disabled \in [Lines -> BOOLEAN] /\ depth \in [Lines -> Nat]
    /\ at \in [Callers -> Label] /\ on \in [Callers -> Lines]
    /\ reopen \in [Callers -> BOOLEAN] /\ raced \subseteq Lines

Truth(l) == depth[l] = IF disabled[l] THEN 1 ELSE 0

(* The flag of a line tells whether it is masked, and one m_enable_irq is  *)
(* enough to open it, whenever no call is between its test and its store.  *)
(* Calls may overlap on it and on other lines in any other way: the only   *)
(* thing that ever makes the flag wrong is two calls past their tests.     *)
FlagTellsTruth ==
    \A l \in Lines \ raced :
        (\A c \in Callers : at[c] \in Passed => on[c] # l) => Truth(l)

(* What readme.md says of the debugfs file irq_set, "isEnable:0 #2d的开关": *)
(* it shows whether the line is switched on, at least once nobody is       *)
(* inside the helpers.  Fails: two calls of m_disable_irq pass the test    *)
(* and mask the line twice.                                                *)
IsEnableShown ==
    (\A c \in Callers : at[c] = "out") => \A l \in Lines : ~disabled[l] = (depth[l] = 0)

(* Reprogramming an edge ends with the line open, whatever it was before,  *)
(* unless another call works on that line too or two have raced there.     *)
ReprogramOpens ==
    \A c \in Callers :
        reopen[c] ~> /\ at[c] = "out"
                     /\ \/ depth[on[c]] = 0
                        \/ on[c] \in raced
                        \/ \E d \in Callers \ {c} : on[d] = on[c]
=============================================================================
