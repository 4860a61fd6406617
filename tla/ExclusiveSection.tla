--------------------------- MODULE ExclusiveSection ---------------------------
(***************************************************************************)
(* What `GraphBundle.execution_lock` promises its callers: at most one      *)
(* process at a time is between entering and leaving a section, and a       *)
(* section abandoned by a process that died keeps everybody out until       *)
(* somebody has recovered the bundle.  BundleLock.tla shows that the lock   *)
(* file implements this; IndexPipeline.tla is written on top of it.         *)
(***************************************************************************)

CONSTANTS Procs,      \* the operating-system processes that use the bundle
          None        \* no process

VARIABLES holder,     \* the process inside the section, or None
          abandoned   \* TRUE when a section was left without being released

vars == <<holder, abandoned>>

Init ==
    /\ holder = None
    /\ abandoned = FALSE

Enter(p) ==
    /\ holder = None
    /\ ~abandoned
    /\ holder' = p
    /\ UNCHANGED abandoned

Release(p) ==
    /\ holder = p
    /\ holder' = None
    /\ UNCHANGED abandoned

\* The holder dies, or cannot remove its lock file.
Abandon(p) ==
    /\ holder = p
    /\ holder' = None
    /\ abandoned' = TRUE

Recover ==
    /\ abandoned
    /\ abandoned' = FALSE
    /\ UNCHANGED holder

Next ==
    \/ \E p \in Procs : Enter(p) \/ Release(p) \/ Abandon(p)
    \/ Recover

Spec == Init /\ [][Next]_vars
===============================================================================
