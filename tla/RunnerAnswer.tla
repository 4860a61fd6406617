----------------------------- MODULE RunnerAnswer ------------------------------
(***************************************************************************)
(* What a runner says of an execution (ToolRun.failure_class and its        *)
(* measured metadata), and what StageOrchestrator._validate_response asks   *)
(* of it whichever runner has answered.                                     *)
(***************************************************************************)

Classes == {"none", "design", "input", "infrastructure", "ssh", "guard", "resource", "timeout", "unsupported"}
Guards == {"absent", "unchecked", "passed", "rejected"}
Monitors == {"absent", "unchecked", "passed", "triggered"}
Answer == [class : Classes, truth : BOOLEAN, fresh : BOOLEAN, guard : Guards, mon : Monitors]
NoAnswer == [class |-> "none", truth |-> FALSE, fresh |-> FALSE, guard |-> "absent", mon |-> "absent"]

\* What _validate_response asks of guard, monitor and provenance.
Consistent(a) ==
    /\ a.truth => a.fresh
    /\ CASE a.guard = "absent" -> a.class = "guard" => a.mon = "triggered"
         [] a.guard = "unchecked" -> a.class # "guard" /\ ~a.fresh
         [] a.guard = "passed" -> a.class = "guard" => a.mon = "triggered"
         [] a.guard = "rejected" -> a.class = "guard" /\ ~a.fresh /\ ~a.truth
    /\ CASE a.mon = "absent" ->
              (a.class = "guard" => a.guard = "rejected") /\ a.class # "resource"
         [] a.mon = "unchecked" -> ~a.fresh /\ a.class # "resource"
         [] a.mon = "passed" -> a.class \notin {"guard", "resource"}
         [] a.mon = "triggered" ->
              /\ a.class \in {"guard", "resource", "infrastructure"}
              /\ a.fresh /\ ~a.truth
              /\ a.guard \in {"absent", "passed"}
===============================================================================
