---------------------------- MODULE MCIndexSafety ----------------------------
(***************************************************************************)
(* Two uses of one project, each at the bounds that make it interesting: two    *)
(* files that are edited twice while they are indexed, with faults and a        *)
(* process that creates the project; and a variant of a project of which one    *)
(* file changes once, where an edit need not be material.                     *)
(***************************************************************************)
EXTENDS MCIndexPipeline

\* An edit that is not material, or a variant, is explored on its own.
Focused ==
    variants # {} \/ args.act # NoAction \/ mCmd \in {source, project} =>
        edits <= 1 /\ creating = {} /\ live[CHOOSE f \in Files : TRUE] = 0
===============================================================================
