--------------------------- MODULE PackAttestation ---------------------------
(***************************************************************************)
(* Writing the attestation of a review into the knowledge packs             *)
(* (tools/apply_knowledge_review_suite_attestation.py, and the older        *)
(* seal_review_attestations of tools/run_knowledge_review.py).              *)
(*                                                                          *)
(* The tool freezes the packs, checks the review against what it froze,     *)
(* computes the attested bytes of every pack, checks the packs again and    *)
(* replaces the files one by one; a late failure takes the replacements     *)
(* back.  The packs are files of a checkout: an editor may write one between*)
(* any two reads of the tool, any read or write may fail, and the tool may  *)
(* die anywhere.  A pack's bytes are its semantic surface and its review    *)
(* status; the surface does not depend on the status.                       *)
(***************************************************************************)
EXTENDS Naturals, FiniteSets, Sequences

CONSTANTS
    Packs,        \* a sequence: the order of the file names
    Surfaces,     \* semantic contents
    Calls,        \* model invocations
    Reviewed,     \* the surfaces a review may have been given: functions of packs
    MaxEdits,     \* bound: writes of the editor
    MaxFaults     \* bound: reads and writes that fail

PackSet == {Packs[i] : i \in DOMAIN Packs}
Kinds == {"suite", "plain"}
Bytes == [surface : Surfaces, status : {"none", "attested"}]
Reviews == [approved : BOOLEAN, surfaces : Reviewed, call : Calls]

VARIABLES
    kind,       \* which of the two tools
    review,     \* [semantic, adversarial]: the two retained reviews
    disk,       \* pack -> bytes
    writer,     \* pack -> whose bytes they are
    start,      \* the packs when the tool began
    phase, at,  \* what the tool does, to which pack
    snap,       \* the frozen surfaces
    original, update, saved,   \* pack -> bytes, in the tool's memory
    replaced,   \* packs replaced by the present replacement
    undo,       \* the present replacement takes an earlier one back
    broken,     \* taking back has failed
    edits, faults,
    touched     \* an edit since the verification of the result began

vars == <<kind, review, disk, writer, start, phase, at, snap, original, update, saved,
          replaced, undo, broken, edits, faults, touched>>

memory == <<snap, original, update, saved>>
fixed == <<kind, review, start>>

-------------------------------------------------------------------------------
(* The phases, each a pass over the packs.                                    *)

Ended == {"done", "failed", "crashed"}

Passes ==
    [suite |-> <<"freeze", "evidence", "current", "sources", "read", "compare", "recheck", "save", "replace", "exact", "verify">>,
     plain |-> <<"freeze", "evidence", "sources", "read", "save", "replace", "verify">>]

After(p) ==
    LET all == Passes[kind]
        i == CHOOSE n \in DOMAIN all : all[n] = p
    IN IF i = Len(all) THEN "done" ELSE all[i + 1]

Now == Packs[at]

\* The two reviews approve, were made of the frozen surfaces, and are two
\* invocations.
EvidenceOK ==
    /\ review.semantic.approved /\ review.adversarial.approved
    /\ review.semantic.surfaces = snap /\ review.adversarial.surfaces = snap
    /\ review.semantic.call # review.adversarial.call

\* (mutant) The pack that is updated need not be the reviewed one.
ReadAny(b) == TRUE

\* The suite's tool compares the pack it is about to update with the review,
\* the plain one only with its own update.
ReadOK(b) == kind = "suite" => b.surface = snap[Now]

\* What the pass demands of the bytes it reads.
Demand(b) ==
    CASE phase \in {"current", "sources", "recheck", "verify"} -> b.surface = snap[Now]
      [] phase = "read"     -> ReadOK(b)
      [] phase = "evidence" -> EvidenceOK
      [] phase = "compare"  -> b = original[Now]
      [] phase = "exact"    -> b = update[Now]
      [] OTHER              -> TRUE

Attested(b) == [b EXCEPT !.status = "attested"]

Goal == IF undo THEN original ELSE update

-------------------------------------------------------------------------------
(* Failures.                                                                  *)

\* Where a failed pass leads: a replacement first recovers what it replaced;
\* the suite's tool then looks whether anything is left to take back.
Failure ==
    IF phase = "replace" /\ replaced # {} THEN "recover"
    ELSE IF kind = "suite" /\ ~undo /\ phase \in {"save", "replace", "recover", "exact", "verify"} THEN "undo"
    ELSE "failed"

Fail ==
    /\ phase' = Failure /\ at' = 1
    /\ broken' = (broken \/ undo \/ phase = "undo" \/ (kind = "plain" /\ phase = "recover"))
    /\ undo' = (undo /\ Failure # "failed")
    /\ UNCHANGED <<fixed, disk, writer, memory, replaced, edits, touched>>

\* A read or a write fails.
Fault ==
    /\ phase \notin Ended \cup {"evidence"} /\ faults < MaxFaults
    /\ faults' = faults + 1
    /\ IF phase = "undo" THEN
            /\ phase' = "failed" /\ at' = 1 /\ broken' = TRUE
            /\ UNCHANGED <<fixed, disk, writer, memory, replaced, undo, edits, touched>>
       ELSE Fail

\* A pass finds what it does not accept.
Refuse ==
    /\ phase \notin Ended \cup {"undo", "recover"} /\ ~Demand(disk[Now])
    /\ Fail /\ UNCHANGED faults

-------------------------------------------------------------------------------
(* One step of a pass.                                                        *)

Advance(next) ==
    IF at = Len(Packs) THEN at' = 1 /\ phase' = next ELSE at' = at + 1 /\ phase' = phase

Inspect ==
    /\ phase \in {"freeze", "evidence", "current", "sources", "read", "compare", "recheck", "save", "exact", "verify"}
    /\ Demand(disk[Now])
    /\ snap' = IF phase = "freeze" THEN [snap EXCEPT ![Now] = disk[Now].surface] ELSE snap
    /\ original' = IF phase = "read" THEN [original EXCEPT ![Now] = disk[Now]] ELSE original
    /\ update' = IF phase = "read" THEN [update EXCEPT ![Now] = Attested(disk[Now])] ELSE update
    /\ saved' = IF phase = "save" THEN [saved EXCEPT ![Now] = disk[Now]] ELSE saved
    /\ Advance(IF phase = "save" THEN "replace" ELSE After(phase))
    /\ UNCHANGED <<fixed, disk, writer, replaced, undo, broken, edits, faults, touched>>

\* os.replace of the next pack by its staged bytes.
Replace ==
    /\ phase = "replace"
    /\ disk' = [disk EXCEPT ![Now] = Goal[Now]] /\ writer' = [writer EXCEPT ![Now] = "tool"]
    /\ replaced' = replaced \cup {Now}
    /\ IF undo THEN Advance("failed") ELSE Advance(After("replace"))
    /\ touched' = IF at = Len(Packs) THEN FALSE ELSE touched
    /\ UNCHANGED <<fixed, memory, undo, broken, edits, faults>>

\* The replacement failed: what it had replaced gets the bytes it saved.
Recover ==
    /\ phase = "recover"
    /\ IF Now \in replaced
       THEN /\ disk' = [disk EXCEPT ![Now] = saved[Now]]
            /\ writer' = [writer EXCEPT ![Now] =
                 IF saved[Now] \in {original[Now], update[Now]} THEN "tool" ELSE "editor"]
       ELSE UNCHANGED <<disk, writer>>
    /\ Advance(Failure)
    /\ broken' = (broken \/ undo)
    /\ UNCHANGED <<fixed, memory, replaced, undo, edits, faults, touched>>

\* Is any pack not what it was?  Then all of them are replaced by the originals.
Undo ==
    /\ phase = "undo"
    /\ IF disk[Now] # original[Now]
       THEN phase' = "save" /\ at' = 1 /\ undo' = TRUE /\ replaced' = {}
       ELSE Advance("failed") /\ UNCHANGED <<undo, replaced>>
    /\ UNCHANGED <<fixed, disk, writer, memory, broken, edits, faults, touched>>

\* The tool dies; nothing restarts it.
Crash ==
    /\ phase \notin Ended /\ faults < MaxFaults
    /\ phase' = "crashed" /\ faults' = faults + 1
    /\ UNCHANGED <<fixed, disk, writer, memory, at, replaced, undo, broken, edits, touched>>

\* Someone writes a pack of the checkout.
Edit(p, b) ==
    /\ phase \notin Ended /\ edits < MaxEdits
    /\ b # disk[p] /\ (b.status = "attested" => disk[p].status = "attested")
    /\ disk' = [disk EXCEPT ![p] = b] /\ writer' = [writer EXCEPT ![p] = "editor"]
    /\ edits' = edits + 1 /\ touched' = TRUE
    /\ UNCHANGED <<fixed, phase, at, memory, replaced, undo, broken, faults>>

Init ==
    /\ kind \in Kinds
    /\ review \in [semantic : Reviews, adversarial : Reviews]
    /\ start \in [PackSet -> {b \in Bytes : b.status = "none"}] /\ disk = start
    /\ writer = [p \in PackSet |-> "editor"]
    /\ phase = "freeze" /\ at = 1 /\ replaced = {} /\ undo = FALSE /\ broken = FALSE
    /\ snap = [p \in PackSet |-> start[p].surface]
    /\ original = start /\ update = start /\ saved = start
    /\ edits = 0 /\ faults = 0 /\ touched = FALSE

Work == Inspect \/ Replace \/ Recover \/ Undo \/ Refuse
Next == Work \/ Fault \/ Crash \/ (\E p \in PackSet, b \in Bytes : Edit(p, b))

Spec == Init /\ [][Next]_vars

-------------------------------------------------------------------------------
(* Properties.                                                                *)

TypeOK ==
    /\ kind \in Kinds /\ disk \in [PackSet -> Bytes] /\ writer \in [PackSet -> {"tool", "editor"}]
    /\ phase \in {Passes[kind][i] : i \in DOMAIN Passes[kind]} \cup {"recover", "undo"} \cup Ended
    /\ at \in DOMAIN Packs /\ replaced \subseteq PackSet
    /\ phase = "done" => replaced = PackSet /\ ~undo
    /\ undo => kind = "suite"

\* An attestation that the suite's tool wrote stands on a pack whose content
\* both reviews approved, in two invocations, whatever was edited meanwhile.
AttestedIsReviewed ==
    kind = "suite" => \A p \in PackSet :
        writer[p] = "tool" /\ disk[p].status = "attested" =>
            /\ review.semantic.approved /\ review.adversarial.approved
            /\ review.semantic.call # review.adversarial.call
            /\ disk[p].surface = review.semantic.surfaces[p]
            /\ disk[p].surface = review.adversarial.surfaces[p]

\* A refused or failed attestation leaves no pack attested, and without an
\* editor the packs are what they were, unless taking back failed too.
FailureLeavesNothing ==
    phase = "failed" /\ kind = "suite" /\ ~broken =>
        /\ \A p \in PackSet : disk[p].status = "none"
        /\ edits = 0 => disk = start

\* A tool that reports success has left the reviewed packs, all of them
\* attested, unless someone wrote a pack while it was verifying.
SuccessIsWhole ==
    phase = "done" /\ ~touched => \A p \in PackSet :
        /\ disk[p].surface = review.semantic.surfaces[p]
        /\ kind = "suite" => disk[p].status = "attested"

-------------------------------------------------------------------------------
(* What makes these hold, for any packs, reviews and edits.                   *)

AttestationOK ==
    /\ Len(Packs) \in Nat \ {0} /\ DOMAIN Packs = 1..Len(Packs)
    /\ Reviewed \subseteq [PackSet -> Surfaces]
    /\ MaxEdits \in Nat

Untouched == {"freeze", "evidence", "current", "sources", "read", "compare", "recheck"}   \* before any file is staged
Started == {"read", "compare", "recheck", "save", "replace", "exact", "verify", "recover", "undo", "done"}
Written == writer = [p \in PackSet |-> "editor"]   \* by the editor alone
Before(n) == {Packs[i] : i \in 1..n - 1}

Types ==
    /\ kind \in Kinds /\ disk \in [PackSet -> Bytes] /\ writer \in [PackSet -> {"tool", "editor"}]
    /\ start \in [PackSet -> Bytes] /\ snap \in [PackSet -> Surfaces]
    /\ original \in [PackSet -> Bytes] /\ update \in [PackSet -> Bytes] /\ saved \in [PackSet -> Bytes]
    /\ phase \in {"freeze", "evidence", "current", "sources", "read", "compare", "recheck", "save", "replace", "exact",
                  "verify", "recover", "undo"} \cup Ended
    /\ at \in DOMAIN Packs /\ replaced \subseteq PackSet /\ edits \in Nat /\ undo \in BOOLEAN /\ broken \in BOOLEAN
    /\ touched \in BOOLEAN

\* Which passes there are, and when something is taken back.
Control ==
    /\ kind = "plain" => phase \notin {"current", "compare", "recheck", "exact", "undo"}
    /\ undo => kind = "suite" /\ phase \in {"save", "replace", "recover", "failed", "crashed"}
    /\ phase = "replace" => Before(at) \subseteq replaced
    /\ phase \in {"exact", "verify", "done"} => replaced = PackSet

\* A tool that got past the evidence, or wrote a pack, had evidence.
EvidenceHolds ==
    phase \notin {"freeze", "evidence", "failed", "crashed"} \/ ~Written => EvidenceOK

\* Once read, the packs to be written are the reviewed ones, attested.
IsUpdate(p) == update[p] = Attested(original[p]) /\ (kind = "suite" => original[p].surface = snap[p])
UpdatesAreReviewed ==
    /\ phase = "read" => \A p \in Before(at) : IsUpdate(p)
    /\ phase \in Started \ {"read"} \/ ~Written => \A p \in PackSet : IsUpdate(p)
WritesAreKnown == \A p \in PackSet : writer[p] = "tool" => disk[p] \in {original[p], update[p]}

\* Nothing is attested before the first replacement.
NothingYet ==
    phase \in Untouched \/ (phase = "save" /\ ~undo) =>
        /\ Written /\ \A p \in PackSet : disk[p].status = "none"
        /\ edits = 0 => disk = start
OriginalsAreOld ==
    /\ \A p \in PackSet : original[p].status = "none"
    /\ edits = 0 => original = start

\* What has been looked at, or taken back, is as it was.
TakenBack ==
    kind = "suite" /\ (phase = "undo" \/ (phase = "replace" /\ undo)) =>
        \A p \in Before(at) : disk[p].status = "none" /\ (edits = 0 => disk[p] = original[p])
\* What has been compared after the replacement is what was written, unless someone wrote since.
Compared ==
    ~touched =>
        /\ phase = "exact" => \A p \in Before(at) : disk[p] = update[p]
        /\ kind = "suite" /\ phase \in {"verify", "done"} => \A p \in PackSet : disk[p] = update[p]
        /\ kind = "plain" /\ phase = "verify" => \A p \in Before(at) : disk[p].surface = snap[p]
        /\ kind = "plain" /\ phase = "done" => \A p \in PackSet : disk[p].surface = snap[p]

IInv == /\ Types /\ Control /\ EvidenceHolds /\ UpdatesAreReviewed /\ WritesAreKnown /\ NothingYet
        /\ OriginalsAreOld /\ TakenBack /\ Compared /\ FailureLeavesNothing
===============================================================================
