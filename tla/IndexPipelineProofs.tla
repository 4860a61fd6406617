-------------------------- MODULE IndexPipelineProofs --------------------------
(***************************************************************************)
(* The safety properties of indexing for any number of processes, files,    *)
(* manifests, edits, failures and variants.                                 *)
(***************************************************************************)
EXTENDS IndexPipeline, TLAPS

\* Appending a row leaves the rows before it where they are.
LEMMA AppendFacts ==
    ASSUME NEW S, NEW s \in Seq(S), NEW e \in S
    PROVE  /\ Append(s, e) \in Seq(S)
           /\ Len(s) \in Nat
           /\ Len(Append(s, e)) = Len(s) + 1
           /\ \A i \in 1..Len(s) : Append(s, e)[i] = s[i]
           /\ Append(s, e)[Len(s) + 1] = e
OBVIOUS

\* NoAction is no recorded action: its parent is no snapshot.
LEMMA NoActionIsNone == NoAction \notin Action /\ \A a \in Action : a.parent \in Nat \ {0}
BY DEF NoAction, Action

-------------------------------------------------------------------------------
\* The initial state satisfies the inductive invariant.
LEMMA InitIInv == Init => IInv
<1> SUFFICES ASSUME Init PROVE IInv
  OBVIOUS
<1> USE ConstantsOK
<1>1. Unread \in Versions
  BY DEF Unread, Versions
<1>2. NoArgs \in Args
  BY DEF NoArgs, Args
<1>3. snaps = <<>> /\ Ids = {} /\ snaps \in Seq(Row) /\ DOMAIN graph = {}
  BY DEF Init, Ids
<1>4. TypeOK
  <2>1. /\ live \in Versions /\ scan \in Versions /\ cand \in Versions
        /\ extr \in Versions /\ shot \in Versions
    BY <1>1 DEF Init
  <2>2. /\ source \in Manifests \cup {Broken, Absent} /\ internal \in Manifests /\ project \in Manifests
        /\ stamped \in BOOLEAN /\ writing \in [Procs -> {"none", "manifest", "metadata"}]
    BY DEF Init
  <2>3. DOMAIN graph \subseteq Ids /\ \A i \in DOMAIN graph : graph[i] \in Versions
    BY <1>3
  <2>4. abandoned \in BOOLEAN /\ fatal \in BOOLEAN
    BY Zenon DEF Init
  <2>5. mem \in [Procs -> Manifests \cup {None}]
    BY <2>2 DEF Init
  <2> QED
    BY <1>2, <1>3, <2>1, <2>2, <2>3, <2>4, <2>5 DEF Init, TypeOK, Steps, Passes
<1>5. Control
  BY DEF Init, Control, Passes
<1>6. Candidate
  BY DEF Init, Candidate, AfterCollect, AfterMaterial, AfterSave
<1>7. PublishedIffSucceeded /\ ParentIsOlder /\ ManifestMatchesIdentity /\ VariantLineage
  BY <1>3 DEF Init, PublishedIffSucceeded, ParentIsOlder, ManifestMatchesIdentity, VariantLineage
<1>8. LaterAndLater /\ GraphMatchesSnapshot
  BY <1>3 DEF Init, LaterAndLater, GraphMatchesSnapshot, Passes, AfterCollect, AfterExtract,
              AfterCompare, AfterMaterial, AfterSave
<1> QED
  BY <1>4, <1>5, <1>6, <1>7, <1>8 DEF IInv

\* Whoever holds the lock may go on holding it: each step keeps the operation
\* with an open process that is not re-creating the bundle.
LEMMA ControlStep == TypeOK /\ Control /\ [Next]_vars => Control'
<1> SUFFICES ASSUME TypeOK, Control, [Next]_vars PROVE Control'
  OBVIOUS
<1> USE ConstantsOK DEF TypeOK, Control, Passes, Steps, disk, ledger, lock, locals, budget
<1>1. ASSUME NEW p \in Procs, NEW a \in Calls, Begin(p, a) PROVE Control'
  BY <1>1 DEF Begin
<1>2. CASE RefreshKeep
  BY <1>2 DEF RefreshKeep
<1>3. CASE RefreshWrite
  BY <1>3 DEF RefreshWrite
<1>4. CASE RefreshRegister
  BY <1>4 DEF RefreshRegister
<1>5. CASE Lookup
  BY <1>5 DEF Lookup
<1>6. ASSUME NEW f \in Files, ReadFile(f) PROVE Control'
  BY <1>6 DEF ReadFile
<1>7. CASE Collected
  BY <1>7 DEF Collected, EndPass
<1>8. CASE Register
  BY <1>8 DEF Register
<1>9. CASE SaveSnapshot
  BY <1>9 DEF SaveSnapshot
<1>10. CASE CheckMaterial
  BY <1>10 DEF CheckMaterial
<1>11. CASE CommitNoOp
  BY <1>11 DEF CommitNoOp
<1>12. CASE Extracted
  BY <1>12 DEF Extracted, EndPass
<1>13. CASE Compared
  BY <1>13 DEF Compared, EndPass
<1>14. CASE StaleManifest
  BY <1>14 DEF StaleManifest
<1>15. CASE Restatted
  BY <1>15 DEF Restatted, EndPass
<1>16. CASE CommitSuccess
  BY <1>16 DEF CommitSuccess
<1>17. CASE CommitFatal
  BY <1>17 DEF CommitFatal
<1>18. CASE Reject
  BY <1>18 DEF Reject
<1>19. CASE Leave
  BY <1>19 DEF Leave, ClearLocals
<1>20. CASE Fault
  BY <1>20 DEF Fault
<1>21. CASE LeaveDenied
  BY <1>21 DEF LeaveDenied, ClearLocals
<1>22. CASE Crash
  BY <1>22 DEF Crash, ClearLocals
<1>23. ASSUME NEW f \in Files, EditFile(f) PROVE Control'
  BY <1>23 DEF EditFile
<1>24. CASE EditManifest
  BY <1>24 DEF EditManifest
<1>25. ASSUME NEW p \in Procs, Open(p) PROVE Control'
  BY <1>25 DEF Open
<1>26. ASSUME NEW p \in Procs, CreateWrite(p) PROVE Control'
  BY <1>26 DEF CreateWrite
<1>27. ASSUME NEW p \in Procs, CreateRegister(p) PROVE Control'
  BY <1>27 DEF CreateRegister
<1>31. ASSUME NEW p \in Procs, WriteManifest(p) PROVE Control'
  BY <1>31 DEF WriteManifest
<1>32. ASSUME NEW p \in Procs, WriteMetadata(p) PROVE Control'
  BY <1>32 DEF WriteMetadata
<1>33. ASSUME NEW p \in Procs, CreateFail(p) PROVE Control'
  BY <1>33 DEF CreateFail
<1>28. ASSUME NEW a, RecordVariant(a) PROVE Control'
  BY <1>28 DEF RecordVariant
<1>29. CASE Recover
  BY <1>29 DEF Recover
<1>30. CASE UNCHANGED vars
  BY <1>30 DEF vars
<1> QED
  BY <1>1, <1>2, <1>3, <1>4, <1>5, <1>6, <1>7, <1>8, <1>9, <1>10, <1>11, <1>12, <1>13,
     <1>14, <1>15, <1>16, <1>17, <1>18, <1>19, <1>20, <1>21, <1>22, <1>23, <1>24, <1>25,
     <1>26, <1>27, <1>28, <1>29, <1>30, <1>31, <1>32, <1>33 DEF Next, OpStep, Environment
\* Every step keeps the types; that a graph always has its snapshot's row needs
\* the candidate's row to be stored from save_snapshot on.
LEMMA TypeStep == TypeOK /\ Control /\ Candidate /\ [Next]_vars => TypeOK'
<1> SUFFICES ASSUME TypeOK, Control, Candidate, [Next]_vars PROVE TypeOK'
  OBVIOUS
<1>U. Unread \in Versions
  BY DEF Unread, Versions
<1>N. NoArgs \in Args
  BY ConstantsOK DEF NoArgs, Args
<1>A. args.act \in Action \cup {NoAction} /\ \A a \in Action : a.parent \in Nat
  BY DEF TypeOK, Args, Action
<1> USE ConstantsOK DEF TypeOK, Passes, Steps, Ids, disk, ledger, lock, locals, budget
<1>1. ASSUME NEW p \in Procs, NEW a \in Calls, Begin(p, a)
      PROVE  TypeOK'
  <2>1. a \in Args
    BY DEF Calls, Args, Action, NoAction
  <2> QED
    BY <1>1, <2>1 DEF Begin
<1>2. CASE RefreshKeep
  BY <1>2 DEF RefreshKeep
<1>3. CASE RefreshWrite
  BY <1>3 DEF RefreshWrite
<1>4. CASE RefreshRegister
  <2>1. mem[holder] \in Manifests
    BY <1>4 DEF Control, RefreshRegister
  <2> QED
    BY <1>4, <2>1 DEF RefreshRegister
<1>5. CASE Lookup
  <2>1. args.act.parent \in Nat /\ args.parent \in Nat
    BY <1>A DEF NoAction, Args
  <2> QED
    BY <1>5, <2>1 DEF Lookup
<1>6. ASSUME NEW f \in Files, ReadFile(f)
      PROVE  TypeOK'
  BY <1>6 DEF ReadFile, Versions
<1>7. CASE Collected
  BY <1>7, <1>U DEF Collected, EndPass
<1>8. CASE Register
  <2>1. mem[holder] \in Manifests
    BY <1>8 DEF Control, Register
  <2> QED
    BY <1>8, <2>1 DEF Register
<1>9. CASE SaveSnapshot
  <2>1. mem[holder] \in Manifests
    BY <1>9 DEF Control, SaveSnapshot
  <2> DEFINE row == [ident |-> Ident(mem[holder]), src |-> cand, act |-> args.act,
                     prof |-> args.prof, man |-> project, parent |-> parent]
  <2>2. row \in Row
    BY <2>1 DEF Row, Ident, Manifests, Args
  <2> HIDE DEF row
  <2>3. snaps' = snaps \/ snaps' = Append(snaps, row)
    BY <1>9 DEF SaveSnapshot, row
  <2>4. snaps' \in Seq(Row) /\ Len(snaps) \in Nat /\ Len(snaps') \in Nat /\ Len(snaps) <= Len(snaps')
    BY <2>2, <2>3, AppendFacts
  <2>5. cur' \in Nat
    BY <1>9, <2>4 DEF SaveSnapshot, Known
  <2>6. UNCHANGED <<disk, project, graph, active, variants, runs, mats, mem, creating, writing,
                    lock, budget, args, seen, scan, cand, parent, extr, fatal, shot>>
    BY <1>9 DEF SaveSnapshot
  <2>7. pc' \in Steps
    BY <1>9 DEF SaveSnapshot
  <2> QED
    BY <2>4, <2>5, <2>6, <2>7
<1>10. CASE CheckMaterial
  BY <1>10 DEF CheckMaterial
<1>11. CASE CommitNoOp
  <2>1. runs' \subseteq Run
    BY <1>11 DEF CommitNoOp, CommitFailure, Run
  <2>2. mats' \subseteq Materialization
    BY <1>11, <1>A DEF CommitNoOp, CommitFailure, Materialization
  <2> QED
    BY <1>11, <2>1, <2>2 DEF CommitNoOp, CommitFailure
<1>12. CASE Extracted
  <2>1. fatal' \in BOOLEAN
    BY <1>12, Zenon DEF Extracted
  <2> QED
    BY <1>12, <1>U, <2>1 DEF Extracted, EndPass
<1>13. CASE Compared
  <2>1. fatal' \in BOOLEAN
    BY <1>13, Zenon DEF Compared
  <2> QED
    BY <1>13, <1>U, <2>1 DEF Compared, EndPass
<1>14. CASE StaleManifest
  BY <1>14 DEF StaleManifest
<1>15. CASE Restatted
  <2>1. fatal' \in BOOLEAN
    BY <1>15, Zenon DEF Restatted
  <2> QED
    BY <1>15, <1>U, <2>1 DEF Restatted, EndPass
<1>16. CASE CommitSuccess
  <2>1. runs' \subseteq Run
    BY <1>16 DEF CommitSuccess, Run
  <2>2. mats' \subseteq Materialization
    BY <1>16, <1>A DEF CommitSuccess, Materialization
  <2>3. cur \in Ids
    BY <1>16 DEF CommitSuccess, Candidate, AfterSave
  <2> QED
    BY <1>16, <2>1, <2>2, <2>3 DEF CommitSuccess
<1>17. CASE CommitFatal
  <2>1. runs' \subseteq Run
    BY <1>17 DEF CommitFatal, CommitFailure, Run
  <2>2. mats' \subseteq Materialization
    BY <1>17, <1>A DEF CommitFatal, CommitFailure, Materialization
  <2> QED
    BY <1>17, <2>1, <2>2 DEF CommitFatal, CommitFailure
<1>18. CASE Reject
  BY <1>18 DEF Reject
<1>19. CASE Leave
  BY <1>19, <1>U, <1>N DEF Leave, ClearLocals
<1>20. CASE Fault
  <2>1. faults' \in 0..MaxFaults
    BY <1>20 DEF Fault
  <2>2. writing' \in [Procs -> {"none", "manifest", "metadata"}]
    BY <1>20 DEF Fault
  <2>3. UNCHANGED <<disk, ledger, mem, creating, lock, locals, edits>> /\ pc' = "leave"
    BY <1>20 DEF Fault
  <2> QED
    BY <2>1, <2>2, <2>3
<1>21. CASE LeaveDenied
  <2>1. abandoned' \in BOOLEAN /\ fatal' \in BOOLEAN
    BY <1>21, Zenon DEF LeaveDenied, ClearLocals
  <2>2. faults' \in 0..MaxFaults
    BY <1>21 DEF LeaveDenied
  <2>3. mem' \in [Procs -> Manifests \cup {None}]
    BY <1>21 DEF LeaveDenied
  <2> QED
    BY <1>21, <1>U, <1>N, <2>1, <2>2, <2>3 DEF LeaveDenied, ClearLocals
<1>22. CASE Crash
  <2>1. abandoned' \in BOOLEAN /\ fatal' \in BOOLEAN
    BY <1>22, Zenon DEF Crash, ClearLocals
  <2>2. faults' \in 0..MaxFaults
    BY <1>22 DEF Crash
  <2>3. mem' \in [Procs -> Manifests \cup {None}]
    BY <1>22 DEF Crash
  <2> QED
    BY <1>22, <1>U, <1>N, <2>1, <2>2, <2>3 DEF Crash, ClearLocals
<1>23. ASSUME NEW f \in Files, EditFile(f)
      PROVE  TypeOK'
  <2>1. live' \in Versions
    BY <1>23 DEF EditFile, Versions
  <2> QED
    BY <1>23, <2>1 DEF EditFile
<1>24. CASE EditManifest
  BY <1>24 DEF EditManifest
<1>25. ASSUME NEW p \in Procs, Open(p)
      PROVE  TypeOK'
  BY <1>25 DEF Open
<1>26. ASSUME NEW p \in Procs, CreateWrite(p)
      PROVE  TypeOK'
  BY <1>26 DEF CreateWrite
<1>27. ASSUME NEW p \in Procs, CreateRegister(p)
      PROVE  TypeOK'
  <2>1. mem[p] \in Manifests
    BY <1>27 DEF Control, CreateRegister
  <2> QED
    BY <1>27, <2>1 DEF CreateRegister
<1>31. ASSUME NEW p \in Procs, WriteManifest(p)
      PROVE  TypeOK'
  <2>1. mem[p] \in Manifests
    BY <1>31 DEF Control, WriteManifest
  <2>2. stamped' \in BOOLEAN
    BY <1>31, Zenon DEF WriteManifest
  <2> QED
    BY <1>31, <2>1, <2>2 DEF WriteManifest
<1>32. ASSUME NEW p \in Procs, WriteMetadata(p)
      PROVE  TypeOK'
  BY <1>32 DEF WriteMetadata
<1>33. ASSUME NEW p \in Procs, CreateFail(p)
      PROVE  TypeOK'
  BY <1>33 DEF CreateFail
<1>28. ASSUME NEW i \in DOMAIN graph, NEW d \in Deltas, RecordVariant([parent |-> i, delta |-> d])
      PROVE  TypeOK'
  <2>1. [parent |-> i, delta |-> d] \in Action
    BY DEF Action
  <2> QED
    BY <1>28, <2>1 DEF RecordVariant
<1>29. CASE Recover
  BY <1>29 DEF Recover
<1>30. CASE UNCHANGED vars
  BY <1>30 DEF vars
<1> QED
  BY <1>1, <1>2, <1>3, <1>4, <1>5, <1>6, <1>7, <1>8, <1>9, <1>10,
     <1>11, <1>12, <1>13, <1>14, <1>15, <1>16, <1>17, <1>18, <1>19, <1>20,
     <1>21, <1>22, <1>23, <1>24, <1>25, <1>26, <1>27, <1>28, <1>29, <1>30,
     <1>31, <1>32, <1>33
  DEF Next, OpStep, Environment
\* The ledger is written by five steps only.
LEMMA LedgerWriters ==
    [Next]_vars =>
        \/ SaveSnapshot \/ CommitSuccess \/ CommitNoOp \/ CommitFatal
        \/ \E i \in DOMAIN graph, d \in Deltas : RecordVariant([parent |-> i, delta |-> d])
        \/ UNCHANGED <<snaps, graph, active, variants, runs, mats>>
<1> SUFFICES ASSUME [Next]_vars,
                    ~ \E i \in DOMAIN graph, d \in Deltas : RecordVariant([parent |-> i, delta |-> d]),
                    ~SaveSnapshot, ~CommitSuccess, ~CommitNoOp, ~CommitFatal
             PROVE  UNCHANGED <<snaps, graph, active, variants, runs, mats>>
  OBVIOUS
<1> QED
  BY Zenon DEF Next, OpStep, Environment, vars, ledger, Begin, RefreshKeep, RefreshWrite,
     RefreshRegister, Lookup, ReadFile, Collected, Register, CheckMaterial, Extracted, Compared,
     StaleManifest, Restatted, Reject, Leave, Fault, LeaveDenied, Crash, EditFile, EditManifest,
     Open, WriteManifest, CreateWrite, WriteMetadata, CreateRegister, CreateFail, Recover

\* What save_snapshot leaves behind: the old rows, and one row for the candidate.
LEMMA SaveFacts ==
    ASSUME TypeOK, Control, SaveSnapshot
    PROVE  /\ Ids \subseteq Ids' /\ \A i \in Ids : snaps'[i] = snaps[i]
           /\ cur' \in Ids' /\ snaps'[cur'].src = cand /\ snaps'[cur'].act = args.act
           /\ \A i \in Ids' \ Ids :
                /\ i = Len(snaps) + 1
                /\ snaps'[i] = [ident |-> Ident(mem[holder]), src |-> cand, act |-> args.act,
                                prof |-> args.prof, man |-> project, parent |-> parent]
<1> DEFINE row == [ident |-> Ident(mem[holder]), src |-> cand, act |-> args.act,
                   prof |-> args.prof, man |-> project, parent |-> parent]
<1>1. row \in Row
  <2>1. mem[holder] \in Manifests
    BY DEF TypeOK, Control, SaveSnapshot
  <2> QED
    BY <2>1 DEF Row, Ident, Manifests, Args, TypeOK
<1>2. row.src = cand /\ row.act = args.act
  OBVIOUS
<1>3. snaps \in Seq(Row) /\ Ids = 1..Len(snaps) /\ Ids' = 1..Len(snaps')
  BY DEF TypeOK, Ids
<1>4. CASE Known # {}
  <2>1. snaps' = snaps /\ cur' \in Known
    BY <1>4 DEF SaveSnapshot
  <2> QED
    BY <2>1, <1>3 DEF Known, SameIdentity
<1>5. CASE Known = {}
  <2>1. snaps' = Append(snaps, row) /\ cur' = Len(snaps) + 1
    BY <1>5 DEF SaveSnapshot
  <2> HIDE DEF row
  <2>2. /\ Len(snaps) \in Nat /\ Len(snaps') = Len(snaps) + 1
        /\ \A i \in 1..Len(snaps) : snaps'[i] = snaps[i]
        /\ snaps'[Len(snaps) + 1] = row
    BY <1>1, <1>3, <2>1, AppendFacts
  <2> QED
    BY <1>2, <1>3, <2>1, <2>2 DEF row
<1> QED
  BY <1>4, <1>5

\* Rows are never changed: snapshots are immutable.
LEMMA RowsStay ==
    ASSUME TypeOK, Control, [Next]_vars
    PROVE  Ids \subseteq Ids' /\ \A i \in Ids : snaps'[i] = snaps[i]
<1>1. CASE SaveSnapshot
  BY <1>1, SaveFacts
<1>2. CASE UNCHANGED snaps
  BY <1>2 DEF Ids
<1> QED
  BY <1>1, <1>2, LedgerWriters, Zenon DEF CommitSuccess, CommitNoOp, CommitFatal, CommitFailure, RecordVariant
\* Graphs are only added, and actions never disappear.
LEMMA GraphsStay ==
    ASSUME TypeOK, [Next]_vars
    PROVE  /\ DOMAIN graph \subseteq DOMAIN graph'
           /\ \A i \in DOMAIN graph : graph'[i] = graph[i]
           /\ variants \subseteq variants' /\ runs \subseteq runs' /\ mats \subseteq mats'
<1>1. CASE CommitSuccess
  BY <1>1 DEF CommitSuccess, GraphOK
<1>2. CASE CommitNoOp \/ CommitFatal
  BY <1>2 DEF CommitNoOp, CommitFatal, CommitFailure
<1>3. CASE SaveSnapshot
  BY <1>3 DEF SaveSnapshot
<1>4. ASSUME NEW a, RecordVariant(a)
      PROVE  /\ UNCHANGED <<graph, runs, mats>>
             /\ variants \subseteq variants'
  BY <1>4 DEF RecordVariant
<1>5. CASE UNCHANGED <<snaps, graph, active, variants, runs, mats>>
  BY <1>5
<1> QED
  BY <1>1, <1>2, <1>3, <1>4, <1>5, LedgerWriters

\* What an operation knows of its candidate stays true while it works on it.
LEMMA CandidateStep ==
    TypeOK /\ Control /\ Candidate /\ [Next]_vars => Candidate'
<1> SUFFICES ASSUME TypeOK, Control, Candidate, [Next]_vars PROVE Candidate'
  OBVIOUS
<1>1. (\A a \in variants : a.parent \in DOMAIN graph)'
  <2>1. CASE \E i \in DOMAIN graph, d \in Deltas : RecordVariant([parent |-> i, delta |-> d])
    BY <2>1, GraphsStay DEF RecordVariant, Candidate
  <2>2. CASE UNCHANGED variants
    BY <2>2, GraphsStay DEF Candidate
  <2> QED
    BY <2>1, <2>2, LedgerWriters DEF SaveSnapshot, CommitSuccess, CommitNoOp, CommitFatal, CommitFailure
<1>2. ASSUME args.act # NoAction, args.act \in variants
      PROVE  args.act.parent \in Ids /\ args.act.parent # 0
  BY <1>2 DEF Candidate, TypeOK, Ids
<1>3. ASSUME NEW i \in Ids, NEW j \in Ids, Material(i, j) PROVE Material(i, j)'
  BY <1>3, RowsStay DEF Material
<1> USE DEF AfterSave, AfterMaterial, AfterCollect
\* the operation's locals and position do not change
<1>4. CASE UNCHANGED <<pc, args, parent, cur, cand>>
  BY <1>1, <1>2, <1>3, <1>4, RowsStay, GraphsStay DEF Candidate
\* the operation is before its lookup, or over
<1>5. CASE pc' \in {"idle", "refresh", "reregister", "lookup", "leave"}
  BY <1>1, <1>5 DEF Candidate
<1>6. CASE Lookup
  BY <1>1, <1>6 DEF Lookup, LookupOK, Candidate, ledger
<1>7. CASE Collected
  <2>1. args.act # NoAction => parent' = parent
    BY <1>2, <1>7 DEF Collected, Candidate
  <2> QED
    BY <1>1, <1>7, <2>1 DEF Collected, EndPass, Candidate, ledger
<1>8. CASE Register
  BY <1>1, <1>8 DEF Register, Candidate, locals
<1>9. CASE SaveSnapshot
  <2>1. /\ pc = "save" /\ UNCHANGED <<args, parent, variants>>
        /\ pc' = IF args.act = NoAction THEN "extract" ELSE "material"
        /\ cand' = cand
    BY <1>9 DEF SaveSnapshot
  <2>2. cur' \in Ids' /\ snaps'[cur'].src = cand /\ snaps'[cur'].act = args.act
    BY <1>9, SaveFacts
  <2> QED
    BY <1>1, <2>1, <2>2 DEF Candidate
<1>10. CASE CheckMaterial
  BY <1>1, <1>10 DEF CheckMaterial, Candidate, ledger, locals, Material, Ids
<1>11. CASE Extracted \/ Compared \/ StaleManifest \/ Restatted
  <2>1. /\ UNCHANGED <<args, cand, parent, cur, snaps, variants>>
        /\ pc \in AfterMaterial /\ pc' \in AfterMaterial
    BY <1>11 DEF Extracted, Compared, StaleManifest, Restatted, EndPass, ledger
  <2> QED
    BY <1>1, <2>1 DEF Candidate, Material, Ids
<1> QED
  BY <1>4, <1>5, <1>6, <1>7, <1>8, <1>9, <1>10, <1>11
  DEF Next, OpStep, Environment, vars, locals, Begin, RefreshKeep, RefreshWrite, RefreshRegister,
      ReadFile, CommitNoOp, CommitSuccess, CommitFatal, Reject, Leave, Fault, LeaveDenied, Crash,
      EditFile, EditManifest, Open, WriteManifest, CreateWrite, WriteMetadata, CreateRegister,
      CreateFail, RecordVariant, Recover
-------------------------------------------------------------------------------
(* The ledger's properties, step by step.                                      *)

\* The snapshots with a succeeded run, when one more run is recorded.
LEMMA SucceededRuns ==
    ASSUME NEW R, NEW n
    PROVE  /\ {r.snap : r \in {x \in R \cup {[snap |-> n, status |-> "succeeded"]} : x.status = "succeeded"}}
                = {r.snap : r \in {x \in R : x.status = "succeeded"}} \cup {n}
           /\ {r.snap : r \in {x \in R \cup {[snap |-> n, status |-> "failed"]} : x.status = "succeeded"}}
                = {r.snap : r \in {x \in R : x.status = "succeeded"}}
<1> DEFINE ok == [snap |-> n, status |-> "succeeded"]
           ko == [snap |-> n, status |-> "failed"]
<1>1. ok.status = "succeeded" /\ ok.snap = n /\ ko.status # "succeeded"
  OBVIOUS
<1> HIDE DEF ok, ko
<1>2. {x \in R \cup {ok} : x.status = "succeeded"} = {x \in R : x.status = "succeeded"} \cup {ok}
  BY <1>1
<1>3. {x \in R \cup {ko} : x.status = "succeeded"} = {x \in R : x.status = "succeeded"}
  BY <1>1
<1>4. {r.snap : r \in {x \in R : x.status = "succeeded"} \cup {ok}}
        = {r.snap : r \in {x \in R : x.status = "succeeded"}} \cup {n}
  BY <1>1, Zenon
<1> QED
  BY <1>2, <1>3, <1>4 DEF ok, ko

\* Only commit_index_success adds a graph, a succeeded run or an active pointer,
\* and it adds all three.
LEMMA PublishedStep ==
    TypeOK /\ PublishedIffSucceeded /\ [Next]_vars => PublishedIffSucceeded'
<1> SUFFICES ASSUME TypeOK, PublishedIffSucceeded, [Next]_vars PROVE PublishedIffSucceeded'
  OBVIOUS
<1> USE DEF PublishedIffSucceeded
<1>1. CASE CommitSuccess
  <2>1. /\ runs' = runs \cup {[snap |-> cur, status |-> "succeeded"]}
        /\ DOMAIN graph' = DOMAIN graph \cup {cur} /\ active' = cur
    BY <1>1 DEF CommitSuccess
  <2> QED
    BY <2>1, SucceededRuns
<1>2. CASE CommitNoOp \/ CommitFatal
  <2>1. runs' = runs \cup {[snap |-> cur, status |-> "failed"]} /\ UNCHANGED <<graph, active>>
    BY <1>2 DEF CommitNoOp, CommitFatal, CommitFailure
  <2> QED
    BY <2>1, SucceededRuns
<1>3. CASE UNCHANGED <<graph, active, runs>>
  BY <1>3
<1> QED
  BY <1>1, <1>2, <1>3, LedgerWriters DEF SaveSnapshot, RecordVariant

\* A new row has a stored parent and the manifest it was checked against.
LEMMA RowStep ==
    TypeOK /\ Control /\ ParentIsOlder /\ ManifestMatchesIdentity /\ [Next]_vars =>
        ParentIsOlder' /\ ManifestMatchesIdentity'
<1> SUFFICES ASSUME TypeOK, Control, ParentIsOlder, ManifestMatchesIdentity, [Next]_vars
             PROVE  ParentIsOlder' /\ ManifestMatchesIdentity'
  OBVIOUS
<1>1. CASE SaveSnapshot
  <2> SUFFICES ASSUME NEW i \in Ids'
               PROVE  snaps'[i].parent < i /\ Ident(snaps'[i].man) = snaps'[i].ident
    BY DEF ParentIsOlder, ManifestMatchesIdentity, Ident
  <2>1. CASE i \in Ids
    BY <1>1, <2>1, SaveFacts DEF ParentIsOlder, ManifestMatchesIdentity
  <2>2. CASE i \notin Ids
    <3>1. /\ i = Len(snaps) + 1 /\ snaps'[i].parent = parent
          /\ snaps'[i].man = project /\ snaps'[i].ident = Ident(mem[holder])
      BY <1>1, <2>2, SaveFacts
    <3>2. Ident(project) = Ident(mem[holder]) /\ parent \in Ids \cup {0}
      BY <1>1 DEF SaveSnapshot, SaveOK
    <3>3. Len(snaps) \in Nat
      BY DEF TypeOK
    <3> QED
      BY <3>1, <3>2, <3>3 DEF Ids
  <2> QED
    BY <2>1, <2>2
<1>2. CASE UNCHANGED snaps
  BY <1>2 DEF ParentIsOlder, ManifestMatchesIdentity, Ids, Ident
<1> QED
  BY <1>1, <1>2, LedgerWriters, Zenon DEF CommitSuccess, CommitNoOp, CommitFatal, CommitFailure, RecordVariant

\* A snapshot of an action is stored under the action's parent and published
\* only after the material check; attempts name the snapshot they made.
LEMMA VariantStep ==
    TypeOK /\ Control /\ Candidate /\ VariantLineage /\ [Next]_vars => VariantLineage'
<1> SUFFICES ASSUME TypeOK, Control, Candidate, VariantLineage, [Next]_vars
             PROVE  VariantLineage'
  OBVIOUS
<1>0. /\ Ids \subseteq Ids' /\ \A i \in Ids : snaps'[i] = snaps[i]
      /\ DOMAIN graph \subseteq DOMAIN graph' /\ DOMAIN graph \subseteq Ids
      /\ variants \subseteq variants' /\ mats \subseteq mats'
  BY RowsStay, GraphsStay DEF TypeOK
<1>P. \A a \in variants : a.parent \in Ids
  BY <1>0 DEF Candidate
<1>1. ASSUME NEW i \in Ids, snaps[i].act # NoAction, i \in DOMAIN graph
      PROVE  Material(i, snaps[i].parent)'
  BY <1>0, <1>1, <1>P DEF VariantLineage, Material
<1>2. CASE SaveSnapshot
  <2>0. UNCHANGED <<graph, variants, mats>> /\ pc = "save"
    BY <1>2 DEF SaveSnapshot
  <2>1. ASSUME NEW i \in Ids', i \notin Ids, snaps'[i].act # NoAction
        PROVE  /\ snaps'[i].act \in variants' /\ snaps'[i].parent = snaps'[i].act.parent
               /\ i \notin DOMAIN graph'
    <3>1. snaps'[i].act = args.act /\ snaps'[i].parent = parent
      BY <1>2, <2>1, SaveFacts
    <3> QED
      BY <2>0, <2>1, <3>1, <1>0 DEF Candidate, AfterCollect
  <2>2. \A i \in Ids' : snaps'[i].act # NoAction =>
          /\ snaps'[i].act \in variants' /\ snaps'[i].parent = snaps'[i].act.parent
          /\ i \in DOMAIN graph' => Material(i, snaps[i].parent)'
    BY <1>0, <1>1, <2>0, <2>1 DEF VariantLineage
  <2>3. \A m \in mats' :
         /\ m.act \in variants'
         /\ m.status = "no_op" => m.result = 0
         /\ m.status # "no_op" => m.result \in Ids' /\ snaps'[m.result].act = m.act
         /\ m.status = "materialized" => m.result \in DOMAIN graph'
    BY <1>0, <2>0 DEF VariantLineage
  <2> QED
    BY <2>2, <2>3 DEF VariantLineage
<1>3. CASE CommitSuccess \/ CommitNoOp \/ CommitFatal
  <2>0. UNCHANGED <<snaps, variants>> /\ Ids' = Ids
    BY <1>3 DEF CommitSuccess, CommitNoOp, CommitFatal, CommitFailure, Ids
  <2>1. pc \in {"material", "commit"} /\ (pc = "commit" \/ ~CommitSuccess)
    BY <1>3 DEF CommitSuccess, CommitNoOp, CommitFatal
  <2>2. cur \in Ids /\ snaps[cur].act = args.act /\ (args.act # NoAction => args.act \in variants)
    BY <2>1 DEF Candidate, AfterSave, AfterCollect
  <2>3. DOMAIN graph' = DOMAIN graph \/ (CommitSuccess /\ DOMAIN graph' = DOMAIN graph \cup {cur})
    BY <1>3 DEF CommitSuccess, CommitNoOp, CommitFatal, CommitFailure
  <2>4. ASSUME NEW i \in Ids, snaps[i].act # NoAction
        PROVE  /\ snaps[i].act \in variants /\ snaps[i].parent = snaps[i].act.parent
               /\ i \in DOMAIN graph' => Material(i, snaps[i].parent)
    <3>1. snaps[i].act \in variants /\ snaps[i].parent = snaps[i].act.parent
      BY <2>4 DEF VariantLineage
    <3>2. CASE i \in DOMAIN graph
      BY <2>4, <3>2, <3>1 DEF VariantLineage
    <3>3. CASE i \in DOMAIN graph' /\ i \notin DOMAIN graph
      <4>1. i = cur /\ pc = "commit" /\ args.act = snaps[i].act
        BY <2>1, <2>2, <2>3, <3>3
      <4>2. Material(cur, args.act.parent)
        BY <2>4, <4>1 DEF Candidate, AfterMaterial, AfterSave
      <4> QED
        BY <3>1, <4>1, <4>2
    <3> QED
      BY <3>1, <3>2, <3>3
  <2>5. ASSUME NEW m \in mats'
        PROVE  /\ m.act \in variants
               /\ m.status = "no_op" => m.result = 0
               /\ m.status # "no_op" => m.result \in Ids /\ snaps[m.result].act = m.act
               /\ m.status = "materialized" => m.result \in DOMAIN graph'
    <3>1. CASE m \in mats
      BY <3>1, <1>0 DEF VariantLineage
    <3>2. CASE m \notin mats
      BY <1>3, <2>2, <2>3, <3>2 DEF CommitSuccess, CommitNoOp, CommitFatal, CommitFailure
    <3> QED
      BY <3>1, <3>2
  <2>6. \A i \in Ids : Material(i, snaps[i].parent)' <=> Material(i, snaps[i].parent)
    BY <2>0 DEF Material
  <2> QED
    BY <2>0, <2>4, <2>5, <2>6 DEF VariantLineage
<1>4. CASE UNCHANGED <<snaps, graph, mats>>
  <2>1. Ids' = Ids
    BY <1>4 DEF Ids
  <2> QED
    BY <1>0, <1>4, <2>1 DEF VariantLineage, Material
<1> QED
  BY <1>2, <1>3, <1>4, LedgerWriters DEF RecordVariant
-------------------------------------------------------------------------------
(* Extraction reads live files: what the revalidation is worth.                *)

\* Where edits never restore earlier bytes, versions only grow.
LEMMA LiveGrows ==
    ASSUME TypeOK, AllowRevert = FALSE, [Next]_vars
    PROVE  live' \in [Files -> Nat] /\ \A f \in Files : live[f] <= live'[f]
<1>1. ASSUME NEW f \in Files, EditFile(f)
      PROVE  live' \in [Files -> Nat] /\ \A g \in Files : live[g] <= live'[g]
  <2>1. PICK v \in 0..MaxEdits : /\ v # live[f] /\ (v < live[f] => AllowRevert)
                                 /\ live' = [live EXCEPT ![f] = v]
    BY <1>1 DEF EditFile
  <2>2. live \in [Files -> Nat]
    BY DEF TypeOK, Versions
  <2>3. v \in Nat /\ live[f] <= v
    BY <2>1, <2>2, ConstantsOK
  <2> QED
    BY <2>1, <2>2, <2>3
<1>2. CASE UNCHANGED live
  <2>1. live \in [Files -> Nat]
    BY DEF TypeOK, Versions
  <2> QED
    BY <1>2, <2>1
<1>3. (\E f \in Files : EditFile(f)) \/ UNCHANGED live
  BY Zenon DEF Next, OpStep, Environment, vars, disk, Begin, RefreshKeep, RefreshWrite,
     RefreshRegister, Lookup, ReadFile, Collected, Register, SaveSnapshot, CheckMaterial,
     CommitNoOp, Extracted, Compared, StaleManifest, Restatted, CommitSuccess, CommitFatal,
     Reject, Leave, Fault, LeaveDenied, Crash, EditManifest, Open, WriteManifest, CreateWrite, WriteMetadata,
     CreateRegister, CreateFail,
     RecordVariant, Recover
<1> QED
  BY <1>1, <1>2, <1>3

\* The passes of an operation are ordered in time, file by file.  When the bytes
\* compared after extraction equal the collected ones, the collected, extracted
\* and compared versions and those live at the end of the collection are equal.
LEMMA LaterStep ==
    AllowRevert = FALSE /\ TypeOK /\ Control /\ LaterAndLater /\ [Next]_vars => LaterAndLater'
<1> SUFFICES ASSUME AllowRevert = FALSE, TypeOK, Control, LaterAndLater, [Next]_vars
             PROVE  LaterAndLater'
  OBVIOUS
<1>V. /\ live \in [Files -> Nat] /\ scan \in [Files -> Nat] /\ cand \in [Files -> Nat]
      /\ extr \in [Files -> Nat] /\ shot \in [Files -> Nat]
      /\ seen \subseteq Files
  BY DEF TypeOK, Versions
<1>L. live' \in [Files -> Nat] /\ \A f \in Files : live[f] <= live'[f]
  BY LiveGrows
<1> USE DEF Passes, AfterSave, AfterMaterial, AfterCollect, AfterExtract, AfterCompare
<1>1. CASE UNCHANGED <<pc, seen, scan, cand, shot, extr, fatal>>
  BY <1>1, <1>V, <1>L DEF LaterAndLater
<1>2. CASE pc' \in {"idle", "refresh", "reregister", "lookup", "leave"}
  BY <1>2 DEF LaterAndLater
<1>3. ASSUME NEW f \in Files, ReadFile(f) PROVE LaterAndLater'
  <2>1. /\ seen' = seen \cup {f} /\ scan' = [scan EXCEPT ![f] = live[f]]
        /\ UNCHANGED <<live, pc, cand, extr, fatal, shot>>
    BY <1>3 DEF ReadFile, disk
  <2>2. /\ scan'[f] = live[f]
        /\ \A g \in seen : scan'[g] = scan[g] \/ (g = f /\ scan'[g] = live[g])
    BY <1>V, <2>1
  <2> QED
    BY <1>V, <2>1, <2>2 DEF LaterAndLater
<1>4. CASE Lookup
  BY <1>4, <1>V DEF Lookup, Control, LaterAndLater
<1>5. CASE Collected
  <2>1. /\ pc = "collect" /\ pc' = "register" /\ seen = Files
        /\ cand' = scan /\ shot' = live /\ UNCHANGED live
    BY <1>5 DEF Collected, EndPass, disk
  <2> QED
    BY <1>V, <2>1 DEF LaterAndLater
<1>6. CASE Register \/ SaveSnapshot \/ CheckMaterial
  <2>1. /\ UNCHANGED <<live, cand, shot, seen>>
        /\ pc \in AfterCollect \ Passes /\ pc' \in {"save", "material", "extract"}
    BY <1>6 DEF Register, SaveSnapshot, CheckMaterial, disk, locals
  <2>2. seen = {} /\ pc \in {"register", "save", "material"}
    BY <1>6, <2>1 DEF Control, Register, SaveSnapshot, CheckMaterial
  <2> QED
    BY <1>V, <2>1, <2>2 DEF LaterAndLater
<1>7. CASE Extracted
  <2>1. /\ pc = "extract" /\ pc' = "compare" /\ seen = Files /\ seen' = {} /\ extr' = scan
        /\ UNCHANGED <<live, cand, shot>>
    BY <1>7 DEF Extracted, EndPass, disk
  <2> QED
    BY <1>V, <2>1 DEF LaterAndLater
<1>8. CASE Compared
  <2>1. /\ pc = "compare" /\ pc' = "stale" /\ seen = Files /\ UNCHANGED <<live, cand, shot, extr>>
        /\ seen' = {} /\ (~fatal' => scan = cand)
    BY <1>8 DEF Compared, EndPass, disk
  <2>2. \A f \in Files : cand[f] <= shot[f] /\ shot[f] <= extr[f] /\ extr[f] <= scan[f]
    BY <2>1 DEF LaterAndLater
  <2>3. scan = cand => extr = cand /\ shot = cand
    BY <1>V, <2>2
  <2> QED
    BY <1>V, <2>1, <2>3 DEF LaterAndLater
<1>9. CASE StaleManifest \/ Restatted
  <2>1. /\ pc \in {"stale", "restat"} /\ pc' \in {"restat", "commit"}
        /\ UNCHANGED <<live, cand, shot, extr>>
        /\ ~fatal' => ~fatal
    BY <1>9, Zenon DEF StaleManifest, Restatted, EndPass, disk
  <2>2. seen' = {}
    BY <1>9 DEF StaleManifest, Restatted, EndPass, Control
  <2> QED
    BY <1>V, <2>1, <2>2 DEF LaterAndLater
<1> QED
  BY <1>1, <1>2, <1>3, <1>4, <1>5, <1>6, <1>7, <1>8, <1>9
  DEF Next, OpStep, Environment, vars, locals, Begin, RefreshKeep, RefreshWrite, RefreshRegister,
      CommitNoOp, CommitSuccess, CommitFatal, Reject, Leave, Fault, LeaveDenied, Crash,
      EditFile, EditManifest, Open, WriteManifest, CreateWrite, WriteMetadata, CreateRegister,
      CreateFail, RecordVariant, Recover

\* Then a published graph is the graph of its snapshot's bytes.
LEMMA GraphStep ==
    /\ TypeOK /\ Control /\ Candidate /\ LaterAndLater /\ GraphMatchesSnapshot
    /\ [Next]_vars
    => GraphMatchesSnapshot'
<1> SUFFICES ASSUME TypeOK, Control, Candidate, LaterAndLater, GraphMatchesSnapshot, [Next]_vars
             PROVE  GraphMatchesSnapshot'
  OBVIOUS
<1>1. CASE CommitSuccess
  <2>1. extr = cand /\ snaps[cur].src = cand
    BY <1>1 DEF CommitSuccess, LaterAndLater, Candidate, AfterCompare, AfterExtract, AfterMaterial, AfterSave
  <2> QED
    BY <1>1, <2>1 DEF CommitSuccess, GraphMatchesSnapshot
<1>2. CASE UNCHANGED graph
  BY <1>2, RowsStay DEF GraphMatchesSnapshot, TypeOK
<1> QED
  BY <1>1, <1>2, LedgerWriters DEF SaveSnapshot, CommitNoOp, CommitFatal, CommitFailure, RecordVariant

-------------------------------------------------------------------------------
\* Every step preserves the inductive invariant.
LEMMA StepIInv == IInv /\ [Next]_vars => IInv'
BY ConstantsOK, ControlStep, TypeStep, CandidateStep, PublishedStep, RowStep, VariantStep, LaterStep, GraphStep
DEF IInv

\* The inductive invariant of indexing: every safety property of the ledger, what
\* the operation under way knows about its candidate, and the order of its reads.
THEOREM IndexInvariant == Spec => []IInv
BY InitIInv, StepIInv, PTL DEF Spec

\* Types: in particular, a graph never exists without its snapshot's row.
THEOREM TypeCorrect == Spec => []TypeOK
<1>1. IInv => TypeOK
  BY DEF IInv
<1> QED
  BY <1>1, IndexInvariant, PTL

\* A failed, no-op or interrupted index operation publishes nothing: graphs and
\* the active pointer belong to succeeded runs (commit_index_success, sqlite.py).
THEOREM OnlySuccessPublishes == Spec => []PublishedIffSucceeded
<1>1. IInv => PublishedIffSucceeded
  BY DEF IInv
<1> QED
  BY <1>1, IndexInvariant, PTL

\* Snapshot lineage is a forest ordered by rowid and each stored manifest has its
\* snapshot's identity, whoever re-registers the project meanwhile (save_snapshot).
THEOREM RowsAreSound == Spec => [](ParentIsOlder /\ ManifestMatchesIdentity)
<1>1. IInv => ParentIsOlder /\ ManifestMatchesIdentity
  BY DEF IInv
<1> QED
  BY <1>1, IndexInvariant, PTL

\* Variant snapshots descend from their action's parent and are published only
\* when they change it; attempts name what they made (_add_materializations).
THEOREM VariantsAreSound == Spec => []VariantLineage
<1>1. IInv => VariantLineage
  BY DEF IInv
<1> QED
  BY <1>1, IndexInvariant, PTL

\* Snapshots, graphs, actions, runs and attempts are immutable ledger records.
THEOREM LedgerIsAppendOnly == Spec => LedgerOnlyGrows
<1>1. IInv /\ [Next]_vars =>
        [/\ Len(snaps) <= Len(snaps')
         /\ \A i \in Ids : snaps'[i] = snaps[i]
         /\ \A i \in DOMAIN graph : i \in DOMAIN graph' /\ graph'[i] = graph[i]
         /\ variants \subseteq variants' /\ runs \subseteq runs' /\ mats \subseteq mats']_vars
  <2> SUFFICES ASSUME IInv, [Next]_vars
               PROVE  /\ Len(snaps) <= Len(snaps')
                      /\ \A i \in Ids : snaps'[i] = snaps[i]
                      /\ \A i \in DOMAIN graph : i \in DOMAIN graph' /\ graph'[i] = graph[i]
                      /\ variants \subseteq variants' /\ runs \subseteq runs' /\ mats \subseteq mats'
    OBVIOUS
  <2>1. TypeOK /\ Control /\ TypeOK'
    BY StepIInv DEF IInv
  <2>2. Ids \subseteq Ids' /\ \A i \in Ids : snaps'[i] = snaps[i]
    BY <2>1, RowsStay
  <2>3. Len(snaps) \in Nat /\ Len(snaps') \in Nat
    BY <2>1 DEF TypeOK
  <2> QED
    BY <2>1, <2>2, <2>3, GraphsStay DEF Ids
<1> QED
  BY <1>1, IndexInvariant, PTL DEF Spec, LedgerOnlyGrows

\* If edits never restore earlier bytes, every stored graph was extracted from
\* exactly the bytes its snapshot records (the final revalidation in sdk.py).
THEOREM GraphsAreFaithful ==
    ASSUME AllowRevert = FALSE
    PROVE  Spec => []GraphMatchesSnapshot
<1>1. IInv => GraphMatchesSnapshot
  BY DEF IInv
<1> QED
  BY <1>1, IndexInvariant, PTL

\* ... and what is published was the content of all input files at one instant.
THEOREM SnapshotsAreConsistent ==
    ASSUME AllowRevert = FALSE
    PROVE  Spec => []PublishedWasLive
<1>1. IInv => PublishedWasLive
  BY DEF IInv, LaterAndLater, Candidate, PublishedWasLive, AfterCompare, AfterExtract, AfterMaterial, AfterSave
<1> QED
  BY <1>1, IndexInvariant, PTL
\* The operation enters and leaves the exclusive section that the lock file of
\* BundleLock implements, and nothing else touches it (execution_lock, bundle.py).
THEOREM IndexUsesSection == Spec => HoldsSection
<1>1. Init => Section!Init
  BY DEF Init, Section!Init
<1>2. IInv /\ [Next]_vars => [Section!Next]_(Section!vars)
  <2> SUFFICES ASSUME IInv, [Next]_vars PROVE [Section!Next]_(Section!vars)
    OBVIOUS
  <2> USE DEF Section!Next, Section!vars
  <2>1. pc # "idle" => holder \in Procs
    BY ConstantsOK DEF IInv, TypeOK, Control
  <2>2. ASSUME NEW p \in Procs, NEW a, Begin(p, a) PROVE Section!Enter(p)
    BY <2>2 DEF Begin, Section!Enter
  <2>3. CASE Leave
    BY <2>1, <2>3 DEF Leave, Section!Release
  <2>4. CASE LeaveDenied \/ Crash
    BY <2>1, <2>4 DEF LeaveDenied, Crash, Section!Abandon
  <2>5. CASE Recover
    BY <2>5 DEF Recover, Section!Recover
  <2>6. CASE UNCHANGED <<holder, abandoned>>
    BY <2>6
  <2>7. \/ \E p \in Procs, a \in Calls : Begin(p, a)
        \/ Leave \/ LeaveDenied \/ Crash \/ Recover
        \/ UNCHANGED <<holder, abandoned>>
    BY Zenon DEF Next, OpStep, Environment, vars, lock, RefreshKeep, RefreshWrite,
       RefreshRegister, Lookup, ReadFile, Collected, Register, SaveSnapshot, CheckMaterial,
       CommitNoOp, Extracted, Compared, StaleManifest, Restatted, CommitSuccess, CommitFatal,
       Reject, Fault, EditFile, EditManifest, Open, WriteManifest, CreateWrite, WriteMetadata, CreateRegister,
       CreateFail, RecordVariant
  <2> QED
    BY <2>2, <2>3, <2>4, <2>5, <2>6, <2>7
<1> QED
  BY <1>1, <1>2, IndexInvariant, PTL DEF Spec, HoldsSection, Section!Spec
===============================================================================
