----------------------- MODULE WorkflowVersions_proofs -----------------------
(***************************************************************************)
(* Theorems about WorkflowVersions, for any definitions, registries and    *)
(* sessions.                                                               *)
(***************************************************************************)
EXTENDS WorkflowVersions, SequenceTheorems, TLAPS

---------------------------------------------------------------------------
\* Sessions never write outside the rows they read.

\* The columns a flush leaves alone keep their stored values: the result is a row.
LEMMA MergeType ==
    ASSUME NEW stored \in Row, NEW read \in Row, NEW new \in Row
    PROVE  Merge(stored, read, new) \in Row
<1> DEFINE col(f) == IF new[f] # read[f] THEN new[f] ELSE stored[f]
<1>1. /\ col("definition") \in Definitions
      /\ col("status") \in {"draft", "validated", "approved"}
      /\ col("warnings") \in {NoWarnings} \cup Definitions
      /\ col("approvedAt") \in BOOLEAN
  BY DEF Row
<1>2. DOMAIN stored = {"definition", "status", "warnings", "approvedAt"}
  BY DEF Row
<1>3. Merge(stored, read, new) =
        [definition |-> col("definition"), status |-> col("status"),
         warnings |-> col("warnings"), approvedAt |-> col("approvedAt")]
  BY <1>2 DEF Merge
<1> HIDE DEF col
<1> QED BY <1>1, <1>3 DEF Row

\* A flush on top of the row that was read writes the new row.
LEMMA MergeFresh ==
    ASSUME NEW read \in Row, NEW new \in Row
    PROVE  Merge(read, read, new) = new
BY DEF Merge, Row

LEMMA DraftType ==
    ASSUME NEW d \in Definitions, NEW w \in {NoWarnings} \cup Definitions
    PROVE  Draft(d, w) \in Row
BY DEF Draft, Row

LEMMA WarningsType ==
    ASSUME NEW d \in Definitions
    PROVE  Warnings(d) \in {NoWarnings} \cup Warned
BY DEF Warnings

\* The part of TypeOK about the sessions, given the number of versions.
SessionTypes(n, t) ==
    /\ t \in [Sessions -> Txn]
    /\ \A s \in Sessions :
         /\ t[s].at = "loaded" => s \in Editors /\ t[s].target <= n
         /\ t[s].at = "numbered" => t[s].number <= n + 1

LEMMA TypeOKParts ==
    TypeOK <=> /\ versions \in Seq(Row)
               /\ current \in 0..Len(versions)
               /\ valid \in Registries
               /\ SessionTypes(Len(versions), txn)
BY DEF TypeOK, SessionTypes

\* Ending a session, alone or with a row more, keeps the others' types.
LEMMA EndTypes ==
    ASSUME NEW n \in Nat, NEW k \in {n, n + 1}, SessionTypes(n, txn), NEW s \in Sessions, End(s)
    PROVE  SessionTypes(k, txn')
<1>1. txn' \in [Sessions -> Txn]
  BY DEF SessionTypes, End, Txn
<1>2. ASSUME NEW r \in Sessions
      PROVE  /\ txn'[r].at = "loaded" => r \in Editors /\ txn'[r].target <= k
             /\ txn'[r].at = "numbered" => txn'[r].number <= k + 1
  <2>1. CASE r = s
    BY <2>1 DEF SessionTypes, End, Idle
  <2>2. CASE r # s
    <3>1. txn'[r] = txn[r] /\ txn[r] \in Txn
      BY <2>2 DEF SessionTypes, End
    <3>2. txn[r].at = "loaded" => txn[r].target \in Nat
      BY <3>1 DEF Txn, Idle
    <3>3. txn[r].at = "numbered" => txn[r].number \in Nat
      BY <3>1 DEF Txn, Idle
    <3> QED BY <3>1, <3>2, <3>3 DEF SessionTypes
  <2> QED BY <2>1, <2>2
<1> QED BY <1>1, <1>2 DEF SessionTypes

\* A loaded session holds the number of an existing version and a row.
LEMMA LoadedTypes ==
    ASSUME TypeOK, NEW s \in Sessions, At(s, "loaded")
    PROVE  s \in Editors /\ txn[s].target \in DOMAIN versions /\ txn[s].row \in Row
<1>1. txn[s] \in Txn
  BY DEF TypeOK
<1>2. txn[s] \in [at : {"loaded"}, target : Nat \ {0}, row : Row]
  BY <1>1 DEF Txn, At, Idle
<1>3. versions \in Seq(Row) /\ txn[s].target <= Len(versions) /\ s \in Editors
  BY DEF TypeOK, At
<1> QED BY <1>2, <1>3

LEMMA NumberedTypes ==
    ASSUME TypeOK, NEW s \in Sessions, At(s, "numbered")
    PROVE  txn[s].row \in Row
<1>1. txn[s] \in Txn
  BY DEF TypeOK
<1> QED BY <1>1 DEF Txn, At, Idle

LEMMA FlushTypes ==
    ASSUME TypeOK, NEW s \in Sessions, At(s, "loaded"), NEW new \in Row,
           Flush(s, new), End(s), UNCHANGED valid,
           current' = current \/ current' = txn[s].target
    PROVE  TypeOK'
<1> DEFINE v == txn[s].target
           row == Merge(versions[v], txn[s].row, new)
<1>1. versions \in Seq(Row) /\ v \in 1..Len(versions)
  BY LoadedTypes DEF TypeOK
<1>2. row \in Row
  BY <1>1, LoadedTypes, MergeType
<1>3. versions' = [versions EXCEPT ![v] = row]
  BY DEF Flush
<1> HIDE DEF v, row
<1>4. versions' \in Seq(Row) /\ Len(versions') = Len(versions)
  BY <1>1, <1>2, <1>3
<1>5. SessionTypes(Len(versions), txn')
  BY <1>1, EndTypes DEF TypeOK, SessionTypes
<1>6. current' \in 0..Len(versions) /\ valid' \in Registries
  BY <1>1 DEF TypeOK, v
<1> QED BY <1>4, <1>5, <1>6 DEF TypeOK, SessionTypes

LEMMA InitTypeOK == WInit => TypeOK
BY DEF WInit, Init, TypeOK, Idle, Txn

LEMMA StepTypeOK == TypeOK /\ [WNext]_wvars => TypeOK'
<1> SUFFICES ASSUME TypeOK, [WNext]_wvars PROVE TypeOK'
  OBVIOUS
<1>1. CASE UNCHANGED wvars
  BY <1>1 DEF TypeOK, wvars
<1>2. ASSUME NEW s \in Sessions, NEW d \in Definitions, CreateWorkflow(s, d) PROVE TypeOK'
  <2> DEFINE row == Draft(d, IF s \in Planners THEN Warnings(d) ELSE NoWarnings)
  <2>1. row \in Row
    BY DraftType, WarningsType, LifecycleAssumption
  <2>2. versions' = <<row>> /\ versions = <<>> /\ current' = 1
        /\ UNCHANGED <<valid, txn>>
    BY <1>2 DEF CreateWorkflow
  <2> HIDE DEF row
  <2>3. versions' \in Seq(Row) /\ Len(versions') = 1 /\ Len(versions) = 0
    BY <2>1, <2>2
  <2>4. SessionTypes(1, txn)
    <3>1. SessionTypes(0, txn)
      BY <2>3, TypeOKParts
    <3>2. \A r \in Sessions : txn[r] \in Txn
      BY <3>1 DEF SessionTypes
    <3> QED BY <3>1, <3>2 DEF SessionTypes, Txn, Idle
  <2> QED BY <2>2, <2>3, <2>4 DEF TypeOK, SessionTypes
<1>3. ASSUME NEW s \in Sessions, NEW d \in Definitions, StartVersion(s, d) PROVE TypeOK'
  <2> DEFINE row == Draft(d, IF s \in Planners THEN Warnings(d) ELSE NoWarnings)
  <2>1. row \in Row
    BY DraftType, WarningsType, LifecycleAssumption
  <2>2. txn' = [txn EXCEPT ![s] = Numbered(Len(versions) + 1, row)]
        /\ UNCHANGED <<versions, current, valid>>
    BY <1>3 DEF StartVersion, Begin, NextVersionNumber
  <2> HIDE DEF row
  <2>3. Numbered(Len(versions) + 1, row) \in Txn
    BY <2>1, LenProperties DEF Numbered, Txn, TypeOK
  <2> QED BY <2>2, <2>3, LenProperties DEF TypeOK, Numbered
<1>4. ASSUME NEW s \in Sessions, NEW v \in DOMAIN versions, Load(s, v) PROVE TypeOK'
  <2>1. v \in 1..Len(versions) /\ versions[v] \in Row
    BY DEF TypeOK
  <2>2. Loaded(v, versions[v]) \in Txn
    BY <2>1 DEF Loaded, Txn
  <2> QED BY <1>4, <2>1, <2>2 DEF Load, Begin, TypeOK, Loaded
<1>5. ASSUME NEW s \in Sessions, NEW d \in Definitions, UpdateDefinition(s, d) PROVE TypeOK'
  <2> DEFINE new == [txn[s].row EXCEPT !.definition = d, !.status = "draft",
                                       !.warnings = NoWarnings]
  <2>1. At(s, "loaded") /\ Flush(s, new) /\ End(s) /\ UNCHANGED <<current, valid>>
    BY <1>5 DEF UpdateDefinition
  <2>2. new \in Row
    BY <2>1, LoadedTypes DEF Row
  <2> QED BY <2>1, <2>2, FlushTypes
<1>6. ASSUME NEW s \in Sessions, ValidateVersion(s) PROVE TypeOK'
  <2> DEFINE w == Warnings(txn[s].row.definition)
             new == [txn[s].row EXCEPT !.status = "validated", !.warnings = w]
  <2>1. At(s, "loaded") /\ Flush(s, new) /\ End(s) /\ UNCHANGED <<current, valid>>
    BY <1>6 DEF ValidateVersion
  <2>2. txn[s].row \in Row
    BY <2>1, LoadedTypes
  <2>3. w \in {NoWarnings} \cup Definitions
    BY <2>2, WarningsType, LifecycleAssumption DEF Row
  <2>4. new \in Row
    BY <2>2, <2>3 DEF Row
  <2> QED BY <2>1, <2>4, FlushTypes
<1>7. ASSUME NEW s \in Sessions, ApproveVersion(s) PROVE TypeOK'
  <2> DEFINE new == [txn[s].row EXCEPT !.status = "approved", !.approvedAt = TRUE]
  <2>1. /\ At(s, "loaded") /\ Flush(s, new) /\ End(s) /\ UNCHANGED valid
        /\ current' = txn[s].target
    BY <1>7 DEF ApproveVersion
  <2>2. new \in Row
    BY <2>1, LoadedTypes DEF Row
  <2> QED BY <2>1, <2>2, FlushTypes
<1>8. ASSUME NEW s \in Sessions, StartRestore(s) PROVE TypeOK'
  <2> DEFINE row == Draft(txn[s].row.definition, NoWarnings)
  <2>1. row \in Row
    BY <1>8, LoadedTypes, DraftType DEF StartRestore, Row
  <2>2. txn' = [txn EXCEPT ![s] = Numbered(Len(versions) + 1, row)]
        /\ UNCHANGED <<versions, current, valid>>
    BY <1>8 DEF StartRestore, Begin, NextVersionNumber
  <2> HIDE DEF row
  <2>3. Numbered(Len(versions) + 1, row) \in Txn
    BY <2>1, LenProperties DEF Numbered, Txn, TypeOK
  <2> QED BY <2>2, <2>3, LenProperties DEF TypeOK, Numbered
<1>9. ASSUME NEW s \in Sessions, InsertVersion(s) PROVE TypeOK'
  <2>1. txn[s].row \in Row
    BY <1>9, NumberedTypes DEF InsertVersion
  <2>2. /\ versions' = Append(versions, txn[s].row)
        /\ End(s) /\ UNCHANGED <<current, valid>>
    BY <1>9 DEF InsertVersion
  <2>3. versions' \in Seq(Row) /\ Len(versions') = Len(versions) + 1
        /\ Len(versions) \in Nat
    BY <2>1, <2>2, AppendProperties, LenProperties DEF TypeOK
  <2>4. SessionTypes(Len(versions) + 1, txn')
    BY <2>2, <2>3, EndTypes, TypeOKParts
  <2> QED BY <2>2, <2>3, <2>4 DEF TypeOK, SessionTypes
<1>10. ASSUME NEW s \in Sessions, Rollback(s) PROVE TypeOK'
  <2>1. End(s) /\ UNCHANGED <<versions, current, valid>>
    BY <1>10 DEF Rollback
  <2>2. SessionTypes(Len(versions), txn')
    BY <2>1, EndTypes, TypeOKParts, LenProperties DEF TypeOK
  <2> QED BY <2>1, <2>2 DEF TypeOK, SessionTypes
<1>11. ASSUME Redeploy PROVE TypeOK'
  BY <1>11 DEF Redeploy, TypeOK, Idle, Txn
<1> QED BY <1>1, <1>2, <1>3, <1>4, <1>5, <1>6, <1>7, <1>8, <1>9, <1>10, <1>11 DEF WNext

\* Every reachable state is well typed: the current version exists, and no session is
\* about to use a version number past the next one.
THEOREM TypeCorrect == WSpec => []TypeOK
<1> QED BY InitTypeOK, StepTypeOK, PTL DEF WSpec

---------------------------------------------------------------------------
\* The owner's requests queue on the users row.

OneEditing == \A e, f \in Editors : ~At(e, "idle") /\ ~At(f, "idle") => e = f

LEMMA StepOneEditing == TypeOK /\ OneEditing /\ [WNext]_wvars => OneEditing'
<1> SUFFICES ASSUME TypeOK, OneEditing, [WNext]_wvars PROVE OneEditing'
  OBVIOUS
<1>1. ASSUME NEW s \in Sessions, End(s) PROVE OneEditing'
  <2>1. \A e \in Editors : ~At(e, "idle")' => ~At(e, "idle")
    BY <1>1 DEF TypeOK, End, At, Idle, Sessions
  <2> QED BY <2>1 DEF OneEditing
<1>2. ASSUME NEW s \in Sessions, NEW what, Begin(s, what), MayBegin(s) PROVE OneEditing'
  <2>1. \A e \in Editors : e # s => At(e, "idle")' = At(e, "idle")
    BY <1>2 DEF TypeOK, Begin, At, Sessions
  <2>2. CASE s \in Editors
    BY <2>1, <2>2, <1>2 DEF OneEditing, MayBegin, OwnerFree
  <2>3. CASE s \notin Editors
    BY <2>1, <2>3 DEF OneEditing
  <2> QED BY <2>2, <2>3
<1>3. ASSUME NEW s \in Sessions, StartRestore(s) PROVE OneEditing'
  <2>1. \A e \in Editors : ~At(e, "idle")' => ~At(e, "idle")
    BY <1>3 DEF TypeOK, StartRestore, Begin, At, Sessions
  <2> QED BY <2>1 DEF OneEditing
<1>4. CASE Redeploy
  BY <1>4 DEF Redeploy, OneEditing, At, Idle, Sessions
<1>5. CASE UNCHANGED txn
  BY <1>5 DEF OneEditing, At
<1>6. ASSUME NEW s \in Sessions,
             \/ \E d \in Definitions : UpdateDefinition(s, d)
             \/ ValidateVersion(s) \/ ApproveVersion(s)
             \/ InsertVersion(s) \/ Rollback(s)
      PROVE  End(s)
  BY <1>6 DEF UpdateDefinition, ValidateVersion, ApproveVersion, InsertVersion, Rollback
<1>7. ASSUME NEW s \in Sessions,
             \/ \E d \in Definitions : StartVersion(s, d)
             \/ \E v \in DOMAIN versions : Load(s, v)
      PROVE  MayBegin(s) /\ \E what : Begin(s, what)
  BY <1>7 DEF StartVersion, Load
<1>8. ASSUME NEW s \in Sessions, NEW d \in Definitions, CreateWorkflow(s, d)
      PROVE  UNCHANGED txn
  BY <1>8 DEF CreateWorkflow
<1> QED BY <1>1, <1>2, <1>3, <1>4, <1>5, <1>6, <1>7, <1>8 DEF WNext, wvars

---------------------------------------------------------------------------
\* One request at a time implements the lifecycle.

\* What the sessions have read still holds: no row changed since it was loaded, and what is
\* about to be inserted is a draft of an existing workflow.
SnapshotsFresh ==
    \A s \in Sessions :
       /\ At(s, "loaded") => txn[s].row = versions[txn[s].target]
       /\ At(s, "numbered") =>
            /\ versions # <<>>
            /\ \E d \in Definitions, w \in {NoWarnings} \cup Warned : txn[s].row = Draft(d, w)

\* A flush by the request that holds the users row leaves no stale snapshot behind.
LEMMA FlushKeepsFresh ==
    ASSUME OneEditing, TypeOK, SnapshotsFresh, NEW s \in Sessions, At(s, "loaded"),
           NEW new, Flush(s, new), End(s)
    PROVE  SnapshotsFresh'
<1> SUFFICES ASSUME NEW r \in Sessions
             PROVE  /\ At(r, "loaded")' => (txn[r].row = versions[txn[r].target])'
                    /\ At(r, "numbered")' =>
                         /\ versions' # <<>>
                         /\ \E d \in Definitions, w \in {NoWarnings} \cup Warned :
                              txn'[r].row = Draft(d, w)
  BY DEF SnapshotsFresh
<1>1. CASE r = s
  BY <1>1 DEF TypeOK, End, At, Idle
<1>2. CASE r # s
  <2>1. txn'[r] = txn[r]
    BY <1>2 DEF TypeOK, End
  <2>2. ~At(r, "loaded")
    BY <1>2, LoadedTypes DEF OneEditing, At
  <2>3. versions # <<>> => versions' # <<>>
    BY DEF Flush, TypeOK
  <2> QED BY <2>1, <2>2, <2>3 DEF SnapshotsFresh, At
<1> QED BY <1>1, <1>2

\* A session that ends while the rows stay, or grow by one, keeps the snapshots fresh.
LEMMA EndKeepsFresh ==
    ASSUME TypeOK, SnapshotsFresh, NEW s \in Sessions, End(s),
           \/ UNCHANGED versions
           \/ \E row \in Row : versions' = Append(versions, row)
    PROVE  SnapshotsFresh'
<1>1. \A v \in DOMAIN versions : versions'[v] = versions[v]
  BY AppendProperties DEF TypeOK
<1>2. versions # <<>> => versions' # <<>>
  BY AppendProperties DEF TypeOK
<1>3. ASSUME NEW r \in Sessions
      PROVE  /\ At(r, "loaded")' => (txn[r].row = versions[txn[r].target])'
             /\ At(r, "numbered")' =>
                  /\ versions' # <<>>
                  /\ \E d \in Definitions, w \in {NoWarnings} \cup Warned :
                       txn'[r].row = Draft(d, w)
  <2>1. CASE r = s
    BY <2>1 DEF TypeOK, End, At, Idle
  <2>2. CASE r # s
    <3>1. txn'[r] = txn[r]
      BY <2>2 DEF TypeOK, End
    <3>2. At(r, "loaded") => txn[r].target \in DOMAIN versions
      BY LoadedTypes
    <3> QED BY <3>1, <3>2, <1>1, <1>2 DEF SnapshotsFresh, At
  <2> QED BY <2>1, <2>2
<1> QED BY <1>3 DEF SnapshotsFresh

\* A session that begins keeps the snapshots fresh if its own is.
LEMMA BeginKeepsFresh ==
    ASSUME TypeOK, SnapshotsFresh, NEW s \in Sessions, NEW what, Begin(s, what),
           UNCHANGED versions,
           \/ \E v : what = Loaded(v, versions[v])
           \/ /\ versions # <<>>
              /\ \E n : \E d \in Definitions, w \in {NoWarnings} \cup Warned :
                   what = Numbered(n, Draft(d, w))
    PROVE  SnapshotsFresh'
<1>1. ASSUME NEW r \in Sessions
      PROVE  /\ At(r, "loaded")' => (txn[r].row = versions[txn[r].target])'
             /\ At(r, "numbered")' =>
                  /\ versions' # <<>>
                  /\ \E d \in Definitions, w \in {NoWarnings} \cup Warned :
                       txn'[r].row = Draft(d, w)
  <2>1. CASE r = s
    <3>1. txn'[r] = what
      BY <2>1 DEF TypeOK, Begin
    <3>2. CASE \E v : what = Loaded(v, versions[v])
      BY <3>1, <3>2 DEF Loaded, At
    <3>3. CASE /\ versions # <<>>
               /\ \E n : \E d \in Definitions, w \in {NoWarnings} \cup Warned :
                    what = Numbered(n, Draft(d, w))
      BY <3>1, <3>3 DEF Numbered, At
    <3> QED BY <3>2, <3>3
  <2>2. CASE r # s
    <3>1. txn'[r] = txn[r]
      BY <2>2 DEF TypeOK, Begin
    <3> QED BY <3>1 DEF SnapshotsFresh, At
  <2> QED BY <2>1, <2>2
<1> QED BY <1>1 DEF SnapshotsFresh

LEMMA StepFresh ==
    TypeOK /\ OneEditing /\ SnapshotsFresh /\ [WNext]_wvars => SnapshotsFresh'
<1> SUFFICES ASSUME TypeOK, OneEditing, SnapshotsFresh, [WNext]_wvars PROVE SnapshotsFresh'
  OBVIOUS
<1>1. CASE UNCHANGED wvars
  BY <1>1 DEF SnapshotsFresh, At, wvars
<1>2. ASSUME NEW s \in Sessions, NEW d \in Definitions, CreateWorkflow(s, d)
      PROVE  SnapshotsFresh'
  <2>1. UNCHANGED txn /\ versions = <<>>
    BY <1>2 DEF CreateWorkflow
  <2>2. \A r \in Sessions : ~At(r, "loaded") /\ ~At(r, "numbered")
    BY <2>1, LoadedTypes DEF SnapshotsFresh
  <2> QED BY <2>1, <2>2 DEF SnapshotsFresh, At
<1>3. ASSUME NEW s \in Sessions, NEW d \in Definitions, StartVersion(s, d)
      PROVE  SnapshotsFresh'
  <2> DEFINE w == IF s \in Planners THEN Warnings(d) ELSE NoWarnings
  <2>1. w \in {NoWarnings} \cup Warned
    BY WarningsType
  <2>2. /\ Begin(s, Numbered(NextVersionNumber, Draft(d, w)))
        /\ UNCHANGED versions /\ versions # <<>>
    BY <1>3 DEF StartVersion
  <2> HIDE DEF w
  <2> QED BY <2>1, <2>2, BeginKeepsFresh
<1>4. ASSUME NEW s \in Sessions, NEW v \in DOMAIN versions, Load(s, v)
      PROVE  SnapshotsFresh'
  BY <1>4, BeginKeepsFresh DEF Load
<1>5. ASSUME NEW s \in Sessions,
             \/ \E d \in Definitions : UpdateDefinition(s, d)
             \/ ValidateVersion(s) \/ ApproveVersion(s)
      PROVE  SnapshotsFresh'
  <2>1. At(s, "loaded") /\ End(s) /\ \E new : Flush(s, new)
    BY <1>5 DEF UpdateDefinition, ValidateVersion, ApproveVersion
  <2> QED BY <2>1, FlushKeepsFresh
<1>6. ASSUME NEW s \in Sessions, StartRestore(s) PROVE SnapshotsFresh'
  <2>1. /\ Begin(s, Numbered(NextVersionNumber, Draft(txn[s].row.definition, NoWarnings)))
        /\ UNCHANGED versions /\ At(s, "loaded")
    BY <1>6 DEF StartRestore
  <2>2. txn[s].row.definition \in Definitions /\ versions # <<>>
    BY <2>1, LoadedTypes DEF Row
  <2> QED BY <2>1, <2>2, BeginKeepsFresh
<1>7. ASSUME NEW s \in Sessions, InsertVersion(s) PROVE SnapshotsFresh'
  BY <1>7, EndKeepsFresh, NumberedTypes DEF InsertVersion
<1>8. ASSUME NEW s \in Sessions, Rollback(s) PROVE SnapshotsFresh'
  BY <1>8, EndKeepsFresh DEF Rollback
<1>9. ASSUME Redeploy PROVE SnapshotsFresh'
  BY <1>9 DEF Redeploy, SnapshotsFresh, At, Idle
<1> QED BY <1>1, <1>2, <1>3, <1>4, <1>5, <1>6, <1>7, <1>8, <1>9 DEF WNext

\* On a fresh snapshot every step of a session is one of the lifecycle's, or none.
LEMMA StepRefines ==
    TypeOK /\ SnapshotsFresh /\ [WNext]_wvars => [Next]_vars
<1> SUFFICES ASSUME TypeOK, SnapshotsFresh, [WNext]_wvars PROVE [Next]_vars
  OBVIOUS
<1>1. ASSUME UNCHANGED <<versions, current, valid>> PROVE [Next]_vars
  BY <1>1 DEF vars
<1>2. ASSUME NEW s \in Sessions, NEW new \in Row, At(s, "loaded"), Flush(s, new)
      PROVE  /\ txn[s].target \in DOMAIN versions
             /\ txn[s].row = versions[txn[s].target]
             /\ Replace(txn[s].target, new)
  <2>1. txn[s].target \in DOMAIN versions /\ txn[s].row \in Row
    BY <1>2, LoadedTypes
  <2>2. txn[s].row = versions[txn[s].target]
    BY <1>2 DEF SnapshotsFresh
  <2>3. Merge(versions[txn[s].target], txn[s].row, new) = new
    BY <2>1, <2>2, MergeFresh
  <2> QED BY <1>2, <2>1, <2>2, <2>3 DEF Flush, Replace
<1>3. ASSUME NEW s \in Sessions, NEW d \in Definitions, CreateWorkflow(s, d)
      PROVE  Next
  <2> DEFINE w == IF s \in Planners THEN Warnings(d) ELSE NoWarnings
  <2>1. w \in {NoWarnings} \cup Warned
    BY WarningsType
  <2>2. versions = <<>> /\ versions' = <<Draft(d, w)>> /\ current' = 1 /\ UNCHANGED valid
    BY <1>3 DEF CreateWorkflow
  <2> HIDE DEF w
  <2>3. versions' = Append(versions, Draft(d, w))
    BY <2>2
  <2>4. Create(d, w)
    BY <2>2, <2>3 DEF Create
  <2> QED BY <2>1, <2>4 DEF Next
<1>4. ASSUME NEW s \in Sessions, NEW d \in Definitions, UpdateDefinition(s, d)
      PROVE  Next
  <2> DEFINE v == txn[s].target
             new == [txn[s].row EXCEPT !.definition = d, !.status = "draft",
                                       !.warnings = NoWarnings]
  <2>1. /\ At(s, "loaded") /\ Flush(s, new) /\ UNCHANGED <<current, valid>>
        /\ txn[s].row.status # "approved"
    BY <1>4 DEF UpdateDefinition, RequireMutable, MutableStatuses
  <2>2. new \in Row
    BY <2>1, LoadedTypes DEF Row
  <2>3. v \in DOMAIN versions /\ txn[s].row = versions[v] /\ Replace(v, new)
    BY <2>1, <2>2, <1>2
  <2>4. Edit(v, d)
    BY <2>1, <2>3 DEF Edit
  <2> QED BY <2>3, <2>4 DEF Next
<1>5. ASSUME NEW s \in Sessions, ValidateVersion(s) PROVE Next
  <2> DEFINE v == txn[s].target
             w == Warnings(txn[s].row.definition)
             new == [txn[s].row EXCEPT !.status = "validated", !.warnings = w]
  <2>1. /\ At(s, "loaded") /\ Flush(s, new) /\ UNCHANGED <<current, valid>>
        /\ txn[s].row.status # "approved" /\ txn[s].row.definition \in valid
    BY <1>5 DEF ValidateVersion, RequireMutable, MutableStatuses, RunSemanticValidation
  <2>2. txn[s].row \in Row
    BY <2>1, LoadedTypes
  <2>3. w \in {NoWarnings} \cup Definitions
    BY <2>2, WarningsType, LifecycleAssumption DEF Row
  <2>4. new \in Row
    BY <2>2, <2>3 DEF Row
  <2>5. v \in DOMAIN versions /\ txn[s].row = versions[v] /\ Replace(v, new)
    BY <2>1, <2>4, <1>2
  <2>6. Validate(v)
    BY <2>1, <2>5 DEF Validate
  <2> QED BY <2>5, <2>6 DEF Next
<1>6. ASSUME NEW s \in Sessions, ApproveVersion(s) PROVE Next
  <2> DEFINE v == txn[s].target
             new == [txn[s].row EXCEPT !.status = "approved", !.approvedAt = TRUE]
  <2>1. /\ At(s, "loaded") /\ Flush(s, new) /\ current' = v /\ UNCHANGED valid
        /\ txn[s].row.status = "validated" /\ txn[s].row.definition \in valid
    BY <1>6 DEF ApproveVersion, RunSemanticValidation
  <2>2. new \in Row
    BY <2>1, LoadedTypes DEF Row
  <2>3. v \in DOMAIN versions /\ txn[s].row = versions[v] /\ Replace(v, new)
    BY <2>1, <2>2, <1>2
  <2>4. Approve(v)
    BY <2>1, <2>3 DEF Approve
  <2> QED BY <2>3, <2>4 DEF Next
<1>7. ASSUME NEW s \in Sessions, InsertVersion(s) PROVE Next
  <2>1. /\ versions' = Append(versions, txn[s].row)
        /\ UNCHANGED <<current, valid>> /\ At(s, "numbered")
    BY <1>7 DEF InsertVersion
  <2>2. PICK d \in Definitions, w \in {NoWarnings} \cup Warned : txn[s].row = Draft(d, w)
    BY <2>1 DEF SnapshotsFresh
  <2>3. Create(d, w)
    BY <2>1, <2>2 DEF Create, SnapshotsFresh
  <2> QED BY <2>3 DEF Next
<1>8. CASE Redeploy
  BY <1>8 DEF Redeploy, Deploy, Next
<1> QED BY <1>1, <1>3, <1>4, <1>5, <1>6, <1>7, <1>8
        DEF WNext, wvars, StartVersion, Load, StartRestore, Rollback

LEMMA InitFresh == WInit => Init /\ OneEditing /\ SnapshotsFresh
BY DEF WInit, OneEditing, SnapshotsFresh, At, Idle, Sessions

THEOREM FreshAlways == WSpec => [](OneEditing /\ SnapshotsFresh)
BY InitFresh, TypeCorrect, StepOneEditing, StepFresh, PTL DEF WSpec

\* Whatever requests of the owner's, planner jobs, rollbacks and deployments are in flight,
\* the repository implements the lifecycle the API promises.
THEOREM ImplementsLifecycle == WSpec => KeepsLifecycle
BY InitFresh, TypeCorrect, FreshAlways, StepRefines, PTL DEF WSpec, Spec, KeepsLifecycle

\* An approved version never changes, in any column.
THEOREM ApprovedNeverChanges == WSpec => ApprovedImmutable
<1>1. TypeOK /\ [Next]_vars =>
        [\A v \in DOMAIN versions :
           versions[v].status = "approved" => versions'[v] = versions[v]]_wvars
  <2> SUFFICES ASSUME TypeOK, [Next]_vars, NEW v \in DOMAIN versions,
                      versions[v].status = "approved"
               PROVE  versions'[v] = versions[v]
    OBVIOUS
  <2>1. versions \in Seq(Row)
    BY DEF TypeOK
  <2>2. ASSUME NEW d, NEW w, Create(d, w) PROVE versions'[v] = versions[v]
    BY <2>1, <2>2 DEF Create
  <2>3. ASSUME NEW u \in DOMAIN versions, NEW row, Replace(u, row), u # v
        PROVE  versions'[v] = versions[v]
    BY <2>1, <2>3 DEF Replace
  <2>4. ASSUME NEW u \in DOMAIN versions, NEW d, Edit(u, d) PROVE versions'[v] = versions[v]
    BY <2>3, <2>4 DEF Edit
  <2>5. ASSUME NEW u \in DOMAIN versions, Validate(u) PROVE versions'[v] = versions[v]
    BY <2>3, <2>5 DEF Validate
  <2>6. ASSUME NEW u \in DOMAIN versions, Approve(u) PROVE versions'[v] = versions[v]
    BY <2>3, <2>6 DEF Approve
  <2>7. CASE Deploy
    BY <2>7 DEF Deploy
  <2>8. CASE UNCHANGED vars
    BY <2>8 DEF vars
  <2> QED BY <2>2, <2>4, <2>5, <2>6, <2>7, <2>8 DEF Next
<1>2. TypeOK /\ SnapshotsFresh /\ [WNext]_wvars =>
        [\A v \in DOMAIN versions :
           versions[v].status = "approved" => versions'[v] = versions[v]]_wvars
  BY <1>1, StepRefines
<1> QED BY <1>2, TypeCorrect, FreshAlways, PTL DEF WSpec, ApprovedImmutable

---------------------------------------------------------------------------
\* What approval rests on: the warnings of a validated version are those of its definition.
WarningsOwn ==
    \A v \in DOMAIN versions :
        versions[v].status = "validated" =>
            versions[v].warnings = Warnings(versions[v].definition)

\* No version is ever removed.
LEMMA VersionsStay ==
    ASSUME TypeOK, [Next]_vars
    PROVE  DOMAIN versions \subseteq DOMAIN versions'
<1>1. versions \in Seq(Row)
  BY DEF TypeOK
<1>2. ASSUME NEW d, NEW w, Create(d, w) PROVE DOMAIN versions \subseteq DOMAIN versions'
  BY <1>1, <1>2 DEF Create
<1>3. ASSUME NEW u \in DOMAIN versions, NEW d, Edit(u, d) \/ Validate(u) \/ Approve(u)
      PROVE  DOMAIN versions \subseteq DOMAIN versions'
  BY <1>1, <1>3 DEF Edit, Validate, Approve, Replace
<1> QED BY <1>2, <1>3 DEF Next, vars, Deploy

\* What one version may become in a step of the lifecycle.
LEMMA VersionSteps ==
    ASSUME TypeOK, [Next]_vars, NEW v \in DOMAIN versions'
    PROVE  \/ v \in DOMAIN versions /\ versions'[v] = versions[v]
           \/ versions'[v].status = "draft"
           \/ /\ versions'[v].status = "validated"
              /\ versions'[v].warnings = Warnings(versions'[v].definition)
           \/ /\ v \in DOMAIN versions /\ versions[v].status = "validated"
              /\ versions[v].definition \in valid
              /\ versions'[v] = [versions[v] EXCEPT !.status = "approved", !.approvedAt = TRUE]
<1>1. versions \in Seq(Row)
  BY DEF TypeOK
<1>2. ASSUME NEW d, NEW w, Create(d, w)
      PROVE  \/ v \in DOMAIN versions /\ versions'[v] = versions[v]
             \/ versions'[v].status = "draft"
  BY <1>1, <1>2 DEF Create, Draft
<1>3. ASSUME NEW u \in DOMAIN versions, NEW row, Replace(u, row)
      PROVE  v \in DOMAIN versions /\ versions'[v] = IF v = u THEN row ELSE versions[v]
  BY <1>1, <1>3 DEF Replace
<1>4. ASSUME NEW u \in DOMAIN versions, NEW d, Edit(u, d)
      PROVE  \/ v \in DOMAIN versions /\ versions'[v] = versions[v]
             \/ versions'[v].status = "draft"
  <2> DEFINE new == [versions[u] EXCEPT !.definition = d, !.status = "draft",
                                        !.warnings = NoWarnings]
  <2>1. versions[u] \in Row
    BY <1>1
  <2>2. new.status = "draft"
    BY <2>1 DEF Row
  <2>3. Replace(u, new)
    BY <1>4 DEF Edit
  <2> HIDE DEF new
  <2> QED BY <1>3, <2>2, <2>3
<1>5. ASSUME NEW u \in DOMAIN versions, Validate(u)
      PROVE  \/ v \in DOMAIN versions /\ versions'[v] = versions[v]
             \/ /\ versions'[v].status = "validated"
                /\ versions'[v].warnings = Warnings(versions'[v].definition)
  <2> DEFINE w == Warnings(versions[u].definition)
             new == [versions[u] EXCEPT !.status = "validated", !.warnings = w]
  <2>1. versions[u] \in Row
    BY <1>1
  <2>2. new.status = "validated" /\ new.warnings = w /\ new.definition = versions[u].definition
    BY <2>1 DEF Row
  <2>3. Replace(u, new)
    BY <1>5 DEF Validate
  <2> HIDE DEF new
  <2> QED BY <1>3, <2>2, <2>3
<1>6. ASSUME NEW u \in DOMAIN versions, Approve(u)
      PROVE  \/ v \in DOMAIN versions /\ versions'[v] = versions[v]
             \/ /\ v \in DOMAIN versions /\ versions[v].status = "validated"
                /\ versions[v].definition \in valid
                /\ versions'[v] = [versions[v] EXCEPT !.status = "approved", !.approvedAt = TRUE]
  <2> DEFINE new == [versions[u] EXCEPT !.status = "approved", !.approvedAt = TRUE]
  <2>1. versions[u].status = "validated" /\ versions[u].definition \in valid /\ Replace(u, new)
    BY <1>6 DEF Approve
  <2>2. v \in DOMAIN versions /\ versions'[v] = IF v = u THEN new ELSE versions[v]
    BY <1>3, <2>1
  <2> QED BY <2>1, <2>2
<1>7. CASE UNCHANGED versions
  BY <1>7
<1> QED BY <1>2, <1>4, <1>5, <1>6, <1>7 DEF Next, vars, Deploy

LEMMA StepWarnings == TypeOK /\ WarningsOwn /\ [Next]_vars => WarningsOwn'
<1> SUFFICES ASSUME TypeOK, WarningsOwn, [Next]_vars, NEW v \in DOMAIN versions',
                    versions'[v].status = "validated"
             PROVE  versions'[v].warnings = Warnings(versions'[v].definition)
  BY DEF WarningsOwn
<1>1. v \in DOMAIN versions => versions[v] \in Row
  BY DEF TypeOK
<1> QED BY <1>1, VersionSteps DEF WarningsOwn, Row

\* approve_version validates again: whatever registry was deployed since the version was
\* validated and whatever requests and planner jobs are in flight, what becomes approved is
\* accepted by the running registry, and the warnings beside it are its own.
THEOREM ApprovedAreChecked == WSpec => ApprovedChecked
<1>1. TypeOK /\ WarningsOwn /\ [Next]_vars =>
        [\A v \in DOMAIN versions :
           versions[v].status # "approved" /\ versions'[v].status = "approved" =>
              /\ versions'[v].definition \in valid
              /\ versions'[v].warnings = Warnings(versions'[v].definition)]_wvars
  <2> SUFFICES ASSUME TypeOK, WarningsOwn, [Next]_vars, NEW v \in DOMAIN versions,
                      versions[v].status # "approved", versions'[v].status = "approved"
               PROVE  /\ versions'[v].definition \in valid
                      /\ versions'[v].warnings = Warnings(versions'[v].definition)
    OBVIOUS
  <2>1. versions[v] \in Row
    BY DEF TypeOK
  <2>2. v \in DOMAIN versions'
    BY VersionsStay
  <2>3. /\ versions[v].status = "validated" /\ versions[v].definition \in valid
        /\ versions'[v] = [versions[v] EXCEPT !.status = "approved", !.approvedAt = TRUE]
    BY <2>2, VersionSteps
  <2> QED BY <2>1, <2>3 DEF WarningsOwn, Row
<1>2. WInit => WarningsOwn
  BY DEF WInit, Init, WarningsOwn
<1>3. TypeOK /\ SnapshotsFresh /\ WarningsOwn /\ [WNext]_wvars => WarningsOwn'
  BY StepRefines, StepWarnings
<1>4. TypeOK /\ SnapshotsFresh /\ WarningsOwn /\ [WNext]_wvars =>
        [\A v \in DOMAIN versions :
           versions[v].status # "approved" /\ versions'[v].status = "approved" =>
              /\ versions'[v].definition \in valid
              /\ versions'[v].warnings = Warnings(versions'[v].definition)]_wvars
  BY <1>1, StepRefines
<1> QED BY <1>2, <1>3, <1>4, TypeCorrect, FreshAlways, PTL DEF WSpec, ApprovedChecked

=============================================================================
