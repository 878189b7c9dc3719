-------------------------- MODULE WorkflowVersions --------------------------
(***************************************************************************)
(* WorkflowsRepository (northforge/db/repositories/workflows.py) under     *)
(* concurrent requests, for one workflow.  Every request, and every        *)
(* planner job, is a session of its own: it reads rows, decides on what it *)
(* read, flushes and commits.  PostgreSQL runs it READ COMMITTED and the   *)
(* repository takes no lock: a row could change between the read and the   *)
(* write, which is an UPDATE of the columns the session changed.           *)
(*                                                                         *)
(* What keeps the requests apart is in another file.  A workflow is seen   *)
(* by its owner only, and every request begins with an upsert of its       *)
(* caller's users row in its own transaction (auth/dependencies.py,        *)
(* db/repositories/users.py): the owner's requests queue on that row until *)
(* the commit.  Planner jobs only read the row.                            *)
(*                                                                         *)
(* A flush and its commit are one step: the row lock the UPDATE takes      *)
(* keeps other writers out until the commit, and readers see the old row.  *)
(***************************************************************************)
EXTENDS VersionLifecycle, FiniteSets

CONSTANTS
    Editors,        \* sessions that serve the owner's requests
    Planners,       \* planner jobs (worker/main.py plan_workflow)
    MaxVersions     \* bound: no new version is begun beyond it

ASSUME VersionsAssumption == Editors \cap Planners = {} /\ MaxVersions \in Nat

VARIABLE txn        \* what each session has read and not yet committed

wvars == <<versions, current, valid, txn>>

Sessions == Editors \cup Planners

Idle == [at |-> "idle"]
Loaded(v, row) == [at |-> "loaded", target |-> v, row |-> row]
Numbered(n, row) == [at |-> "numbered", number |-> n, row |-> row]

Txn ==
    {Idle} \cup [at : {"loaded"}, target : Nat \ {0}, row : Row]
           \cup [at : {"numbered"}, number : Nat \ {0}, row : Row]

TypeOK ==
    /\ versions \in Seq(Row)
    /\ current \in 0..Len(versions)
    /\ valid \in Registries
    /\ txn \in [Sessions -> Txn]
    /\ \A s \in Sessions :
         /\ txn[s].at = "loaded" => s \in Editors /\ txn[s].target <= Len(versions)
         /\ txn[s].at = "numbered" => txn[s].number <= Len(versions) + 1

WInit == Init /\ txn = [s \in Sessions |-> Idle]

At(s, where) == txn[s].at = where
Begin(s, what) == txn' = [txn EXCEPT ![s] = what]
End(s) == txn' = [txn EXCEPT ![s] = Idle]

\* Bug: a request does not wait for the owner's other requests.
OwnerUnlocked == TRUE

\* No request of the owner's holds the users row.
OwnerFree == \A e \in Editors : At(e, "idle")

MayBegin(s) == At(s, "idle") /\ (s \in Editors => OwnerFree)

---------------------------------------------------------------------------
\* create: the workflow, its version 1 and the pointer to it in one transaction.
CreateWorkflow(s, d) ==
    /\ MayBegin(s)
    /\ versions = <<>>
    /\ versions' = <<Draft(d, IF s \in Planners THEN Warnings(d) ELSE NoWarnings)>>
    /\ current' = 1
    /\ UNCHANGED <<valid, txn>>

\* get_version_for_owner.
Load(s, v) ==
    /\ s \in Editors
    /\ MayBegin(s)
    /\ Begin(s, Loaded(v, versions[v]))
    /\ UNCHANGED <<versions, current, valid>>

\* The flush writes the columns whose value differs from the one that was loaded.
Merge(stored, read, new) ==
    [f \in DOMAIN stored |-> IF new[f] # read[f] THEN new[f] ELSE stored[f]]

Flush(s, new) ==
    versions' = [versions EXCEPT ![txn[s].target] = Merge(@, txn[s].row, new)]

MutableStatuses == {"draft", "validated"}
RequireMutable(row) == row.status \in MutableStatuses

UpdateDefinition(s, d) ==
    /\ At(s, "loaded")
    /\ RequireMutable(txn[s].row)
    /\ Flush(s, [txn[s].row EXCEPT !.definition = d, !.status = "draft",
                                   !.warnings = NoWarnings])
    /\ End(s)
    /\ UNCHANGED <<current, valid>>

RunSemanticValidation(row) == row.definition \in valid

ValidateVersion(s) ==
    LET row == txn[s].row IN
    /\ At(s, "loaded")
    /\ RequireMutable(row)
    /\ RunSemanticValidation(row)
    /\ Flush(s, [row EXCEPT !.status = "validated", !.warnings = Warnings(row.definition)])
    /\ End(s)
    /\ UNCHANGED <<current, valid>>

\* Bug: approval trusts the earlier validation.
ApproveUnchecked(s) ==
    LET row == txn[s].row IN
    /\ At(s, "loaded")
    /\ row.status = "validated"
    /\ Flush(s, [row EXCEPT !.status = "approved", !.approvedAt = TRUE])
    /\ current' = txn[s].target
    /\ End(s)
    /\ UNCHANGED valid

ApproveVersion(s) ==
    LET row == txn[s].row IN
    /\ At(s, "loaded")
    /\ RunSemanticValidation(row)
    /\ row.status = "validated"
    /\ Flush(s, [row EXCEPT !.status = "approved", !.approvedAt = TRUE])
    /\ current' = txn[s].target
    /\ End(s)
    /\ UNCHANGED valid

\* Bug: a number past the next one.
NextVersionNumberSkipping == Len(versions) + 2

NextVersionNumber == Len(versions) + 1

\* create_version (also at the end of a re-plan): the number is read, then used.
StartVersion(s, d) ==
    /\ MayBegin(s)
    /\ versions # <<>> /\ Len(versions) < MaxVersions
    /\ Begin(s, Numbered(NextVersionNumber,
                         Draft(d, IF s \in Planners THEN Warnings(d) ELSE NoWarnings)))
    /\ UNCHANGED <<versions, current, valid>>

\* restore: the same, with the definition of the version that was loaded.
StartRestore(s) ==
    /\ At(s, "loaded")
    /\ Len(versions) < MaxVersions
    /\ Begin(s, Numbered(NextVersionNumber, Draft(txn[s].row.definition, NoWarnings)))
    /\ UNCHANGED <<versions, current, valid>>

\* Bug: a new version becomes the current one before its approval.
InsertAsCurrent(s) ==
    /\ At(s, "numbered")
    /\ txn[s].number = Len(versions) + 1
    /\ versions' = Append(versions, txn[s].row)
    /\ current' = txn[s].number
    /\ End(s)
    /\ UNCHANGED valid

\* The INSERT goes through if nobody took the number: UNIQUE (workflow_id, version_number).
InsertVersion(s) ==
    /\ At(s, "numbered")
    /\ txn[s].number = Len(versions) + 1
    /\ versions' = Append(versions, txn[s].row)
    /\ End(s)
    /\ UNCHANGED <<current, valid>>

\* get_session's rollback: a check failed (409, 422), the INSERT met a taken number, or
\* the request or the process died before its commit.
Rollback(s) ==
    /\ ~At(s, "idle")
    /\ End(s)
    /\ UNCHANGED <<versions, current, valid>>

\* The registry is a constant of the process: changing it ends every session.
Redeploy ==
    /\ valid' \in Registries
    /\ txn' = [s \in Sessions |-> Idle]
    /\ UNCHANGED <<versions, current>>

WNext ==
    \/ \E s \in Sessions :
         \/ \E d \in Definitions : CreateWorkflow(s, d) \/ StartVersion(s, d)
         \/ \E v \in DOMAIN versions : Load(s, v)
         \/ \E d \in Definitions : UpdateDefinition(s, d)
         \/ ValidateVersion(s) \/ ApproveVersion(s)
         \/ StartRestore(s) \/ InsertVersion(s) \/ Rollback(s)
    \/ Redeploy

WSpec == WInit /\ [][WNext]_wvars

---------------------------------------------------------------------------
\* Properties.

\* "Approved workflow versions are immutable": whatever sessions are in flight, nothing of
\* an approved version ever changes.
ApprovedImmutable ==
    [][\A v \in DOMAIN versions :
         versions[v].status = "approved" => versions'[v] = versions[v]]_wvars

\* approve: the definition that becomes approved, which runs will execute, is one the
\* running registry accepts, and the warnings stored beside it are its own.
ApprovedChecked ==
    [][\A v \in DOMAIN versions :
         versions[v].status # "approved" /\ versions'[v].status = "approved" =>
            /\ versions'[v].definition \in valid
            /\ versions'[v].warnings = Warnings(versions'[v].definition)]_wvars

\* However many requests of the owner and planner jobs are in flight, the repository
\* implements the lifecycle the API promises: no check is made on a row that another
\* session then changes, and the pointer moves only by approval.
KeepsLifecycle == Spec

=============================================================================
