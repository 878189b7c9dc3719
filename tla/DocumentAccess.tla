--------------------------- MODULE DocumentAccess ---------------------------
(***************************************************************************)
(* Requests and planner tools that read documents, beside ingestion jobs   *)
(* that rewrite them and an operator who grants access groups.             *)
(*                                                                         *)
(* A request verifies its caller, upserts the caller's users row, and      *)
(* answers from one statement or several, each of which sees what is       *)
(* committed when it starts; it commits on a clean return and rolls back   *)
(* otherwise.  The upsert locks the row, so that requests of one caller,   *)
(* and grants to the same, wait for each other.  A planner job takes the   *)
(* groups of its user when it starts and calls tools with them.            *)
(*                                                                         *)
(* An ingestion loads the documents of its project and writes a data set   *)
(* over them (ingestion/pipeline.py); what a document's content hash tells *)
(* of it is its chunks here.  Module Ingestion has the steps between.      *)
(***************************************************************************)
EXTENDS Retrieval

CONSTANTS
  Users, Requests, Jobs, Seeds, Ingesters,
  Owner,        \* Owner[project]: the user whose project it is
  Releases,     \* Releases[project]: data sets, functions from documents to editions
  Questions,    \* the searches considered, without project and groups
  Operations,   \* what requests may ask for
  ToolCalls,    \* what jobs may ask of the tools
  Groups,       \* the groups an operator may grant
  MaxBusy,      \* how many sessions, grants and ingestions may be under way at once
  Emails        \* Emails[user]: the e-mail addresses the user's tokens may carry

Sessions == Requests \cup Jobs
Projects == DOMAIN Owner
DocIds == UNION {UNION {DOMAIN r : r \in Releases[p]} : p \in Projects}
Editions(d) == UNION {{r[d] : r \in {x \in Releases[p] : d \in DOMAIN x}} : p \in Projects}

(* The columns an UPDATE may set by itself; area and supersedes are kept   *)
(* in one, metadata_json.                                                  *)
Columns == {{"project"}, {"group"}, {"type"}, {"vendor"}, {"date"}, {"area", "supersedes"}, {"chunks"}}

(* The rows each column of which is that of an edition of the document.    *)
Mixes ==
  [d \in DocIds |->
     {[f \in DocumentFields |-> of[f][f]] :
        of \in {g \in [DocumentFields -> Editions(d)] :
                 \A column \in Columns : \A f, h \in column : g[f] = g[h]}}]

(* The contents that ingestions can lead to, however they overlap.         *)
Databases ==
  {[d \in DocIds |-> of[d]] :
     of \in {g \in [DocIds -> {Absent} \cup UNION {Mixes[d] : d \in DocIds}] :
              \A d \in DocIds : g[d] = Absent \/ g[d] \in Mixes[d]}}

(* The scopes a search may be made in.                                     *)
GroupSets == {{"procurement"} \cup G : G \in SUBSET Groups}
Scopes == [project : Projects, groups : GroupSets \cup {{}}]

(* A document belongs to one project and a rule to that of the document it *)
(* cites; a limit is at least 1.                                           *)
ASSUME AccessAssumption ==
  /\ Requests \cap Jobs = {}
  /\ Owner \in [Projects -> Users]
  /\ IsFiniteSet(DocIds) /\ IsFiniteSet(Rules)
  /\ MaxBusy \in Nat
  /\ \A p \in Projects : \A r \in Releases[p] : \A d \in DOMAIN r :
       /\ IsDocument(r[d]) /\ r[d].project = p
       /\ \A q \in Projects \ {p} : \A t \in Releases[q] : d \notin DOMAIN t
       /\ \A rule \in Rules : rule.doc = d => rule.project = p
  /\ \A rule \in Rules : rule.severity \in DOMAIN SeverityOrder
  /\ \A q \in Questions : q.limit \in Nat \ {0}
  /\ \A op \in Operations :
       /\ op.kind \in {"list", "search", "detail", "chunk"}
       /\ op.project \in Projects
       /\ op.kind = "search" => op.question \in Questions
  /\ \A call \in ToolCalls :
       /\ call.kind \in {"search", "chunk", "rules"}
       /\ call.kind = "search" => call.question \in Questions

VARIABLES
  docs,     \* the committed documents with their chunks
  users,    \* the committed users rows: known, email, groups
  ses,      \* what each request and each job is doing
  grants,   \* what each seed command has read
  ingests   \* the data set of each ingestion and the documents it has loaded

vars == <<docs, users, ses, grants, ingests>>

NoOne == "no one"
NoEmail == "no email"
Idle == [at |-> "idle"]

(* Every user starts with the procurement documents.                       *)
NewUser == [known |-> FALSE, email |-> NoEmail, groups |-> {"procurement"}]

Init ==
  /\ docs = [d \in DocIds |-> Absent]
  /\ users = [u \in Users |-> NewUser]
  /\ ses = [s \in Sessions |-> Idle]
  /\ grants = [o \in Seeds |-> Idle]
  /\ ingests = [i \in Ingesters |-> Idle]

(* The bound on what is under way.                                         *)
Room ==
  Cardinality({s \in Sessions : ses[s] # Idle}) + Cardinality({o \in Seeds : grants[o] # Idle})
    + Cardinality({i \in Ingesters : ingests[i] # Idle}) < MaxBusy

At(s, place) == ses[s] # Idle /\ ses[s].at = place
Set(s, what) == ses' = [ses EXCEPT ![s] = what]
Step(s, place) == Set(s, [ses[s] EXCEPT !.at = place])
Reply(s, status) == Set(s, [ses[s] EXCEPT !.at = "done", !.status = status])

-----------------------------------------------------------------------------
(* ClerkTokenVerifier.verify: the subject of a token that decodes and is   *)
(* for this application.                                                   *)
TokenClaims == [user : Users, decodes : BOOLEAN, authorized : BOOLEAN]
Principal(token) == IF token.decodes /\ token.authorized THEN token.user ELSE NoOne

(* Bug: the upsert writes every column, the default groups among them.     *)
UpsertedWhole(u, email) ==
  [known |-> TRUE, email |-> IF email = NoEmail THEN users[u].email ELSE email,
   groups |-> NewUser.groups]

(* upsert_from_principal: what is missing never replaces what is stored.   *)
Upserted(u, email) ==
  [users[u] EXCEPT !.known = TRUE, !.email = IF email = NoEmail THEN @ ELSE email]

(* No transaction holds the users row.                                     *)
RowFree(u) == \A s \in Requests : ses[s] # Idle => ses[s].user # u

Work(place, u, op, project) ==
  [at |-> place, user |-> u, op |-> op, project |-> project, groups |-> users[u].groups,
   email |-> NoEmail, status |-> "open"]

FirstStatement(op) ==
  CASE op.kind \in {"list", "search"} -> "own"
    [] op.kind = "detail" -> "row"
    [] op.kind = "chunk" -> "chunk"

Begin(s, token, email, op) ==
  LET u == Principal(token) IN
  /\ ses[s] = Idle /\ Room
  /\ u # NoOne
  /\ RowFree(u)
  /\ email \in Emails[u] \cup {NoEmail}
  /\ Set(s, [Work(FirstStatement(op), u, op, op.project) EXCEPT !.email = email])
  /\ UNCHANGED <<docs, users, grants, ingests>>

(* plan_workflow, the job: the user's row is read, not locked.             *)
StartJob(s, u, project) ==
  /\ ses[s] = Idle /\ Room
  /\ users[u].known
  /\ Set(s, Work("own", u, [kind |-> "plan"], project))
  /\ UNCHANGED <<docs, users, grants, ingests>>

(* ProjectsRepository.get_for_owner, and the same test in list_for_project.*)
CheckOwner(s) ==
  /\ At(s, "own")
  /\ IF Owner[ses[s].project] # ses[s].user THEN Reply(s, "not_found")
     ELSE Step(s, CASE ses[s].op.kind = "list" -> "list"
                    [] ses[s].op.kind = "search" -> "and"
                    [] ses[s].op.kind = "plan" -> "ready")
  /\ UNCHANGED <<docs, users, grants, ingests>>

(* list_for_project: an empty page is as good as any.                      *)
List(s) ==
  /\ At(s, "list")
  /\ Reply(s, "ok")
  /\ UNCHANGED <<docs, users, grants, ingests>>

(* get_for_owner: the row by one statement, its chunks by a second.        *)
ReadRow(s) ==
  LET d == ses[s].op.doc IN
  /\ At(s, "row")
  /\ IF DocumentFor(docs, Owner, ses[s].groups, ses[s].user, d)
     THEN Step(s, "chunks") ELSE Reply(s, "not_found")
  /\ UNCHANGED <<docs, users, grants, ingests>>

ReadChunks(s) ==
  /\ At(s, "chunks")
  /\ Reply(s, "ok")
  /\ UNCHANGED <<docs, users, grants, ingests>>

(* get_chunk_for_owner for a request, the retriever's get_chunk for a tool,*)
(* which fails if there is none.                                           *)
ReadChunk(s) ==
  LET op == ses[s].op
      found == IF s \in Requests
               THEN {h \in Hits(docs) : /\ h.doc = op.doc /\ h.n = op.n
                                        /\ DocumentFor(docs, Owner, ses[s].groups, ses[s].user, h.doc)}
               ELSE ChunkFor(docs, ses[s].project, ses[s].groups, op.doc, op.n)
  IN
  /\ At(s, "chunk")
  /\ Reply(s, IF found = {} THEN "not_found" ELSE "ok")
  /\ UNCHANGED <<docs, users, grants, ingests>>

-----------------------------------------------------------------------------
(* A question in a scope.                                                  *)
Scoped(question, project, groups) ==
  [words |-> question.words, types |-> question.types, vendor |-> question.vendor,
   limit |-> question.limit, floor |-> question.floor, project |-> project, groups |-> groups]
Query(s) == Scoped(ses[s].op.question, ses[s].project, ses[s].groups)

Searches == {Scoped(q, sc.project, sc.groups) : q \in Questions, sc \in Scopes}

(* Two statements, each in its own snapshot.                               *)
AndStage(s) ==
  /\ At(s, "and")
  /\ \E rows \in Fetched(docs, Query(s), "and") :
       IF rows = <<>> THEN Step(s, "or") ELSE Reply(s, Judged(Query(s), "and", rows).status)
  /\ UNCHANGED <<docs, users, grants, ingests>>

OrStage(s) ==
  /\ At(s, "or")
  /\ \E rows \in Fetched(docs, Query(s), "or") : Reply(s, Judged(Query(s), "or", rows).status)
  /\ UNCHANGED <<docs, users, grants, ingests>>

(* lookup_policy_rules, and the rows of the documents that are cited.      *)
LookUpRules(s) ==
  /\ At(s, "rules")
  /\ Reply(s, "ok")
  /\ UNCHANGED <<docs, users, grants, ingests>>

(* invoke_tool for a registered tool: arguments that do not validate fail  *)
(* before the implementation runs.                                         *)
Invoke(s, call, valid) ==
  /\ At(s, "ready")
  /\ Set(s, [ses[s] EXCEPT !.op = call,
                           !.at = CASE ~valid -> "done"
                                    [] call.kind = "search" -> "and"
                                    [] call.kind = "chunk" -> "chunk"
                                    [] call.kind = "rules" -> "rules",
                           !.status = IF valid THEN "open" ELSE "error"])
  /\ UNCHANGED <<docs, users, grants, ingests>>

(* wait_for runs out, or the implementation raises.                        *)
ToolFails(s) ==
  /\ s \in Jobs /\ ses[s] # Idle
  /\ ses[s].at \in {"and", "or", "chunk", "rules"}
  /\ Reply(s, "error")
  /\ UNCHANGED <<docs, users, grants, ingests>>

(* The probe has its summary; a job without its project returns.           *)
ToolReturns(s) ==
  /\ s \in Jobs /\ At(s, "done")
  /\ Set(s, IF ses[s].op.kind = "plan" THEN Idle
            ELSE [ses[s] EXCEPT !.at = "ready", !.op = [kind |-> "plan"],
                                !.status = "open"])
  /\ UNCHANGED <<docs, users, grants, ingests>>

EndJob(s) ==
  /\ At(s, "ready")
  /\ Set(s, Idle)
  /\ UNCHANGED <<docs, users, grants, ingests>>

-----------------------------------------------------------------------------
(* Bug: a failed request leaves its transaction open.                      *)
FinishIfClean(s) ==
  /\ s \in Requests /\ At(s, "done")
  /\ ses[s].status \notin {"not_found", "error"}
  /\ users' = [users EXCEPT ![ses[s].user] = Upserted(ses[s].user, ses[s].email)]
  /\ Set(s, Idle)
  /\ UNCHANGED <<docs, grants, ingests>>

(* get_session: an error rolls the upsert back, a clean return commits it. *)
Finish(s) ==
  /\ s \in Requests /\ At(s, "done")
  /\ users' = IF ses[s].status \in {"not_found", "error"} THEN users
              ELSE [users EXCEPT ![ses[s].user] = Upserted(ses[s].user, ses[s].email)]
  /\ Set(s, Idle)
  /\ UNCHANGED <<docs, grants, ingests>>

(* The client goes away, the job is cancelled, or the process dies.        *)
CutOff(s) ==
  /\ ses[s] # Idle
  /\ Set(s, Idle)
  /\ UNCHANGED <<docs, users, grants, ingests>>

(* _load_existing_documents; the job holds the rows to the end.            *)
StartIngest(i, project) ==
  /\ ingests[i] = Idle /\ Room
  /\ \E r \in Releases[project] :
       ingests' = [ingests EXCEPT ![i] = [at |-> "loaded", release |-> r,
                                          existing |-> [d \in DOMAIN r |-> docs[d]]]]
  /\ UNCHANGED <<docs, users, ses, grants>>

Differs(new, loaded, f) ==
  \E column \in Columns : f \in column /\ \E g \in column : new[g] # loaded[g]

(* Bug: the old chunks are not deleted.                                    *)
WrittenAppending(loaded, new, now) ==
  IF loaded = Absent THEN new
  ELSE IF loaded.chunks = new.chunks THEN now
  ELSE [f \in DocumentFields |->
          IF f = "chunks" THEN now.chunks \o new.chunks
          ELSE IF Differs(new, loaded, f) THEN new[f] ELSE now[f]]

(* _ingest_document: a document whose content is that of the loaded row is *)
(* skipped, whatever else is new.  An UPDATE sets the columns that differ  *)
(* from the loaded row, in the row there is now; chunks are replaced.      *)
Written(loaded, new, now) ==
  IF loaded = Absent THEN new
  ELSE IF loaded.chunks = new.chunks THEN now
  ELSE [f \in DocumentFields |-> IF Differs(new, loaded, f) THEN new[f] ELSE now[f]]

(* The rows are locked from their UPDATE or INSERT on, so that a commit    *)
(* writes over what is committed.  An INSERT of a row that another         *)
(* ingestion has inserted fails; nothing ever removes a document.          *)
CommitIngest(i) ==
  LET job == ingests[i] IN
  /\ job # Idle
  /\ \A d \in DOMAIN job.release : job.existing[d] = Absent => docs[d] = Absent
  /\ docs' = [d \in DocIds |-> IF d \in DOMAIN job.release
                               THEN Written(job.existing[d], job.release[d], docs[d])
                               ELSE docs[d]]
  /\ ingests' = [ingests EXCEPT ![i] = Idle]
  /\ UNCHANGED <<users, ses, grants>>

(* It failed, was cancelled, or its process died.                          *)
AbandonIngest(i) ==
  /\ ingests[i] # Idle
  /\ ingests' = [ingests EXCEPT ![i] = Idle]
  /\ UNCHANGED <<docs, users, ses, grants>>

(* seed --grant-user: a user nobody has seen is an error.                  *)
GrantRead(o, u, g) ==
  /\ grants[o] = Idle /\ Room
  /\ users[u].known
  /\ grants' = [grants EXCEPT ![o] = [at |-> "read", user |-> u, group |-> g,
                                      groups |-> users[u].groups]]
  /\ UNCHANGED <<docs, users, ses, ingests>>

(* The commit writes the whole list, if the group was not in it.           *)
GrantWrite(o) ==
  LET grant == grants[o] IN
  /\ grant # Idle
  /\ grant.group \in grant.groups \/ RowFree(grant.user)
  /\ users' = IF grant.group \in grant.groups THEN users
              ELSE [users EXCEPT ![grant.user].groups = grant.groups \cup {grant.group}]
  /\ grants' = [grants EXCEPT ![o] = Idle]
  /\ UNCHANGED <<docs, ses, ingests>>

-----------------------------------------------------------------------------
Advance(s) ==
  \/ CheckOwner(s) \/ List(s) \/ ReadRow(s) \/ ReadChunks(s) \/ ReadChunk(s)
  \/ AndStage(s) \/ OrStage(s) \/ LookUpRules(s) \/ ToolReturns(s) \/ Finish(s)

Next ==
  \/ \E s \in Requests, token \in TokenClaims, email \in UNION {Emails[u] : u \in Users} \cup {NoEmail},
        op \in Operations : Begin(s, token, email, op)
  \/ \E s \in Jobs, u \in Users, p \in Projects : StartJob(s, u, p)
  \/ \E s \in Jobs, call \in ToolCalls, valid \in BOOLEAN : Invoke(s, call, valid)
  \/ \E s \in Sessions : Advance(s) \/ ToolFails(s) \/ EndJob(s) \/ CutOff(s)
  \/ \E i \in Ingesters : CommitIngest(i) \/ AbandonIngest(i)
                             \/ \E p \in Projects : StartIngest(i, p)
  \/ \E o \in Seeds, u \in Users, g \in Groups : GrantRead(o, u, g)
  \/ \E o \in Seeds : GrantWrite(o)

(* A request that can go on is run, and the database grants a row lock to  *)
(* those who wait for it in turn.                                          *)
Fairness ==
  /\ \A s \in Requests : WF_vars(Advance(s))
  /\ \A o \in Seeds : SF_vars(GrantWrite(o))

Spec == Init /\ [][Next]_vars /\ Fairness

-----------------------------------------------------------------------------
(* The variables keep their shape.  Ingestions that overlap may mix the    *)
(* columns of a document's editions, but leave it no others and no chunks  *)
(* but those of one edition.                                               *)
TypeOK ==
  /\ docs \in Databases
  /\ users \in [Users -> [known : BOOLEAN, email : {NoEmail} \cup UNION {Emails[u] : u \in Users},
                          groups : GroupSets]]
  /\ \A s \in Sessions : ses[s] # Idle =>
       ses[s].at \in {"own", "list", "row", "chunks", "chunk", "and", "or", "rules", "ready", "done"}
  /\ \A o \in Seeds : grants[o] # Idle => grants[o].user \in Users
  /\ \A i \in Ingesters : ingests[i] # Idle =>
       \A d \in DOMAIN ingests[i].existing : ingests[i].existing[d] # Absent => docs[d] # Absent

Blind(db) ==
  \A q \in Searches :
     LET visible == [d \in DocIds |-> IF d \in Listed(db, q.project, q.groups) THEN db[d] ELSE Absent]
     IN  /\ Answers(db, q) = Answers(visible, q)
         /\ Facts(db, q.project, q.groups) = Facts(visible, q.project, q.groups)
BlindDatabases == {db \in Databases : Blind(db)}

(* A document outside the caller's project or groups changes nothing about *)
(* a search: not what is shown, not its order, not its status and not the  *)
(* number of candidates; nor about what a planner is told of the project   *)
(* (retrieval/postgres.py:102, planner/grounding.py:82).                   *)
SearchBlind == docs \in BlindDatabases

Current(db) ==
  \A q \in Searches, mode \in {"and", "or"} :
    \A rows \in Fetched(db, q, mode) :
      LET shown == Judged(q, mode, rows).shown IN
      \A i \in DOMAIN shown, h \in Matches(db, q, mode) :
        \/ h.chunk = shown[i].chunk
        \/ h.chunk.text = shown[i].chunk.text /\ Len(rows) < 3 * q.limit
        => h.row.date <= shown[i].row.date
CurrentDatabases == {db \in Databases : Current(db)}

(* Of the copies of a clause a search shows the newest the caller may      *)
(* read: whatever the limit cuts off if they are under the same heading,   *)
(* and however they rank if nothing is cut off (retrieval/postgres.py:174).*)
NewestCopyShown == docs \in CurrentDatabases

Agreeing(db) ==
  \A sc \in Scopes :
     LET p == sc.project
         G == sc.groups
         listed == Listed(db, p, G)
         facts == Facts(db, p, G)
         byTool == {h \in Hits(db) : ChunkFor(db, p, G, h.doc, h.n) # {}}
         byRoute == {h \in Hits(db) : h.row.project = p /\ DocumentFor(db, Owner, G, Owner[p], h.doc)}
     IN  /\ byTool = byRoute
         /\ \A h \in byTool : h.doc \in listed
         /\ \A q \in Questions : \A a \in Answers(db, Scoped(q, p, G)) :
              \A i \in DOMAIN a.shown : a.shown[i] \in byTool
         /\ \A r \in Rules : r \in RulesFor(db, p, G, r.area, "low") => r.doc \in listed
         /\ \A area \in DOMAIN facts.areas :
              Cardinality(RulesFor(db, p, G, area, "low")) = facts.areas[area]
AgreeingDatabases == {db \in Databases : Agreeing(db)}

(* What one way of reading shows, the others show as well: a hit of a      *)
(* search can be fetched by the chunk tool and by the chunk route, its     *)
(* document is in the listing of its project, and so is that of a rule;    *)
(* and its tool finds the rules a planner is told of                       *)
(* (tools/builtin/get_document_chunk.py:3, retrieval/rules.py:82).         *)
SurfacesAgree == docs \in AgreeingDatabases

(* While ingestions do not overlap, every document is one of its editions  *)
(* with all its columns, the group it is shown to with the text it is      *)
(* shown with, although unchanged texts are skipped and only columns that  *)
(* differ are written (ingestion/pipeline.py:122).                         *)
EditionsWhole == \A d \in DocIds : docs[d] \in {Absent} \cup Editions(d)

(* No step takes a group or a known e-mail address away from a user        *)
(* (db/repositories/users.py:27, ingestion/seed.py:71).                    *)
GrantsKept ==
  [][\A u \in Users : /\ users[u].groups \subseteq users'[u].groups
                      /\ users[u].known => users'[u].known
                      /\ users[u].email # NoEmail => users'[u].email # NoEmail]_vars

(* A grant that found its user is written, whatever the requests of that   *)
(* user end in: none keeps the row for good (api/deps.py:28).              *)
GrantLands == \A o \in Seeds : []<>(grants[o] = Idle)
=============================================================================
