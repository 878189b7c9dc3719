------------------------------- MODULE Ingestion -------------------------------
(***************************************************************************)
(* ingest_dataset (northforge/ingestion/pipeline.py) into one project, by  *)
(* worker jobs and the seed command line, which may run at once and with   *)
(* different datasets.  The object store and PostgreSQL are written one    *)
(* after the other: an object is visible as soon as it is put, rows when   *)
(* the caller of the pipeline commits.                                     *)
(*                                                                         *)
(* Documents are numbered in the order of their external ids, in which     *)
(* load_dataset returns them.  The content hash is the content.  A content *)
(* is known by the headings of its chunks; chunk i is its i-th.            *)
(***************************************************************************)
EXTENDS Integers, Sequences, FiniteSets

CONSTANTS
    NumDocs,        \* documents that any dataset may contain
    Contents,       \* document texts
    HeadingsOf,     \* content -> the headings of its chunks, in order
    Rules,          \* policy rules
    PolicyOf,       \* rule -> the policy document that states it
    Datasets,       \* [content : document -> text or NoText, section : rule -> heading]
    NoText,         \* the dataset or the project lacks the document
    Jobs            \* ingestion jobs and seed commands

Docs == 1..NumDocs
Headings == UNION {{HeadingsOf[c][i] : i \in DOMAIN HeadingsOf[c]} : c \in Contents}
Sections == Headings \cup UNION {{ds.section[r] : r \in Rules} : ds \in Datasets}

ASSUME IngestionAssumption ==
    /\ NumDocs \in Nat
    /\ NoText \notin Contents
    /\ HeadingsOf \in [Contents -> Seq(Headings)]
    /\ PolicyOf \in [Rules -> Docs]
    /\ Datasets \subseteq [content : [Docs -> Contents \cup {NoText}],
                           section : [Rules -> Sections]]

VARIABLES
    documents,      \* content hash of each document row, or NoText without a row
    chunks,         \* committed rows of document_chunks
    rules,          \* chunk_id of each policy rule's row, or NoChunk without a row
    stored,         \* what the object store holds under each document's key
    job             \* what each job has read, put and not yet committed

vars == <<documents, chunks, rules, stored, job>>

NoChunk == 0
Chunk == [of : Contents, number : Nat \ {0}]
ChunksOf(c) == {[of |-> c, number |-> i] : i \in DOMAIN HeadingsOf[c]}

\* Chunk numbers by heading; NoChunk for a heading that no chunk has.
HeadingMap == [Sections -> Nat]
NoHeadings == [h \in Sections |-> NoChunk]

FirstChunks(c) ==
    [h \in Sections |->
        LET under == {i \in DOMAIN HeadingsOf[c] : HeadingsOf[c][i] = h}
        IN  IF under = {} THEN NoChunk ELSE CHOOSE i \in under : \A k \in under : i <= k]

\* _heading_map_for reads the rows without an ORDER BY: with a heading that occurs
\* twice, any of its chunks may come first.
HeadingMapsFor(rows) ==
    {map \in [Sections -> {ch.number : ch \in rows} \cup {NoChunk}] :
        \A h \in Sections :
            LET under == {ch.number : ch \in {ch \in rows : HeadingsOf[ch.of][ch.number] = h}}
            IN  IF under = {} THEN map[h] = NoChunk ELSE map[h] \in under}

Idle == [at |-> "idle"]
Fresh(ds) ==
    [at |-> "documents", dataset |-> ds, existing |-> documents, next |-> 1,
     wrote |-> {}, deleted |-> [d \in Docs |-> {}],
     heads |-> [d \in Docs |-> NoHeadings],
     read |-> [r \in Rules |-> NoChunk], cites |-> [r \in Rules |-> NoChunk],
     alone |-> \A k \in Jobs : job[k] = Idle]

Running ==
    [at : {"documents", "put", "rules", "commit"}, dataset : Datasets,
     existing : [Docs -> Contents \cup {NoText}], next : 1..(NumDocs + 1),
     wrote : SUBSET Docs, deleted : [Docs -> SUBSET Chunk],
     heads : [Docs -> HeadingMap], read : [Rules -> Nat], cites : [Rules -> Nat],
     alone : BOOLEAN]

TypeOK ==
    /\ documents \in [Docs -> Contents \cup {NoText}]
    /\ chunks \in [Docs -> SUBSET Chunk]
    /\ rules \in [Rules -> Nat]
    /\ stored \in [Docs -> Contents \cup {NoText}]
    /\ job \in [Jobs -> {Idle} \cup Running]
    /\ \A j \in Jobs :
         /\ job[j].at = "put" =>
              job[j].next \in Docs /\ job[j].dataset.content[job[j].next] # NoText
         /\ job[j] # Idle =>
              \A d \in job[j].wrote : d < job[j].next /\ job[j].dataset.content[d] # NoText

Init ==
    /\ documents = [d \in Docs |-> NoText]
    /\ chunks = [d \in Docs |-> {}]
    /\ rules = [r \in Rules |-> NoChunk]
    /\ stored = [d \in Docs |-> NoText]
    /\ job = [j \in Jobs |-> Idle]

\* The document the job is at and its content in the job's dataset.
Doc(j) == job[j].next
Content(j) == job[j].dataset.content[Doc(j)]
AtDocument(j) == job[j].at = "documents" /\ Doc(j) \in Docs

\* Row locks: what another job has written and not committed.
DocumentFree(j, d) == \A k \in Jobs \ {j} : job[k] # Idle => d \notin job[k].wrote
RuleFree(j, r) == \A k \in Jobs \ {j} : job[k] # Idle => job[k].cites[r] = NoChunk

---------------------------------------------------------------------------
\* load_dataset and _load_existing_documents.
Start(j, ds) ==
    /\ job[j] = Idle
    /\ job' = [k \in Jobs |->
                 IF k = j THEN Fresh(ds)
                 ELSE IF job[k] = Idle THEN Idle ELSE [job[k] EXCEPT !.alone = FALSE]]
    /\ UNCHANGED <<documents, chunks, rules, stored>>

\* The dataset has no such document; a row it has from another dataset stays.
PassOver(j) ==
    /\ AtDocument(j)
    /\ Content(j) = NoText
    /\ job' = [job EXCEPT ![j].next = @ + 1]
    /\ UNCHANGED <<documents, chunks, rules, stored>>

\* Bug: a skipped document contributes no headings.
SkipWithoutHeadings(j) ==
    /\ AtDocument(j)
    /\ Content(j) # NoText /\ job[j].existing[Doc(j)] = Content(j)
    /\ job' = [job EXCEPT ![j].next = @ + 1]
    /\ UNCHANGED <<documents, chunks, rules, stored>>

\* Same hash: nothing is written, the headings come from the rows there are now.
Skip(j) ==
    /\ AtDocument(j)
    /\ Content(j) # NoText /\ job[j].existing[Doc(j)] = Content(j)
    /\ \E map \in HeadingMapsFor(chunks[Doc(j)]) :
         job' = [job EXCEPT ![j].next = @ + 1, ![j].heads[Doc(j)] = map]
    /\ UNCHANGED <<documents, chunks, rules, stored>>

\* Bug: a document the dataset lacks is taken for a changed one.
PutMissing(j) ==
    /\ AtDocument(j)
    /\ job[j].existing[Doc(j)] # Content(j)
    /\ stored' = [stored EXCEPT ![Doc(j)] = Content(j)]
    /\ job' = [job EXCEPT ![j].at = "put"]
    /\ UNCHANGED <<documents, chunks, rules>>

\* A new hash: the object is written first, outside the transaction.
Put(j) ==
    /\ AtDocument(j)
    /\ Content(j) # NoText /\ job[j].existing[Doc(j)] # Content(j)
    /\ stored' = [stored EXCEPT ![Doc(j)] = Content(j)]
    /\ job' = [job EXCEPT ![j].at = "put"]
    /\ UNCHANGED <<documents, chunks, rules>>

\* Bug: the chunks are deleted before the UPDATE has locked the document's row.
ReplaceUnlocked(j) ==
    LET d == Doc(j) IN
    /\ job[j].at = "put"
    /\ job[j].existing[d] = NoText => DocumentFree(j, d) /\ documents[d] = NoText
    /\ job' = [job EXCEPT ![j] =
                 [job[j] EXCEPT !.at = "documents", !.next = @ + 1, !.wrote = @ \cup {d},
                                !.deleted[d] = chunks[d],
                                !.heads[d] = FirstChunks(Content(j))]]
    /\ UNCHANGED <<documents, chunks, rules, stored>>

\* UPDATE (flushed before the DELETE) or INSERT of the row, DELETE of its chunks and
\* INSERT of the new ones.  The row lock is waited for; a row that another job inserted
\* meanwhile fails the INSERT, UNIQUE (project_id, external_id).
Replace(j) ==
    LET d == Doc(j) IN
    /\ job[j].at = "put"
    /\ DocumentFree(j, d)
    /\ job[j].existing[d] = NoText => documents[d] = NoText
    /\ job' = [job EXCEPT ![j] =
                 [job[j] EXCEPT !.at = "documents", !.next = @ + 1, !.wrote = @ \cup {d},
                                !.deleted[d] = chunks[d],
                                !.heads[d] = FirstChunks(Content(j))]]
    /\ UNCHANGED <<documents, chunks, rules, stored>>

\* _ingest_policy_rules: the rules there are.
ReadRules(j) ==
    /\ job[j].at = "documents" /\ Doc(j) > NumDocs
    /\ job' = [job EXCEPT ![j].at = "rules", ![j].read = rules]
    /\ UNCHANGED <<documents, chunks, rules, stored>>

\* The chunk of the rule's section, NoChunk when the document or the section is missing.
Resolved(j, r) == job[j].heads[PolicyOf[r]][job[j].dataset.section[r]]

\* INSERT or UPDATE of each rule that resolves; an UPDATE that changes nothing is not sent,
\* and an INSERT fails on a row another job has inserted, UNIQUE (project_id, rule_id).
WriteRules(j) ==
    LET cited(r) == IF Resolved(j, r) # job[j].read[r] THEN Resolved(j, r) ELSE NoChunk IN
    /\ job[j].at = "rules"
    /\ \A r \in Rules : cited(r) # NoChunk =>
         /\ RuleFree(j, r)
         /\ job[j].read[r] = NoChunk => rules[r] = NoChunk
    /\ job' = [job EXCEPT ![j].at = "commit", ![j].cites = [r \in Rules |-> cited(r)]]
    /\ UNCHANGED <<documents, chunks, rules, stored>>

Commit(j) ==
    LET wrote == job[j].wrote
        new == job[j].dataset.content IN
    /\ job[j].at = "commit"
    /\ documents' = [d \in Docs |-> IF d \in wrote THEN new[d] ELSE documents[d]]
    /\ chunks' = [d \in Docs |-> IF d \in wrote
                                 THEN (chunks[d] \ job[j].deleted[d]) \cup ChunksOf(new[d])
                                 ELSE chunks[d]]
    /\ rules' = [r \in Rules |->
                   IF job[j].cites[r] # NoChunk THEN job[j].cites[r] ELSE rules[r]]
    /\ job' = [job EXCEPT ![j] = Idle]
    /\ UNCHANGED stored

\* A constraint or the store failed, or the process died: the rows are as before, the
\* objects are not.
Rollback(j) ==
    /\ job[j] # Idle
    /\ job' = [job EXCEPT ![j] = Idle]
    /\ UNCHANGED <<documents, chunks, rules, stored>>

Next ==
    \E j \in Jobs :
        \/ \E ds \in Datasets : Start(j, ds)
        \/ PassOver(j) \/ Skip(j) \/ Put(j) \/ Replace(j)
        \/ ReadRules(j) \/ WriteRules(j) \/ Commit(j) \/ Rollback(j)

Spec == Init /\ [][Next]_vars

---------------------------------------------------------------------------
\* Properties.

\* Whatever jobs overlap, fail or die: the chunks of a document are the chunks of the content
\* its row is for, none missing, none left over from another dataset.
ChunksMatchDocument ==
    \A d \in Docs :
        chunks[d] = IF documents[d] = NoText THEN {} ELSE ChunksOf(documents[d])

\* The chunks of a content under a heading.
Under(c, h) == {i \in DOMAIN HeadingsOf[c] : HeadingsOf[c][i] = h}

\* A job that ran alone has ingested its dataset: every document is the dataset's, and every
\* rule whose section exists cites a chunk under that section, although unchanged documents
\* were skipped and changed ones have new chunks.  It is the first one if the job wrote the
\* document; of a document that was skipped it may be a later one, as its chunks are read
\* back in no order (_heading_map_for), whatever _duplicate_heading_warning says.
SoloJobIngests ==
    [][\A j \in Jobs : Commit(j) /\ job[j].alone =>
         /\ \A d \in Docs : job[j].dataset.content[d] # NoText =>
              documents'[d] = job[j].dataset.content[d]
         /\ \A r \in Rules :
              LET c == job[j].dataset.content[PolicyOf[r]]
                  under == Under(c, job[j].dataset.section[r])
              IN  c # NoText /\ under # {} =>
                    /\ rules'[r] \in under
                    /\ PolicyOf[r] \in job[j].wrote => \A i \in under : rules'[r] <= i]_vars

\* pipeline.py's docstring: what is skipped "hashes the same as what is already stored".
SkippedIsStored ==
    [][\A j \in Jobs : Skip(j) => stored[Doc(j)] = Content(j)]_vars

=============================================================================
