--------------------------- MODULE Ingestion_proofs ---------------------------
(***************************************************************************)
(* Theorems about Ingestion, for any datasets and any number of jobs.      *)
(***************************************************************************)
EXTENDS Ingestion, WellFoundedInduction, TLAPS

---------------------------------------------------------------------------
\* The operators on contents.

\* A set of chunk numbers has a least one.
LEMMA LeastNumber ==
    ASSUME NEW T \in SUBSET Nat, T # {}
    PROVE  \E i \in T : \A k \in T : i <= k
<1> DEFINE Less == {p \in Nat \X Nat : p[1] < p[2]}
<1>1. OpToRel(<, Nat) = Less
  BY Zenon DEF OpToRel
<1>2. IsWellFoundedOn(Less, Nat)
  BY <1>1, NatLessThanWellFounded, Zenon
<1>3. PICK i \in T : \A k \in T : <<k, i>> \notin Less
  <2> HIDE DEF Less
  <2> QED BY <1>2, WFMin, Zenon
<1>4. ASSUME NEW k \in T
      PROVE  i <= k
  <2>1. i \in Nat /\ k \in Nat
    OBVIOUS
  <2>2. k < i => <<k, i>> \in Less
    BY <2>1
  <2> HIDE DEF Less
  <2> QED BY <1>3, <2>1, <2>2
<1> QED BY <1>4

LEMMA ChunksOfType ==
    ASSUME NEW c \in Contents
    PROVE  ChunksOf(c) \in SUBSET Chunk
BY IngestionAssumption DEF ChunksOf, Chunk

LEMMA FirstChunksType ==
    ASSUME NEW c \in Contents
    PROVE  FirstChunks(c) \in HeadingMap
<1> SUFFICES ASSUME NEW h \in Sections
             PROVE  FirstChunks(c)[h] \in Nat
  BY DEF FirstChunks, HeadingMap
<1> DEFINE under == {i \in DOMAIN HeadingsOf[c] : HeadingsOf[c][i] = h}
<1>1. under \in SUBSET Nat
  BY IngestionAssumption
<1>2. FirstChunks(c)[h] = IF under = {} THEN NoChunk
                          ELSE CHOOSE i \in under : \A k \in under : i <= k
  BY DEF FirstChunks
<1>3. CASE under = {}
  BY <1>2, <1>3 DEF NoChunk
<1>4. CASE under # {}
  <2>1. \E i \in under : \A k \in under : i <= k
    BY <1>1, <1>4, LeastNumber
  <2> HIDE DEF under
  <2> QED BY <1>1, <1>2, <1>4, <2>1
<1> QED BY <1>3, <1>4

LEMMA HeadingMapsType ==
    ASSUME NEW rows \in SUBSET Chunk, NEW map \in HeadingMapsFor(rows)
    PROVE  map \in HeadingMap
BY DEF HeadingMapsFor, HeadingMap, Chunk, NoChunk

---------------------------------------------------------------------------
\* Type correctness.

\* What a job's record promises besides its fields' types.
Sane(x) ==
    /\ x.at = "put" => x.next \in Docs /\ x.dataset.content[x.next] # NoText
    /\ x # Idle => \A d \in x.wrote : d < x.next /\ x.dataset.content[d] # NoText

JobsOK == job \in [Jobs -> {Idle} \cup Running] /\ \A j \in Jobs : Sane(job[j])

LEMMA InitTypeOK == Init => TypeOK
BY DEF Init, TypeOK, NoChunk, Idle

\* One job's record changes, to one that is sane.
LEMMA JobChanges ==
    ASSUME JobsOK, NEW j \in Jobs, NEW x \in {Idle} \cup Running, Sane(x),
           job' = [job EXCEPT ![j] = x]
    PROVE  JobsOK'
BY DEF JobsOK, Sane

LEMMA IsRunning ==
    ASSUME TypeOK, NEW j \in Jobs, job[j].at # "idle"
    PROVE  job[j] \in Running /\ job[j] # Idle /\ Sane(job[j])
BY DEF TypeOK, Idle, Sane

\* The job goes on to its next document.
LEMMA NextDocument ==
    ASSUME TypeOK, NEW j \in Jobs, job[j].at \in {"documents", "put"}, Doc(j) \in Docs,
           NEW wrote \in SUBSET Docs, wrote \subseteq job[j].wrote \cup {Doc(j)},
           Doc(j) \in wrote => Content(j) # NoText,
           NEW deleted \in [Docs -> SUBSET Chunk], NEW heads \in [Docs -> HeadingMap],
           NEW x, x = [job[j] EXCEPT !.at = "documents", !.next = @ + 1, !.wrote = wrote,
                                     !.deleted = deleted, !.heads = heads]
    PROVE  x \in Running /\ Sane(x)
<1>1. job[j] \in Running /\ Sane(job[j]) /\ job[j] # Idle
  BY IsRunning
<1>2. x \in Running
  <2>1. x.next \in 1..(NumDocs + 1)
    BY <1>1, IngestionAssumption DEF Running, Doc, Docs
  <2> QED BY <1>1, <2>1 DEF Running
<1>3. ASSUME NEW d \in x.wrote
      PROVE  d < x.next /\ x.dataset.content[d] # NoText
  <2>1. x.next = job[j].next + 1 /\ x.wrote = wrote /\ x.dataset = job[j].dataset
    BY <1>1 DEF Running
  <2>2. CASE d = Doc(j)
    BY <2>1, <2>2 DEF Doc, Content, Docs
  <2>3. CASE d \in job[j].wrote
    <3>1. d < job[j].next /\ job[j].dataset.content[d] # NoText
      BY <1>1, <2>3 DEF Sane
    <3> QED BY <1>1, <2>1, <3>1, IngestionAssumption DEF Docs, Running
  <2> QED BY <2>1, <2>2, <2>3
<1>4. x.at # "put"
  BY <1>1 DEF Running
<1> QED BY <1>2, <1>3, <1>4 DEF Sane

LEMMA StepTypeOK == TypeOK /\ [Next]_vars => TypeOK'
<1> SUFFICES ASSUME TypeOK, [Next]_vars PROVE TypeOK'
  OBVIOUS
<1> JobsOK
  BY DEF TypeOK, JobsOK, Sane
<1>1. ASSUME JobsOK',
             documents' \in [Docs -> Contents \cup {NoText}],
             chunks' \in [Docs -> SUBSET Chunk],
             rules' \in [Rules -> Nat],
             stored' \in [Docs -> Contents \cup {NoText}]
      PROVE  TypeOK'
  BY <1>1 DEF TypeOK, JobsOK, Sane
<1>2. ASSUME UNCHANGED <<documents, chunks, rules, stored>>, JobsOK'
      PROVE  TypeOK'
  BY <1>1, <1>2 DEF TypeOK
<1>3. ASSUME NEW j \in Jobs, NEW ds \in Datasets, Start(j, ds)
      PROVE  TypeOK'
  <2>1. Fresh(ds) \in Running /\ Sane(Fresh(ds))
    BY IngestionAssumption DEF Fresh, Running, Sane, TypeOK, HeadingMap, NoHeadings, NoChunk
  <2>2. ASSUME NEW k \in Jobs, job[k] # Idle
        PROVE  LET x == [job[k] EXCEPT !.alone = FALSE] IN x \in Running /\ Sane(x)
    <3>1. job[k] \in Running /\ Sane(job[k])
      BY <2>2 DEF JobsOK
    <3>2. [job[k] EXCEPT !.alone = FALSE] \in Running
      BY <3>1 DEF Running
    <3> QED BY <2>2, <3>1, <3>2 DEF Sane, Running
  <2>3. JobsOK'
    <3>1. job' \in [Jobs -> {Idle} \cup Running]
      BY <1>3, <2>1, <2>2 DEF Start, JobsOK
    <3>2. ASSUME NEW k \in Jobs
          PROVE  Sane(job'[k])
      <4>1. CASE k = j
        BY <1>3, <2>1, <4>1 DEF Start
      <4>2. CASE k # j /\ job[k] = Idle
        BY <1>3, <4>2 DEF Start, JobsOK
      <4>3. CASE k # j /\ job[k] # Idle
        BY <1>3, <2>2, <4>3 DEF Start
      <4> QED BY <4>1, <4>2, <4>3
    <3> QED BY <3>1, <3>2 DEF JobsOK, Sane
  <2> QED BY <1>2, <1>3, <2>3 DEF Start
<1>4. ASSUME NEW j \in Jobs, PassOver(j)
      PROVE  TypeOK'
  <2> DEFINE x == [job[j] EXCEPT !.next = @ + 1]
  <2>1. /\ job[j] \in Running /\ Sane(job[j]) /\ job[j] # Idle
        /\ job[j].at = "documents" /\ Doc(j) \in Docs
    BY <1>4, IsRunning DEF PassOver, AtDocument
  <2>2. x = [job[j] EXCEPT !.at = "documents", !.next = @ + 1, !.wrote = job[j].wrote,
                           !.deleted = job[j].deleted, !.heads = job[j].heads]
    BY <2>1 DEF Running
  <2>3. Doc(j) \notin job[j].wrote
    <3>1. Doc(j) = job[j].next /\ Doc(j) \in Int
      BY <2>1 DEF Doc, Docs
    <3> QED BY <2>1, <3>1 DEF Sane
  <2>4. /\ job[j].wrote \in SUBSET Docs
        /\ job[j].deleted \in [Docs -> SUBSET Chunk]
        /\ job[j].heads \in [Docs -> HeadingMap]
    BY <2>1 DEF Running
  <2>5. x \in Running /\ Sane(x)
    <3> HIDE DEF x
    <3> QED BY <2>1, <2>2, <2>3, <2>4, NextDocument
  <2>6. job' = [job EXCEPT ![j] = x]
    BY <1>4 DEF PassOver
  <2>7. JobsOK'
    <3> HIDE DEF x
    <3> QED BY <2>5, <2>6, JobChanges
  <2> QED BY <1>2, <1>4, <2>7 DEF PassOver
<1>5. ASSUME NEW j \in Jobs, Skip(j)
      PROVE  TypeOK'
  <2>1. PICK map \in HeadingMapsFor(chunks[Doc(j)]) :
          job' = [job EXCEPT ![j].next = @ + 1, ![j].heads[Doc(j)] = map]
    BY <1>5 DEF Skip
  <2> DEFINE x == [job[j] EXCEPT !.next = @ + 1, !.heads[Doc(j)] = map]
             heads == [job[j].heads EXCEPT ![Doc(j)] = map]
  <2>2. job[j] \in Running /\ Sane(job[j]) /\ job[j] # Idle
    BY <1>5, IsRunning DEF Skip, AtDocument
  <2>3. map \in HeadingMap
    BY <1>5, <2>1, HeadingMapsType DEF TypeOK, Skip, AtDocument
  <2>4. heads \in [Docs -> HeadingMap]
    BY <1>5, <2>2, <2>3 DEF Running
  <2>5. x = [job[j] EXCEPT !.at = "documents", !.next = @ + 1, !.wrote = job[j].wrote,
                           !.deleted = job[j].deleted, !.heads = heads]
    BY <1>5, <2>2 DEF Skip, AtDocument, Running
  <2>6. x \in Running /\ Sane(x)
    <3> HIDE DEF heads, x
    <3> QED BY <1>5, <2>2, <2>4, <2>5, NextDocument DEF Skip, AtDocument, Running
  <2>7. job' = [job EXCEPT ![j] = x]
    BY <2>1
  <2> QED BY <1>2, <1>5, <2>6, <2>7, JobChanges DEF Skip
<1>6. ASSUME NEW j \in Jobs, Put(j)
      PROVE  TypeOK'
  <2> DEFINE x == [job[j] EXCEPT !.at = "put"]
  <2>1. /\ job[j] \in Running /\ Sane(job[j]) /\ job[j] # Idle
        /\ Doc(j) \in Docs /\ Content(j) # NoText
    BY <1>6, IsRunning DEF Put, AtDocument
  <2>2. x \in Running
    BY <2>1 DEF Running
  <2>3. Sane(x)
    <3>1. /\ x.at = "put" /\ x.next = job[j].next /\ x.wrote = job[j].wrote
          /\ x.dataset = job[j].dataset
      BY <2>1 DEF Running
    <3> HIDE DEF x
    <3> QED BY <2>1, <3>1 DEF Sane, Content, Doc
  <2>4. job' = [job EXCEPT ![j] = x]
    BY <1>6 DEF Put
  <2>5. JobsOK'
    <3> HIDE DEF x
    <3> QED BY <2>2, <2>3, <2>4, JobChanges
  <2>6. Content(j) \in Contents \cup {NoText}
    BY <2>1, IngestionAssumption DEF Content, Running
  <2>7. stored' \in [Docs -> Contents \cup {NoText}]
    BY <1>6, <2>6 DEF Put, TypeOK
  <2> QED BY <1>1, <1>6, <2>5, <2>7 DEF Put, TypeOK
<1>7. ASSUME NEW j \in Jobs, Replace(j)
      PROVE  TypeOK'
  <2> DEFINE d == Doc(j)
             wrote == job[j].wrote \cup {d}
             deleted == [job[j].deleted EXCEPT ![d] = chunks[d]]
             heads == [job[j].heads EXCEPT ![d] = FirstChunks(Content(j))]
             x == [job[j] EXCEPT !.at = "documents", !.next = @ + 1, !.wrote = @ \cup {d},
                                 !.deleted[d] = chunks[d],
                                 !.heads[d] = FirstChunks(Content(j))]
  <2>1. job[j] \in Running /\ Sane(job[j]) /\ job[j].at = "put"
    BY <1>7, IsRunning DEF Replace
  <2>2. d \in Docs /\ Content(j) # NoText
    BY <2>1 DEF Sane, Doc, Content
  <2>3. Content(j) \in Contents
    BY <2>1, <2>2, IngestionAssumption DEF Content, Running
  <2>4. /\ wrote \in SUBSET Docs
        /\ deleted \in [Docs -> SUBSET Chunk]
        /\ heads \in [Docs -> HeadingMap]
    <3>1. FirstChunks(Content(j)) \in HeadingMap
      BY <2>3, FirstChunksType
    <3> QED BY <2>1, <2>2, <3>1 DEF Running, TypeOK
  <2>5. x = [job[j] EXCEPT !.at = "documents", !.next = @ + 1, !.wrote = wrote,
                           !.deleted = deleted, !.heads = heads]
    BY <2>1 DEF Running
  <2>6. x \in Running /\ Sane(x)
    <3>1. wrote \subseteq job[j].wrote \cup {Doc(j)}
      OBVIOUS
    <3> HIDE DEF wrote, deleted, heads, x
    <3> QED BY <2>1, <2>2, <2>4, <2>5, <3>1, NextDocument
  <2>7. job' = [job EXCEPT ![j] = x]
    BY <1>7 DEF Replace
  <2>8. JobsOK'
    <3> HIDE DEF x
    <3> QED BY <2>6, <2>7, JobChanges
  <2> QED BY <1>2, <1>7, <2>8 DEF Replace
<1>8. ASSUME NEW j \in Jobs, ReadRules(j)
      PROVE  TypeOK'
  <2> DEFINE x == [job[j] EXCEPT !.at = "rules", !.read = rules]
  <2>1. job[j] \in Running /\ Sane(job[j]) /\ job[j] # Idle
    BY <1>8, IsRunning DEF ReadRules
  <2>2. x \in Running /\ Sane(x)
    BY <2>1 DEF Running, Sane, TypeOK
  <2>3. job' = [job EXCEPT ![j] = x]
    BY <1>8 DEF ReadRules
  <2>4. JobsOK'
    <3> HIDE DEF x
    <3> QED BY <2>2, <2>3, JobChanges
  <2> QED BY <1>2, <1>8, <2>4 DEF ReadRules
<1>9. ASSUME NEW j \in Jobs, WriteRules(j)
      PROVE  TypeOK'
  <2> DEFINE cited(r) == IF Resolved(j, r) # job[j].read[r] THEN Resolved(j, r) ELSE NoChunk
             cites == [r \in Rules |-> cited(r)]
             x == [job[j] EXCEPT !.at = "commit", !.cites = cites]
  <2>1. job[j] \in Running /\ Sane(job[j]) /\ job[j] # Idle
    BY <1>9, IsRunning DEF WriteRules
  <2>2. cites \in [Rules -> Nat]
    <3> SUFFICES ASSUME NEW r \in Rules PROVE cited(r) \in Nat
      OBVIOUS
    <3>1. PolicyOf[r] \in Docs /\ job[j].dataset.section[r] \in Sections
      BY <2>1, IngestionAssumption DEF Running
    <3>2. Resolved(j, r) \in Nat
      BY <2>1, <3>1 DEF Resolved, Running, HeadingMap
    <3> QED BY <3>2 DEF NoChunk
  <2>3. x \in Running /\ Sane(x)
    <3> HIDE DEF cites
    <3> QED BY <2>1, <2>2 DEF Running, Sane
  <2>4. job' = [job EXCEPT ![j] = x]
    BY <1>9 DEF WriteRules
  <2>5. JobsOK'
    <3> HIDE DEF x
    <3> QED BY <2>3, <2>4, JobChanges
  <2> QED BY <1>2, <1>9, <2>5 DEF WriteRules
<1>10. ASSUME NEW j \in Jobs, Commit(j)
       PROVE  TypeOK'
  <2>1. job[j] \in Running /\ Sane(job[j]) /\ job[j] # Idle
    BY <1>10, IsRunning DEF Commit
  <2>2. ASSUME NEW d \in job[j].wrote
        PROVE  d \in Docs /\ job[j].dataset.content[d] \in Contents
    BY <2>1, <2>2, IngestionAssumption DEF Sane, Running
  <2>3. documents' \in [Docs -> Contents \cup {NoText}]
    BY <1>10, <2>2 DEF Commit, TypeOK
  <2>4. chunks' \in [Docs -> SUBSET Chunk]
    BY <1>10, <2>2, ChunksOfType DEF Commit, TypeOK
  <2>5. rules' \in [Rules -> Nat]
    BY <1>10, <2>1 DEF Commit, TypeOK, Running
  <2>6. JobsOK'
    BY <1>10, JobChanges DEF Commit, Sane, Idle
  <2> QED BY <1>1, <1>10, <2>3, <2>4, <2>5, <2>6 DEF Commit, TypeOK
<1>11. ASSUME NEW j \in Jobs, Rollback(j)
       PROVE  TypeOK'
  <2>1. JobsOK'
    BY <1>11, JobChanges DEF Rollback, Sane, Idle
  <2> QED BY <1>2, <1>11, <2>1 DEF Rollback
<1>12. CASE UNCHANGED vars
  BY <1>12 DEF vars, TypeOK
<1> QED
  BY <1>3, <1>4, <1>5, <1>6, <1>7, <1>8, <1>9, <1>10, <1>11, <1>12 DEF Next

\* Every variable keeps its type, a job that has put an object is at a document of its
\* dataset, and it has written only documents it has passed.
THEOREM TypeCorrect == Spec => []TypeOK
<1> QED BY InitTypeOK, StepTypeOK, PTL DEF Spec

---------------------------------------------------------------------------
\* The chunks of a document are those of its content.

\* The row locks: no two jobs have written the same document ...
OneWriter ==
    \A j, k \in Jobs : j # k /\ job[j] # Idle /\ job[k] # Idle =>
        job[j].wrote \cap job[k].wrote = {}

\* ... so the chunks a job has deleted are all the document still has.
DeletedAll ==
    \A j \in Jobs : job[j] # Idle => \A d \in job[j].wrote : job[j].deleted[d] = chunks[d]

IInv == TypeOK /\ ChunksMatchDocument /\ OneWriter /\ DeletedAll

LEMMA InitIInv == Init => IInv
BY InitTypeOK DEF Init, IInv, ChunksMatchDocument, OneWriter, DeletedAll

\* A step that writes no document and no row.
LEMMA NothingWritten ==
    ASSUME IInv, TypeOK', UNCHANGED <<documents, chunks>>,
           \A k \in Jobs : job'[k] # Idle =>
               \/ job'[k].wrote = {}
               \/ /\ job[k] # Idle
                  /\ job'[k].wrote = job[k].wrote
                  /\ job'[k].deleted = job[k].deleted
    PROVE  IInv'
<1>1. ChunksMatchDocument'
  BY DEF IInv, ChunksMatchDocument
<1>2. OneWriter'
  BY DEF IInv, OneWriter
<1>3. DeletedAll'
  BY DEF IInv, DeletedAll
<1> QED BY <1>1, <1>2, <1>3 DEF IInv

\* The same for a step that only changes one job's record.
LEMMA OneJobReads ==
    ASSUME IInv, TypeOK', UNCHANGED <<documents, chunks>>, NEW j \in Jobs, NEW x,
           job' = [job EXCEPT ![j] = x], job[j] # Idle, x.wrote = job[j].wrote,
           x.deleted = job[j].deleted
    PROVE  IInv'
<1>1. ASSUME NEW k \in Jobs, job'[k] # Idle
      PROVE  /\ job[k] # Idle
             /\ job'[k].wrote = job[k].wrote
             /\ job'[k].deleted = job[k].deleted
  BY <1>1 DEF IInv, TypeOK
<1> QED BY <1>1, NothingWritten

LEMMA StepIInv == IInv /\ [Next]_vars => IInv'
<1> SUFFICES ASSUME IInv, [Next]_vars PROVE IInv'
  OBVIOUS
<1> TypeOK /\ TypeOK'
  BY StepTypeOK DEF IInv
<1>1. ASSUME NEW j \in Jobs, NEW ds \in Datasets, Start(j, ds)
      PROVE  IInv'
  <2>1. ASSUME NEW k \in Jobs, job'[k] # Idle
        PROVE  \/ job'[k].wrote = {}
               \/ /\ job[k] # Idle
                  /\ job'[k].wrote = job[k].wrote
                  /\ job'[k].deleted = job[k].deleted
    <3>1. CASE k = j
      BY <1>1, <3>1 DEF Start, Fresh
    <3>2. CASE k # j
      <4>1. job[k] # Idle /\ job'[k] = [job[k] EXCEPT !.alone = FALSE]
        BY <1>1, <2>1, <3>2 DEF Start
      <4>2. job[k] \in Running
        BY <4>1 DEF TypeOK
      <4> QED BY <4>1, <4>2 DEF Running
    <3> QED BY <3>1, <3>2
  <2>2. UNCHANGED <<documents, chunks>>
    BY <1>1 DEF Start
  <2> QED BY <2>1, <2>2, NothingWritten
<1>2. ASSUME NEW j \in Jobs, PassOver(j)
      PROVE  IInv'
  <2> DEFINE x == [job[j] EXCEPT !.next = @ + 1]
  <2>1. job[j] \in Running /\ job[j] # Idle
    BY <1>2, IsRunning DEF PassOver, AtDocument
  <2>2. x.wrote = job[j].wrote /\ x.deleted = job[j].deleted
    BY <2>1 DEF Running
  <2>3. job' = [job EXCEPT ![j] = x] /\ UNCHANGED <<documents, chunks>>
    BY <1>2 DEF PassOver
  <2> HIDE DEF x
  <2> QED BY <2>1, <2>2, <2>3, OneJobReads
<1>3. ASSUME NEW j \in Jobs, Skip(j)
      PROVE  IInv'
  <2>1. PICK map \in HeadingMapsFor(chunks[Doc(j)]) :
          job' = [job EXCEPT ![j].next = @ + 1, ![j].heads[Doc(j)] = map]
    BY <1>3 DEF Skip
  <2> DEFINE x == [job[j] EXCEPT !.next = @ + 1, !.heads[Doc(j)] = map]
  <2>2. job[j] \in Running /\ job[j] # Idle
    BY <1>3, IsRunning DEF Skip, AtDocument
  <2>3. x.wrote = job[j].wrote /\ x.deleted = job[j].deleted
    BY <2>2 DEF Running
  <2>4. job' = [job EXCEPT ![j] = x]
    BY <2>1
  <2>5. UNCHANGED <<documents, chunks>>
    BY <1>3 DEF Skip
  <2> HIDE DEF x
  <2> QED BY <2>2, <2>3, <2>4, <2>5, OneJobReads
<1>4. ASSUME NEW j \in Jobs, Put(j)
      PROVE  IInv'
  <2> DEFINE x == [job[j] EXCEPT !.at = "put"]
  <2>1. job[j] \in Running /\ job[j] # Idle
    BY <1>4, IsRunning DEF Put, AtDocument
  <2>2. x.wrote = job[j].wrote /\ x.deleted = job[j].deleted
    BY <2>1 DEF Running
  <2>3. job' = [job EXCEPT ![j] = x] /\ UNCHANGED <<documents, chunks>>
    BY <1>4 DEF Put
  <2> HIDE DEF x
  <2> QED BY <2>1, <2>2, <2>3, OneJobReads
<1>5. ASSUME NEW j \in Jobs, Replace(j)
      PROVE  IInv'
  <2>1. /\ job[j] \in Running /\ job[j] # Idle /\ Doc(j) \in Docs
        /\ DocumentFree(j, Doc(j)) /\ UNCHANGED <<documents, chunks>>
    BY <1>5, IsRunning DEF Replace, Sane, Doc
  <2>2. /\ job'[j].wrote = job[j].wrote \cup {Doc(j)}
        /\ job'[j].deleted = [job[j].deleted EXCEPT ![Doc(j)] = chunks[Doc(j)]]
    BY <1>5, <2>1 DEF Replace, TypeOK, Running
  <2>3. \A k \in Jobs : k # j => job'[k] = job[k]
    BY <1>5 DEF Replace, TypeOK
  <2>4. ChunksMatchDocument'
    BY <2>1 DEF IInv, ChunksMatchDocument
  <2>5. OneWriter'
    <3>1. ASSUME NEW k \in Jobs, k # j, job[k] # Idle
          PROVE  job'[j].wrote \cap job[k].wrote = {}
      BY <2>1, <2>2, <3>1 DEF DocumentFree, IInv, OneWriter
    <3> QED BY <2>3, <3>1 DEF IInv, OneWriter
  <2>6. DeletedAll'
    <3>1. ASSUME NEW d \in job'[j].wrote
          PROVE  job'[j].deleted[d] = chunks[d]
      BY <2>1, <2>2, <3>1 DEF IInv, DeletedAll, Running
    <3> QED BY <2>1, <2>3, <3>1 DEF IInv, DeletedAll
  <2> QED BY <2>4, <2>5, <2>6 DEF IInv
<1>6. ASSUME NEW j \in Jobs, ReadRules(j)
      PROVE  IInv'
  <2> DEFINE x == [job[j] EXCEPT !.at = "rules", !.read = rules]
  <2>1. job[j] \in Running /\ job[j] # Idle
    BY <1>6, IsRunning DEF ReadRules
  <2>2. x.wrote = job[j].wrote /\ x.deleted = job[j].deleted
    BY <2>1 DEF Running
  <2>3. job' = [job EXCEPT ![j] = x] /\ UNCHANGED <<documents, chunks>>
    BY <1>6 DEF ReadRules
  <2> HIDE DEF x
  <2> QED BY <2>1, <2>2, <2>3, OneJobReads
<1>7. ASSUME NEW j \in Jobs, WriteRules(j)
      PROVE  IInv'
  <2> DEFINE cited(r) == IF Resolved(j, r) # job[j].read[r] THEN Resolved(j, r) ELSE NoChunk
             cites == [r \in Rules |-> cited(r)]
             x == [job[j] EXCEPT !.at = "commit", !.cites = cites]
  <2>1. job[j] \in Running /\ job[j] # Idle
    BY <1>7, IsRunning DEF WriteRules
  <2>2. x.wrote = job[j].wrote /\ x.deleted = job[j].deleted
    <3> HIDE DEF cites
    <3> QED BY <2>1 DEF Running
  <2>3. job' = [job EXCEPT ![j] = x] /\ UNCHANGED <<documents, chunks>>
    BY <1>7 DEF WriteRules
  <2> HIDE DEF x
  <2> QED BY <2>1, <2>2, <2>3, OneJobReads
<1>8. ASSUME NEW j \in Jobs, Commit(j)
      PROVE  IInv'
  <2>1. job[j] \in Running /\ job[j] # Idle /\ Sane(job[j])
    BY <1>8, IsRunning DEF Commit
  <2>2. job' = [job EXCEPT ![j] = Idle]
    BY <1>8 DEF Commit
  <2>3. ASSUME NEW d \in job[j].wrote
        PROVE  /\ documents'[d] = job[j].dataset.content[d]
               /\ documents'[d] # NoText
               /\ chunks'[d] = ChunksOf(documents'[d])
    <3>1. d \in Docs /\ job[j].deleted[d] = chunks[d]
      BY <2>1, <2>3 DEF IInv, DeletedAll, Running
    <3>2. documents'[d] = job[j].dataset.content[d]
      BY <1>8, <2>3, <3>1 DEF Commit
    <3>3. chunks'[d] = (chunks[d] \ chunks[d]) \cup ChunksOf(documents'[d])
      BY <1>8, <2>3, <3>1, <3>2 DEF Commit
    <3> QED BY <2>1, <2>3, <3>2, <3>3 DEF Sane
  <2>4. ASSUME NEW d \in Docs, d \notin job[j].wrote
        PROVE  documents'[d] = documents[d] /\ chunks'[d] = chunks[d]
    BY <1>8, <2>4 DEF Commit
  <2>5. ChunksMatchDocument'
    BY <2>3, <2>4 DEF IInv, ChunksMatchDocument
  <2>6. OneWriter'
    BY <2>2 DEF IInv, OneWriter, TypeOK
  <2>7. DeletedAll'
    <3>1. ASSUME NEW k \in Jobs, job'[k] # Idle, NEW d \in job'[k].wrote
          PROVE  job'[k].deleted[d] = chunks'[d]
      <4>1. k # j /\ job'[k] = job[k]
        BY <2>2, <3>1 DEF TypeOK
      <4>2. d \notin job[j].wrote /\ d \in Docs
        BY <2>1, <3>1, <4>1 DEF IInv, OneWriter, TypeOK, Running
      <4> QED BY <2>4, <3>1, <4>1, <4>2 DEF IInv, DeletedAll
    <3> QED BY <3>1 DEF DeletedAll
  <2> QED BY <2>5, <2>6, <2>7 DEF IInv
<1>9. ASSUME NEW j \in Jobs, Rollback(j)
      PROVE  IInv'
  <2>1. \A k \in Jobs : job'[k] # Idle => job'[k] = job[k]
    BY <1>9 DEF Rollback, TypeOK
  <2>2. UNCHANGED <<documents, chunks>>
    BY <1>9 DEF Rollback
  <2> QED BY <2>1, <2>2, NothingWritten
<1>10. CASE UNCHANGED vars
  BY <1>10, NothingWritten DEF vars
<1> QED
  BY <1>1, <1>2, <1>3, <1>4, <1>5, <1>6, <1>7, <1>8, <1>9, <1>10 DEF Next

\* However many jobs overlap, fail or die, whatever their datasets: a document has the chunks
\* of the content its row is for, and no others.
THEOREM ChunksMatch == Spec => []ChunksMatchDocument
<1>1. IInv => ChunksMatchDocument
  BY DEF IInv
<1> QED BY <1>1, InitIInv, StepIInv, PTL DEF Spec

---------------------------------------------------------------------------
\* A job that ran alone has ingested its dataset.

\* A heading map finds a chunk under every heading the content has.
Finds(map, c) ==
    \A h \in Sections : Under(c, h) # {} => map[h] \in Under(c, h)

\* It finds the first of them.
FindsFirst(map, c) ==
    \A h \in Sections : \A i \in Under(c, h) : map[h] <= i

\* What a job without company knows: the rows are as it read them, each document it has
\* passed is the dataset's, stored or written, with the headings of its chunks, the first
\* of each if it was written, and the rules it will cite are those that need it.
Solo(j) ==
    /\ \A k \in Jobs \ {j} : job[k] = Idle
    /\ job[j].existing = documents
    /\ \A d \in Docs : d < job[j].next /\ job[j].dataset.content[d] # NoText =>
         /\ d \in job[j].wrote \/ documents[d] = job[j].dataset.content[d]
         /\ Finds(job[j].heads[d], job[j].dataset.content[d])
         /\ d \in job[j].wrote => FindsFirst(job[j].heads[d], job[j].dataset.content[d])
    /\ job[j].at \in {"rules", "commit"} => job[j].next > NumDocs
    /\ job[j].at = "rules" => job[j].read = rules
    /\ job[j].at = "commit" => \A r \in Rules :
         job[j].cites[r] = IF Resolved(j, r) # rules[r] THEN Resolved(j, r) ELSE NoChunk

SoloInv == \A j \in Jobs : job[j] # Idle /\ job[j].alone => Solo(j)

\* The map made while chunking finds the headings, the first chunk of each, and the one read
\* from the rows finds them too, whichever row of a repeated heading came first.
LEMMA FirstChunksFind ==
    ASSUME NEW c \in Contents
    PROVE  Finds(FirstChunks(c), c) /\ FindsFirst(FirstChunks(c), c)
<1> SUFFICES ASSUME NEW h \in Sections, Under(c, h) # {}
             PROVE  /\ FirstChunks(c)[h] \in Under(c, h)
                    /\ \A k \in Under(c, h) : FirstChunks(c)[h] <= k
  BY DEF Finds, FindsFirst
<1> DEFINE under == Under(c, h)
<1>1. under \in SUBSET Nat /\ under # {}
  BY IngestionAssumption DEF Under
<1>2. FirstChunks(c)[h] = CHOOSE i \in under : \A k \in under : i <= k
  BY <1>1 DEF FirstChunks, Under
<1>3. \E i \in under : \A k \in under : i <= k
  <2> HIDE DEF under
  <2> QED BY <1>1, LeastNumber
<1> HIDE DEF under
<1>4. FirstChunks(c)[h] \in under /\ \A k \in under : FirstChunks(c)[h] <= k
  BY <1>2, <1>3
<1> QED BY <1>4 DEF under

LEMMA HeadingMapsFind ==
    ASSUME NEW c \in Contents, NEW map \in HeadingMapsFor(ChunksOf(c))
    PROVE  Finds(map, c)
<1> SUFFICES ASSUME NEW h \in Sections, NEW i \in DOMAIN HeadingsOf[c], HeadingsOf[c][i] = h
             PROVE  map[h] \in DOMAIN HeadingsOf[c] /\ HeadingsOf[c][map[h]] = h
  BY DEF Finds, Under
<1> DEFINE rows == ChunksOf(c)
           under == {ch.number : ch \in {ch \in rows : HeadingsOf[ch.of][ch.number] = h}}
<1>1. [of |-> c, number |-> i] \in {ch \in rows : HeadingsOf[ch.of][ch.number] = h}
  BY DEF ChunksOf
<1>2. i \in under
  BY <1>1
<1>3. map[h] \in under
  BY <1>2 DEF HeadingMapsFor
<1>4. PICK ch \in rows : HeadingsOf[ch.of][ch.number] = h /\ map[h] = ch.number
  BY <1>3
<1>5. ch.of = c /\ ch.number \in DOMAIN HeadingsOf[c]
  BY DEF ChunksOf
<1> QED BY <1>4, <1>5

\* While a job works alone, no other can be the one that is alone.
LEMMA OneActs ==
    ASSUME TypeOK, SoloInv, NEW j \in Jobs, job[j] # Idle, NEW x, job' = [job EXCEPT ![j] = x],
           (x # Idle /\ x.alone) => Solo(j)'
    PROVE  SoloInv'
<1> SUFFICES ASSUME NEW k \in Jobs, job'[k] # Idle, job'[k].alone
             PROVE  Solo(k)'
  BY DEF SoloInv
<1>1. CASE k = j
  BY <1>1 DEF TypeOK
<1>2. CASE k # j
  BY <1>2 DEF TypeOK, SoloInv, Solo
<1> QED BY <1>1, <1>2

\* A step within the documents: those passed before stay as they are, the one at hand is
\* the dataset's if the dataset has it.
LEMMA SoloPasses ==
    ASSUME TypeOK, SoloInv, NEW j \in Jobs, job[j] # Idle, NEW x, job' = [job EXCEPT ![j] = x],
           UNCHANGED <<documents, rules>>, x.alone = job[j].alone,
           x.existing = job[j].existing, x.dataset = job[j].dataset,
           x.at \in {"documents", "put"}, x.next \in {job[j].next, job[j].next + 1},
           job[j].wrote \subseteq x.wrote,
           \A d \in Docs : d < job[j].next =>
             x.heads[d] = job[j].heads[d] /\ (d \in x.wrote => d \in job[j].wrote),
           x.next = job[j].next + 1 /\ Content(j) # NoText =>
             /\ Doc(j) \in x.wrote \/ documents[Doc(j)] = Content(j)
             /\ Finds(x.heads[Doc(j)], Content(j))
             /\ Doc(j) \in x.wrote => FindsFirst(x.heads[Doc(j)], Content(j))
    PROVE  SoloInv'
<1>1. ASSUME x.alone
      PROVE  Solo(j)'
  <2>1. Solo(j)
    BY <1>1 DEF SoloInv
  <2>2. job'[j] = x /\ \A k \in Jobs \ {j} : job'[k] = Idle
    BY <2>1 DEF TypeOK, Solo
  <2>3. job[j].next \in Nat
    BY IngestionAssumption DEF TypeOK, Running
  <2>4. ASSUME NEW d \in Docs, d < x.next, x.dataset.content[d] # NoText
        PROVE  /\ d \in x.wrote \/ documents[d] = x.dataset.content[d]
               /\ Finds(x.heads[d], x.dataset.content[d])
               /\ d \in x.wrote => FindsFirst(x.heads[d], x.dataset.content[d])
    <3>1. CASE d < job[j].next
      BY <2>1, <2>4, <3>1 DEF Solo
    <3>2. CASE ~(d < job[j].next)
      <4>1. d = Doc(j) /\ x.next = job[j].next + 1
        BY <2>3, <2>4, <3>2 DEF Docs, Doc
      <4> QED BY <2>4, <4>1 DEF Content
    <3> QED BY <3>1, <3>2
  <2> QED BY <2>1, <2>2, <2>4 DEF Solo
<1> QED BY <1>1, OneActs

LEMMA StepSolo == IInv /\ SoloInv /\ [Next]_vars => SoloInv'
<1> SUFFICES ASSUME IInv, SoloInv, [Next]_vars PROVE SoloInv'
  OBVIOUS
<1> TypeOK
  BY DEF IInv
<1>1. ASSUME NEW j \in Jobs, NEW ds \in Datasets, Start(j, ds)
      PROVE  SoloInv'
  <2> SUFFICES ASSUME NEW k \in Jobs, job'[k] # Idle, job'[k].alone
               PROVE  Solo(k)'
    BY DEF SoloInv
  <2>1. CASE k = j
    <3>1. /\ job'[k] = Fresh(ds) /\ UNCHANGED documents
          /\ \A i \in Jobs \ {k} : job'[i] = IF job[i] = Idle THEN Idle
                                             ELSE [job[i] EXCEPT !.alone = FALSE]
      BY <1>1, <2>1 DEF Start
    <3>2. \A i \in Jobs : job[i] = Idle
      BY <3>1 DEF Fresh
    <3>3. \A i \in Jobs \ {k} : job'[i] = Idle
      BY <3>1, <3>2
    <3> QED BY <3>1, <3>3 DEF Solo, Fresh, Docs
  <2>2. CASE k # j
    <3>1. job[k] # Idle /\ job'[k] = [job[k] EXCEPT !.alone = FALSE]
      BY <1>1, <2>2 DEF Start
    <3>2. job[k] \in Running
      BY <3>1 DEF TypeOK
    <3> QED BY <3>1, <3>2 DEF Running
  <2> QED BY <2>1, <2>2
<1>2. ASSUME NEW j \in Jobs, PassOver(j)
      PROVE  SoloInv'
  <2> DEFINE x == [job[j] EXCEPT !.next = @ + 1]
  <2>1. job[j] \in Running /\ job[j] # Idle /\ job[j].at = "documents" /\ Content(j) = NoText
    BY <1>2, IsRunning DEF PassOver, AtDocument
  <2>2. /\ x.alone = job[j].alone /\ x.existing = job[j].existing
        /\ x.dataset = job[j].dataset /\ x.at = "documents" /\ x.next = job[j].next + 1
        /\ x.wrote = job[j].wrote /\ x.heads = job[j].heads
    BY <2>1 DEF Running
  <2>3. job' = [job EXCEPT ![j] = x] /\ UNCHANGED <<documents, rules>>
    BY <1>2 DEF PassOver
  <2> HIDE DEF x
  <2> QED BY <2>1, <2>2, <2>3, SoloPasses
<1>3. ASSUME NEW j \in Jobs, Skip(j)
      PROVE  SoloInv'
  <2>1. PICK map \in HeadingMapsFor(chunks[Doc(j)]) :
          job' = [job EXCEPT ![j].next = @ + 1, ![j].heads[Doc(j)] = map]
    BY <1>3 DEF Skip
  <2> DEFINE x == [job[j] EXCEPT !.next = @ + 1, !.heads[Doc(j)] = map]
  <2>2. /\ job[j] \in Running /\ job[j] # Idle /\ job[j].at = "documents" /\ Doc(j) \in Docs
        /\ job[j].existing[Doc(j)] = Content(j) /\ Content(j) # NoText
        /\ UNCHANGED <<documents, rules>>
    BY <1>3, IsRunning DEF Skip, AtDocument
  <2>3. /\ x.alone = job[j].alone /\ x.existing = job[j].existing
        /\ x.dataset = job[j].dataset /\ x.at = "documents" /\ x.next = job[j].next + 1
        /\ x.wrote = job[j].wrote /\ x.heads = [job[j].heads EXCEPT ![Doc(j)] = map]
    BY <2>2 DEF Running
  <2>4. job' = [job EXCEPT ![j] = x]
    BY <2>1
  <2> HIDE DEF x
  <2>5. /\ x.heads[Doc(j)] = map
        /\ \A d \in Docs : d < job[j].next => x.heads[d] = job[j].heads[d]
    <3>1. DOMAIN job[j].heads = Docs
      BY <2>2 DEF Running
    <3>2. \A d \in Docs : d < job[j].next => d # Doc(j)
      BY DEF Docs, Doc
    <3> QED BY <2>2, <2>3, <3>1, <3>2
  <2>6. CASE job[j].alone
    <3>1. documents[Doc(j)] = Content(j)
      BY <2>2, <2>6 DEF SoloInv, Solo
    <3>2. Content(j) \in Contents
      BY <2>2, IngestionAssumption DEF Running, Content
    <3>3. chunks[Doc(j)] = ChunksOf(Content(j))
      BY <2>2, <3>1 DEF IInv, ChunksMatchDocument
    <3>4. Finds(map, Content(j))
      BY <3>2, <3>3, HeadingMapsFind
    <3>5. /\ x.next \in {job[j].next, job[j].next + 1} /\ x.at \in {"documents", "put"}
          /\ x.wrote = job[j].wrote /\ Finds(x.heads[Doc(j)], Content(j))
      BY <2>3, <2>5, <3>4
    <3>7. Doc(j) \notin job[j].wrote
      BY <2>2 DEF TypeOK, Doc, Docs
    <3>6. /\ x.alone = job[j].alone /\ x.existing = job[j].existing
          /\ x.dataset = job[j].dataset
      BY <2>3
    <3> QED BY <2>2, <2>4, <2>5, <3>1, <3>5, <3>6, <3>7, SoloPasses
  <2>7. CASE ~job[j].alone
    BY <2>2, <2>3, <2>4, <2>7, OneActs
  <2> QED BY <2>6, <2>7
<1>4. ASSUME NEW j \in Jobs, Put(j)
      PROVE  SoloInv'
  <2> DEFINE x == [job[j] EXCEPT !.at = "put"]
  <2>1. job[j] \in Running /\ job[j] # Idle
    BY <1>4, IsRunning DEF Put, AtDocument
  <2>2. /\ x.alone = job[j].alone /\ x.existing = job[j].existing
        /\ x.dataset = job[j].dataset /\ x.at = "put" /\ x.next = job[j].next
        /\ x.wrote = job[j].wrote /\ x.heads = job[j].heads
    BY <2>1 DEF Running
  <2>3. x.next # job[j].next + 1
    BY <2>1, <2>2, IngestionAssumption DEF Running
  <2>4. job' = [job EXCEPT ![j] = x] /\ UNCHANGED <<documents, rules>>
    BY <1>4 DEF Put
  <2> HIDE DEF x
  <2> QED BY <2>1, <2>2, <2>3, <2>4, SoloPasses
<1>5. ASSUME NEW j \in Jobs, Replace(j)
      PROVE  SoloInv'
  <2> DEFINE d == Doc(j)
             x == [job[j] EXCEPT !.at = "documents", !.next = @ + 1, !.wrote = @ \cup {d},
                                 !.deleted[d] = chunks[d], !.heads[d] = FirstChunks(Content(j))]
  <2>1. /\ job[j] \in Running /\ job[j] # Idle /\ Doc(j) \in Docs /\ Content(j) # NoText
    BY <1>5, IsRunning DEF Replace, Sane, Doc, Content
  <2>2. /\ x.alone = job[j].alone /\ x.existing = job[j].existing
        /\ x.dataset = job[j].dataset /\ x.at = "documents" /\ x.next = job[j].next + 1
        /\ x.wrote = job[j].wrote \cup {Doc(j)}
        /\ x.heads = [job[j].heads EXCEPT ![Doc(j)] = FirstChunks(Content(j))]
    BY <2>1 DEF Running
  <2>3. job' = [job EXCEPT ![j] = x] /\ UNCHANGED <<documents, rules>>
    BY <1>5 DEF Replace
  <2> HIDE DEF x
  <2>4. /\ x.heads[Doc(j)] = FirstChunks(Content(j))
        /\ \A e \in Docs : e < job[j].next => x.heads[e] = job[j].heads[e]
    <3>1. DOMAIN job[j].heads = Docs
      BY <2>1 DEF Running
    <3>2. \A e \in Docs : e < job[j].next => e # Doc(j)
      BY DEF Docs, Doc
    <3> QED BY <2>1, <2>2, <3>1, <3>2
  <2>5. Content(j) \in Contents
    BY <2>1, IngestionAssumption DEF Running, Content
  <2>6. Finds(x.heads[Doc(j)], Content(j)) /\ FindsFirst(x.heads[Doc(j)], Content(j))
    BY <2>4, <2>5, FirstChunksFind
  <2>7. /\ x.next \in {job[j].next, job[j].next + 1} /\ x.at \in {"documents", "put"}
        /\ job[j].wrote \subseteq x.wrote /\ Doc(j) \in x.wrote
        /\ \A e \in Docs : e < job[j].next /\ e \in x.wrote => e \in job[j].wrote
    BY <2>2 DEF Doc, Docs
  <2>8. /\ x.alone = job[j].alone /\ x.existing = job[j].existing
        /\ x.dataset = job[j].dataset
    BY <2>2
  <2> QED BY <2>1, <2>3, <2>4, <2>6, <2>7, <2>8, SoloPasses
<1>6. ASSUME NEW j \in Jobs, ReadRules(j)
      PROVE  SoloInv'
  <2> DEFINE x == [job[j] EXCEPT !.at = "rules", !.read = rules]
  <2>1. job[j] \in Running /\ job[j] # Idle /\ job[j].next > NumDocs
    BY <1>6, IsRunning DEF ReadRules, Doc
  <2>2. /\ x.alone = job[j].alone /\ x.existing = job[j].existing
        /\ x.dataset = job[j].dataset /\ x.at = "rules" /\ x.next = job[j].next
        /\ x.wrote = job[j].wrote /\ x.heads = job[j].heads /\ x.read = rules
    BY <2>1 DEF Running
  <2>3. job' = [job EXCEPT ![j] = x] /\ UNCHANGED <<documents, rules>>
    BY <1>6 DEF ReadRules
  <2> HIDE DEF x
  <2>4. ASSUME x.alone
        PROVE  Solo(j)'
    <3>1. Solo(j)
      BY <2>1, <2>2, <2>4 DEF SoloInv
    <3>2. job'[j] = x /\ \A k \in Jobs \ {j} : job'[k] = Idle
      BY <2>3, <3>1 DEF TypeOK, Solo
    <3> QED BY <2>1, <2>2, <2>3, <3>1, <3>2 DEF Solo
  <2> QED BY <2>1, <2>3, <2>4, OneActs
<1>7. ASSUME NEW j \in Jobs, WriteRules(j)
      PROVE  SoloInv'
  <2> DEFINE cited(r) == IF Resolved(j, r) # job[j].read[r] THEN Resolved(j, r) ELSE NoChunk
             cites == [r \in Rules |-> cited(r)]
             x == [job[j] EXCEPT !.at = "commit", !.cites = cites]
  <2>1. job[j] \in Running /\ job[j] # Idle /\ job[j].at = "rules"
    BY <1>7, IsRunning DEF WriteRules
  <2>2. job' = [job EXCEPT ![j] = x] /\ UNCHANGED <<documents, rules>>
    BY <1>7 DEF WriteRules
  <2>3. \A r \in Rules : cites[r] = cited(r)
    OBVIOUS
  <2> HIDE DEF cites
  <2>4. /\ x.alone = job[j].alone /\ x.existing = job[j].existing
        /\ x.dataset = job[j].dataset /\ x.at = "commit" /\ x.next = job[j].next
        /\ x.wrote = job[j].wrote /\ x.heads = job[j].heads /\ x.cites = cites
    BY <2>1 DEF Running
  <2> HIDE DEF x
  <2>5. ASSUME x.alone
        PROVE  Solo(j)'
    <3>1. Solo(j)
      BY <2>1, <2>4, <2>5 DEF SoloInv
    <3>2. job'[j] = x /\ \A k \in Jobs \ {j} : job'[k] = Idle
      BY <2>2, <3>1 DEF TypeOK, Solo
    <3>3. ASSUME NEW r \in Rules
          PROVE  x.cites[r] = IF Resolved(j, r)' # rules[r] THEN Resolved(j, r)' ELSE NoChunk
      <4>1. Resolved(j, r)' = Resolved(j, r)
        BY <2>4, <3>2 DEF Resolved
      <4>2. job[j].read = rules
        BY <2>1, <3>1 DEF Solo
      <4> QED BY <2>3, <2>4, <4>1, <4>2
    <3> QED BY <2>1, <2>2, <2>4, <3>1, <3>2, <3>3 DEF Solo
  <2> QED BY <2>1, <2>2, <2>5, OneActs
<1>8. ASSUME NEW j \in Jobs, Commit(j) \/ Rollback(j)
      PROVE  SoloInv'
  <2>1. job[j] # Idle /\ job' = [job EXCEPT ![j] = Idle]
    BY <1>8 DEF Commit, Rollback, Idle
  <2> QED BY <2>1, OneActs
<1>9. CASE UNCHANGED vars
  BY <1>9 DEF vars, SoloInv, Solo, Resolved
<1> QED BY <1>1, <1>2, <1>3, <1>4, <1>5, <1>6, <1>7, <1>8, <1>9 DEF Next

\* ingest_dataset by a job that no other overlapped, whatever jobs before it left, also by
\* failing or dying half-way: every document is the dataset's, and every rule whose section
\* exists cites a chunk under that section, the first if the document was written and not
\* skipped.
THEOREM SoloIngestion == Spec => SoloJobIngests
<1>1. ASSUME IInv, SoloInv, NEW j \in Jobs, Commit(j), job[j].alone
      PROVE  /\ \A d \in Docs : job[j].dataset.content[d] # NoText =>
                  documents'[d] = job[j].dataset.content[d]
             /\ \A r \in Rules :
                  LET c == job[j].dataset.content[PolicyOf[r]]
                      under == Under(c, job[j].dataset.section[r])
                  IN  c # NoText /\ under # {} =>
                        /\ rules'[r] \in under
                        /\ PolicyOf[r] \in job[j].wrote => \A i \in under : rules'[r] <= i
  <2>1. job[j] \in Running /\ job[j] # Idle /\ job[j].at = "commit"
    BY <1>1, IsRunning DEF Commit, IInv
  <2>2. Solo(j)
    BY <1>1, <2>1 DEF SoloInv
  <2>3. \A d \in Docs : d < job[j].next
    BY <2>1, <2>2, IngestionAssumption DEF Solo, Docs, Running
  <2>4. ASSUME NEW d \in Docs, job[j].dataset.content[d] # NoText
        PROVE  documents'[d] = job[j].dataset.content[d]
    <3>1. d \in job[j].wrote \/ documents[d] = job[j].dataset.content[d]
      BY <2>2, <2>3, <2>4 DEF Solo
    <3> QED BY <1>1, <3>1 DEF Commit
  <2>5. ASSUME NEW r \in Rules,
               job[j].dataset.content[PolicyOf[r]] # NoText,
               Under(job[j].dataset.content[PolicyOf[r]], job[j].dataset.section[r]) # {}
        PROVE  /\ rules'[r] \in Under(job[j].dataset.content[PolicyOf[r]],
                                      job[j].dataset.section[r])
               /\ PolicyOf[r] \in job[j].wrote =>
                    \A i \in Under(job[j].dataset.content[PolicyOf[r]],
                                   job[j].dataset.section[r]) : rules'[r] <= i
    <3> DEFINE c == job[j].dataset.content[PolicyOf[r]]
               h == job[j].dataset.section[r]
    <3>1. PolicyOf[r] \in Docs /\ h \in Sections /\ c \in Contents
      BY <2>1, <2>5, IngestionAssumption DEF Running
    <3>2. /\ Finds(job[j].heads[PolicyOf[r]], c)
          /\ PolicyOf[r] \in job[j].wrote => FindsFirst(job[j].heads[PolicyOf[r]], c)
      BY <2>2, <2>3, <2>5, <3>1 DEF Solo
    <3>3. /\ Resolved(j, r) \in Under(c, h)
          /\ PolicyOf[r] \in job[j].wrote => \A i \in Under(c, h) : Resolved(j, r) <= i
      BY <2>5, <3>1, <3>2 DEF Finds, FindsFirst, Resolved
    <3>4. Resolved(j, r) # NoChunk
      BY <3>1, <3>3, IngestionAssumption DEF NoChunk, Under
    <3>5. job[j].cites[r] = IF Resolved(j, r) # rules[r] THEN Resolved(j, r) ELSE NoChunk
      BY <2>1, <2>2 DEF Solo
    <3>6. rules'[r] = IF job[j].cites[r] # NoChunk THEN job[j].cites[r] ELSE rules[r]
      BY <1>1 DEF Commit
    <3>7. rules'[r] = Resolved(j, r)
      BY <3>4, <3>5, <3>6
    <3> QED BY <3>3, <3>7
  <2> QED BY <2>4, <2>5
<1>2. Init => SoloInv
  BY DEF Init, SoloInv
<1>3. Spec => [](IInv /\ SoloInv)
  BY InitIInv, StepIInv, StepSolo, <1>2, PTL DEF Spec
<1>4. IInv /\ SoloInv =>
        [\A j \in Jobs : Commit(j) /\ job[j].alone =>
         /\ \A d \in Docs : job[j].dataset.content[d] # NoText =>
              documents'[d] = job[j].dataset.content[d]
         /\ \A r \in Rules :
              LET c == job[j].dataset.content[PolicyOf[r]]
                  under == Under(c, job[j].dataset.section[r])
              IN  c # NoText /\ under # {} =>
                    /\ rules'[r] \in under
                    /\ PolicyOf[r] \in job[j].wrote => \A i \in under : rules'[r] <= i]_vars
  BY <1>1
<1> QED BY <1>3, <1>4, PTL DEF SoloJobIngests

=============================================================================
