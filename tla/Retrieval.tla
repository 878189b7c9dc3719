------------------------------ MODULE Retrieval ------------------------------
(***************************************************************************)
(* What the searches, look-ups and listings over ingested documents answer *)
(* for a given content of the database: PostgresRetriever                  *)
(* (retrieval/postgres.py), PostgresPolicyRuleStore (retrieval/rules.py)   *)
(* and DocumentsRepository (db/repositories/documents.py).                 *)
(*                                                                         *)
(* The database is a function db from document ids to rows; a row keeps    *)
(* its project, access group, type, vendor, effective date (0 is NULL),    *)
(* policy area ("" is none), the ids it supersedes and its chunks, each a  *)
(* heading and a text.  Equal texts have equal content hashes.             *)
(***************************************************************************)
EXTENDS Naturals, Sequences, SequencesExt, FiniteSets

CONSTANTS
  Score,    \* Score[words][mode][heading, text]: ts_rank_cd in thousandths, 0 no match
  Rules     \* the policy_rules rows: id, project, doc, chunk, area, severity

Absent == [is |-> "absent"]
DocumentFields == {"project", "group", "type", "vendor", "date", "area", "supersedes", "chunks"}
IsDocument(row) ==
  /\ row = [f \in DocumentFields |-> row[f]]
  /\ row.date \in Nat
  /\ row.chunks \in Seq([heading : STRING, text : STRING])

Stored(db) == {d \in DOMAIN db : db[d] # Absent}

(* A row of the join of document_chunks and documents.  A document id      *)
(* stands for both of its keys, the external_id that a search answers with *)
(* and the UUID in the path of the chunk route.                            *)
Hit(db, d, i) == [doc |-> d, row |-> db[d], n |-> i, chunk |-> db[d].chunks[i]]
Hits(db) == UNION {{Hit(db, d, i) : i \in DOMAIN db[d].chunks} : d \in Stored(db)}

-----------------------------------------------------------------------------
(* Bug: the access groups are left to the check after the query.           *)
MayReadAnyGroup(project, groups, row) == row.project = project

MayRead(project, groups, row) == row.project = project /\ row.group \in groups

(* The filters that are present in the statement only if the query has     *)
(* them.                                                                   *)
AnyVendor == "any"
Wanted(q, row) ==
  /\ q.types = {} \/ row.type \in q.types
  /\ q.vendor \in {AnyVendor, row.vendor}

Rank(q, mode, h) == Score[q.words][mode][h.chunk.heading, h.chunk.text]

Matches(db, q, mode) ==
  {h \in Hits(db) :
     MayRead(q.project, q.groups, h.row) /\ Wanted(q, h.row) /\ Rank(q, mode, h) > 0}

(* ORDER BY rank DESC, effective_date DESC NULLS LAST, sequence.           *)
Precedes(q, mode, g, h) ==
  \/ Rank(q, mode, g) > Rank(q, mode, h)
  \/ /\ Rank(q, mode, g) = Rank(q, mode, h)
     /\ g.row.date > h.row.date \/ (g.row.date = h.row.date /\ g.n < h.n)

(* The orders the database may answer in: rows that tie come in any.       *)
Orders(q, mode, S) ==
  {s \in SetToSeqs(S) : \A i, j \in DOMAIN s : i < j => ~Precedes(q, mode, s[j], s[i])}

UpTo(s, n) == SubSeq(s, 1, IF Len(s) < n THEN Len(s) ELSE n)

(* _execute_search: three times as many rows as are asked for.             *)
Fetched(db, q, mode) ==
  {UpTo(s, 3 * q.limit) : s \in Orders(q, mode, Matches(db, q, mode))}

SameText(rows, i) == {j \in DOMAIN rows : rows[j].chunk.text = rows[i].chunk.text}
FirstOfText(rows, i) == \A j \in SameText(rows, i) : i <= j

(* Bug: a text is shown by the row that ranks first.                       *)
BestOfText(rows, i) == CHOOSE j \in SameText(rows, i) : FirstOfText(rows, j)

(* _dedupe_by_content_hash: a text keeps its first place in the order and  *)
(* is shown by its newest row, the first of them if several are as new.    *)
NewestOfText(rows, i) ==
  CHOOSE j \in SameText(rows, i) :
    \A k \in SameText(rows, i) :
      rows[k].row.date < rows[j].row.date \/ (rows[k].row.date = rows[j].row.date /\ j <= k)
Firsts(rows) == {i \in DOMAIN rows : FirstOfText(rows, i)}
Deduped(rows) ==
  LET firsts == Firsts(rows)
      nth(p) == CHOOSE i \in firsts : Cardinality({j \in firsts : j < i}) = p - 1
  IN  [p \in 1..Cardinality(firsts) |-> rows[NewestOfText(rows, nth(p))]]

(* _detect_conflict.                                                       *)
Disagree(newer, older) ==
  /\ newer.row.type = "policy" /\ older.row.type = "policy"
  /\ newer.row.area # "" /\ newer.row.area = older.row.area
  /\ older.row.date # 0 /\ newer.row.date > older.row.date
  /\ older.doc \notin newer.row.supersedes
Conflict(rows) == \E i, j \in DOMAIN rows : Disagree(rows[i], rows[j])

Nothing(status, total) == [status |-> status, shown |-> <<>>, total |-> total]

Floor(q, mode) == IF mode = "or" /\ q.floor < 500 THEN 500 ELSE q.floor

(* The rest of search, once a stage has fetched its rows.                  *)
Judged(q, mode, rows) ==
  LET capped == UpTo(Deduped(rows), q.limit)
  IN  IF rows = <<>> \/ Rank(q, mode, rows[1]) < Floor(q, mode)
      THEN Nothing("insufficient_evidence", Len(rows))
      ELSE IF \E i \in DOMAIN capped : capped[i].row.group \notin q.groups
      THEN Nothing("error", 0)
      ELSE [status |-> IF Conflict(capped) THEN "conflicting_evidence" ELSE "ok",
            shown |-> capped, total |-> Len(rows)]

(* What search may answer while the documents stay as they are: the "or"   *)
(* stage is tried if the "and" stage has no row.                           *)
Answers(db, q) ==
  LET exact == Fetched(db, q, "and")
  IN  IF exact # {<<>>} THEN {Judged(q, "and", rows) : rows \in exact}
      ELSE {Judged(q, "or", rows) : rows \in Fetched(db, q, "or")}

-----------------------------------------------------------------------------
(* get_chunk: the row with these ids, if it may be read.                   *)
ChunkFor(db, project, groups, d, i) ==
  {h \in Hits(db) : h.doc = d /\ h.n = i /\ MayRead(project, groups, h.row)}

SeverityOrder == [low |-> 0, medium |-> 1, high |-> 2]

(* rules_for: a rule is as visible as the document it cites.               *)
RulesFor(db, project, groups, area, least) ==
  {r \in Rules :
     /\ r.project = project /\ r.area = area
     /\ r.doc \in Stored(db) /\ db[r.doc].group \in groups
     /\ SeverityOrder[r.severity] >= SeverityOrder[least]}

(* DocumentsRepository: the listing of a project, one document and one     *)
(* chunk, for the owner of the project.                                    *)
Listed(db, project, groups) ==
  {d \in Stored(db) : db[d].project = project /\ db[d].group \in groups}

(* Bug: owning the project is enough.                                      *)
DocumentForOwner(db, owner, groups, user, d) ==
  d \in Stored(db) /\ owner[db[d].project] = user

DocumentFor(db, owner, groups, user, d) ==
  d \in Stored(db) /\ owner[db[d].project] = user /\ db[d].group \in groups

(* collect_grounding (planner/grounding.py): what a planner job is told of *)
(* the project, as counts of documents and rules.  Its cap of 30 values    *)
(* lies beyond every instance.                                             *)
Counts(S, of(_)) == [v \in {of(x) : x \in S} |-> Cardinality({x \in S : of(x) = v})]
Facts(db, project, groups) ==
  LET mine == Listed(db, project, groups)
      rules == {r \in Rules : /\ r.project = project /\ r.doc \in Stored(db)
                              /\ db[r.doc].group \in groups}
  IN  [types |-> Counts(mine, LAMBDA d : db[d].type),
       vendors |-> Counts(mine, LAMBDA d : db[d].vendor),
       areas |-> Counts(rules, LAMBDA r : r.area)]
=============================================================================
