-------------------------- MODULE MCDocumentAccess --------------------------
(***************************************************************************)
(* Two users with a project each; a liability clause that several policies *)
(* repeat, of which the legal department restricts the newest.             *)
(***************************************************************************)
EXTENDS DocumentAccess

MCOwner == [p1 |-> "u1", p2 |-> "u2"]
MCEmails == [u1 |-> {"mail"}, u2 |-> {}]

Clause == [heading |-> "Liability", text |-> "cap"]
Other == [heading |-> "Renewal", text |-> "notice"]
Close == [heading |-> "Liability", text |-> "capped"]
Repeat == [heading |-> "Renewal", text |-> "cap"]

Row(p, group, type, date, area, chunks) ==
  [project |-> p, group |-> group, type |-> type, vendor |-> "acme", date |-> date,
   area |-> area, supersedes |-> {}, chunks |-> chunks]

First ==
  [a |-> Row("p1", "procurement", "policy", 0, "liability", <<Clause, Close>>),
   d |-> Row("p1", "procurement", "policy", 2, "liability", <<Repeat, Other>>)]

(* Later data sets: one document is restricted, dated and has another text, *)
(* from which one that overlaps may keep what itself does not change; the   *)
(* other is restricted too, but its text is as it was.                      *)
Second ==
  [a |-> [Row("p1", "legal", "policy", 3, "liability", <<Clause, Other>>) EXCEPT !.supersedes = {"d"}]]
Third ==
  [a |-> [First.a EXCEPT !.date = 1, !.chunks = <<Other, Clause>>],
   d |-> [First.d EXCEPT !.group = "legal"]]

MCReleases == [p1 |-> {First, Second, Third}, p2 |-> {}]

MCScore ==
  [cap  |-> [and |-> [h \in {"Liability", "Renewal"}, t \in {"cap", "notice", "capped"} |->
                        IF t # "cap" THEN 0 ELSE IF h = "Liability" THEN 20 ELSE 10],
             or  |-> [h \in {"Liability", "Renewal"}, t \in {"cap", "notice", "capped"} |->
                        IF t = "notice" THEN 0 ELSE 700]],
   both |-> [and |-> [h \in {"Liability", "Renewal"}, t \in {"cap", "notice", "capped"} |-> 0],
             or  |-> [h \in {"Liability", "Renewal"}, t \in {"cap", "notice", "capped"} |->
                        IF t = "capped" THEN 700 ELSE 400]]]

Ask(words, types) == [words |-> words, types |-> types, vendor |-> "any", limit |-> 1, floor |-> 1]
MCQuestions == {Ask("cap", {}), Ask("both", {"policy"})}

MCRules ==
  {[id |-> "r1", project |-> "p1", doc |-> "a", area |-> "liability", severity |-> "high"],
   [id |-> "r2", project |-> "p1", doc |-> "d", area |-> "liability", severity |-> "low"]}

MCOperations ==
  [kind : {"list"}, project : {"p1"}] \cup [kind : {"detail"}, doc : {"a"}, project : {"p1"}]
    \cup [kind : {"chunk"}, doc : {"a"}, n : {2}, project : {"p1"}]
    \cup [kind : {"search"}, project : {"p1"}, question : {Ask("both", {"policy"})}]

MCToolCalls ==
  [kind : {"chunk"}, doc : {"a"}, n : {1}]
    \cup [kind : {"search"}, question : {Ask("cap", {})}]
    \cup [kind : {"rules"}]
=============================================================================
