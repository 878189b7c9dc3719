----------------------------- MODULE MCAlgorithms -----------------------------
(***************************************************************************)
(* The two sequential algorithms.  A behaviour either examines a list of   *)
(* edges over four interchangeable steps (every list of up to three edges, *)
(* repeats and loops included, the diamonds and the rings), or chunks a    *)
(* text of up to six items: sentences of one, two or four tokens under the *)
(* heading h or a blank one, with a cap of three.                          *)
(***************************************************************************)
EXTENDS WorkflowGraph, Chunking, TLC

CONSTANTS s1, s2, s3, s4, h, NumItems, Lengths

MCSteps == {s1, s2, s3, s4}
MaxEdges == 3
MCEdge == [source : MCSteps, target : MCSteps]
To(m, n) == [source |-> m, target |-> n]
Diamond(p) == <<To(p[s1], p[s2]), To(p[s1], p[s3]), To(p[s2], p[s4]), To(p[s3], p[s4])>>
Ring(p) == <<To(p[s1], p[s2]), To(p[s2], p[s3]), To(p[s3], p[s4]), To(p[s4], p[s1])>>
MCEdgeLists ==
  UNION {[1..k -> MCEdge] : k \in 0..MaxEdges}
    \cup {Diamond(p) : p \in Permutations(MCSteps)}
    \cup {Ring(p) : p \in Permutations(MCSteps)}
Symmetry == Permutations(MCSteps)

(* An item is a heading or the length of a sentence.                       *)
MCHeadings == {h, NoHeading}
Outlines == UNION {[1..n -> MCHeadings \cup Lengths] : n \in 1..NumItems}
LengthAt(o, i) == IF o[i] \in MCHeadings THEN 0 ELSE o[i]
Upto(o) ==
  LET sum[i \in 0..Len(o)] == IF i = 0 THEN 0 ELSE sum[i - 1] + LengthAt(o, i)
  IN  sum
TextOf(o) ==
  LET upto == Upto(o) IN
  [i \in DOMAIN o |->
     IF o[i] \in MCHeadings THEN [is |-> "heading", name |-> o[i], upto |-> upto[i]]
                            ELSE [is |-> "sentence", upto |-> upto[i]]]
MCTexts == {TextOf(o) : o \in Outlines}

(* The other algorithm is given next to nothing and left alone.            *)
Blank == TextOf(<<NoHeading>>)
OfGraph == text = Blank
OfText == edges = <<>>

MCInit ==
  \/ CutInit /\ OfGraph /\ Init
  \/ Init /\ OfText /\ CutInit
MCNext ==
  \/ OfGraph /\ Next /\ UNCHANGED cutVars
  \/ OfText /\ CutNext /\ UNCHANGED vars
MCSpec == MCInit /\ [][MCNext]_<<vars, cutVars>>
=============================================================================
