------------------------------ MODULE MCPlanner ------------------------------
(* Plans of a retrieval, a finish and perhaps a review under every set of   *)
(* edges, and a list of plans that are wrong in one way each.               *)
EXTENDS Planner

Plain == [id |-> "", type |-> "", approval |-> FALSE, refs |-> {}, filled |-> TRUE,
          tool |-> "", caveats |-> {}, shaped |-> TRUE]
As(step) == [step |-> step, strays |-> <<>>]

Chunks == StepRef("r", "chunks")
Retrieve == [Plain EXCEPT !.id = "r", !.type = "retrieve_documents",
                          !.refs = {Literal}, !.tool = "search_documents"]
Extract == [Plain EXCEPT !.id = "e", !.type = "extract_fields", !.refs = {Chunks}]
Review == [Plain EXCEPT !.id = "v", !.type = "human_review", !.refs = {Chunks}]
Finish == [Plain EXCEPT !.id = "f", !.type = "finish", !.refs = {Chunks}]
Guarded == [As([Retrieve EXCEPT !.approval = TRUE])
              EXCEPT !.strays = [approval |-> FALSE]]
NamedReview == [Extract EXCEPT !.id = "review", !.caveats = {"high_retry_budget"}]
Tooled(tool) == [Retrieve EXCEPT !.tool = tool]
Showing(value) == [Finish EXCEPT !.refs = {value}]

To(m, n) == [source |-> m, target |-> n]
Plan(steps, edges) ==
  [outcome |-> "proposed", questions |-> 0, steps |-> steps, edges |-> edges,
   inputs |-> <<"x", "">>, tools |-> <<"search_documents">>, declined |-> {}]

Wirings(ids) == {SetToSeq(s) : s \in SUBSET {To(m, n) : <<m, n>> \in
                                 {q \in ids \X ids : q[1] # q[2]}}}
RF == <<As(Retrieve), As(Finish)>>
Line == <<To("r", "f")>>

Wired ==
  {Plan(<<As(Retrieve), As(Review), As(Finish)>>, w) : w \in Wirings({"r", "v", "f"})}
    \cup {Plan(RF, w) : w \in Wirings({"r", "f"})}

Odd ==
  {Plan(<<>>, <<>>),
   Plan(<<As(Retrieve)>>, <<>>),
   Plan(<<As(Retrieve), As(Extract), As(Finish)>>, <<To("r", "e"), To("r", "f")>>),
   Plan(<<As(Extract), As(Retrieve), As(Finish)>>, <<To("e", "r"), To("r", "f")>>),
   Plan(<<As(Retrieve), As(NamedReview), As(Finish)>>, <<To("r", "review"), To("review", "f")>>),
   Plan(<<Guarded, As(Finish)>>, Line),
   Plan(<<As(Tooled("send_email")), As(Finish)>>, Line),
   Plan(<<As(Tooled("lookup_policy_rules")), As(Finish)>>, Line),
   Plan(<<As(Retrieve), As(Finish), As([Finish EXCEPT !.id = "g"])>>, Line),
   Plan(<<As(Retrieve), As(Finish), As(Retrieve)>>, Line),
   Plan(RF, <<To("r", "f"), To("r", "f")>>),
   Plan(RF, <<To("r", "f"), To("f", "gone")>>),
   Plan(<<As([Retrieve EXCEPT !.shaped = FALSE]), As(Finish)>>, Line),
   Plan(<<As([Retrieve EXCEPT !.refs = {}]), As(Finish)>>, Line)}
    \cup {Plan(<<As(Retrieve), As(Showing(v))>>, Line) :
            v \in {Literal, Malformed, InputRef("x"), InputRef("y"), StepRef("r", "fields"),
                                                       StepRef("review", "chunks")}}
    \cup {[Plan(RF, Line) EXCEPT !.tools = <<"send_email", "search_documents">>],
          [Plan(RF, Line) EXCEPT !.questions = 1],
          [Plan(RF, Line) EXCEPT !.outcome = "needs_clarification"],
          [Plan(RF, <<>>) EXCEPT !.outcome = "rejected"]}

MCProposals == Wired \cup Odd
MCRepairs ==
  {Plan(RF, Line), Plan(RF, <<>>), Plan(<<>>, <<>>), Plan(<<Guarded, As(Finish)>>, Line),
   [Plan(RF, <<>>) EXCEPT !.outcome = "rejected"],
   Plan(<<As(Retrieve), As(Review), As(Finish)>>, <<To("r", "v"), To("v", "f")>>)}
MCRegistered == {"search_documents", "get_document_chunk", "lookup_policy_rules"}
MCReviewNames == <<"review", "review_2">>
MCFlagged == {Rejection("side_effect", "send it")}
=============================================================================
