----------------------------- MODULE MCModelCall -----------------------------
(* A request of each kind of reply; one is not deterministic, and one is    *)
(* not supported by the model of the real provider.                         *)
EXTENDS ModelCall

Request(op, payload, deterministic, batches) ==
  [op |-> op, payload |-> payload, deterministic |-> deterministic, batches |-> batches,
   supported |-> payload # "r"]

MCRequests ==
  {Request("generate_structured", "p", TRUE, 1), Request("generate", "q", FALSE, 1),
   Request("embed", "p", FALSE, 2), Request("tool_call", "r", TRUE, 1)}

MCFaults ==
  {[is |-> "timeout"], [is |-> "misshapen"], [is |-> "status", code |-> 401]}

Failure(kind, op, left) == [kind |-> kind, op |-> op, left |-> left]
MCScripts ==
  {<<Failure("malformed_json", "any", 2), Failure("auth", "embed", 1)>>,
   <<Failure("timeout", "generate_structured", 1), Failure("server_error", "any", 1)>>}
=============================================================================
