------------------------------ MODULE ModelCall ------------------------------
(***************************************************************************)
(* One attempt-by-attempt view of a model call below the router: the cache *)
(* in front of the provider (providers/cache.py), the adapter that turns   *)
(* an HTTP exchange into an answer or a ProviderError (providers/nvidia.py)*)
(* or the scripted one (providers/mock.py), the parse-and-repair loop of   *)
(* structured output (providers/structured.py), and the retries around     *)
(* them (providers/resilience.py).  Callers share the cache.  Without      *)
(* credentials a provider that refuses every call stands in                *)
(* (providers/base.py).                                                    *)
(*                                                                         *)
(* A reply text is kept as what the parsers can tell of it: "bare" is JSON *)
(* of the schema and nothing else, "wrapped" has it inside prose or a code *)
(* fence, "misfit" has none, "plain" is not parsed.  Tool calls are        *)
(* "calls"; a reply of any kind is "broken" if those in it do not decode.  *)
(***************************************************************************)
EXTENDS Naturals, Sequences

CONSTANTS
  Callers,
  Requests,       \* records op, payload, deterministic, batches, supported
  Faults,         \* the ways considered in which an exchange can fail
  Scripts,        \* what the scripted provider may be told to fail
  MaxAttempts     \* MODEL_MAX_ATTEMPTS

Operations == {"generate", "generate_structured", "tool_call", "embed", "rerank"}

(* FailureKind: what the mock can be told to do.                           *)
FailureKinds ==
  {"timeout", "rate_limited", "server_error", "auth", "malformed_json", "bad_request"}

Key(r) == <<r.op, r.payload>>
Keys == {Key(r) : r \in Requests}

(* An embedding has at least one text, so at least one batch; the hashed   *)
(* payload of a generation includes what makes it deterministic; only for  *)
(* structured output and tools must the model's capabilities allow it.     *)
ASSUME CallAssumption ==
  /\ MaxAttempts \in Nat \ {0}
  /\ Requests # {}
  /\ \A r \in Requests :
       /\ r.op \in Operations
       /\ r.batches \in IF r.op = "embed" THEN Nat \ {0} ELSE {1}
       /\ r.supported \in IF r.op \in {"generate_structured", "tool_call"} THEN BOOLEAN ELSE {TRUE}
       /\ \A q \in Requests : Key(q) = Key(r) => q.deterministic = r.deterministic
  /\ \A x \in Faults :
       x.is \in {"timeout", "unreachable", "status", "unreadable", "misshapen"}
  /\ \A s \in Scripts :
       s \in Seq([kind : FailureKinds, op : Operations \cup {"any"}, left : Nat])

VARIABLES
  provider,   \* what the cache wraps: "nvidia", "mock" or "not_configured"
  script,     \* the failures the mock still has to play: kind, op, left
  cache,      \* what the backend holds for a key
  at,         \* where a caller is
  req,        \* its request
  heard,      \* the exchanges of this attempt, oldest first
  attempt,    \* RetryPolicy's counter
  result      \* what the caller gets

vars == <<provider, script, cache, at, req, heard, attempt, result>>

None == [is |-> "none"]
Text(t) == [is |-> "text", text |-> t]
Value(t, hit) == [is |-> "value", text |-> t, hit |-> hit]
Error(category) == [is |-> "error", category |-> category]
Raised(hit) == [is |-> "raised", hit |-> hit]   \* an exception of another kind
Again == [is |-> "again"]
Cancelled == [is |-> "cancelled"]

-----------------------------------------------------------------------------
(* What an exchange can bring, by operation.  A fault is a "timeout", an   *)
(* "unreachable" server, a "status" with its code, an "unreadable" body,   *)
(* or a "misshapen" one: its key is there but not the fields below (items  *)
(* without "embedding", a choice that is no object).                       *)
Texts(op) ==
  CASE op = "generate_structured" -> {"bare", "wrapped", "misfit", "broken"}
    [] op = "tool_call" -> {"calls", "broken"}
    [] op = "generate" -> {"plain", "broken"}
    [] OTHER -> {"plain"}

Exchanges(op) == {Text(t) : t \in Texts(op)} \cup Faults

(* _map_error_status.                                                      *)
StatusError(code) ==
  CASE code \in {400, 404, 422} -> "bad_request"
    [] code \in {401, 403} -> "auth"
    [] code = 429 -> "rate_limited"
    [] OTHER -> "unavailable"

ExchangeError(x) ==
  CASE x.is = "timeout" -> "timeout"
    [] x.is = "status" -> StatusError(x.code)
    [] OTHER -> "unavailable"

(* A call that is refused before any exchange: nothing is configured, or   *)
(* the model cannot do what is asked.                                      *)
RefusedBy(adapter, r) ==
  adapter = "not_configured" \/ (adapter = "nvidia" /\ ~r.supported)

Refusal(adapter) ==
  Error(IF adapter = "not_configured" THEN "not_configured" ELSE "capability")

(* parse_structured looks for the JSON; model_validate_json does not.      *)
Extracts(text) == text \in {"bare", "wrapped"}
IsJson(text) == text = "bare"

Last(s) == s[Len(s)]

(* The mock embeds in one go.                                              *)
Batches(r) == IF provider = "mock" THEN 1 ELSE r.batches

(* Bug: whatever goes wrong in the repair counts as malformed output.      *)
VerdictMaskingRepair(r, said) ==
  LET x == Last(said) IN
  CASE Len(said) = 2 /\ Batches(r) = 1 /\ x.is # "text" -> Error("malformed_output")
    [] x.is = "misshapen" -> Raised(FALSE)
    [] x.is \notin {"misshapen", "text"} -> Error(ExchangeError(x))
    [] x.is = "text" /\ Len(said) < Batches(r) -> Again
    [] x.is = "text" /\ x.text = "misfit" -> IF Len(said) = 1 THEN Again ELSE Error("malformed_output")
    [] x.is = "text" /\ x.text = "broken" -> Error("malformed_output")
    [] OTHER -> Value(x.text, FALSE)

(* What a call makes of the exchanges so far: embed sends its texts batch  *)
(* by batch and keeps nothing if one fails; a structured reply that does   *)
(* not parse is repaired once.                                             *)
Verdict(r, said) ==
  LET x == Last(said) IN
  CASE x.is = "misshapen" -> Raised(FALSE)
    [] x.is \notin {"misshapen", "text"} -> Error(ExchangeError(x))
    [] x.is = "text" /\ Len(said) < Batches(r) -> Again
    [] x.is = "text" /\ x.text = "misfit" -> IF Len(said) = 1 THEN Again ELSE Error("malformed_output")
    [] x.is = "text" /\ x.text = "broken" -> Error("malformed_output")
    [] OTHER -> Value(x.text, FALSE)

-----------------------------------------------------------------------------
(* Bug: every request is looked up and stored.                             *)
CacheableAlways(r) == TRUE

(* Embeddings and rankings always, the others if they are deterministic.   *)
Cacheable(r) == r.op \in {"embed", "rerank"} \/ r.deterministic

FirstStep(r) == IF Cacheable(r) THEN "lookup" ELSE "send"

(* A cached reply; that of a structured call is validated as it stands.    *)
Replayed(r, text) ==
  IF r.op = "generate_structured" /\ ~IsJson(text) THEN Raised(TRUE) ELSE Value(text, TRUE)

AnyRequest == CHOOSE r \in Requests : TRUE

Init ==
  /\ \/ provider \in {"nvidia", "not_configured"} /\ script = <<>>
     \/ provider = "mock" /\ script \in Scripts
  /\ cache = [k \in Keys |-> None]
  /\ at = [c \in Callers |-> "idle"]
  /\ req = [c \in Callers |-> AnyRequest]
  /\ heard = [c \in Callers |-> <<>>]
  /\ attempt = [c \in Callers |-> 0]
  /\ result = [c \in Callers |-> None]

Move(c, place) == at' = [at EXCEPT ![c] = place]
Give(c, what) == result' = [result EXCEPT ![c] = what]
world == <<provider, script, cache>>

Start(c, r) ==
  /\ at[c] = "idle"
  /\ req' = [req EXCEPT ![c] = r]
  /\ attempt' = [attempt EXCEPT ![c] = 1]
  /\ Move(c, FirstStep(r))
  /\ UNCHANGED <<world, heard, result>>

(* A hit answers without an exchange; a missing entry and a backend that   *)
(* fails are the same to the caller.                                       *)
Lookup(c) ==
  /\ at[c] = "lookup"
  /\ UNCHANGED <<world, req, heard, attempt>>
  /\ \/ Move(c, "send") /\ UNCHANGED result
     \/ /\ cache[Key(req[c])] # None
        /\ Give(c, Replayed(req[c], cache[Key(req[c])].text))
        /\ Move(c, "done")

(* The exchange x has ended; where the call goes from here.                *)
Hear(c, x) ==
  LET r == req[c]
      said == Append(heard[c], x)
      verdict == Verdict(r, said)
  IN
  /\ heard' = [heard EXCEPT ![c] = said]
  /\ \/ verdict = Again /\ UNCHANGED <<at, result>>
     \/ /\ verdict.is = "value"
        /\ Give(c, verdict)
        /\ Move(c, IF Cacheable(r) THEN "store" ELSE "done")
     \/ verdict.is = "error" /\ Give(c, verdict) /\ Move(c, "failed")
     \/ verdict.is = "raised" /\ Give(c, verdict) /\ Move(c, "done")
  /\ UNCHANGED <<provider, cache, req, attempt>>

Refuse(c) ==
  /\ at[c] = "send"
  /\ RefusedBy(provider, req[c])
  /\ Give(c, Refusal(provider))
  /\ Move(c, "failed")
  /\ UNCHANGED <<world, req, heard, attempt>>

Exchange(c) ==
  /\ provider = "nvidia"
  /\ at[c] = "send"
  /\ ~RefusedBy(provider, req[c])
  /\ \E x \in Exchanges(req[c].op) : Hear(c, x)
  /\ UNCHANGED script

(* _consume_failure: the first scripted failure left for the operation.    *)
Due(op) == {i \in DOMAIN script : script[i].left > 0 /\ script[i].op \in {"any", op}}

PlayedOut(i) == [script EXCEPT ![i].left = @ - 1]

(* Told to be malformed, the mock gives a structured call text that does   *)
(* not parse and any other operation the error itself.                     *)
ScriptedReply(op, kind) ==
  CASE kind = "malformed_json" ->
         Text(IF op = "generate_structured" THEN "misfit" ELSE "broken")
    [] kind = "timeout" -> [is |-> "timeout"]
    [] kind = "rate_limited" -> [is |-> "status", code |-> 429]
    [] kind = "server_error" -> [is |-> "status", code |-> 500]
    [] kind = "auth" -> [is |-> "status", code |-> 401]
    [] kind = "bad_request" -> [is |-> "status", code |-> 400]

(* The mock's tool calls always decode.  Without scripted replies a        *)
(* structured call gets the schema's defaults, or is malformed at once if  *)
(* the schema has none.                                                    *)
MockTexts(op) ==
  IF op = "generate_structured" THEN Texts(op) ELSE Texts(op) \ {"broken"}

MockExchange(c) ==
  /\ provider = "mock"
  /\ at[c] = "send"
  /\ LET due == Due(req[c].op) IN
     \/ /\ due = {}
        /\ \E t \in MockTexts(req[c].op) : Hear(c, Text(t))
        /\ UNCHANGED script
     \/ \E i \in due :
          /\ \A j \in due : i <= j
          /\ Hear(c, ScriptedReply(req[c].op, script[i].kind))
          /\ script' = PlayedOut(i)

(* The value is stored for the next caller if the backend accepts it.      *)
MaybeStored(c) == {cache, [cache EXCEPT ![Key(req[c])] = Text(result[c].text)]}

Store(c) ==
  /\ at[c] = "store"
  /\ cache' \in MaybeStored(c)
  /\ Move(c, "done")
  /\ UNCHANGED <<provider, script, req, heard, attempt, result>>

Retryable == {"rate_limited", "unavailable", "timeout"}
WillRetry(c) == result[c].category \in Retryable /\ attempt[c] < MaxAttempts

(* Bug: an attempt goes on with the transcript of the one before.          *)
RetryKeepingTranscript(c) ==
  /\ at[c] = "failed"
  /\ WillRetry(c)
  /\ attempt' = [attempt EXCEPT ![c] = @ + 1]
  /\ Give(c, None)
  /\ Move(c, FirstStep(req[c]))
  /\ UNCHANGED <<world, req, heard>>

(* Bug: attempts are not counted.                                          *)
RetryUncounted(c) ==
  /\ at[c] = "failed"
  /\ WillRetry(c)
  /\ heard' = [heard EXCEPT ![c] = <<>>]
  /\ Give(c, None)
  /\ Move(c, FirstStep(req[c]))
  /\ UNCHANGED <<world, req, attempt>>

(* After a back-off the whole call is made again, the lookup included.     *)
Retry(c) ==
  /\ at[c] = "failed"
  /\ WillRetry(c)
  /\ attempt' = [attempt EXCEPT ![c] = @ + 1]
  /\ heard' = [heard EXCEPT ![c] = <<>>]
  /\ Give(c, None)
  /\ Move(c, FirstStep(req[c]))
  /\ UNCHANGED <<world, req>>

GiveUp(c) ==
  /\ at[c] = "failed"
  /\ ~WillRetry(c)
  /\ Move(c, "done")
  /\ UNCHANGED <<world, req, heard, attempt, result>>

Return(c) ==
  /\ at[c] = "done"
  /\ Move(c, "idle")
  /\ req' = [req EXCEPT ![c] = AnyRequest]
  /\ heard' = [heard EXCEPT ![c] = <<>>]
  /\ attempt' = [attempt EXCEPT ![c] = 0]
  /\ Give(c, None)
  /\ UNCHANGED world

(* The caller is cancelled at an await; a store under way may be finished. *)
Abort(c) ==
  /\ at[c] \in {"lookup", "send", "store", "failed"}
  /\ at[c] = "failed" => WillRetry(c)
  /\ cache' \in IF at[c] = "store" THEN MaybeStored(c) ELSE {cache}
  /\ Give(c, Cancelled)
  /\ Move(c, "done")
  /\ UNCHANGED <<provider, script, req, heard, attempt>>

(* An entry's time to live runs out.                                       *)
Expire(k) ==
  /\ cache[k] # None
  /\ cache' = [cache EXCEPT ![k] = None]
  /\ UNCHANGED <<provider, script, at, req, heard, attempt, result>>

Work(c) ==
  \/ Lookup(c) \/ Refuse(c) \/ Exchange(c) \/ MockExchange(c) \/ Store(c)
  \/ Retry(c) \/ GiveUp(c) \/ Return(c)

Next ==
  \/ \E c \in Callers : Work(c) \/ Abort(c) \/ \E r \in Requests : Start(c, r)
  \/ \E k \in Keys : Expire(k)

(* The event loop runs a caller that can go on; nobody has to call again.  *)
Spec == Init /\ [][Next]_vars /\ \A c \in Callers : WF_vars(Work(c))

-----------------------------------------------------------------------------
(* The variables keep their types; an attempt has at most two exchanges,   *)
(* or one per batch of an embedding.                                       *)
TypeOK ==
  /\ provider \in {"nvidia", "mock", "not_configured"}
  /\ \A k \in Keys : cache[k].is \in {"none", "text"}
  /\ \A c \in Callers :
       /\ at[c] \in {"idle", "lookup", "send", "store", "failed", "done"}
       /\ req[c] \in Requests
       /\ attempt[c] \in 0..MaxAttempts
       /\ Len(heard[c]) <= IF req[c].op = "generate_structured" THEN 2 ELSE req[c].batches
       /\ at[c] = "store" => result[c].is = "value"
       /\ at[c] = "failed" => result[c].is = "error"

Good(op) == {t \in Texts(op) : t \notin {"misfit", "broken"}}

(* The cache holds only what it may: for a deterministic request, a text   *)
(* that an answer to it can have and that passed its parse, whoever of the *)
(* callers failed, was retried or was cancelled meanwhile                  *)
(* (CachingProvider, generate_with_repair).                                *)
CacheSound ==
  \A r \in Requests :
    cache[Key(r)] # None =>
      /\ r.op \in {"embed", "rerank"} \/ r.deterministic
      /\ cache[Key(r)].text \in Good(r.op)

(* What a caller gets is explained by the last attempt: a value was given  *)
(* by the provider; output counts as malformed only if tool calls in it    *)
(* did not decode or the repair was tried and answered; any other error is *)
(* that of the last exchange, one during the repair included, or that of a *)
(* call refused before any; a failing cache backend explains nothing.      *)
ResultExplained ==
  \A c \in Callers : at[c] = "done" =>
    LET res == result[c]  said == heard[c] IN
    /\ res.is = "value" => res.text \in Good(req[c].op)
    /\ res.is = "error" =>
         IF RefusedBy(provider, req[c])
         THEN said = <<>> /\ res = Refusal(provider)
         ELSE /\ said # <<>>
              /\ IF res.category = "malformed_output"
                 THEN \/ Last(said) = Text("broken")
                      \/ said = <<Text("misfit"), Text("misfit")>>
                 ELSE Last(said).is # "text" /\ res.category = ExchangeError(Last(said))
    /\ res.is = "error" /\ res.category \in Retryable => attempt[c] = MaxAttempts
    /\ res.is = "raised" => res.hit \/ Last(said).is = "misshapen"

(* Every call comes back to its caller: repairs, batches and retries end.  *)
EveryCallReturns == \A c \in Callers : at[c] # "idle" ~> at[c] = "idle"

-----------------------------------------------------------------------------
(* cache.py: "callers cannot tell whether a response came from cache".     *)
(* Does a hit always give the value that the call which stored it gave?    *)
HitGivesValue ==
  \A c \in Callers : (result[c].is = "raised") => ~result[c].hit
=============================================================================
