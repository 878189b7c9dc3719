-------------------------- MODULE ModelCall_proofs --------------------------
(***************************************************************************)
(* Theorems about ModelCall, for any number of callers, any requests and   *)
(* faults, any script of the mock and any number of attempts.              *)
(***************************************************************************)
EXTENDS ModelCall, SequenceTheorems, TLAPS

-----------------------------------------------------------------------------
(* The inductive invariant.                                                *)

FaultKinds == {"timeout", "unreachable", "status", "unreadable", "misshapen"}
ReplyTexts == {"bare", "wrapped", "misfit", "calls", "broken", "plain"}

Scripted == {ScriptedReply(op, kind) : op \in Operations, kind \in FailureKinds}
Replies == Faults \cup {Text(t) : t \in ReplyTexts} \cup Scripted

(* What can be heard on behalf of an operation: the mock may be told to be *)
(* malformed whatever it is asked for.                                     *)
TextsHeard(op) == Texts(op) \cup (IF provider = "mock" THEN {"broken"} ELSE {})
ReplyTo(op, x) ==
  /\ x \in Replies
  /\ x.is \in FaultKinds \/ \E t \in TextsHeard(op) : x = Text(t)

Failure == [kind : FailureKinds, op : Operations \cup {"any"}, left : Nat]

Shapes ==
  /\ provider \in {"nvidia", "mock", "not_configured"}
  /\ script \in Seq(Failure)
  /\ cache \in [Keys -> {None} \cup {Text(t) : t \in ReplyTexts}]
  /\ at \in [Callers -> {"idle", "lookup", "send", "store", "failed", "done"}]
  /\ req \in [Callers -> Requests]
  /\ heard \in [Callers -> Seq(Replies)]
  /\ attempt \in [Callers -> 0..MaxAttempts]
  /\ DOMAIN result = Callers /\ result = [c \in Callers |-> result[c]]

(* An attempt that has heard `said` and not come to a verdict: nothing     *)
(* yet, the reply to be repaired, or some of the batches.                  *)
Unfinished(adapter, r, said) ==
  \/ said = <<>>
  \/ r.op = "generate_structured" /\ said = <<Text("misfit")>>
  \/ r.op = "embed" /\ adapter # "mock" /\ Len(said) < r.batches

(* The attempt's last exchange explains its error.                         *)
Explains(said, res) ==
  /\ said # <<>>
  /\ IF res.category = "malformed_output"
     THEN \/ Last(said) = Text("broken")
          \/ said = <<Text("misfit"), Text("misfit")>>
     ELSE Last(said).is # "text" /\ res.category = ExchangeError(Last(said))

Explained(adapter, r, said, res) ==
  IF RefusedBy(adapter, r) THEN said = <<>> /\ res = Refusal(adapter)
                           ELSE Explains(said, res)

WithinBound(r, said) ==
  /\ r.op = "generate_structured" => Len(said) <= 2
  /\ r.op # "generate_structured" => Len(said) <= r.batches

(* Where a call is in CachingProvider and RetryPolicy, with what it has    *)
(* heard and what it has for its caller.                                   *)
Consistent(adapter, place, r, said, n, res) ==
  /\ place \in {"idle", "lookup"} => said = <<>>
  /\ place \in {"lookup", "store"} => Cacheable(r)
  /\ place = "send" => Unfinished(adapter, r, said)
  /\ WithinBound(r, said)
  /\ RefusedBy(adapter, r) => said = <<>>
  /\ place = "store" => res.is = "value" /\ res.text \in Good(r.op)
  /\ place = "failed" =>
       res.is = "error" /\ Explained(adapter, r, said, res)
  /\ place = "done" =>
       /\ res.is = "value" => res.text \in Good(r.op)
       /\ res.is = "error" =>
            /\ Explained(adapter, r, said, res)
            /\ res.category \in Retryable => n = MaxAttempts
       /\ res.is = "raised" => res.hit \/ Last(said).is = "misshapen"

CallConsistent(c) ==
  Consistent(provider, at[c], req[c], heard[c], attempt[c], result[c])
CallsConsistent == \A c \in Callers : CallConsistent(c)

CallInvariant == Shapes /\ CacheSound /\ CallsConsistent

LEMMA InvariantExplains == CallInvariant => TypeOK /\ ResultExplained
<1> SUFFICES ASSUME CallInvariant PROVE TypeOK /\ ResultExplained
  OBVIOUS
<1>1. TypeOK
  <2>1. \A k \in Keys : cache[k].is \in {"none", "text"}
    BY DEF CallInvariant, Shapes, None, Text
  <2> QED BY <2>1 DEF TypeOK, CallInvariant, Shapes, CallsConsistent, CallConsistent,
                      Consistent, WithinBound
<1>2. ResultExplained
  BY Zenon DEF ResultExplained, CallInvariant, CallsConsistent, CallConsistent, Consistent,
               Explains, Explained
<1> QED BY <1>1, <1>2

-----------------------------------------------------------------------------
(* The pure part: what a call makes of one more exchange.                  *)

LEMMA TextsAreReplies ==
  \A op : Texts(op) \subseteq ReplyTexts /\ Good(op) \subseteq ReplyTexts
BY DEF Texts, Good, ReplyTexts

LEMMA BatchesOf ==
  ASSUME NEW r \in Requests
  PROVE  Batches(r) \in Nat \ {0} /\ Batches(r) <= r.batches /\ r.batches \in Nat
         /\ (r.op # "embed" => Batches(r) = 1)
BY CallAssumption DEF Batches

LEMMA OneMoreReply ==
  ASSUME NEW said \in Seq(Replies), NEW x \in Replies
  PROVE  /\ Append(said, x) \in Seq(Replies)
         /\ Append(said, x) # <<>>
         /\ Last(Append(said, x)) = x
         /\ Len(Append(said, x)) = Len(said) + 1
         /\ Len(said) \in Nat
BY DEF Last

LEMMA PairAppended ==
  ASSUME NEW a, NEW b
  PROVE  Append(<<a>>, b) = <<a, b>>
<1> DEFINE S == {a, b}
           s == Append(<<a>>, b)
           t == <<a, b>>
<1>1. <<a>> \in Seq(S) /\ Len(<<a>>) = 1
  OBVIOUS
<1>2. s \in Seq(S) /\ Len(s) = 2 /\ s[1] = a /\ s[2] = b
  BY <1>1
<1>3. t \in Seq(S) /\ Len(t) = 2 /\ t[1] = a /\ t[2] = b
  OBVIOUS
<1> HIDE DEF s, t
<1>4. s = t
  BY <1>2, <1>3, SeqEqual
<1> QED BY <1>4 DEF s, t

(* A verdict is one of four, each explained by what was heard.             *)
LEMMA VerdictExplained ==
  ASSUME NEW r \in Requests, NEW said \in Seq(Replies), NEW x,
         ReplyTo(r.op, x), Unfinished(provider, r, said)
  PROVE  LET t == Append(said, x)
             v == Verdict(r, t)
         IN  /\ WithinBound(r, t)
             /\ \/ v = Again /\ Unfinished(provider, r, t)
                \/ v.is = "value" /\ v.text \in Good(r.op)
                \/ v.is = "error" /\ Explains(t, v)
                \/ v.is = "raised" /\ Last(t).is = "misshapen"
<1> DEFINE t == Append(said, x)
           v == Verdict(r, t)
<1>1. /\ t \in Seq(Replies) /\ t # <<>> /\ Last(t) = x
      /\ Len(t) = Len(said) + 1 /\ Len(said) \in Nat
  BY OneMoreReply DEF ReplyTo
<1>2. /\ Batches(r) \in Nat \ {0} /\ Batches(r) <= r.batches /\ r.batches \in Nat
      /\ r.op # "embed" => Batches(r) = 1
  BY BatchesOf
<1>3. /\ said = <<>> => Len(said) = 0
      /\ said = <<Text("misfit")>> => Len(said) = 1
  OBVIOUS
<1>4. WithinBound(r, t)
  <2>1. ASSUME r.op = "generate_structured" PROVE Len(t) <= 2
    <3>1. CASE said = <<>>
      BY <1>1, <1>3, <3>1
    <3>2. CASE said = <<Text("misfit")>>
      BY <1>1, <1>3, <3>2
    <3> QED BY <2>1, <3>1, <3>2 DEF Unfinished
  <2>2. ASSUME r.op # "generate_structured" PROVE Len(t) <= r.batches
    <3>1. Len(said) = 0 \/ Len(said) < r.batches
      BY <1>3, <2>2 DEF Unfinished
    <3> HIDE DEF t, v
    <3> QED BY <1>1, <1>2, <3>1
  <2> HIDE DEF t
  <2> QED BY <2>1, <2>2 DEF WithinBound
<1>5. CASE x.is \in FaultKinds
  <2>1. CASE x.is = "misshapen"
    <3>1. v = Raised(FALSE)
      BY <1>1, <2>1 DEF Verdict
    <3> HIDE DEF v, t
    <3> QED BY <1>1, <1>4, <2>1, <3>1 DEF Raised, t, v
  <2>2. CASE x.is # "misshapen"
    <3>1. v = Error(ExchangeError(x))
      BY <1>1, <1>5, <2>2 DEF Verdict, FaultKinds
    <3>2. ExchangeError(x) # "malformed_output"
      BY DEF ExchangeError, StatusError
    <3>3. Explains(t, v)
      BY <1>1, <1>5, <3>1, <3>2 DEF Explains, Error, FaultKinds
    <3> QED BY <1>4, <3>1, <3>3 DEF Error
  <2> QED BY <2>1, <2>2
<1>6. ASSUME NEW text \in TextsHeard(r.op), x = Text(text)
      PROVE  \/ v = Again /\ Unfinished(provider, r, t)
             \/ v.is = "value" /\ v.text \in Good(r.op)
             \/ v.is = "error" /\ Explains(t, v)
  <2>1. x.is = "text" /\ x.text = text
    BY <1>6 DEF Text
  <2>2. CASE Len(t) < Batches(r)
    <3>1. r.op = "embed"
      BY <1>1, <1>2, <2>2
    <3>2. provider # "mock"
      BY <1>1, <2>2 DEF Batches
    <3>3. text = "plain"
      BY <3>1, <3>2 DEF Texts, TextsHeard
    <3>4. v = Again
      BY <1>1, <2>1, <2>2, <3>3 DEF Verdict
    <3> QED BY <2>2, <3>1, <3>2, <3>4 DEF Unfinished, Batches
  <2>3. CASE ~(Len(t) < Batches(r)) /\ text = "misfit"
    <3>1. r.op = "generate_structured"
      BY <2>3 DEF Texts, TextsHeard
    <3>2. said = <<>> \/ said = <<Text("misfit")>>
      BY <3>1 DEF Unfinished
    <3>3. CASE said = <<>>
      <4>1. t = <<Text("misfit")>> /\ Len(t) = 1
        BY <1>6, <2>3, <3>3
      <4>2. v = Again
        BY <1>1, <2>1, <2>3, <4>1 DEF Verdict
      <4> QED BY <3>1, <4>1, <4>2 DEF Unfinished
    <3>4. CASE said = <<Text("misfit")>>
      <4>1. t = <<Text("misfit"), Text("misfit")>> /\ Len(t) = 2
        <5>1. Append(<<Text("misfit")>>, Text("misfit")) = <<Text("misfit"), Text("misfit")>>
          BY PairAppended
        <5> QED BY <1>6, <2>3, <3>4, <5>1
      <4>2. v = Error("malformed_output")
        BY <1>1, <2>1, <2>3, <4>1 DEF Verdict
      <4> QED BY <1>1, <4>1, <4>2 DEF Error, Explains
    <3> QED BY <3>2, <3>3, <3>4
  <2>4. CASE ~(Len(t) < Batches(r)) /\ text = "broken"
    <3>1. v = Error("malformed_output")
      BY <1>1, <2>1, <2>4 DEF Verdict
    <3>2. Explains(t, v)
      BY <1>1, <1>6, <2>4, <3>1 DEF Explains, Error
    <3> QED BY <3>1, <3>2 DEF Error
  <2>5. CASE ~(Len(t) < Batches(r)) /\ text \notin {"misfit", "broken"}
    <3>1. v = Value(text, FALSE)
      BY <1>1, <2>1, <2>5 DEF Verdict
    <3> QED BY <1>6, <2>5, <3>1 DEF Value, Good, TextsHeard
  <2> QED BY <2>2, <2>3, <2>4, <2>5
<1> QED BY <1>4, <1>5, <1>6 DEF ReplyTo

-----------------------------------------------------------------------------
(* The steps.                                                              *)

(* A step of one caller that is consistent for it is so for all.           *)
LEMMA OneCallMoves ==
  ASSUME CallInvariant, NEW c \in Callers, provider' = provider,
         \A d \in Callers \ {c} :
            /\ at'[d] = at[d] /\ req'[d] = req[d] /\ heard'[d] = heard[d]
            /\ attempt'[d] = attempt[d] /\ result'[d] = result[d],
         CallConsistent(c)'
  PROVE  CallsConsistent'
BY DEF CallInvariant, CallsConsistent, CallConsistent

LEMMA OthersKept ==
  ASSUME Shapes, NEW c \in Callers,
         \/ at' = at \/ \E v : at' = [at EXCEPT ![c] = v],
         \/ req' = req \/ \E v : req' = [req EXCEPT ![c] = v],
         \/ heard' = heard \/ \E v : heard' = [heard EXCEPT ![c] = v],
         \/ attempt' = attempt \/ \E v : attempt' = [attempt EXCEPT ![c] = v],
         \/ result' = result \/ \E v : result' = [result EXCEPT ![c] = v]
  PROVE  \A d \in Callers \ {c} :
            /\ at'[d] = at[d] /\ req'[d] = req[d] /\ heard'[d] = heard[d]
            /\ attempt'[d] = attempt[d] /\ result'[d] = result[d]
<1> SUFFICES ASSUME NEW d \in Callers, d # c
             PROVE  /\ at'[d] = at[d] /\ req'[d] = req[d] /\ heard'[d] = heard[d]
                    /\ attempt'[d] = attempt[d] /\ result'[d] = result[d]
  OBVIOUS
<1>1. at'[d] = at[d] /\ req'[d] = req[d]
  BY DEF Shapes
<1>2. heard'[d] = heard[d] /\ attempt'[d] = attempt[d]
  BY DEF Shapes
<1>3. result'[d] = result[d]
  BY DEF Shapes
<1> QED BY <1>1, <1>2, <1>3

(* The cache is as it was, or holds at the key of a cacheable request a    *)
(* text that is good for it.                                               *)
LEMMA StoredSound ==
  ASSUME CallInvariant, NEW c \in Callers, at[c] = "store", cache' \in MaybeStored(c)
  PROVE  /\ CacheSound'
         /\ cache' \in [Keys -> {None} \cup {Text(t) : t \in ReplyTexts}]
<1> DEFINE r == req[c]
           text == result[c].text
<1>1. r \in Requests /\ Key(r) \in Keys
  BY DEF CallInvariant, Shapes, Keys
<1>2. Cacheable(r) /\ text \in Good(r.op)
  BY DEF CallInvariant, CallsConsistent, CallConsistent, Consistent
<1>3. text \in ReplyTexts
  BY <1>2, TextsAreReplies
<1>4. cache' = cache \/ cache' = [cache EXCEPT ![Key(r)] = Text(text)]
  BY DEF MaybeStored
<1>5. cache \in [Keys -> {None} \cup {Text(t) : t \in ReplyTexts}]
  BY DEF CallInvariant, Shapes
<1> HIDE DEF r, text
<1>6. cache' \in [Keys -> {None} \cup {Text(t) : t \in ReplyTexts}]
  BY <1>3, <1>4, <1>5
<1>7. ASSUME NEW q \in Requests, cache'[Key(q)] # None
      PROVE  /\ q.op \in {"embed", "rerank"} \/ q.deterministic
             /\ cache'[Key(q)].text \in Good(q.op)
  <2>1. Key(q) \in Keys
    BY DEF Keys
  <2>2. CASE cache'[Key(q)] = cache[Key(q)]
    BY <1>7, <2>2 DEF CallInvariant, CacheSound
  <2>3. CASE cache'[Key(q)] # cache[Key(q)]
    <3>1. Key(q) = Key(r) /\ cache'[Key(q)] = Text(text)
      BY <1>1, <1>4, <1>5, <2>1, <2>3
    <3>2. q.op = r.op
      BY <3>1 DEF Key
    <3>3. q.deterministic = r.deterministic
      BY <1>1, <3>1, CallAssumption
    <3> QED BY <1>2, <3>1, <3>2, <3>3 DEF Cacheable, Text
  <2> QED BY <2>2, <2>3
<1> QED BY <1>6, <1>7 DEF CacheSound

LEMMA SameCacheSound == CacheSound /\ cache' = cache => CacheSound'
BY DEF CacheSound

(* One more exchange is heard.                                             *)
LEMMA HearKeeps ==
  ASSUME CallInvariant, NEW c \in Callers, at[c] = "send",
         NEW x, ReplyTo(req[c].op, x), Hear(c, x), script' \in Seq(Failure),
         ~RefusedBy(provider, req[c])
  PROVE  CallInvariant'
<1> DEFINE r == req[c]
           said == heard[c]
           t == Append(said, x)
           v == Verdict(r, t)
<1>1. /\ r \in Requests /\ said \in Seq(Replies) /\ x \in Replies
      /\ attempt[c] \in 0..MaxAttempts
  BY DEF CallInvariant, Shapes, ReplyTo
<1>2. Unfinished(provider, r, said)
  BY DEF CallInvariant, CallsConsistent, CallConsistent, Consistent
<1>3. UNCHANGED <<provider, cache, req, attempt>>
  BY DEF Hear
<1>4. heard' = [heard EXCEPT ![c] = t] /\ t \in Seq(Replies)
  BY <1>1, OneMoreReply DEF Hear
<1>5. \/ v = Again /\ at' = at /\ result' = result
      \/ /\ v.is = "value" /\ result' = [result EXCEPT ![c] = v]
         /\ at' = [at EXCEPT ![c] = IF Cacheable(r) THEN "store" ELSE "done"]
      \/ /\ v.is = "error" /\ result' = [result EXCEPT ![c] = v]
         /\ at' = [at EXCEPT ![c] = "failed"]
      \/ /\ v.is = "raised" /\ result' = [result EXCEPT ![c] = v]
         /\ at' = [at EXCEPT ![c] = "done"]
  BY DEF Hear, Give, Move
<1>6. /\ WithinBound(r, t)
      /\ \/ v = Again /\ Unfinished(provider, r, t)
         \/ v.is = "value" /\ v.text \in Good(r.op)
         \/ v.is = "error" /\ Explains(t, v)
         \/ v.is = "raised" /\ Last(t).is = "misshapen"
  BY <1>1, <1>2, VerdictExplained
<1>7. Again.is = "again"
  BY DEF Again
<1> HIDE DEF r, said, t, v
<1>8. Shapes'
  BY <1>3, <1>4, <1>5 DEF CallInvariant, Shapes
<1>9. heard'[c] = t /\ req'[c] = r /\ attempt'[c] = attempt[c] /\ provider' = provider
  BY <1>3, <1>4 DEF CallInvariant, Shapes, r
<1>10. \/ v = Again /\ at'[c] = "send"
       \/ v.is = "value" /\ result'[c] = v /\ at'[c] = "store" /\ Cacheable(r)
       \/ v.is = "value" /\ result'[c] = v /\ at'[c] = "done"
       \/ v.is = "error" /\ result'[c] = v /\ at'[c] = "failed"
       \/ v.is = "raised" /\ result'[c] = v /\ at'[c] = "done"
  BY <1>5 DEF CallInvariant, Shapes
<1>11. Consistent(provider, at'[c], r, t, attempt[c], result'[c])
  BY <1>6, <1>7, <1>10 DEF Consistent, Explained, r
<1>12. CallConsistent(c)'
  BY <1>9, <1>11 DEF CallConsistent
<1>13. CallsConsistent'
  BY <1>3, <1>4, <1>5, <1>12, OneCallMoves, OthersKept DEF CallInvariant
<1> QED BY <1>3, <1>8, <1>13, SameCacheSound DEF CallInvariant

(* A step of one caller that leaves the adapter and what the cache holds   *)
(* alone, and is consistent for that caller.                               *)
LEMMA QuietStep ==
  ASSUME CallInvariant, NEW c \in Callers, UNCHANGED world, Shapes',
         \/ at' = at \/ \E v : at' = [at EXCEPT ![c] = v],
         \/ req' = req \/ \E v : req' = [req EXCEPT ![c] = v],
         \/ heard' = heard \/ \E v : heard' = [heard EXCEPT ![c] = v],
         \/ attempt' = attempt \/ \E v : attempt' = [attempt EXCEPT ![c] = v],
         \/ result' = result \/ \E v : result' = [result EXCEPT ![c] = v],
         CallConsistent(c)'
  PROVE  CallInvariant'
<1>1. provider' = provider /\ cache' = cache
  BY DEF world
<1>2. CallsConsistent'
  BY <1>1, OneCallMoves, OthersKept DEF CallInvariant
<1> QED BY <1>1, <1>2, SameCacheSound DEF CallInvariant

(* What the mock is scripted to do is something it can be heard to do.     *)
LEMMA ScriptedIsReply ==
  ASSUME provider = "mock", NEW op \in Operations, NEW kind \in FailureKinds
  PROVE  ReplyTo(op, ScriptedReply(op, kind))
<1> DEFINE x == ScriptedReply(op, kind)
<1>1. x \in Replies
  BY DEF Replies, Scripted
<1>2. CASE kind = "malformed_json"
  <2>1. x = Text(IF op = "generate_structured" THEN "misfit" ELSE "broken")
    BY <1>2 DEF ScriptedReply
  <2> QED BY <1>1, <2>1 DEF ReplyTo, TextsHeard, Texts
<1>3. CASE kind = "timeout"
  <2>1. x = [is |-> "timeout"]
    BY <1>3 DEF ScriptedReply
  <2>2. x.is \in FaultKinds
    BY <2>1 DEF FaultKinds
  <2> QED BY <1>1, <2>2 DEF ReplyTo
<1>4. CASE kind \notin {"malformed_json", "timeout"}
  <2>1. x.is = "status"
    BY <1>4 DEF ScriptedReply, FailureKinds
  <2>2. x.is \in FaultKinds
    BY <2>1 DEF FaultKinds
  <2> QED BY <1>1, <2>2 DEF ReplyTo
<1> QED BY <1>2, <1>3, <1>4

LEMMA StepInvariant == CallInvariant /\ [Next]_vars => CallInvariant'
<1> SUFFICES ASSUME CallInvariant, [Next]_vars PROVE CallInvariant'
  OBVIOUS
<1>0. Shapes /\ CacheSound
  BY DEF CallInvariant
<1>a. \A c \in Callers :
        Consistent(provider, at[c], req[c], heard[c], attempt[c], result[c])
  BY DEF CallInvariant, CallsConsistent, CallConsistent
<1>1. CASE UNCHANGED vars
  BY <1>0, <1>1 DEF CallInvariant, Shapes, CacheSound, CallsConsistent, CallConsistent, vars
<1>2. ASSUME NEW c \in Callers, NEW r \in Requests, Start(c, r) PROVE CallInvariant'
  <2>1. 1 \in 0..MaxAttempts
    BY CallAssumption
  <2>2. /\ at' = [at EXCEPT ![c] = FirstStep(r)] /\ req' = [req EXCEPT ![c] = r]
        /\ attempt' = [attempt EXCEPT ![c] = 1]
        /\ UNCHANGED <<world, heard, result>>
    BY <1>2 DEF Start, Move
  <2>3. FirstStep(r) \in {"lookup", "send"} /\ (FirstStep(r) = "lookup" => Cacheable(r))
    BY DEF FirstStep
  <2>4. Shapes'
    BY <1>0, <2>1, <2>2, <2>3 DEF Shapes, world
  <2>5. heard[c] = <<>>
    BY <1>2, <1>a DEF Start, Consistent
  <2>6. /\ at'[c] = FirstStep(r) /\ req'[c] = r /\ heard'[c] = <<>> /\ provider' = provider
    BY <1>0, <2>2, <2>5 DEF Shapes, world
  <2>7. WithinBound(r, <<>>)
    BY CallAssumption DEF WithinBound
  <2>8. Consistent(provider, FirstStep(r), r, <<>>, attempt'[c], result'[c])
    BY <2>3, <2>7 DEF Consistent, Unfinished
  <2>9. CallConsistent(c)'
    BY <2>6, <2>8 DEF CallConsistent
  <2> QED BY <2>2, <2>4, <2>9, QuietStep
<1>3. ASSUME NEW c \in Callers, Lookup(c) PROVE CallInvariant'
  <2> DEFINE r == req[c]
             text == cache[Key(r)].text
  <2>1. at[c] = "lookup" /\ UNCHANGED <<world, req, heard, attempt>>
    BY <1>3 DEF Lookup
  <2>2. r \in Requests /\ heard[c] = <<>> /\ WithinBound(r, <<>>)
    BY <1>0, <1>a, <2>1 DEF Shapes, Consistent
  <2>3. CASE Move(c, "send") /\ UNCHANGED result
    <3>1. Shapes'
      BY <1>0, <2>1, <2>3 DEF Shapes, Move, world
    <3>2. /\ at'[c] = "send" /\ req'[c] = r /\ heard'[c] = <<>> /\ provider' = provider
      BY <1>0, <2>1, <2>2, <2>3 DEF Shapes, Move, world
    <3>3. Consistent(provider, "send", r, <<>>, attempt'[c], result'[c])
      BY <2>2 DEF Consistent, Unfinished
    <3>4. CallConsistent(c)'
      BY <3>2, <3>3 DEF CallConsistent
    <3> QED BY <2>1, <2>3, <3>1, <3>4, QuietStep DEF Move
  <2>4. CASE cache[Key(r)] # None /\ Give(c, Replayed(r, text)) /\ Move(c, "done")
    <3>1. Shapes'
      BY <1>0, <2>1, <2>4 DEF Shapes, Move, Give, world
    <3>2. /\ at'[c] = "done" /\ req'[c] = r /\ heard'[c] = <<>> /\ provider' = provider
          /\ result'[c] = Replayed(r, text)
      BY <1>0, <2>1, <2>2, <2>4 DEF Shapes, Move, Give, world
    <3>3. text \in Good(r.op)
      BY <1>0, <2>2, <2>4 DEF CacheSound
    <3>4. \/ Replayed(r, text) = Raised(TRUE)
          \/ Replayed(r, text) = Value(text, TRUE)
      BY DEF Replayed
    <3> HIDE DEF text, r
    <3>5. Consistent(provider, "done", r, <<>>, attempt'[c], Replayed(r, text))
      BY <2>2, <3>3, <3>4 DEF Consistent, Raised, Value
    <3>6. CallConsistent(c)'
      BY <3>2, <3>5 DEF CallConsistent
    <3> QED BY <2>1, <2>4, <3>1, <3>6, QuietStep DEF Move, Give
  <2> QED BY <1>3, <2>3, <2>4 DEF Lookup
<1>4. ASSUME NEW c \in Callers, Exchange(c) PROVE CallInvariant'
  <2>1. PICK x \in Exchanges(req[c].op) : Hear(c, x)
    BY <1>4 DEF Exchange
  <2>2. ReplyTo(req[c].op, x)
    BY TextsAreReplies, CallAssumption
       DEF Exchanges, ReplyTo, Replies, TextsHeard, FaultKinds
  <2>3. script' \in Seq(Failure) /\ at[c] = "send" /\ ~RefusedBy(provider, req[c])
    BY <1>0, <1>4 DEF Exchange, Shapes
  <2> QED BY <2>1, <2>2, <2>3, HearKeeps
<1>5. ASSUME NEW c \in Callers, MockExchange(c) PROVE CallInvariant'
  <2> DEFINE op == req[c].op
  <2>1. provider = "mock" /\ at[c] = "send" /\ ~RefusedBy(provider, req[c])
    BY <1>5 DEF MockExchange, RefusedBy
  <2>2. op \in Operations
    BY <1>0, CallAssumption DEF Shapes
  <2>3. ASSUME NEW text \in MockTexts(op), Hear(c, Text(text)), UNCHANGED script
        PROVE CallInvariant'
    <3>1. text \in Texts(op) \cup {"broken"}
      BY DEF MockTexts, Texts
    <3>2. ReplyTo(op, Text(text))
      BY <2>1, <3>1, TextsAreReplies DEF ReplyTo, Replies, TextsHeard, ReplyTexts
    <3>3. script' \in Seq(Failure)
      BY <1>0, <2>3 DEF Shapes
    <3> QED BY <2>1, <2>3, <3>2, <3>3, HearKeeps
  <2>4. ASSUME NEW i \in Due(op), Hear(c, ScriptedReply(op, script[i].kind)),
               script' = PlayedOut(i)
        PROVE CallInvariant'
    <3>1. i \in DOMAIN script /\ script[i] \in Failure /\ script[i].left > 0
      BY <1>0 DEF Due, Shapes
    <3>2. [script[i] EXCEPT !.left = @ - 1] \in Failure
      BY <3>1 DEF Failure
    <3>3. script' \in Seq(Failure)
      BY <1>0, <2>4, <3>1, <3>2 DEF PlayedOut, Shapes
    <3>4. script[i].kind \in FailureKinds
      BY <3>1 DEF Failure
    <3>5. ReplyTo(op, ScriptedReply(op, script[i].kind))
      BY <2>1, <2>2, <3>4, ScriptedIsReply
    <3> QED BY <2>1, <2>4, <3>3, <3>5, HearKeeps
  <2> QED BY <1>5, <2>3, <2>4 DEF MockExchange
<1>12. ASSUME NEW c \in Callers, Refuse(c) PROVE CallInvariant'
  <2> DEFINE r == req[c]
  <2>1. /\ at[c] = "send" /\ RefusedBy(provider, r)
        /\ at' = [at EXCEPT ![c] = "failed"]
        /\ result' = [result EXCEPT ![c] = Refusal(provider)]
        /\ UNCHANGED <<world, req, heard, attempt>>
    BY <1>12 DEF Refuse, Move, Give
  <2>2. Shapes'
    BY <1>0, <2>1 DEF Shapes, world
  <2>3. /\ at'[c] = "failed" /\ req'[c] = r /\ heard'[c] = heard[c]
        /\ provider' = provider /\ result'[c] = Refusal(provider)
    BY <1>0, <2>1 DEF Shapes, world
  <2>4. heard[c] = <<>> /\ WithinBound(r, heard[c])
    BY <1>a, <2>1 DEF Consistent
  <2>5. Refusal(provider).is = "error"
    BY DEF Refusal, Error
  <2> HIDE DEF r
  <2>6. Consistent(provider, "failed", r, heard[c], attempt'[c], Refusal(provider))
    BY <2>1, <2>4, <2>5 DEF Consistent, Explained
  <2>7. CallConsistent(c)'
    BY <2>3, <2>6 DEF CallConsistent
  <2> QED BY <2>1, <2>2, <2>7, QuietStep
<1>6. ASSUME NEW c \in Callers, Store(c) PROVE CallInvariant'
  <2>1. /\ at[c] = "store" /\ cache' \in MaybeStored(c)
        /\ at' = [at EXCEPT ![c] = "done"]
        /\ UNCHANGED <<provider, script, req, heard, attempt, result>>
    BY <1>6 DEF Store, Move
  <2>2. /\ CacheSound'
        /\ cache' \in [Keys -> {None} \cup {Text(t) : t \in ReplyTexts}]
    BY <2>1, StoredSound
  <2>3. Shapes'
    BY <1>0, <2>1, <2>2 DEF Shapes
  <2>4. at'[c] = "done"
    BY <1>0, <2>1 DEF Shapes
  <2>5. Consistent(provider, "done", req[c], heard[c], attempt[c], result[c])
    BY <1>a, <2>1 DEF Consistent
  <2>6. CallConsistent(c)'
    BY <2>1, <2>4, <2>5 DEF CallConsistent
  <2>7. CallsConsistent'
    BY <1>0, <2>1, <2>6, OneCallMoves, OthersKept
  <2> QED BY <2>2, <2>3, <2>7 DEF CallInvariant
<1>7. ASSUME NEW c \in Callers, Retry(c) PROVE CallInvariant'
  <2> DEFINE r == req[c]
  <2>1. /\ at' = [at EXCEPT ![c] = FirstStep(r)]
        /\ heard' = [heard EXCEPT ![c] = <<>>]
        /\ attempt' = [attempt EXCEPT ![c] = @ + 1]
        /\ result' = [result EXCEPT ![c] = None]
        /\ UNCHANGED <<world, req>>
    BY <1>7 DEF Retry, Move, Give
  <2>2. attempt[c] + 1 \in 0..MaxAttempts
    BY <1>0, <1>7, CallAssumption DEF Retry, WillRetry, Shapes
  <2>3. FirstStep(r) \in {"lookup", "send"} /\ (FirstStep(r) = "lookup" => Cacheable(r))
    BY DEF FirstStep
  <2>4. Shapes'
    <3>1. /\ provider' \in {"nvidia", "mock", "not_configured"} /\ script' \in Seq(Failure)
          /\ cache' \in [Keys -> {None} \cup {Text(t) : t \in ReplyTexts}]
      BY <1>0, <2>1 DEF Shapes, world
    <3>2. /\ at' \in [Callers -> {"idle", "lookup", "send", "store", "failed", "done"}]
          /\ req' \in [Callers -> Requests]
      BY <1>0, <2>1, <2>2, <2>3 DEF Shapes
    <3>3. heard' \in [Callers -> Seq(Replies)]
      BY <1>0, <2>1 DEF Shapes
    <3>4. attempt' \in [Callers -> 0..MaxAttempts]
      BY <1>0, <2>1, <2>2 DEF Shapes
    <3>5. DOMAIN result' = Callers /\ result' = [d \in Callers |-> result'[d]]
      BY <1>0, <2>1 DEF Shapes
    <3> QED BY <3>1, <3>2, <3>3, <3>4, <3>5 DEF Shapes
  <2>5. /\ at'[c] = FirstStep(r) /\ req'[c] = r /\ heard'[c] = <<>> /\ provider' = provider
    BY <1>0, <2>1 DEF Shapes, world
  <2>6. WithinBound(r, <<>>)
    <3>1. r \in Requests
      BY <1>0 DEF Shapes
    <3> QED BY <3>1, CallAssumption DEF WithinBound
  <2> HIDE DEF r
  <2>7. Consistent(provider, FirstStep(r), r, <<>>, attempt'[c], result'[c])
    BY <2>3, <2>6 DEF Consistent, Unfinished
  <2>8. CallConsistent(c)'
    BY <2>5, <2>7 DEF CallConsistent
  <2> QED BY <2>1, <2>4, <2>8, QuietStep
<1>8. ASSUME NEW c \in Callers, GiveUp(c) PROVE CallInvariant'
  <2>1. /\ at[c] = "failed" /\ ~WillRetry(c) /\ at' = [at EXCEPT ![c] = "done"]
        /\ UNCHANGED <<world, req, heard, attempt, result>>
    BY <1>8 DEF GiveUp, Move
  <2>2. Shapes'
    BY <1>0, <2>1 DEF Shapes, world
  <2>3. at'[c] = "done" /\ provider' = provider
    BY <1>0, <2>1 DEF Shapes, world
  <2>4. result[c].category \in Retryable => attempt[c] = MaxAttempts
    BY <1>0, <2>1, CallAssumption DEF WillRetry, Shapes
  <2>5. Consistent(provider, "done", req[c], heard[c], attempt[c], result[c])
    BY <1>a, <2>1, <2>4 DEF Consistent
  <2>6. CallConsistent(c)'
    BY <2>1, <2>3, <2>5 DEF CallConsistent
  <2> QED BY <2>1, <2>2, <2>6, QuietStep
<1>9. ASSUME NEW c \in Callers, Return(c) PROVE CallInvariant'
  <2>1. /\ at' = [at EXCEPT ![c] = "idle"]
        /\ req' = [req EXCEPT ![c] = AnyRequest]
        /\ heard' = [heard EXCEPT ![c] = <<>>]
        /\ attempt' = [attempt EXCEPT ![c] = 0]
        /\ result' = [result EXCEPT ![c] = None]
        /\ UNCHANGED world
    BY <1>9 DEF Return, Move, Give
  <2>2. AnyRequest \in Requests /\ 0 \in 0..MaxAttempts
    BY CallAssumption DEF AnyRequest
  <2>3. Shapes'
    <3>1. /\ provider' \in {"nvidia", "mock", "not_configured"} /\ script' \in Seq(Failure)
          /\ cache' \in [Keys -> {None} \cup {Text(t) : t \in ReplyTexts}]
      BY <1>0, <2>1 DEF Shapes, world
    <3>2. /\ at' \in [Callers -> {"idle", "lookup", "send", "store", "failed", "done"}]
          /\ req' \in [Callers -> Requests]
      BY <1>0, <2>1, <2>2 DEF Shapes
    <3>3. heard' \in [Callers -> Seq(Replies)]
      BY <1>0, <2>1 DEF Shapes
    <3>4. attempt' \in [Callers -> 0..MaxAttempts]
      BY <1>0, <2>1, <2>2 DEF Shapes
    <3>5. DOMAIN result' = Callers /\ result' = [d \in Callers |-> result'[d]]
      BY <1>0, <2>1 DEF Shapes
    <3> QED BY <3>1, <3>2, <3>3, <3>4, <3>5 DEF Shapes
  <2>4. /\ at'[c] = "idle" /\ req'[c] = AnyRequest /\ heard'[c] = <<>>
        /\ provider' = provider
    BY <1>0, <2>1 DEF Shapes, world
  <2>5. WithinBound(AnyRequest, <<>>)
    BY <2>2, CallAssumption DEF WithinBound
  <2>6. Consistent(provider, "idle", AnyRequest, <<>>, attempt'[c], result'[c])
    BY <2>5 DEF Consistent
  <2>7. CallConsistent(c)'
    BY <2>4, <2>6 DEF CallConsistent
  <2> QED BY <2>1, <2>3, <2>7, QuietStep
<1>10. ASSUME NEW c \in Callers, Abort(c) PROVE CallInvariant'
  <2>1. /\ at' = [at EXCEPT ![c] = "done"] /\ result' = [result EXCEPT ![c] = Cancelled]
        /\ UNCHANGED <<provider, script, req, heard, attempt>>
    BY <1>10 DEF Abort, Move, Give
  <2>2. /\ CacheSound'
        /\ cache' \in [Keys -> {None} \cup {Text(t) : t \in ReplyTexts}]
    <3>1. CASE at[c] = "store"
      BY <1>10, <3>1, StoredSound DEF Abort
    <3>2. CASE at[c] # "store"
      <4>1. cache' = cache
        BY <1>10, <3>2 DEF Abort
      <4> QED BY <1>0, <4>1, SameCacheSound DEF Shapes
    <3> QED BY <3>1, <3>2
  <2>3. Shapes'
    BY <1>0, <2>1, <2>2 DEF Shapes
  <2>4. at'[c] = "done" /\ result'[c] = Cancelled
    BY <1>0, <2>1 DEF Shapes
  <2>5. Consistent(provider, "done", req[c], heard[c], attempt[c], Cancelled)
    BY <1>a DEF Consistent, Cancelled
  <2>6. CallConsistent(c)'
    BY <2>1, <2>4, <2>5 DEF CallConsistent
  <2>7. CallsConsistent'
    BY <1>0, <2>1, <2>6, OneCallMoves, OthersKept
  <2> QED BY <2>2, <2>3, <2>7 DEF CallInvariant
<1>11. ASSUME NEW k \in Keys, Expire(k) PROVE CallInvariant'
  <2>1. /\ cache' = [cache EXCEPT ![k] = None]
        /\ UNCHANGED <<provider, script, at, req, heard, attempt, result>>
    BY <1>11 DEF Expire
  <2>2. Shapes'
    BY <1>0, <2>1 DEF Shapes
  <2>3. \A l \in Keys : cache'[l] # None => cache'[l] = cache[l]
    BY <1>0, <2>1 DEF Shapes
  <2>4. CacheSound'
    BY <1>0, <2>3 DEF CacheSound, Keys
  <2>5. CallsConsistent'
    BY <1>a, <2>1 DEF CallsConsistent, CallConsistent
  <2> QED BY <2>2, <2>4, <2>5 DEF CallInvariant
<1> QED BY <1>1, <1>2, <1>3, <1>4, <1>5, <1>6, <1>7, <1>8, <1>9, <1>10, <1>11, <1>12
        DEF Next, Work

LEMMA InitInvariant == Init => CallInvariant
<1> SUFFICES ASSUME Init PROVE CallInvariant
  OBVIOUS
<1>1. AnyRequest \in Requests /\ 0 \in 0..MaxAttempts
  BY CallAssumption DEF AnyRequest
<1>2. Shapes
  <2>1. script \in Seq(Failure)
    <3>1. <<>> \in Seq(Failure)
      OBVIOUS
    <3> QED BY <3>1, CallAssumption DEF Init, Failure
  <2>2. provider \in {"nvidia", "mock", "not_configured"}
    BY DEF Init
  <2> QED BY <1>1, <2>1, <2>2 DEF Shapes, Init
<1>3. CacheSound
  BY DEF CacheSound, Init, Keys
<1>4. CallsConsistent
  <2>1. WithinBound(AnyRequest, <<>>)
    BY <1>1, CallAssumption DEF WithinBound
  <2> QED BY <2>1 DEF CallsConsistent, CallConsistent, Consistent, Init
<1> QED BY <1>2, <1>3, <1>4 DEF CallInvariant

LEMMA Invariance == Spec => []CallInvariant
<1> QED BY InitInvariant, StepInvariant, PTL DEF Spec

-----------------------------------------------------------------------------
(* The theorems.                                                           *)

(* Every reachable state is well typed, and an attempt never has more      *)
(* exchanges than one repair, or one per batch, allows.                    *)
THEOREM TypeCorrect == Spec => []TypeOK
<1> QED BY Invariance, InvariantExplains, PTL

(* Whoever fails, retries or is cancelled meanwhile, the shared cache only *)
(* holds texts that passed their parse, for requests that may be cached.   *)
THEOREM CacheStaysSound == Spec => []CacheSound
<1>1. CallInvariant => CacheSound
  BY DEF CallInvariant
<1> QED BY <1>1, Invariance, PTL

(* Whatever a call gives its caller follows from the exchanges of its last *)
(* attempt, and no retryable error is returned while attempts are left.    *)
THEOREM ResultsExplained == Spec => []ResultExplained
<1> QED BY Invariance, InvariantExplains, PTL
=============================================================================
