-------------------------------- MODULE RunLog --------------------------------
(***************************************************************************)
(* RunsRepository (northforge/db/repositories/runs.py) for one workflow    *)
(* version and one idempotency key: the creation of the run, its status    *)
(* machine and its trace events, by concurrent database sessions, and a    *)
(* client that follows the events with list_events(after_sequence).        *)
(*                                                                         *)
(* Sessions run READ COMMITTED.  A session keeps the run object it loaded; *)
(* nothing refreshes it.  UPDATE and SELECT ... FOR UPDATE of the run row  *)
(* lock it until the session ends.                                         *)
(***************************************************************************)
EXTENDS Integers, Sequences, FiniteSets, FiniteSetsExt

CONSTANTS
    Creators,       \* requests that create the run with the same idempotency key
    Writers,        \* sessions that move the run's status
    Appenders,      \* sessions that append events
    Limit,          \* list_events' page size
    MaxEvents       \* bound: events appended, committed or not

Sessions == Writers \cup Appenders
NoOne == "nobody"

ASSUME RunLogAssumption ==
    /\ Limit \in Nat \ {0}
    /\ MaxEvents \in Nat
    /\ NoOne \notin Sessions

VARIABLES
    run,            \* the run's row, or NoRun
    log,            \* committed rows of trace_events, as [seq, by]
    lock,           \* the session that holds the run row's lock, or NoOne
    txn,            \* what each session has loaded, changed and appended
    creator,        \* how far each creating request is
    cursor,         \* the follower's last sequence number
    delivered       \* the events list_events returned to it

vars == <<run, log, lock, txn, creator, cursor, delivered>>

Statuses == {"queued", "running", "paused", "completed", "failed", "cancelled"}
Terminal == {"completed", "failed", "cancelled"}
Transitions ==
    [s \in Statuses |->
        CASE s = "queued"  -> {"running", "cancelled"}
          [] s = "running" -> {"paused", "completed", "failed", "cancelled"}
          [] s = "paused"  -> {"running", "cancelled"}
          [] OTHER         -> {}]

Run == [status : Statuses, startedAt : BOOLEAN, completedAt : BOOLEAN]
NoRun == [status |-> "none", startedAt |-> FALSE, completedAt |-> FALSE]
NewRun == [status |-> "queued", startedAt |-> FALSE, completedAt |-> FALSE]

Idle == [open |-> FALSE, object |-> NoRun, dirty |-> {}, pending |-> {}]
Event == [seq : Nat \ {0}, by : Sessions]

TypeOK ==
    /\ run \in Run \cup {NoRun}
    /\ log \subseteq Event
    /\ lock \in Sessions \cup {NoOne}
    /\ txn \in [Sessions -> [open : BOOLEAN, object : Run \cup {NoRun},
                             dirty : SUBSET {"status", "startedAt", "completedAt"},
                             pending : SUBSET Event]]
    /\ creator \in [Creators -> {"start", "refused", "missing", "created", "existing",
                               "failed"}]
    /\ cursor \in Nat
    /\ delivered \subseteq log
    /\ \A s \in Sessions :
         /\ txn[s].dirty # {} \/ txn[s].pending # {} <=> lock = s
         /\ lock = s => txn[s].open
         /\ txn[s].open => run \in Run /\ txn[s].object \in Run

Init ==
    /\ run = NoRun
    /\ log = {}
    /\ lock = NoOne
    /\ txn = [s \in Sessions |-> Idle]
    /\ creator = [c \in Creators |-> "start"]
    /\ cursor = 0
    /\ delivered = {}

---------------------------------------------------------------------------
\* create: the version must be approved; look for a run with the key, then insert.

\* VERSION_NOT_APPROVED.  An approved version stays so, and its other requests saw it.
Refuse(c) ==
    /\ creator[c] = "start"
    /\ \A d \in Creators : creator[d] \in {"start", "refused"}
    /\ creator' = [creator EXCEPT ![c] = "refused"]
    /\ UNCHANGED <<run, log, lock, txn, cursor, delivered>>

\* A refused client may ask again once the version is approved.
LookUp(c) ==
    /\ creator[c] \in {"start", "refused"}
    /\ creator' = [creator EXCEPT ![c] = IF run = NoRun THEN "missing" ELSE "existing"]
    /\ UNCHANGED <<run, log, lock, txn, cursor, delivered>>

\* The INSERT and its commit, under uq_workflow_runs_version_idempotency_key.
Insert(c) ==
    /\ creator[c] = "missing"
    /\ IF run = NoRun
       THEN /\ run' = NewRun
            /\ creator' = [creator EXCEPT ![c] = "created"]
       ELSE /\ creator' = [creator EXCEPT ![c] = "failed"]
            /\ UNCHANGED run
    /\ UNCHANGED <<log, lock, txn, cursor, delivered>>

---------------------------------------------------------------------------
\* One session: load the run, then any transitions and appends, then commit.

MayLock(s) == lock \in {NoOne, s}

Load(s) ==
    /\ ~txn[s].open /\ run # NoRun
    /\ txn' = [txn EXCEPT ![s] = [open |-> TRUE, object |-> run, dirty |-> {},
                                  pending |-> {}]]
    /\ UNCHANGED <<run, log, lock, creator, cursor, delivered>>

\* Bug: started_at is left for the first step to set.
TransitionedUnstarted(object, new) ==
    [object EXCEPT !.status = new, !.completedAt = @ \/ new \in Terminal]

Transitioned(object, new) ==
    [status |-> new,
     startedAt |-> object.startedAt \/ new = "running",
     completedAt |-> object.completedAt \/ new \in Terminal]

\* transition: checked against the object in memory; the flush is an UPDATE of the
\* changed columns.
Move(s, new) ==
    LET object == Transitioned(txn[s].object, new) IN
    /\ txn[s].open /\ MayLock(s)
    /\ new \in Transitions[txn[s].object.status]
    /\ lock' = s
    /\ txn' = [txn EXCEPT ![s].object = object,
                          ![s].dirty = @ \cup {f \in DOMAIN object :
                                                 object[f] # txn[s].object[f]}]
    /\ UNCHANGED <<run, log, creator, cursor, delivered>>

SeqsOf(events) == {e.seq : e \in events}

\* The maximum over what the session can see, itself included, plus one.
NextSequence(s) == Max(SeqsOf(log \cup txn[s].pending) \cup {0}) + 1

EventsMade == Cardinality(log \cup UNION {txn[s].pending : s \in Sessions})

\* Bug: append_event does not lock the run row.
AppendUnlocked(s) ==
    /\ txn[s].open
    /\ EventsMade < MaxEvents
    /\ txn' = [txn EXCEPT ![s].pending = @ \cup {[seq |-> NextSequence(s), by |-> s]}]
    /\ UNCHANGED <<run, log, lock, creator, cursor, delivered>>

\* append_event: SELECT ... FOR UPDATE, SELECT max, INSERT.
AppendEvent(s) ==
    /\ txn[s].open /\ MayLock(s)
    /\ EventsMade < MaxEvents
    /\ lock' = s
    /\ txn' = [txn EXCEPT ![s].pending = @ \cup {[seq |-> NextSequence(s), by |-> s]}]
    /\ UNCHANGED <<run, log, creator, cursor, delivered>>

\* Bug: the lock outlives the session.
UnlockNever(s) == lock' = lock

Unlock(s) == lock' = IF lock = s THEN NoOne ELSE lock

Commit(s) ==
    /\ txn[s].open
    /\ run' = [f \in DOMAIN run |-> IF f \in txn[s].dirty THEN txn[s].object[f] ELSE run[f]]
    /\ log' = log \cup txn[s].pending
    /\ Unlock(s)
    /\ txn' = [txn EXCEPT ![s] = Idle]
    /\ UNCHANGED <<creator, cursor, delivered>>

\* INVALID_RUN_TRANSITION, or the session's process dies.
Rollback(s) ==
    /\ txn[s].open
    /\ Unlock(s)
    /\ txn' = [txn EXCEPT ![s] = Idle]
    /\ UNCHANGED <<run, log, creator, cursor, delivered>>

---------------------------------------------------------------------------
\* Bug: a page of list_events is not sorted, so it may skip events.
PagesUnordered == {p \in SUBSET {e \in log : e.seq > cursor} : Cardinality(p) <= Limit}

\* list_events: the first Limit events after the cursor.
Pages ==
    LET later == {e \in log : e.seq > cursor}
    IN  {p \in SUBSET later :
           /\ Cardinality(p) = IF Cardinality(later) < Limit THEN Cardinality(later) ELSE Limit
           /\ \A e \in p, f \in later \ p : e.seq < f.seq}

\* The follower asks for what comes after the last event it has.
Poll ==
    \E page \in Pages : \E last \in page :
        /\ \A e \in page : e.seq <= last.seq
        /\ cursor' = last.seq
        /\ delivered' = delivered \cup page
        /\ UNCHANGED <<run, log, lock, txn, creator>>

Next ==
    \/ \E c \in Creators : Refuse(c) \/ LookUp(c) \/ Insert(c)
    \/ \E s \in Sessions : Load(s) \/ AppendEvent(s) \/ Commit(s) \/ Rollback(s)
    \/ \E s \in Writers, new \in Statuses : Move(s, new)
    \/ Poll

Spec == Init /\ [][Next]_vars

---------------------------------------------------------------------------
\* Properties.

\* append_event: the row lock makes the sequence number a session computes free until it
\* commits: no append of a session ever meets the unique constraint.
AppendsNeverCollide ==
    /\ \A s, t \in Sessions :
         s # t => SeqsOf(txn[s].pending) \cap SeqsOf(txn[t].pending) = {}
    /\ \A s \in Sessions : SeqsOf(txn[s].pending) \cap SeqsOf(log) = {}

\* Rolled-back appends leave no hole: the committed events of the run are numbered 1..n.
SequenceGapFree == SeqsOf(log) = 1..Cardinality(log)

\* Following by sequence number is sound: an event never becomes visible behind a cursor
\* that has already passed it, however appends and commits interleave.
FollowerMissesNothing == delivered = {e \in log : e.seq <= cursor}

\* The events of S with the numbers 1..n, each known by its session; a hole shows as NoOne.
StreamOf(S, n) ==
    [i \in 1..n |-> IF \E e \in S : e.seq = i THEN (CHOOSE e \in S : e.seq = i).by
                                              ELSE NoOne]

Stream == INSTANCE EventStream
          WITH Sources <- Sessions, Page <- Limit,
               events <- StreamOf(log, Cardinality(log)),
               received <- StreamOf(delivered, cursor)

\* However appends, commits, rollbacks and polls interleave, the table and the cursor
\* implement the stream the trace promises: its order is final once an event is visible,
\* and the client has received a beginning of it, without holes.
ImplementsStream == Stream!Spec

\* The run's row tells one story: it was started unless it never left the queue, and it
\* has a completion time exactly when it is terminal.  (One status writer.)
TimesMatchStatus ==
    /\ run.status \in {"running", "paused", "completed", "failed"} => run.startedAt
    /\ run.completedAt <=> run.status \in Terminal

\* docs/DATABASE_SPEC.md, workflow_runs: "completed, failed, and cancelled are terminal".
\* A session checks the transition against the object it loaded: do two sessions that both
\* leave "running" keep the first one's end?
TerminalIsFinal == [][run.status \in Terminal => run'.status = run.status]_vars

=============================================================================
