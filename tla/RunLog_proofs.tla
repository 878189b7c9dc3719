---------------------------- MODULE RunLog_proofs ----------------------------
(***************************************************************************)
(* Theorems about RunLog, for any number of sessions and followers' page   *)
(* sizes.                                                                  *)
(***************************************************************************)
EXTENDS RunLog, FiniteSetTheorems, SequenceTheorems, TLAPS

---------------------------------------------------------------------------
\* Type correctness.

\* A transition the table allows changes the status, and gives a well-typed row.
LEMMA TransitionTypes ==
    ASSUME NEW object \in Run, NEW new \in Transitions[object.status]
    PROVE  Transitioned(object, new) \in Run /\ new # object.status
<1>1. object.status \in Statuses
  BY DEF Run
<1>2. new \in Statuses /\ new # object.status
  BY <1>1 DEF Transitions, Statuses
<1> QED BY <1>2 DEF Transitioned, Run

SessionTypes(t, l, r) ==
    /\ t \in [Sessions -> [open : BOOLEAN, object : Run \cup {NoRun},
                           dirty : SUBSET {"status", "startedAt", "completedAt"},
                           pending : SUBSET Event]]
    /\ l \in Sessions \cup {NoOne}
    /\ \A s \in Sessions :
         /\ t[s].dirty # {} \/ t[s].pending # {} <=> l = s
         /\ l = s => t[s].open
         /\ t[s].open => r \in Run /\ t[s].object \in Run

\* A session that ends leaves the others as they were and the lock to nobody but them.
LEMMA EndTypes ==
    ASSUME TypeOK, NEW s \in Sessions, Unlock(s), txn' = [txn EXCEPT ![s] = Idle],
           run' \in Run
    PROVE  SessionTypes(txn', lock', run')
<1>1. txn' \in [Sessions -> [open : BOOLEAN, object : Run \cup {NoRun},
                             dirty : SUBSET {"status", "startedAt", "completedAt"},
                             pending : SUBSET Event]]
  BY DEF TypeOK, Idle
<1>2. lock' \in Sessions \cup {NoOne}
  BY DEF TypeOK, Unlock
<1>3. ASSUME NEW r \in Sessions
      PROVE  /\ txn'[r].dirty # {} \/ txn'[r].pending # {} <=> lock' = r
             /\ lock' = r => txn'[r].open
             /\ txn'[r].open => txn'[r].object \in Run
  <2>1. CASE r = s
    BY <2>1, RunLogAssumption DEF TypeOK, Unlock, Idle
  <2>2. CASE r # s
    BY <2>2, RunLogAssumption DEF TypeOK, Unlock
  <2> QED BY <2>1, <2>2
<1> QED BY <1>1, <1>2, <1>3 DEF SessionTypes

LEMMA InitTypeOK == Init => TypeOK
<1> SUFFICES ASSUME Init PROVE TypeOK
  OBVIOUS
<1>1. txn \in [Sessions -> [open : BOOLEAN, object : Run \cup {NoRun},
                            dirty : SUBSET {"status", "startedAt", "completedAt"},
                            pending : SUBSET Event]]
  BY DEF Init, Idle
<1> QED BY <1>1, RunLogAssumption DEF Init, TypeOK, Idle

\* A session that takes or keeps the lock and changes its own part.
LEMMA LockedTypes ==
    ASSUME TypeOK, NEW s \in Sessions, txn[s].open, MayLock(s), lock' = s,
           NEW t, t \in [open : {TRUE}, object : Run,
                         dirty : SUBSET {"status", "startedAt", "completedAt"},
                         pending : SUBSET Event],
           t.dirty # {} \/ t.pending # {},
           txn' = [txn EXCEPT ![s] = t]
    PROVE  SessionTypes(txn', lock', run)
<1>1. txn' \in [Sessions -> [open : BOOLEAN, object : Run \cup {NoRun},
                             dirty : SUBSET {"status", "startedAt", "completedAt"},
                             pending : SUBSET Event]]
  BY DEF TypeOK
<1>2. ASSUME NEW r \in Sessions
      PROVE  /\ txn'[r].dirty # {} \/ txn'[r].pending # {} <=> lock' = r
             /\ lock' = r => txn'[r].open
             /\ txn'[r].open => run \in Run /\ txn'[r].object \in Run
  <2>1. CASE r = s
    BY <2>1 DEF TypeOK
  <2>2. CASE r # s
    BY <2>2, RunLogAssumption DEF TypeOK, MayLock
  <2> QED BY <2>1, <2>2
<1> QED BY <1>1, <1>2 DEF SessionTypes

---------------------------------------------------------------------------
\* The event log.

\* The inductive invariant: the committed events are numbered 1..n, what a session has
\* appended continues them, and the follower has what lies before its cursor.
LogInv ==
    /\ IsFiniteSet(log)
    /\ SeqsOf(log) = 1..Cardinality(log)
    /\ \A s \in Sessions :
         /\ IsFiniteSet(txn[s].pending)
         /\ SeqsOf(txn[s].pending) =
              (Cardinality(log) + 1)..(Cardinality(log) + Cardinality(txn[s].pending))
    /\ cursor \in 0..Cardinality(log)
    /\ delivered = {e \in log : e.seq <= cursor}

\* The maximum of 0..n.
LEMMA MaxOfInterval ==
    ASSUME NEW n \in Nat
    PROVE  Max(0..n) = n
BY DEF Max

\* Two adjoining intervals, and zero.
LEMMA JoinIntervals ==
    ASSUME NEW k \in Nat, NEW p \in Nat
    PROVE  /\ (1..k) \cup ((k + 1)..(k + p)) = 1..(k + p)
           /\ (1..(k + p)) \cup {0} = 0..(k + p)
OBVIOUS

\* A session computes the number after the last event it can see.
LEMMA NextSequenceIs ==
    ASSUME LogInv, NEW s \in Sessions
    PROVE  /\ Cardinality(log) \in Nat /\ Cardinality(txn[s].pending) \in Nat
           /\ NextSequence(s) = Cardinality(log) + Cardinality(txn[s].pending) + 1
<1> DEFINE k == Cardinality(log)
           p == Cardinality(txn[s].pending)
<1>1. k \in Nat /\ p \in Nat
  BY FS_CardinalityType DEF LogInv
<1>2. SeqsOf(log) = 1..k /\ SeqsOf(txn[s].pending) = (k + 1)..(k + p)
  BY DEF LogInv
<1>3. SeqsOf(log \cup txn[s].pending) = SeqsOf(log) \cup SeqsOf(txn[s].pending)
  BY DEF SeqsOf
<1>4. NextSequence(s) = Max(SeqsOf(log \cup txn[s].pending) \cup {0}) + 1
  BY DEF NextSequence
<1> HIDE DEF k, p
<1>5. SeqsOf(log \cup txn[s].pending) \cup {0} = 0..(k + p)
  <2>1. SeqsOf(log \cup txn[s].pending) = (1..k) \cup ((k + 1)..(k + p))
    BY <1>2, <1>3
  <2>2. (1..k) \cup ((k + 1)..(k + p)) = 1..(k + p)
    BY <1>1, JoinIntervals
  <2>3. (1..(k + p)) \cup {0} = 0..(k + p)
    BY <1>1, JoinIntervals
  <2> QED BY <2>1, <2>2, <2>3
<1>6. k + p \in Nat
  BY <1>1
<1>7. NextSequence(s) = k + p + 1
  BY <1>4, <1>5, <1>6, MaxOfInterval
<1> QED BY <1>1, <1>7 DEF k, p

\* Only the session that holds the lock has appended anything.
LEMMA OthersPendNothing ==
    ASSUME TypeOK, NEW s \in Sessions, lock = s, NEW r \in Sessions, r # s
    PROVE  txn[r].pending = {}
BY DEF TypeOK

LEMMA PendingFollowsLog ==
    ASSUME LogInv, NEW s \in Sessions
    PROVE  /\ \A e \in txn[s].pending : e.seq > Cardinality(log)
           /\ \A e \in log : e.seq \in 1..Cardinality(log)
<1>1. Cardinality(log) \in Nat /\ Cardinality(txn[s].pending) \in Nat
  BY NextSequenceIs
<1>2. \A e \in txn[s].pending : e.seq \in SeqsOf(txn[s].pending)
  BY DEF SeqsOf
<1>3. \A e \in log : e.seq \in SeqsOf(log)
  BY DEF SeqsOf
<1> QED BY <1>1, <1>2, <1>3 DEF LogInv

\* A commit appends what the session had pending to the log.
LEMMA CommitKeepsLog ==
    ASSUME TypeOK, LogInv, NEW s \in Sessions, Commit(s)
    PROVE  LogInv'
<1> DEFINE k == Cardinality(log)
           p == Cardinality(txn[s].pending)
<1>1. /\ log' = log \cup txn[s].pending
      /\ txn' = [txn EXCEPT ![s] = Idle]
      /\ UNCHANGED <<cursor, delivered>>
  BY DEF Commit
<1>2. k \in Nat /\ p \in Nat
  BY NextSequenceIs
<1>3. IsFiniteSet(log') /\ Cardinality(log') = k + p
  <2>1. log \cap txn[s].pending = {}
    BY <1>2, PendingFollowsLog
  <2>2. Cardinality({}) = 0
    BY FS_EmptySet
  <2>3. IsFiniteSet(log) /\ IsFiniteSet(txn[s].pending)
    BY DEF LogInv
  <2>4. /\ IsFiniteSet(log \cup txn[s].pending)
        /\ Cardinality(log \cup txn[s].pending) = k + p - Cardinality(log \cap txn[s].pending)
    BY <2>3, FS_Union
  <2>5. Cardinality(log \cup txn[s].pending) = k + p
    <3>1. Cardinality(log \cap txn[s].pending) = 0
      BY <2>1, <2>2
    <3> HIDE DEF k, p
    <3> QED BY <1>2, <2>4, <3>1
  <2> QED BY <1>1, <2>4, <2>5
<1>4. SeqsOf(log') = 1..(k + p)
  <2>1. SeqsOf(log') = SeqsOf(log) \cup SeqsOf(txn[s].pending)
    BY <1>1 DEF SeqsOf
  <2>2. SeqsOf(log) = 1..k /\ SeqsOf(txn[s].pending) = (k + 1)..(k + p)
    BY DEF LogInv
  <2> HIDE DEF k, p
  <2> QED BY <1>2, <2>1, <2>2
<1>5. ASSUME NEW r \in Sessions
      PROVE  /\ IsFiniteSet(txn'[r].pending)
             /\ SeqsOf(txn'[r].pending)
                  = (k + p + 1)..(k + p + Cardinality(txn'[r].pending))
  <2>1. txn'[r].pending = {} \/ (r # s /\ p = 0 /\ txn'[r].pending = txn[r].pending)
    <3>1. CASE r = s
      BY <3>1, <1>1 DEF TypeOK, Idle
    <3>2. CASE r # s /\ txn[s].pending = {}
      BY <3>2, <1>1, FS_EmptySet DEF TypeOK
    <3>3. CASE r # s /\ txn[s].pending # {}
      <4>1. lock = s
        BY <3>3 DEF TypeOK
      <4> QED BY <3>3, <4>1, <1>1, OthersPendNothing DEF TypeOK
    <3> QED BY <3>1, <3>2, <3>3
  <2>2. CASE txn'[r].pending = {}
    <3>1. IsFiniteSet({}) /\ Cardinality({}) = 0 /\ SeqsOf({}) = {}
      BY FS_EmptySet DEF SeqsOf
    <3>2. (k + p + 1)..(k + p + 0) = {}
      BY <1>2
    <3> HIDE DEF k, p
    <3> QED BY <2>2, <3>1, <3>2
  <2>3. CASE p = 0 /\ txn'[r].pending = txn[r].pending
    <3>1. /\ IsFiniteSet(txn[r].pending)
          /\ SeqsOf(txn[r].pending) = (k + 1)..(k + Cardinality(txn[r].pending))
      BY DEF LogInv
    <3> HIDE DEF k, p
    <3> QED BY <1>2, <2>3, <3>1
  <2> QED BY <2>1, <2>2, <2>3
<1>6. delivered' = {e \in log' : e.seq <= cursor'} /\ cursor' \in 0..(k + p)
  <2>1. cursor \in 0..k /\ delivered = {e \in log : e.seq <= cursor}
    BY DEF LogInv
  <2>2. \A e \in txn[s].pending : e.seq > k /\ e.seq \in Nat
    BY PendingFollowsLog DEF TypeOK, Event
  <2> HIDE DEF k, p
  <2> QED BY <1>1, <1>2, <2>1, <2>2
<1> HIDE DEF k, p
<1> QED BY <1>3, <1>4, <1>5, <1>6 DEF LogInv

\* A step that leaves log, cursor and delivered alone, and at most empties one session.
LEMMA IdleKeepsLog ==
    ASSUME LogInv, NEW s \in Sessions, UNCHANGED <<log, cursor, delivered>>,
           \A r \in Sessions : txn'[r].pending \in {{}, txn[r].pending}
    PROVE  LogInv'
<1>1. ASSUME NEW r \in Sessions
      PROVE  /\ IsFiniteSet(txn'[r].pending)
             /\ SeqsOf(txn'[r].pending)
                  = (Cardinality(log) + 1)..(Cardinality(log) + Cardinality(txn'[r].pending))
  <2>1. CASE txn'[r].pending = txn[r].pending
    BY <2>1 DEF LogInv
  <2>2. CASE txn'[r].pending = {}
    <3>1. IsFiniteSet({}) /\ Cardinality({}) = 0 /\ SeqsOf({}) = {}
      BY FS_EmptySet DEF SeqsOf
    <3>2. Cardinality(log) \in Nat
      BY NextSequenceIs
    <3>3. (Cardinality(log) + 1)..(Cardinality(log) + 0) = {}
      BY <3>2
    <3> QED BY <2>2, <3>1, <3>3
  <2> QED BY <2>1, <2>2
<1> QED BY <1>1 DEF LogInv

\* An append extends the numbers of the session that holds the lock.
LEMMA AppendKeepsLog ==
    ASSUME TypeOK, LogInv, NEW s \in Sessions, AppendEvent(s)
    PROVE  LogInv' /\ NextSequence(s) \in Nat \ {0}
<1> DEFINE k == Cardinality(log)
           p == Cardinality(txn[s].pending)
           e == [seq |-> NextSequence(s), by |-> s]
<1>1. k \in Nat /\ p \in Nat /\ NextSequence(s) = k + p + 1
  BY NextSequenceIs
<1>2. txn' = [txn EXCEPT ![s].pending = txn[s].pending \cup {e}]
      /\ UNCHANGED <<log, cursor, delivered>>
  BY DEF AppendEvent
<1>3. txn'[s].pending = txn[s].pending \cup {e} /\ \A r \in Sessions \ {s} : txn'[r] = txn[r]
  BY <1>2 DEF TypeOK
<1>4. IsFiniteSet(txn[s].pending) /\ SeqsOf(txn[s].pending) = (k + 1)..(k + p)
  BY DEF LogInv
<1>5. e \notin txn[s].pending
  <2>1. k + p + 1 \notin SeqsOf(txn[s].pending)
    <3> HIDE DEF k, p
    <3> QED BY <1>1, <1>4
  <2> QED BY <2>1, <1>1 DEF SeqsOf
<1>6. IsFiniteSet(txn'[s].pending) /\ Cardinality(txn'[s].pending) = p + 1
  BY <1>3, <1>4, <1>5, FS_AddElement
<1>7. SeqsOf(txn'[s].pending) = (k + 1)..(k + (p + 1))
  <2>1. SeqsOf(txn'[s].pending) = SeqsOf(txn[s].pending) \cup {k + p + 1}
    <3>1. SeqsOf(txn[s].pending \cup {e}) = SeqsOf(txn[s].pending) \cup {e.seq}
      <4> HIDE DEF e
      <4> QED BY DEF SeqsOf
    <3>2. e.seq = k + p + 1
      BY <1>1
    <3> QED BY <1>3, <3>1, <3>2
  <2> HIDE DEF k, p
  <2> QED BY <1>1, <1>4, <2>1
<1>8. \A r \in Sessions \ {s} :
        /\ IsFiniteSet(txn'[r].pending)
        /\ SeqsOf(txn'[r].pending) = (k + 1)..(k + Cardinality(txn'[r].pending))
  BY <1>3 DEF LogInv
<1>9. log' = log /\ LogInv!1 /\ LogInv!2 /\ LogInv!4 /\ LogInv!5
  BY <1>2 DEF LogInv
<1>10. LogInv'
  BY <1>2, <1>6, <1>7, <1>8, <1>9 DEF LogInv
<1> QED BY <1>1, <1>10

\* A poll takes the events up to the last of its page, and all of them.
LEMMA PollKeepsLog ==
    ASSUME TypeOK, LogInv, Poll
    PROVE  LogInv' /\ cursor' \in Nat /\ delivered' \subseteq log
<1>1. PICK page \in Pages : \E last \in page :
        /\ \A e \in page : e.seq <= last.seq
        /\ cursor' = last.seq
        /\ delivered' = delivered \cup page
  BY DEF Poll
<1>2. PICK last \in page :
        /\ \A e \in page : e.seq <= last.seq
        /\ cursor' = last.seq
        /\ delivered' = delivered \cup page
  BY <1>1
<1>3. /\ page \subseteq {e \in log : e.seq > cursor}
      /\ \A e \in page, f \in {g \in log : g.seq > cursor} \ page : e.seq < f.seq
  BY DEF Pages
<1>4. \A e \in log : e.seq \in Nat
  BY DEF TypeOK, Event
<1>5. last.seq \in 0..Cardinality(log)
  <2>1. last.seq \in SeqsOf(log)
    BY <1>3 DEF SeqsOf
  <2>2. Cardinality(log) \in Nat
    BY FS_CardinalityType DEF LogInv
  <2> QED BY <2>1, <2>2 DEF LogInv
<1>6. UNCHANGED <<log, txn>>
  BY DEF Poll
<1>7. delivered = {e \in log : e.seq <= cursor} /\ cursor \in Nat
  BY DEF LogInv, TypeOK
<1>8. delivered \cup page = {e \in log : e.seq <= last.seq}
  BY <1>2, <1>3, <1>4, <1>7
<1>9. LogInv'
  BY <1>2, <1>5, <1>6, <1>8 DEF LogInv
<1> QED BY <1>2, <1>4, <1>3, <1>8, <1>9

---------------------------------------------------------------------------
\* The invariant of the whole specification.

LEMMA StepInvariant == TypeOK /\ LogInv /\ [Next]_vars => TypeOK' /\ LogInv'
<1> SUFFICES ASSUME TypeOK, LogInv, [Next]_vars PROVE TypeOK' /\ LogInv'
  OBVIOUS
<1> DEFINE Quiet == \A r \in Sessions : txn'[r].pending \in {{}, txn[r].pending}
<1>1. CASE UNCHANGED vars
  BY <1>1 DEF TypeOK, LogInv, vars
<1>2. ASSUME NEW c \in Creators, Refuse(c) \/ LookUp(c) PROVE TypeOK' /\ LogInv'
  BY <1>2 DEF Refuse, LookUp, TypeOK, LogInv
<1>3. ASSUME NEW c \in Creators, Insert(c) PROVE TypeOK' /\ LogInv'
  <2>1. NewRun \in Run
    BY DEF NewRun, Run, Statuses
  <2>2. run' \in Run \cup {NoRun} /\ (run \in Run => run' \in Run)
    BY <1>3, <2>1 DEF Insert, TypeOK
  <2>3. creator' \in [Creators -> {"start", "refused", "missing", "created", "existing",
                                "failed"}]
    BY <1>3 DEF Insert, TypeOK
  <2>4. UNCHANGED <<log, lock, txn, cursor, delivered>>
    BY <1>3 DEF Insert
  <2> QED BY <2>2, <2>3, <2>4 DEF TypeOK, LogInv
<1>4. ASSUME NEW s \in Sessions, Load(s) PROVE TypeOK' /\ LogInv'
  <2>1. run \in Run
    BY <1>4 DEF Load, TypeOK
  <2>2. lock # s /\ txn[s].pending = {}
    BY <1>4 DEF Load, TypeOK
  <2>3. /\ txn' = [txn EXCEPT ![s] = [open |-> TRUE, object |-> run, dirty |-> {},
                                      pending |-> {}]]
        /\ UNCHANGED <<run, log, lock, creator, cursor, delivered>>
    BY <1>4 DEF Load
  <2>4. Quiet
    BY <2>3 DEF TypeOK
  <2>5. LogInv'
    BY <2>3, <2>4, IdleKeepsLog
  <2> QED BY <2>1, <2>2, <2>3, <2>5 DEF TypeOK
<1>5. ASSUME NEW s \in Writers, NEW new \in Statuses, Move(s, new) PROVE TypeOK' /\ LogInv'
  <2> DEFINE object == Transitioned(txn[s].object, new)
             changed == {f \in DOMAIN object : object[f] # txn[s].object[f]}
             t == [txn[s] EXCEPT !.object = object, !.dirty = @ \cup changed]
  <2>0. s \in Sessions
    BY DEF Sessions
  <2>1. /\ txn[s].open /\ MayLock(s) /\ lock' = s
        /\ new \in Transitions[txn[s].object.status]
        /\ UNCHANGED <<run, log, creator, cursor, delivered>>
    BY <1>5 DEF Move
  <2>2. txn' = [txn EXCEPT ![s] = t]
    BY <1>5, <2>0 DEF Move, TypeOK
  <2>3. txn[s].object \in Run
    BY <2>0, <2>1 DEF TypeOK
  <2>4. object \in Run /\ object.status # txn[s].object.status
    BY <2>1, <2>3, TransitionTypes DEF Transitioned
  <2>5. DOMAIN object = {"status", "startedAt", "completedAt"}
    BY DEF Transitioned
  <2>6. "status" \in changed /\ changed \subseteq {"status", "startedAt", "completedAt"}
    BY <2>4, <2>5
  <2> HIDE DEF object, changed
  <2>7. t \in [open : {TRUE}, object : Run,
               dirty : SUBSET {"status", "startedAt", "completedAt"}, pending : SUBSET Event]
    BY <2>0, <2>1, <2>4, <2>6 DEF TypeOK
  <2>8. t.dirty # {} /\ t.pending = txn[s].pending
    BY <2>0, <2>6 DEF TypeOK
  <2> HIDE DEF t
  <2>9. SessionTypes(txn', lock', run)
    BY <2>0, <2>1, <2>2, <2>7, <2>8, LockedTypes
  <2>10. Quiet
    BY <2>0, <2>2, <2>8 DEF TypeOK
  <2>11. LogInv'
    BY <2>0, <2>1, <2>10, IdleKeepsLog
  <2> QED BY <2>1, <2>9, <2>11 DEF TypeOK, SessionTypes
<1>6. ASSUME NEW s \in Sessions, AppendEvent(s) PROVE TypeOK' /\ LogInv'
  <2> DEFINE e == [seq |-> NextSequence(s), by |-> s]
             t == [txn[s] EXCEPT !.pending = @ \cup {e}]
  <2>1. /\ txn[s].open /\ MayLock(s) /\ lock' = s
        /\ UNCHANGED <<run, log, creator, cursor, delivered>>
    BY <1>6 DEF AppendEvent
  <2>2. txn' = [txn EXCEPT ![s] = t]
    BY <1>6 DEF AppendEvent, TypeOK
  <2>3. LogInv' /\ NextSequence(s) \in Nat \ {0}
    BY <1>6, AppendKeepsLog
  <2>4. e \in Event
    BY <2>3 DEF Event
  <2>5. txn[s].object \in Run
    BY <2>1 DEF TypeOK
  <2> HIDE DEF e
  <2>6. t \in [open : {TRUE}, object : Run,
               dirty : SUBSET {"status", "startedAt", "completedAt"}, pending : SUBSET Event]
    BY <2>1, <2>4, <2>5 DEF TypeOK
  <2>7. t.pending # {}
    BY DEF TypeOK
  <2> HIDE DEF t
  <2>8. SessionTypes(txn', lock', run)
    BY <2>1, <2>2, <2>6, <2>7, LockedTypes
  <2> QED BY <2>1, <2>3, <2>8 DEF TypeOK, SessionTypes
<1>7. ASSUME NEW s \in Sessions, Commit(s) PROVE TypeOK' /\ LogInv'
  <2>1. /\ Unlock(s) /\ txn' = [txn EXCEPT ![s] = Idle]
        /\ log' = log \cup txn[s].pending
        /\ UNCHANGED <<creator, cursor, delivered>>
    BY <1>7 DEF Commit
  <2>2. run' \in Run
    <3>1. run \in Run /\ txn[s].object \in Run
      BY <1>7 DEF Commit, TypeOK
    <3> DEFINE col(f) == IF f \in txn[s].dirty THEN txn[s].object[f] ELSE run[f]
    <3>2. /\ col("status") \in Statuses
          /\ col("startedAt") \in BOOLEAN
          /\ col("completedAt") \in BOOLEAN
      BY <3>1 DEF Run
    <3>3. run' = [f \in DOMAIN run |-> col(f)]
      BY <1>7 DEF Commit
    <3>4. DOMAIN run = {"status", "startedAt", "completedAt"}
      BY <3>1 DEF Run
    <3>5. run' = [status |-> col("status"), startedAt |-> col("startedAt"),
                  completedAt |-> col("completedAt")]
      BY <3>3, <3>4
    <3> HIDE DEF col
    <3> QED BY <3>2, <3>5 DEF Run
  <2>3. SessionTypes(txn', lock', run')
    BY <2>1, <2>2, EndTypes
  <2>4. LogInv'
    BY <1>7, CommitKeepsLog
  <2>5. txn[s].pending \subseteq Event
    BY DEF TypeOK
  <2> QED BY <2>1, <2>2, <2>3, <2>4, <2>5 DEF TypeOK, SessionTypes
<1>8. ASSUME NEW s \in Sessions, Rollback(s) PROVE TypeOK' /\ LogInv'
  <2>1. /\ Unlock(s) /\ txn' = [txn EXCEPT ![s] = Idle] /\ run \in Run
        /\ UNCHANGED <<run, log, creator, cursor, delivered>>
    BY <1>8 DEF Rollback, TypeOK
  <2>2. SessionTypes(txn', lock', run')
    BY <2>1, EndTypes
  <2>3. Quiet
    BY <2>1 DEF TypeOK, Idle
  <2>4. LogInv'
    BY <2>1, <2>3, IdleKeepsLog
  <2> QED BY <2>1, <2>2, <2>4 DEF TypeOK, SessionTypes
<1>9. ASSUME Poll PROVE TypeOK' /\ LogInv'
  <2>1. LogInv' /\ cursor' \in Nat /\ delivered' \subseteq log
    BY <1>9, PollKeepsLog
  <2>2. UNCHANGED <<run, log, lock, txn, creator>>
    BY <1>9 DEF Poll
  <2> QED BY <2>1, <2>2 DEF TypeOK
<1> QED BY <1>1, <1>2, <1>3, <1>4, <1>5, <1>6, <1>7, <1>8, <1>9 DEF Next

LEMMA InitInvariant == Init => TypeOK /\ LogInv
<1> SUFFICES ASSUME Init PROVE TypeOK /\ LogInv
  OBVIOUS
<1>1. TypeOK
  BY InitTypeOK
<1>2. IsFiniteSet({}) /\ Cardinality({}) = 0 /\ SeqsOf({}) = {}
  BY FS_EmptySet DEF SeqsOf
<1>3. log = {} /\ cursor = 0 /\ delivered = {} /\ \A s \in Sessions : txn[s].pending = {}
  BY DEF Init, Idle
<1>4. 1..0 = {} /\ (0 + 1)..(0 + 0) = {} /\ cursor \in 0..0
  BY <1>3
<1>5. SeqsOf(log) = 1..Cardinality(log) /\ IsFiniteSet(log)
  BY <1>2, <1>3, <1>4
<1>6. ASSUME NEW s \in Sessions
      PROVE  /\ IsFiniteSet(txn[s].pending)
             /\ SeqsOf(txn[s].pending) =
                  (Cardinality(log) + 1)..(Cardinality(log) + Cardinality(txn[s].pending))
  BY <1>2, <1>3, <1>4
<1>7. delivered = {e \in log : e.seq <= cursor} /\ cursor \in 0..Cardinality(log)
  BY <1>2, <1>3, <1>4
<1> QED BY <1>1, <1>5, <1>6, <1>7 DEF LogInv

\* Every reachable state is well typed; only the session that holds the run row's lock has
\* changes to the row or uncommitted events.
THEOREM TypeCorrect == Spec => []TypeOK
<1> QED BY InitInvariant, StepInvariant, PTL DEF Spec

\* However sessions interleave, fail and commit, the committed events are numbered 1..n.
THEOREM EventsGapFree == Spec => []SequenceGapFree
<1>1. LogInv => SequenceGapFree
  BY DEF LogInv, SequenceGapFree
<1> QED BY <1>1, InitInvariant, StepInvariant, PTL DEF Spec

\* The row lock keeps every append clear of the unique constraint.
THEOREM AppendsCollisionFree == Spec => []AppendsNeverCollide
<1>1. TypeOK /\ LogInv => AppendsNeverCollide
  <2> SUFFICES ASSUME TypeOK, LogInv PROVE AppendsNeverCollide
    OBVIOUS
  <2>1. ASSUME NEW s \in Sessions, NEW t \in Sessions, s # t
        PROVE  SeqsOf(txn[s].pending) \cap SeqsOf(txn[t].pending) = {}
    BY <2>1 DEF TypeOK, SeqsOf
  <2>2. ASSUME NEW s \in Sessions PROVE SeqsOf(txn[s].pending) \cap SeqsOf(log) = {}
    BY PendingFollowsLog, NextSequenceIs DEF SeqsOf
  <2> QED BY <2>1, <2>2 DEF AppendsNeverCollide
<1> QED BY <1>1, InitInvariant, StepInvariant, PTL DEF Spec

\* A client that follows the log by sequence number misses no event.
THEOREM FollowerComplete == Spec => []FollowerMissesNothing
<1>1. LogInv => FollowerMissesNothing
  BY DEF LogInv, FollowerMissesNothing
<1> QED BY <1>1, InitInvariant, StepInvariant, PTL DEF Spec

---------------------------------------------------------------------------
\* The event log implements the stream.

\* n events with the numbers 1..n have n different numbers.
LEMMA NumbersAreDistinct ==
    ASSUME LogInv, NEW e \in log, NEW f \in log, e.seq = f.seq
    PROVE  e = f
<1> DEFINE n == Cardinality(log)
           number == [x \in log |-> x.seq]
<1>1. IsFiniteSet(log) /\ n \in Nat /\ SeqsOf(log) = 1..n
  BY FS_CardinalityType DEF LogInv
<1>2. number \in Surjection(log, 1..n)
  BY <1>1 DEF SeqsOf, Surjection
<1>3. Cardinality(1..n) = n
  <2> HIDE DEF n
  <2> QED BY <1>1, FS_Interval
<1>4. number \in Injection(log, 1..n)
  BY <1>1, <1>2, <1>3, FS_Surjection
<1> QED BY <1>4 DEF Injection, IsInjective

\* What a stream shows at a number that one event has.
LEMMA StreamShows ==
    ASSUME NEW S, NEW n, NEW e \in S, e.seq \in 1..n,
           \A f \in S : f.seq = e.seq => f = e
    PROVE  StreamOf(S, n)[e.seq] = e.by
<1>1. \A f : (f \in S /\ f.seq = e.seq) <=> f = e
  OBVIOUS
<1>2. (CHOOSE f \in S : f.seq = e.seq) = e
  BY <1>1
<1> QED BY <1>2 DEF StreamOf

\* The streams of the log and of what was delivered are sequences of sessions, and agree.
StreamsAgree ==
    LET ev == StreamOf(log, Cardinality(log))
        rc == StreamOf(delivered, cursor)
    IN  /\ ev \in Seq(Sessions) /\ Len(ev) = Cardinality(log)
        /\ rc \in Seq(Sessions) /\ Len(rc) = cursor
        /\ cursor \in 0..Cardinality(log) /\ Cardinality(log) \in Nat
        /\ \A e \in log : e.seq \in 1..Cardinality(log) /\ ev[e.seq] = e.by
        /\ \A i \in 1..Cardinality(log) : \E e \in log : e.seq = i
        /\ \A i \in 1..cursor : rc[i] = ev[i]

LEMMA StreamsOfLog == TypeOK /\ LogInv => StreamsAgree
<1> SUFFICES ASSUME TypeOK, LogInv PROVE StreamsAgree
  OBVIOUS
<1> DEFINE n == Cardinality(log)
           ev == StreamOf(log, n)
           rc == StreamOf(delivered, cursor)
<1>1. n \in Nat /\ SeqsOf(log) = 1..n /\ cursor \in 0..n
  BY FS_CardinalityType DEF LogInv
<1>2. \A e \in log : e.seq \in 1..n /\ e.by \in Sessions
  BY <1>1 DEF SeqsOf, TypeOK, Event
<1>3. \A i \in 1..n : \E e \in log : e.seq = i
  BY <1>1 DEF SeqsOf
<1>4. \A e \in log : ev[e.seq] = e.by
  BY <1>2, NumbersAreDistinct, StreamShows
<1>5. \A e \in delivered : e.seq \in 1..cursor => rc[e.seq] = e.by
  <2>1. \A e \in delivered : e \in log
    BY DEF TypeOK
  <2> QED BY <2>1, NumbersAreDistinct, StreamShows
<1>6. \A i \in 1..cursor : \E e \in log : e.seq = i /\ rc[i] = e.by /\ ev[i] = e.by
  <2> SUFFICES ASSUME NEW i \in 1..cursor
               PROVE  \E e \in log : e.seq = i /\ rc[i] = e.by /\ ev[i] = e.by
    OBVIOUS
  <2>1. PICK e \in log : e.seq = i
    <3> HIDE DEF n
    <3> QED BY <1>1, <1>3
  <2>2. e \in delivered
    <3> HIDE DEF n
    <3> QED BY <1>1, <2>1 DEF LogInv
  <2> QED BY <1>4, <1>5, <2>1, <2>2
<1>7. ev = [i \in 1..n |-> ev[i]] /\ rc = [i \in 1..cursor |-> rc[i]]
  BY DEF StreamOf
<1> HIDE DEF n, ev, rc
<1>8. ev \in [1..n -> Sessions] /\ rc \in [1..cursor -> Sessions]
  <2>1. \A i \in 1..n : ev[i] \in Sessions
    BY <1>2, <1>3, <1>4
  <2>2. \A i \in 1..cursor : rc[i] \in Sessions
    BY <1>2, <1>6
  <2> QED BY <1>7, <2>1, <2>2
<1>9. ev \in Seq(Sessions) /\ rc \in Seq(Sessions)
  BY <1>1, <1>8, SeqDef
<1>10. Len(ev) = n /\ Len(rc) = cursor
  BY <1>1, <1>8, <1>9, LenProperties
<1>11. \A i \in 1..cursor : rc[i] = ev[i]
  BY <1>6
<1> QED BY <1>1, <1>2, <1>3, <1>4, <1>9, <1>10, <1>11 DEF StreamsAgree, n, ev, rc

LEMMA NextStreams == TypeOK' /\ LogInv' => StreamsAgree'
BY StreamsOfLog, PTL

\* A log that has grown continues its stream.
LEMMA GrowthPublishes ==
    ASSUME TypeOK, LogInv, TypeOK', LogInv', log \subseteq log', log # log',
           UNCHANGED <<delivered, cursor>>
    PROVE  Stream!Publish
<1> DEFINE ev == StreamOf(log, Cardinality(log))
<1>1. /\ ev \in Seq(Sessions) /\ Len(ev) = Cardinality(log)
      /\ ev' \in Seq(Sessions) /\ Len(ev') = Cardinality(log')
      /\ Cardinality(log) \in Nat /\ Cardinality(log') \in Nat
      /\ \A e \in log : ev[e.seq] = e.by
      /\ \A e \in log' : ev'[e.seq] = e.by
      /\ \A i \in 1..Cardinality(log) : \E e \in log : e.seq = i
  BY StreamsOfLog, NextStreams DEF StreamsAgree
<1>2. Cardinality(log) < Cardinality(log')
  BY <1>1, FS_Subset DEF LogInv
<1> HIDE DEF ev
<1>3. DOMAIN ev = 1..Cardinality(log) /\ DOMAIN ev' = 1..Cardinality(log')
  BY <1>1, LenProperties
<1>4. \A i \in DOMAIN ev : ev'[i] = ev[i]
  BY <1>1, <1>3
<1>5. \A i \in DOMAIN ev' : ev'[i] \in Sessions
  BY <1>1, <1>3, LenProperties
<1>6. Len(ev') > Len(ev)
  BY <1>1, <1>2
<1>7. UNCHANGED StreamOf(delivered, cursor)
  OBVIOUS
<1> QED BY <1>4, <1>5, <1>6, <1>7 DEF Stream!Publish, Stream!Extends, ev

\* A page holds every event up to its last one, so the cursor moves by at most a page.
LEMMA PageLength ==
    ASSUME TypeOK, LogInv, Poll
    PROVE  cursor' > cursor /\ cursor' <= cursor + Limit
<1>1. PICK page \in Pages : \E last \in page :
        /\ \A e \in page : e.seq <= last.seq
        /\ cursor' = last.seq
  BY DEF Poll
<1>2. PICK last \in page : (\A e \in page : e.seq <= last.seq) /\ cursor' = last.seq
  BY <1>1
<1> DEFINE later == {e \in log : e.seq > cursor}
<1>3. /\ page \subseteq later
      /\ Cardinality(page) = IF Cardinality(later) < Limit THEN Cardinality(later) ELSE Limit
      /\ \A e \in page, f \in later \ page : e.seq < f.seq
  BY DEF Pages
<1>4. IsFiniteSet(page) /\ Cardinality(page) \in Nat /\ Cardinality(page) <= Limit
  <2>1. IsFiniteSet(log)
    BY DEF LogInv
  <2>2. IsFiniteSet(later) /\ IsFiniteSet(page)
    BY <1>3, <2>1, FS_Subset
  <2>3. Cardinality(later) \in Nat /\ Cardinality(page) \in Nat
    BY <2>2, FS_CardinalityType
  <2> HIDE DEF later
  <2> QED BY <1>3, <2>2, <2>3, RunLogAssumption
<1>5. \A e \in log : e.seq \in Nat
  BY DEF TypeOK, Event
<1>6. cursor \in Nat /\ last.seq \in Nat /\ last.seq > cursor
  BY <1>3, <1>5 DEF TypeOK
<1>7. ASSUME NEW i \in (cursor + 1)..last.seq PROVE \E e \in page : e.seq = i
  <2>1. last.seq \in 1..Cardinality(log) /\ Cardinality(log) \in Nat
    BY <1>3, StreamsOfLog DEF StreamsAgree
  <2>2. i \in 1..Cardinality(log)
    BY <1>6, <2>1
  <2>3. PICK e \in log : e.seq = i
    BY <2>2, StreamsOfLog DEF StreamsAgree
  <2>4. e \in later /\ ~(last.seq < e.seq)
    BY <1>5, <1>6, <2>3
  <2> QED BY <1>3, <2>3, <2>4
<1> DEFINE owner == [i \in (cursor + 1)..last.seq |-> CHOOSE e \in page : e.seq = i]
<1>8. \A i \in (cursor + 1)..last.seq : owner[i] \in page /\ owner[i].seq = i
  BY <1>7
<1>9. owner \in Injection((cursor + 1)..last.seq, page)
  <2>1. owner \in [(cursor + 1)..last.seq -> page]
    BY <1>8
  <2> HIDE DEF owner
  <2> QED BY <1>8, <2>1 DEF Injection, IsInjective
<1>10. Cardinality((cursor + 1)..last.seq) <= Cardinality(page)
  <2> HIDE DEF owner
  <2> QED BY <1>4, <1>9, FS_Injection
<1>11. Cardinality((cursor + 1)..last.seq) = last.seq - cursor
  <2>1. Cardinality((cursor + 1)..last.seq) =
          IF cursor + 1 > last.seq THEN 0 ELSE last.seq - (cursor + 1) + 1
    BY <1>6, FS_Interval
  <2> QED BY <1>6, <2>1
<1> QED BY <1>2, <1>4, <1>6, <1>10, <1>11, RunLogAssumption

LEMMA PollReceives ==
    ASSUME TypeOK, LogInv, TypeOK', LogInv', Poll
    PROVE  Stream!Receive
<1> DEFINE ev == StreamOf(log, Cardinality(log))
           rc == StreamOf(delivered, cursor)
<1>1. UNCHANGED log
  BY DEF Poll
<1>2. /\ rc \in Seq(Sessions) /\ Len(rc) = cursor
      /\ ev \in Seq(Sessions) /\ Len(ev) = Cardinality(log)
      /\ \A i \in 1..cursor : rc[i] = ev[i]
  BY StreamsOfLog DEF StreamsAgree
<1>3. /\ rc' \in Seq(Sessions) /\ Len(rc') = cursor'
      /\ cursor' \in 0..Cardinality(log')
      /\ \A i \in 1..cursor' : rc'[i] = ev'[i]
  BY NextStreams DEF StreamsAgree
<1>4. ev' = ev
  BY <1>1
<1>5. cursor' > cursor /\ cursor' <= cursor + Limit /\ cursor \in Nat /\ cursor' \in Nat
  BY PageLength DEF TypeOK
<1> HIDE DEF ev, rc
<1>6. DOMAIN rc = 1..cursor /\ DOMAIN rc' = 1..cursor'
  BY <1>2, <1>3, LenProperties
<1>7. \A i \in DOMAIN rc : rc'[i] = rc[i]
  BY <1>2, <1>3, <1>4, <1>5, <1>6
<1>8. \A i \in DOMAIN rc' : rc'[i] = ev[i]
  BY <1>3, <1>4, <1>6
<1>9. /\ Len(rc') > Len(rc)
      /\ Len(rc') <= Len(rc) + Limit
      /\ Len(rc') <= Len(ev)
  BY <1>1, <1>2, <1>3, <1>5
<1> QED BY <1>4, <1>7, <1>8, <1>9 DEF Stream!Receive, Stream!Extends, ev, rc

LEMMA StepImplements ==
    TypeOK /\ LogInv /\ TypeOK' /\ LogInv' /\ [Next]_vars => [Stream!Next]_(Stream!vars)
<1> SUFFICES ASSUME TypeOK, LogInv, TypeOK', LogInv', [Next]_vars
             PROVE  [Stream!Next]_(Stream!vars)
  OBVIOUS
<1>1. CASE UNCHANGED <<log, delivered, cursor>>
  BY <1>1 DEF Stream!vars
<1>2. CASE log \subseteq log' /\ UNCHANGED <<delivered, cursor>>
  BY <1>1, <1>2, GrowthPublishes DEF Stream!Next
<1>3. CASE Poll
  BY <1>3, PollReceives DEF Stream!Next
<1> QED BY <1>1, <1>2, <1>3
  DEF Next, vars, Refuse, LookUp, Insert, Load, AppendEvent, Commit, Rollback, Move

\* The trace events of a run and a client that pages through them implement the stream,
\* for any number of sessions and any page size.
THEOREM StreamImplemented == Spec => ImplementsStream
<1>1. Init => Stream!Init
  <2> SUFFICES ASSUME Init PROVE Stream!Init
    OBVIOUS
  <2>1. log = {} /\ delivered = {} /\ cursor = 0 /\ Cardinality({}) = 0
    BY FS_EmptySet DEF Init
  <2>2. StreamOf({}, 0) = <<>>
    BY DEF StreamOf
  <2> QED BY <2>1, <2>2 DEF Stream!Init
<1>2. TypeOK /\ LogInv /\ [Next]_vars => [Stream!Next]_(Stream!vars)
  BY StepInvariant, StepImplements
<1> QED BY <1>1, <1>2, InitInvariant, StepInvariant, PTL
  DEF Spec, ImplementsStream, Stream!Spec

---------------------------------------------------------------------------
\* The run's row with one status writer.

OneWriter == \A v, w \in Writers : v = w

\* A row tells one story.
RowSound(row) ==
    /\ row.status \in {"running", "paused", "completed", "failed"} => row.startedAt
    /\ row.completedAt <=> row.status \in Terminal

Columns == {"status", "startedAt", "completedAt"}

\* Only the writer changes columns; the object it holds is sound, and is the row wherever
\* it has not changed it.
RowInv ==
    /\ RowSound(run)
    /\ \A s \in Sessions \ Writers : txn[s].dirty = {}
    /\ \A w \in Writers : txn[w].open =>
         /\ RowSound(txn[w].object)
         /\ \A f \in Columns \ txn[w].dirty : txn[w].object[f] = run[f]

\* A transition the table allows leads from a sound row to a sound one.
LEMMA TransitionSound ==
    ASSUME NEW object \in Run, NEW new \in Transitions[object.status], RowSound(object)
    PROVE  RowSound(Transitioned(object, new))
<1>1. object.status \in Statuses /\ object.startedAt \in BOOLEAN
      /\ object.completedAt \in BOOLEAN
  BY DEF Run
<1>2. /\ object.status \notin Terminal
      /\ new \in Statuses
      /\ new \in {"paused", "completed", "failed"} =>
           object.status \in {"running"}
      /\ new # "queued"
  BY <1>1 DEF Transitions, Statuses, Terminal
<1>3. ~object.completedAt /\ (new \in {"paused", "completed", "failed"} => object.startedAt)
  BY <1>2 DEF RowSound
<1>4. /\ Transitioned(object, new).status = new
      /\ Transitioned(object, new).startedAt = (object.startedAt \/ new = "running")
      /\ Transitioned(object, new).completedAt = (object.completedAt \/ new \in Terminal)
  BY DEF Transitioned
<1>5. new \in {"running", "paused", "completed", "failed"} =>
        Transitioned(object, new).startedAt
  BY <1>3, <1>4
<1>6. Transitioned(object, new).completedAt <=> new \in Terminal
  BY <1>3, <1>4
<1> QED BY <1>2, <1>4, <1>5, <1>6 DEF RowSound

\* A session that commits without changed columns leaves the row, the writer makes it its
\* object.
LEMMA CommitWrites ==
    ASSUME TypeOK, RowInv, NEW s \in Sessions, Commit(s)
    PROVE  /\ s \notin Writers => run' = run
           /\ s \in Writers => run' = txn[s].object
<1>1. run \in Run /\ txn[s].object \in Run
  BY DEF Commit, TypeOK
<1>2. DOMAIN run = Columns /\ DOMAIN txn[s].object = Columns
  BY <1>1 DEF Run, Columns
<1>3. run' = [f \in Columns |-> IF f \in txn[s].dirty THEN txn[s].object[f] ELSE run[f]]
  BY <1>2 DEF Commit
<1>4. ASSUME s \notin Writers PROVE run' = run
  <2>1. txn[s].dirty = {}
    BY <1>4 DEF RowInv
  <2>2. run' = [f \in Columns |-> run[f]]
    BY <1>3, <2>1
  <2>3. run = [f \in Columns |-> run[f]]
    BY <1>1 DEF Run, Columns
  <2> QED BY <2>2, <2>3
<1>5. ASSUME s \in Writers PROVE run' = txn[s].object
  <2>1. \A f \in Columns \ txn[s].dirty : txn[s].object[f] = run[f]
    BY <1>5 DEF RowInv, Commit
  <2>2. run' = [f \in Columns |-> txn[s].object[f]]
    BY <1>3, <2>1
  <2>3. txn[s].object = [f \in Columns |-> txn[s].object[f]]
    BY <1>1 DEF Run, Columns
  <2> QED BY <2>2, <2>3
<1> QED BY <1>4, <1>5

LEMMA RowStep ==
    OneWriter /\ TypeOK /\ RowInv /\ [Next]_vars =>
        RowInv'
<1> SUFFICES ASSUME OneWriter, TypeOK, RowInv, [Next]_vars
             PROVE  RowInv'
  OBVIOUS
<1>0. Writers \subseteq Sessions
  BY DEF Sessions
<1>1. CASE UNCHANGED <<run, txn>>
  BY <1>1 DEF RowInv
<1>2. ASSUME NEW c \in Creators, Insert(c)
      PROVE  RowInv'
  <2>1. CASE run = NoRun
    <3>1. run' = NewRun /\ UNCHANGED txn
      BY <1>2, <2>1 DEF Insert
    <3>2. run \notin Run
      BY <2>1 DEF NoRun, Run, Statuses
    <3>3. \A w \in Writers : ~txn[w].open
      BY <1>0, <3>2 DEF TypeOK
    <3>4. RowSound(NewRun)
      BY DEF RowSound, NewRun, Terminal
    <3> QED BY <3>1, <3>2, <3>3, <3>4 DEF RowInv
  <2>2. CASE run # NoRun
    BY <1>2, <2>2 DEF Insert, RowInv
  <2> QED BY <2>1, <2>2
<1>3. ASSUME NEW s \in Sessions, Load(s)
      PROVE  RowInv'
  <2>1. /\ run' = run
        /\ txn'[s] = [open |-> TRUE, object |-> run, dirty |-> {}, pending |-> {}]
        /\ \A r \in Sessions \ {s} : txn'[r] = txn[r]
    BY <1>3 DEF Load, TypeOK
  <2>2. \A r \in Sessions \ Writers : txn'[r].dirty = {}
    BY <2>1 DEF RowInv
  <2>3. ASSUME NEW w \in Writers, txn'[w].open
        PROVE  /\ RowSound(txn'[w].object)
               /\ \A f \in Columns \ txn'[w].dirty : txn'[w].object[f] = run'[f]
    <3>1. CASE w = s
      BY <2>1, <3>1 DEF RowInv
    <3>2. CASE w # s
      BY <1>0, <2>1, <2>3, <3>2 DEF RowInv
    <3> QED BY <3>1, <3>2
  <2> QED BY <2>1, <2>2, <2>3 DEF RowInv
<1>4. ASSUME NEW s \in Sessions, AppendEvent(s)
      PROVE  RowInv'
  <2>1. run' = run /\ \A r \in Sessions : /\ txn'[r].dirty = txn[r].dirty
                                         /\ txn'[r].object = txn[r].object
                                         /\ txn'[r].open = txn[r].open
    BY <1>4 DEF AppendEvent, TypeOK
  <2> QED BY <1>0, <2>1 DEF RowInv
<1>5. ASSUME NEW s \in Sessions, Commit(s) \/ Rollback(s)
      PROVE  RowInv'
  <2>1. txn'[s] = Idle /\ \A r \in Sessions \ {s} : txn'[r] = txn[r]
    BY <1>5 DEF Commit, Rollback, TypeOK
  <2>2. \A r \in Sessions \ Writers : txn'[r].dirty = {}
    BY <2>1 DEF RowInv, Idle
  <2>3. ~txn'[s].open
    BY <2>1 DEF Idle
  <2>4. CASE run' = run
    BY <1>0, <2>1, <2>2, <2>3, <2>4 DEF RowInv
  <2>5. CASE Commit(s) /\ s \in Writers
    <3>1. run' = txn[s].object /\ txn[s].open
      BY <2>5, CommitWrites DEF Commit
    <3>2. \A w \in Writers : ~txn'[w].open
      BY <2>3, <2>5 DEF OneWriter
    <3>3. RowSound(run')
      BY <2>5, <3>1 DEF RowInv
    <3> QED BY <2>2, <3>2, <3>3 DEF RowInv
  <2> QED BY <1>5, <2>4, <2>5, CommitWrites DEF Rollback
<1>6. ASSUME NEW s \in Writers, NEW new \in Statuses, Move(s, new)
      PROVE  RowInv'
  <2> DEFINE object == Transitioned(txn[s].object, new)
             changed == {f \in DOMAIN object : object[f] # txn[s].object[f]}
  <2>1. /\ run' = run
        /\ txn[s].open /\ new \in Transitions[txn[s].object.status]
        /\ txn'[s].object = object /\ txn'[s].dirty = txn[s].dirty \cup changed
        /\ \A r \in Sessions \ {s} : txn'[r] = txn[r]
    BY <1>0, <1>6 DEF Move, TypeOK
  <2>2. txn[s].object \in Run
    BY <1>0, <2>1 DEF TypeOK
  <2>3. RowSound(object)
    BY <2>1, <2>2, TransitionSound DEF RowInv
  <2>4. DOMAIN object = Columns
    BY DEF Transitioned, Columns
  <2> HIDE DEF object
  <2>5. \A f \in Columns \ txn'[s].dirty : txn'[s].object[f] = run[f]
    BY <2>1, <2>4 DEF RowInv
  <2>6. \A w \in Writers : w = s
    BY DEF OneWriter
  <2> QED BY <2>1, <2>3, <2>5, <2>6 DEF RowInv
<1> QED BY <1>1, <1>2, <1>3, <1>4, <1>5, <1>6 DEF Next, vars, Refuse, LookUp, Poll

LEMMA RowInit == Init => RowInv
BY DEF Init, RowInv, RowSound, NoRun, Idle, Terminal, Sessions

\* With one status writer, the times of a run's row match its status.
THEOREM TimesSound ==
    ASSUME OneWriter
    PROVE  Spec => []TimesMatchStatus
<1>1. RowInv => TimesMatchStatus
  BY DEF RowInv, RowSound, TimesMatchStatus
<1>2. TypeOK /\ RowInv /\ [Next]_vars => RowInv'
  BY RowStep
<1> QED BY <1>1, <1>2, RowInit, TypeCorrect, PTL DEF Spec

=============================================================================
