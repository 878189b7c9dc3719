------------------------ MODULE WorkflowGraph_proofs ------------------------
(***************************************************************************)
(* For every finite set of steps and every list of edges over it: Kahn's   *)
(* loop rejects exactly the cyclic definitions, the computed ancestors are *)
(* exact, and an unreachable step is an isolated one.                      *)
(***************************************************************************)
EXTENDS WorkflowGraph, FiniteSetTheorems, TLAPS

(* The edges into n from steps that Kahn's loop has not popped yet.        *)
Live(n, gone) == {i \in Into(n) : edges[i].source \notin gone}

(* What Kahn's loop keeps: the counters count the live edges, the queue    *)
(* holds the unpopped steps whose counter is zero, a popped step keeps its *)
(* zero, no step is popped twice, and no member of a knot ever is.         *)
KahnInv ==
  /\ \A n \in Steps : indegree[n] = Cardinality(Live(n, popped))
  /\ queue = {n \in Steps : n \notin popped /\ indegree[n] = 0}
  /\ \A n \in popped : indegree[n] = 0
  /\ visited = Cardinality(popped)
  /\ \A S \in SUBSET Steps : Knot(S) => S \cap popped = {}

(* What the walk up keeps: everything marked or pending is in every closed *)
(* set, and the predecessors of what is marked are marked or pending.      *)
WalkUpInv ==
  phase = "ancestors" =>
    /\ Predecessors(subject) \subseteq seen \cup stack
    /\ \A n \in seen : Predecessors(n) \subseteq seen \cup stack
    /\ \A S \in SUBSET Steps : ClosedAbove(subject, S) => seen \cup stack \subseteq S

(* What the walk down keeps: the roots and the successors of what is       *)
(* marked are marked or pending, and only steps with an edge are.          *)
WalkDownInv ==
  phase \in {"reach", "checked"} =>
    /\ Roots \subseteq seen \cup stack
    /\ \A n \in seen : Successors(n) \subseteq seen \cup stack
    /\ \A n \in seen \cup stack : Predecessors(n) # {} \/ Successors(n) # {}
    /\ phase = "checked" => stack = {}

Inv ==
  /\ TypeOK
  /\ KahnInv
  /\ phase = "kahn" => seen = {} /\ stack = {}
  /\ WalkUpInv
  /\ WalkDownInv
  /\ CycleVerdict
  /\ AncestorsExact

-----------------------------------------------------------------------------
LEMMA EdgesTyped ==
  ASSUME edges \in EdgeLists
  PROVE  /\ edges \in Seq(Edge)
         /\ \A n : IsFiniteSet(Into(n))
         /\ \A i \in DOMAIN edges : edges[i].source \in Steps /\ edges[i].target \in Steps
         /\ \A n : Predecessors(n) \subseteq Steps
         /\ \A n : Successors(n) \subseteq Steps
<1>1. edges \in Seq(Edge)
  BY GraphAssumption
<1>2. DOMAIN edges = 1..Len(edges) /\ Len(edges) \in Nat
  BY <1>1
<1>3. \A i \in DOMAIN edges : edges[i] \in Edge
  BY <1>1
<1>4. IsFiniteSet(DOMAIN edges)
  BY <1>2, FS_Interval
<1>5. \A n : IsFiniteSet(Into(n))
  BY <1>4, FS_Subset DEF Into
<1> QED
  BY <1>1, <1>3, <1>5 DEF Edge, Predecessors, Successors, Into

LEMMA LiveFinite ==
  ASSUME edges \in EdgeLists, NEW n, NEW gone
  PROVE  IsFiniteSet(Live(n, gone)) /\ Cardinality(Live(n, gone)) \in Nat
BY EdgesTyped, FS_Subset, FS_CardinalityType DEF Live

(* Popping m takes exactly the edges from m to n away from the live ones.  *)
LEMMA PopCounts ==
  ASSUME edges \in EdgeLists, NEW m, NEW n, NEW gone, m \notin gone
  PROVE  Cardinality(Live(n, gone \cup {m}))
           = Cardinality(Live(n, gone)) - Cardinality(Between(m, n))
<1>1. IsFiniteSet(Live(n, gone))
  BY LiveFinite
<1>2. Between(m, n) \subseteq Live(n, gone)
  BY DEF Between, Live
<1>3. Live(n, gone \cup {m}) = Live(n, gone) \ Between(m, n)
  BY DEF Between, Live
<1>4. IsFiniteSet(Between(m, n))
  BY <1>1, <1>2, FS_Subset
<1>5. Live(n, gone) \cap Between(m, n) = Between(m, n)
  BY <1>2
<1> QED
  BY <1>1, <1>3, <1>4, <1>5, FS_Difference

(* A step none of whose incoming edges is live has only popped             *)
(* predecessors, and the other way round.                                  *)
LEMMA NoLiveEdge ==
  ASSUME edges \in EdgeLists, NEW n, NEW gone
  PROVE  Cardinality(Live(n, gone)) = 0 <=> Predecessors(n) \subseteq gone
<1>1. Cardinality(Live(n, gone)) = 0 <=> Live(n, gone) = {}
  BY LiveFinite, FS_EmptySet
<1>2. Live(n, gone) = {} <=> Predecessors(n) \subseteq gone
  BY DEF Live, Predecessors
<1> QED
  BY <1>1, <1>2

(* In a graph without a knot no step is among its own ancestors.           *)
LEMMA NotOwnAncestor ==
  ASSUME edges \in EdgeLists, NEW x \in Steps, NEW A \in SUBSET Steps,
         ~Cyclic, ClosedAbove(x, A),
         \A S \in SUBSET Steps : ClosedAbove(x, S) => A \subseteq S
  PROVE  x \notin A
<1> SUFFICES ASSUME x \in A
             PROVE  FALSE
  OBVIOUS
<1> DEFINE Up(n) == \A S \in SUBSET Steps : ClosedAbove(n, S) => x \in S
           K == {n \in A : Up(n)}
<1>1. Up(x)
  <2> SUFFICES ASSUME NEW S \in SUBSET Steps, ClosedAbove(x, S)
               PROVE  x \in S
    OBVIOUS
  <2> QED
    OBVIOUS
<1>2. x \in K
  BY <1>1
<1>3. ASSUME NEW n \in K
      PROVE  Predecessors(n) \cap K # {}
  <2>1. Predecessors(n) \subseteq A
    BY DEF ClosedAbove
  <2> SUFFICES ASSUME \A m \in Predecessors(n) : ~Up(m)
               PROVE  FALSE
    BY <2>1
  (* Were no predecessor of n below x, the steps that are not    *)
  (* below it would be closed above n.                                     *)
  <2> DEFINE T == {m \in Steps : ~Up(m)}
             U == {m \in T : m # x}
  <2>2. \A m \in T : Predecessors(m) \subseteq T
    <3> SUFFICES ASSUME NEW m \in T, NEW q \in Predecessors(m)
                 PROVE  q \in T
      OBVIOUS
    <3>1. q \in Steps
      BY EdgesTyped
    <3>2. PICK S \in SUBSET Steps : ClosedAbove(m, S) /\ x \notin S
      OBVIOUS
    <3>3. ClosedAbove(q, S)
      BY <3>2 DEF ClosedAbove
    <3> QED
      BY <3>1, <3>2, <3>3
  <2>3. x \notin T
    BY <1>1
  <2>4. ClosedAbove(n, T)
    BY <2>2, EdgesTyped DEF ClosedAbove
  <2>5. T \in SUBSET Steps
    OBVIOUS
  <2> QED
    BY <2>3, <2>4, <2>5
<1>4. K \in SUBSET Steps /\ K # {} /\ Knot(K)
  BY <1>2, <1>3 DEF Knot
<1> QED
  BY <1>4 DEF Cyclic

(* No step rewrites the edges, so everything defined from them stands.     *)
LEMMA SameGraph ==
  ASSUME edges' = edges
  PROVE  /\ \A n : Predecessors(n)' = Predecessors(n)
         /\ \A n : Successors(n)' = Successors(n)
         /\ Roots' = Roots
         /\ \A n, S : Live(n, S)' = Live(n, S)
         /\ Cyclic' = Cyclic
         /\ \A S : Knot(S)' = Knot(S)
         /\ \A n, S : ClosedAbove(n, S)' = ClosedAbove(n, S)
<1>1. \A n : Predecessors(n)' = Predecessors(n)
  BY DEF Predecessors, Into
<1>2. \A n : Successors(n)' = Successors(n)
  BY <1>1 DEF Successors
<1>3. Roots' = Roots
  BY <1>1, <1>2 DEF Roots
<1>4. \A S : Knot(S)' = Knot(S)
  BY <1>1 DEF Knot
<1>5. Cyclic' = Cyclic
  BY <1>4 DEF Cyclic
<1>6. \A n, S : ClosedAbove(n, S)' = ClosedAbove(n, S)
  BY <1>1 DEF ClosedAbove
<1>7. \A n, S : Live(n, S)' = Live(n, S)
  BY DEF Live, Into
<1> QED
  BY <1>1, <1>2, <1>3, <1>4, <1>5, <1>6, <1>7

LEMMA InitInv == Init => Inv
<1> SUFFICES ASSUME Init
             PROVE  Inv
  OBVIOUS
<1> USE DEF Init
<1>1. \A n \in Steps : Cardinality(Into(n)) \in Nat
  BY EdgesTyped, FS_CardinalityType
<1>2. TypeOK
  BY <1>1 DEF TypeOK, Phases
<1>3. \A n : Live(n, {}) = Into(n)
  BY DEF Live
<1>4. KahnInv
  BY <1>3, FS_EmptySet DEF KahnInv
<1> QED
  BY <1>2, <1>4 DEF Inv, WalkUpInv, WalkDownInv, CycleVerdict, AncestorsExact

LEMMA PopNodeInv ==
  ASSUME Inv, NEW n \in Steps, PopNode(n)
  PROVE  Inv'
<1> USE DEF Inv
<1>1. edges \in EdgeLists /\ edges' = edges /\ phase' = phase /\ phase = "kahn"
  BY DEF PopNode, TypeOK
<1>2. n \in queue /\ n \notin popped /\ indegree[n] = 0 /\ popped' = popped \cup {n}
  BY DEF PopNode, KahnInv
<1>3. \A m \in Steps : indegree'[m] = Cardinality(Live(m, popped \cup {n}))
  <2> SUFFICES ASSUME NEW m \in Steps
               PROVE  indegree'[m] = Cardinality(Live(m, popped \cup {n}))
    OBVIOUS
  <2>1. indegree'[m] = indegree[m] - Cardinality(Between(n, m))
    BY DEF PopNode
  <2> QED
    BY <1>1, <1>2, <2>1, PopCounts DEF KahnInv
<1>4. \A m \in Steps : indegree'[m] \in Nat
  BY <1>1, <1>3, LiveFinite
<1>5. \A m \in Steps : m \notin Successors(n) => Live(m, popped \cup {n}) = Live(m, popped)
  BY DEF Live, Successors, Predecessors
<1>6. \A m \in Steps : indegree[m] = 0 => indegree'[m] = 0
  <2> SUFFICES ASSUME NEW m \in Steps, indegree[m] = 0
               PROVE  indegree'[m] = 0
    OBVIOUS
  <2>1. Predecessors(m) \subseteq popped
    BY <1>1, NoLiveEdge DEF KahnInv
  <2> QED
    BY <1>1, <1>3, <2>1, NoLiveEdge
<1>7. \A m \in Steps : m \in Successors(n) => indegree[m] # 0 /\ m # n /\ m \notin popped
  <2> SUFFICES ASSUME NEW m \in Steps, n \in Predecessors(m)
               PROVE  indegree[m] # 0 /\ m # n /\ m \notin popped
    BY DEF Successors
  <2>1. indegree[m] # 0
    BY <1>1, <1>2, NoLiveEdge DEF KahnInv
  <2>2. m \notin popped
    BY <2>1 DEF KahnInv
  <2> QED
    BY <1>2, <2>1, <2>2
<1>8. queue' = {m \in Steps : m \notin popped' /\ indegree'[m] = 0}
  <2>1. queue' = (queue \ {n}) \cup {m \in Successors(n) : indegree'[m] = 0}
    BY DEF PopNode
  <2>2. queue = {m \in Steps : m \notin popped /\ indegree[m] = 0}
    BY DEF KahnInv
  <2>3. \A m \in Steps : m \notin Successors(n) => indegree'[m] = indegree[m]
    BY <1>3, <1>5 DEF KahnInv
  <2>4. Successors(n) \subseteq Steps
    BY <1>1, EdgesTyped
  <2> QED
    BY <1>2, <1>6, <1>7, <2>1, <2>2, <2>3, <2>4
<1>9. visited' = Cardinality(popped')
  <2>1. IsFiniteSet(popped)
    BY GraphAssumption, FS_Subset DEF TypeOK
  <2> QED
    BY <1>2, <2>1, FS_AddElement DEF PopNode, KahnInv
<1>10. ASSUME NEW S \in SUBSET Steps, Knot(S)
       PROVE  S \cap popped' = {}
  <2>1. S \cap popped = {}
    BY <1>10 DEF KahnInv
  <2>2. Predecessors(n) \subseteq popped
    BY <1>1, <1>2, NoLiveEdge DEF KahnInv
  <2>3. n \notin S
    BY <1>10, <2>1, <2>2 DEF Knot
  <2> QED
    BY <1>2, <2>1, <2>3
<1>11. KahnInv'
  <2>1. \A m \in popped' : indegree'[m] = 0
    BY <1>2, <1>6 DEF KahnInv, TypeOK
  <2>2. \A m \in Steps : indegree'[m] = Cardinality(Live(m, popped)')
    BY <1>1, <1>2, <1>3, SameGraph DEF Live, Into
  <2>3. \A S : Knot(S)' = Knot(S)
    BY <1>1, SameGraph
  <2>4. \A S \in SUBSET Steps : Knot(S)' => S \cap popped' = {}
    BY <1>10, <2>3
  <2> QED
    BY <1>8, <1>9, <2>1, <2>2, <2>4 DEF KahnInv
<1>12. TypeOK'
  <2>1. queue' \subseteq Steps
    BY <1>8
  <2>2. indegree' \in [Steps -> Nat]
    <3>1. indegree' = [m \in Steps |-> indegree[m] - Cardinality(Between(n, m))]
      BY DEF PopNode
    <3> QED
      BY <1>4, <3>1
  <2>3. visited' \in Nat
    BY DEF PopNode, TypeOK
  <2> QED
    BY <1>1, <1>2, <2>1, <2>2, <2>3 DEF TypeOK, PopNode, walk
<1> QED
  BY <1>1, <1>11, <1>12
     DEF PopNode, walk, WalkUpInv, WalkDownInv, CycleVerdict, AncestorsExact

(* Whatever Kahn's loop leaves unpopped when its queue is empty is a knot. *)
LEMMA LeftoverKnot ==
  ASSUME TypeOK, KahnInv, queue = {}
  PROVE  Knot(Steps \ popped)
<1> SUFFICES ASSUME NEW n \in Steps, n \notin popped
             PROVE  Predecessors(n) \cap (Steps \ popped) # {}
  BY DEF Knot
<1>1. indegree[n] # 0
  BY DEF KahnInv
<1>2. ~(Predecessors(n) \subseteq popped)
  BY <1>1, NoLiveEdge DEF KahnInv, TypeOK
<1> QED
  BY <1>2, EdgesTyped DEF TypeOK

(* The counter equals the number of steps only when every one was popped.  *)
LEMMA CountTells ==
  ASSUME TypeOK, KahnInv
  PROVE  visited = Cardinality(Steps) <=> popped = Steps
<1>1. popped \subseteq Steps /\ IsFiniteSet(Steps)
  BY GraphAssumption DEF TypeOK
<1> QED
  BY <1>1, FS_Subset DEF KahnInv

LEMMA RejectInv ==
  ASSUME Inv, RejectCycle
  PROVE  Inv'
<1> USE DEF Inv
<1>1. edges' = edges
  BY DEF RejectCycle
<1>2. Steps \ popped # {} /\ Steps \ popped \in SUBSET Steps
  BY CountTells DEF RejectCycle, TypeOK
<1>3. Cyclic
  BY <1>2, LeftoverKnot DEF RejectCycle, Cyclic
<1>4. CycleVerdict'
  BY <1>1, <1>3, SameGraph DEF CycleVerdict, RejectCycle
<1>5. TypeOK'
  BY DEF RejectCycle, kahn, walk, TypeOK, Phases
<1>6. KahnInv'
  BY <1>1, SameGraph DEF RejectCycle, kahn, walk, KahnInv
<1> QED
  BY <1>4, <1>5, <1>6 DEF RejectCycle, WalkUpInv, WalkDownInv, AncestorsExact

LEMMA AcceptInv ==
  ASSUME Inv, AcceptAcyclic
  PROVE  Inv'
<1> USE DEF Inv
<1>1. edges' = edges /\ subject' = subject /\ seen' = seen /\ seen = {}
      /\ phase' = "ancestors" /\ stack' = Predecessors(subject)
  BY DEF AcceptAcyclic
<1>2. popped = Steps
  BY CountTells DEF AcceptAcyclic
<1>3. ~Cyclic
  BY <1>2 DEF Cyclic, KahnInv
<1>4. CycleVerdict'
  BY <1>1, <1>3, SameGraph DEF CycleVerdict
<1>5. TypeOK'
  BY <1>1, EdgesTyped DEF AcceptAcyclic, kahn, TypeOK, Phases
<1>6. KahnInv'
  BY <1>1, SameGraph DEF AcceptAcyclic, kahn, KahnInv
<1>7. WalkUpInv'
  BY <1>1, SameGraph DEF WalkUpInv, ClosedAbove
<1> QED
  BY <1>1, <1>4, <1>5, <1>6, <1>7 DEF WalkDownInv, AncestorsExact

LEMMA WalkUpStepInv ==
  ASSUME Inv, NEW n \in Steps, WalkUp(n)
  PROVE  Inv'
<1> USE DEF Inv
<1>1. edges' = edges /\ subject' = subject /\ phase' = phase /\ phase = "ancestors"
      /\ n \in stack
      /\ seen' = seen \cup {n}
      /\ stack' = (stack \ {n}) \cup (IF n \in seen THEN {} ELSE Predecessors(n))
  BY DEF WalkUp
<1>2. TypeOK'
  BY <1>1, EdgesTyped DEF WalkUp, kahn, TypeOK
<1>3. KahnInv'
  BY <1>1, SameGraph DEF WalkUp, kahn, KahnInv
<1>4. CycleVerdict'
  BY <1>1, SameGraph DEF CycleVerdict
<1>5. Predecessors(subject) \subseteq seen' \cup stack'
  BY <1>1 DEF WalkUpInv
<1>6. \A m \in seen' : Predecessors(m) \subseteq seen' \cup stack'
  BY <1>1 DEF WalkUpInv
<1>7. ASSUME NEW S \in SUBSET Steps, ClosedAbove(subject, S)
      PROVE  seen' \cup stack' \subseteq S
  <2>1. seen \cup stack \subseteq S
    BY <1>1, <1>7 DEF WalkUpInv
  <2>2. Predecessors(n) \subseteq S
    BY <1>1, <1>7, <2>1 DEF ClosedAbove
  <2> QED
    BY <1>1, <2>1, <2>2
<1>8. WalkUpInv'
  <2>1. /\ \A m : Predecessors(m)' = Predecessors(m)
        /\ \A S : ClosedAbove(subject, S)' = ClosedAbove(subject, S)
    BY <1>1, SameGraph
  <2>2. Predecessors(subject)' = Predecessors(subject)
    BY <1>1, SameGraph DEF Predecessors, Into
  <2> QED
    BY <1>1, <1>5, <1>6, <1>7, <2>1, <2>2 DEF WalkUpInv
<1> QED
  BY <1>1, <1>2, <1>3, <1>4, <1>8 DEF WalkDownInv, AncestorsExact

LEMMA AncestorsDoneInv ==
  ASSUME Inv, AncestorsDone
  PROVE  Inv'
<1> USE DEF Inv
<1>1. edges' = edges /\ subject' = subject /\ phase' = "reach" /\ phase = "ancestors"
      /\ ancestors' = seen /\ seen' = {} /\ stack' = Roots /\ stack = {}
  BY DEF AncestorsDone
<1>2. TypeOK'
  BY <1>1 DEF AncestorsDone, kahn, TypeOK, Phases, Roots
<1>3. KahnInv'
  BY <1>1, SameGraph DEF AncestorsDone, kahn, KahnInv
<1>4. CycleVerdict'
  BY <1>1, SameGraph DEF CycleVerdict
<1>5. ClosedAbove(subject, seen) /\ seen \in SUBSET Steps
  BY <1>1 DEF WalkUpInv, ClosedAbove, TypeOK
<1>6. \A S \in SUBSET Steps : ClosedAbove(subject, S) => seen \subseteq S
  BY <1>1 DEF WalkUpInv
<1>7. subject' \notin ancestors'
  BY <1>1, <1>5, <1>6, NotOwnAncestor DEF CycleVerdict, TypeOK
<1>8. AncestorsExact'
  <2>1. ClosedAbove(subject, ancestors)'
    BY <1>1, <1>5 DEF ClosedAbove, Predecessors, Into
  <2>2. \A S \in SUBSET Steps : ClosedAbove(subject, S)' => ancestors' \subseteq S
    BY <1>1, <1>6, SameGraph
  <2> QED
    BY <1>7, <2>1, <2>2 DEF AncestorsExact
<1>9. WalkDownInv'
  BY <1>1, SameGraph DEF WalkDownInv, Roots
<1> QED
  BY <1>1, <1>2, <1>3, <1>4, <1>8, <1>9 DEF WalkUpInv

LEMMA WalkDownStepInv ==
  ASSUME Inv, NEW n \in Steps, WalkDown(n)
  PROVE  Inv'
<1> USE DEF Inv
<1>1. edges' = edges /\ subject' = subject /\ phase' = phase /\ phase = "reach"
      /\ n \in stack /\ ancestors' = ancestors
      /\ seen' = seen \cup {n}
      /\ stack' = (stack \ {n}) \cup (IF n \in seen THEN {} ELSE Successors(n))
  BY DEF WalkDown
<1>2. TypeOK'
  BY <1>1, EdgesTyped DEF WalkDown, kahn, TypeOK
<1>3. KahnInv'
  BY <1>1, SameGraph DEF WalkDown, kahn, KahnInv
<1>4. CycleVerdict'
  BY <1>1, SameGraph DEF CycleVerdict
<1>5. AncestorsExact'
  <2>1. \A S : ClosedAbove(subject, S)' = ClosedAbove(subject, S)
    BY <1>1 DEF ClosedAbove, Predecessors, Into
  <2>2. ClosedAbove(subject, ancestors)' = ClosedAbove(subject, ancestors)
    BY <1>1 DEF ClosedAbove, Predecessors, Into
  <2> QED
    BY <1>1, <2>1, <2>2 DEF AncestorsExact
<1>6. \A m \in Successors(n) : Predecessors(m) # {}
  BY DEF Successors
<1>7. WalkDownInv'
  <2>1. Roots \subseteq seen' \cup stack'
    BY <1>1 DEF WalkDownInv
  <2>2. \A m \in seen' : Successors(m) \subseteq seen' \cup stack'
    BY <1>1 DEF WalkDownInv
  <2>3. \A m \in seen' \cup stack' : Predecessors(m) # {} \/ Successors(m) # {}
    BY <1>1, <1>6 DEF WalkDownInv
  <2> QED
    BY <1>1, <2>1, <2>2, <2>3, SameGraph DEF WalkDownInv
<1> QED
  BY <1>1, <1>2, <1>3, <1>4, <1>5, <1>7 DEF WalkUpInv

LEMMA ReachDoneInv ==
  ASSUME Inv, ReachDone
  PROVE  Inv'
<1> USE DEF Inv
<1>1. edges' = edges /\ subject' = subject /\ phase' = "checked" /\ phase = "reach"
      /\ ancestors' = ancestors /\ seen' = seen /\ stack' = stack /\ stack = {}
  BY DEF ReachDone, walk
<1>2. TypeOK'
  BY <1>1 DEF ReachDone, kahn, TypeOK, Phases
<1>3. KahnInv'
  BY <1>1, SameGraph DEF ReachDone, kahn, KahnInv
<1>4. CycleVerdict' /\ WalkDownInv'
  BY <1>1, SameGraph DEF CycleVerdict, WalkDownInv
<1>5. AncestorsExact'
  <2>1. \A S : ClosedAbove(subject, S)' = ClosedAbove(subject, S)
    BY <1>1 DEF ClosedAbove, Predecessors, Into
  <2>2. ClosedAbove(subject, ancestors)' = ClosedAbove(subject, ancestors)
    BY <1>1 DEF ClosedAbove, Predecessors, Into
  <2> QED
    BY <1>1, <2>1, <2>2 DEF AncestorsExact
<1> QED
  BY <1>1, <1>2, <1>3, <1>4, <1>5 DEF WalkUpInv

LEMMA StutterInv ==
  ASSUME Inv, UNCHANGED vars
  PROVE  Inv'
<1> USE DEF Inv
<1>1. /\ edges' = edges /\ subject' = subject /\ phase' = phase
      /\ ancestors' = ancestors /\ seen' = seen /\ stack' = stack
  BY DEF vars
<1>2. TypeOK'
  BY DEF vars, TypeOK
<1>3. KahnInv'
  BY <1>1, SameGraph DEF vars, KahnInv
<1>4. CycleVerdict' /\ WalkDownInv'
  BY <1>1, SameGraph DEF CycleVerdict, WalkDownInv
<1>5. \A S : ClosedAbove(subject, S)' = ClosedAbove(subject, S)
  BY <1>1 DEF ClosedAbove, Predecessors, Into
<1>6. ClosedAbove(subject, ancestors)' = ClosedAbove(subject, ancestors)
      /\ Predecessors(subject)' = Predecessors(subject)
  BY <1>1 DEF ClosedAbove, Predecessors, Into
<1>7. AncestorsExact'
  BY <1>1, <1>5, <1>6 DEF AncestorsExact
<1>8. WalkUpInv'
  BY <1>1, <1>5, <1>6, SameGraph DEF WalkUpInv
<1> QED
  BY <1>1, <1>2, <1>3, <1>4, <1>7, <1>8

LEMMA NextInv == Inv /\ [Next]_vars => Inv'
<1> SUFFICES ASSUME Inv, [Next]_vars
             PROVE  Inv'
  OBVIOUS
<1>1. CASE \E n \in Steps : PopNode(n)
  BY <1>1, PopNodeInv
<1>2. CASE \E n \in Steps : WalkUp(n)
  BY <1>2, WalkUpStepInv
<1>3. CASE \E n \in Steps : WalkDown(n)
  BY <1>3, WalkDownStepInv
<1>4. CASE RejectCycle
  BY <1>4, RejectInv
<1>5. CASE AcceptAcyclic
  BY <1>5, AcceptInv
<1>6. CASE AncestorsDone
  BY <1>6, AncestorsDoneInv
<1>7. CASE ReachDone
  BY <1>7, ReachDoneInv
<1>8. CASE UNCHANGED vars
  BY <1>8, StutterInv
<1> QED
  BY <1>1, <1>2, <1>3, <1>4, <1>5, <1>6, <1>7, <1>8 DEF Next

THEOREM InvAlways == Spec => []Inv
BY InitInv, NextInv, PTL DEF Spec

-----------------------------------------------------------------------------
(* An edge's step the walk down missed would lie in a knot of such steps,  *)
(* and a definition that passed the cycle check has none.                  *)
LEMMA InvImpliesIsolated == Inv => UnreachableIsIsolated
<1> SUFFICES ASSUME Inv, phase = "checked", edges # <<>>
             PROVE  Steps \ seen
                      = {n \in Steps : Predecessors(n) = {} /\ Successors(n) = {}}
  BY DEF UnreachableIsIsolated, Unreachable
<1> DEFINE Lost == {n \in Steps : n \notin seen /\ (Predecessors(n) # {} \/ Successors(n) # {})}
<1>1. /\ edges \in EdgeLists /\ stack = {} /\ ~Cyclic
      /\ Roots \subseteq seen
      /\ \A n \in seen : Successors(n) \subseteq seen
      /\ \A n \in seen : Predecessors(n) # {} \/ Successors(n) # {}
  BY DEF Inv, TypeOK, WalkDownInv, CycleVerdict
<1>2. ASSUME NEW n \in Lost
      PROVE  Predecessors(n) \cap Lost # {}
  <2>1. Predecessors(n) # {}
    BY <1>1 DEF Roots
  <2>2. PICK m \in Predecessors(n) : TRUE
    BY <2>1
  <2>3. m \in Steps /\ n \in Successors(m)
    BY <1>1, <2>2, EdgesTyped DEF Successors
  <2>4. m \notin seen
    BY <1>1, <2>3
  <2> QED
    BY <2>2, <2>3, <2>4
<1>3. Knot(Lost) /\ Lost \in SUBSET Steps
  BY <1>2 DEF Knot
<1>4. Lost = {}
  BY <1>1, <1>3 DEF Cyclic
<1> QED
  BY <1>1, <1>4

(* Types are kept; in_degree never goes negative.                          *)
THEOREM TypeAlways == Spec => []TypeOK
<1>1. Inv => TypeOK
  BY DEF Inv
<1> QED
  BY <1>1, InvAlways, PTL

(* Kahn's loop rejects exactly the definitions whose edges have a cycle.   *)
THEOREM CycleVerdictAlways == Spec => []CycleVerdict
<1>1. Inv => CycleVerdict
  BY DEF Inv
<1> QED
  BY <1>1, InvAlways, PTL

(* The ancestors used to check references are the least closed set.        *)
THEOREM AncestorsExactAlways == Spec => []AncestorsExact
<1>1. Inv => AncestorsExact
  BY DEF Inv
<1> QED
  BY <1>1, InvAlways, PTL

(* After the cycle check, unreachable means touched by no edge.            *)
THEOREM UnreachableIsIsolatedAlways == Spec => []UnreachableIsIsolated
BY InvImpliesIsolated, InvAlways, PTL
=============================================================================
