---------------------------- MODULE WorkflowGraph ----------------------------
(***************************************************************************)
(* The graph algorithms a workflow definition goes through on every read   *)
(* and write: Kahn's check that its edges have no cycle (parse layer,      *)
(* schemas/workflow.py), then the ancestors of a step and the steps that   *)
(* cannot be reached (semantic layer, schemas/workflow_validation.py).     *)
(* Each loop iteration is an action; the order in which a loop takes the   *)
(* nodes of its work list is left open, as it hangs on hash order.         *)
(***************************************************************************)
EXTENDS Naturals, Sequences, FiniteSets

CONSTANTS
  Steps,      \* the step ids of the definition, already known to be distinct
  EdgeLists   \* the edge lists considered; an edge may be listed twice

Edge == [source : Steps, target : Steps]

ASSUME GraphAssumption == IsFiniteSet(Steps) /\ EdgeLists \subseteq Seq(Edge)

VARIABLES
  edges,      \* the definition's edges, which no step changes
  phase,      \* which loop runs, and at the end the verdict
  indegree,   \* in_degree: edges into a step from steps not yet popped
  queue,      \* steps whose in_degree reached zero
  visited,    \* how many steps were popped: a counter, as in the code
  popped,     \* which steps were popped (history)
  subject,    \* the step whose ancestors are computed
  ancestors,  \* the result for that step
  seen,       \* seen / reachable: the marked nodes of the running walk
  stack       \* the nodes still to be looked at by the running walk

vars == <<edges, phase, indegree, queue, visited, popped, subject, ancestors,
          seen, stack>>
walk == <<subject, ancestors, seen, stack>>
kahn == <<indegree, queue, visited, popped>>

Phases == {"kahn", "ancestors", "reach", "checked", "rejected"}

-----------------------------------------------------------------------------
Into(n) == {i \in DOMAIN edges : edges[i].target = n}
Between(m, n) == {i \in Into(n) : edges[i].source = m}
Predecessors(n) == {edges[i].source : i \in Into(n)}
Successors(n) == {m \in Steps : n \in Predecessors(m)}

(* Bug: a step without any edge counts as a root.                          *)
RootsWithIsolated == {n \in Steps : Predecessors(n) = {}}

(* A root has no incoming edge and takes part in at least one edge.        *)
Roots == {n \in Steps : Predecessors(n) = {} /\ Successors(n) # {}}

(* What the report lists: nothing when there are no edges at all.          *)
Unreachable == IF edges = <<>> THEN {} ELSE Steps \ seen

-----------------------------------------------------------------------------
Init ==
  /\ edges \in EdgeLists
  /\ phase = "kahn"
  /\ indegree = [n \in Steps |-> Cardinality(Into(n))]
  /\ queue = {n \in Steps : indegree[n] = 0}
  /\ visited = 0
  /\ popped = {}
  /\ subject \in Steps
  /\ ancestors = {}
  /\ seen = {}
  /\ stack = {}

(* Bug: the step is looked at but stays in the queue.                      *)
PopNodeKeepingIt(n) ==
  /\ phase = "kahn"
  /\ n \in queue
  /\ visited' = visited + 1
  /\ popped' = popped \cup {n}
  /\ indegree' = [m \in Steps |-> indegree[m] - Cardinality(Between(n, m))]
  /\ queue' = queue \cup {m \in Successors(n) : indegree'[m] = 0}
  /\ UNCHANGED <<edges, phase, walk>>

(* Bug: an edge that is listed twice is taken away once.                   *)
PopNodeIgnoringRepeats(n) ==
  /\ phase = "kahn"
  /\ n \in queue
  /\ visited' = visited + 1
  /\ popped' = popped \cup {n}
  /\ indegree' = [m \in Steps |-> indegree[m] - (IF m \in Successors(n) THEN 1 ELSE 0)]
  /\ queue' = (queue \ {n}) \cup {m \in Successors(n) : indegree'[m] = 0}
  /\ UNCHANGED <<edges, phase, walk>>

(* One turn of Kahn's loop: pop a step and take its outgoing edges away,   *)
(* queueing every neighbour whose count reaches zero by that.              *)
PopNode(n) ==
  /\ phase = "kahn"
  /\ n \in queue
  /\ visited' = visited + 1
  /\ popped' = popped \cup {n}
  /\ indegree' = [m \in Steps |-> indegree[m] - Cardinality(Between(n, m))]
  /\ queue' = (queue \ {n}) \cup {m \in Successors(n) : indegree'[m] = 0}
  /\ UNCHANGED <<edges, phase, walk>>

(* The queue ran dry: fewer popped steps than there are means a cycle.     *)
RejectCycle ==
  /\ phase = "kahn"
  /\ queue = {}
  /\ visited # Cardinality(Steps)
  /\ phase' = "rejected"
  /\ UNCHANGED <<edges, kahn, walk>>

AcceptAcyclic ==
  /\ phase = "kahn"
  /\ queue = {}
  /\ visited = Cardinality(Steps)
  /\ phase' = "ancestors"
  /\ stack' = Predecessors(subject)
  /\ UNCHANGED <<edges, kahn, subject, ancestors, seen>>

(* Bug: only the direct predecessors of the subject are collected.         *)
WalkUpOneStep(n) ==
  /\ phase = "ancestors"
  /\ n \in stack
  /\ seen' = seen \cup {n}
  /\ stack' = stack \ {n}
  /\ UNCHANGED <<edges, phase, kahn, subject, ancestors>>

(* One turn of the walk up from the subject; a node seen before is only    *)
(* dropped from the stack.                                                 *)
WalkUp(n) ==
  /\ phase = "ancestors"
  /\ n \in stack
  /\ seen' = seen \cup {n}
  /\ stack' = (stack \ {n}) \cup (IF n \in seen THEN {} ELSE Predecessors(n))
  /\ UNCHANGED <<edges, phase, kahn, subject, ancestors>>

AncestorsDone ==
  /\ phase = "ancestors"
  /\ stack = {}
  /\ ancestors' = seen
  /\ seen' = {}
  /\ stack' = Roots
  /\ phase' = "reach"
  /\ UNCHANGED <<edges, kahn, subject>>

(* One turn of the walk down from the roots.                               *)
WalkDown(n) ==
  /\ phase = "reach"
  /\ n \in stack
  /\ seen' = seen \cup {n}
  /\ stack' = (stack \ {n}) \cup (IF n \in seen THEN {} ELSE Successors(n))
  /\ UNCHANGED <<edges, phase, kahn, subject, ancestors>>

ReachDone ==
  /\ phase = "reach"
  /\ stack = {}
  /\ phase' = "checked"
  /\ UNCHANGED <<edges, kahn, walk>>

Next ==
  \/ \E n \in Steps : PopNode(n) \/ WalkUp(n) \/ WalkDown(n)
  \/ RejectCycle \/ AcceptAcyclic \/ AncestorsDone \/ ReachDone

Spec == Init /\ [][Next]_vars

-----------------------------------------------------------------------------
(* Every variable keeps its type; in_degree never goes below zero.         *)
TypeOK ==
  /\ edges \in EdgeLists
  /\ phase \in Phases
  /\ indegree \in [Steps -> Nat]
  /\ queue \subseteq Steps
  /\ visited \in Nat
  /\ popped \subseteq Steps
  /\ subject \in Steps
  /\ ancestors \subseteq Steps
  /\ seen \subseteq Steps
  /\ stack \subseteq Steps

(* A knot is a set of steps each of which has a predecessor in the set: a  *)
(* finite graph has a non-empty one exactly when it has a cycle.           *)
Knot(S) == \A n \in S : Predecessors(n) \cap S # {}
Cyclic == \E S \in SUBSET Steps : S # {} /\ Knot(S)

(* Kahn's loop tells the truth: it rejects a definition only if its edges  *)
(* have a cycle, and accepts one only if they have none, repeated edges    *)
(* and edges from a step to itself included (_ensure_acyclic).             *)
CycleVerdict ==
  /\ phase = "rejected" => Cyclic
  /\ phase \in {"ancestors", "reach", "checked"} => ~Cyclic

(* A set that holds the predecessors of n and of its own members.          *)
ClosedAbove(n, S) ==
  Predecessors(n) \subseteq S /\ \A m \in S : Predecessors(m) \subseteq S

(* The ancestors a reference is checked against are the least such set:    *)
(* no step that runs beside or after the subject is among them, and none   *)
(* of those that must run before it is missing (_compute_ancestors). In    *)
(* particular no step is its own ancestor.                                 *)
AncestorsExact ==
  phase \in {"reach", "checked"} =>
    /\ ClosedAbove(subject, ancestors)
    /\ \A S \in SUBSET Steps : ClosedAbove(subject, S) => ancestors \subseteq S
    /\ subject \notin ancestors

(* Once a definition has passed the cycle check, the walk from the roots   *)
(* misses exactly the steps no edge touches: the unreachable_step error    *)
(* says "isolated", never "behind a cycle" or "after another component"    *)
(* (_unreachable_steps and its call under `if definition.edges`).          *)
UnreachableIsIsolated ==
  phase = "checked" =>
    Unreachable = IF edges = <<>> THEN {}
                  ELSE {n \in Steps : Predecessors(n) = {} /\ Successors(n) = {}}
=============================================================================
