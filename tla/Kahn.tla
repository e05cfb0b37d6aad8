-------------------------------- MODULE Kahn --------------------------------
(***************************************************************************)
(* Kahn's algorithm, as ProcessDefinition._validate_dag, validate_dag and  *)
(* _would_create_cycle run it on a list of edges that may repeat an edge   *)
(* and hold self-loops.  One action is one iteration of a loop.            *)
(***************************************************************************)
EXTENDS Naturals, Sequences, FiniteSets, Dag

CONSTANTS
    Nodes,          \* step names, or the tasks that occur in a dependency
    EdgeLists       \* the lists of edges to be judged

ASSUME NodesAssumption == IsFiniteSet(Nodes)

\* An edge names two known steps; whatever else it says is refused before.
Normalized == Seq(Nodes \X Nodes)

ASSUME EdgesAssumption == EdgeLists \subseteq Normalized

VARIABLES
    edges,          \* the list judged
    indegree,       \* in_degree
    queue,          \* queue
    order,          \* visited_order: the nodes popped; the last is `node`
    next,           \* index of the next edge the inner loop looks at
    pc              \* "pop", "relax" or "done"

vars == <<edges, indegree, queue, order, next, pc>>

From(i) == edges[i][1]
To(i) == edges[i][2]

EdgeSet == {edges[i] : i \in DOMAIN edges}

Node == order[Len(order)]

TypeOK ==
    /\ edges \in EdgeLists
    /\ indegree \in [Nodes -> Nat]
    /\ queue \in Seq(Nodes)
    /\ order \in Seq(Nodes)
    /\ next \in Nat \ {0}
    /\ pc \in {"pop", "relax", "done"}

\* The lists that hold every member of S once.
Listings(S) ==
    {s \in [1..Cardinality(S) -> S] : \A i, j \in DOMAIN s : s[i] = s[j] => i = j}

\* Fault: a repeated edge is counted once.
InDegree_Distinct(n) == Cardinality({m \in Nodes : <<m, n>> \in EdgeSet})

InDegree(n) == Cardinality({i \in DOMAIN edges : To(i) = n})

\* The queue starts with the nodes without incoming edges in the order of the
\* dict, which may be any order.
Init ==
    /\ edges \in EdgeLists
    /\ indegree = [n \in Nodes |-> InDegree(n)]
    /\ queue \in Listings({n \in Nodes : indegree[n] = 0})
    /\ order = <<>>
    /\ next = 1
    /\ pc = "pop"

-----------------------------------------------------------------------------
\* popleft, and the node counts as visited.
Pop ==
    /\ pc = "pop"
    /\ queue # <<>>
    /\ order' = Append(order, Head(queue))
    /\ queue' = Tail(queue)
    /\ next' = 1
    /\ pc' = "relax"
    /\ UNCHANGED <<edges, indegree>>

\* Faults: one edge left to come is enough; the edge is not discounted.
Freed_Early(d) == d <= 1
Lower_Not(i) == indegree

Lower(i) == [indegree EXCEPT ![To(i)] = @ - 1]
Freed(d) == d = 0

\* `for nxt in adjacency[node]`: an edge from the popped node.
Relax ==
    /\ pc = "relax"
    /\ next \in DOMAIN edges
    /\ From(next) = Node
    /\ indegree' = Lower(next)
    /\ queue' = IF Freed(indegree'[To(next)]) THEN Append(queue, To(next)) ELSE queue
    /\ next' = next + 1
    /\ UNCHANGED <<edges, order, pc>>

\* An edge that is not in adjacency[node].
Skip ==
    /\ pc = "relax"
    /\ next \in DOMAIN edges
    /\ From(next) # Node
    /\ next' = next + 1
    /\ UNCHANGED <<edges, indegree, queue, order, pc>>

\* The inner loop ends.
Relaxed ==
    /\ pc = "relax"
    /\ next \notin DOMAIN edges
    /\ pc' = "pop"
    /\ UNCHANGED <<edges, indegree, queue, order, next>>

\* The queue is empty.
Decide ==
    /\ pc = "pop"
    /\ queue = <<>>
    /\ pc' = "done"
    /\ UNCHANGED <<edges, indegree, queue, order, next>>

Next == Pop \/ Relax \/ Skip \/ Relaxed \/ Decide

Spec == Init /\ [][Next]_vars

\* visited == len(names): the definition is accepted, the dependency added.
Accepted == Len(order) = Cardinality(Nodes)

\* The steps that the error of a refusal names.
Cycle == {n \in Nodes : indegree[n] > 0}

-----------------------------------------------------------------------------
(* Properties *)

\* The algorithm accepts exactly the lists without a cycle, whatever edges they
\* repeat, and an error names the largest set of steps that all have a predecessor
\* in it: those on a cycle and those that wait for one (dag.py: "if we can't sort all
\* nodes, there's a cycle", "those still with in_degree > 0").
VerdictRight ==
    pc = "done" =>
        /\ Accepted <=> Acyclic(EdgeSet)
        /\ Accepted <=> Cycle = {}
        /\ Knot(EdgeSet, Cycle)
        /\ \A S \in SUBSET Nodes : Knot(EdgeSet, S) => S \subseteq Cycle

\* Every node comes after all nodes it has an edge from, so the list that
\* validate_dag returns as topological_order is one.
OrderFollowsEdges ==
    \A k \in DOMAIN order : \A i \in DOMAIN edges :
        To(i) = order[k] => \E j \in 1..(k - 1) : order[j] = From(i)

\* No node is visited twice, although it is queued while its in-degree is
\* lowered once for every edge of the list.
VisitedOnce == \A j, k \in DOMAIN order : order[j] = order[k] => j = k

=============================================================================
