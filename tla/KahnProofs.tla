----------------------------- MODULE KahnProofs -----------------------------
(***************************************************************************)
(* Kahn's algorithm is right for every finite set of nodes and every list  *)
(* of edges.  The invariant says that an in-degree counts the edges still  *)
(* to be discounted, and that no knot of the graph holds a visited node.   *)
(***************************************************************************)
EXTENDS Kahn, FiniteSetTheorems, FunctionTheorems, TLAPS

Visited == {order[k] : k \in DOMAIN order}
Queued == {queue[k] : k \in DOMAIN queue}

\* The edge has been discounted.
Handled(i) ==
    /\ From(i) \in Visited
    /\ pc = "relax" /\ From(i) = Node => i < next

Pending(n) == {i \in DOMAIN edges : To(i) = n /\ ~Handled(i)}

Counted == \A n \in Nodes : indegree[n] = Cardinality(Pending(n))

Settled == \A n \in Nodes : indegree[n] = 0 <=> n \in Visited \cup Queued

QueuedOnce ==
    /\ \A j, k \in DOMAIN queue : queue[j] = queue[k] => j = k
    /\ Visited \cap Queued = {}

\* A node of a knot has an edge into it that is never discounted.
KnotsUnvisited ==
    \A S \in SUBSET Nodes : Knot(EdgeSet, S) => S \cap Visited = {}

AtNode == pc = "relax" => order # <<>>
Emptied == pc = "done" => queue = <<>>

IInv ==
    /\ TypeOK
    /\ Counted
    /\ Settled
    /\ VisitedOnce
    /\ QueuedOnce
    /\ OrderFollowsEdges
    /\ KnotsUnvisited
    /\ AtNode
    /\ Emptied

-----------------------------------------------------------------------------
(* Facts about the edges *)

\* An edge of the list joins two nodes.
LEMMA EdgeType ==
  ASSUME TypeOK, NEW i \in DOMAIN edges
  PROVE  /\ From(i) \in Nodes
         /\ To(i) \in Nodes
         /\ i \in Nat \ {0}
         /\ i <= Len(edges)
         /\ <<From(i), To(i)>> = edges[i]
  <1>1. edges \in Seq(Nodes \X Nodes)
    BY EdgesAssumption DEF TypeOK, Normalized
  <1>2. edges[i] \in Nodes \X Nodes /\ i \in 1..Len(edges)
    BY <1>1
  <1> QED BY <1>1, <1>2 DEF From, To

\* Only finitely many edges wait to be discounted.
LEMMA PendingFinite ==
  ASSUME TypeOK, NEW n \in Nodes
  PROVE  IsFiniteSet(Pending(n))
  <1>1. edges \in Seq(Nodes \X Nodes)
    BY EdgesAssumption DEF TypeOK, Normalized
  <1>2. DOMAIN edges = 1..Len(edges) /\ Len(edges) \in Nat
    BY <1>1
  <1>3. IsFiniteSet(1..Len(edges))
    BY <1>2, FS_Interval
  <1>4. Pending(n) \in SUBSET (1..Len(edges))
    BY <1>2 DEF Pending
  <1> QED BY <1>3, <1>4, FS_Subset

\* In-degree zero: all edges into the node are discounted.
LEMMA ZeroInDegree ==
  ASSUME TypeOK, Counted, NEW n \in Nodes
  PROVE  indegree[n] = 0 <=> \A i \in DOMAIN edges : To(i) = n => Handled(i)
  <1>1. Cardinality(Pending(n)) = 0 <=> Pending(n) = {}
    BY PendingFinite, FS_EmptySet
  <1> QED BY <1>1 DEF Counted, Pending

-----------------------------------------------------------------------------
(* Initially *)

\* The in-degrees count every edge, and the queue holds the nodes without one.
LEMMA InitIInv == Init => IInv
<1> SUFFICES ASSUME Init PROVE IInv
  OBVIOUS
<1> DEFINE Z == {n \in Nodes : indegree[n] = 0}
<1>1. edges \in Seq(Nodes \X Nodes)
  BY EdgesAssumption DEF Init, Normalized
<1>2. \A n \in Nodes : IsFiniteSet({i \in DOMAIN edges : To(i) = n})
  <2> SUFFICES ASSUME NEW n \in Nodes PROVE IsFiniteSet({i \in DOMAIN edges : To(i) = n})
    OBVIOUS
  <2>1. DOMAIN edges = 1..Len(edges) /\ Len(edges) \in Nat
    BY <1>1
  <2>2. IsFiniteSet(1..Len(edges))
    BY <2>1, FS_Interval
  <2> QED BY <2>1, <2>2, FS_Subset
<1>3. indegree \in [Nodes -> Nat]
  BY <1>2, FS_CardinalityType DEF Init, InDegree
<1>4. IsFiniteSet(Z)
  BY NodesAssumption, FS_Subset
<1>5. Cardinality(Z) \in Nat
  BY <1>4, FS_CardinalityType
<1>6. /\ queue \in [1..Cardinality(Z) -> Z]
      /\ \A i, j \in DOMAIN queue : queue[i] = queue[j] => i = j
  BY DEF Init, Listings
<1>7. queue \in Seq(Nodes)
  BY <1>5, <1>6
<1>8. TypeOK
  BY <1>3, <1>7 DEF Init, TypeOK
<1>9. Visited = {} /\ order = <<>> /\ pc = "pop"
  BY DEF Init, Visited
<1>10. \A n \in Nodes : Pending(n) = {i \in DOMAIN edges : To(i) = n}
  BY <1>9 DEF Pending, Handled
<1>11. Counted
  BY <1>10 DEF Counted, Init, InDegree
<1>12. Queued = Z
  <2>1. PICK f : f \in Bijection(1..Cardinality(Z), Z)
    BY <1>4, FS_CardinalityType DEF ExistsBijection
  <2>2. queue \in Injection(1..Cardinality(Z), Z)
    BY <1>6 DEF Injection, IsInjective
  <2>3. IsFiniteSet(1..Cardinality(Z)) /\ Cardinality(1..Cardinality(Z)) = Cardinality(Z)
    BY <1>5, FS_Interval
  <2>4. queue \in Surjection(1..Cardinality(Z), Z)
    BY <2>2, <2>3, <1>4, FS_Injection
  <2> QED BY <2>4, <1>6 DEF Surjection, Queued
<1>13. Settled
  BY <1>9, <1>12 DEF Settled
<1>14. VisitedOnce /\ QueuedOnce /\ OrderFollowsEdges /\ KnotsUnvisited /\ AtNode /\ Emptied
  BY <1>6, <1>9 DEF VisitedOnce, QueuedOnce, OrderFollowsEdges, KnotsUnvisited, AtNode, Emptied
<1> QED BY <1>8, <1>11, <1>13, <1>14 DEF IInv

-----------------------------------------------------------------------------
(* One step *)

\* The node popped has no edge from a node that was not visited before it.
LEMMA PopIInv == IInv /\ Pop => IInv'
<1> SUFFICES ASSUME IInv, Pop PROVE IInv'
  OBVIOUS
<1> USE DEF IInv
<1> DEFINE n == Head(queue)
<1>1. /\ queue \in Seq(Nodes) /\ order \in Seq(Nodes) /\ queue # <<>>
      /\ n \in Nodes /\ n = queue[1] /\ n \in Queued
      /\ Tail(queue) \in Seq(Nodes)
  BY DEF Pop, TypeOK, Queued
<1>2. /\ order' = Append(order, n)
      /\ queue' = Tail(queue)
      /\ edges' = edges /\ indegree' = indegree
      /\ next' = 1 /\ pc = "pop" /\ pc' = "relax"
  BY DEF Pop
<1>3. TypeOK'
  BY <1>1, <1>2 DEF TypeOK
<1>4. /\ DOMAIN order' = 1..(Len(order) + 1)
      /\ \A k \in DOMAIN order : order'[k] = order[k] /\ k # Len(order) + 1
      /\ order'[Len(order) + 1] = n
      /\ Node' = n
      /\ DOMAIN order = 1..Len(order)
      /\ Len(order) \in Nat
  BY <1>1, <1>2 DEF Node
<1>5. Visited' = Visited \cup {n}
  BY <1>4 DEF Visited
<1>6. /\ \A k \in DOMAIN queue' : k + 1 \in DOMAIN queue /\ queue'[k] = queue[k + 1]
      /\ \A k \in DOMAIN queue : k # 1 => k - 1 \in DOMAIN queue' /\ queue'[k - 1] = queue[k]
      /\ \A k \in DOMAIN queue' : k \in Nat \ {0}
      /\ \A k \in DOMAIN queue : k \in Nat \ {0}
      /\ 1 \in DOMAIN queue
  BY <1>1, <1>2
<1>7. Queued' = Queued \ {n}
  <2>1. n \notin Queued'
    BY <1>1, <1>6 DEF QueuedOnce, Queued
  <2>2. Queued' \subseteq Queued
    BY <1>6 DEF Queued
  <2>3. ASSUME NEW x \in Queued, x # n PROVE x \in Queued'
    <3>1. PICK k \in DOMAIN queue : queue[k] = x
      BY DEF Queued
    <3>2. k # 1
      BY <3>1, <2>3, <1>1
    <3> QED BY <3>1, <3>2, <1>6 DEF Queued
  <2> QED BY <2>1, <2>2, <2>3
<1>8. n \notin Visited
  BY <1>1 DEF QueuedOnce
<1>9. \A x : Pending(x)' = Pending(x)
  <2>1. \A i \in DOMAIN edges : From(i)' = From(i) /\ To(i)' = To(i) /\ i \in Nat \ {0}
    BY <1>2, EdgeType DEF From, To
  <2>2. \A i \in DOMAIN edges : Handled(i)' <=> Handled(i)
    BY <2>1, <1>2, <1>4, <1>5, <1>8 DEF Handled
  <2> QED BY <2>1, <2>2, <1>2 DEF Pending
<1>10. Counted'
  BY <1>2, <1>9 DEF Counted
<1>11. Settled'
  BY <1>1, <1>2, <1>5, <1>7 DEF Settled
<1>12. VisitedOnce'
  BY <1>4, <1>8 DEF VisitedOnce, Visited
<1>13. QueuedOnce'
  BY <1>5, <1>6, <1>7 DEF QueuedOnce
<1>14. \A i \in DOMAIN edges : To(i) = n => From(i) \in Visited
  <2>1. indegree[n] = 0
    BY <1>1 DEF Settled
  <2> QED BY <2>1, <1>1, ZeroInDegree DEF Handled
<1>15. OrderFollowsEdges'
  <2> SUFFICES ASSUME NEW k \in DOMAIN order', NEW i \in DOMAIN edges, To(i) = order'[k]
               PROVE  \E j \in 1..(k - 1) : order'[j] = From(i)
    BY <1>2 DEF OrderFollowsEdges, From, To
  <2>1. CASE k \in DOMAIN order
    <3>1. PICK j \in 1..(k - 1) : order[j] = From(i)
      BY <2>1, <1>4 DEF OrderFollowsEdges
    <3>2. j \in DOMAIN order
      BY <2>1, <1>4
    <3> QED BY <3>1, <3>2, <1>4
  <2>2. CASE k = Len(order) + 1
    <3>1. From(i) \in Visited
      BY <2>2, <1>4, <1>14
    <3>2. PICK j \in DOMAIN order : order[j] = From(i)
      BY <3>1 DEF Visited
    <3> QED BY <3>2, <2>2, <1>4
  <2> QED BY <2>1, <2>2, <1>4
<1>16. KnotsUnvisited'
  <2> SUFFICES ASSUME NEW S \in SUBSET Nodes, Knot(EdgeSet, S)
               PROVE  S \cap Visited' = {}
    BY <1>2 DEF KnotsUnvisited, EdgeSet, Knot
  <2>1. S \cap Visited = {}
    BY DEF KnotsUnvisited
  <2>2. n \notin S
    <3> SUFFICES ASSUME n \in S PROVE FALSE
      OBVIOUS
    <3>1. PICK m \in S : <<m, n>> \in EdgeSet
      BY DEF Knot
    <3>2. PICK i \in DOMAIN edges : edges[i] = <<m, n>>
      BY <3>1 DEF EdgeSet
    <3>3. From(i) = m /\ To(i) = n
      BY <3>2 DEF From, To
    <3> QED BY <3>1, <3>3, <1>14, <2>1
  <2> QED BY <2>1, <2>2, <1>5
<1>17. AtNode' /\ Emptied'
  BY <1>1, <1>2 DEF AtNode, Emptied
<1> QED BY <1>3, <1>10, <1>11, <1>12, <1>13, <1>15, <1>16, <1>17

\* An edge is discounted once, and its target queued with the last of them.
LEMMA RelaxIInv == IInv /\ Relax => IInv'
<1> SUFFICES ASSUME IInv, Relax PROVE IInv'
  OBVIOUS
<1> USE DEF IInv
<1> PICK t : t = To(next)
  OBVIOUS
<1>1. /\ pc = "relax" /\ pc' = "relax"
      /\ next \in DOMAIN edges /\ From(next) = Node
      /\ edges' = edges /\ order' = order
      /\ next' = next + 1 /\ next \in Nat \ {0}
      /\ indegree' = [indegree EXCEPT ![t] = @ - 1]
      /\ queue' = IF indegree'[t] = 0 THEN Append(queue, t) ELSE queue
  BY DEF Relax, TypeOK, Lower, Freed
<1>2. t \in Nodes /\ order \in Seq(Nodes) /\ queue \in Seq(Nodes)
      /\ indegree \in [Nodes -> Nat]
  BY <1>1, EdgeType DEF TypeOK
<1>3. Node \in Visited
  BY <1>1, <1>2 DEF AtNode, Node, Visited
<1>4. Visited' = Visited /\ Node' = Node
  BY <1>1 DEF Visited, Node
<1>5. next \in Pending(t) /\ ~Handled(next)
  BY <1>1, <1>3 DEF Pending, Handled
<1>6. \A i \in DOMAIN edges : From(i)' = From(i) /\ To(i)' = To(i) /\ i \in Nat
  BY <1>1, EdgeType DEF From, To
<1>7. \A i \in DOMAIN edges : Handled(i)' <=> Handled(i) \/ i = next
  BY <1>1, <1>3, <1>4, <1>6 DEF Handled
<1>8. /\ Pending(t)' = Pending(t) \ {next}
      /\ \A x \in Nodes : x # t => Pending(x)' = Pending(x)
  BY <1>1, <1>6, <1>7 DEF Pending
<1>9. /\ indegree[t] = Cardinality(Pending(t))
      /\ indegree[t] # 0
      /\ Cardinality(Pending(t)') = indegree[t] - 1
  <2>1. indegree[t] = Cardinality(Pending(t))
    BY <1>2 DEF Counted
  <2>2. IsFiniteSet(Pending(t))
    BY <1>2, PendingFinite
  <2>3. indegree[t] # 0
    BY <2>1, <2>2, <1>5, FS_EmptySet
  <2>4. Cardinality(Pending(t) \ {next}) = Cardinality(Pending(t)) - 1
    BY <2>2, <1>5, FS_RemoveElement
  <2> QED BY <2>1, <2>3, <2>4, <1>8
<1>10. /\ indegree' \in [Nodes -> Nat]
       /\ indegree'[t] = indegree[t] - 1
       /\ \A x \in Nodes : x # t => indegree'[x] = indegree[x]
  BY <1>1, <1>2, <1>9
<1>11. TypeOK'
  BY <1>1, <1>2, <1>10 DEF TypeOK
<1>12. Counted'
  BY <1>8, <1>9, <1>10, <1>1 DEF Counted
<1>13. t \notin Visited /\ t \notin Queued
  BY <1>2, <1>9 DEF Settled
<1>14. ASSUME indegree'[t] = 0 PROVE Settled' /\ QueuedOnce'
  <2>1. queue' = Append(queue, t)
    BY <1>1, <1>14
  <2>2. /\ DOMAIN queue' = 1..(Len(queue) + 1)
        /\ DOMAIN queue = 1..Len(queue)
        /\ Len(queue) \in Nat
        /\ \A k \in DOMAIN queue : queue'[k] = queue[k]
        /\ queue'[Len(queue) + 1] = t
    BY <2>1, <1>2
  <2>3. Queued' = Queued \cup {t}
    BY <2>2 DEF Queued
  <2>4. Settled'
    BY <2>3, <1>4, <1>10, <1>14 DEF Settled
  <2>5. \A j, k \in DOMAIN queue' : queue'[j] = queue'[k] => j = k
    BY <2>2, <1>13 DEF QueuedOnce, Queued
  <2>6. QueuedOnce'
    BY <2>3, <2>5, <1>4, <1>13 DEF QueuedOnce
  <2> QED BY <2>4, <2>6
<1>15. ASSUME indegree'[t] # 0 PROVE Settled' /\ QueuedOnce'
  <2>1. queue' = queue /\ Queued' = Queued
    BY <1>1, <1>15 DEF Queued
  <2>2. Settled'
    BY <2>1, <1>4, <1>9, <1>10, <1>15 DEF Settled
  <2>3. QueuedOnce'
    BY <2>1, <1>4 DEF QueuedOnce
  <2> QED BY <2>2, <2>3
<1>16. VisitedOnce' /\ OrderFollowsEdges'
  BY <1>1 DEF VisitedOnce, OrderFollowsEdges, From, To
<1>17. KnotsUnvisited'
  BY <1>1, <1>4 DEF KnotsUnvisited, EdgeSet, Knot
<1>18. AtNode' /\ Emptied'
  BY <1>1 DEF AtNode, Emptied
<1> QED BY <1>11, <1>12, <1>14, <1>15, <1>16, <1>17, <1>18

\* The steps that only move the index or the program counter.
LEMMA QuietIInv ==
  ASSUME IInv, Skip \/ Relaxed \/ Decide \/ UNCHANGED vars
  PROVE  IInv'
<1> USE DEF IInv
<1>1. /\ edges' = edges /\ indegree' = indegree
      /\ queue' = queue /\ order' = order
  BY DEF Skip, Relaxed, Decide, vars
<1>2. Visited' = Visited /\ Queued' = Queued /\ Node' = Node
  BY <1>1 DEF Visited, Queued, Node
<1>3. next \in Nat \ {0} /\ next' \in Nat \ {0} /\ pc' \in {"pop", "relax", "done"}
  BY DEF Skip, Relaxed, Decide, vars, TypeOK
<1>4. \A i \in DOMAIN edges : /\ From(i)' = From(i) /\ To(i)' = To(i)
                              /\ i \in Nat /\ i <= Len(edges)
  BY <1>1, EdgeType DEF From, To
<1>5. DOMAIN edges = 1..Len(edges) /\ Len(edges) \in Nat
  BY EdgesAssumption DEF TypeOK, Normalized
<1>6. \A i \in DOMAIN edges : Handled(i)' <=> Handled(i)
  <2>1. CASE Skip
    BY <2>1, <1>2, <1>3, <1>4 DEF Skip, Handled
  <2>2. CASE Relaxed
    <3>1. pc = "relax" /\ pc' = "pop" /\ \A i \in DOMAIN edges : i < next
      BY <2>2, <1>3, <1>4, <1>5 DEF Relaxed
    <3> QED BY <3>1, <1>2, <1>4 DEF Handled
  <2>3. CASE Decide
    BY <2>3, <1>2, <1>4 DEF Decide, Handled
  <2>4. CASE UNCHANGED vars
    BY <2>4, <1>2, <1>4 DEF vars, Handled
  <2> QED BY <2>1, <2>2, <2>3, <2>4
<1>7. \A x : Pending(x)' = Pending(x)
  BY <1>1, <1>4, <1>6 DEF Pending
<1>8. TypeOK' /\ Counted' /\ Settled'
  BY <1>1, <1>2, <1>3, <1>7 DEF TypeOK, Counted, Settled
<1>9. VisitedOnce' /\ QueuedOnce' /\ OrderFollowsEdges' /\ KnotsUnvisited'
  BY <1>1, <1>2 DEF VisitedOnce, QueuedOnce, OrderFollowsEdges, KnotsUnvisited,
                    From, To, EdgeSet, Knot
<1>10. AtNode' /\ Emptied'
  BY <1>1 DEF AtNode, Emptied, Skip, Relaxed, Decide, vars
<1> QED BY <1>8, <1>9, <1>10

\* The inductive invariant holds in every reachable state.
THEOREM KahnInvariance == Spec => []IInv
<1>1. IInv /\ [Next]_vars => IInv'
  BY PopIInv, RelaxIInv, QuietIInv DEF Next
<1> QED BY <1>1, InitIInv, PTL DEF Spec

-----------------------------------------------------------------------------
(* The verdict *)

\* The nodes visited are all the nodes exactly if their number is right.
LEMMA AllVisited ==
  ASSUME IInv
  PROVE  Accepted <=> Visited = Nodes
<1> DEFINE D == 1..Len(order)
<1>1. order \in [D -> Nodes] /\ Len(order) \in Nat /\ DOMAIN order = D
  BY DEF IInv, TypeOK
<1>2. order \in Injection(D, Nodes)
  BY <1>1 DEF IInv, VisitedOnce, Injection, IsInjective
<1>3. Cardinality(D) = Len(order)
  <2>1. Cardinality(D) = IF 1 > Len(order) THEN 0 ELSE Len(order) - 1 + 1
    BY <1>1, FS_Interval
  <2> QED BY <2>1, <1>1
<1>4. Cardinality(D) = Cardinality(Nodes) <=> order \in Surjection(D, Nodes)
  BY <1>2, NodesAssumption, FS_Injection
<1>5. order \in Surjection(D, Nodes) <=> Visited = Nodes
  BY <1>1 DEF Surjection, Visited
<1> QED BY <1>3, <1>4, <1>5 DEF Accepted

\* At the end the unvisited nodes are the largest knot.
LEMMA CycleNamed ==
  ASSUME IInv, pc = "done"
  PROVE  /\ Cycle = Nodes \ Visited
         /\ Knot(EdgeSet, Cycle)
         /\ \A S \in SUBSET Nodes : Knot(EdgeSet, S) => S \subseteq Cycle
<1>1. Queued = {}
  BY DEF IInv, Emptied, Queued
<1>2. \A n \in Nodes : indegree[n] \in Nat /\ (indegree[n] = 0 <=> n \in Visited)
  BY <1>1 DEF IInv, TypeOK, Settled
<1>3. Cycle = Nodes \ Visited
  BY <1>2 DEF Cycle
<1>4. ASSUME NEW n \in Cycle PROVE \E m \in Cycle : <<m, n>> \in EdgeSet
  <2>1. n \in Nodes /\ indegree[n] # 0
    BY <1>2, <1>3
  <2>2. PICK i \in DOMAIN edges : To(i) = n /\ ~Handled(i)
    BY <2>1, ZeroInDegree DEF IInv
  <2>3. /\ From(i) \in Nodes /\ <<From(i), To(i)>> = edges[i]
    BY EdgeType DEF IInv
  <2>4. pc # "relax"
    OBVIOUS
  <2>5. From(i) \in Cycle
    BY <1>3, <2>2, <2>3, <2>4 DEF Handled
  <2> QED
    BY <2>2, <2>3, <2>5 DEF EdgeSet
<1>5. Knot(EdgeSet, Cycle)
  BY <1>4 DEF Knot
<1>6. \A S \in SUBSET Nodes : Knot(EdgeSet, S) => S \subseteq Cycle
  BY <1>3 DEF IInv, KnotsUnvisited
<1> QED
  BY <1>3, <1>5, <1>6

\* What the invariant says of the verdict.
LEMMA VerdictFollows == IInv => VerdictRight
<1> SUFFICES ASSUME IInv, pc = "done"
             PROVE  /\ Accepted <=> Acyclic(EdgeSet)
                    /\ Accepted <=> Cycle = {}
  BY CycleNamed DEF VerdictRight
<1>1. \A e \in EdgeSet : e[2] \in Nodes
  BY EdgeType DEF IInv, EdgeSet, To
<1>2. ASSUME Visited = Nodes PROVE Acyclic(EdgeSet)
  <2> SUFFICES ASSUME NEW S \in SUBSET {e[2] : e \in EdgeSet}, Knot(EdgeSet, S)
               PROVE  S = {}
    BY DEF Acyclic
  <2>1. S \in SUBSET Nodes
    BY <1>1
  <2> QED BY <2>1, <1>2 DEF IInv, KnotsUnvisited
<1>3. ASSUME Acyclic(EdgeSet) PROVE Cycle = {}
  <2>1. Knot(EdgeSet, Cycle)
    BY CycleNamed
  <2>2. \A n \in Cycle : \E e \in EdgeSet : e[2] = n
    BY <2>1 DEF Knot
  <2>3. Cycle \in SUBSET {e[2] : e \in EdgeSet}
    BY <2>2
  <2> QED
    BY <1>3, <2>1, <2>3 DEF Acyclic
<1>4. Cycle = {} <=> Visited = Nodes
  BY CycleNamed DEF IInv, TypeOK, Visited
<1> QED
  BY <1>2, <1>3, <1>4, AllVisited

\* Type correctness of the algorithm's variables.
THEOREM KahnTypeCorrect == Spec => []TypeOK
BY KahnInvariance, PTL DEF IInv

\* The three validations accept exactly the graphs without a cycle.
THEOREM VerdictCorrect == Spec => []VerdictRight
BY KahnInvariance, VerdictFollows, PTL

\* The order returned is a topological order.
THEOREM OrderCorrect == Spec => []OrderFollowsEdges
BY KahnInvariance, PTL DEF IInv

\* A node is visited at most once.
THEOREM OnceCorrect == Spec => []VisitedOnce
BY KahnInvariance, PTL DEF IInv

=============================================================================
