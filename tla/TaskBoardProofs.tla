-------------------------- MODULE TaskBoardProofs --------------------------
(***************************************************************************)
(* The board's invariants for any number of tasks and transitions, and, if *)
(* no two add_dependency requests overlap, the acyclicity of the graph.    *)
(***************************************************************************)
EXTENDS TaskBoard, TLAPS

\* No two add_dependency requests overlap.
OneLinker == \A l, m \in Linkers : l = m

-----------------------------------------------------------------------------
(* Graphs *)

\* Without some of its edges an acyclic graph is acyclic.
LEMMA FewerEdges ==
  ASSUME NEW E, NEW F, F \subseteq E, Acyclic(E)
  PROVE  Acyclic(F)
<1> SUFFICES ASSUME NEW S \in SUBSET {e[2] : e \in F}, Knot(F, S)
             PROVE  S = {}
  BY DEF Acyclic
<1>1. S \in SUBSET {e[2] : e \in E}
  OBVIOUS
<1>2. Knot(E, S)
  BY DEF Knot
<1> QED BY <1>1, <1>2 DEF Acyclic

\* A graph without edges is acyclic.
LEMMA NoEdges == Acyclic({})
BY DEF Acyclic

-----------------------------------------------------------------------------
(* Types and completion times *)

Typed == TypeOK /\ DoneIsStamped

\* No task exists yet.
LEMMA InitTyped == Init => Typed
BY DEF Init, Typed, TypeOK, DoneIsStamped

\* Every step of the board keeps the types and a done task's completion time.
LEMMA NextTyped == Typed /\ [Next]_vars => Typed'
<1> SUFFICES ASSUME Typed, [Next]_vars PROVE Typed'
  OBVIOUS
<1> USE DEF Typed, TypeOK
<1>1. ASSUME NEW t \in Tasks, Create(t) PROVE Typed'
  BY <1>1 DEF Create, Exists, Default, DoneIsStamped, TaskStatus
<1>2. ASSUME NEW e \in Editors, NEW t \in Tasks, NEW to \in TaskStatus, Load(e, t, to)
      PROVE  Typed'
  <2>1. [task |-> t, stamped |-> stamped[t], to |-> to] \in Edit
    BY DEF Edit
  <2>2. editor' \in [Editors -> {{}} \cup {{edit} : edit \in Edit}]
    BY <1>2, <2>1 DEF Load
  <2> QED BY <1>2, <2>2 DEF Load, DoneIsStamped
<1>3. ASSUME NEW e \in Editors, Commit(e) PROVE Typed'
  <2>1. PICK edit \in editor[e] :
            /\ status' = [status EXCEPT ![edit.task] = edit.to]
            /\ stamped' = [stamped EXCEPT ![edit.task] = Stamp(edit)]
    BY <1>3 DEF Commit
  <2>2. edit \in Edit
    BY <2>1
  <2>3. edit.task \in Tasks /\ edit.stamped \in BOOLEAN /\ edit.to \in TaskStatus
    BY <2>2 DEF Edit
  <2>4. Stamp(edit) \in BOOLEAN
    BY <2>3 DEF Stamp
  <2>5. TypeOK'
    BY <1>3, <2>1, <2>3, <2>4 DEF Commit
  <2>6. edit.to = "done" => Stamp(edit) = TRUE
    BY DEF Stamp
  <2>7. ASSUME NEW t \in Tasks, status'[t] = "done" PROVE stamped'[t]
    <3>1. CASE t = edit.task
      BY <3>1, <2>1, <2>3, <2>6, <2>7
    <3>2. CASE t # edit.task
      BY <3>2, <2>1, <2>3, <2>7 DEF DoneIsStamped
    <3> QED BY <3>1, <3>2
  <2> QED BY <2>5, <2>7 DEF DoneIsStamped
<1>4. ASSUME NEW l \in Linkers, NEW edge \in Edges, Judge(l, edge) PROVE Typed'
  BY <1>4 DEF Judge, DoneIsStamped
<1>5. ASSUME NEW l \in Linkers, Insert(l) PROVE Typed'
  <2>1. linker[l] \subseteq Edges
    OBVIOUS
  <2> QED BY <1>5, <2>1 DEF Insert, DoneIsStamped
<1>6. ASSUME NEW edge \in Edges, Remove(edge) PROVE Typed'
  BY <1>6 DEF Remove, DoneIsStamped
<1>7. CASE UNCHANGED vars
  BY <1>7 DEF vars, DoneIsStamped
<1> QED BY <1>1, <1>2, <1>3, <1>4, <1>5, <1>6, <1>7 DEF Next

\* The invariant of the board's tasks (task_service.py), for any number of requests.
THEOREM BoardInvariance == Spec => []Typed
BY InitTyped, NextTyped, PTL DEF Spec

\* Type correctness for any number of tasks and requests.
THEOREM BoardTypeCorrect == Spec => []TypeOK
BY BoardInvariance, PTL DEF Typed

\* A done task has its completion time, however many transitions overlap.
THEOREM Stamped == Spec => []DoneIsStamped
BY BoardInvariance, PTL DEF Typed

-----------------------------------------------------------------------------
(* The dependency graph *)

\* The graph stays acyclic with the edge a request is about to insert.
Judged == \A l \in Linkers : \A edge \in linker[l] : Acyclic(deps \cup {edge})

Graph == DependenciesAcyclic /\ Judged

\* There is no dependency yet.
LEMMA InitGraph == Init => Graph
BY NoEdges DEF Init, Graph, DependenciesAcyclic, Judged

\* Every step keeps the graph acyclic while no two requests add an edge at once.
LEMMA NextGraph ==
  ASSUME OneLinker, Typed, Graph, [Next]_vars
  PROVE  Graph'
<1> USE DEF Graph, DependenciesAcyclic
<1>1. ASSUME NEW l \in Linkers, NEW edge \in Edges, Judge(l, edge) PROVE Graph'
  <2>1. deps' = deps /\ linker' = [linker EXCEPT ![l] = {edge}]
    BY <1>1 DEF Judge
  <2>2. Acyclic(deps \cup {edge})
    BY <1>1 DEF Judge, Admissible
  <2>3. \A m \in Linkers : linker'[m] = {edge}
    BY <2>1 DEF OneLinker, Typed, TypeOK
  <2> QED BY <2>1, <2>2, <2>3 DEF Judged
<1>2. ASSUME NEW l \in Linkers, Insert(l) PROVE Graph'
  <2>1. deps' = deps \cup linker[l] /\ linker' = [linker EXCEPT ![l] = {}]
    BY <1>2 DEF Insert
  <2>2. \A m \in Linkers : linker'[m] = {}
    BY <2>1 DEF OneLinker, Typed, TypeOK
  <2>3. PICK edge : linker[l] = {edge}
    BY <1>2 DEF Insert, Typed, TypeOK
  <2>4. Acyclic(deps \cup {edge})
    BY <2>3 DEF Judged
  <2> QED BY <2>1, <2>2, <2>3, <2>4 DEF Judged
<1>3. ASSUME NEW edge \in Edges, Remove(edge) PROVE Graph'
  <2>1. deps' \subseteq deps /\ linker' = linker
    BY <1>3 DEF Remove
  <2>2. Acyclic(deps')
    BY <2>1, FewerEdges
  <2>3. ASSUME NEW l \in Linkers, NEW f \in linker[l] PROVE Acyclic(deps' \cup {f})
    <3>1. Acyclic(deps \cup {f})
      BY DEF Judged
    <3> QED BY <2>1, <3>1, FewerEdges
  <2> QED BY <2>1, <2>2, <2>3 DEF Judged
<1>4. ASSUME deps' = deps, linker' = linker PROVE Graph'
  BY <1>4 DEF Judged
<1> QED BY <1>1, <1>2, <1>3, <1>4 DEF Next, Create, Load, Commit, vars

\* With one add_dependency at a time the dependencies have no cycle.
THEOREM AcyclicForever ==
  ASSUME OneLinker
  PROVE  Spec => []DependenciesAcyclic
<1>1. Typed /\ Graph /\ [Next]_vars => Graph'
  BY NextGraph
<1>2. Graph => DependenciesAcyclic
  BY DEF Graph
<1> QED BY <1>1, <1>2, InitGraph, BoardInvariance, PTL DEF Spec

\* Open tasks that all waited for each other would be a knot of the graph.
LEMMA AcyclicStarts ==
  ASSUME DependenciesAcyclic
  PROVE  SomeTaskCanStart
<1> DEFINE S == {t \in Tasks : Open(t)}
<1> SUFFICES ASSUME \A t \in S : Blocked(t) PROVE S = {}
  BY DEF SomeTaskCanStart
<1>1. \A t \in S : \E b \in S : <<b, t>> \in deps
  BY DEF Blocked
<1>2. \A t \in S : \E e \in deps : e[2] = t
  BY <1>1
<1>3. S \in SUBSET {e[2] : e \in deps}
  BY <1>2
<1>4. Knot(deps, S)
  BY <1>1 DEF Knot
<1> QED BY <1>3, <1>4 DEF DependenciesAcyclic, Acyclic

\* So the open tasks never all wait for each other.
THEOREM NoStandstill ==
  ASSUME OneLinker
  PROVE  Spec => []SomeTaskCanStart
<1>1. DependenciesAcyclic => SomeTaskCanStart
  BY AcyclicStarts
<1> QED BY <1>1, AcyclicForever, PTL

=============================================================================
