------------------------------ MODULE Planning ------------------------------
(***************************************************************************)
(* topological_order of quantize/evaluator/plan.py: Kahn's algorithm with  *)
(* a heap of ready nodes, on the graph that the cycle search has been      *)
(* through.  A step takes one node off the heap.                           *)
(***************************************************************************)
EXTENDS CycleSearch, FiniteSets

ASSUME PlanningAssumption == IsFiniteSet(Nodes)

VARIABLES
    indegree,  \* node -> how many of its predecessors are not ordered yet
    ready,     \* the heap
    order,
    plan       \* "none", "ordering", "ordered", or "refused" where the code raises

planVars == <<indegree, ready, order, plan>>

Predecessors(n) == {m \in Nodes : n \in adjacency[m]}

PlanInit ==
    /\ indegree = [n \in Nodes |-> 0] /\ ready = {} /\ order = <<>> /\ plan = "none"

\* Parallel edges are one pair of nodes, as adjacency has it.
Prepare ==
    /\ plan = "none" /\ result.state # "searching"
    /\ indegree' = [n \in Nodes |-> Cardinality(Predecessors(n))]
    /\ ready' = {n \in Nodes : indegree'[n] = 0}
    /\ plan' = "ordering"
    /\ UNCHANGED <<searchVars, order>>

\* Mutant: a node is ready when one of its predecessors is ordered.
PlaceEager ==
    /\ plan = "ordering" /\ ready # {}
    /\ LET node == Smallest(ready)
       IN  /\ order' = Append(order, node)
           /\ indegree' = [n \in Nodes |-> IF n \in adjacency[node] THEN 0 ELSE indegree[n]]
           /\ ready' = (ready \ {node}) \cup {n \in adjacency[node] : indegree[n] > 0}
    /\ UNCHANGED <<searchVars, plan>>

Place ==
    /\ plan = "ordering" /\ ready # {}
    /\ LET node == Smallest(ready)
       IN  /\ order' = Append(order, node)
           /\ indegree' = [n \in Nodes |->
                              IF n \in adjacency[node] THEN indegree[n] - 1 ELSE indegree[n]]
           /\ ready' = (ready \ {node}) \cup {n \in adjacency[node] : indegree'[n] = 0}
    /\ UNCHANGED <<searchVars, plan>>

Ordered ==
    /\ plan = "ordering" /\ ready = {}
    /\ plan' = IF Len(order) = Cardinality(Nodes) THEN "ordered" ELSE "refused"
    /\ UNCHANGED <<searchVars, indegree, ready, order>>

PlanNext == (SearchNext /\ UNCHANGED planVars) \/ Prepare \/ Place \/ Ordered

PlanSpec == SearchInit /\ PlanInit /\ [][PlanNext]_<<searchVars, planVars>> /\ WF_<<searchVars, planVars>>(PlanNext)

-----------------------------------------------------------------------------
Before(i) == {order[j] : j \in 1 .. i - 1}

\* The nodes that may follow those of `done`.
Available(done) == {n \in Nodes \ done : Predecessors(n) \subseteq done}

\* At each place stands the smallest node whose predecessors all come before.
OrderIsCanonical ==
    \A i \in 1 .. Len(order) :
        Available(Before(i)) # {} /\ order[i] = Smallest(Available(Before(i)))

\* The order is a function of the graph.  It is refused for the graphs in which
\* the search has found a cycle and for no others, so the exception that the
\* planner raises never meets a document that was validated
\* (plan.py topological_order, structural.py _find_cycle).
PlanIsCanonical ==
    /\ OrderIsCanonical
    /\ plan = "ordered" => result.state = "acyclic"
    /\ plan = "refused" => result.state = "cyclic"

Done == Before(Len(order) + 1)

\* What the heap and the counters stand for.
PlanIsKahn ==
    plan # "none" =>
        /\ ready = Available(Done)
        /\ \A n \in Nodes : indegree[n] = Cardinality(Predecessors(n) \ Done)

\* The inductive invariant of the planner, whose search is over when it starts.
PlanInv ==
    /\ SearchInv
    /\ order \in Seq(Nodes) /\ ready \in SUBSET Nodes /\ indegree \in [Nodes -> Nat]
    /\ plan \in {"none", "ordering", "ordered", "refused"}
    /\ plan = "none" => order = <<>>
    /\ plan # "none" => result.state # "searching"
    /\ Cardinality(Done) = Len(order)
    /\ PlanIsKahn /\ PlanIsCanonical
=============================================================================
