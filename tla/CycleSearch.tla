---------------------------- MODULE CycleSearch ----------------------------
(***************************************************************************)
(* _find_cycle of quantize/validation/structural.py: the three-colour      *)
(* depth-first search that rejects cyclic graphs and recursive components, *)
(* with its explicit stack.  A step is one turn of the inner loop over     *)
(* neighbours, one new root, or one backtrack.                             *)
(***************************************************************************)
EXTENDS Naturals, Sequences

CONSTANT Nodes   \* numbers, in the order that sorted() gives the nodes

\* sorted() has a first element to give (as every set of naturals has).
ASSUME NodesAssumption ==
    /\ Nodes \subseteq Nat
    /\ \A S \in SUBSET Nodes : S # {} => \E n \in S : \A m \in S : n <= m

VARIABLES
    adjacency,  \* node -> the nodes it has an edge to
    colour,
    path,       \* the nodes on the stack
    iterators,  \* per node on the stack, the neighbours its iterator has left
    result      \* "searching", "acyclic", or the cycle as a path <<n, ..., n>>

searchVars == <<adjacency, colour, path, iterators, result>>

\* An edge from a node to itself has been reported before and left out.
SearchInit ==
    /\ adjacency \in {a \in [Nodes -> SUBSET Nodes] : \A n \in Nodes : n \notin a[n]}
    /\ colour = [n \in Nodes |-> "white"]
    /\ path = <<>> /\ iterators = <<>>
    /\ result = [state |-> "searching", cycle |-> <<>>]

-----------------------------------------------------------------------------
Smallest(S) == CHOOSE n \in S : \A m \in S : n <= m

White == {n \in Nodes : colour[n] = "white"}
Grey  == {n \in Nodes : colour[n] = "grey"}
Black == {n \in Nodes : colour[n] = "black"}

Push(n) ==
    /\ colour' = [colour EXCEPT ![n] = "grey"]
    /\ path' = Append(path, n)

\* The outer loop takes the next white root, or ends.
NextRoot ==
    /\ result.state = "searching" /\ path = <<>> /\ White # {}
    /\ Push(Smallest(White))
    /\ iterators' = <<adjacency[Smallest(White)]>>
    /\ UNCHANGED <<adjacency, result>>

NoRootLeft ==
    /\ result.state = "searching" /\ path = <<>> /\ White = {}
    /\ result' = [result EXCEPT !.state = "acyclic"]
    /\ UNCHANGED <<adjacency, colour, path, iterators>>

Top == Len(path)

Searching == result.state = "searching" /\ path # <<>> /\ iterators[Top] # {}

Neighbour == Smallest(iterators[Top])

\* A grey neighbour is on the path: the cycle starts there.
BackEdge ==
    /\ Searching /\ colour[Neighbour] = "grey"
    /\ \E start \in 1 .. Top :
          /\ path[start] = Neighbour
          /\ result' = [state |-> "cyclic", cycle |-> Append(SubSeq(path, start, Top), Neighbour)]
    /\ UNCHANGED <<adjacency, colour, path, iterators>>

Descend ==
    /\ Searching /\ colour[Neighbour] = "white"
    /\ Push(Neighbour)
    /\ iterators' = Append([iterators EXCEPT ![Top] = @ \ {Neighbour}], adjacency[Neighbour])
    /\ UNCHANGED <<adjacency, result>>

\* Mutant: a grey neighbour counts as seen and is skipped.
SkipSeen ==
    /\ Searching /\ colour[Neighbour] \in {"grey", "black"}
    /\ iterators' = [iterators EXCEPT ![Top] = @ \ {Neighbour}]
    /\ UNCHANGED <<adjacency, colour, path, result>>

Skip ==
    /\ Searching /\ colour[Neighbour] = "black"
    /\ iterators' = [iterators EXCEPT ![Top] = @ \ {Neighbour}]
    /\ UNCHANGED <<adjacency, colour, path, result>>

\* Mutant: a finished node is white again.
BacktrackUncoloured ==
    /\ result.state = "searching" /\ path # <<>> /\ iterators[Top] = {}
    /\ colour' = [colour EXCEPT ![path[Top]] = "white"]
    /\ path' = SubSeq(path, 1, Top - 1)
    /\ iterators' = SubSeq(iterators, 1, Top - 1)
    /\ UNCHANGED <<adjacency, result>>

Backtrack ==
    /\ result.state = "searching" /\ path # <<>> /\ iterators[Top] = {}
    /\ colour' = [colour EXCEPT ![path[Top]] = "black"]
    /\ path' = SubSeq(path, 1, Top - 1)
    /\ iterators' = SubSeq(iterators, 1, Top - 1)
    /\ UNCHANGED <<adjacency, result>>

SearchNext == NextRoot \/ NoRootLeft \/ BackEdge \/ Descend \/ Skip \/ Backtrack

SearchSpec == SearchInit /\ [][SearchNext]_searchVars /\ WF_searchVars(SearchNext)

-----------------------------------------------------------------------------
SearchTypeOK ==
    /\ adjacency \in [Nodes -> SUBSET Nodes]
    /\ colour \in [Nodes -> {"white", "grey", "black"}]
    /\ path \in Seq(Nodes) /\ iterators \in Seq(SUBSET Nodes) /\ Len(iterators) = Len(path)
    /\ result \in [state : {"searching", "acyclic", "cyclic"}, cycle : Seq(Nodes)]

\* What acyclic means, without a search: in every set of nodes, one has no edge
\* into the set.
HasSink(S) == \E n \in S : adjacency[n] \cap S = {}

AcyclicAmong(S) == \A T \in SUBSET S : T # {} => HasSink(T)

\* "None" is the truth: a graph without a reported cycle has none, so a document
\* that passes can be ordered and a component that passes can be instantiated
\* (structural.py _find_cycle).
AcyclicIsTrue == result.state = "acyclic" => AcyclicAmong(Nodes)

\* A reported cycle is one: its edges exist and it ends where it starts, at a
\* node that it visits once in between (structural.py _find_cycle).
CycleIsReal ==
    result.state = "cyclic" =>
        LET cycle == result.cycle
        IN  /\ Len(cycle) > 2
            /\ cycle[1] = cycle[Len(cycle)]
            /\ \A i \in 1 .. Len(cycle) - 1 : cycle[i + 1] \in adjacency[cycle[i]]
            /\ \A i, j \in 1 .. Len(cycle) - 1 : cycle[i] = cycle[j] => i = j

\* What the search says of a graph is true: a document that passes has no cycle,
\* and a cycle that is reported is one (structural.py _find_cycle).
SearchIsRight == AcyclicIsTrue /\ CycleIsReal

\* The grey nodes are the path, a chain of edges, and what a node on it has left
\* is what has neither been skipped nor descended into.
PathIsGrey ==
    /\ \A n \in Nodes : n \in Grey <=> \E i \in 1 .. Len(path) : path[i] = n
    /\ \A i, j \in 1 .. Len(path) : path[i] = path[j] => i = j

PathIsAChain ==
    \A i \in 1 .. Len(path) - 1 : path[i + 1] \in adjacency[path[i]]

IteratorsAreLeft ==
    \A i \in 1 .. Len(path) :
        /\ iterators[i] \subseteq adjacency[path[i]]
        /\ \A n \in adjacency[path[i]] \ iterators[i] :
              n \in Black \/ (i < Len(path) /\ n = path[i + 1])

BlackIsDone ==
    /\ \A n \in Black : adjacency[n] \subseteq Black
    /\ AcyclicAmong(Black)

\* The inductive invariant of the search.
SearchInv ==
    /\ SearchTypeOK /\ \A n \in Nodes : n \notin adjacency[n]
    /\ PathIsGrey /\ PathIsAChain /\ IteratorsAreLeft /\ BlackIsDone
    /\ AcyclicIsTrue /\ CycleIsReal
=============================================================================
