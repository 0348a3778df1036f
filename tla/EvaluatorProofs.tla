-------------------------- MODULE EvaluatorProofs --------------------------
(***************************************************************************)
(* The evaluator: the search that its graphs have passed, the planner, and *)
(* the cursor and the memo that its nodes read through.                    *)
(*                                                                         *)
(* The cycle search is right for every finite or infinite set of nodes: it *)
(* says "acyclic" only of acyclic graphs and reports only real cycles.     *)
(* The argument is the colouring: black nodes only have edges to black     *)
(* ones and are acyclic among themselves (BlackIsDone), the grey ones are  *)
(* the path (PathIsGrey), and a node on the path has skipped or descended  *)
(* into whatever its iterator no longer holds (IteratorsAreLeft).          *)
(*                                                                         *)
(* The planner then orders every acyclic graph over a finite set of nodes, *)
(* in the one order that takes the smallest available node first, and      *)
(* refuses exactly the graphs in which the search has found a cycle.  The  *)
(* argument is PlanIsKahn: the heap holds the nodes that are available     *)
(* after those ordered, because the counters count the predecessors that   *)
(* are not.                                                                *)
(*                                                                         *)
(* The exactness contract of MarketDataCursor for any number of assets and *)
(* sessions, any availability the dataset accepts and any sequence of      *)
(* questions.                                                              *)
(*                                                                         *)
(* The memo is transparent for any number of assets and sessions, any      *)
(* availability and prices, any windows and any sequence of instants:      *)
(* every point it holds is the one a fresh evaluation computes at any      *)
(* instant the memo still accepts, because what is visible only grows.     *)
(*                                                                         *)
(* The waterfall of risk.max_weight is fair and the targets are priceable  *)
(* for any number of assets, any allocation of the graph and any cap.  The *)
(* argument is WaterInv, which every pass keeps: whoever was capped sits   *)
(* at the limit, the order of the targets is kept below it, and the sum is *)
(* that of the targets or everything held sits at the limit; a pass that   *)
(* cuts caps one more (Progressed), so that after as many passes as assets *)
(* nobody is over.                                                         *)
(*                                                                         *)
(* An evaluation of checked documents and components is never stopped for  *)
(* want of anything, for any documents and definitions, however deep       *)
(* components are nested.  The argument is Frames: every graph under       *)
(* execution is wired (CheckedIsWired: what the checks before establish),  *)
(* the nodes that it has left are in order, those that it has not have all *)
(* their outputs in the store, with types that fit, and what comes from    *)
(* outside the component is there.                                         *)
(*                                                                         *)
(* The value tap answers for the run and for nothing else.  The argument   *)
(* is TapInv, about every address that leads to a node of the document     *)
(* (Leads): once the frames have left it (Left), all its outputs are in    *)
(* the store, a component's being those inside; whoever evaluates the      *)
(* document again makes nothing that the run has not (RecomputeFollows),   *)
(* and makes all of it, unchanged, where no code has changed               *)
(* (NothingDiffers).                                                       *)
(***************************************************************************)
EXTENDS EvaluationMemo, ValueTap, OrdersProofs, FiniteSetTheorems, WellFoundedInduction, TLAPS

-----------------------------------------------------------------------------
(* The search.                                                             *)

\* What the search picks is in the set it picks from.
LEMMA SmallestIsIn ==
    ASSUME NEW S \in SUBSET Nodes, S # {}
    PROVE  Smallest(S) \in S
<1>1. \E n \in S : \A m \in S : n <= m
  BY NodesAssumption
<1>. QED BY <1>1 DEF Smallest

\* A set stays acyclic when a node is added that has edges only into it.
LEMMA AddDoneNode ==
    ASSUME adjacency \in [Nodes -> SUBSET Nodes],
           NEW B \in SUBSET Nodes, NEW n \in Nodes, n \notin B,
           n \notin adjacency[n],
           \A m \in B : adjacency[m] \subseteq B,
           adjacency[n] \subseteq B,
           AcyclicAmong(B)
    PROVE  AcyclicAmong(B \cup {n})
<1>. SUFFICES ASSUME NEW T \in SUBSET (B \cup {n}), T # {}
              PROVE  HasSink(T)
  BY DEF AcyclicAmong
<1>1. CASE T \cap B = {}
  <2>1. T = {n}
    BY <1>1
  <2>. QED BY <2>1 DEF HasSink
<1>2. CASE T \cap B # {}
  <2>1. PICK m \in T \cap B : adjacency[m] \cap (T \cap B) = {}
    BY <1>2 DEF AcyclicAmong, HasSink
  <2>2. adjacency[m] \cap T = {}
    BY <2>1
  <2>. QED BY <2>1, <2>2 DEF HasSink
<1>. QED BY <1>1, <1>2

\* Nothing is black, grey or on the path at first.
LEMMA InitEstablishesSearchInv == SearchInit => SearchInv
<1>. SUFFICES ASSUME SearchInit PROVE SearchInv
  OBVIOUS
<1>. USE DEF SearchInit
<1>1. SearchTypeOK
  BY DEF SearchTypeOK
<1>2. \A n \in Nodes : n \notin adjacency[n]
  OBVIOUS
<1>3. Black = {} /\ Grey = {}
  BY DEF Black, Grey
<1>4. PathIsGrey
  BY <1>3 DEF PathIsGrey
<1>5. PathIsAChain /\ IteratorsAreLeft
  BY DEF PathIsAChain, IteratorsAreLeft
<1>6. BlackIsDone
  BY <1>3 DEF BlackIsDone, AcyclicAmong
<1>7. AcyclicIsTrue /\ CycleIsReal
  BY DEF AcyclicIsTrue, CycleIsReal
<1>. QED BY <1>1, <1>2, <1>4, <1>5, <1>6, <1>7 DEF SearchInv

\* A white node that is pushed becomes the end of the grey path.
LEMMA PushKeepsPathGrey ==
    ASSUME SearchInv, NEW n \in Nodes, colour[n] = "white", Push(n)
    PROVE  /\ colour' \in [Nodes -> {"white", "grey", "black"}]
           /\ path' \in Seq(Nodes) /\ Len(path') = Top + 1
           /\ path'[Top + 1] = n /\ \A i \in 1 .. Top : path'[i] = path[i]
           /\ PathIsGrey'
           /\ Black' = Black
<1>. USE DEF SearchInv, SearchTypeOK, Push, Top
<1>1. colour' \in [Nodes -> {"white", "grey", "black"}]
  OBVIOUS
<1>2. path' \in Seq(Nodes) /\ Len(path') = Top + 1
  OBVIOUS
<1>3. path'[Top + 1] = n /\ \A i \in 1 .. Top : path'[i] = path[i]
  OBVIOUS
<1>4. Grey' = Grey \cup {n} /\ Black' = Black /\ n \notin Grey
  BY DEF Grey, Black
<1>5. \A m \in Nodes : m \in Grey' <=> \E i \in 1 .. Len(path') : path'[i] = m
  BY <1>2, <1>3, <1>4 DEF PathIsGrey
<1>6. \A i \in 1 .. Top : path[i] # n
  BY <1>4 DEF PathIsGrey
<1>7. \A i, j \in 1 .. Len(path') : path'[i] = path'[j] => i = j
  BY <1>2, <1>3, <1>6 DEF PathIsGrey
<1>. QED BY <1>1, <1>2, <1>3, <1>4, <1>5, <1>7 DEF PathIsGrey

LEMMA NextRootPreservesSearchInv == SearchInv /\ NextRoot => SearchInv'
<1>. SUFFICES ASSUME SearchInv, NextRoot PROVE SearchInv'
  OBVIOUS
<1>. DEFINE n == Smallest(White)
<1>1. n \in Nodes /\ colour[n] = "white" /\ Push(n)
  BY SmallestIsIn DEF NextRoot, White
<1>2. Top = 0
  BY DEF NextRoot, Top
<1>3. /\ colour' \in [Nodes -> {"white", "grey", "black"}]
      /\ path' \in Seq(Nodes) /\ Len(path') = 1 /\ path'[1] = n
      /\ PathIsGrey' /\ Black' = Black
  BY <1>1, <1>2, PushKeepsPathGrey
<1>4. UNCHANGED <<adjacency, result>> /\ iterators' = <<adjacency[n]>>
  BY DEF NextRoot
<1>5. SearchTypeOK'
  BY <1>1, <1>3, <1>4 DEF SearchInv, SearchTypeOK
<1>6. PathIsAChain'
  BY <1>3 DEF PathIsAChain
<1>7. IteratorsAreLeft'
  BY <1>3, <1>4 DEF IteratorsAreLeft
<1>8. BlackIsDone'
  BY <1>3, <1>4 DEF SearchInv, BlackIsDone, AcyclicAmong, HasSink
<1>9. AcyclicIsTrue' /\ CycleIsReal'
  BY <1>4 DEF NextRoot, AcyclicIsTrue, CycleIsReal
<1>. QED BY <1>3, <1>4, <1>5, <1>6, <1>7, <1>8, <1>9 DEF SearchInv

LEMMA NoRootLeftPreservesSearchInv == SearchInv /\ NoRootLeft => SearchInv'
<1>. SUFFICES ASSUME SearchInv, NoRootLeft PROVE SearchInv'
  OBVIOUS
<1>. USE DEF NoRootLeft
<1>1. Grey = {}
  BY DEF SearchInv, PathIsGrey, Grey
<1>2. Black = Nodes
  BY <1>1 DEF SearchInv, SearchTypeOK, White, Grey, Black
<1>3. AcyclicIsTrue'
  BY <1>2 DEF SearchInv, BlackIsDone, AcyclicIsTrue, AcyclicAmong, HasSink
<1>4. CycleIsReal'
  BY DEF CycleIsReal
<1>5. SearchTypeOK'
  BY DEF SearchInv, SearchTypeOK
<1>6. PathIsGrey' /\ PathIsAChain' /\ IteratorsAreLeft' /\ BlackIsDone'
  BY DEF SearchInv, PathIsGrey, PathIsAChain, IteratorsAreLeft, BlackIsDone, AcyclicAmong, HasSink,
         Grey, Black
<1>. QED BY <1>3, <1>4, <1>5, <1>6 DEF SearchInv

\* Where the search stands while it looks at a neighbour.
LEMMA WhileSearching ==
    ASSUME SearchInv, Searching
    PROVE  /\ Top \in Nat \ {0} /\ Top = Len(path) /\ Top = Len(iterators)
           /\ path[Top] \in Nodes /\ Neighbour \in iterators[Top]
           /\ Neighbour \in adjacency[path[Top]] /\ Neighbour \in Nodes
<1>. USE DEF SearchInv, SearchTypeOK
<1>1. Top \in Nat \ {0} /\ Top = Len(path) /\ Top = Len(iterators)
  BY DEF Searching, Top
<1>2. path[Top] \in Nodes /\ iterators[Top] \in SUBSET Nodes
  BY <1>1
<1>3. Neighbour \in iterators[Top]
  BY <1>2, SmallestIsIn DEF Searching, Neighbour
<1>. QED BY <1>1, <1>2, <1>3 DEF IteratorsAreLeft

LEMMA BackEdgePreservesSearchInv == SearchInv /\ BackEdge => SearchInv'
<1>. SUFFICES ASSUME SearchInv, BackEdge PROVE SearchInv'
  OBVIOUS
<1>1. Searching
  BY DEF BackEdge
<1>2. PICK start \in 1 .. Top :
        /\ path[start] = Neighbour
        /\ result' = [state |-> "cyclic", cycle |-> Append(SubSeq(path, start, Top), Neighbour)]
  BY DEF BackEdge
<1>3. UNCHANGED <<adjacency, colour, path, iterators>>
  BY DEF BackEdge
<1>. DEFINE segment == SubSeq(path, start, Top)
            cycle == Append(segment, Neighbour)
            size == Top - start + 1
<1>4. /\ Top \in Nat \ {0} /\ Top = Len(path) /\ path \in Seq(Nodes)
      /\ Neighbour \in adjacency[path[Top]] /\ Neighbour \in Nodes
      /\ adjacency[Neighbour] \in SUBSET Nodes /\ Neighbour \notin adjacency[Neighbour]
  BY <1>1, WhileSearching DEF SearchInv, SearchTypeOK
<1>5. start # Top
  BY <1>2, <1>4
<1>6. /\ segment \in Seq(Nodes) /\ Len(segment) = size /\ size \in Nat /\ size > 1
      /\ \A i \in 1 .. size : segment[i] = path[start + i - 1]
  BY <1>4, <1>5
<1>7. /\ cycle \in Seq(Nodes) /\ Len(cycle) = size + 1
      /\ \A i \in 1 .. size : cycle[i] = path[start + i - 1]
      /\ cycle[size + 1] = Neighbour
  BY <1>4, <1>6
<1>8. cycle[1] = Neighbour
  BY <1>2, <1>6, <1>7
<1>9. ASSUME NEW i \in 1 .. size
      PROVE  cycle[i + 1] \in adjacency[cycle[i]]
  <2>1. CASE i = size
    <3>1. cycle[i] = path[Top] /\ cycle[i + 1] = Neighbour
      BY <2>1, <1>6, <1>7
    <3>. QED BY <3>1, <1>4
  <2>2. CASE i # size
    <3>1. start + i - 1 \in 1 .. Top - 1 /\ i + 1 \in 1 .. size
      BY <2>2, <1>4, <1>6
    <3>2. cycle[i] = path[start + i - 1] /\ cycle[i + 1] = path[(start + i - 1) + 1]
      BY <3>1, <1>7, <1>6
    <3>. QED BY <3>1, <3>2, <1>4 DEF SearchInv, PathIsAChain
  <2>. QED BY <2>1, <2>2
<1>10. ASSUME NEW i \in 1 .. size, NEW j \in 1 .. size, cycle[i] = cycle[j]
       PROVE  i = j
  <2>1. start + i - 1 \in 1 .. Top /\ start + j - 1 \in 1 .. Top
    BY <1>4, <1>6
  <2>2. path[start + i - 1] = path[start + j - 1]
    BY <1>7, <1>10
  <2>3. start + i - 1 = start + j - 1
    BY <2>1, <2>2, <1>4 DEF SearchInv, PathIsGrey
  <2>. QED BY <2>3, <1>4, <1>6
<1>11. CycleIsReal'
  <2>1. result'.cycle = cycle /\ Len(cycle) - 1 = size
    BY <1>2, <1>6, <1>7
  <2>2. Len(cycle) > 2 /\ cycle[1] = cycle[Len(cycle)]
    BY <1>6, <1>7, <1>8
  <2>. QED BY <2>1, <2>2, <1>3, <1>9, <1>10 DEF CycleIsReal
<1>12. SearchTypeOK'
  BY <1>2, <1>3, <1>7 DEF SearchInv, SearchTypeOK
<1>13. AcyclicIsTrue'
  BY <1>2 DEF AcyclicIsTrue
<1>14. PathIsGrey' /\ PathIsAChain' /\ IteratorsAreLeft' /\ BlackIsDone'
  BY <1>3 DEF SearchInv, PathIsGrey, PathIsAChain, IteratorsAreLeft, BlackIsDone, AcyclicAmong,
              HasSink, Grey, Black
<1>. QED BY <1>3, <1>11, <1>12, <1>13, <1>14 DEF SearchInv

LEMMA DescendPreservesSearchInv == SearchInv /\ Descend => SearchInv'
<1>. SUFFICES ASSUME SearchInv, Descend PROVE SearchInv'
  OBVIOUS
<1>. DEFINE n == Neighbour
<1>1. Searching /\ colour[n] = "white" /\ Push(n)
  BY DEF Descend
<1>2. /\ Top \in Nat \ {0} /\ Top = Len(path) /\ Top = Len(iterators)
      /\ path[Top] \in Nodes /\ n \in adjacency[path[Top]] /\ n \in Nodes
  BY <1>1, WhileSearching
<1>3. /\ colour' \in [Nodes -> {"white", "grey", "black"}]
      /\ path' \in Seq(Nodes) /\ Len(path') = Top + 1
      /\ path'[Top + 1] = n /\ \A i \in 1 .. Top : path'[i] = path[i]
      /\ PathIsGrey' /\ Black' = Black
  BY <1>1, <1>2, PushKeepsPathGrey
<1>4. UNCHANGED <<adjacency, result>>
  BY DEF Descend
<1>5. /\ iterators' \in Seq(SUBSET Nodes) /\ Len(iterators') = Top + 1
      /\ iterators'[Top + 1] = adjacency[n] /\ iterators'[Top] = iterators[Top] \ {n}
      /\ \A i \in 1 .. Top - 1 : iterators'[i] = iterators[i]
  BY <1>2 DEF Descend, SearchInv, SearchTypeOK
<1>6. SearchTypeOK'
  BY <1>3, <1>4, <1>5 DEF SearchInv, SearchTypeOK
<1>7. PathIsAChain'
  <2>. SUFFICES ASSUME NEW i \in 1 .. Top
                PROVE  path'[i + 1] \in adjacency[path'[i]]
    BY <1>2, <1>3, <1>4 DEF PathIsAChain
  <2>1. CASE i = Top
    BY <2>1, <1>2, <1>3
  <2>2. CASE i # Top
    <3>1. i \in 1 .. Top - 1 /\ i + 1 \in 1 .. Top
      BY <2>2, <1>2
    <3>. QED BY <3>1, <1>2, <1>3 DEF SearchInv, PathIsAChain
  <2>. QED BY <2>1, <2>2
<1>8. IteratorsAreLeft'
  <2>. SUFFICES ASSUME NEW i \in 1 .. Top + 1
                PROVE  /\ iterators'[i] \subseteq adjacency[path'[i]]
                       /\ \A m \in adjacency[path'[i]] \ iterators'[i] :
                             m \in Black \/ (i < Top + 1 /\ m = path'[i + 1])
    BY <1>2, <1>3, <1>4 DEF IteratorsAreLeft
  <2>1. CASE i = Top + 1
    BY <2>1, <1>3, <1>5
  <2>2. CASE i = Top
    BY <2>2, <1>2, <1>3, <1>5 DEF SearchInv, IteratorsAreLeft
  <2>3. CASE i < Top
    <3>1. i \in 1 .. Top - 1 /\ i + 1 \in 1 .. Top
      BY <2>3, <1>2
    <3>2. path'[i] = path[i] /\ path'[i + 1] = path[i + 1] /\ iterators'[i] = iterators[i]
      BY <3>1, <1>2, <1>3, <1>5
    <3>. QED BY <3>1, <3>2, <1>2, <2>3 DEF SearchInv, IteratorsAreLeft
  <2>. QED BY <2>1, <2>2, <2>3, <1>2
<1>9. BlackIsDone'
  BY <1>3, <1>4 DEF SearchInv, BlackIsDone, AcyclicAmong, HasSink
<1>10. AcyclicIsTrue' /\ CycleIsReal'
  BY <1>1, <1>4 DEF Searching, AcyclicIsTrue, CycleIsReal
<1>. QED BY <1>3, <1>4, <1>6, <1>7, <1>8, <1>9, <1>10 DEF SearchInv

LEMMA SkipPreservesSearchInv == SearchInv /\ Skip => SearchInv'
<1>. SUFFICES ASSUME SearchInv, Skip PROVE SearchInv'
  OBVIOUS
<1>1. Searching /\ colour[Neighbour] = "black" /\ UNCHANGED <<adjacency, colour, path, result>>
  BY DEF Skip
<1>2. Top \in Nat \ {0} /\ Top = Len(path) /\ Top = Len(iterators) /\ Neighbour \in Nodes
  BY <1>1, WhileSearching
<1>3. /\ iterators' \in Seq(SUBSET Nodes) /\ Len(iterators') = Len(iterators)
      /\ iterators'[Top] = iterators[Top] \ {Neighbour}
      /\ \A i \in 1 .. Top : i # Top => iterators'[i] = iterators[i]
  BY <1>2 DEF Skip, SearchInv, SearchTypeOK
<1>4. SearchTypeOK'
  BY <1>1, <1>3 DEF SearchInv, SearchTypeOK
<1>5. Neighbour \in Black
  BY <1>1, <1>2 DEF Black
<1>6. IteratorsAreLeft'
  <2>. SUFFICES ASSUME NEW i \in 1 .. Top
                PROVE  /\ iterators'[i] \subseteq adjacency[path[i]]
                       /\ \A m \in adjacency[path[i]] \ iterators'[i] :
                             m \in Black \/ (i < Top /\ m = path[i + 1])
    BY <1>1, <1>2 DEF IteratorsAreLeft, Black
  <2>. QED BY <1>2, <1>3, <1>5 DEF SearchInv, IteratorsAreLeft
<1>7. PathIsGrey' /\ PathIsAChain' /\ BlackIsDone'
  BY <1>1 DEF SearchInv, PathIsGrey, PathIsAChain, BlackIsDone, AcyclicAmong, HasSink, Grey, Black
<1>8. AcyclicIsTrue' /\ CycleIsReal'
  BY <1>1 DEF Searching, AcyclicIsTrue, CycleIsReal
<1>. QED BY <1>1, <1>4, <1>6, <1>7, <1>8 DEF SearchInv

LEMMA BacktrackPreservesSearchInv == SearchInv /\ Backtrack => SearchInv'
<1>. SUFFICES ASSUME SearchInv, Backtrack PROVE SearchInv'
  OBVIOUS
<1>. DEFINE n == path[Top]
<1>1. /\ Top \in Nat \ {0} /\ Top = Len(path) /\ Top = Len(iterators)
      /\ n \in Nodes /\ n \in Grey
  BY DEF Backtrack, Top, SearchInv, SearchTypeOK, PathIsGrey
<1>2. /\ path' \in Seq(Nodes) /\ Len(path') = Top - 1
      /\ \A i \in 1 .. Top - 1 : path'[i] = path[i]
  BY <1>1 DEF Backtrack, SearchInv, SearchTypeOK
<1>3. /\ iterators' \in Seq(SUBSET Nodes) /\ Len(iterators') = Top - 1
      /\ \A i \in 1 .. Top - 1 : iterators'[i] = iterators[i]
  BY <1>1 DEF Backtrack, SearchInv, SearchTypeOK
<1>4. UNCHANGED <<adjacency, result>> /\ result.state = "searching"
  BY DEF Backtrack
<1>5. colour' = [colour EXCEPT ![n] = "black"] /\ colour' \in [Nodes -> {"white", "grey", "black"}]
  BY <1>1 DEF Backtrack, SearchInv, SearchTypeOK
<1>6. Black' = Black \cup {n} /\ Grey' = Grey \ {n} /\ n \notin Black
  BY <1>1, <1>5 DEF Black, Grey, SearchInv, SearchTypeOK
<1>7. adjacency[n] \subseteq Black
  BY <1>1 DEF Backtrack, SearchInv, SearchTypeOK, IteratorsAreLeft
<1>8. SearchTypeOK'
  BY <1>2, <1>3, <1>4, <1>5 DEF SearchInv, SearchTypeOK
<1>9. PathIsGrey'
  <2>1. ASSUME NEW m \in Nodes
        PROVE  m \in Grey' <=> \E i \in 1 .. Top - 1 : path'[i] = m
    <3>1. \A i \in 1 .. Top - 1 : path[i] # n
      BY <1>1 DEF SearchInv, PathIsGrey
    <3>2. m \in Grey' <=> m # n /\ \E i \in 1 .. Top : path[i] = m
      BY <1>1, <1>6 DEF SearchInv, PathIsGrey
    <3>3. \A i \in 1 .. Top : path[i] = m /\ m # n => i \in 1 .. Top - 1
      BY <1>1
    <3>4. \A i \in 1 .. Top - 1 : i \in 1 .. Top
      BY <1>1
    <3>. HIDE DEF n
    <3>5. ASSUME m \in Grey' PROVE \E i \in 1 .. Top - 1 : path'[i] = m
      BY <3>2, <3>3, <3>5, <1>2
    <3>6. ASSUME NEW i \in 1 .. Top - 1, path'[i] = m PROVE m \in Grey'
      BY <3>1, <3>2, <3>4, <3>6, <1>2
    <3>. QED BY <3>5, <3>6
  <2>2. \A i, j \in 1 .. Top - 1 : path'[i] = path'[j] => i = j
    BY <1>1, <1>2 DEF SearchInv, PathIsGrey
  <2>. QED BY <2>1, <2>2, <1>2 DEF PathIsGrey
<1>10. PathIsAChain'
  <2>. SUFFICES ASSUME NEW i \in 1 .. (Top - 1) - 1
                PROVE  path'[i + 1] \in adjacency[path'[i]]
    BY <1>2, <1>4 DEF PathIsAChain
  <2>1. i \in 1 .. Top - 1 /\ i + 1 \in 1 .. Top - 1
    BY <1>1
  <2>. QED BY <2>1, <1>1, <1>2 DEF SearchInv, PathIsAChain
<1>11. IteratorsAreLeft'
  <2>. SUFFICES ASSUME NEW i \in 1 .. Top - 1
                PROVE  /\ iterators'[i] \subseteq adjacency[path'[i]]
                       /\ \A m \in adjacency[path'[i]] \ iterators'[i] :
                             m \in Black \cup {n} \/ (i < Top - 1 /\ m = path'[i + 1])
    BY <1>2, <1>3, <1>4, <1>6 DEF IteratorsAreLeft
  <2>1. path'[i] = path[i] /\ iterators'[i] = iterators[i] /\ i \in 1 .. Top
    BY <1>1, <1>2, <1>3
  <2>2. iterators[i] \subseteq adjacency[path[i]]
    BY <2>1, <1>1 DEF SearchInv, IteratorsAreLeft
  <2>3. ASSUME NEW m \in adjacency[path[i]] \ iterators[i], m \notin Black \cup {n}
        PROVE  i < Top - 1 /\ m = path'[i + 1]
    <3>1. i < Top /\ m = path[i + 1]
      BY <2>1, <2>3, <1>1 DEF SearchInv, IteratorsAreLeft
    <3>2. i # Top - 1
      BY <3>1, <2>3, <1>1
    <3>. QED BY <3>1, <3>2, <1>1, <1>2
  <2>. QED BY <2>1, <2>2, <2>3
<1>12. BlackIsDone'
  <2>1. \A m \in Black \cup {n} : adjacency[m] \subseteq Black \cup {n}
    BY <1>7 DEF SearchInv, BlackIsDone
  <2>2. AcyclicAmong(Black \cup {n})
    <3>1. Black \in SUBSET Nodes /\ n \notin adjacency[n]
      BY <1>1 DEF Black, SearchInv
    <3>. HIDE DEF n
    <3>. QED BY <3>1, <1>1, <1>6, <1>7, AddDoneNode DEF SearchInv, SearchTypeOK, BlackIsDone
  <2>. QED BY <2>1, <2>2, <1>4, <1>6 DEF BlackIsDone, AcyclicAmong, HasSink
<1>13. AcyclicIsTrue' /\ CycleIsReal'
  BY <1>4 DEF AcyclicIsTrue, CycleIsReal
<1>. QED BY <1>4, <1>8, <1>9, <1>10, <1>11, <1>12, <1>13 DEF SearchInv

LEMMA NextPreservesSearchInv == SearchInv /\ [SearchNext]_searchVars => SearchInv'
<1>. SUFFICES ASSUME SearchInv, [SearchNext]_searchVars PROVE SearchInv'
  OBVIOUS
<1>1. CASE UNCHANGED searchVars
  <2>1. UNCHANGED <<adjacency, colour, path, iterators, result>>
    BY <1>1 DEF searchVars
  <2>2. SearchTypeOK' /\ (\A n \in Nodes : n \notin adjacency'[n])
    BY <2>1 DEF SearchInv, SearchTypeOK
  <2>3. PathIsGrey' /\ PathIsAChain' /\ IteratorsAreLeft'
    BY <2>1 DEF SearchInv, PathIsGrey, PathIsAChain, IteratorsAreLeft, Grey, Black
  <2>4. BlackIsDone' /\ AcyclicIsTrue' /\ CycleIsReal'
    BY <2>1 DEF SearchInv, BlackIsDone, AcyclicAmong, HasSink, AcyclicIsTrue, CycleIsReal, Black
  <2>. QED BY <2>2, <2>3, <2>4 DEF SearchInv
<1>. QED
  BY <1>1, NextRootPreservesSearchInv, NoRootLeftPreservesSearchInv, BackEdgePreservesSearchInv,
     DescendPreservesSearchInv, SkipPreservesSearchInv, BacktrackPreservesSearchInv DEF SearchNext

\* The colouring describes every state of every search.
THEOREM CycleSearchInvariant == SearchSpec => []SearchInv
<1>1. SearchInit => SearchInv
  BY InitEstablishesSearchInv
<1>2. SearchInv /\ [SearchNext]_searchVars => SearchInv'
  BY NextPreservesSearchInv
<1>. QED BY <1>1, <1>2, PTL DEF SearchSpec

\* What _find_cycle says of a graph is true: it returns None only of acyclic
\* graphs, and a cycle that it reports exists.
THEOREM SearchIsAlwaysRight == SearchSpec => []SearchIsRight
<1>1. SearchInv => SearchIsRight
  BY DEF SearchInv, SearchIsRight
<1>. QED BY <1>1, CycleSearchInvariant, PTL

-----------------------------------------------------------------------------
(* The planner.                                                            *)

\* What the invariant says of the nodes that are ordered.
LEMMA DoneIsClosed ==
    ASSUME PlanInv
    PROVE  /\ Len(order) \in Nat /\ Done \in SUBSET Nodes /\ IsFiniteSet(Done)
           /\ \A n \in Done : n \notin Predecessors(n)
           /\ \A n \in Done : Predecessors(n) \subseteq Done
           /\ \A i \in 1 .. Len(order) :
                 /\ order[i] \in Nodes \ Before(i)
                 /\ Predecessors(order[i]) \subseteq Before(i)
<1>. USE DEF PlanInv
<1>1. Len(order) \in Nat /\ \A i \in 1 .. Len(order) : order[i] \in Nodes
  OBVIOUS
<1>2. Done = {order[i] : i \in 1 .. Len(order)}
  <2>1. 1 .. (Len(order) + 1) - 1 = 1 .. Len(order)
    BY <1>1
  <2>. QED BY <2>1 DEF Done, Before
<1>3. Done \in SUBSET Nodes
  BY <1>1, <1>2
<1>4. IsFiniteSet(Done)
  BY <1>3, PlanningAssumption, FS_Subset
<1>5. ASSUME NEW i \in 1 .. Len(order)
      PROVE  order[i] \in Available(Before(i))
  <2>1. Available(Before(i)) \in SUBSET Nodes
    BY DEF Available
  <2>2. Available(Before(i)) # {} /\ order[i] = Smallest(Available(Before(i)))
    BY <1>5 DEF PlanIsCanonical, OrderIsCanonical
  <2>. QED BY <2>1, <2>2, SmallestIsIn
<1>6. ASSUME NEW i \in 1 .. Len(order)
      PROVE  Before(i) \subseteq Done
  <2>1. \A j \in 1 .. i - 1 : j \in 1 .. Len(order)
    BY <1>1
  <2>. QED BY <2>1, <1>2 DEF Before
<1>7. \A n \in Done : Predecessors(n) \subseteq Done
  BY <1>2, <1>5, <1>6 DEF Available
<1>8. \A n \in Nodes : n \notin Predecessors(n)
  BY DEF SearchInv, Predecessors
<1>. QED BY <1>1, <1>3, <1>4, <1>5, <1>7, <1>8 DEF Available

\* In a finite graph without a cycle every set of nodes has one that no node of
\* the set has an edge to: of a smallest set without, leave out a sink.
LEMMA HasSourceWithoutCycle ==
    ASSUME NEW N, IsFiniteSet(N), NEW a \in [N -> SUBSET N], ~HasCycle(a),
           NEW R \in SUBSET N, R # {}
    PROVE  \E n \in R : \A m \in R : n \notin a[m]
<1> DEFINE HasSource(T) == \E n \in T : \A m \in T : n \notin a[m]
           Bad == {T \in SUBSET N : T # {} /\ ~HasSource(T)}
           Smaller == StrictSubsetOrdering(N)
<1> SUFFICES ASSUME Bad # {} PROVE FALSE
    OBVIOUS
<1>1. IsWellFoundedOn(Smaller, SUBSET N)
    BY FS_StrictSubsetOrderingWellFounded, FS_FiniteSubsetsOfFinite
<1>2. \E T \in Bad : \A U \in Bad : <<U, T>> \notin Smaller
    <2> HIDE DEF Bad, Smaller
    <2>1. Bad \subseteq SUBSET N
        BY DEF Bad
    <2> QED BY <1>1, <2>1, WFMin
<1>3. PICK T \in Bad : \A U \in Bad : <<U, T>> \notin Smaller
    BY <1>2
<1>4. PICK n \in T : a[n] \cap T = {}
    BY <1>3 DEF HasCycle
<1> DEFINE U == T \ {n}
<1>5. U # {} /\ U \in SUBSET N /\ U # T
    BY <1>3, <1>4
<1>6. HasSource(U)
    <2>1. <<U, T>> \in Smaller
        BY <1>3, <1>5 DEF StrictSubsetOrdering
    <2> QED BY <2>1, <1>3, <1>5
<1>7. PICK m \in U : \A k \in U : m \notin a[k]
    BY <1>6
<1>8. \A k \in T : m \notin a[k]
    BY <1>4, <1>7
<1> QED BY <1>3, <1>7, <1>8

\* In an acyclic graph, one that has no predecessor in the set.
LEMMA AcyclicHasSource ==
    ASSUME SearchInv, AcyclicAmong(Nodes), NEW R \in SUBSET Nodes, R # {}
    PROVE  \E n \in R : Predecessors(n) \cap R = {}
<1>1. adjacency \in [Nodes -> SUBSET Nodes] /\ ~HasCycle(adjacency)
  BY DEF SearchInv, SearchTypeOK, AcyclicAmong, HasSink, HasCycle
<1>2. PICK n \in R : \A m \in R : n \notin adjacency[m]
  BY <1>1, PlanningAssumption, HasSourceWithoutCycle
<1>. QED BY <1>2 DEF Predecessors

\* Bounded sets of numbers have a largest one.
LEMMA LargestExists ==
    ASSUME NEW S \in SUBSET Nat, S # {}, NEW bound \in Nat, \A i \in S : i <= bound
    PROVE  \E i \in S : \A j \in S : j <= i
<1>. DEFINE T == {bound - i : i \in S}
            Predecessor == OpToRel(<, Nat)
<1>1. T \subseteq Nat /\ T # {}
  <2>. HIDE DEF Predecessor
  <2>1. \A i \in S : bound - i \in Nat
    OBVIOUS
  <2>2. \A k \in T : k \in Nat
    BY <2>1
  <2>3. PICK i \in S : TRUE
    OBVIOUS
  <2>4. bound - i \in T
    BY <2>3
  <2>. QED BY <2>2, <2>4
<1>2. \E k \in T : \A m \in T : <<m, k>> \notin Predecessor
  <2>. HIDE DEF T, Predecessor
  <2>1. IsWellFoundedOn(Predecessor, Nat)
    BY NatLessThanWellFounded DEF Predecessor
  <2>. QED BY <1>1, <2>1, WFMin
<1>3. \A k, m \in Nat : <<m, k>> \notin Predecessor => k <= m
  BY DEF OpToRel
<1>4. PICK k \in T : \A m \in T : k <= m
  <2>. HIDE DEF T, Predecessor
  <2>. QED BY <1>1, <1>2, <1>3
<1>5. PICK i \in S : k = bound - i
  OBVIOUS
<1>6. \A j \in S : bound - j \in T /\ j \in Nat
  OBVIOUS
<1>7. \A j \in S : bound - i <= bound - j
  BY <1>4, <1>5, <1>6
<1>. QED BY <1>5, <1>6, <1>7

\* A graph that can be ordered has no cycle: the last of any nodes is a sink.
LEMMA OrderedIsAcyclic ==
    ASSUME PlanInv, Done = Nodes
    PROVE  AcyclicAmong(Nodes)
<1>. SUFFICES ASSUME NEW T \in SUBSET Nodes, T # {}
              PROVE  HasSink(T)
  BY DEF AcyclicAmong
<1>. DEFINE Places == {i \in 1 .. Len(order) : order[i] \in T}
<1>1. Len(order) \in Nat /\ Done = {order[i] : i \in 1 .. Len(order)}
  BY DoneIsClosed DEF Done, Before
<1>2. \E i \in Places : \A j \in Places : j <= i
  <2>1. Places \in SUBSET Nat /\ Places # {} /\ \A i \in Places : i <= Len(order)
    BY <1>1
  <2>. HIDE DEF Places
  <2>. QED BY <2>1, <1>1, LargestExists
<1>3. PICK i \in Places : \A j \in Places : j <= i
  BY <1>2
<1>4. ASSUME NEW m \in adjacency[order[i]] \cap T
      PROVE  FALSE
  <2>1. m \in Nodes /\ order[i] \in Predecessors(m)
    BY <1>4 DEF PlanInv, SearchInv, SearchTypeOK, Predecessors
  <2>2. PICK j \in 1 .. Len(order) : order[j] = m
    BY <2>1, <1>1
  <2>3. order[i] \in Before(j)
    BY <2>1, <2>2, DoneIsClosed
  <2>4. PICK k \in 1 .. j - 1 : order[k] = order[i]
    BY <2>3 DEF Before
  <2>5. j <= i /\ k < i /\ k \in Nat /\ k >= 1
    BY <2>2, <2>4, <1>3, <1>4
  <2>6. order[i] \notin Before(i) /\ order[k] \in Before(i)
    BY <2>5, <1>1, DoneIsClosed DEF Before
  <2>. QED BY <2>4, <2>6
<1>. QED BY <1>3, <1>4 DEF HasSink

\* A cycle that is reported contradicts it.
LEMMA CycleIsNotAcyclic ==
    ASSUME SearchInv, result.state = "cyclic"
    PROVE  ~AcyclicAmong(Nodes)
<1>. DEFINE cycle == result.cycle
            size == Len(cycle) - 1
            T == {cycle[i] : i \in 1 .. size}
<1>1. cycle \in Seq(Nodes) /\ size \in Nat /\ size > 1 /\ cycle[1] = cycle[size + 1]
  BY DEF SearchInv, SearchTypeOK, CycleIsReal
<1>2. \A i \in 1 .. size : cycle[i + 1] \in adjacency[cycle[i]]
  BY DEF SearchInv, CycleIsReal
<1>3. T \in SUBSET Nodes /\ T # {}
  <2>1. \A i \in 1 .. size : cycle[i] \in Nodes
    BY <1>1
  <2>2. cycle[1] \in T
    BY <1>1
  <2>. QED BY <2>1, <2>2
<1>4. ASSUME NEW i \in 1 .. size
      PROVE  cycle[i + 1] \in T
  <2>1. CASE i = size
    BY <2>1, <1>1
  <2>2. CASE i # size
    BY <2>2, <1>1
  <2>. QED BY <2>1, <2>2
<1>5. ~HasSink(T)
  <2>. HIDE DEF size
  <2>. QED BY <1>2, <1>4 DEF HasSink
<1>. QED BY <1>3, <1>5 DEF AcyclicAmong

-----------------------------------------------------------------------------
LEMMA InitEstablishesPlanInv == SearchInit /\ PlanInit => PlanInv
<1>. SUFFICES ASSUME SearchInit, PlanInit PROVE PlanInv
  OBVIOUS
<1>1. SearchInv
  BY InitEstablishesSearchInv
<1>2. order = <<>> /\ ready = {} /\ plan = "none" /\ indegree \in [Nodes -> Nat]
  BY DEF PlanInit
<1>3. Done = {}
  BY <1>2 DEF Done, Before
<1>4. Cardinality(Done) = Len(order)
  BY <1>2, <1>3, FS_EmptySet
<1>5. PlanIsKahn /\ PlanIsCanonical
  BY <1>2 DEF PlanIsKahn, PlanIsCanonical, OrderIsCanonical
<1>. QED BY <1>1, <1>2, <1>4, <1>5 DEF PlanInv

\* The search does not change its graph, nor an answer that it has given.
LEMMA SearchKeepsGraph ==
    ASSUME [SearchNext]_searchVars
    PROVE  /\ adjacency' = adjacency
           /\ result.state # "searching" => result' = result
  BY DEF SearchNext, searchVars, NextRoot, NoRootLeft, BackEdge, Descend, Skip, Backtrack, Searching

LEMMA SearchPreservesPlanInv == PlanInv /\ [SearchNext]_searchVars /\ UNCHANGED planVars => PlanInv'
<1>. SUFFICES ASSUME PlanInv, [SearchNext]_searchVars, UNCHANGED planVars PROVE PlanInv'
  OBVIOUS
<1>1. SearchInv'
  BY NextPreservesSearchInv DEF PlanInv
<1>2. UNCHANGED <<adjacency, indegree, ready, order, plan>>
  BY SearchKeepsGraph DEF planVars
<1>3. plan # "none" => result' = result
  BY SearchKeepsGraph DEF PlanInv
<1>4. Done' = Done /\ \A i : Before(i)' = Before(i)
  BY <1>2 DEF Done, Before
<1>5. \A n : Predecessors(n)' = Predecessors(n)
  BY <1>2 DEF Predecessors
<1>6. \A S : Available(S)' = Available(S)
  BY <1>5 DEF Available
<1>7. PlanIsKahn'
  BY <1>2, <1>4, <1>5, <1>6 DEF PlanInv, PlanIsKahn
<1>8. PlanIsCanonical'
  BY <1>2, <1>3, <1>4, <1>6 DEF PlanInv, PlanIsCanonical, OrderIsCanonical
<1>. QED BY <1>1, <1>2, <1>3, <1>4, <1>7, <1>8 DEF PlanInv

\* The heap starts with the nodes that have no predecessor.
LEMMA PreparePreservesPlanInv == PlanInv /\ Prepare => PlanInv'
<1>. SUFFICES ASSUME PlanInv, Prepare PROVE PlanInv'
  OBVIOUS
<1>. USE DEF Prepare
<1>1. UNCHANGED <<adjacency, order, result>> /\ order = <<>> /\ SearchInv'
  <2>1. UNCHANGED searchVars
    OBVIOUS
  <2>. QED BY <2>1, NextPreservesSearchInv DEF PlanInv, searchVars
<1>2. Done = {} /\ Done' = {}
  BY <1>1 DEF Done, Before
<1>3. \A n \in Nodes : IsFiniteSet(Predecessors(n)) /\ Cardinality(Predecessors(n)) \in Nat
  <2>1. \A n \in Nodes : Predecessors(n) \in SUBSET Nodes
    BY DEF Predecessors
  <2>. QED BY <2>1, PlanningAssumption, FS_Subset, FS_CardinalityType
<1>4. indegree' \in [Nodes -> Nat] /\ ready' \in SUBSET Nodes
  BY <1>3
<1>5. \A n \in Nodes : indegree'[n] = 0 <=> Predecessors(n) = {}
  BY <1>3, FS_EmptySet
<1>6. PlanIsKahn'
  <2>1. ready' = Available({})
    BY <1>5 DEF Available
  <2>2. Available({})' = Available({}) /\ \A n : Predecessors(n)' = Predecessors(n)
    BY <1>1 DEF Available, Predecessors
  <2>3. \A n \in Nodes : indegree'[n] = Cardinality(Predecessors(n) \ {})
    OBVIOUS
  <2>. QED BY <1>2, <2>1, <2>2, <2>3 DEF PlanIsKahn
<1>7. PlanIsCanonical'
  BY <1>1 DEF PlanIsCanonical, OrderIsCanonical
<1>. QED BY <1>1, <1>2, <1>4, <1>6, <1>7, FS_EmptySet DEF PlanInv

\* A node that is placed makes available the nodes it was the last to precede.
LEMMA PlacePreservesPlanInv == PlanInv /\ Place => PlanInv'
<1>. SUFFICES ASSUME PlanInv, Place PROVE PlanInv'
  OBVIOUS
<1>. DEFINE node == Smallest(ready)
<1>1. /\ plan = "ordering" /\ ready # {} /\ UNCHANGED <<searchVars, plan>>
      /\ order' = Append(order, node)
      /\ indegree' = [n \in Nodes |->
                        IF n \in adjacency[node] THEN indegree[n] - 1 ELSE indegree[n]]
      /\ ready' = (ready \ {node}) \cup {n \in adjacency[node] : indegree'[n] = 0}
  BY DEF Place
<1>2. UNCHANGED <<adjacency, result>> /\ SearchInv'
  BY <1>1, NextPreservesSearchInv DEF PlanInv, searchVars
<1>3. ready = Available(Done) /\ \A n \in Nodes : indegree[n] = Cardinality(Predecessors(n) \ Done)
  BY <1>1 DEF PlanInv, PlanIsKahn
<1>4. node \in ready /\ node \in Nodes \ Done /\ Predecessors(node) \subseteq Done
  <2>1. node \in ready
    BY <1>1, SmallestIsIn DEF PlanInv
  <2>. QED BY <2>1, <1>3 DEF Available
<1>5. adjacency[node] \in SUBSET Nodes /\ node \notin adjacency[node]
  BY <1>4 DEF PlanInv, SearchInv, SearchTypeOK
<1>6. /\ Len(order) \in Nat /\ Done \in SUBSET Nodes /\ IsFiniteSet(Done)
      /\ \A n \in Done : Predecessors(n) \subseteq Done
  BY DoneIsClosed
<1>7. /\ order' \in Seq(Nodes) /\ Len(order') = Len(order) + 1
      /\ order'[Len(order) + 1] = node
      /\ \A i \in 1 .. Len(order) : order'[i] = order[i]
  BY <1>1, <1>4 DEF PlanInv
<1>8. \A i \in 1 .. Len(order) + 1 : Before(i)' = Before(i)
  <2>. SUFFICES ASSUME NEW i \in 1 .. Len(order) + 1
                PROVE  \A j \in 1 .. i - 1 : order'[j] = order[j]
    BY DEF Before
  <2>1. \A j \in 1 .. i - 1 : j \in 1 .. Len(order)
    BY <1>6
  <2>. QED BY <2>1, <1>7
<1>9. Done' = Done \cup {node}
  <2>1. Done' = {order'[j] : j \in 1 .. Len(order) + 1}
    <3>1. (Len(order) + 1) + 1 - 1 = Len(order) + 1
      BY <1>6
    <3>. QED BY <3>1, <1>7 DEF Done, Before
  <2>2. Done = {order[j] : j \in 1 .. Len(order)}
    <3>1. (Len(order) + 1) - 1 = Len(order)
      BY <1>6
    <3>. QED BY <3>1 DEF Done, Before
  <2>3. 1 .. Len(order) + 1 = (1 .. Len(order)) \cup {Len(order) + 1}
    BY <1>6
  <2>. QED BY <2>1, <2>2, <2>3, <1>7
<1>10. Cardinality(Done') = Len(order')
  BY <1>4, <1>6, <1>7, <1>9, FS_AddElement DEF PlanInv
<1>11. \A n : Predecessors(n)' = Predecessors(n)
  BY <1>2 DEF Predecessors
<1>12. \A S : Available(S)' = Available(S)
  BY <1>11 DEF Available
<1>13. ASSUME NEW n \in Nodes
       PROVE  /\ indegree'[n] = Cardinality(Predecessors(n) \ Done')
              /\ indegree'[n] \in Nat
              /\ indegree'[n] = 0 <=> Predecessors(n) \subseteq Done'
  <2>. DEFINE left == Predecessors(n) \ Done
  <2>1. IsFiniteSet(left)
    <3>1. left \in SUBSET Nodes
      BY DEF Predecessors
    <3>. QED BY <3>1, PlanningAssumption, FS_Subset
  <2>2. n \in adjacency[node] <=> node \in left
    BY <1>4 DEF Predecessors
  <2>3. Predecessors(n) \ Done' = left \ {node}
    BY <1>9
  <2>4. indegree'[n] = Cardinality(left \ {node})
    <3>1. IsFiniteSet(left) /\ Cardinality(left \ {node}) =
              IF node \in left THEN Cardinality(left) - 1 ELSE Cardinality(left)
      <4>. HIDE DEF left
      <4>. QED BY <2>1, FS_RemoveElement
    <3>. QED BY <3>1, <2>2, <1>1, <1>3
  <2>5. IsFiniteSet(left \ {node})
    BY <2>1, FS_RemoveElement
  <2>. QED BY <2>3, <2>4, <2>5, FS_EmptySet, FS_CardinalityType
<1>14. ready' = Available(Done')
  <2>1. ASSUME NEW n \in Available(Done')
        PROVE  n \in ready'
    <3>1. n \in Nodes /\ n \notin Done /\ n # node /\ Predecessors(n) \subseteq Done \cup {node}
      BY <2>1, <1>9 DEF Available
    <3>2. CASE node \in Predecessors(n)
      <4>1. n \in adjacency[node] /\ indegree'[n] = 0
        BY <3>1, <3>2, <1>9, <1>13 DEF Predecessors
      <4>. QED BY <4>1, <1>1
    <3>3. CASE node \notin Predecessors(n)
      BY <3>1, <3>3, <1>1, <1>3 DEF Available
    <3>. QED BY <3>2, <3>3
  <2>2. ASSUME NEW n \in ready'
        PROVE  n \in Available(Done')
    <3>1. CASE n \in ready \ {node}
      BY <3>1, <1>3, <1>9 DEF Available
    <3>2. CASE n \in adjacency[node] /\ indegree'[n] = 0
      <4>1. n \in Nodes /\ n # node /\ node \in Predecessors(n)
        BY <3>2, <1>4, <1>5 DEF Predecessors
      <4>2. n \notin Done
        BY <4>1, <1>4, <1>6
      <4>. QED BY <3>2, <4>1, <4>2, <1>9, <1>13 DEF Available
    <3>. QED BY <2>2, <3>1, <3>2, <1>1
  <2>. QED BY <2>1, <2>2
<1>15. PlanIsKahn'
  BY <1>11, <1>12, <1>13, <1>14 DEF PlanIsKahn
<1>16. OrderIsCanonical'
  <2>. SUFFICES ASSUME NEW i \in 1 .. Len(order) + 1
                PROVE  /\ Available(Before(i)) # {}
                       /\ order'[i] = Smallest(Available(Before(i)))
    BY <1>7, <1>8, <1>12 DEF OrderIsCanonical, Smallest
  <2>1. CASE i = Len(order) + 1
    BY <2>1, <1>1, <1>3, <1>7 DEF Done
  <2>2. CASE i # Len(order) + 1
    <3>1. i \in 1 .. Len(order)
      BY <2>2, <1>6
    <3>. QED BY <3>1, <1>7 DEF PlanInv, PlanIsCanonical, OrderIsCanonical
  <2>. QED BY <2>1, <2>2
<1>17. PlanIsCanonical'
  BY <1>1, <1>16 DEF PlanIsCanonical
<1>18. indegree' \in [Nodes -> Nat] /\ ready' \in SUBSET Nodes
  <2>1. ready' \in SUBSET Nodes
    BY <1>14 DEF Available
  <2>2. DOMAIN indegree' = Nodes /\ indegree' = [n \in Nodes |-> indegree'[n]]
    BY <1>1
  <2>. QED BY <2>1, <2>2, <1>13
<1>19. plan' = "ordering" /\ result'.state # "searching"
  BY <1>1, <1>2 DEF PlanInv
<1>. QED BY <1>2, <1>7, <1>10, <1>15, <1>17, <1>18, <1>19 DEF PlanInv

\* When the heap is empty, the nodes that are left form a cycle if there are any.
LEMMA OrderedPreservesPlanInv == PlanInv /\ Ordered => PlanInv'
<1>. SUFFICES ASSUME PlanInv, Ordered PROVE PlanInv'
  OBVIOUS
<1>1. /\ plan = "ordering" /\ ready = {} /\ UNCHANGED <<searchVars, indegree, ready, order>>
      /\ plan' = IF Len(order) = Cardinality(Nodes) THEN "ordered" ELSE "refused"
  BY DEF Ordered
<1>2. UNCHANGED <<adjacency, result>> /\ SearchInv'
  BY <1>1, NextPreservesSearchInv DEF PlanInv, searchVars
<1>3. SearchInv /\ Done \in SUBSET Nodes /\ Cardinality(Done) = Len(order) /\ Available(Done) = {}
  BY <1>1, DoneIsClosed DEF PlanInv, PlanIsKahn
<1>4. result.state \in {"acyclic", "cyclic"}
  BY <1>1 DEF PlanInv, SearchInv, SearchTypeOK
<1>5. ASSUME Len(order) = Cardinality(Nodes)
      PROVE  /\ plan' = "ordered" => result'.state = "acyclic"
             /\ plan' = "refused" => result'.state = "cyclic"
             /\ plan' \in {"ordered", "refused"}
  <2>1. Done = Nodes
    BY <1>3, <1>5, PlanningAssumption, FS_Subset
  <2>2. AcyclicAmong(Nodes)
    BY <2>1, OrderedIsAcyclic
  <2>. QED BY <2>2, <1>1, <1>2, <1>3, <1>4, <1>5, CycleIsNotAcyclic
<1>6. ASSUME Len(order) # Cardinality(Nodes)
      PROVE  /\ plan' = "ordered" => result'.state = "acyclic"
             /\ plan' = "refused" => result'.state = "cyclic"
             /\ plan' \in {"ordered", "refused"}
  <2>1. Nodes \ Done # {}
    <3>1. Done # Nodes
      BY <1>3, <1>6
    <3>. QED BY <3>1, <1>3
  <2>2. \A n \in Nodes \ Done : Predecessors(n) \cap (Nodes \ Done) # {}
    BY <1>3 DEF Available, Predecessors
  <2>3. ~AcyclicAmong(Nodes)
    BY <2>1, <2>2, <1>3, AcyclicHasSource
  <2>4. result.state = "cyclic"
    BY <2>3, <1>3, <1>4 DEF SearchInv, AcyclicIsTrue
  <2>. QED BY <2>4, <1>1, <1>2, <1>6
<1>7. /\ plan' = "ordered" => result'.state = "acyclic"
      /\ plan' = "refused" => result'.state = "cyclic"
      /\ plan' \in {"ordered", "refused"}
  BY <1>5, <1>6
<1>8. Done' = Done /\ \A i : Before(i)' = Before(i)
  BY <1>1 DEF Done, Before
<1>9. \A n : Predecessors(n)' = Predecessors(n)
  BY <1>2 DEF Predecessors
<1>10. \A S : Available(S)' = Available(S)
  BY <1>9 DEF Available
<1>11. PlanIsKahn'
  BY <1>1, <1>8, <1>9, <1>10 DEF PlanInv, PlanIsKahn
<1>12. PlanIsCanonical'
  BY <1>1, <1>7, <1>8, <1>10 DEF PlanInv, PlanIsCanonical, OrderIsCanonical
<1>. QED BY <1>1, <1>2, <1>4, <1>7, <1>8, <1>11, <1>12 DEF PlanInv

\* What topological_order returns is a function of the graph, and what it
\* refuses is what the search has found cyclic.
THEOREM PlanIsAlwaysCanonical == PlanSpec => []PlanIsCanonical
<1>1. SearchInit /\ PlanInit => PlanInv
  BY InitEstablishesPlanInv
<1>2. PlanInv /\ [PlanNext]_<<searchVars, planVars>> => PlanInv'
  <2>. SUFFICES ASSUME PlanInv, [PlanNext]_<<searchVars, planVars>> PROVE PlanInv'
    OBVIOUS
  <2>1. CASE [SearchNext]_searchVars /\ UNCHANGED planVars
    BY <2>1, SearchPreservesPlanInv
  <2>2. CASE Prepare
    BY <2>2, PreparePreservesPlanInv
  <2>3. CASE Place
    BY <2>3, PlacePreservesPlanInv
  <2>4. CASE Ordered
    BY <2>4, OrderedPreservesPlanInv
  <2>. QED BY <2>1, <2>2, <2>3, <2>4 DEF PlanNext
<1>3. PlanInv => PlanIsCanonical
  BY DEF PlanInv
<1>. QED BY <1>1, <1>2, <1>3, PTL DEF PlanSpec

-----------------------------------------------------------------------------
(* The cursor.                                                             *)

\* A nonempty set of sessions has a latest one.
LEMMA LatestExists ==
    ASSUME NEW S \in SUBSET Days, S # {}
    PROVE  \E d \in S : \A e \in S : e <= d
<1> DEFINE T == {LastDay - d : d \in S}
<1>1. T \subseteq Nat /\ T # {}
    <2>1. \A d \in Days : LastDay - d \in Nat
        BY MarketAssumption DEF Days
    <2> QED BY <2>1
<1>2. PICK m \in T : \A n \in T : <<n, m>> \notin OpToRel(<, Nat)
    BY <1>1, NatLessThanWellFounded, WFMin
<1>3. \A n \in T : m <= n
    <2> SUFFICES ASSUME NEW n \in T PROVE m <= n
        OBVIOUS
    <2>1. m \in Nat /\ n \in Nat
        BY <1>1
    <2>2. ~ (n < m)
        BY <1>2, <2>1, <<n, m>> \in Nat \X Nat DEF OpToRel
    <2> QED BY <2>1, <2>2
<1>4. PICK d \in S : m = LastDay - d
    BY <1>2
<1>5. \A e \in S : e <= d
    <2> SUFFICES ASSUME NEW e \in S PROVE e <= d
        OBVIOUS
    <2>1. LastDay - e \in T
        OBVIOUS
    <2>2. LastDay - d <= LastDay - e
        BY <1>3, <1>4, <2>1
    <2>3. d \in Int /\ e \in Int /\ LastDay \in Int
        BY MarketAssumption DEF Days
    <2> QED BY <2>2, <2>3
<1> QED BY <1>5

\* Availability instants are positive naturals.
LEMMA AvailabilityInstants ==
    ASSUME NEW avail \in [Assets -> [Days -> Instants \cup {Never}]]
    PROVE  avail \in [Assets -> [Days -> Nat]] /\ \A a \in Assets, d \in Days : avail[a][d] > 0
<1>1. \A t \in Instants \cup {Never} : t \in Nat /\ t > 0
    BY MarketAssumption DEF Instants, Never
<1>2. \A a \in Assets, d \in Days : avail[a][d] \in Instants \cup {Never}
    OBVIOUS
<1>3. \A a \in Assets : avail[a] \in [Days -> Nat]
    BY <1>1, <1>2
<1> QED BY <1>1, <1>2, <1>3

\* What AsOfLatestClose returns: a visible session that no visible session
\* follows, or NoDay when nothing is visible.
LEMMA LatestCloseIsMax ==
    ASSUME NEW avail, NEW a, NEW t
    PROVE  LET d == AsOfLatestClose(avail, a, t)
           IN  \/ d = NoDay /\ VisibleDays(avail, a, t) = {}
               \/ /\ d \in VisibleDays(avail, a, t)
                  /\ \A e \in VisibleDays(avail, a, t) : e <= d
<1> DEFINE V == VisibleDays(avail, a, t)
<1>1. CASE V = {}
    BY <1>1 DEF AsOfLatestClose
<1>2. CASE V # {}
    <2>1. V \in SUBSET Days
        BY DEF VisibleDays
    <2>2. \E d \in V : \A e \in V : e <= d
        BY <1>2, <2>1, LatestExists
    <2> QED BY <1>2, <2>2 DEF AsOfLatestClose
<1> QED BY <1>1, <1>2

\* And there is only one such answer.
LEMMA LatestCloseUnique ==
    ASSUME NEW avail, NEW a, NEW t, NEW d \in Days \cup {NoDay},
           \/ d = NoDay /\ VisibleDays(avail, a, t) = {}
           \/ /\ d \in VisibleDays(avail, a, t)
              /\ \A e \in VisibleDays(avail, a, t) : e <= d
    PROVE  AsOfLatestClose(avail, a, t) = d
<1> DEFINE c == AsOfLatestClose(avail, a, t)
           V == VisibleDays(avail, a, t)
<1>1. \/ c = NoDay /\ V = {}
      \/ c \in V /\ \A e \in V : e <= c
    BY LatestCloseIsMax
<1>2. V \subseteq Days
    BY DEF VisibleDays
<1>3. Days \subseteq Int /\ NoDay \in Int
    BY MarketAssumption DEF Days, NoDay
<1> HIDE DEF c, V
<1>4. CASE V = {}
    BY <1>1, <1>4 DEF V, c
<1>5. CASE V # {}
    <2>1. c \in V /\ d \in V /\ c <= d /\ d <= c
        BY <1>1, <1>5 DEF V, c
    <2>2. c \in Int /\ d \in Int
        BY <1>2, <1>3, <2>1
    <2>3. c = d
        BY <2>1, <2>2
    <2> QED BY <2>3 DEF c
<1> QED BY <1>4, <1>5


\* The answers of the as-of view have the type of an answer.
LEMMA AsOfAnswerType ==
    ASSUME NEW q \in Questions
    PROVE  AsOfAnswer(q) \in Days \cup {NoDay}
<1>1. AsOfLatestClose(closeAvail, q.asset, q.at) \in Days \cup {NoDay}
    BY LatestCloseIsMax DEF VisibleDays
<1>2. q.kind \in Kinds /\ q.day \in Days
    BY DEF Questions
<1> QED BY <1>1, <1>2 DEF AsOfAnswer, AsOfSessionClose, AsOfOpen, Kinds

\* The loops of _advance stop only when no arrival is due: of the arrivals due,
\* one comes first.
LEMMA NothingLeftBelow ==
    ASSUME NEW avail \in [Assets -> [Days -> Nat]], NEW left \in SUBSET (Assets \X Days),
           highWater \in Nat, NextArrivals(left, avail) = {}
    PROVE  \A o \in left : avail[o[1]][o[2]] > highWater
<1> DEFINE At(o) == avail[o[1]][o[2]]
           T == {At(o) : o \in left}
<1>1. \A o \in left : At(o) \in Nat
    OBVIOUS
<1> SUFFICES ASSUME NEW o \in left, At(o) <= highWater PROVE FALSE
    BY <1>1
<1>2. T \subseteq Nat /\ T # {}
    BY <1>1
<1>3. PICK m \in T : \A n \in T : <<n, m>> \notin OpToRel(<, Nat)
    BY <1>2, NatLessThanWellFounded, WFMin
<1>4. \A n \in T : m <= n
    <2> SUFFICES ASSUME NEW n \in T PROVE m <= n
        OBVIOUS
    <2>1. m \in Nat /\ n \in Nat
        BY <1>2
    <2>2. ~ (n < m)
        BY <1>3, <2>1, <<n, m>> \in Nat \X Nat DEF OpToRel
    <2> QED BY <2>1, <2>2
<1>5. PICK first \in left : At(first) = m
    BY <1>3
<1>6. \A other \in left : At(first) <= At(other)
    BY <1>4, <1>5
<1>7. At(first) <= highWater
    <2>1. At(first) <= At(o)
        BY <1>6
    <2> QED BY <1>1, <2>1
<1> QED BY <1>6, <1>7 DEF NextArrivals

\* When every arrival at the high-water mark is in the tables, the tables say
\* what the as-of view at that mark says.
LEMMA TablesAreExact ==
    ASSUME TypeOK, LatestIsMax, OpensAreTaken, CutoffRespected,
           pc = "opens", NextArrivals(opensLeft, openAvail) = {},
           \A o \in opensLeft : openAvail[o[1]][o[2]] > highWater
    PROVE  TableAnswer(question) = AsOfAnswer(question)
<1> DEFINE a == question.asset
           t == question.at
<1>1. a \in Assets /\ question.day \in Days /\ t = highWater /\ t \in Instants
    BY DEF TypeOK, CutoffRespected, Questions
<1>2. \A d \in Days : closeAvail[a][d] \in Int /\ openAvail[a][d] \in Int
    BY <1>1, MarketAssumption DEF TypeOK, CloseAvailability, OpenAvailability, Instants, Never
<1>3. t < Never /\ t \in Int /\ Never \in Int
    BY <1>1, MarketAssumption DEF Instants, Never
<1>4. \A d \in Days : d \in VisibleDays(closeAvail, a, t) <=> <<a, d>> \in TakenCloses
    BY <1>1, <1>2, <1>3 DEF VisibleDays, TakenCloses, Observations, CutoffRespected, TypeOK
<1>5. AsOfLatestClose(closeAvail, a, t) = latest[a]
    <2>1. latest[a] \in Days \cup {NoDay}
        BY <1>1 DEF TypeOK
    <2>2. VisibleDays(closeAvail, a, t) \subseteq Days
        BY DEF VisibleDays
    <2>3. \/ latest[a] = NoDay /\ VisibleDays(closeAvail, a, t) = {}
          \/ /\ latest[a] \in VisibleDays(closeAvail, a, t)
             /\ \A e \in VisibleDays(closeAvail, a, t) : e <= latest[a]
        BY <1>1, <1>4, <2>1, <2>2 DEF LatestIsMax
    <2> QED BY <2>1, <2>3, LatestCloseUnique
<1>6. \A d \in Days : d \in VisibleDays(openAvail, a, t) <=> d \in opens[a]
    <2> SUFFICES ASSUME NEW d \in Days
                 PROVE  openAvail[a][d] <= t <=> <<a, d>> \in TakenOpens
        BY <1>1 DEF VisibleDays, OpensAreTaken
    <2>1. ASSUME <<a, d>> \in TakenOpens PROVE openAvail[a][d] <= t
        BY <1>1, <2>1 DEF CutoffRespected
    <2>2. ASSUME openAvail[a][d] <= t PROVE <<a, d>> \in TakenOpens
        <3>1. <<a, d>> \in Observations(openAvail)
            BY <1>1, <1>2, <1>3, <2>2 DEF Observations
        <3>2. <<a, d>> \notin opensLeft
            BY <1>1, <1>2, <1>3, <2>2
        <3> QED BY <3>1, <3>2 DEF TakenOpens
    <2> QED BY <2>1, <2>2
<1> HIDE DEF a, t
<1>7. question.kind \in Kinds
    BY DEF TypeOK, Questions
<1> QED BY <1>1, <1>5, <1>6, <1>7
        DEF a, t, TableAnswer, AsOfAnswer, AsOfSessionClose, AsOfOpen, Kinds

-----------------------------------------------------------------------------
\* The inductive invariant is established by __init__ ...
LEMMA InitEstablishesIInv == Init => IInv
<1> SUFFICES ASSUME Init PROVE IInv
    OBVIOUS
<1>1. /\ 1 \in Assets /\ 1 \in Days /\ 1 \in Instants
      /\ NoDay = 0 /\ 0 \notin Days
      /\ \A d \in Days : CloseAt(d) > 1
    BY MarketAssumption, UniverseAssumption DEF Assets, Days, Instants, CloseAt, NoDay
<1>2. TypeOK
    BY <1>1 DEF Init, TypeOK, Questions, Kinds
<1>3. TakenCloses = {} /\ TakenOpens = {}
    BY DEF Init, TakenCloses, TakenOpens
<1>4. LatestIsMax /\ OpensAreTaken
    BY <1>3 DEF Init, LatestIsMax, OpensAreTaken
<1>5. CutoffRespected
    <2>1. \A a \in Assets, d \in Days : /\ closeAvail[a][d] > 0
                                        /\ openAvail[a][d] > 0
        BY AvailabilityInstants DEF Init, CloseAvailability, OpenAvailability
    <2> QED BY <1>3, <2>1 DEF Init, CutoffRespected, Observations
<1>6. Exact
    <2>1. \A d \in Days : ~ (closeAvail[1][d] <= 1)
        <3> SUFFICES ASSUME NEW d \in Days PROVE ~ (closeAvail[1][d] <= 1)
            OBVIOUS
        <3>1. closeAvail[1][d] >= CloseAt(d) /\ CloseAt(d) > 1
            BY <1>1 DEF Init, CloseAvailability
        <3>2. closeAvail[1][d] \in Nat /\ CloseAt(d) \in Nat
            <4>1. closeAvail \in [Assets -> [Days -> Nat]]
                BY AvailabilityInstants DEF Init, CloseAvailability
            <4>2. d \in Nat
                BY DEF Days
            <4> QED BY <1>1, <4>1, <4>2 DEF CloseAt
        <3> QED BY <3>1, <3>2
    <2>2. VisibleDays(closeAvail, 1, 1) = {}
        BY <2>1 DEF VisibleDays
    <2> QED BY <2>2 DEF Init, Exact, AsOfAnswer, AsOfLatestClose
<1> QED BY <1>2, <1>4, <1>5, <1>6 DEF IInv

\* ... and preserved by every step: taking in an arrival keeps the tables in
\* step with what has been taken, and an answer is read only when everything
\* available has been.
LEMMA StepPreservesIInv == IInv /\ [Next]_vars => IInv'
<1> SUFFICES ASSUME IInv, [Next]_vars PROVE IInv'
    OBVIOUS
<1> USE DEF IInv
<1>0. /\ Instants \subseteq Nat \ {0} /\ Never \in Nat
      /\ \A t \in Instants : t < Never
      /\ Days \subseteq Nat \ {0} /\ NoDay = 0
    BY MarketAssumption DEF Instants, Never, Days, NoDay
<1>f. closeAvail \in [Assets -> [Days -> Nat]] /\ openAvail \in [Assets -> [Days -> Nat]]
    BY AvailabilityInstants DEF TypeOK, CloseAvailability, OpenAvailability
<1>t. \A a \in Assets, d \in Days : closeAvail[a][d] \in Nat /\ openAvail[a][d] \in Nat
    BY <1>f
<1>1. ASSUME NEW q \in Questions, AskBackward(q) PROVE IInv'
    <2>1. TypeOK'
        BY <1>1, AsOfAnswerType DEF AskBackward, TypeOK, dataset, cursor
    <2>2. LatestIsMax' /\ OpensAreTaken' /\ CutoffRespected'
        BY <1>1 DEF AskBackward, dataset, cursor, LatestIsMax, OpensAreTaken,
                    CutoffRespected, TakenCloses, TakenOpens
    <2>3. Exact'
        BY <1>1 DEF AskBackward, Exact, AsOfAnswer, dataset
    <2> QED BY <2>1, <2>2, <2>3
<1>2. ASSUME NEW q \in Questions, Ask(q) PROVE IInv'
    <2>1. q.at \in Instants
        BY DEF Questions
    <2>2. TypeOK'
        BY <1>2, <2>1 DEF Ask, TypeOK, dataset
    <2>3. LatestIsMax' /\ OpensAreTaken'
        BY <1>2 DEF Ask, dataset, LatestIsMax, OpensAreTaken, TakenCloses, TakenOpens
    <2>4. highWater <= q.at /\ highWater \in Nat
        <3>1. highWater \in Nat /\ q.at \in Nat
            <4>1. highWater \in Instants \cup {0}
                BY DEF TypeOK
            <4>2. q.at \in Nat
                BY <1>0, <2>1
            <4>3. highWater \in Nat
                BY MarketAssumption, <4>1 DEF Instants
            <4> QED BY <4>2, <4>3
        <3>2. highWater = 0 \/ ~ (q.at < highWater)
            BY <1>2 DEF Ask, IsBackward
        <3> QED BY <3>1, <3>2
    <2>5. CutoffRespected'
        <3>1. \A o \in TakenCloses : closeAvail[o[1]][o[2]] <= q.at
            <4> SUFFICES ASSUME NEW o \in TakenCloses PROVE closeAvail[o[1]][o[2]] <= q.at
                OBVIOUS
            <4>1. closeAvail[o[1]][o[2]] \in Nat
                BY <1>t DEF TakenCloses, Observations
            <4>2. closeAvail[o[1]][o[2]] <= highWater
                BY DEF CutoffRespected
            <4>3. q.at \in Nat
                BY <1>0, <2>1
            <4> QED BY <2>4, <4>1, <4>2, <4>3
        <3>2. \A o \in TakenOpens : openAvail[o[1]][o[2]] <= q.at
            <4> SUFFICES ASSUME NEW o \in TakenOpens PROVE openAvail[o[1]][o[2]] <= q.at
                OBVIOUS
            <4>1. openAvail[o[1]][o[2]] \in Nat
                BY <1>t DEF TakenOpens, Observations
            <4>2. openAvail[o[1]][o[2]] <= highWater
                BY DEF CutoffRespected
            <4>3. q.at \in Nat
                BY <1>0, <2>1
            <4> QED BY <2>4, <4>1, <4>2, <4>3
        <3> QED BY <1>2, <3>1, <3>2 DEF Ask, dataset, CutoffRespected, TakenCloses, TakenOpens
    <2>6. Exact'
        BY <1>2 DEF Ask, Exact
    <2> QED BY <2>2, <2>3, <2>5, <2>6
<1>3. CASE TakeClose
    <2>1. PICK o \in NextArrivals(closesLeft, closeAvail) :
              /\ closesLeft' = closesLeft \ {o}
              /\ latest' = [latest EXCEPT ![o[1]] = Later(@, o[2])]
        BY <1>3 DEF TakeClose
    <2>2. PICK b \in Assets, c \in Days : o = <<b, c>>
        BY <2>1 DEF NextArrivals, TypeOK, Observations
    <2>3. /\ o \in closesLeft /\ closeAvail[b][c] <= highWater
          /\ o \in Observations(closeAvail)
        BY <2>1, <2>2 DEF NextArrivals, TypeOK
    <2>4. TakenCloses' = TakenCloses \cup {o} /\ UNCHANGED TakenOpens
        BY <1>3, <2>1, <2>3 DEF TakeClose, dataset, TakenCloses, TakenOpens
    <2>5. TypeOK'
        BY <1>3, <2>1, <2>2 DEF TakeClose, TypeOK, dataset, Later
    <2>6. LatestIsMax'
        <3> SUFFICES ASSUME NEW a \in Assets
                     PROVE  /\ latest'[a] = NoDay => \A d \in Days : <<a, d>> \notin TakenCloses'
                            /\ latest'[a] # NoDay =>
                                  /\ <<a, latest'[a]>> \in TakenCloses'
                                  /\ \A d \in Days : <<a, d>> \in TakenCloses' => d <= latest'[a]
            BY DEF LatestIsMax
        <3>1. latest[a] \in Days \cup {NoDay} /\ latest \in [Assets -> Days \cup {NoDay}]
            BY DEF TypeOK
        <3>2. CASE a # b
            BY <2>1, <2>2, <2>4, <3>1, <3>2 DEF LatestIsMax
        <3>3. CASE a = b
            <4>1. latest'[a] = Later(latest[a], c)
                BY <2>1, <2>2, <3>1, <3>3
            <4>2. \A d \in Days : <<a, d>> \in TakenCloses' <=> d = c \/ <<a, d>> \in TakenCloses
                BY <2>2, <2>4, <3>3
            <4>3. CASE latest[a] = NoDay
                <5>1. latest'[a] = c /\ \A d \in Days : <<a, d>> \notin TakenCloses
                    BY <4>1, <4>3 DEF Later, LatestIsMax
                <5> QED BY <1>0, <2>2, <4>2, <5>1
            <4>4. CASE latest[a] # NoDay
                <5>1. /\ latest[a] \in Days /\ <<a, latest[a]>> \in TakenCloses
                      /\ \A d \in Days : <<a, d>> \in TakenCloses => d <= latest[a]
                    BY <3>1, <4>4 DEF LatestIsMax
                <5>2. /\ latest'[a] \in {c, latest[a]} /\ latest'[a] # NoDay
                      /\ c <= latest'[a] /\ latest[a] <= latest'[a]
                    <6>1. c \in Nat \ {0} /\ latest[a] \in Nat \ {0}
                        BY <1>0, <2>2, <5>1
                    <6>2. latest'[a] = IF c > latest[a] THEN c ELSE latest[a]
                        BY <4>1, <4>4 DEF Later
                    <6> QED BY <1>0, <6>1, <6>2
                <5>3. <<a, latest'[a]>> \in TakenCloses'
                    BY <2>2, <4>2, <5>1, <5>2
                <5>4. ASSUME NEW d \in Days, <<a, d>> \in TakenCloses' PROVE d <= latest'[a]
                    <6>1. d \in Nat /\ latest[a] \in Nat /\ c \in Nat /\ latest'[a] \in Nat
                        BY <1>0, <2>2, <5>1, <5>2
                    <6>2. d = c \/ d <= latest[a]
                        BY <4>2, <5>1, <5>4
                    <6> QED BY <5>2, <6>1, <6>2
                <5> QED BY <5>2, <5>3, <5>4
            <4> QED BY <4>3, <4>4
        <3> QED BY <3>2, <3>3
    <2>7. OpensAreTaken'
        BY <1>3, <2>4 DEF TakeClose, OpensAreTaken
    <2>8. CutoffRespected'
        BY <1>3, <2>1, <2>2, <2>3, <2>4 DEF TakeClose, CutoffRespected, dataset
    <2>9. Exact'
        BY <1>3 DEF TakeClose, Exact
    <2> QED BY <2>5, <2>6, <2>7, <2>8, <2>9
<1>4. CASE ClosesTaken
    <2>1. TypeOK' /\ LatestIsMax' /\ OpensAreTaken' /\ Exact'
        BY <1>4 DEF ClosesTaken, TypeOK, LatestIsMax, OpensAreTaken, TakenCloses,
                    TakenOpens, Exact, dataset, cursor
    <2>2. \A o \in closesLeft : closeAvail[o[1]][o[2]] > highWater
        <3>1. closesLeft \subseteq Assets \X Days /\ highWater \in Nat
            BY <1>0 DEF TypeOK, Observations
        <3> QED BY <1>4, <1>f, <3>1, NothingLeftBelow DEF ClosesTaken
    <2> QED BY <1>4, <2>1, <2>2 DEF ClosesTaken, CutoffRespected, TakenCloses, TakenOpens,
                                   dataset, cursor
<1>5. CASE TakeOpen
    <2>1. PICK o \in NextArrivals(opensLeft, openAvail) :
              /\ opensLeft' = opensLeft \ {o}
              /\ opens' = [opens EXCEPT ![o[1]] = @ \cup {o[2]}]
        BY <1>5 DEF TakeOpen
    <2>2. PICK b \in Assets, c \in Days : o = <<b, c>>
        BY <2>1 DEF NextArrivals, TypeOK, Observations
    <2>3. /\ o \in opensLeft /\ openAvail[b][c] <= highWater
          /\ o \in Observations(openAvail)
        BY <2>1, <2>2 DEF NextArrivals, TypeOK
    <2>4. TakenOpens' = TakenOpens \cup {o} /\ UNCHANGED TakenCloses
        BY <1>5, <2>1, <2>3 DEF TakeOpen, dataset, TakenCloses, TakenOpens
    <2>5. TypeOK'
        <3>1. opens' \in [Assets -> SUBSET Days] /\ opensLeft' \subseteq opensLeft
            BY <2>1, <2>2 DEF TypeOK
        <3>2. UNCHANGED <<dataset, pc, question, answer, highWater, latest, closesLeft>>
            BY <1>5 DEF TakeOpen
        <3> QED BY <3>1, <3>2 DEF TypeOK, dataset
    <2>6. LatestIsMax'
        BY <1>5, <2>4 DEF TakeOpen, LatestIsMax
    <2>7. OpensAreTaken'
        BY <2>1, <2>2, <2>4 DEF OpensAreTaken, TypeOK
    <2>8. CutoffRespected'
        BY <1>5, <2>1, <2>2, <2>3, <2>4 DEF TakeOpen, CutoffRespected, dataset
    <2>9. Exact'
        BY <1>5 DEF TakeOpen, Exact
    <2> QED BY <2>5, <2>6, <2>7, <2>8, <2>9
<1>6. CASE Answer
    <2>1. \A o \in opensLeft : openAvail[o[1]][o[2]] > highWater
        <3>1. opensLeft \subseteq Assets \X Days /\ highWater \in Nat
            BY <1>0 DEF TypeOK, Observations
        <3> QED BY <1>6, <1>f, <3>1, NothingLeftBelow DEF Answer
    <2>2. answer' = AsOfAnswer(question)
        BY <1>6, <2>1, TablesAreExact DEF Answer
    <2>3. TypeOK'
        BY <1>6, <2>2, AsOfAnswerType DEF Answer, TypeOK, dataset, cursor
    <2>4. LatestIsMax' /\ OpensAreTaken'
        BY <1>6 DEF Answer, LatestIsMax, OpensAreTaken, TakenCloses, TakenOpens, dataset, cursor
    <2>5. CutoffRespected'
        BY <1>6, <2>1 DEF Answer, CutoffRespected, TakenCloses, TakenOpens, dataset, cursor
    <2>6. Exact'
        BY <1>6, <2>2 DEF Answer, Exact, AsOfAnswer, dataset, cursor
    <2> QED BY <2>3, <2>4, <2>5, <2>6
<1>7. CASE UNCHANGED vars
    BY <1>7 DEF vars, dataset, cursor, TypeOK, LatestIsMax, OpensAreTaken, TakenCloses,
                TakenOpens, CutoffRespected, Exact, AsOfAnswer
<1> QED BY <1>1, <1>2, <1>3, <1>4, <1>5, <1>6, <1>7 DEF Next

-----------------------------------------------------------------------------
\* The cursor's bookkeeping is an invariant of every run of questions.
THEOREM CursorInvariant == Spec => []IInv
BY InitEstablishesIInv, StepPreservesIInv, PTL DEF Spec

\* Exactness: every answer of MarketDataCursor, backward questions included, is
\* the answer of a fresh as-of view at the instant of the question.
THEOREM CursorIsExact == Spec => []Exact
<1>1. IInv => Exact
    BY DEF IInv
<1> QED BY <1>1, CursorInvariant, PTL

\* No look-ahead: no price is returned before the instant it becomes available.
THEOREM CursorNeverLooksAhead == Spec => []NoLookAhead
<1>1. IInv => NoLookAhead
    <2> SUFFICES ASSUME TypeOK, Exact, pc = "idle", answer # NoDay
                 PROVE  /\ question.kind = "open_price" =>
                              openAvail[question.asset][answer] <= question.at
                        /\ question.kind # "open_price" =>
                              closeAvail[question.asset][answer] <= question.at
        BY DEF IInv, NoLookAhead
    <2>1. answer = AsOfAnswer(question) /\ question.kind \in Kinds
        BY DEF Exact, TypeOK, Questions
    <2>2. LET d == AsOfLatestClose(closeAvail, question.asset, question.at)
          IN  d # NoDay => closeAvail[question.asset][d] <= question.at
        BY LatestCloseIsMax DEF VisibleDays
    <2>3. CASE question.kind = "open_price"
        BY <2>1, <2>3 DEF AsOfAnswer, AsOfOpen, VisibleDays
    <2>4. CASE question.kind = "latest_close"
        BY <2>1, <2>2, <2>4 DEF AsOfAnswer
    <2>5. CASE question.kind = "session_close"
        BY <2>1, <2>2, <2>5 DEF AsOfAnswer, AsOfSessionClose
    <2> QED BY <2>1, <2>3, <2>4, <2>5 DEF Kinds
<1> QED BY <1>1, CursorInvariant, PTL

-----------------------------------------------------------------------------
(* The memo.                                                               *)

\* The sessions whose whole window is visible at t, and the point of each.
Complete(node, a, t) ==
    {d \in SessionsAt(t) : /\ d >= Window[node]
                           /\ WindowOf(d, Window[node]) \subseteq VisibleDays(closeAvail, a, t)}

Point(node, a, d) ==
    <<SumOf([i \in 1 .. Window[node] |-> CloseOf[a][d - Window[node] + i]]), 1 * Window[node]>>

\* What a memo may hold at t.
Sound(memo, node, t) ==
    \A a \in Assets :
        /\ DOMAIN memo[node][a] \subseteq Complete(node, a, t)
        /\ \A d \in DOMAIN memo[node][a] : memo[node][a][d] = Point(node, a, d)

MemoInv ==
    /\ closeAvail \in CloseAvailability
    /\ memoHighWater \in Instants \cup {0}
    /\ \A node \in Averages : Sound(slots, node, memoHighWater)

-----------------------------------------------------------------------------
\* Visibility only grows.
LEMMA VisibilityGrows ==
    ASSUME closeAvail \in CloseAvailability, NEW s \in Instants \cup {0}, NEW t \in Instants,
           t >= s, NEW a \in Assets, NEW node \in Averages
    PROVE  Complete(node, a, s) \subseteq Complete(node, a, t)
<1>1. s \in Int /\ t \in Int
    BY MarketAssumption DEF Instants
<1>2. \A d \in Days : closeAvail[a][d] \in Int /\ CloseAt(d) \in Int
    BY MarketAssumption DEF CloseAvailability, Instants, Never, Days, CloseAt
<1>3. SessionsAt(s) \subseteq SessionsAt(t)
    BY <1>1, <1>2 DEF SessionsAt, SessionsClosedBy
<1>4. VisibleDays(closeAvail, a, s) \subseteq VisibleDays(closeAvail, a, t)
    BY <1>1, <1>2 DEF VisibleDays
<1> QED BY <1>3, <1>4 DEF Complete

\* The mean over a visible window is the point, whenever it is computed.
LEMMA MeanIsPoint ==
    ASSUME NEW t, NEW a \in Assets, NEW node \in Averages, NEW d \in Complete(node, a, t)
    PROVE  Mean(Prices(t)[a], d, Window[node]) = Point(node, a, d)
<1> DEFINE W == WindowOf(d, Window[node])
           visible == VisibleDays(closeAvail, a, t)
           history == Prices(t)[a]
<1>1. W \subseteq visible
    BY DEF Complete
<1>2. history = [e \in visible |-> <<CloseOf[a][e], 1>>]
    BY DEF Prices, Price, FixedList
<1>3. d \in W
    <2>1. d \in Int /\ Window[node] \in Nat \ {0}
        BY GraphAssumption DEF Complete, SessionsAt, SessionsClosedBy, Days
    <2> QED BY <2>1 DEF WindowOf
<1>4. [i \in 1 .. Window[node] |-> history[d - Window[node] + i][1]]
          = [i \in 1 .. Window[node] |-> CloseOf[a][d - Window[node] + i]]
    <2>1. d \in Int /\ Window[node] \in Nat \ {0}
        BY GraphAssumption DEF Complete, SessionsAt, SessionsClosedBy, Days
    <2>2. \A i \in 1 .. Window[node] : d - Window[node] + i \in W
        BY <2>1 DEF WindowOf
    <2>3. \A e \in W : history[e][1] = CloseOf[a][e]
        BY <1>1, <1>2
    <2> HIDE DEF history, W
    <2> QED BY <2>2, <2>3
<1>5. history[d][2] = 1
    BY <1>1, <1>2, <1>3
<1> HIDE DEF history, W, visible
<1> QED BY <1>4, <1>5 DEF Mean, Point, history

\* Whatever a sound memo holds, the average is the same.
LEMMA AverageIsTheSame ==
    ASSUME NEW memo, NEW node \in Averages, NEW t, Sound(memo, node, t)
    PROVE  Averaged(node, memo, t)
              = [a \in Assets |-> [d \in Complete(node, a, t) |-> Point(node, a, d)]]
<1> DEFINE points(a) ==
        [d \in {d \in SessionsAt(t) : /\ d >= Window[node]
                                      /\ \/ d \in DOMAIN memo[node][a]
                                         \/ WindowOf(d, Window[node]) \subseteq DOMAIN Prices(t)[a]} |->
            IF d \in DOMAIN memo[node][a] THEN memo[node][a][d]
            ELSE Mean(Prices(t)[a], d, Window[node])]
<1>1. DOMAIN Prices(t) = Assets
    BY DEF Prices, Price, FixedList
<1>2. \A a \in Assets : DOMAIN Prices(t)[a] = VisibleDays(closeAvail, a, t)
    BY DEF Prices, Price, FixedList
<1>3. Averaged(node, memo, t) = [a \in Assets |-> points(a)]
    BY <1>1 DEF Averaged, MovingAverage
<1>4. ASSUME NEW a \in Assets
      PROVE  points(a) = [d \in Complete(node, a, t) |-> Point(node, a, d)]
    <2>1. {d \in SessionsAt(t) : /\ d >= Window[node]
                                 /\ \/ d \in DOMAIN memo[node][a]
                                    \/ WindowOf(d, Window[node]) \subseteq DOMAIN Prices(t)[a]}
            = Complete(node, a, t)
        BY <1>2 DEF Sound, Complete
    <2>2. \A d \in Complete(node, a, t) :
              (IF d \in DOMAIN memo[node][a] THEN memo[node][a][d]
               ELSE Mean(Prices(t)[a], d, Window[node])) = Point(node, a, d)
        BY MeanIsPoint DEF Sound
    <2> QED BY <2>1, <2>2
<1> HIDE DEF points
<1> QED BY <1>3, <1>4

LEMMA NoSlotsSound ==
    ASSUME NEW node \in Averages, NEW t
    PROVE  Sound(NoSlots, node, t)
<1>1. \A a \in Assets : DOMAIN NoSlots[node][a] = {}
    BY DEF NoSlots
<1> QED BY <1>1 DEF Sound

-----------------------------------------------------------------------------
\* The memo holds only points that every later evaluation would compute.
LEMMA MemoInvInitially == MemoInit => MemoInv
<1> SUFFICES ASSUME MemoInit PROVE MemoInv
    OBVIOUS
<1>1. closeAvail \in CloseAvailability /\ memoHighWater = 0 /\ slots = NoSlots
    BY DEF MemoInit, Init
<1> QED BY <1>1, NoSlotsSound DEF MemoInv

LEMMA EvaluatePreserves ==
    ASSUME MemoInv, NEW t \in Instants, Evaluate(t)
    PROVE  MemoInv'
<1>1. closeAvail' = closeAvail /\ memoHighWater' = t
    BY DEF Evaluate, vars, dataset
<1>2. t >= memoHighWater
    <2>1. t \in Nat /\ t >= 0
        BY MarketAssumption DEF Instants
    <2> QED BY <2>1 DEF Evaluate, AssertMonotonic
<1>3. \A node \in Averages : Sound(slots, node, t)
    <2> SUFFICES ASSUME NEW node \in Averages, NEW a \in Assets
                 PROVE  /\ DOMAIN slots[node][a] \subseteq Complete(node, a, t)
                        /\ \A d \in DOMAIN slots[node][a] : slots[node][a][d] = Point(node, a, d)
        BY DEF Sound
    <2>1. Complete(node, a, memoHighWater) \subseteq Complete(node, a, t)
        BY <1>2, VisibilityGrows DEF MemoInv
    <2> QED BY <2>1 DEF MemoInv, Sound
<1>4. ASSUME NEW node \in Averages, NEW a \in Assets
      PROVE  /\ DOMAIN slots'[node][a] \subseteq Complete(node, a, t)
             /\ \A d \in DOMAIN slots'[node][a] : slots'[node][a][d] = Point(node, a, d)
    <2> DEFINE points == Averaged(node, slots, t)[a]
               known  == slots[node][a]
    <2>1. slots'[node][a] = [d \in DOMAIN known \cup DOMAIN points |->
                                IF d \in DOMAIN known THEN known[d] ELSE points[d]]
        BY DEF Evaluate, Remembered
    <2>2. points = [d \in Complete(node, a, t) |-> Point(node, a, d)]
        BY <1>3, AverageIsTheSame
    <2>3. /\ DOMAIN known \subseteq Complete(node, a, t)
          /\ \A d \in DOMAIN known : known[d] = Point(node, a, d)
        BY <1>3 DEF Sound
    <2> QED BY <2>1, <2>2, <2>3
<1>5. \A node \in Averages, a \in Assets : Complete(node, a, t)' = Complete(node, a, t)
    BY <1>1 DEF Complete, SessionsAt, SessionsClosedBy, VisibleDays
<1>6. \A node \in Averages : Sound(slots, node, memoHighWater)'
    BY <1>1, <1>4, <1>5 DEF Sound, Complete, Point, SessionsAt, SessionsClosedBy, VisibleDays
<1> QED BY <1>1, <1>6 DEF MemoInv

LEMMA MemoInvStep == MemoInv /\ [MemoNext]_memoVars => MemoInv'
<1> SUFFICES ASSUME MemoInv, [MemoNext]_memoVars PROVE MemoInv'
    OBVIOUS
<1>1. CASE \E t \in Instants : Evaluate(t)
    BY <1>1, EvaluatePreserves
<1>2. CASE EndEvaluations
    <2>1. closeAvail' = closeAvail /\ memoHighWater' = 0 /\ slots' = NoSlots
        BY <1>2 DEF EndEvaluations, vars, dataset
    <2>2. \A node \in Averages : Sound(slots, node, memoHighWater)'
        <3> SUFFICES ASSUME NEW node \in Averages PROVE Sound(slots, node, memoHighWater)'
            OBVIOUS
        <3>1. \A a \in Assets : DOMAIN slots'[node][a] = {}
            BY <2>1 DEF NoSlots
        <3> QED BY <3>1 DEF Sound
    <2> QED BY <2>1, <2>2 DEF MemoInv
<1>3. CASE closeAvail' = closeAvail /\ UNCHANGED <<evaluating, memoHighWater, slots>>
    BY <1>3 DEF MemoInv, Sound, Complete, Point, SessionsAt, SessionsClosedBy, VisibleDays
<1>4. CASE AskCursor
    <2>1. closeAvail' = closeAvail
        BY <1>4 DEF AskCursor, Next, AskBackward, Ask, TakeClose, ClosesTaken, TakeOpen, Answer,
                    dataset, cursor
    <2> QED BY <1>3, <1>4, <2>1 DEF AskCursor
<1>5. CASE UNCHANGED memoVars
    BY <1>3, <1>5 DEF memoVars, vars, dataset
<1> QED BY <1>1, <1>2, <1>4, <1>5 DEF MemoNext

LEMMA MemoInvIsTransparent == MemoInv => MemoIsTransparent
<1> SUFFICES ASSUME MemoInv, NEW t \in Instants, NEW node \in Averages, t >= memoHighWater
             PROVE  Averaged(node, slots, t) = Averaged(node, NoSlots, t)
    BY DEF MemoIsTransparent
<1>1. Sound(slots, node, t)
    <2> SUFFICES ASSUME NEW a \in Assets
                 PROVE  /\ DOMAIN slots[node][a] \subseteq Complete(node, a, t)
                        /\ \A d \in DOMAIN slots[node][a] : slots[node][a][d] = Point(node, a, d)
        BY DEF Sound
    <2>1. Complete(node, a, memoHighWater) \subseteq Complete(node, a, t)
        BY VisibilityGrows DEF MemoInv
    <2> QED BY <2>1 DEF MemoInv, Sound
<1>2. Averaged(node, slots, t)
        = [a \in Assets |-> [d \in Complete(node, a, t) |-> Point(node, a, d)]]
    BY <1>1, AverageIsTheSame
<1>3. Averaged(node, NoSlots, t)
        = [a \in Assets |-> [d \in Complete(node, a, t) |-> Point(node, a, d)]]
    BY NoSlotsSound, AverageIsTheSame
<1> QED BY <1>2, <1>3

\* EvaluationMemo is speed-only: at every instant the memo still accepts, the
\* moving averages with it are the moving averages without it.
THEOREM MemoNeverShows == MemoSpec => []MemoIsTransparent
<1>1. MemoInit => MemoInv
    BY MemoInvInitially
<1>2. MemoInv /\ [MemoNext]_memoVars => MemoInv'
    BY MemoInvStep
<1>3. MemoInv => MemoIsTransparent
    BY MemoInvIsTransparent
<1> QED BY <1>1, <1>2, <1>3, PTL DEF MemoSpec

-----------------------------------------------------------------------------
(* The waterfall.                                                          *)

Distributed(x, a, b) ==
    /\ x * (a + b) = x * a + x * b
    /\ x * a \in Int /\ x * b \in Int

LEMMA Distributes ==
    ASSUME NEW x \in Int, NEW a \in Int, NEW b \in Int
    PROVE  Distributed(x, a, b)
BY DEF Distributed

\* Sums are linear.
Combines(s, x, u, y, v) ==
    /\ Len(u) = Len(s) /\ Len(v) = Len(s)
    /\ \A i \in 1 .. Len(s) : s[i] = x * u[i] + y * v[i]

LEMMA SumsAreLinear ==
    ASSUME NEW s \in Seq(Int), NEW u \in Seq(Int), NEW v \in Seq(Int),
           NEW x \in Int, NEW y \in Int, Combines(s, x, u, y, v)
    PROVE  SumOf(s) = x * SumOf(u) + y * SumOf(v)
<1> DEFINE T == {k \in 0 .. Len(s) : Sums(s)[k] = x * Sums(u)[k] + y * Sums(v)[k]}
<1>1. /\ Len(s) \in Nat /\ Len(u) = Len(s) /\ Len(v) = Len(s)
      /\ \A i \in 1 .. Len(s) : u[i] \in Int /\ v[i] \in Int /\ s[i] = x * u[i] + y * v[i]
    BY DEF Combines
<1>2. 0 \in T
    <2>1. Sums(s)[0] = 0 /\ Sums(u)[0] = 0 /\ Sums(v)[0] = 0
        BY SumsRecur
    <2> QED BY <1>1, <2>1
<1>3. ASSUME NEW k \in 1 .. Len(s), k - 1 \in T PROVE k \in T
    <2> DEFINE su == Sums(u)[k - 1]
               sv == Sums(v)[k - 1]
    <2>1. /\ Sums(s)[k] = Sums(s)[k - 1] + s[k]
          /\ Sums(u)[k] = su + u[k] /\ Sums(v)[k] = sv + v[k]
        BY <1>1, SumsRecur
    <2>2. su \in Int /\ sv \in Int
        BY <1>1, SumsRecur, k - 1 \in 0 .. Len(s)
    <2>3. Sums(s)[k - 1] = x * su + y * sv
        BY <1>3
    <2>4. s[k] = x * u[k] + y * v[k] /\ u[k] \in Int /\ v[k] \in Int
        BY <1>1
    <2> HIDE DEF su, sv
    <2>5. Distributed(x, su, u[k]) /\ Distributed(y, sv, v[k])
        BY <2>2, <2>4, Distributes
    <2>6. /\ x * su \in Int /\ y * sv \in Int /\ x * u[k] \in Int /\ y * v[k] \in Int
        BY <2>5 DEF Distributed
    <2>7. x * Sums(u)[k] = x * su + x * u[k] /\ y * Sums(v)[k] = y * sv + y * v[k]
        BY <2>1, <2>5 DEF Distributed
    <2>8. Sums(s)[k] = (x * su + y * sv) + (x * u[k] + y * v[k])
        BY <2>1, <2>3, <2>4
    <2>9. Sums(s)[k] = x * Sums(u)[k] + y * Sums(v)[k]
        <3> DEFINE a == x * su
                   b == y * sv
                   c == x * u[k]
                   d == y * v[k]
        <3> HIDE DEF a, b, c, d
        <3>1. a \in Int /\ b \in Int /\ c \in Int /\ d \in Int
            BY <2>6 DEF a, b, c, d
        <3>2. /\ Sums(s)[k] = (a + b) + (c + d)
              /\ x * Sums(u)[k] = a + c /\ y * Sums(v)[k] = b + d
            BY <2>7, <2>8 DEF a, b, c, d
        <3> QED BY <3>1, <3>2
    <2> QED BY <1>1, <2>9
<1> HIDE DEF T
<1>4. \A k \in 0 .. Len(s) : k \in T
    BY <1>1, <1>2, <1>3, InductionTo
<1>5. Len(s) \in 0 .. Len(s)
    BY <1>1
<1> QED BY <1>1, <1>4, <1>5 DEF T, SumOf

\* No amount is larger than the sum of amounts that are not negative.
LEMMA SumCoversEach ==
    ASSUME NEW s \in Seq(Nat), NEW i \in 1 .. Len(s)
    PROVE  s[i] <= SumOf(s)
<1> DEFINE t == [s EXCEPT ![i] = 0]
<1>1. /\ t \in Seq(Nat) /\ Len(t) = Len(s) /\ t[i] = 0 /\ s[i] \in Nat
      /\ \A j \in 1 .. Len(s) : j # i => t[j] = s[j]
      /\ s \in Seq(Int) /\ t \in Seq(Int)
    OBVIOUS
<1> HIDE DEF t
<1>2. SumOf(t) = SumOf(s) + (t[i] - s[i])
    BY <1>1, SumOfChanged
<1>3. SumOf(t) \in Nat /\ SumOf(s) \in Nat
    BY <1>1, SumOfNaturals
<1> QED BY <1>1, <1>2, <1>3

\* A sum over assets is one over a list.
Spread(f, S) == [a \in Assets |-> IF a \in S THEN f[a] ELSE 0]

LEMMA SpreadIsAList ==
    ASSUME NEW S \in SUBSET Assets, NEW f, \A a \in S : f[a] \in Nat
    PROVE  /\ Spread(f, S) \in Seq(Nat) /\ Spread(f, S) \in Seq(Int)
           /\ Len(Spread(f, S)) = NumAssets /\ NumAssets \in Nat
           /\ \A a \in Assets : Spread(f, S)[a] = IF a \in S THEN f[a] ELSE 0
           /\ SumOver(f, S) = SumOf(Spread(f, S)) /\ SumOver(f, S) \in Nat
<1> DEFINE s == Spread(f, S)
<1>1. NumAssets \in Nat /\ Assets = 1 .. NumAssets
    BY UniverseAssumption DEF Assets
<1>2. s \in [1 .. NumAssets -> Nat] /\ \A a \in Assets : s[a] = IF a \in S THEN f[a] ELSE 0
    BY <1>1 DEF Spread
<1> HIDE DEF s
<1>3. s \in Seq(Nat) /\ Len(s) = NumAssets
    BY <1>1, <1>2
<1>4. s \in Seq(Int)
    BY <1>1, <1>2
<1>5. SumOver(f, S) = SumOf(s)
    BY DEF SumOver, Spread, s
<1>6. SumOf(s) \in Nat
    BY <1>3, SumOfNaturals
<1> QED BY <1>1, <1>2, <1>3, <1>4, <1>5, <1>6 DEF s

LEMMA SumsOverAreLinear ==
    ASSUME NEW S \in SUBSET Assets, NEW U \in SUBSET S, NEW V \in SUBSET S,
           NEW f, NEW g, NEW h, NEW x \in Nat, NEW y \in Nat,
           \A a \in S : f[a] \in Nat, \A a \in U : g[a] \in Nat, \A a \in V : h[a] \in Nat,
           \A a \in S : f[a] = x * (IF a \in U THEN g[a] ELSE 0) + y * (IF a \in V THEN h[a] ELSE 0)
    PROVE  SumOver(f, S) = x * SumOver(g, U) + y * SumOver(h, V)
<1> DEFINE s == Spread(f, S)
           u == Spread(g, U)
           v == Spread(h, V)
<1>1. U \in SUBSET Assets /\ V \in SUBSET Assets
    OBVIOUS
<1>2. /\ s \in Seq(Int) /\ u \in Seq(Int) /\ v \in Seq(Int)
      /\ Len(u) = Len(s) /\ Len(v) = Len(s) /\ 1 .. Len(s) = Assets
      /\ SumOver(f, S) = SumOf(s) /\ SumOver(g, U) = SumOf(u) /\ SumOver(h, V) = SumOf(v)
    BY <1>1, SpreadIsAList DEF Assets
<1>3. ASSUME NEW i \in Assets PROVE s[i] = x * u[i] + y * v[i]
    <2>1. s[i] = IF i \in S THEN f[i] ELSE 0
        BY DEF Spread
    <2>2. u[i] = IF i \in U THEN g[i] ELSE 0
        BY DEF Spread
    <2>3. v[i] = IF i \in V THEN h[i] ELSE 0
        BY DEF Spread
    <2> HIDE DEF s, u, v
    <2>4. CASE i \in S
        BY <2>1, <2>2, <2>3, <2>4
    <2>5. CASE i \notin S
        <3>1. s[i] = 0 /\ u[i] = 0 /\ v[i] = 0
            BY <2>1, <2>2, <2>3, <2>5
        <3> QED BY <3>1
    <2> QED BY <2>4, <2>5
<1>4. x \in Int /\ y \in Int
    OBVIOUS
<1> HIDE DEF s, u, v
<1>5. Combines(s, x, u, y, v)
    BY <1>2, <1>3 DEF Combines
<1>6. SumOf(s) = x * SumOf(u) + y * SumOf(v)
    BY <1>2, <1>4, <1>5, SumsAreLinear
<1> QED BY <1>2, <1>6

LEMMA SumOverCovers ==
    ASSUME NEW S \in SUBSET Assets, NEW f, \A a \in S : f[a] \in Nat, NEW a \in S
    PROVE  f[a] <= SumOver(f, S)
<1> DEFINE s == Spread(f, S)
<1>1. s \in Seq(Nat) /\ 1 .. Len(s) = Assets /\ s[a] = f[a] /\ SumOver(f, S) = SumOf(s)
    BY SpreadIsAList DEF Assets
<1> HIDE DEF s
<1>2. s[a] <= SumOf(s)
    BY <1>1, SumCoversEach
<1> QED BY <1>1, <1>2

-----------------------------------------------------------------------------
(* One pass.                                                               *)

\* The states of the waterfall over some assets.
States(A) == [whole : Nat, limit : Nat, capped : SUBSET A, part : [A -> Nat]]

OverOf(w) == {a \in DOMAIN w.part : w.part[a] > w.limit}

CutOf(w) == [a \in DOMAIN w.part |-> IF a \in OverOf(w) THEN w.limit ELSE w.part[a]]

ReceivingOf(w) ==
    {a \in DOMAIN w.part \ (w.capped \cup OverOf(w)) : 0 < CutOf(w)[a] /\ CutOf(w)[a] < w.limit}

ExcessOf(w) == SumOver([a \in OverOf(w) |-> w.part[a] - w.limit], OverOf(w))

\* A pass caps, and what it cuts goes to nobody ...
Stops(A, w, r) ==
    /\ ReceivingOf(w) = {}
    /\ r.whole = w.whole /\ r.limit = w.limit /\ r.part = CutOf(w)
    /\ SumOver(r.part, A) <= SumOver(w.part, A)

\* ... or to those below the cap, by their weights.
Shares(A, w, r, total, excess) ==
    /\ r.whole = w.whole * total /\ r.limit = w.limit * total
    /\ \A a \in A : r.part[a] = CutOf(w)[a] * total
                                 + (IF a \in ReceivingOf(w) THEN CutOf(w)[a] * excess ELSE 0)
    /\ SumOver(r.part, A) = total * SumOver(w.part, A)

Passes(A, w, r) ==
    /\ r \in States(A) /\ r.capped = w.capped \cup OverOf(w)
    /\ Stops(A, w, r) \/ \E total \in Nat \ {0}, excess \in Nat : Shares(A, w, r, total, excess)

Product(x, y) == x * y \in Nat

LEMMA ProductIsNatural ==
    ASSUME NEW x \in Nat, NEW y \in Nat
    PROVE  Product(x, y)
BY DEF Product

\* What the pieces of a pass are.
LEMMA PassPieces ==
    ASSUME NEW A \in SUBSET Assets, NEW w \in States(A)
    PROVE  /\ OverOf(w) \in SUBSET A /\ ReceivingOf(w) \in SUBSET A
           /\ CutOf(w) \in [A -> Nat]
           /\ \A a \in A : /\ CutOf(w)[a] = IF w.part[a] > w.limit THEN w.limit ELSE w.part[a]
                           /\ CutOf(w)[a] <= w.limit
           /\ \A a \in ReceivingOf(w) : w.part[a] = CutOf(w)[a] /\ 0 < w.part[a] /\ w.part[a] < w.limit
           /\ ExcessOf(w) \in Nat /\ SumOver(CutOf(w), ReceivingOf(w)) \in Nat
           /\ SumOver(w.part, A) \in Nat /\ SumOver(CutOf(w), A) \in Nat
           /\ SumOver(w.part, A) = SumOver(CutOf(w), A) + ExcessOf(w)
<1>1. /\ w.part \in [A -> Nat] /\ w.limit \in Nat /\ w.capped \in SUBSET A /\ DOMAIN w.part = A
      /\ \A a \in A : w.part[a] \in Nat
    BY DEF States
<1>2. OverOf(w) \in SUBSET A /\ ReceivingOf(w) \in SUBSET A
    BY <1>1 DEF OverOf, ReceivingOf
<1>3. /\ CutOf(w) \in [A -> Nat]
      /\ \A a \in A : /\ CutOf(w)[a] = IF w.part[a] > w.limit THEN w.limit ELSE w.part[a]
                      /\ CutOf(w)[a] <= w.limit /\ CutOf(w)[a] \in Nat
    BY <1>1 DEF CutOf, OverOf
<1>4. \A a \in ReceivingOf(w) : w.part[a] = CutOf(w)[a] /\ 0 < w.part[a] /\ w.part[a] < w.limit
    BY <1>1, <1>2, <1>3 DEF ReceivingOf
<1> DEFINE x == [a \in OverOf(w) |-> w.part[a] - w.limit]
<1>5. \A a \in OverOf(w) : x[a] \in Nat /\ x[a] = w.part[a] - w.limit
    BY <1>1 DEF OverOf
<1>6. ExcessOf(w) = SumOver(x, OverOf(w))
    BY DEF ExcessOf
<1> HIDE DEF x
<1>7. ExcessOf(w) \in Nat
    <2>1. OverOf(w) \in SUBSET Assets
        BY <1>2
    <2>2. \A a \in OverOf(w) : x[a] \in Nat
        BY <1>5
    <2>3. SumOver(x, OverOf(w)) \in Nat
        BY <2>1, <2>2, SpreadIsAList
    <2> QED BY <1>6, <2>3
<1>8. SumOver(CutOf(w), ReceivingOf(w)) \in Nat
    <2>1. ReceivingOf(w) \in SUBSET Assets /\ \A a \in ReceivingOf(w) : CutOf(w)[a] \in Nat
        BY <1>2, <1>3
    <2> QED BY <2>1, SpreadIsAList
<1>9. SumOver(w.part, A) \in Nat /\ SumOver(CutOf(w), A) \in Nat
    BY <1>1, <1>3, SpreadIsAList
<1>10. SumOver(w.part, A) = 1 * SumOver(CutOf(w), A) + 1 * SumOver(x, OverOf(w))
    <2>1. ASSUME NEW a \in A
          PROVE  w.part[a] = 1 * (IF a \in A THEN CutOf(w)[a] ELSE 0)
                                + 1 * (IF a \in OverOf(w) THEN x[a] ELSE 0)
        <3>1. a \in OverOf(w) <=> w.part[a] > w.limit
            BY <1>1 DEF OverOf
        <3> QED BY <1>1, <1>3, <1>5, <3>1
    <2>2. A \in SUBSET A /\ 1 \in Nat
        OBVIOUS
    <2> QED BY <1>1, <1>2, <1>3, <1>5, <2>1, <2>2, SumsOverAreLinear
<1>11. SumOver(w.part, A) = SumOver(CutOf(w), A) + ExcessOf(w)
    BY <1>6, <1>7, <1>9, <1>10
<1> QED BY <1>2, <1>3, <1>4, <1>7, <1>8, <1>9, <1>11

LEMMA PassOf ==
    ASSUME NEW A \in SUBSET Assets, NEW w \in States(A)
    PROVE  /\ OverOf(w) = {} => CappedPass(w) = w
           /\ OverOf(w) # {} => Passes(A, w, CappedPass(w))
<1> DEFINE cut == CutOf(w)
           receiving == ReceivingOf(w)
           total == SumOver(cut, receiving)
           excess == ExcessOf(w)
           capped == w.capped \cup OverOf(w)
           stopped == [w EXCEPT !.part = cut, !.capped = capped]
           shared == [whole  |-> w.whole * total, limit |-> w.limit * total, capped |-> capped,
                      part   |-> [a \in A |->
                                    cut[a] * (total + (IF a \in receiving THEN excess ELSE 0))]]
<1>1. CappedPass(w) = IF OverOf(w) = {} THEN w ELSE IF total = 0 THEN stopped ELSE shared
    BY DEF CappedPass, OverOf, CutOf, ReceivingOf, ExcessOf, States
<1>2. /\ OverOf(w) \in SUBSET A /\ receiving \in SUBSET A /\ cut \in [A -> Nat]
      /\ excess \in Nat /\ total \in Nat /\ SumOver(w.part, A) \in Nat /\ SumOver(cut, A) \in Nat
      /\ SumOver(w.part, A) = SumOver(cut, A) + excess
      /\ \A a \in receiving : w.part[a] = cut[a] /\ 0 < w.part[a]
    BY PassPieces
<1>3. /\ w.whole \in Nat /\ w.limit \in Nat /\ w.capped \in SUBSET A
      /\ w = [whole |-> w.whole, limit |-> w.limit, capped |-> w.capped, part |-> w.part]
    BY DEF States
<1> HIDE DEF cut, receiving, total, excess
<1>4. total = 0 => Passes(A, w, stopped)
    <2> SUFFICES ASSUME total = 0 PROVE Passes(A, w, stopped)
        OBVIOUS
    <2>1. capped \in SUBSET A
        BY <1>2, <1>3
    <2>2. ASSUME NEW a \in receiving PROVE FALSE
        <3>1. receiving \in SUBSET Assets /\ \A b \in receiving : cut[b] \in Nat
            BY <1>2
        <3>2. cut[a] <= SumOver(cut, receiving)
            BY <3>1, SumOverCovers
        <3>3. cut[a] \in Nat /\ 0 < cut[a]
            BY <1>2, <3>1
        <3> QED BY <3>2, <3>3 DEF total
    <2>3. SumOver(cut, A) <= SumOver(w.part, A)
        BY <1>2
    <2>4. stopped \in States(A) /\ stopped.capped = capped /\ stopped.part = cut
          /\ stopped.whole = w.whole /\ stopped.limit = w.limit
        <3> HIDE DEF capped
        <3> QED BY <1>2, <1>3, <2>1 DEF States
    <2> HIDE DEF stopped
    <2>5. Stops(A, w, stopped)
        BY <2>2, <2>3, <2>4 DEF Stops, cut, receiving
    <2> QED BY <2>4, <2>5 DEF Passes
<1>5. total # 0 => Passes(A, w, shared)
    <2> SUFFICES ASSUME total # 0 PROVE Passes(A, w, shared)
        OBVIOUS
    <2> DEFINE gets(a) == IF a \in receiving THEN excess ELSE 0
               share(a) == cut[a] * (total + gets(a))
    <2>1. \A a \in A : cut[a] \in Nat /\ gets(a) \in Nat
        BY <1>2
    <2>2. ASSUME NEW a \in A
          PROVE  /\ share(a) = cut[a] * total + cut[a] * gets(a) /\ share(a) \in Nat
                 /\ cut[a] * gets(a) = IF a \in receiving THEN cut[a] * excess ELSE 0
        <3>1. Distributed(cut[a], total, gets(a))
            BY <1>2, <2>1, Distributes
        <3>2. Product(cut[a], total + gets(a))
            BY <1>2, <2>1, ProductIsNatural
        <3>3. cut[a] * 0 = 0
            BY <2>1
        <3> QED BY <3>1, <3>2, <3>3 DEF Distributed, Product
    <2>3. /\ shared.whole = w.whole * total /\ shared.limit = w.limit * total
          /\ shared.capped = capped /\ \A a \in A : shared.part[a] = share(a)
        OBVIOUS
    <2>4. Product(w.whole, total) /\ Product(w.limit, total)
        BY <1>2, <1>3, ProductIsNatural
    <2>5. shared \in States(A)
        <3>1. \A a \in A : share(a) \in Nat
            BY <2>2
        <3>2. capped \in SUBSET A
            BY <1>2, <1>3
        <3> HIDE DEF share, capped
        <3>3. shared.part \in [A -> Nat]
            BY <2>3, <3>1 DEF share
        <3> QED BY <2>4, <3>2, <3>3 DEF States, Product
    <2> HIDE DEF shared
    <2>6. SumOver(shared.part, A) = total * SumOver(cut, A) + excess * total
        <3>1. ASSUME NEW a \in A
              PROVE  shared.part[a] = total * (IF a \in A THEN cut[a] ELSE 0)
                                        + excess * (IF a \in receiving THEN cut[a] ELSE 0)
            <4>1. cut[a] * total = total * cut[a] /\ cut[a] * excess = excess * cut[a] /\ excess * 0 = 0
                BY <1>2, <2>1
            <4> QED BY <2>2, <2>3, <4>1
        <3>2. \A a \in A : shared.part[a] \in Nat
            BY <2>2, <2>3
        <3>3. A \in SUBSET A /\ (\A a \in receiving : cut[a] \in Nat)
            BY <1>2, <2>1
        <3>4. SumOver(shared.part, A) = total * SumOver(cut, A) + excess * SumOver(cut, receiving)
            BY <1>2, <2>1, <3>1, <3>2, <3>3, SumsOverAreLinear
        <3> QED BY <3>4 DEF total
    <2>7. SumOver(shared.part, A) = total * SumOver(w.part, A)
        <3>1. Distributed(total, SumOver(cut, A), excess)
            BY <1>2, Distributes
        <3>2. excess * total = total * excess
            BY <1>2
        <3> QED BY <1>2, <2>6, <3>1, <3>2 DEF Distributed
    <2>8. Shares(A, w, shared, total, excess)
        <3>1. ASSUME NEW a \in A
              PROVE  shared.part[a] = cut[a] * total + (IF a \in receiving THEN cut[a] * excess ELSE 0)
            BY <2>2, <2>3
        <3> QED BY <2>3, <2>7, <3>1 DEF Shares, cut, receiving
    <2> QED BY <1>2, <2>3, <2>5, <2>8 DEF Passes
<1> QED BY <1>1, <1>4, <1>5

-----------------------------------------------------------------------------
(* The passes.                                                             *)

\* What holds of the waterfall over the targets b after any number of passes.
LimitIsCap(w) == w.limit * Cap[2] = w.whole * Cap[1]

CappedSit(w) == \A a \in w.capped : w.part[a] = w.limit

OrderKept(A, b, w) ==
    \A x, y \in A : b.part[x] <= b.part[y] =>
        w.part[x] <= w.part[y] \/ w.limit <= w.part[y]

NothingFromNothing(A, b, w) == \A a \in A : b.part[a] = 0 => w.part[a] = 0

AllAtLimit(A, w) == \A a \in A : w.part[a] > 0 => w.part[a] = w.limit

Funded(A, b, w) ==
    \/ SumOver(w.part, A) * b.whole = SumOver(b.part, A) * w.whole
    \/ /\ SumOver(w.part, A) * b.whole <= SumOver(b.part, A) * w.whole
       /\ AllAtLimit(A, w)

WaterInv(A, b, w) ==
    /\ w \in States(A)
    /\ LimitIsCap(w) /\ CappedSit(w)
    /\ OrderKept(A, b, w) /\ NothingFromNothing(A, b, w)
    /\ Funded(A, b, w)

SmallerTimes(x, y, z) == x * z <= y * z /\ x * z \in Nat /\ y * z \in Nat

LEMMA ProductsAreOrdered ==
    ASSUME NEW x \in Nat, NEW y \in Nat, NEW z \in Nat, x <= y
    PROVE  SmallerTimes(x, y, z)
<1>1. y - x \in Nat /\ y * z = x * z + (y - x) * z
    OBVIOUS
<1>2. (y - x) * z \in Nat /\ x * z \in Nat /\ y * z \in Nat
    BY <1>1, NonNegativeProduct
<1> QED BY <1>1, <1>2 DEF SmallerTimes

Regroups(x, y, z) == (x * z) * y = (x * y) * z /\ x * (y * z) = (x * y) * z

LEMMA ProductsRegroup ==
    ASSUME NEW x \in Nat, NEW y \in Nat, NEW z \in Nat
    PROVE  Regroups(x, y, z)
BY DEF Regroups

\* An asset gets its cut, once for each that is multiplied.
EachShare(A, w, r, total, excess) ==
    /\ \A a \in A : a \in ReceivingOf(w) => r.part[a] = w.part[a] * (total + excess)
    /\ \A a \in A : a \notin ReceivingOf(w) => r.part[a] = CutOf(w)[a] * total

LEMMA SharesOf ==
    ASSUME NEW A \in SUBSET Assets, NEW w \in States(A), NEW r,
           NEW total \in Nat, NEW excess \in Nat, Shares(A, w, r, total, excess)
    PROVE  EachShare(A, w, r, total, excess)
<1>1. \A a \in A : CutOf(w)[a] \in Nat
    BY PassPieces
<1>2. ASSUME NEW a \in A, a \in ReceivingOf(w)
      PROVE  r.part[a] = w.part[a] * (total + excess)
    <2>1. w.part[a] = CutOf(w)[a] /\ w.part[a] \in Nat
        BY <1>1, <1>2, PassPieces
    <2>2. r.part[a] = CutOf(w)[a] * total + CutOf(w)[a] * excess
        BY <1>2 DEF Shares
    <2>3. Distributed(CutOf(w)[a], total, excess)
        BY <1>1, Distributes
    <2> QED BY <2>1, <2>2, <2>3 DEF Distributed
<1>3. ASSUME NEW a \in A, a \notin ReceivingOf(w)
      PROVE  r.part[a] = CutOf(w)[a] * total
    <2>1. Product(CutOf(w)[a], total)
        BY <1>1, ProductIsNatural
    <2>2. r.part[a] = CutOf(w)[a] * total + 0
        BY <1>3 DEF Shares
    <2> QED BY <2>1, <2>2 DEF Product
<1> QED BY <1>2, <1>3 DEF EachShare

LEMMA PassKeepsLimit ==
    ASSUME NEW A \in SUBSET Assets, NEW w \in States(A), NEW r, Passes(A, w, r), LimitIsCap(w)
    PROVE  LimitIsCap(r)
<1>1. w.whole \in Nat /\ w.limit \in Nat /\ Cap[1] \in Nat /\ Cap[2] \in Nat
    BY GraphAssumption DEF States
<1>2. CASE Stops(A, w, r)
    BY <1>2 DEF Stops, LimitIsCap
<1>3. ASSUME NEW total \in Nat, NEW excess \in Nat, Shares(A, w, r, total, excess)
      PROVE  LimitIsCap(r)
    <2>1. r.whole = w.whole * total /\ r.limit = w.limit * total
        BY <1>3 DEF Shares
    <2>2. Regroups(w.limit, Cap[2], total) /\ Regroups(w.whole, Cap[1], total)
        BY <1>1, ProductsRegroup
    <2>3. /\ (w.limit * total) * Cap[2] = (w.limit * Cap[2]) * total
          /\ (w.whole * total) * Cap[1] = (w.whole * Cap[1]) * total
        BY <2>2 DEF Regroups
    <2> QED BY <2>1, <2>3 DEF LimitIsCap
<1> QED BY <1>2, <1>3 DEF Passes

\* Whoever is capped has the limit as its cut, and receives nothing.
LEMMA CappedAreCut ==
    ASSUME NEW A \in SUBSET Assets, NEW w \in States(A), CappedSit(w)
    PROVE  \A a \in w.capped \cup OverOf(w) :
              a \in A /\ CutOf(w)[a] = w.limit /\ a \notin ReceivingOf(w)
<1>1. w.capped \in SUBSET A /\ w.limit \in Nat /\ OverOf(w) \in SUBSET A /\ w.part \in [A -> Nat]
    BY PassPieces DEF States
<1>2. ASSUME NEW a \in w.capped \cup OverOf(w) PROVE CutOf(w)[a] = w.limit
    <2>1. a \in A /\ CutOf(w)[a] = IF w.part[a] > w.limit THEN w.limit ELSE w.part[a]
        BY <1>1, <1>2, PassPieces
    <2>2. CASE a \in OverOf(w)
        BY <2>1, <2>2 DEF OverOf
    <2>3. CASE a \in w.capped
        BY <2>1, <2>3 DEF CappedSit
    <2> QED BY <1>2, <2>2, <2>3
<1> QED BY <1>1, <1>2 DEF ReceivingOf

LEMMA PassKeepsCapped ==
    ASSUME NEW A \in SUBSET Assets, NEW w \in States(A), NEW r, Passes(A, w, r), CappedSit(w)
    PROVE  CappedSit(r)
<1> SUFFICES ASSUME NEW a \in r.capped PROVE r.part[a] = r.limit
    BY DEF CappedSit
<1>1. a \in A /\ CutOf(w)[a] = w.limit /\ a \notin ReceivingOf(w)
    BY CappedAreCut DEF Passes
<1>2. CASE Stops(A, w, r)
    BY <1>1, <1>2 DEF Stops
<1>3. ASSUME NEW total \in Nat, NEW excess \in Nat, Shares(A, w, r, total, excess)
      PROVE  r.part[a] = r.limit
    <2>1. EachShare(A, w, r, total, excess)
        BY <1>3, SharesOf
    <2>2. r.part[a] = CutOf(w)[a] * total
        BY <1>1, <2>1 DEF EachShare
    <2> QED BY <1>1, <1>3, <2>2 DEF Shares
<1> QED BY <1>2, <1>3 DEF Passes

\* Whoever gets nothing more, and is below the limit, has nothing.
LEMMA LeftOutHasNothing ==
    ASSUME NEW A \in SUBSET Assets, NEW w \in States(A), CappedSit(w),
           NEW a \in A, a \notin ReceivingOf(w), CutOf(w)[a] < w.limit
    PROVE  CutOf(w)[a] = 0
<1>1. w.limit \in Nat /\ w.part \in [A -> Nat] /\ CutOf(w)[a] \in Nat
    BY PassPieces DEF States
<1>2. a \notin w.capped \cup OverOf(w)
    <2> SUFFICES ASSUME a \in w.capped \cup OverOf(w) PROVE FALSE
        OBVIOUS
    <2>1. CutOf(w)[a] = w.limit
        BY CappedAreCut
    <2> QED BY <1>1, <2>1
<1>3. ~ (0 < CutOf(w)[a])
    BY <1>1, <1>2 DEF ReceivingOf
<1> QED BY <1>1, <1>3

LEMMA PassKeepsZero ==
    ASSUME NEW A \in SUBSET Assets, NEW w \in States(A), NEW r, Passes(A, w, r), NEW a \in A,
           w.part[a] = 0
    PROVE  r.part[a] = 0
<1>1. w.limit \in Nat /\ CutOf(w)[a] = 0 /\ a \notin ReceivingOf(w)
    <2>1. w.limit \in Nat
        BY DEF States
    <2>2. CutOf(w)[a] = 0
        BY <2>1, PassPieces
    <2>3. a \notin ReceivingOf(w)
        BY PassPieces
    <2> QED BY <2>1, <2>2, <2>3
<1>2. CASE Stops(A, w, r)
    BY <1>1, <1>2 DEF Stops
<1>3. ASSUME NEW total \in Nat, NEW excess \in Nat, Shares(A, w, r, total, excess)
      PROVE  r.part[a] = 0
    <2>1. EachShare(A, w, r, total, excess)
        BY <1>3, SharesOf
    <2>2. r.part[a] = CutOf(w)[a] * total
        BY <1>1, <2>1 DEF EachShare
    <2> QED BY <1>1, <2>2
<1> QED BY <1>2, <1>3 DEF Passes

LEMMA AssetsAreFinite ==
    ASSUME NEW A \in SUBSET Assets
    PROVE  IsFiniteSet(A)
<1>1. IsFiniteSet(1 .. NumAssets)
    BY UniverseAssumption, FS_Interval
<1> QED BY <1>1, FS_Subset DEF Assets

LEMMA PassKeepsOrder ==
    ASSUME NEW A \in SUBSET Assets, NEW b, NEW w \in States(A), NEW r, Passes(A, w, r),
           CappedSit(w), OrderKept(A, b, w)
    PROVE  OrderKept(A, b, r)
<1> SUFFICES ASSUME NEW x \in A, NEW y \in A, b.part[x] <= b.part[y]
             PROVE  r.part[x] <= r.part[y] \/ r.limit <= r.part[y]
    BY DEF OrderKept
<1> DEFINE cut == CutOf(w)
<1>1. /\ cut[x] \in Nat /\ cut[y] \in Nat /\ w.limit \in Nat
      /\ w.part[x] \in Nat /\ w.part[y] \in Nat
      /\ cut[x] = IF w.part[x] > w.limit THEN w.limit ELSE w.part[x]
      /\ cut[y] = IF w.part[y] > w.limit THEN w.limit ELSE w.part[y]
    BY PassPieces DEF States
<1>2. cut[x] <= cut[y]
    <2>1. w.part[x] <= w.part[y] \/ w.limit <= w.part[y]
        BY DEF OrderKept
    <2> HIDE DEF cut
    <2> QED BY <1>1, <2>1
<1>3. CASE Stops(A, w, r)
    BY <1>2, <1>3 DEF Stops
<1>4. ASSUME NEW total \in Nat, NEW excess \in Nat, Shares(A, w, r, total, excess)
      PROVE  r.part[x] <= r.part[y] \/ r.limit <= r.part[y]
    <2>1. EachShare(A, w, r, total, excess)
        BY <1>4, SharesOf
    <2>2. total + excess \in Nat /\ total <= total + excess
        OBVIOUS
    <2>3. CASE w.limit <= cut[y]
        <3>1. cut[y] = w.limit
            BY <1>1, <2>3, PassPieces
        <3>2. y \notin ReceivingOf(w)
            BY <1>1, <3>1, PassPieces
        <3>3. r.part[y] = w.limit * total /\ r.limit = w.limit * total
            BY <1>4, <2>1, <3>1, <3>2 DEF EachShare, Shares
        <3>4. Product(w.limit, total)
            BY <1>1, ProductIsNatural
        <3> QED BY <3>3, <3>4 DEF Product
    <2>4. CASE y \in ReceivingOf(w)
        <3>1. cut[y] = w.part[y] /\ r.part[y] = cut[y] * (total + excess)
            BY <2>1, <2>4, PassPieces DEF EachShare
        <3>2. SmallerTimes(cut[x], cut[y], total + excess)
            BY <1>1, <1>2, <2>2, ProductsAreOrdered
        <3>3. CASE x \in ReceivingOf(w)
            <4>1. r.part[x] = cut[x] * (total + excess)
                BY <2>1, <3>3, PassPieces DEF EachShare
            <4> QED BY <3>1, <3>2, <4>1 DEF SmallerTimes
        <3>4. CASE x \notin ReceivingOf(w)
            <4>1. r.part[x] = cut[x] * total
                BY <2>1, <3>4 DEF EachShare
            <4>2. SmallerTimes(total, total + excess, cut[x])
                BY <1>1, <2>2, ProductsAreOrdered
            <4>3. total * cut[x] = cut[x] * total /\ (total + excess) * cut[x] = cut[x] * (total + excess)
                BY <1>1
            <4> DEFINE p == cut[x] * total
                       q == cut[x] * (total + excess)
                       t == cut[y] * (total + excess)
            <4>4. p \in Nat /\ q \in Nat /\ t \in Nat /\ p <= q /\ q <= t
                BY <3>2, <4>2, <4>3 DEF SmallerTimes
            <4>5. r.part[x] = p /\ r.part[y] = t
                BY <3>1, <4>1
            <4> HIDE DEF p, q, t
            <4> QED BY <4>4, <4>5
        <3> QED BY <3>3, <3>4
    <2>5. CASE cut[y] < w.limit /\ y \notin ReceivingOf(w)
        <3>1. cut[y] = 0
            BY <2>5, LeftOutHasNothing
        <3>2. cut[x] = 0
            BY <1>1, <1>2, <3>1
        <3>3. x \notin ReceivingOf(w)
            BY <3>2, PassPieces
        <3>4. r.part[x] = cut[x] * total /\ r.part[y] = cut[y] * total
            BY <2>1, <2>5, <3>3 DEF EachShare
        <3> QED BY <3>1, <3>2, <3>4
    <2>6. w.limit <= cut[y] \/ cut[y] < w.limit
        BY <1>1
    <2> QED BY <2>3, <2>4, <2>5, <2>6
<1> QED BY <1>3, <1>4 DEF Passes

LEMMA PassKeepsFunded ==
    ASSUME NEW A \in SUBSET Assets, NEW b, b.part \in [A -> Nat], b.whole \in Nat,
           NEW w \in States(A), OverOf(w) # {}, NEW r, Passes(A, w, r), CappedSit(w), Funded(A, b, w)
    PROVE  Funded(A, b, r)
<1>1. /\ w.whole \in Nat /\ w.limit \in Nat /\ w.part \in [A -> Nat] /\ DOMAIN w.part = A
      /\ r.part \in [A -> Nat]
    BY DEF States, Passes
<1>2. ~ AllAtLimit(A, w)
    <2> SUFFICES ASSUME AllAtLimit(A, w), NEW a \in OverOf(w) PROVE FALSE
        OBVIOUS
    <2>1. a \in A /\ w.part[a] > w.limit /\ w.part[a] \in Nat
        BY <1>1 DEF OverOf
    <2> QED BY <1>1, <2>1 DEF AllAtLimit
<1> DEFINE sw == SumOver(w.part, A)
           sb == SumOver(b.part, A)
           sr == SumOver(r.part, A)
<1>3. sw \in Nat /\ sb \in Nat /\ sr \in Nat
    <2>1. (\A a \in A : w.part[a] \in Nat) /\ (\A a \in A : b.part[a] \in Nat)
          /\ (\A a \in A : r.part[a] \in Nat)
        BY <1>1
    <2> QED BY <2>1, SpreadIsAList
<1>4. sw * b.whole = sb * w.whole
    BY <1>2 DEF Funded
<1>5. CASE Stops(A, w, r)
    <2>1. sr <= sw /\ r.whole = w.whole /\ r.limit = w.limit /\ r.part = CutOf(w)
        BY <1>5 DEF Stops
    <2>2. sr * b.whole <= sb * r.whole
        <3>1. SmallerTimes(sr, sw, b.whole)
            BY <1>3, <2>1, ProductsAreOrdered
        <3> QED BY <1>4, <2>1, <3>1 DEF SmallerTimes
    <2>3. ASSUME NEW a \in A, r.part[a] > 0 PROVE r.part[a] = r.limit
        <3>1. CutOf(w)[a] <= w.limit /\ CutOf(w)[a] \in Nat
            BY PassPieces
        <3>2. a \notin ReceivingOf(w)
            BY <1>5 DEF Stops
        <3>3. ~ (CutOf(w)[a] < w.limit)
            <4> SUFFICES ASSUME CutOf(w)[a] < w.limit PROVE FALSE
                OBVIOUS
            <4>1. CutOf(w)[a] = 0
                BY <3>2, LeftOutHasNothing
            <4> QED BY <2>1, <2>3, <4>1
        <3> QED BY <1>1, <2>1, <3>1, <3>3
    <2> QED BY <2>2, <2>3 DEF Funded, AllAtLimit
<1>6. ASSUME NEW total \in Nat, NEW excess \in Nat, Shares(A, w, r, total, excess)
      PROVE  Funded(A, b, r)
    <2>1. sr = total * sw /\ r.whole = w.whole * total
        BY <1>6 DEF Shares
    <2> HIDE DEF sw, sb, sr
    <2>2. sr * b.whole = sb * r.whole
        <3>1. Regroups(sw, b.whole, total) /\ Regroups(sb, w.whole, total)
            BY <1>1, <1>3, ProductsRegroup
        <3>2. total * sw = sw * total
            BY <1>3
        <3>3. (sw * total) * b.whole = (sw * b.whole) * total
            BY <3>1 DEF Regroups
        <3>4. sb * (w.whole * total) = (sb * w.whole) * total
            BY <3>1 DEF Regroups
        <3> QED BY <1>4, <2>1, <3>2, <3>3, <3>4
    <2> QED BY <2>2 DEF Funded, sw, sb, sr
<1> QED BY <1>5, <1>6 DEF Passes

LEMMA PassKeeps ==
    ASSUME NEW A \in SUBSET Assets, NEW b, b.part \in [A -> Nat], b.whole \in Nat,
           NEW w, WaterInv(A, b, w)
    PROVE  WaterInv(A, b, CappedPass(w))
<1> DEFINE r == CappedPass(w)
<1>1. w \in States(A)
    BY DEF WaterInv
<1>2. CASE OverOf(w) = {}
    BY <1>1, <1>2, PassOf
<1>3. CASE OverOf(w) # {}
    <2>1. Passes(A, w, r)
        BY <1>1, <1>3, PassOf
    <2> HIDE DEF r
    <2>2. r \in States(A)
        BY <2>1 DEF Passes
    <2>3. LimitIsCap(w) /\ CappedSit(w) /\ OrderKept(A, b, w) /\ Funded(A, b, w)
        BY DEF WaterInv
    <2>4. LimitIsCap(r)
        BY <1>1, <2>1, <2>3, PassKeepsLimit
    <2>5. CappedSit(r)
        BY <1>1, <2>1, <2>3, PassKeepsCapped
    <2>6. OrderKept(A, b, r)
        BY <1>1, <2>1, <2>3, PassKeepsOrder
    <2>7. NothingFromNothing(A, b, r)
        <3> SUFFICES ASSUME NEW a \in A, b.part[a] = 0 PROVE r.part[a] = 0
            BY DEF NothingFromNothing
        <3>1. w.part[a] = 0
            BY DEF WaterInv, NothingFromNothing
        <3> QED BY <1>1, <2>1, <3>1, PassKeepsZero
    <2>8. Funded(A, b, r)
        BY <1>1, <1>3, <2>1, <2>3, PassKeepsFunded
    <2> QED BY <2>2, <2>4, <2>5, <2>6, <2>7, <2>8 DEF WaterInv, r
<1> QED BY <1>2, <1>3

\* Every pass but the last caps at least one more asset.
Progressed(w, k) == OverOf(w) = {} \/ Cardinality(w.capped) >= k

LEMMA PassProgresses ==
    ASSUME NEW A \in SUBSET Assets, NEW w \in States(A), CappedSit(w), NEW k \in Nat, Progressed(w, k)
    PROVE  Progressed(CappedPass(w), k + 1)
<1>1. CASE OverOf(w) = {}
    BY <1>1, PassOf DEF Progressed
<1>2. CASE OverOf(w) # {}
    <2>1. CappedPass(w).capped = w.capped \cup OverOf(w)
        BY <1>2, PassOf DEF Passes
    <2>2. PICK a : a \in OverOf(w)
        BY <1>2
    <2>3. w.capped \in SUBSET A /\ w.limit \in Nat /\ OverOf(w) \in SUBSET A
        BY PassPieces DEF States
    <2>4. a \notin w.capped
        BY <2>2, <2>3 DEF CappedSit, OverOf
    <2>5. IsFiniteSet(w.capped) /\ IsFiniteSet(OverOf(w))
        BY <2>3, AssetsAreFinite, FS_Subset
    <2>6. Cardinality(w.capped) \in Nat /\ Cardinality(w.capped) >= k
        BY <1>2, <2>5, FS_CardinalityType DEF Progressed
    <2>7. Cardinality(w.capped \cup {a}) = Cardinality(w.capped) + 1 /\ IsFiniteSet(w.capped \cup {a})
        BY <2>4, <2>5, FS_AddElement
    <2>8. IsFiniteSet(w.capped \cup OverOf(w))
        BY <2>5, FS_Union
    <2>9. w.capped \cup {a} \subseteq w.capped \cup OverOf(w)
        BY <2>2
    <2>10. Cardinality(w.capped \cup {a}) <= Cardinality(w.capped \cup OverOf(w))
           /\ Cardinality(w.capped \cup OverOf(w)) \in Nat
        BY <2>8, <2>9, FS_Subset, FS_CardinalityType
    <2>11. Cardinality(CappedPass(w).capped) >= k + 1
        <3> DEFINE c == Cardinality(w.capped)
                   d == Cardinality(w.capped \cup OverOf(w))
        <3> HIDE DEF c, d
        <3>1. c \in Nat /\ d \in Nat /\ c >= k /\ c + 1 <= d
            BY <2>6, <2>7, <2>10 DEF c, d
        <3> QED BY <2>1, <3>1 DEF d
    <2> QED BY <2>11 DEF Progressed
<1> QED BY <1>1, <1>2

LEMMA NobodyIsOver ==
    ASSUME NEW A \in SUBSET Assets, NEW w \in States(A), CappedSit(w), Progressed(w, Cardinality(A))
    PROVE  OverOf(w) = {}
<1> SUFFICES ASSUME OverOf(w) # {} PROVE FALSE
    OBVIOUS
<1>1. IsFiniteSet(A) /\ w.capped \in SUBSET A /\ w.limit \in Nat /\ OverOf(w) \in SUBSET A
    BY AssetsAreFinite, FS_Subset, PassPieces DEF States
<1>2. PICK a : a \in OverOf(w)
    OBVIOUS
<1>3. a \in A /\ a \notin w.capped
    BY <1>1, <1>2 DEF CappedSit, OverOf
<1>4. Cardinality(w.capped) >= Cardinality(A)
    BY DEF Progressed
<1>5. Cardinality(w.capped) < Cardinality(A)
    <2>1. w.capped \subseteq A /\ w.capped # A
        BY <1>1, <1>3
    <2> QED BY <1>1, <2>1, FS_Subset, FS_CardinalityType
<1>6. Cardinality(w.capped) \in Nat /\ Cardinality(A) \in Nat
    BY <1>1, FS_Subset, FS_CardinalityType
<1> QED BY <1>4, <1>5, <1>6

-----------------------------------------------------------------------------
(* The loop.                                                               *)

StartOf(b) == [whole  |-> b.whole * Cap[2], limit |-> b.whole * Cap[1], capped |-> {},
               part   |-> [a \in DOMAIN b.part |-> b.part[a] * Cap[2]]]

PassesOf(b) == Cardinality(DOMAIN b.part)

ArePasses(f, b) ==
    f = [n \in 0 .. PassesOf(b) |-> IF n = 0 THEN StartOf(b) ELSE CappedPass(f[n - 1])]

LEMMA PassesExist ==
    ASSUME NEW b, PassesOf(b) \in Nat
    PROVE  \E f : ArePasses(f, b)
<1> DEFINE N == PassesOf(b)
           start == StartOf(b)
           UpTo(f, m) == f = [n \in 0 .. m |-> IF n = 0 THEN start ELSE CappedPass(f[n - 1])]
           T == {m \in 0 .. N : \E f : UpTo(f, m)}
<1> HIDE DEF start, N
<1>0. N \in Nat
    BY DEF N
<1>1. 0 \in T
    <2> DEFINE g == [n \in 0 .. 0 |-> start]
    <2>1. g = [n \in 0 .. 0 |-> IF n = 0 THEN start ELSE CappedPass(g[n - 1])]
        OBVIOUS
    <2>2. \E f : UpTo(f, 0)
        <3> HIDE DEF g
        <3> QED BY <2>1
    <2> HIDE DEF UpTo
    <2> QED BY <1>0, <2>2
<1>2. ASSUME NEW m \in 1 .. N, m - 1 \in T PROVE m \in T
    <2>1. PICK f : UpTo(f, m - 1)
        BY <1>2
    <2> DEFINE g == [n \in 0 .. m |-> IF n = m THEN CappedPass(f[m - 1]) ELSE f[n]]
    <2>2. \A n \in 0 .. m - 1 : g[n] = f[n]
        BY <1>0
    <2>3. \A n \in 0 .. m - 1 : f[n] = IF n = 0 THEN start ELSE CappedPass(f[n - 1])
        BY <2>1
    <2>4. ASSUME NEW n \in 0 .. m PROVE g[n] = IF n = 0 THEN start ELSE CappedPass(g[n - 1])
        <3>1. CASE n = m
            BY <1>0, <2>2, <3>1
        <3>2. CASE n # m
            <4>1. n \in 0 .. m - 1 /\ (n # 0 => n - 1 \in 0 .. m - 1)
                BY <1>0, <3>2
            <4> QED BY <2>2, <2>3, <4>1
        <3> QED BY <3>1, <3>2
    <2>5. g = [n \in 0 .. m |-> IF n = 0 THEN start ELSE CappedPass(g[n - 1])]
        <3>1. g = [n \in 0 .. m |-> g[n]]
            OBVIOUS
        <3> HIDE DEF g
        <3> QED BY <2>4, <3>1
    <2> HIDE DEF g
    <2>6. \E h : UpTo(h, m)
        BY <2>5
    <2>7. m \in 0 .. N
        BY <1>0
    <2> QED BY <2>6, <2>7
<1>3. N \in T
    <2> HIDE DEF T
    <2>1. \A m \in 0 .. N : m \in T
        BY <1>0, <1>1, <1>2, InductionTo
    <2> QED BY <1>0, <2>1
<1> QED BY <1>3 DEF start, N, ArePasses

\* What the passes start from.
LEMMA StartsRight ==
    ASSUME NEW A \in SUBSET Assets, NEW b, b.part \in [A -> Nat], b.whole \in Nat
    PROVE  WaterInv(A, b, StartOf(b)) /\ Progressed(StartOf(b), 0)
<1> DEFINE w == StartOf(b)
<1>1. /\ w.whole = b.whole * Cap[2] /\ w.limit = b.whole * Cap[1] /\ w.capped = {}
      /\ DOMAIN b.part = A /\ \A a \in A : w.part[a] = b.part[a] * Cap[2]
    BY DEF StartOf
<1>2. Cap[1] \in Nat /\ Cap[2] \in Nat /\ \A a \in A : b.part[a] \in Nat
    BY GraphAssumption
<1>3. w \in States(A)
    <2>1. Product(b.whole, Cap[2]) /\ Product(b.whole, Cap[1])
          /\ \A a \in A : Product(b.part[a], Cap[2])
        BY <1>2, ProductIsNatural
    <2> QED BY <1>1, <2>1 DEF StartOf, States, Product
<1> HIDE DEF w
<1>4. LimitIsCap(w)
    <2>1. Regroups(b.whole, Cap[2], Cap[1])
        BY <1>2, ProductsRegroup
    <2> QED BY <1>1, <2>1 DEF LimitIsCap, Regroups
<1>5. CappedSit(w)
    BY <1>1 DEF CappedSit
<1>6. OrderKept(A, b, w)
    <2> SUFFICES ASSUME NEW x \in A, NEW y \in A, b.part[x] <= b.part[y]
                 PROVE  w.part[x] <= w.part[y]
        BY DEF OrderKept
    <2>1. SmallerTimes(b.part[x], b.part[y], Cap[2])
        BY <1>2, ProductsAreOrdered
    <2> QED BY <1>1, <2>1 DEF SmallerTimes
<1>7. NothingFromNothing(A, b, w)
    BY <1>1, <1>2 DEF NothingFromNothing
<1>8. Funded(A, b, w)
    <2> DEFINE sw == SumOver(w.part, A)
               sb == SumOver(b.part, A)
    <2>1. \A a \in A : w.part[a] \in Nat
        BY <1>3 DEF States
    <2>2. sb \in Nat
        BY <1>2, SpreadIsAList
    <2>3. sw = Cap[2] * sb + 0 * sb
        <3>1. ASSUME NEW a \in A
              PROVE  w.part[a] = Cap[2] * (IF a \in A THEN b.part[a] ELSE 0)
                                    + 0 * (IF a \in A THEN b.part[a] ELSE 0)
            <4>1. b.part[a] * Cap[2] = Cap[2] * b.part[a]
                BY <1>2
            <4>2. Product(Cap[2], b.part[a]) /\ 0 * b.part[a] = 0
                BY <1>2, ProductIsNatural
            <4> QED BY <1>1, <4>1, <4>2 DEF Product
        <3>2. A \in SUBSET A /\ 0 \in Nat
            OBVIOUS
        <3> QED BY <1>2, <2>1, <3>1, <3>2, SumsOverAreLinear
    <2> HIDE DEF sw, sb
    <2>4. sw = sb * Cap[2]
        <3>1. Product(Cap[2], sb)
            BY <1>2, <2>2, ProductIsNatural
        <3> QED BY <1>2, <2>2, <2>3, <3>1 DEF Product
    <2>5. sw * b.whole = sb * w.whole
        <3>1. Regroups(sb, b.whole, Cap[2])
            BY <1>2, <2>2, ProductsRegroup
        <3> QED BY <1>1, <2>4, <3>1 DEF Regroups
    <2> QED BY <2>5 DEF Funded, sw, sb
<1>9. Progressed(w, 0)
    <2>1. Cardinality({}) = 0
        BY FS_EmptySet
    <2> QED BY <1>1, <2>1 DEF Progressed
<1> QED BY <1>3, <1>4, <1>5, <1>6, <1>7, <1>8, <1>9 DEF WaterInv, w

\* After the loop nobody is over, and the rest still holds.
LEMMA WaterfallEnds ==
    ASSUME NEW A \in SUBSET Assets, NEW b, b.part \in [A -> Nat], b.whole \in Nat
    PROVE  WaterInv(A, b, Waterfall(b, Cap)) /\ OverOf(Waterfall(b, Cap)) = {}
<1> DEFINE N == PassesOf(b)
<1>1. N \in Nat /\ N = Cardinality(A)
    <2>1. DOMAIN b.part = A
        OBVIOUS
    <2> QED BY <2>1, AssetsAreFinite, FS_CardinalityType DEF PassesOf
<1>2. PICK f : /\ ArePasses(f, b)
               /\ Waterfall(b, Cap) = f[N]
    <2> DEFINE f == CHOOSE f : ArePasses(f, b)
    <2>1. ArePasses(f, b)
        BY <1>1, PassesExist
    <2>2. Waterfall(b, Cap) = f[N]
        BY DEF Waterfall, ArePasses, StartOf, PassesOf
    <2> QED BY <2>1, <2>2
<1>3. \A n \in 0 .. N : f[n] = IF n = 0 THEN StartOf(b) ELSE CappedPass(f[n - 1])
    BY <1>2 DEF ArePasses
<1> DEFINE T == {n \in 0 .. N : WaterInv(A, b, f[n]) /\ Progressed(f[n], n)}
<1> HIDE DEF N
<1>4. 0 \in T
    <2>1. f[0] = StartOf(b)
        BY <1>1, <1>3
    <2> QED BY <1>1, <2>1, StartsRight
<1>5. ASSUME NEW n \in 1 .. N, n - 1 \in T PROVE n \in T
    <2>1. n - 1 \in Nat /\ (n - 1) + 1 = n /\ n \in 0 .. N /\ n # 0
        BY <1>1
    <2>2. f[n] = CappedPass(f[n - 1])
        BY <1>3, <2>1
    <2>3. WaterInv(A, b, f[n - 1]) /\ Progressed(f[n - 1], n - 1)
        BY <1>5
    <2>4. WaterInv(A, b, f[n])
        BY <2>2, <2>3, PassKeeps
    <2>5. f[n - 1] \in States(A) /\ CappedSit(f[n - 1])
        BY <2>3 DEF WaterInv
    <2>6. Progressed(f[n], (n - 1) + 1)
        BY <2>1, <2>2, <2>3, <2>5, PassProgresses
    <2> QED BY <2>1, <2>4, <2>6
<1>6. N \in T
    <2> HIDE DEF T
    <2>1. \A n \in 0 .. N : n \in T
        BY <1>1, <1>4, <1>5, InductionTo
    <2> QED BY <1>1, <2>1
<1>7. WaterInv(A, b, f[N]) /\ Progressed(f[N], Cardinality(A))
    BY <1>1, <1>6
<1>8. OverOf(f[N]) = {}
    BY <1>7, NobodyIsOver DEF WaterInv
<1> QED BY <1>2, <1>7, <1>8

\* What comes out of the waterfall is fair.
LEMMA WaterfallIsFair ==
    ASSUME NEW A \in SUBSET Assets, NEW b, b.part \in [A -> Nat], b.whole \in Nat
    PROVE  CappedFairly(b, MaxWeight(b, Cap))
<1> DEFINE w == Waterfall(b, Cap)
           r == MaxWeight(b, Cap)
<1>1. WaterInv(A, b, w) /\ OverOf(w) = {}
    BY WaterfallEnds
<1>2. r.whole = w.whole /\ r.part = w.part /\ DOMAIN b.part = A
    BY DEF MaxWeight
<1> HIDE DEF w, r
<1>3. /\ w.whole \in Nat /\ w.limit \in Nat /\ w.part \in [A -> Nat]
      /\ w.limit * Cap[2] = w.whole * Cap[1] /\ Cap[1] \in Nat /\ Cap[2] \in Nat
    BY <1>1, GraphAssumption DEF WaterInv, States, LimitIsCap
<1>4. \A a \in A : w.part[a] \in Nat /\ w.part[a] <= w.limit
    BY <1>1, <1>3 DEF OverOf
<1>5. Cap[1] * w.whole = w.limit * Cap[2]
    BY <1>3
<1>6. ASSUME NEW a \in A PROVE w.part[a] * Cap[2] <= Cap[1] * w.whole
    <2>1. SmallerTimes(w.part[a], w.limit, Cap[2])
        BY <1>3, <1>4, ProductsAreOrdered
    <2> QED BY <1>5, <2>1 DEF SmallerTimes
<1>7. ASSUME NEW x \in A, NEW y \in A, b.part[x] <= b.part[y] PROVE w.part[x] <= w.part[y]
    <2>1. w.part[x] <= w.part[y] \/ w.limit <= w.part[y]
        BY <1>1, <1>7 DEF WaterInv, OrderKept
    <2> QED BY <1>3, <1>4, <2>1
<1> DEFINE sw == SumOver(w.part, A) * b.whole
           sb == SumOver(b.part, A) * w.whole
<1>8. sw \in Nat /\ sb \in Nat
    <2>1. (\A a \in A : b.part[a] \in Nat) /\ (\A a \in A : w.part[a] \in Nat)
        BY <1>3
    <2>2. SumOver(w.part, A) \in Nat /\ SumOver(b.part, A) \in Nat
        BY <2>1, SpreadIsAList
    <2>3. Product(SumOver(w.part, A), b.whole) /\ Product(SumOver(b.part, A), w.whole)
        BY <1>3, <2>2, ProductIsNatural
    <2> QED BY <2>3 DEF Product
<1>9. sw = sb \/ (sw <= sb /\ AllAtLimit(A, w))
    BY <1>1 DEF WaterInv, Funded
<1> HIDE DEF sw, sb
<1>10. sw <= sb /\ (sw < sb => AllAtLimit(A, w))
    BY <1>8, <1>9
<1>11. sw < sb => \A a \in A : w.part[a] > 0 => w.part[a] * Cap[2] = Cap[1] * w.whole
    BY <1>5, <1>10 DEF AllAtLimit
<1> QED BY <1>2, <1>6, <1>7, <1>10, <1>11 DEF CappedFairly, r, sw, sb

-----------------------------------------------------------------------------
(* What reaches the waterfall.                                             *)

\* Targets over some assets.
TargetsOver(A, b) ==
    /\ b = [whole |-> b.whole, part |-> b.part]
    /\ b.part \in [A -> Nat] /\ b.whole \in Nat

LEMMA AllocationsAreTargets ==
    ASSUME NEW A \in SUBSET Assets, NEW b \in Allocations(A)
    PROVE  TargetsOver(A, b)
<1>1. CASE b = EqualWeight(A)
    <2>1. Cardinality(A) \in Nat
        BY AssetsAreFinite, FS_CardinalityType
    <2> QED BY <1>1, <2>1 DEF EqualWeight, TargetsOver
<1>2. ASSUME NEW sleeve \in {<<1, 2>>, <<1, 1>>}, b = FixedWeight(A, sleeve)
      PROVE  TargetsOver(A, b)
    <2>1. sleeve[1] \in Nat /\ sleeve[2] \in Nat
        OBVIOUS
    <2> QED BY <1>2, <2>1 DEF FixedWeight, TargetsOver
<1>3. CASE b = [whole |-> Conviction.whole, part |-> [a \in A |-> Conviction.part[a]]]
    <2>1. Conviction.whole \in Nat /\ \A a \in A : Conviction.part[a] \in Nat
        BY GraphAssumption
    <2> QED BY <1>3, <2>1 DEF TargetsOver
<1> QED BY <1>1, <1>2, <1>3 DEF Allocations

LEMMA MaskedAreTargets ==
    ASSUME NEW A \in SUBSET Assets, NEW b, TargetsOver(A, b), NEW mask
    PROVE  /\ TargetsOver(A, ApplyMask(b, mask))
           /\ \A a \in A : ApplyMask(b, mask).part[a] # 0 => a \in Present(mask) /\ mask.values[a]
<1> DEFINE kept == [a \in DOMAIN b.part |->
                       IF a \in Present(mask) /\ mask.values[a] THEN b.part[a] ELSE 0]
<1>1. b = [whole |-> b.whole, part |-> b.part] /\ b.part \in [A -> Nat] /\ b.whole \in Nat
    BY DEF TargetsOver
<1>2. kept \in [A -> Nat] /\ \A a \in A : kept[a] # 0 => a \in Present(mask) /\ mask.values[a]
    BY <1>1
<1>3. ApplyMask(b, mask) = [b EXCEPT !.part = kept]
    BY DEF ApplyMask
<1> HIDE DEF kept
<1>4. ApplyMask(b, mask) = [whole |-> b.whole, part |-> kept]
    BY <1>1, <1>3
<1> QED BY <1>1, <1>2, <1>4 DEF TargetsOver

\* The session an evaluation is at, where something is visible there.
Session(t) == LatestSession(SessionsAt(t))

LEMMA SessionIsLatest ==
    ASSUME NEW t, SessionsAt(t) # {}
    PROVE  /\ Session(t) \in SessionsAt(t) /\ Session(t) \in Days
           /\ \A e \in SessionsAt(t) : e <= Session(t)
<1>1. SessionsAt(t) \in SUBSET Days
    BY DEF SessionsAt, SessionsClosedBy
<1>2. \E d \in SessionsAt(t) : \A e \in SessionsAt(t) : e <= d
    BY <1>1, LatestExists
<1> QED BY <1>1, <1>2 DEF Session, LatestSession

\* A close visible at its own session is the latest one the cursor has.
LEMMA VisibleIsPriced ==
    ASSUME closeAvail \in CloseAvailability, NEW t \in Instants, SessionsAt(t) # {},
           NEW a \in Assets, Session(t) \in VisibleDays(closeAvail, a, t)
    PROVE  AsOfSessionClose(closeAvail, a, Session(t), t) # NoDay
<1>1. Session(t) \in Days /\ \A e \in SessionsAt(t) : e <= Session(t)
    BY SessionIsLatest
<1>2. VisibleDays(closeAvail, a, t) \subseteq SessionsAt(t)
    <2>1. \A e \in Days : closeAvail[a][e] \in Int /\ CloseAt(e) \in Int /\ closeAvail[a][e] >= CloseAt(e)
        BY MarketAssumption DEF CloseAvailability, Instants, Never, Days, CloseAt
    <2>2. t \in Int
        BY MarketAssumption DEF Instants
    <2> QED BY <2>1, <2>2 DEF VisibleDays, SessionsAt, SessionsClosedBy
<1>3. AsOfLatestClose(closeAvail, a, t) = Session(t)
    <2>1. \A e \in VisibleDays(closeAvail, a, t) : e <= Session(t)
        BY <1>1, <1>2
    <2> QED BY <1>1, <2>1, LatestCloseUnique
<1>4. Session(t) # NoDay
    BY <1>1, MarketAssumption DEF Days, NoDay
<1> QED BY <1>3, <1>4 DEF AsOfSessionClose

\* Whatever is selected has a point of its average at the session itself.
LEMMA SelectedAreVisible ==
    ASSUME NEW memo, NEW t, Sound(memo, "smooth", t), NEW a \in Selected(memo, t)
    PROVE  a \in Assets /\ Session(t) \in VisibleDays(closeAvail, a, t)
<1> DEFINE series == Averaged("smooth", memo, t)
           momentum == TrailingReturn(series, Lookback, SessionsAt(t))
<1>1. "smooth" \in Averages
    BY DEF Averages
<1>2. a \in Assets /\ a \in Present(Rank(momentum, TRUE))
    BY DEF Selected, SelectTopN
<1>3. Present(Rank(momentum, TRUE)) = Present(momentum)
    <2> DEFINE ranks == [x \in Present(momentum) |->
            <<1 + Cardinality({y \in Present(momentum) : Ahead(momentum.values, TRUE, y, x)}), 1>>]
    <2>1. Rank(momentum, TRUE) = [momentum EXCEPT !.values = ranks]
        BY DEF Rank
    <2>2. momentum = [domain |-> momentum.domain, values |-> momentum.values]
        BY DEF TrailingReturn
    <2>3. DOMAIN ranks = Present(momentum)
        OBVIOUS
    <2> HIDE DEF ranks, momentum
    <2>4. Rank(momentum, TRUE).values = ranks
        BY <2>1, <2>2
    <2> QED BY <2>3, <2>4 DEF Present
<1>4. Session(t) \in DOMAIN series[a]
    BY <1>2, <1>3 DEF Present, TrailingReturn, Session
<1>5. series = [x \in Assets |-> [d \in Complete("smooth", x, t) |-> Point("smooth", x, d)]]
    BY <1>1, AverageIsTheSame
<1>6. Session(t) \in Complete("smooth", a, t)
    <2> HIDE DEF series
    <2> QED BY <1>2, <1>4, <1>5
<1>7. Session(t) \in WindowOf(Session(t), Window["smooth"])
    <2>1. Session(t) \in Int /\ Window["smooth"] \in Nat \ {0}
        BY <1>1, <1>6, GraphAssumption DEF Complete, SessionsAt, SessionsClosedBy, Days
    <2> QED BY <2>1 DEF WindowOf
<1> QED BY <1>2, <1>6, <1>7 DEF Complete

\* Whatever the signal keeps has a price at the session itself.
LEMMA SignalledAreVisible ==
    ASSUME NEW memo, NEW t, NEW a \in Assets, a \in Present(Signal(memo, t)),
           Signal(memo, t).values[a]
    PROVE  Session(t) \in VisibleDays(closeAvail, a, t)
<1> DEFINE left == Latest(Prices(t), SessionsAt(t))
           right == Latest(Averaged("trend", memo, t), SessionsAt(t))
<1>1. Signal(memo, t) = GreaterThan(left, right)
    BY DEF Signal
<1> HIDE DEF right
<1>2. a \in Present(left)
    <2> HIDE DEF left
    <2> QED BY <1>1 DEF GreaterThan, Present
<1>3. Session(t) \in DOMAIN Prices(t)[a]
    BY <1>2 DEF Present, Latest, Session
<1>4. DOMAIN Prices(t)[a] = VisibleDays(closeAvail, a, t)
    BY DEF Prices, Price, FixedList
<1> QED BY <1>3, <1>4

\* Targets that reach the waterfall weigh only what is visible.
LEMMA UncappedAreVisible ==
    ASSUME NEW memo, NEW t, Sound(memo, "smooth", t), NEW b \in Uncapped(memo, t)
    PROVE  \E A \in SUBSET Assets :
              /\ TargetsOver(A, b)
              /\ \A a \in A : b.part[a] # 0 => Session(t) \in VisibleDays(closeAvail, a, t)
<1>1. CASE b \in Allocations(Selected(memo, t))
    <2>1. Selected(memo, t) \in SUBSET Assets
        BY SelectedAreVisible
    <2> QED BY <1>1, <2>1, AllocationsAreTargets, SelectedAreVisible
<1>2. ASSUME NEW given \in Allocations(Assets), b = ApplyMask(given, Signal(memo, t))
      PROVE  \E A \in SUBSET Assets :
                /\ TargetsOver(A, b)
                /\ \A a \in A : b.part[a] # 0 => Session(t) \in VisibleDays(closeAvail, a, t)
    <2>1. Assets \in SUBSET Assets
        OBVIOUS
    <2>2. TargetsOver(Assets, given)
        BY <2>1, AllocationsAreTargets
    <2>3. /\ TargetsOver(Assets, b)
          /\ \A a \in Assets : b.part[a] # 0 => a \in Present(Signal(memo, t)) /\ Signal(memo, t).values[a]
        BY <1>2, <2>1, <2>2, MaskedAreTargets
    <2>4. \A a \in Assets : b.part[a] # 0 => Session(t) \in VisibleDays(closeAvail, a, t)
        BY <2>3, SignalledAreVisible
    <2> QED BY <2>1, <2>3, <2>4
<1> QED BY <1>1, <1>2 DEF Uncapped

LEMMA MemoInvCaps == MemoInv => CapIsRespected
<1> SUFFICES ASSUME MemoInv, NEW b \in Uncapped(slots, memoHighWater)
             PROVE  CappedFairly(b, MaxWeight(b, Cap))
    BY DEF CapIsRespected
<1>1. Sound(slots, "smooth", memoHighWater)
    BY DEF MemoInv, Averages
<1>2. PICK A \in SUBSET Assets : TargetsOver(A, b)
    BY <1>1, UncappedAreVisible
<1> QED BY <1>2, WaterfallIsFair DEF TargetsOver

LEMMA MemoInvPrices == MemoInv => TargetsArePriceable
<1> SUFFICES ASSUME MemoInv, Evaluated, NEW b \in Uncapped(slots, memoHighWater),
                    NEW a \in DOMAIN b.part, MaxWeight(b, Cap).part[a] > 0
             PROVE  AsOfSessionClose(closeAvail, a, LatestSession(SessionsAt(memoHighWater)),
                                     memoHighWater) # NoDay
    BY DEF TargetsArePriceable
<1>1. Sound(slots, "smooth", memoHighWater)
    BY DEF MemoInv, Averages
<1>2. PICK A \in SUBSET Assets :
          /\ TargetsOver(A, b)
          /\ \A x \in A : b.part[x] # 0 => Session(memoHighWater) \in VisibleDays(closeAvail, x, memoHighWater)
    BY <1>1, UncappedAreVisible
<1>3. b.part \in [A -> Nat] /\ b.whole \in Nat /\ a \in A
    BY <1>2 DEF TargetsOver
<1>4. b.part[a] # 0
    <2> SUFFICES ASSUME b.part[a] = 0 PROVE FALSE
        OBVIOUS
    <2>1. WaterInv(A, b, Waterfall(b, Cap))
        BY <1>3, WaterfallEnds
    <2>2. Waterfall(b, Cap).part[a] = 0
        BY <1>3, <2>1 DEF WaterInv, NothingFromNothing
    <2>3. MaxWeight(b, Cap).part[a] = 0
        BY <2>2 DEF MaxWeight
    <2> QED BY <2>3
<1>5. SessionsAt(memoHighWater) # {} /\ closeAvail \in CloseAvailability
    BY DEF Evaluated, MemoInv
<1>6. memoHighWater \in Instants
    <2>1. memoHighWater \in Instants \cup {0}
        BY DEF MemoInv
    <2>2. memoHighWater # 0
        <3>1. \A d \in Days : ~ (CloseAt(d) <= 0)
            BY MarketAssumption DEF Days, CloseAt
        <3> QED BY <1>5, <3>1 DEF SessionsAt, SessionsClosedBy
    <2> QED BY <2>1, <2>2
<1>7. AsOfSessionClose(closeAvail, a, Session(memoHighWater), memoHighWater) # NoDay
    BY <1>2, <1>3, <1>4, <1>5, <1>6, VisibleIsPriced
<1> QED BY <1>7 DEF Session

\* risk.max_weight keeps every weight at or below the cap, keeps the order of
\* the weights, creates nothing, and leaves weight in cash only when all that
\* is held sits at the cap: for any number of assets, any allocation the graph
\* makes and any cap.
THEOREM CapIsAlwaysRespected == MemoSpec => []CapIsRespected
<1>1. MemoInit => MemoInv
    BY MemoInvInitially
<1>2. MemoInv /\ [MemoNext]_memoVars => MemoInv'
    BY MemoInvStep
<1>3. MemoInv => CapIsRespected
    BY MemoInvCaps
<1> QED BY <1>1, <1>2, <1>3, PTL DEF MemoSpec

\* An asset is given weight only where the engine's cursor has a planning price
\* for it, the close of the session that is evaluated.
THEOREM TargetsAreAlwaysPriceable == MemoSpec => []TargetsArePriceable
<1>1. MemoInit => MemoInv
    BY MemoInvInitially
<1>2. MemoInv /\ [MemoNext]_memoVars => MemoInv'
    BY MemoInvStep
<1>3. MemoInv => TargetsArePriceable
    BY MemoInvPrices
<1> QED BY <1>1, <1>2, <1>3, PTL DEF MemoSpec

-----------------------------------------------------------------------------
(* Recursive functions.                                                    *)

\* From `first` on, each value is made from the one before and its index.
Iterates(f, lo, N, first, F) ==
    f = [i \in lo .. N |-> IF i = lo THEN first ELSE F[i][f[i - 1]]]

LEMMA IteratesExist ==
    ASSUME NEW N \in Nat, NEW S, NEW first \in S, NEW F \in [1 .. N -> [S -> S]]
    PROVE  \E f \in [0 .. N -> S] : Iterates(f, 0, N, first, F)
<1> DEFINE T == {m \in 0 .. N : \E f \in [0 .. m -> S] : Iterates(f, 0, m, first, F)}
<1>1. 0 \in T
    <2> DEFINE g == [i \in 0 .. 0 |-> first]
    <2>1. g = [i \in 0 .. 0 |-> IF i = 0 THEN first ELSE F[i][g[i - 1]]] /\ g \in [0 .. 0 -> S]
        OBVIOUS
    <2> HIDE DEF g
    <2> QED BY <2>1 DEF Iterates
<1>2. ASSUME NEW m \in 1 .. N, m - 1 \in T PROVE m \in T
    <2>1. PICK f \in [0 .. m - 1 -> S] : Iterates(f, 0, m - 1, first, F)
        BY <1>2
    <2> DEFINE g == [i \in 0 .. m |-> IF i = m THEN F[m][f[m - 1]] ELSE f[i]]
    <2>2. \A i \in 0 .. m - 1 : g[i] = f[i] /\ f[i] \in S
        OBVIOUS
    <2>3. \A i \in 0 .. m - 1 : f[i] = IF i = 0 THEN first ELSE F[i][f[i - 1]]
        BY <2>1 DEF Iterates
    <2>4. ASSUME NEW i \in 0 .. m
          PROVE  g[i] = (IF i = 0 THEN first ELSE F[i][g[i - 1]]) /\ g[i] \in S
        <3>1. CASE i = m
            <4>1. m - 1 \in 0 .. m - 1 /\ m # 0
                OBVIOUS
            <4>2. g[m] = F[m][f[m - 1]] /\ g[m - 1] = f[m - 1] /\ f[m - 1] \in S
                BY <2>2, <4>1
            <4> HIDE DEF g
            <4> QED BY <3>1, <4>1, <4>2
        <3>2. CASE i # m
            <4>1. i \in 0 .. m - 1 /\ (i # 0 => i - 1 \in 0 .. m - 1)
                BY <3>2
            <4> HIDE DEF g
            <4> QED BY <2>2, <2>3, <4>1
        <3> QED BY <3>1, <3>2
    <2>5. g = [i \in 0 .. m |-> IF i = 0 THEN first ELSE F[i][g[i - 1]]] /\ g \in [0 .. m -> S]
        <3>1. g = [i \in 0 .. m |-> g[i]]
            OBVIOUS
        <3> HIDE DEF g
        <3> QED BY <2>4, <3>1
    <2> HIDE DEF g
    <2>6. \E h \in [0 .. m -> S] : Iterates(h, 0, m, first, F)
        BY <2>5 DEF Iterates
    <2> QED BY <2>6
<1>3. N \in T
    <2> HIDE DEF T
    <2>1. \A m \in 0 .. N : m \in T
        BY <1>1, <1>2, InductionTo
    <2> QED BY <2>1
<1> QED BY <1>3

LEMMA IteratesExistFrom1 ==
    ASSUME NEW N \in Nat, NEW S, NEW first \in S, NEW F \in [2 .. N -> [S -> S]]
    PROVE  \E f \in [1 .. N -> S] : Iterates(f, 1, N, first, F)
<1> DEFINE G == [i \in 1 .. N |-> IF i + 1 \in 2 .. N THEN F[i + 1] ELSE [s \in S |-> first]]
<1>1. PICK f \in [0 .. N -> S] : Iterates(f, 0, N, first, G)
    <2>1. G \in [1 .. N -> [S -> S]]
        OBVIOUS
    <2> HIDE DEF G
    <2> QED BY <2>1, IteratesExist
<1>2. \A i \in 0 .. N : f[i] = IF i = 0 THEN first ELSE G[i][f[i - 1]]
    BY <1>1 DEF Iterates
<1>3. \A i \in 1 .. N : i + 1 \in 1 .. N => G[i] = F[i + 1]
    OBVIOUS
<1> HIDE DEF G
<1> DEFINE g == [i \in 1 .. N |-> f[i - 1]]
<1>4. ASSUME NEW i \in 1 .. N
      PROVE  g[i] = (IF i = 1 THEN first ELSE F[i][g[i - 1]]) /\ g[i] \in S
    <2>1. i - 1 \in 0 .. N /\ f[i - 1] \in S /\ g[i] = f[i - 1]
        OBVIOUS
    <2>2. CASE i = 1
        BY <1>2, <2>1, <2>2
    <2>3. CASE i # 1
        <3>1. /\ i - 1 \in 1 .. N /\ (i - 1) + 1 = i /\ g[i - 1] = f[(i - 1) - 1]
              /\ (i - 1) - 1 \in 0 .. N
            BY <2>3
        <3> HIDE DEF g
        <3> QED BY <1>2, <1>3, <2>1, <2>3, <3>1
    <2> QED BY <2>2, <2>3
<1>5. g = [i \in 1 .. N |-> g[i]]
    OBVIOUS
<1> HIDE DEF g
<1>6. g \in [1 .. N -> S] /\ g = [i \in 1 .. N |-> IF i = 1 THEN first ELSE F[i][g[i - 1]]]
    BY <1>4, <1>5
<1> QED BY <1>6 DEF Iterates

-----------------------------------------------------------------------------
(* The order of a component's graph.                                       *)

LEMMA SmallestIsLeast ==
    ASSUME NEW S \in SUBSET Nat, S # {}
    PROVE  Smallest(S) \in S
<1>1. PICK m \in S : \A n \in S : <<n, m>> \notin OpToRel(<, Nat)
    BY NatLessThanWellFounded, WFMin
<1>2. \A j, k \in Nat : <<k, j>> \notin OpToRel(<, Nat) => j <= k
    BY DEF OpToRel
<1>3. \A n \in S : m <= n
    BY <1>1, <1>2
<1> QED BY <1>3 DEF Smallest

\* A sequence of nodes without duplicates in which no edge leads back.
InOrder(s, ids, a) ==
    /\ s \in Seq(ids)
    /\ \A i, j \in 1 .. Len(s) : s[i] = s[j] => i = j
    /\ \A i, j \in 1 .. Len(s) : i <= j => s[i] \notin a[s[j]]

\* What the order's prefixes are.
Extends(first, n, ids, a) ==
    /\ first \in Seq(ids) /\ Len(first) = n
    /\ IsFiniteSet(Range(first)) /\ Cardinality(Range(first)) = n
    /\ \A i, j \in 1 .. n : first[i] = first[j] => i = j
    /\ \A i \in 1 .. n : \A m \in ids : first[i] \in a[m] => \E j \in 1 .. i - 1 : first[j] = m

LEMMA PrefixGrows ==
    ASSUME NEW N, IsFiniteSet(N), N \subseteq Nat, NEW a \in [N -> SUBSET N], ~HasCycle(a),
           NEW n \in Nat, n < Cardinality(N), NEW first, Extends(first, n, N, a),
           NEW next, next = Append(first, Smallest({k \in N \ Range(first) :
                                      \A m \in N \ Range(first) : k \notin a[m]}))
    PROVE  Extends(next, n + 1, N, a)
<1> DEFINE R == N \ Range(first)
           Free == {k \in R : \A m \in R : k \notin a[m]}
           node == Smallest(Free)
<1>1. /\ first \in Seq(N) /\ Len(first) = n
      /\ IsFiniteSet(Range(first)) /\ Cardinality(Range(first)) = n
      /\ \A i, j \in 1 .. n : first[i] = first[j] => i = j
      /\ \A i \in 1 .. n : \A m \in N : first[i] \in a[m] => \E j \in 1 .. i - 1 : first[j] = m
    BY DEF Extends
<1>2. Range(first) = {first[i] : i \in 1 .. n}
    BY <1>1 DEF Range
<1>3. R # {} /\ R \in SUBSET N
    <2>1. Range(first) \in SUBSET N
        BY <1>1, <1>2
    <2>2. Range(first) # N
        BY <1>1
    <2> QED BY <2>1, <2>2
<1>4. Free # {} /\ Free \in SUBSET Nat
    BY <1>3, HasSourceWithoutCycle
<1>5. node \in Free
    <2> HIDE DEF Free
    <2> QED BY <1>4, SmallestIsLeast
<1>6. next = Append(first, node) /\ node \in N /\ node \notin Range(first)
    BY <1>5
<1>7. \A m \in N : node \in a[m] => m \in Range(first)
    BY <1>5
<1> HIDE DEF node
<1>8. /\ next \in Seq(N) /\ Len(next) = n + 1 /\ next[n + 1] = node
      /\ \A i \in 1 .. n : next[i] = first[i]
    BY <1>1, <1>6
<1>9. Range(next) = Range(first) \cup {node}
    <2>1. DOMAIN next = 1 .. n + 1
        BY <1>8
    <2>2. Range(next) = {next[i] : i \in 1 .. n + 1}
        BY <2>1 DEF Range
    <2>3. 1 .. n + 1 = (1 .. n) \cup {n + 1}
        OBVIOUS
    <2>4. \A x : x \in Range(next) <=> (\E i \in 1 .. n : next[i] = x) \/ next[n + 1] = x
        BY <2>2, <2>3
    <2>5. \A x : x \in Range(next) <=> x \in Range(first) \/ x = node
        BY <2>4, <1>2, <1>8
    <2> QED BY <2>5
<1>10. IsFiniteSet(Range(next)) /\ Cardinality(Range(next)) = n + 1
    <2> DEFINE S == Range(first)
    <2>1. IsFiniteSet(S) /\ Cardinality(S) = n /\ node \notin S
        BY <1>1, <1>6
    <2>2. IsFiniteSet(S \cup {node}) /\ Cardinality(S \cup {node}) = n + 1
        <3> HIDE DEF S
        <3> QED BY <2>1, FS_AddElement
    <2> QED BY <2>2, <1>9
<1>11. \A i, j \in 1 .. n + 1 : next[i] = next[j] => i = j
    BY <1>1, <1>2, <1>6, <1>8
<1>12. ASSUME NEW i \in 1 .. n + 1, NEW m \in N, next[i] \in a[m]
       PROVE  \E j \in 1 .. i - 1 : next[j] = m
    <2>1. CASE i = n + 1
        <3>1. PICK j \in 1 .. n : first[j] = m
            BY <2>1, <1>2, <1>7, <1>8, <1>12
        <3> QED BY <3>1, <2>1, <1>8
    <2>2. CASE i # n + 1
        <3>1. i \in 1 .. n /\ first[i] \in a[m]
            BY <2>2, <1>8, <1>12
        <3>2. PICK j \in 1 .. i - 1 : first[j] = m
            BY <3>1, <1>1
        <3> QED BY <3>1, <3>2, <1>8
    <2> QED BY <2>1, <2>2
<1> QED BY <1>8, <1>10, <1>11, <1>12 DEF Extends

\* A component's graph without a cycle is put in order, all of it.
LEMMA CanonicalOrderIsComplete ==
    ASSUME NEW N, IsFiniteSet(N), N \subseteq Nat, NEW a \in [N -> SUBSET N], ~HasCycle(a)
    PROVE  InOrder(CanonicalOrder(a), N, a) /\ Range(CanonicalOrder(a)) = N
<1> DEFINE size == Cardinality(N)
           Free(done) == {k \in N \ done : \A m \in N \ done : k \notin a[m]}
           U == {Smallest(T) : T \in SUBSET N}
           Grown == [i \in 1 .. size |-> [first \in Seq(U) |->
                       Append(first, Smallest(Free(Range(first))))]]
           IsGrowing(f) == f = [i \in 0 .. size |-> IF i = 0 THEN <<>>
                               ELSE Append(f[i - 1], Smallest(Free(Range(f[i - 1]))))]
           prefix == CHOOSE f : IsGrowing(f)
<1>1. size \in Nat
    BY FS_CardinalityType
<1>2. \A first : Free(Range(first)) \in SUBSET N
    OBVIOUS
<1>3. Grown \in [1 .. size -> [Seq(U) -> Seq(U)]] /\ <<>> \in Seq(U)
    <2>1. \A first : Smallest(Free(Range(first))) \in U
        BY <1>2
    <2> HIDE DEF U, Free, size
    <2> QED BY <2>1
<1>4. \E f : IsGrowing(f)
    <2> DEFINE S == Seq(U)
    <2>1. PICK f \in [0 .. size -> S] : Iterates(f, 0, size, <<>>, Grown)
        <3> HIDE DEF size, S, Grown
        <3>1. Grown \in [1 .. size -> [S -> S]] /\ <<>> \in S
            BY <1>3 DEF S
        <3> QED BY <1>1, <3>1, IteratesExist
    <2>2. \A i \in 0 .. size : i # 0 =>
              Grown[i][f[i - 1]] = Append(f[i - 1], Smallest(Free(Range(f[i - 1]))))
        <3>1. \A i \in 0 .. size : i # 0 => f[i - 1] \in S /\ i \in 1 .. size
            BY <1>1
        <3> HIDE DEF Free, size, U
        <3> QED BY <3>1
    <2>3. f = [i \in 0 .. size |-> IF i = 0 THEN <<>> ELSE Grown[i][f[i - 1]]]
        BY <2>1 DEF Iterates
    <2> HIDE DEF Grown, Free, size, S
    <2>4. IsGrowing(f)
        BY <2>2, <2>3
    <2> QED BY <2>4
<1>5. IsGrowing(prefix)
    <2> HIDE DEF IsGrowing
    <2> QED BY <1>4
<1>6. CanonicalOrder(a) = prefix[size]
    BY DEF CanonicalOrder
<1>7. \A i \in 0 .. size : prefix[i] = IF i = 0 THEN <<>>
                              ELSE Append(prefix[i - 1], Smallest(Free(Range(prefix[i - 1]))))
    <2> HIDE DEF prefix, Free, size
    <2> QED BY <1>5
<1> HIDE DEF prefix
<1> DEFINE T == {i \in 0 .. size : Extends(prefix[i], i, N, a)}
<1> HIDE DEF size, Free
<1>8. 0 \in T
    <2>1. Range(<<>>) = {}
        BY DEF Range
    <2>2. prefix[0] = <<>> /\ 0 \in 0 .. size
        BY <1>1, <1>7
    <2>3. Extends(<<>>, 0, N, a)
        BY <2>1, FS_EmptySet DEF Extends
    <2> QED BY <2>2, <2>3
<1>9. ASSUME NEW i \in 1 .. size, i - 1 \in T PROVE i \in T
    <2>1. prefix[i] = Append(prefix[i - 1], Smallest(Free(Range(prefix[i - 1]))))
        <3>1. i \in 0 .. size /\ i # 0
            BY <1>1
        <3> HIDE DEF T
        <3> QED BY <3>1, <1>7
    <2>2. i - 1 \in Nat /\ i - 1 < size /\ Extends(prefix[i - 1], i - 1, N, a)
        BY <1>1, <1>9
    <2>3. Extends(prefix[i], (i - 1) + 1, N, a)
        BY <2>1, <2>2, PrefixGrows DEF size, Free
    <2> QED BY <2>3, <1>1
<1>10. size \in T
    <2> HIDE DEF T, size
    <2>1. \A i \in 0 .. size : i \in T
        BY <1>1, <1>8, <1>9, InductionTo
    <2> QED BY <2>1, <1>1
<1> DEFINE s == prefix[size]
<1>11. /\ s \in Seq(N) /\ Len(s) = size /\ Cardinality(Range(s)) = Cardinality(N)
       /\ \A i, j \in 1 .. size : s[i] = s[j] => i = j
       /\ \A i \in 1 .. size : \A m \in N : s[i] \in a[m] => \E j \in 1 .. i - 1 : s[j] = m
    BY <1>10 DEF Extends, size
<1> HIDE DEF s
<1>12. Range(s) = N
    <2>1. Range(s) \in SUBSET N
        BY <1>11 DEF Range
    <2> QED BY <2>1, <1>11, FS_Subset DEF size
<1>13. ASSUME NEW i \in 1 .. size, NEW j \in 1 .. size, i <= j, s[i] \in a[s[j]] PROVE FALSE
    <2>1. s[j] \in N
        BY <1>1, <1>11
    <2>2. PICK k \in 1 .. i - 1 : s[k] = s[j]
        BY <1>11, <1>13, <2>1
    <2>3. k \in 1 .. size /\ k # j
        BY <1>1, <1>13
    <2> QED BY <2>2, <2>3, <1>11
<1>14. CanonicalOrder(a) = s
    BY <1>6 DEF s
<1> QED BY <1>11, <1>12, <1>13, <1>14 DEF InOrder

-----------------------------------------------------------------------------
(* What the checks before the evaluation establish.                        *)

Tables(owner, held) == PortTables(owner, Range(owner.nodes), held)

NodesAreUnique(owner) == \A m, n \in Range(owner.nodes) : m.id = n.id => m = n

NodesResolve(owner, held) ==
    \A n \in Range(owner.nodes) :
        IF n.type = "component" THEN KeyOf(owner, n) \in DOMAIN held ELSE Resolves(n)

EdgesFit(owner, held) ==
    \A e \in Edges(owner) :
        /\ e.from[1] \in Ids(owner) /\ e.to[1] \in Ids(owner) /\ e.from[1] # e.to[1]
        /\ HasOutput(Tables(owner, held), e.from) /\ HasInput(Tables(owner, held), e.to)
        /\ IsCompatible(Tables(owner, held)[e.from[1]].outputs[e.from[2]],
                        Tables(owner, held)[e.to[1]].inputs[e.to[2]])

InputsAreFed(owner, feeds, held) ==
    \A id \in Ids(owner) : \A port \in DOMAIN Tables(owner, held)[id].inputs :
        <<id, port>> \in Range(Ends(owner)) \cup feeds

\* A graph whose inputs are fed by its edges and, from outside, where `feeds` says.
Wired(owner, feeds, held) ==
    /\ NodesAreUnique(owner) /\ NodesResolve(owner, held)
    /\ EdgesFit(owner, held) /\ InputsAreFed(owner, feeds, held)

OutputsFit(definition, held) ==
    \A p \in Range(definition.exposed_outputs) :
        /\ HasOutput(Tables(definition, held), p.maps_to)
        /\ IsCompatible(Tables(definition, held)[p.maps_to[1]].outputs[p.maps_to[2]], p.type)

Feeds(definition) == {p.maps_to : p \in Range(definition.exposed_inputs)}

Usable(definition, held) ==
    /\ Wired(definition, Feeds(definition), held) /\ OutputsFit(definition, held)
    /\ ~HasCycle(AdjacencyIn(definition))

LEMMA NodeOfIsTheNode ==
    ASSUME NEW owner, NodesAreUnique(owner), NEW n \in Range(owner.nodes)
    PROVE  NodeOf(owner, n.id) = n
BY DEF NodesAreUnique, NodeOf

\* What a sound structure gives: one node of each id, edges between two nodes
\* that exist, and a pin for every component.
LEMMA StructureIsSound ==
    ASSUME NEW owner, GraphErrors(owner) = {}
    PROVE  /\ IsInjective([i \in DOMAIN owner.nodes |-> owner.nodes[i].id])
           /\ NodesAreUnique(owner)
           /\ \A e \in Edges(owner) :
                 e.from[1] \in Ids(owner) /\ e.to[1] \in Ids(owner) /\ e.from[1] # e.to[1]
           /\ \A n \in Range(owner.nodes) :
                 n.type = "component" => KeyOf(owner, n) \in PinnedBy(owner)
<1>1. /\ IsInjective([i \in DOMAIN owner.nodes |-> owner.nodes[i].id])
      /\ ~\E node \in Instances(owner) : node.ref \notin RefIds(owner)
      /\ ~\E e \in Edges(owner) : {e.from[1], e.to[1]} \ Ids(owner) # {}
      /\ ~\E e \in Edges(owner) : e.from[1] = e.to[1]
    <2> HIDE DEF IsInjective, Instances, RefIds, Edges, Ids
    <2> QED BY DEF GraphErrors, When
<1>2. NodesAreUnique(owner)
    BY <1>1 DEF IsInjective, NodesAreUnique, Range
<1>3. ASSUME NEW n \in Range(owner.nodes), n.type = "component"
      PROVE  KeyOf(owner, n) \in PinnedBy(owner)
    <2>1. n \in Instances(owner)
        BY <1>3 DEF Instances, Registered
    <2>2. \E ref \in Range(owner.component_refs) : ref.id = n.ref
        BY <1>1, <2>1 DEF RefIds
    <2> QED BY <2>2 DEF KeyOf, PinnedBy
<1>4. \A e \in Edges(owner) :
         e.from[1] \in Ids(owner) /\ e.to[1] \in Ids(owner) /\ e.from[1] # e.to[1]
    BY <1>1
<1> QED BY <1>1, <1>2, <1>3, <1>4

\* Where all nodes resolve, every node has its ports.
LEMMA TablesAreTotal ==
    ASSUME NEW owner, NEW held, NodesAreUnique(owner), NodesResolve(owner, held)
    PROVE  /\ DOMAIN Tables(owner, held) = Ids(owner)
           /\ \A n \in Range(owner.nodes) :
                 Tables(owner, held)[n.id] =
                    IF n.type = "component" THEN Interface(held[KeyOf(owner, n)])
                    ELSE CoreBindings[n.type]
<1>1. {m \in Range(owner.nodes) : IF m.type = "component" THEN KeyOf(owner, m) \in DOMAIN held
                                   ELSE Resolves(m)} = Range(owner.nodes)
    BY DEF NodesResolve
<1>2. DOMAIN Tables(owner, held) = Ids(owner)
    BY <1>1 DEF Tables, PortTables, Ids
<1>3. ASSUME NEW n \in Range(owner.nodes)
      PROVE  Tables(owner, held)[n.id] =
                IF n.type = "component" THEN Interface(held[KeyOf(owner, n)])
                ELSE CoreBindings[n.type]
    <2>1. NodeOf(owner, n.id) = n
        BY NodeOfIsTheNode
    <2>2. n.id \in {m.id : m \in Range(owner.nodes)}
        OBVIOUS
    <2> QED BY <1>1, <2>1, <2>2 DEF Tables, PortTables
<1> QED BY <1>2, <1>3

LEMMA EdgeErrorsMean ==
    ASSUME NEW edges, NEW tables, EdgeErrors(edges, tables) = {}, NEW e \in edges,
           e.from[1] \in DOMAIN tables, e.to[1] \in DOMAIN tables
    PROVE  /\ HasOutput(tables, e.from) /\ HasInput(tables, e.to)
           /\ IsCompatible(tables[e.from[1]].outputs[e.from[2]], tables[e.to[1]].inputs[e.to[2]])
BY DEF EdgeErrors, When

LEMMA UnconnectedMeans ==
    ASSUME NEW tables, NEW connected, Unconnected(tables, connected) = {},
           NEW id \in DOMAIN tables, NEW port \in DOMAIN tables[id].inputs
    PROVE  <<id, port>> \in connected
BY DEF Unconnected, When

\* What resolves can be used: every definition at hand is wired, however deep
\* components are nested in it.
LEMMA ResolvedIsUsable ==
    ASSUME NEW d, NEW held, Resolution(d, held) = {}
    PROVE  /\ PinnedBy(d) \subseteq DOMAIN held
           /\ \A k \in DOMAIN held : Usable(held[k], held)
<1> DEFINE pins == PinnedBy(d) \cup UNION {PinnedBy(held[k]) : k \in DOMAIN held}
           unsound ==
              When(pins \ DOMAIN held # {}, "component_definition_unavailable")
              \cup SetErrors(held)
              \cup When(\E k \in DOMAIN held : ~DefinitionIsStructural(held[k]),
                        "component_definition_invalid")
           misfits == UNION {DefinitionErrors(held[k], held) : k \in DOMAIN held}
<1>1. unsound = {} /\ misfits = {}
    <2>1. IF unsound # {} THEN unsound = {} ELSE IF misfits # {} THEN misfits = {} ELSE TRUE
        BY DEF Resolution
    <2> QED BY <2>1
<1>2. pins \subseteq DOMAIN held /\ \A k \in DOMAIN held : DefinitionIsStructural(held[k])
    <2> HIDE DEF pins
    <2> QED BY <1>1 DEF When
<1>3. \A k \in DOMAIN held : DefinitionErrors(held[k], held) = {}
    BY <1>1
<1>4. ASSUME NEW k \in DOMAIN held
      PROVE  Usable(held[k], held)
    <2> DEFINE definition == held[k]
               tables == Tables(definition, held)
    <2>1. GraphErrors(definition) = {} /\ ~HasCycle(AdjacencyIn(definition))
        BY <1>2 DEF DefinitionIsStructural
    <2>2. DefinitionErrors(definition, held) = {}
        BY <1>3
    <2> HIDE DEF definition
    <2>3. /\ ~\E node \in Registered(definition) : ~Resolves(node)
          /\ ExposedOutputErrors(definition, tables) = {}
          /\ EdgeErrors(Edges(definition), tables) = {}
          /\ Unconnected(tables, Range(Ends(definition)) \cup Feeds(definition)) = {}
        BY <2>2 DEF DefinitionErrors, When, Tables, Feeds
    <2>4. /\ NodesAreUnique(definition)
          /\ \A e \in Edges(definition) : e.from[1] \in Ids(definition)
                                          /\ e.to[1] \in Ids(definition) /\ e.from[1] # e.to[1]
          /\ \A n \in Range(definition.nodes) :
                n.type = "component" => KeyOf(definition, n) \in PinnedBy(definition)
        BY <2>1, StructureIsSound
    <2>5. NodesResolve(definition, held)
        <3>1. PinnedBy(definition) \subseteq DOMAIN held
            BY <1>2 DEF definition
        <3>2. \A n \in Range(definition.nodes) : n.type # "component" => Resolves(n)
            BY <2>3 DEF Registered
        <3> QED BY <2>4, <3>1, <3>2 DEF NodesResolve
    <2>6. DOMAIN tables = Ids(definition)
        BY <2>4, <2>5, TablesAreTotal
    <2>7. EdgesFit(definition, held)
        <3> HIDE DEF tables
        <3>1. \A e \in Edges(definition) :
                /\ HasOutput(tables, e.from) /\ HasInput(tables, e.to)
                /\ IsCompatible(tables[e.from[1]].outputs[e.from[2]],
                                tables[e.to[1]].inputs[e.to[2]])
            BY <2>3, <2>4, <2>6, EdgeErrorsMean
        <3> QED BY <2>4, <3>1 DEF EdgesFit, tables
    <2>8. InputsAreFed(definition, Feeds(definition), held)
        <3> HIDE DEF tables
        <3>1. \A id \in DOMAIN tables : \A port \in DOMAIN tables[id].inputs :
                 <<id, port>> \in Range(Ends(definition)) \cup Feeds(definition)
            BY <2>3, UnconnectedMeans
        <3> QED BY <2>6, <3>1 DEF InputsAreFed, tables
    <2>9. OutputsFit(definition, held)
        BY <2>3 DEF ExposedOutputErrors, When, OutputsFit
    <2> QED BY <2>1, <2>4, <2>5, <2>7, <2>8, <2>9 DEF Usable, Wired, definition
<1> QED BY <1>2, <1>4

\* And so is the document itself, by its edges alone.
LEMMA CheckedIsWired ==
    ASSUME NEW d, NEW held, GraphErrors(d) = {}, Preflight(d, held) = {}
    PROVE  /\ Wired(d, {}, held)
           /\ TerminalNodes(d) # {}
           /\ \A k \in DOMAIN held : Usable(held[k], held)
<1> DEFINE tables == Tables(d, held)
           own == PortTables(d, Registered(d), <<>>)
           components == {node.id : node \in Instances(d)}
<1>1. Semantics(d) = {} /\ Resolution(d, held) = {} /\ Wiring(d, held) = {} /\ TerminalRule(d) = {}
    <2> DEFINE inner == Semantics(d) \cup Resolution(d, held)
    <2>1. IF inner # {} THEN inner = {} ELSE Wiring(d, held) \cup TerminalRule(d) = {}
        BY DEF Preflight
    <2> QED BY <2>1
<1>2. PinnedBy(d) \subseteq DOMAIN held /\ \A k \in DOMAIN held : Usable(held[k], held)
    BY <1>1, ResolvedIsUsable
<1>3. /\ NodesAreUnique(d)
      /\ \A e \in Edges(d) : e.from[1] \in Ids(d) /\ e.to[1] \in Ids(d) /\ e.from[1] # e.to[1]
      /\ \A n \in Range(d.nodes) : n.type = "component" => KeyOf(d, n) \in PinnedBy(d)
    BY StructureIsSound
<1>4. /\ ~\E node \in Registered(d) : ~Resolves(node)
      /\ EdgeErrors(Edges(d), own) = {}
      /\ Unconnected(own, Range(Ends(d))) = {}
    BY <1>1 DEF Semantics, When
<1>5. /\ EdgeErrors({e \in Edges(d) : {e.from[1], e.to[1]} \cap components # {}}, tables) = {}
      /\ Unconnected(Restrict(tables, components), Range(Ends(d))) = {}
    BY <1>1 DEF Wiring, Tables
<1>6. TerminalNodes(d) # {}
    BY <1>1 DEF TerminalRule, When
<1>7. NodesResolve(d, held)
    <2>1. \A n \in Range(d.nodes) : n.type # "component" => Resolves(n)
        BY <1>4 DEF Registered
    <2> QED BY <1>2, <1>3, <2>1 DEF NodesResolve
<1>8. /\ DOMAIN tables = Ids(d)
      /\ \A n \in Range(d.nodes) :
            tables[n.id] = IF n.type = "component" THEN Interface(held[KeyOf(d, n)])
                           ELSE CoreBindings[n.type]
    BY <1>3, <1>7, TablesAreTotal
<1>9. /\ DOMAIN own = {n.id : n \in Registered(d)}
      /\ \A id \in DOMAIN own : own[id] = tables[id]
    <2>1. {m \in Registered(d) : IF m.type = "component" THEN KeyOf(d, m) \in DOMAIN <<>>
                                 ELSE Resolves(m)} = Registered(d)
        BY <1>4 DEF Registered
    <2>2. DOMAIN own = {n.id : n \in Registered(d)}
        BY <2>1 DEF PortTables
    <2>3. ASSUME NEW n \in Registered(d)
          PROVE  own[n.id] = tables[n.id]
        <3>1. n \in Range(d.nodes) /\ n.type # "component"
            BY DEF Registered
        <3>2. NodeOf(d, n.id) = n
            BY <1>3, <3>1, NodeOfIsTheNode
        <3>3. tables[n.id] = CoreBindings[n.type]
            BY <1>8, <3>1
        <3>4. n.id \in {m.id : m \in Registered(d)}
            OBVIOUS
        <3>5. own[n.id] = CoreBindings[n.type]
            BY <2>1, <3>1, <3>2, <3>4 DEF PortTables
        <3> QED BY <3>3, <3>5
    <2> QED BY <2>2, <2>3
<1>10. \A id \in Ids(d) : id \in DOMAIN own \/ id \in components
    BY <1>9 DEF Ids, Instances
<1> HIDE DEF tables, own, components
<1>11. EdgesFit(d, held)
    <2>1. ASSUME NEW e \in Edges(d)
          PROVE  /\ HasOutput(tables, e.from) /\ HasInput(tables, e.to)
                 /\ IsCompatible(tables[e.from[1]].outputs[e.from[2]],
                                 tables[e.to[1]].inputs[e.to[2]])
        <3>1. e.from[1] \in Ids(d) /\ e.to[1] \in Ids(d)
            BY <1>3
        <3>2. CASE e.from[1] \in components \/ e.to[1] \in components
            <4> DEFINE edges == {f \in Edges(d) : {f.from[1], f.to[1]} \cap components # {}}
            <4>1. e \in edges
                BY <3>2
            <4> HIDE DEF edges
            <4>2. EdgeErrors(edges, tables) = {}
                BY <1>5 DEF edges
            <4> QED BY <4>1, <4>2, <3>1, <1>8, EdgeErrorsMean
        <3>3. CASE e.from[1] \in DOMAIN own /\ e.to[1] \in DOMAIN own
            <4>1. /\ HasOutput(own, e.from) /\ HasInput(own, e.to)
                  /\ IsCompatible(own[e.from[1]].outputs[e.from[2]],
                                  own[e.to[1]].inputs[e.to[2]])
                BY <1>4, <3>3, EdgeErrorsMean
            <4> QED BY <4>1, <3>1, <3>3, <1>8, <1>9 DEF HasOutput, HasInput
        <3> QED BY <3>1, <3>2, <3>3, <1>10
    <2> QED BY <1>3, <2>1 DEF EdgesFit, tables
<1>12. InputsAreFed(d, {}, held)
    <2>1. ASSUME NEW id \in Ids(d), NEW port \in DOMAIN tables[id].inputs
          PROVE  <<id, port>> \in Range(Ends(d))
        <3>1. CASE id \in components
            <4>1. id \in DOMAIN Restrict(tables, components)
                  /\ Restrict(tables, components)[id] = tables[id]
                BY <3>1 DEF Restrict
            <4> QED BY <4>1, <1>5, UnconnectedMeans
        <3>2. CASE id \in DOMAIN own
            BY <3>2, <1>4, <1>9, UnconnectedMeans
        <3> QED BY <3>1, <3>2, <1>10
    <2> QED BY <2>1 DEF InputsAreFed, tables
<1> QED BY <1>2, <1>3, <1>6, <1>7, <1>11, <1>12 DEF Wired

-----------------------------------------------------------------------------
(* The graphs under execution.                                             *)

\* All outputs of a node are in the store, as values of the types declared.
OutputsAreIn(values, f, id, held) ==
    \A port \in DOMAIN Tables(f.owner, held)[id].outputs :
        /\ <<Append(f.path, id), port>> \in DOMAIN values
        /\ values[<<Append(f.path, id), port>>] # None
        /\ IsCompatible(values[<<Append(f.path, id), port>>].type,
                        Tables(f.owner, held)[id].outputs[port])

\* A frame's graph is wired, what comes from outside is there, the nodes that are
\* left are in order, and those that are not left have their outputs.
Framed(f, depth, held, values) ==
    /\ f = Frame(f.owner, f.path, f.todo, f.externals)
    /\ f.path \in Seq(Nat) /\ Len(f.path) = depth - 1
    /\ Ids(f.owner) \subseteq Nat
    /\ Wired(f.owner, DOMAIN f.externals, held)
    /\ \A end \in DOMAIN f.externals : f.externals[end] # None
    /\ InOrder(f.todo, Ids(f.owner), AdjacencyIn(f.owner))
    /\ \A id \in Ids(f.owner) \ Range(f.todo) : OutputsAreIn(values, f, id, held)

\* A frame waits at the component node whose graph the next frame executes.
Waits(f, g, held) ==
    /\ f.todo # <<>> /\ NodeOf(f.owner, Head(f.todo)).type = "component"
    /\ g.path = Append(f.path, Head(f.todo))
    /\ g.owner = held[KeyOf(f.owner, NodeOf(f.owner, Head(f.todo)))]

Frames(frames, d, held, values) ==
    /\ frames # <<>> /\ \E S : frames \in Seq(S)
    /\ \A k \in 1 .. Len(frames) : Framed(frames[k], k, held, values)
    /\ \A k \in 1 .. Len(frames) - 1 : Waits(frames[k], frames[k + 1], held)
    /\ frames[1].owner = d

\* What is added to a store at one address leaves the other addresses alone.
LEMMA ElsewhereIsKept ==
    ASSUME NEW values, NEW new, NEW address, \A key \in DOMAIN new : key[1] = address,
           NEW f, NEW id, NEW held, OutputsAreIn(values, f, id, held), Append(f.path, id) # address
    PROVE  OutputsAreIn(With(values, new), f, id, held)
<1>. SUFFICES ASSUME NEW port \in DOMAIN Tables(f.owner, held)[id].outputs
              PROVE  LET key == <<Append(f.path, id), port>>
                     IN  key \in DOMAIN With(values, new) /\ With(values, new)[key] = values[key]
  BY DEF OutputsAreIn
<1>. DEFINE key == <<Append(f.path, id), port>>
<1>1. key \notin DOMAIN new /\ key \in DOMAIN values
  BY DEF OutputsAreIn
<1>. HIDE DEF key
<1>2. key \in DOMAIN With(values, new) /\ With(values, new)[key] = values[key]
  BY <1>1 DEF With
<1>. QED BY <1>2 DEF key

\* What is added at the address of a node of another frame leaves a frame alone.
LEMMA FrameIsKept ==
    ASSUME NEW f, NEW depth \in Nat, NEW held, NEW values, Framed(f, depth, held, values),
           NEW new, NEW address, Len(address) # depth, \A key \in DOMAIN new : key[1] = address
    PROVE  Framed(f, depth, held, With(values, new))
<1>1. f.path \in Seq(Nat) /\ Len(f.path) = depth - 1 /\ Ids(f.owner) \subseteq Nat
  BY DEF Framed
<1>2. \A id \in Ids(f.owner) : Append(f.path, id) # address
  BY <1>1
<1>3. \A id \in Ids(f.owner) \ Range(f.todo) : OutputsAreIn(With(values, new), f, id, held)
  BY <1>2, ElsewhereIsKept DEF Framed
<1>. QED BY <1>3 DEF Framed

\* What remains of an order is in order.
LEMMA TailIsInOrder ==
    ASSUME NEW s, NEW ids, NEW a, InOrder(s, ids, a), s # <<>>
    PROVE  /\ Head(s) \in ids /\ InOrder(Tail(s), ids, a)
           /\ Range(Tail(s)) = Range(s) \ {Head(s)}
           /\ \A id \in ids : Head(s) \in a[id] => id \notin Range(s)
<1>1. /\ s \in Seq(ids) /\ \A i, j \in 1 .. Len(s) : s[i] = s[j] => i = j
      /\ \A i, j \in 1 .. Len(s) : i <= j => s[i] \notin a[s[j]]
  BY DEF InOrder
<1>. DEFINE n == Len(s)
            t == Tail(s)
<1>2. n \in Nat /\ n >= 1 /\ Head(s) = s[1] /\ Head(s) \in ids
  BY <1>1
<1>3. t \in Seq(ids) /\ Len(t) = n - 1 /\ \A i \in 1 .. n - 1 : t[i] = s[i + 1]
  BY <1>1
<1>4. DOMAIN s = 1 .. n /\ DOMAIN t = 1 .. n - 1
  BY <1>1, <1>3
<1>5. Range(s) = {s[i] : i \in 1 .. n} /\ Range(t) = {t[i] : i \in 1 .. n - 1}
  BY <1>4 DEF Range
<1>. HIDE DEF n, t
<1>6. \A i \in 1 .. n - 1 : i + 1 \in 1 .. n /\ i + 1 # 1
  BY <1>2
<1>7. InOrder(t, ids, a)
  <2>1. \A i, j \in 1 .. n - 1 : t[i] = t[j] => i = j
    BY <1>1, <1>2, <1>3, <1>6 DEF n
  <2>2. ASSUME NEW i \in 1 .. n - 1, NEW j \in 1 .. n - 1, i <= j
        PROVE  t[i] \notin a[t[j]]
    BY <2>2, <1>1, <1>2, <1>3, <1>6 DEF n
  <2>. QED BY <1>3, <2>1, <2>2 DEF InOrder
<1>8. Range(t) = Range(s) \ {s[1]}
  <2>1. ASSUME NEW x \in Range(s), x # s[1]
        PROVE  x \in Range(t)
    <3>1. PICK i \in 1 .. n : s[i] = x
      BY <1>5
    <3>2. i - 1 \in 1 .. n - 1 /\ (i - 1) + 1 = i
      BY <3>1, <2>1, <1>2
    <3>3. t[i - 1] = x
      BY <3>1, <3>2, <1>3
    <3>. QED BY <3>2, <3>3, <1>5
  <2>2. ASSUME NEW x \in Range(t)
        PROVE  x \in Range(s) /\ x # s[1]
    <3>1. PICK i \in 1 .. n - 1 : t[i] = x
      BY <1>5
    <3>2. i + 1 \in 1 .. n /\ s[i + 1] = x /\ i + 1 # 1 /\ 1 \in 1 .. n
      BY <3>1, <1>2, <1>3, <1>6
    <3>. QED BY <3>2, <1>1, <1>5 DEF n
  <2>. QED BY <2>1, <2>2
<1>9. ASSUME NEW id \in ids, Head(s) \in a[id]
      PROVE  id \notin Range(s)
  BY <1>9, <1>1, <1>2, <1>5 DEF n
<1>. QED BY <1>2, <1>7, <1>8, <1>9 DEF t

\* A frame whose first node has its outputs goes on to the next node.
LEMMA FrameAdvances ==
    ASSUME NEW f, NEW depth \in Nat, NEW held, NEW values, Framed(f, depth, held, values),
           f.todo # <<>>, NEW new, \A key \in DOMAIN new : key[1] = Append(f.path, Head(f.todo)),
           OutputsAreIn(With(values, new), f, Head(f.todo), held)
    PROVE  /\ Framed([f EXCEPT !.todo = Tail(@)], depth, held, With(values, new))
           /\ [f EXCEPT !.todo = Tail(@)].owner = f.owner
           /\ [f EXCEPT !.todo = Tail(@)].path = f.path
<1>. DEFINE g == [f EXCEPT !.todo = Tail(@)]
            first == Head(f.todo)
<1>1. f = Frame(f.owner, f.path, f.todo, f.externals)
  BY DEF Framed
<1>2. /\ g = Frame(f.owner, f.path, Tail(f.todo), f.externals)
      /\ g.owner = f.owner /\ g.path = f.path /\ g.todo = Tail(f.todo) /\ g.externals = f.externals
  BY <1>1 DEF Frame
<1>3. InOrder(f.todo, Ids(f.owner), AdjacencyIn(f.owner))
  BY DEF Framed
<1>4. /\ first \in Ids(f.owner)
      /\ InOrder(Tail(f.todo), Ids(f.owner), AdjacencyIn(f.owner))
      /\ Range(Tail(f.todo)) = Range(f.todo) \ {first}
  BY <1>3, TailIsInOrder
<1>5. f.path \in Seq(Nat) /\ Ids(f.owner) \subseteq Nat
  BY DEF Framed
<1>6. ASSUME NEW id \in Ids(f.owner) \ Range(Tail(f.todo))
      PROVE  OutputsAreIn(With(values, new), f, id, held)
  <2>1. CASE id = first
    BY <2>1
  <2>2. CASE id # first
    <3>1. Append(f.path, id) # Append(f.path, first)
      <4>. HIDE DEF first
      <4>1. id \in Nat /\ first \in Nat
        BY <1>4, <1>5
      <4>2. /\ Append(f.path, id)[Len(f.path) + 1] = id
            /\ Append(f.path, first)[Len(f.path) + 1] = first
        BY <4>1, <1>5
      <4>. QED BY <4>2, <2>2
    <3>2. OutputsAreIn(values, f, id, held)
      BY <2>2, <1>4 DEF Framed
    <3>. QED BY <3>1, <3>2, ElsewhereIsKept
  <2>. QED BY <2>1, <2>2
<1>. HIDE DEF g
<1>7. \A id \in Ids(g.owner) \ Range(g.todo) : OutputsAreIn(With(values, new), g, id, held)
  BY <1>2, <1>6 DEF OutputsAreIn
<1>8. Framed(g, depth, held, With(values, new))
  BY <1>2, <1>4, <1>7 DEF Framed
<1>. QED BY <1>2, <1>8 DEF g

LEMMA WiderSeq ==
    ASSUME NEW S, NEW T, S \subseteq T, NEW s \in Seq(S)
    PROVE  s \in Seq(T)
  OBVIOUS

\* The innermost frame goes on.
LEMMA FramesAdvance ==
    ASSUME NEW frames, NEW d, NEW held, NEW values, Frames(frames, d, held, values),
           NEW n, n = Len(frames), frames[n].todo # <<>>,
           NEW new, \A key \in DOMAIN new : key[1] = Append(frames[n].path, Head(frames[n].todo)),
           OutputsAreIn(With(values, new), frames[n], Head(frames[n].todo), held)
    PROVE  Frames([frames EXCEPT ![n].todo = Tail(@)], d, held, With(values, new))
<1>. DEFINE f == frames[n]
            g == [f EXCEPT !.todo = Tail(@)]
            next == [frames EXCEPT ![n] = g]
<1>1. PICK S : frames \in Seq(S)
  BY DEF Frames
<1>2. n \in Nat /\ n >= 1 /\ frames \in Seq(S \cup {g})
  BY <1>1, WiderSeq DEF Frames
<1>3. next = [frames EXCEPT ![n].todo = Tail(@)]
  OBVIOUS
<1>4. /\ next \in Seq(S \cup {g}) /\ Len(next) = n /\ next[n] = g
      /\ \A k \in 1 .. n : k # n => next[k] = frames[k]
  <2>. HIDE DEF g
  <2>. QED BY <1>2
<1>5. \A k \in 1 .. n : Framed(frames[k], k, held, values)
  BY DEF Frames
<1>6. Framed(g, n, held, With(values, new)) /\ g.owner = f.owner /\ g.path = f.path
  <2>1. Framed(f, n, held, values)
    BY <1>2, <1>5
  <2>2. /\ f.todo # <<>> /\ \A key \in DOMAIN new : key[1] = Append(f.path, Head(f.todo))
        /\ OutputsAreIn(With(values, new), f, Head(f.todo), held)
    OBVIOUS
  <2>. HIDE DEF f
  <2>. QED BY <2>1, <2>2, <1>2, FrameAdvances
<1>. HIDE DEF g, next
<1>7. ASSUME NEW k \in 1 .. n
      PROVE  Framed(next[k], k, held, With(values, new))
  <2>1. CASE k = n
    BY <2>1, <1>4, <1>6
  <2>2. CASE k # n
    <3>1. f.path \in Seq(Nat) /\ Len(f.path) = n - 1
      BY <1>2, <1>5 DEF Framed
    <3>2. Head(f.todo) \in Nat
      <4>1. InOrder(f.todo, Ids(f.owner), AdjacencyIn(f.owner)) /\ Ids(f.owner) \subseteq Nat
        BY <1>2, <1>5 DEF Framed
      <4>. QED BY <4>1, TailIsInOrder
    <3>3. Len(Append(f.path, Head(f.todo))) = n
      BY <3>1, <3>2, <1>2
    <3>. DEFINE address == Append(f.path, Head(f.todo))
    <3>4. \A key \in DOMAIN new : key[1] = address
      OBVIOUS
    <3>5. Framed(frames[k], k, held, values) /\ k \in Nat /\ Len(address) # k
      BY <3>3, <2>2, <1>2, <1>5
    <3>. HIDE DEF address
    <3>6. Framed(frames[k], k, held, With(values, new))
      BY <3>4, <3>5, FrameIsKept
    <3>. QED BY <3>6, <2>2, <1>4
  <2>. QED BY <2>1, <2>2
<1>8. ASSUME NEW k \in 1 .. n - 1
      PROVE  Waits(next[k], next[k + 1], held)
  <2>1. k \in 1 .. n /\ k + 1 \in 1 .. n /\ k # n /\ next[k] = frames[k]
    BY <1>2, <1>4
  <2>2. next[k + 1].path = frames[k + 1].path /\ next[k + 1].owner = frames[k + 1].owner
    BY <2>1, <1>4, <1>6
  <2>3. Waits(frames[k], frames[k + 1], held)
    BY DEF Frames
  <2>. QED BY <2>1, <2>2, <2>3 DEF Waits
<1>9. next[1].owner = d
  BY <1>2, <1>4, <1>6 DEF Frames
<1>10. next # <<>>
  BY <1>2, <1>4
<1>11. Frames(next, d, held, With(values, new))
  BY <1>4, <1>7, <1>8, <1>9, <1>10 DEF Frames
<1>. QED BY <1>3, <1>11

\* The innermost frame is left.
LEMMA FramesReturn ==
    ASSUME NEW frames, NEW d, NEW held, NEW values, Frames(frames, d, held, values),
           Len(frames) > 1
    PROVE  Frames(SubSeq(frames, 1, Len(frames) - 1), d, held, values)
<1>. DEFINE n == Len(frames)
            rest == SubSeq(frames, 1, n - 1)
<1>1. PICK S : frames \in Seq(S)
  BY DEF Frames
<1>2. n \in Nat /\ n > 1
  BY <1>1
<1>3. rest \in Seq(S) /\ Len(rest) = n - 1 /\ \A k \in 1 .. n - 1 : rest[k] = frames[k]
  BY <1>1, <1>2
<1>. HIDE DEF rest
<1>4. rest # <<>>
  BY <1>2, <1>3
<1>5. \A k \in 1 .. n - 1 : Framed(rest[k], k, held, values)
  BY <1>2, <1>3 DEF Frames
<1>6. \A k \in 1 .. (n - 1) - 1 : Waits(rest[k], rest[k + 1], held)
  BY <1>2, <1>3 DEF Frames
<1>7. rest[1].owner = d
  BY <1>2, <1>3 DEF Frames
<1>8. Frames(rest, d, held, values)
  BY <1>3, <1>4, <1>5, <1>6, <1>7 DEF Frames
<1>. QED BY <1>8 DEF rest

\* A frame is entered.
LEMMA FramesCall ==
    ASSUME NEW frames, NEW d, NEW held, NEW values, Frames(frames, d, held, values),
           NEW g, Framed(g, Len(frames) + 1, held, values), Waits(frames[Len(frames)], g, held)
    PROVE  Frames(Append(frames, g), d, held, values)
<1>. DEFINE n == Len(frames)
            next == Append(frames, g)
<1>1. PICK S : frames \in Seq(S)
  BY DEF Frames
<1>2. n \in Nat /\ n >= 1 /\ frames \in Seq(S \cup {g})
  BY <1>1, WiderSeq DEF Frames
<1>3. /\ next \in Seq(S \cup {g}) /\ Len(next) = n + 1 /\ next[n + 1] = g
      /\ \A k \in 1 .. n : next[k] = frames[k]
  BY <1>2
<1>. HIDE DEF next
<1>4. \A k \in 1 .. n + 1 : Framed(next[k], k, held, values)
  BY <1>2, <1>3 DEF Frames
<1>5. \A k \in 1 .. (n + 1) - 1 : Waits(next[k], next[k + 1], held)
  <2>. SUFFICES ASSUME NEW k \in 1 .. n PROVE Waits(next[k], next[k + 1], held)
    BY <1>2
  <2>1. CASE k = n
    BY <2>1, <1>2, <1>3
  <2>2. CASE k # n
    <3>1. k \in 1 .. n - 1 /\ k + 1 \in 1 .. n
      BY <2>2, <1>2
    <3>. QED BY <3>1, <1>3 DEF Frames
  <2>. QED BY <2>1, <2>2
<1>6. next[1].owner = d /\ next # <<>>
  BY <1>2, <1>3 DEF Frames
<1>7. Frames(next, d, held, values)
  BY <1>3, <1>4, <1>5, <1>6 DEF Frames
<1>. QED BY <1>7 DEF next

-----------------------------------------------------------------------------
(* The evaluation.                                                         *)

\* What is fetched is what is stored.
HeldIsStored(held) ==
    DOMAIN held \subseteq DOMAIN Stored /\ \A k \in DOMAIN held : held[k] = Stored[k]

LEMMA FetchedIsStored ==
    ASSUME NEW d, NEW keys \in SUBSET DOMAIN Stored
    PROVE  HeldIsStored(Fetched(d, Restrict(Stored, keys)))
<1>. DEFINE catalog == Restrict(Stored, keys)
            held == Fetched(d, catalog)
            size == Cardinality(DOMAIN catalog)
            Inner(level) ==
                UNION {{k} \cup (PinnedBy(catalog[k]) \cap DOMAIN catalog) : k \in level}
            outer == PinnedBy(d) \cap DOMAIN catalog
            S == SUBSET keys
            F == [i \in 2 .. size |-> [level \in S |-> Inner(level)]]
            IsLevel(f) == f = [i \in 1 .. size |-> IF i = 1 THEN outer ELSE Inner(f[i - 1])]
            level == CHOOSE f : IsLevel(f)
<1>1. DOMAIN catalog = keys /\ \A k \in keys : catalog[k] = Stored[k]
  BY DEF Restrict
<1>2. CASE catalog = <<>>
  <2>1. held = <<>>
    BY <1>2 DEF Fetched
  <2>. QED BY <2>1 DEF HeldIsStored
<1>3. CASE catalog # <<>>
  <2>1. keys # {}
    <3>. SUFFICES ASSUME keys = {} PROVE catalog = <<>>
      BY <1>3
    <3>. QED BY DEF Restrict
  <2>2. size \in Nat /\ size # 0
    <3>1. IsFiniteSet(keys)
      BY EvaluationAssumption, FS_Subset
    <3>. QED BY <3>1, <2>1, <1>1, FS_CardinalityType, FS_EmptySet
  <2>3. outer \in S /\ F \in [2 .. size -> [S -> S]]
    <3>1. \A T \in S : Inner(T) \in S
      BY <1>1
    <3>. QED BY <3>1, <1>1
  <2>4. \E f : IsLevel(f)
    <3>1. PICK f \in [1 .. size -> S] : Iterates(f, 1, size, outer, F)
      <4>. HIDE DEF size, S, F, outer
      <4>. QED BY <2>2, <2>3, IteratesExistFrom1
    <3>2. \A i \in 1 .. size : i # 1 => F[i][f[i - 1]] = Inner(f[i - 1])
      <4>1. \A i \in 1 .. size : i # 1 => f[i - 1] \in S /\ i \in 2 .. size
        BY <2>2
      <4>. HIDE DEF Inner, S, size
      <4>. QED BY <4>1
    <3>3. f = [i \in 1 .. size |-> IF i = 1 THEN outer ELSE F[i][f[i - 1]]]
      BY <3>1 DEF Iterates
    <3>. HIDE DEF F, Inner, size, S, outer
    <3>4. IsLevel(f)
      BY <3>2, <3>3
    <3>. QED BY <3>4
  <2>5. IsLevel(level)
    <3>. HIDE DEF IsLevel
    <3>. QED BY <2>4
  <2>. DEFINE T == {i \in 0 .. size : i = 0 \/ level[i] \in S}
  <2>6. size \in T
    <3>1. 0 \in T
      BY <2>2
    <3>2. \A i \in 1 .. size : i - 1 \in T => i \in T
      <4>. SUFFICES ASSUME NEW i \in 1 .. size, i = 1 \/ level[i - 1] \in S PROVE level[i] \in S
        <5>. HIDE DEF level, S, size
        <5>. QED BY <2>2
      <4>. HIDE DEF level
      <4>1. level[i] = IF i = 1 THEN outer ELSE Inner(level[i - 1])
        <5>. HIDE DEF outer, Inner, size
        <5>. QED BY <2>5
      <4>2. \A U \in S : Inner(U) \in S
        BY <1>1
      <4>. HIDE DEF S, outer, Inner
      <4>. QED BY <4>1, <4>2, <2>3
    <3>. HIDE DEF T, size
    <3>3. \A i \in 0 .. size : i \in T
      BY <2>2, <3>1, <3>2, InductionTo
    <3>. QED BY <3>3, <2>2
  <2>7. level[size] \in S
    BY <2>6, <2>2
  <2>8. held = Restrict(catalog, level[size])
    BY <1>3 DEF Fetched
  <2>. HIDE DEF level
  <2>. QED BY <2>7, <2>8, <1>1 DEF HeldIsStored, Restrict
<1>. QED BY <1>2, <1>3

\* The planner's order is an order of the whole graph.
LEMMA OrderIsComplete ==
    ASSUME PlanInv, plan = "ordered", Len(order) = Cardinality(Nodes)
    PROVE  InOrder(order, Nodes, adjacency) /\ Range(order) = Nodes
<1>1. /\ Len(order) \in Nat /\ Done \in SUBSET Nodes
      /\ \A i \in 1 .. Len(order) :
            order[i] \in Nodes \ Before(i) /\ Predecessors(order[i]) \subseteq Before(i)
  BY DoneIsClosed
<1>2. order \in Seq(Nodes) /\ Cardinality(Done) = Len(order)
  BY DEF PlanInv
<1>3. Done = Nodes
  BY <1>1, <1>2, PlanningAssumption, FS_Subset
<1>4. Range(order) = Nodes
  <2>1. DOMAIN order = 1 .. Len(order) /\ (Len(order) + 1) - 1 = Len(order)
    BY <1>1, <1>2
  <2>. QED BY <2>1, <1>3 DEF Done, Before, Range
<1>5. \A i, j \in 1 .. Len(order) : i < j => order[i] # order[j]
  <2>1. \A i, j \in 1 .. Len(order) : i < j => i \in 1 .. j - 1
    BY <1>1
  <2>. QED BY <2>1, <1>1 DEF Before
<1>6. \A i, j \in 1 .. Len(order) : order[i] = order[j] => i = j
  BY <1>1, <1>5
<1>7. ASSUME NEW i \in 1 .. Len(order), NEW j \in 1 .. Len(order), i <= j,
             order[i] \in adjacency[order[j]]
      PROVE  FALSE
  <2>1. order[j] \in Predecessors(order[i])
    BY <1>1, <1>7 DEF Predecessors
  <2>2. PICK k \in 1 .. i - 1 : order[k] = order[j]
    BY <2>1, <1>1 DEF Before
  <2>3. k \in 1 .. Len(order) /\ k # j
    BY <1>1, <1>7
  <2>. QED BY <2>2, <2>3, <1>6
<1>. QED BY <1>2, <1>4, <1>6, <1>7 DEF InOrder

Planned ==
    /\ PlanInv
    /\ plan = "ordered" => Len(order) = Cardinality(Nodes)
    /\ \/ document = GraphOnly
       \/ /\ document \in Strategies
          /\ adjacency = [n \in Nodes |-> IF n \in Ids(document) THEN AdjacencyIn(document)[n]
                                          ELSE {}]

\* What has been established when an evaluation has come to a phase.
Checked ==
    /\ phase \in {"checking", "resolving", "ordering", "executing", "done"}
    /\ conditions.catalog \subseteq DOMAIN Stored /\ "catalog" \in DOMAIN conditions
    /\ phase \in {"checking", "resolving", "ordering"} => stack = <<>>
    /\ phase \in {"resolving", "ordering", "executing"} =>
          document # GraphOnly /\ GraphErrors(document) = {} /\ HeldIsStored(definitions)
    /\ phase \in {"ordering", "executing"} => Preflight(document, definitions) = {}
    /\ phase # "done" => diagnostics = {}

\* No implementation has ever been run without what it needs.
NeverStarved == \A address \in DOMAIN behaviour : behaviour[address] \notin {"unavailable", "unfed"}

\* The inductive invariant of an evaluation.
EvaluationInv ==
    /\ Planned /\ Checked /\ NeverStarved /\ CleanNeverMisses
    /\ phase = "executing" => Frames(stack, document, definitions, store)

LEMMA InitEstablishesEvaluationInv == EvalInit => EvaluationInv
<1>. SUFFICES ASSUME EvalInit PROVE EvaluationInv
  OBVIOUS
<1>1. PlanInv /\ plan = "none"
  BY InitEstablishesPlanInv DEF EvalInit, PlanInit
<1>2. Planned
  BY <1>1 DEF EvalInit, Planned
<1>3. Checked
  BY DEF EvalInit, Checked
<1>4. NeverStarved /\ CleanNeverMisses /\ phase # "executing"
  BY DEF EvalInit, NeverStarved, CleanNeverMisses
<1>. QED BY <1>2, <1>3, <1>4 DEF EvaluationInv

LEMMA PlannedIsKept == Planned /\ UNCHANGED <<searchVars, planVars, document>> => Planned'
<1>. SUFFICES ASSUME Planned, UNCHANGED <<searchVars, planVars, document>> PROVE Planned'
  OBVIOUS
<1>1. PlanInv'
  BY SearchPreservesPlanInv DEF Planned
<1>. QED BY <1>1 DEF Planned, searchVars, planVars

\* Nothing that the rest of the invariant is about has changed.
LEMMA EvaluationIsKept ==
    ASSUME EvaluationInv, Planned', UNCHANGED evaluationVars
    PROVE  EvaluationInv'
BY DEF EvaluationInv, evaluationVars, Checked, NeverStarved, CleanNeverMisses

LEMMA SearchKeepsEvaluationInv == EvaluationInv /\ Search => EvaluationInv'
<1>. SUFFICES ASSUME EvaluationInv, Search PROVE EvaluationInv'
  OBVIOUS
<1>1. PlanInv'
  BY SearchPreservesPlanInv DEF Search, EvaluationInv, Planned
<1>2. UNCHANGED <<adjacency, order, plan, document>>
  BY SearchKeepsGraph DEF Search, planVars, evaluationVars
<1>3. Planned'
  BY <1>1, <1>2 DEF EvaluationInv, Planned
<1>. QED BY <1>3, EvaluationIsKept DEF Search

LEMMA OrderKeepsEvaluationInv == EvaluationInv /\ Order => EvaluationInv'
<1>. SUFFICES ASSUME EvaluationInv, Order PROVE EvaluationInv'
  OBVIOUS
<1>1. PlanInv'
  BY PreparePreservesPlanInv, PlacePreservesPlanInv, OrderedPreservesPlanInv
  DEF Order, EvaluationInv, Planned
<1>2. UNCHANGED <<adjacency, document>> /\ UNCHANGED evaluationVars
  BY DEF Order, Prepare, Place, Ordered, searchVars, evaluationVars
<1>3. plan' = "ordered" => Len(order') = Cardinality(Nodes)
  BY DEF Order, Prepare, Place, Ordered, EvaluationInv, Planned
<1>4. Planned'
  BY <1>1, <1>2, <1>3 DEF EvaluationInv, Planned
<1>. QED BY <1>2, <1>4, EvaluationIsKept

\* Before execution begins, any diagnostics may end the evaluation.
LEMMA FailingEarlyKeepsEvaluationInv ==
    ASSUME EvaluationInv, phase \in {"checking", "resolving"}, NEW codes, Fail(codes),
           UNCHANGED behaviour
    PROVE  EvaluationInv'
<1>1. Planned'
  BY PlannedIsKept DEF Fail, EvaluationInv
<1>2. stack' = <<>> /\ phase' = "done" /\ UNCHANGED <<conditions, behaviour>>
  BY DEF Fail, EvaluationInv, Checked
<1>3. Checked' /\ NeverStarved' /\ CleanNeverMisses'
  BY <1>2 DEF EvaluationInv, Checked, NeverStarved, CleanNeverMisses
<1>. QED BY <1>1, <1>2, <1>3 DEF EvaluationInv

\* Once it has, only those of an implementation that misbehaves.
LEMMA FailingLateKeepsEvaluationInv ==
    ASSUME EvaluationInv, NEW codes, Fail(codes), codes \subseteq Range(Misbehaviour), NeverStarved'
    PROVE  EvaluationInv'
<1>1. Planned'
  BY PlannedIsKept DEF Fail, EvaluationInv
<1>2. phase' = "done" /\ UNCHANGED conditions /\ diagnostics' = codes
  BY DEF Fail
<1>3. Checked' /\ CleanNeverMisses'
  BY <1>2 DEF EvaluationInv, Checked, CleanNeverMisses
<1>. QED BY <1>1, <1>2, <1>3 DEF EvaluationInv

LEMMA RejectKeepsEvaluationInv == EvaluationInv /\ Reject => EvaluationInv'
BY FailingEarlyKeepsEvaluationInv DEF Reject, Searched

LEMMA FetchKeepsEvaluationInv == EvaluationInv /\ Fetch => EvaluationInv'
<1>. SUFFICES ASSUME EvaluationInv, Fetch PROVE EvaluationInv'
  OBVIOUS
<1>1. Planned'
  BY PlannedIsKept DEF Fetch, EvaluationInv
<1>2. GraphErrors(document) = {}
  BY DEF Fetch, Faulty, Structure
<1>3. HeldIsStored(definitions')
  <2>1. conditions.catalog \in SUBSET DOMAIN Stored
    BY DEF EvaluationInv, Checked
  <2>. QED BY <2>1, FetchedIsStored DEF Fetch
<1>4. Checked'
  BY <1>2, <1>3 DEF Fetch, Searched, EvaluationInv, Checked
<1>5. NeverStarved' /\ CleanNeverMisses' /\ phase' # "executing"
  BY DEF Fetch, EvaluationInv, NeverStarved, CleanNeverMisses
<1>. QED BY <1>1, <1>4, <1>5 DEF EvaluationInv

LEMMA CheckKeepsEvaluationInv == EvaluationInv /\ Check => EvaluationInv'
<1>. SUFFICES ASSUME EvaluationInv, Check PROVE EvaluationInv'
  OBVIOUS
<1>. DEFINE faults == Preflight(document, definitions) \cup NoSession
<1>1. CASE Fail(faults)
  BY <1>1, FailingEarlyKeepsEvaluationInv DEF Check
<1>2. CASE /\ faults = {} /\ phase' = "ordering"
           /\ UNCHANGED <<searchVars, planVars, document, conditions, definitions, stack, store,
                          diagnostics, targets>>
  <2>1. Planned'
    BY <1>2, PlannedIsKept DEF EvaluationInv
  <2>2. Checked'
    BY <1>2 DEF Check, EvaluationInv, Checked
  <2>3. NeverStarved' /\ CleanNeverMisses' /\ phase' # "executing"
    BY <1>2 DEF Check, EvaluationInv, NeverStarved, CleanNeverMisses
  <2>. QED BY <2>1, <2>2, <2>3 DEF EvaluationInv
<1>. QED BY <1>1, <1>2 DEF Check

\* The planner's order has every node of the document.
LEMMA StartDoes ==
    ASSUME EvaluationInv, Start
    PROVE  /\ phase = "ordering" /\ plan = "ordered"
           /\ document # GraphOnly /\ GraphErrors(document) = {}
           /\ Preflight(document, definitions) = {}
           /\ Ids(document) = Nodes /\ InOrder(order, Nodes, adjacency) /\ Range(order) = Nodes
           /\ stack' = <<Frame(document, <<>>, order, <<>>)>> /\ phase' = "executing"
           /\ UNCHANGED <<searchVars, planVars, document, conditions, definitions, store, events,
                          diagnostics, targets, behaviour>>
<1>1. /\ phase = "ordering" /\ plan = "ordered"
      /\ stack' = <<Frame(document, <<>>, order, <<>>)>> /\ phase' = "executing"
      /\ UNCHANGED <<searchVars, planVars, document, conditions, definitions, store, events,
                     diagnostics, targets, behaviour>>
  BY DEF Start
<1>2. /\ document # GraphOnly /\ GraphErrors(document) = {}
      /\ Preflight(document, definitions) = {}
  BY <1>1 DEF EvaluationInv, Checked
<1>3. Ids(document) = Nodes
  BY <1>2, StructureIsSound, EvaluationAssumption DEF EvaluationInv, Planned
<1>4. InOrder(order, Nodes, adjacency) /\ Range(order) = Nodes
  BY <1>1, OrderIsComplete DEF EvaluationInv, Planned
<1>. QED BY <1>1, <1>2, <1>3, <1>4

\* The document's graph is the first frame, with the planner's order.
LEMMA StartKeepsEvaluationInv == EvaluationInv /\ Start => EvaluationInv'
<1>. SUFFICES ASSUME EvaluationInv, Start PROVE EvaluationInv'
  OBVIOUS
<1>. DEFINE f == Frame(document, <<>>, order, <<>>)
<1>1. /\ stack' = <<f>> /\ phase' = "executing"
      /\ UNCHANGED <<searchVars, planVars, document, conditions, definitions, store, events,
                     diagnostics, targets, behaviour>>
      /\ phase = "ordering" /\ document # GraphOnly /\ Preflight(document, definitions) = {}
  BY StartDoes
<1>3. Wired(document, {}, definitions)
  BY StartDoes, CheckedIsWired DEF EvaluationInv, Checked
<1>4. Ids(document) = Nodes
  BY StartDoes
<1>5. InOrder(order, Nodes, adjacency) /\ Range(order) = Nodes
  BY StartDoes
<1>6. InOrder(order, Ids(document), AdjacencyIn(document))
  <2>1. adjacency = [n \in Nodes |-> AdjacencyIn(document)[n]]
    BY <1>1, <1>4 DEF EvaluationInv, Planned
  <2>2. order \in Seq(Nodes) /\ \A i \in 1 .. Len(order) : order[i] \in Nodes
    BY <1>5 DEF InOrder
  <2>3. \A n \in Nodes : adjacency[n] = AdjacencyIn(document)[n]
    BY <2>1
  <2>. QED BY <2>2, <2>3, <1>4, <1>5 DEF InOrder
<1>7. /\ f = Frame(f.owner, f.path, f.todo, f.externals)
      /\ f.owner = document /\ f.path = <<>> /\ f.todo = order /\ DOMAIN f.externals = {}
  BY DEF Frame
<1>8. Ids(document) \subseteq Nat
  BY <1>4, NodesAssumption
<1>. HIDE DEF f
<1>9. Framed(f, 1, definitions, store)
  BY <1>3, <1>4, <1>5, <1>6, <1>7, <1>8 DEF Framed
<1>10. Frames(<<f>>, document, definitions, store)
  <2>. DEFINE frames == <<f>>
  <2>1. frames \in Seq({f}) /\ Len(frames) = 1 /\ frames[1] = f /\ frames # <<>>
    OBVIOUS
  <2>. HIDE DEF frames
  <2>2. Frames(frames, document, definitions, store)
    BY <2>1, <1>7, <1>9 DEF Frames
  <2>. QED BY <2>2 DEF frames
<1>11. Planned'
  BY <1>1, PlannedIsKept DEF EvaluationInv
<1>12. Checked' /\ NeverStarved' /\ CleanNeverMisses'
  BY <1>1 DEF EvaluationInv, Checked, NeverStarved, CleanNeverMisses
<1>. QED BY <1>1, <1>10, <1>11, <1>12 DEF EvaluationInv

\* Where the execution stands.
LEMMA WhileExecuting ==
    ASSUME EvaluationInv, phase = "executing"
    PROVE  /\ Frames(stack, document, definitions, store)
           /\ Len(stack) \in Nat /\ Len(stack) >= 1
           /\ Framed(Innermost, Len(stack), definitions, store)
           /\ HeldIsStored(definitions)
           /\ \A k \in DOMAIN definitions : Usable(definitions[k], definitions)
           /\ Wired(document, {}, definitions) /\ TerminalNodes(document) # {}
<1>1. Frames(stack, document, definitions, store)
  BY DEF EvaluationInv
<1>2. Len(stack) \in Nat /\ Len(stack) >= 1
  BY <1>1 DEF Frames
<1>3. Framed(Innermost, Len(stack), definitions, store)
  BY <1>1, <1>2 DEF Frames, Innermost
<1>4. /\ GraphErrors(document) = {} /\ HeldIsStored(definitions)
      /\ Preflight(document, definitions) = {}
  BY DEF EvaluationInv, Checked
<1>. QED BY <1>1, <1>2, <1>3, <1>4, CheckedIsWired

\* The node that is running, and its ports.
LEMMA RunningIsFirst ==
    ASSUME NEW depth, Framed(Innermost, depth, definitions, store), Innermost.todo # <<>>
    PROVE  /\ Running \in Range(Innermost.owner.nodes)
           /\ Running.id = Head(Innermost.todo) /\ Running.id \in Ids(Innermost.owner)
           /\ Running.id \in Nat
           /\ Running = NodeOf(Innermost.owner, Head(Innermost.todo))
           /\ IF Running.type = "component"
              THEN /\ KeyOf(Innermost.owner, Running) \in DOMAIN definitions
                   /\ Tables(Innermost.owner, definitions)[Running.id] =
                         Interface(definitions[KeyOf(Innermost.owner, Running)])
              ELSE /\ Resolves(Running)
                   /\ Tables(Innermost.owner, definitions)[Running.id] =
                         CoreBindings[Running.type]
<1>. DEFINE owner == Innermost.owner
            first == Head(Innermost.todo)
<1>1. first \in Ids(owner)
  BY TailIsInOrder DEF Framed
<1>2. Running \in Range(owner.nodes) /\ Running.id = first
  BY <1>1 DEF Ids, Running, NodeOf
<1>3. NodesAreUnique(owner) /\ NodesResolve(owner, definitions) /\ Ids(owner) \subseteq Nat
  BY DEF Framed, Wired
<1>4. Tables(owner, definitions)[Running.id] =
         IF Running.type = "component" THEN Interface(definitions[KeyOf(owner, Running)])
         ELSE CoreBindings[Running.type]
  BY <1>2, <1>3, TablesAreTotal
<1>5. IF Running.type = "component" THEN KeyOf(owner, Running) \in DOMAIN definitions
      ELSE Resolves(Running)
  BY <1>2, <1>3 DEF NodesResolve
<1>. QED BY <1>1, <1>2, <1>3, <1>4, <1>5 DEF Running

\* An input of the node that is running has a value: its edge comes from a node
\* that is not left, or it is fed from outside.
LEMMA InputIsThere ==
    ASSUME NEW depth, Framed(Innermost, depth, definitions, store), Innermost.todo # <<>>,
           NEW port \in DOMAIN Tables(Innermost.owner, definitions)[Running.id].inputs
    PROVE  InputValue(port) # None
<1>. DEFINE owner == Innermost.owner
            end == <<Running.id, port>>
            leading == {e \in Edges(owner) : e.to = end}
<1>1. Running.id = Head(Innermost.todo) /\ Running.id \in Ids(owner)
  BY RunningIsFirst
<1>2. Wired(owner, DOMAIN Innermost.externals, definitions)
  BY DEF Framed
<1>3. CASE leading # {}
  <2>. DEFINE e == CHOOSE f \in leading : TRUE
  <2>1. e \in Edges(owner) /\ e.to = end
    BY <1>3
  <2>2. InputValue(port) = Found(PathOf(e.from[1]), e.from[2])
    BY <1>3 DEF InputValue
  <2>. HIDE DEF e
  <2>3. /\ e.from[1] \in Ids(owner) /\ e.from[1] # Running.id
        /\ HasOutput(Tables(owner, definitions), e.from)
    BY <1>2, <2>1 DEF Wired, EdgesFit
  <2>4. Running.id \in AdjacencyIn(owner)[e.from[1]]
    BY <1>1, <2>1, <2>3 DEF AdjacencyIn
  <2>5. e.from[1] \notin Range(Innermost.todo)
    <3>1. InOrder(Innermost.todo, Ids(owner), AdjacencyIn(owner))
      BY DEF Framed
    <3>2. \A id \in Ids(owner) : Head(Innermost.todo) \in AdjacencyIn(owner)[id]
                                     => id \notin Range(Innermost.todo)
      BY <3>1, TailIsInOrder
    <3>. QED BY <1>1, <2>3, <2>4, <3>2
  <2>6. OutputsAreIn(store, Innermost, e.from[1], definitions)
    BY <2>3, <2>5 DEF Framed
  <2>7. Found(PathOf(e.from[1]), e.from[2]) # None
    BY <2>3, <2>6 DEF OutputsAreIn, HasOutput, Found, PathOf
  <2>. QED BY <2>2, <2>7
<1>4. CASE leading = {}
  <2>1. end \notin Range(Ends(owner))
    BY <1>4 DEF Ends, Edges, Range
  <2>2. end \in DOMAIN Innermost.externals
    BY <1>1, <1>2, <2>1 DEF Wired, InputsAreFed
  <2>3. InputValue(port) = Innermost.externals[end]
    BY <1>4, <2>2 DEF InputValue
  <2>. QED BY <2>2, <2>3 DEF Framed
<1>. QED BY <1>3, <1>4

\* What a registered node gives.
Given ==
    [key \in {PathOf(Running.id)} \X DOMAIN CoreBindings[Running.type].outputs |->
        [type |-> CoreBindings[Running.type].outputs[key[2]], data |-> conditions.data,
         session |-> conditions.session, other |-> Other]]

\* A registered node that is run is fed, so it does what its implementation does.
LEMMA RunRegisteredDoes ==
    ASSUME EvaluationInv, RunRegistered
    PROVE  /\ phase = "executing" /\ Innermost.todo # <<>> /\ Running.type # "component"
           /\ None \notin Inputs
           /\ \E how \in Behaves(PathOf(Running.id)) :
                 /\ how \notin {"unavailable", "unfed"}
                 /\ behaviour' = With([a \in {PathOf(Running.id)} |-> how], behaviour)
                 /\ events' \in
                       IF how = "answers"
                       THEN {With(events, [a \in {PathOf(Running.id)} |-> [other |-> shows]]) :
                                shows \in {FALSE, Other}}
                       ELSE {events}
                 /\ \/ /\ how \notin DOMAIN Failure
                       /\ store' = With(store, Given) /\ stack' = Advanced
                       /\ UNCHANGED <<searchVars, planVars, document, conditions, definitions, phase,
                                      diagnostics, targets>>
                    \/ how \in DOMAIN Failure /\ Fail({Failure[how]})
<1>. DEFINE address == PathOf(Running.id)
<1>1. phase = "executing" /\ Innermost.todo # <<>> /\ Running.type # "component"
  BY DEF RunRegistered, Executing
<1>2. PICK how \in Outcomes(address) :
        /\ behaviour' = With([a \in {address} |-> how], behaviour)
        /\ events' \in
              IF how = "answers"
              THEN {With(events, [a \in {address} |-> [other |-> shows]]) : shows \in {FALSE, Other}}
              ELSE {events}
        /\ \/ /\ how \notin DOMAIN Failure
              /\ store' = With(store, Given) /\ stack' = Advanced
              /\ UNCHANGED <<searchVars, planVars, document, conditions, definitions, phase,
                             diagnostics, targets>>
           \/ how \in DOMAIN Failure /\ Fail({Failure[how]})
  BY DEF RunRegistered, Given
<1>3. Framed(Innermost, Len(stack), definitions, store)
  BY <1>1, WhileExecuting
<1>4. /\ Resolves(Running)
      /\ Tables(Innermost.owner, definitions)[Running.id] = CoreBindings[Running.type]
  BY <1>1, <1>3, RunningIsFirst
<1>5. None \notin Inputs
  BY <1>1, <1>3, <1>4, InputIsThere DEF Inputs
<1>6. how \in Behaves(address)
  BY <1>2, <1>4, <1>5 DEF Outcomes
<1>7. how \notin {"unavailable", "unfed"}
  <2>1. \A b \in Behaviours(Running.type) : b \notin {"unavailable", "unfed"}
    BY DEF Behaviours
  <2>. HIDE DEF address
  <2>. QED BY <1>6, <2>1 DEF Behaves, EvaluationInv, NeverStarved
<1>. QED BY <1>1, <1>2, <1>5, <1>6, <1>7

LEMMA RunRegisteredKeepsEvaluationInv == EvaluationInv /\ RunRegistered => EvaluationInv'
<1>. SUFFICES ASSUME EvaluationInv, RunRegistered PROVE EvaluationInv'
  OBVIOUS
<1>. DEFINE address == PathOf(Running.id)
            outputs == CoreBindings[Running.type].outputs
<1>1. phase = "executing" /\ Innermost.todo # <<>> /\ Running.type # "component"
  BY RunRegisteredDoes
<1>2. PICK how :
        /\ how \notin {"unavailable", "unfed"}
        /\ behaviour' = With([a \in {address} |-> how], behaviour)
        /\ \/ /\ store' = With(store, Given) /\ stack' = Advanced
              /\ UNCHANGED <<searchVars, planVars, document, conditions, definitions, phase,
                             diagnostics, targets>>
           \/ how \in DOMAIN Failure /\ Fail({Failure[how]})
  BY RunRegisteredDoes
<1>3. /\ Frames(stack, document, definitions, store)
      /\ Len(stack) \in Nat /\ Len(stack) >= 1
      /\ Framed(Innermost, Len(stack), definitions, store)
  BY <1>1, WhileExecuting
<1>4. /\ Running.id = Head(Innermost.todo)
      /\ Tables(Innermost.owner, definitions)[Running.id] = CoreBindings[Running.type]
  BY <1>1, <1>3, RunningIsFirst
<1>5. NeverStarved'
  <2>. HIDE DEF address
  <2>. QED BY <1>2 DEF EvaluationInv, NeverStarved, With
<1>6. CASE how \in DOMAIN Failure /\ Fail({Failure[how]})
  <2>1. how \in DOMAIN Misbehaviour /\ Failure[how] = Misbehaviour[how]
    BY <1>2, <1>6 DEF Failure, With
  <2>2. {Failure[how]} \subseteq Range(Misbehaviour)
    BY <2>1 DEF Range
  <2>. QED BY <2>2, <1>5, <1>6, FailingLateKeepsEvaluationInv
<1>7. CASE /\ store' = With(store, Given) /\ stack' = Advanced
           /\ UNCHANGED <<searchVars, planVars, document, conditions, definitions, phase,
                          diagnostics, targets>>
  <2>1. \A key \in DOMAIN Given : key[1] = Append(Innermost.path, Head(Innermost.todo))
    BY <1>4 DEF PathOf, Given
  <2>2. OutputsAreIn(With(store, Given), Innermost, Head(Innermost.todo), definitions)
    <3>. SUFFICES ASSUME NEW port \in DOMAIN outputs
                  PROVE  LET key == <<address, port>>
                         IN  /\ key \in DOMAIN With(store, Given)
                             /\ With(store, Given)[key] # None
                             /\ IsCompatible(With(store, Given)[key].type, outputs[port])
      BY <1>4 DEF OutputsAreIn, PathOf
    <3>. DEFINE key == <<address, port>>
                value == [type |-> outputs[port], data |-> conditions.data,
                          session |-> conditions.session, other |-> Other]
    <3>1. key \in DOMAIN Given /\ Given[key] = value
      <4>. HIDE DEF address, outputs
      <4>. QED BY DEF Given, address, outputs
    <3>2. key \in DOMAIN With(store, Given) /\ With(store, Given)[key] = value
      <4>. HIDE DEF key, value
      <4>. QED BY <3>1 DEF With
    <3>3. value # None /\ value.type = outputs[port]
      <4>1. "data" \in DOMAIN value /\ "data" \notin DOMAIN None
        BY DEF None
      <4>. QED BY <4>1
    <3>. HIDE DEF key, value, outputs
    <3>. QED BY <3>2, <3>3 DEF IsCompatible, key
  <2>3. Frames(stack', document, definitions, store')
    BY <1>1, <1>3, <1>7, <2>1, <2>2, FramesAdvance DEF Innermost, Advanced
  <2>4. Planned'
    BY <1>7, PlannedIsKept DEF EvaluationInv
  <2>5. Checked' /\ CleanNeverMisses' /\ UNCHANGED <<document, definitions>>
    BY <1>1, <1>7 DEF EvaluationInv, Checked, CleanNeverMisses
  <2>. QED BY <1>5, <2>3, <2>4, <2>5 DEF EvaluationInv
<1>. QED BY <1>2, <1>6, <1>7

\* The frame that a component is entered with.
Entered ==
    LET definition == definitions[KeyOf(Innermost.owner, Running)]
        inputs == Range(definition.exposed_inputs)
    IN  Frame(definition, PathOf(Running.id), CanonicalOrder(AdjacencyIn(definition)),
              [end \in {p.maps_to : p \in inputs} |->
                  InputValue((CHOOSE p \in inputs : p.maps_to = end).name)])

\* A component that is entered is fed, and its graph is in order.
LEMMA EnterDoes ==
    ASSUME EvaluationInv, Enter
    PROVE  /\ phase = "executing" /\ Innermost.todo # <<>> /\ Running.type = "component"
           /\ Entered.owner = definitions[KeyOf(Innermost.owner, Running)]
           /\ Entered.path = PathOf(Running.id)
           /\ Framed(Entered, Len(stack) + 1, definitions, store)
           /\ Range(Entered.todo) = Ids(Entered.owner)
           /\ \A end \in DOMAIN Entered.externals : \E port :
                 Entered.externals[end] = InputValue(port)
           /\ stack' = Append(stack, Entered)
           /\ UNCHANGED <<searchVars, planVars, document, conditions, definitions, phase, store,
                          events, diagnostics, targets, behaviour>>
<1>. DEFINE owner == Innermost.owner
            definition == definitions[KeyOf(owner, Running)]
            inputs == Range(definition.exposed_inputs)
            externals == [end \in {p.maps_to : p \in inputs} |->
                             InputValue((CHOOSE p \in inputs : p.maps_to = end).name)]
            g == Frame(definition, PathOf(Running.id), CanonicalOrder(AdjacencyIn(definition)),
                       externals)
            n == Len(stack)
<1>0. g = Entered
  BY DEF Entered
<1>1. phase = "executing" /\ Innermost.todo # <<>> /\ Running.type = "component"
  BY DEF Enter, Executing
<1>2. /\ Frames(stack, document, definitions, store) /\ n \in Nat /\ n >= 1
      /\ Framed(Innermost, n, definitions, store)
      /\ HeldIsStored(definitions)
      /\ \A k \in DOMAIN definitions : Usable(definitions[k], definitions)
  BY <1>1, WhileExecuting
<1>3. /\ Running.id = Head(Innermost.todo) /\ Running.id \in Nat
      /\ Running = NodeOf(owner, Head(Innermost.todo))
      /\ KeyOf(owner, Running) \in DOMAIN definitions
      /\ Tables(owner, definitions)[Running.id] = Interface(definition)
  BY <1>1, <1>2, RunningIsFirst
<1>4. \A end \in DOMAIN externals : externals[end] # None
  <2>. SUFFICES ASSUME NEW end \in {p.maps_to : p \in inputs}
                PROVE  InputValue((CHOOSE p \in inputs : p.maps_to = end).name) # None
    OBVIOUS
  <2>. DEFINE p == CHOOSE p \in inputs : p.maps_to = end
  <2>1. p \in inputs
    OBVIOUS
  <2>. HIDE DEF p, definition
  <2>2. p.name \in DOMAIN Interface(definition).inputs
    BY <2>1 DEF Interface, NodeImplementation, Exposed
  <2>3. InputValue(p.name) # None
    BY <1>1, <1>2, <1>3, <2>2, InputIsThere
  <2>. QED BY <2>3 DEF p
<1>5. /\ stack' = Append(stack, g)
      /\ UNCHANGED <<searchVars, planVars, document, conditions, definitions, phase, store,
                     events, diagnostics, targets, behaviour>>
  <2>1. None \notin Range(externals)
    BY <1>4 DEF Range
  <2>. HIDE DEF g, externals, definition
  <2>. QED BY <2>1 DEF Enter, externals, definition, g
<1>6. Usable(definition, definitions) /\ Ids(definition) \subseteq Nat
      /\ IsFiniteSet(Ids(definition))
  BY <1>2, <1>3, EvaluationAssumption DEF HeldIsStored
<1>7. DOMAIN externals = Feeds(definition)
  BY DEF Feeds
<1>8. /\ InOrder(CanonicalOrder(AdjacencyIn(definition)), Ids(definition), AdjacencyIn(definition))
      /\ Range(CanonicalOrder(AdjacencyIn(definition))) = Ids(definition)
  <2>. HIDE DEF definition
  <2>1. AdjacencyIn(definition) \in [Ids(definition) -> SUBSET Ids(definition)]
    BY DEF AdjacencyIn
  <2>. QED BY <1>6, <2>1, CanonicalOrderIsComplete DEF Usable
<1>9. PathOf(Running.id) \in Seq(Nat) /\ Len(PathOf(Running.id)) = n
  BY <1>2, <1>3 DEF PathOf, Framed
<1>. HIDE DEF externals, definition, n
<1>10. /\ g = Frame(g.owner, g.path, g.todo, g.externals)
       /\ g.owner = definition /\ g.path = PathOf(Running.id) /\ g.externals = externals
       /\ g.todo = CanonicalOrder(AdjacencyIn(definition))
  BY DEF Frame
<1>11. \A end \in DOMAIN externals : \E port : externals[end] = InputValue(port)
  BY DEF externals
<1>. HIDE DEF g
<1>12. Framed(g, n + 1, definitions, store)
  <2>1. Wired(g.owner, DOMAIN g.externals, definitions)
    BY <1>6, <1>7, <1>10 DEF Usable
  <2>2. (n + 1) - 1 = n
    BY <1>2
  <2>. QED BY <1>4, <1>6, <1>8, <1>9, <1>10, <2>1, <2>2 DEF Framed
<1>. QED BY <1>0, <1>1, <1>5, <1>8, <1>10, <1>11, <1>12 DEF definition, n

LEMMA EnterKeepsEvaluationInv == EvaluationInv /\ Enter => EvaluationInv'
<1>. SUFFICES ASSUME EvaluationInv, Enter PROVE EvaluationInv'
  OBVIOUS
<1>1. /\ phase = "executing" /\ Innermost.todo # <<>> /\ Running.type = "component"
      /\ Entered.owner = definitions[KeyOf(Innermost.owner, Running)]
      /\ Entered.path = PathOf(Running.id)
      /\ Framed(Entered, Len(stack) + 1, definitions, store)
      /\ stack' = Append(stack, Entered)
      /\ UNCHANGED <<searchVars, planVars, document, conditions, definitions, phase, store,
                     diagnostics, targets, behaviour>>
  BY EnterDoes
<1>2. /\ Frames(stack, document, definitions, store)
      /\ Running.id = Head(Innermost.todo)
      /\ Running = NodeOf(Innermost.owner, Head(Innermost.todo))
  BY <1>1, WhileExecuting, RunningIsFirst
<1>3. Waits(stack[Len(stack)], Entered, definitions)
  BY <1>1, <1>2 DEF Waits, Innermost, PathOf
<1>4. Frames(stack', document, definitions, store)
  BY <1>1, <1>2, <1>3, FramesCall
<1>5. Planned'
  BY <1>1, PlannedIsKept DEF EvaluationInv
<1>6. Checked' /\ CleanNeverMisses' /\ NeverStarved' /\ UNCHANGED <<document, definitions, store>>
  BY <1>1 DEF EvaluationInv, Checked, CleanNeverMisses, NeverStarved
<1>. QED BY <1>4, <1>5, <1>6 DEF EvaluationInv

LEMMA CompatibleInTwoSteps ==
    ASSUME NEW a, NEW b, NEW c, IsCompatible(a, b), IsCompatible(b, c)
    PROVE  IsCompatible(a, c)
BY DEF IsCompatible

\* The port inside that an exposed output shows.
Shown(inner, name) == (CHOOSE p \in Range(inner.exposed_outputs) : p.name = name).maps_to

\* The outputs of the component that is left.
Exposures ==
    [key \in {<<Innermost.path, p.name>> : p \in Range(Innermost.owner.exposed_outputs)} |->
        Found(PathOf(Shown(Innermost.owner, key[2])[1]), Shown(Innermost.owner, key[2])[2])]

\* A component that is left has all the outputs that it exposes.
LEMMA LeaveDoes ==
    ASSUME EvaluationInv, Leave
    PROVE  /\ phase = "executing" /\ Len(stack) \in Nat /\ Len(stack) > 1 /\ Innermost.todo = <<>>
           /\ Framed(stack[Len(stack) - 1], Len(stack) - 1, definitions, store)
           /\ Waits(stack[Len(stack) - 1], Innermost, definitions)
           /\ LET f == stack[Len(stack) - 1]
              IN  /\ KeyOf(f.owner, NodeOf(f.owner, Head(f.todo))) \in DOMAIN definitions
                  /\ Tables(f.owner, definitions)[Head(f.todo)] = Interface(Innermost.owner)
           /\ \A q \in Range(Innermost.owner.exposed_outputs) :
                 LET end == Shown(Innermost.owner, q.name)
                     inside == <<PathOf(end[1]), end[2]>>
                 IN  /\ <<Innermost.path, q.name>> \in DOMAIN Exposures /\ inside \in DOMAIN store
                     /\ Exposures[<<Innermost.path, q.name>>] = store[inside]
                     /\ store[inside] # None
                     /\ IsCompatible(store[inside].type, Interface(Innermost.owner).outputs[q.name])
           /\ store' = With(store, Exposures)
           /\ stack' = [SubSeq(stack, 1, Len(stack) - 1) EXCEPT ![Len(stack) - 1].todo = Tail(@)]
           /\ UNCHANGED <<searchVars, planVars, document, conditions, definitions, phase, events,
                          diagnostics, targets, behaviour>>
<1>. DEFINE address == Innermost.path
            inner == Innermost.owner
            outputs == Range(inner.exposed_outputs)
            n == Len(stack)
            caller == n - 1
            f == stack[caller]
<1>1. phase = "executing" /\ n > 1 /\ Innermost.todo = <<>>
  BY DEF Leave
<1>2. /\ Frames(stack, document, definitions, store) /\ n \in Nat
      /\ Framed(Innermost, n, definitions, store)
      /\ \A k \in DOMAIN definitions : Usable(definitions[k], definitions)
  BY <1>1, WhileExecuting
<1>3. Framed(f, caller, definitions, store) /\ Waits(f, Innermost, definitions)
  <2>1. caller \in 1 .. n /\ caller \in 1 .. n - 1 /\ caller + 1 = n
    BY <1>1, <1>2
  <2>. HIDE DEF caller, n
  <2>. QED BY <2>1, <1>2 DEF Frames, Innermost, n
<1>. DEFINE node == NodeOf(f.owner, Head(f.todo))
<1>4. /\ node.type = "component" /\ f.todo # <<>>
      /\ inner = definitions[KeyOf(f.owner, node)] /\ address = Append(f.path, Head(f.todo))
  BY <1>3 DEF Waits
<1>5. /\ KeyOf(f.owner, node) \in DOMAIN definitions
      /\ Tables(f.owner, definitions)[Head(f.todo)] = Interface(inner)
  <2>. HIDE DEF f
  <2>1. Head(f.todo) \in Ids(f.owner)
    BY <1>3, <1>4, TailIsInOrder DEF Framed
  <2>2. node \in Range(f.owner.nodes) /\ node.id = Head(f.todo)
    BY <2>1 DEF Ids, NodeOf
  <2>3. NodesAreUnique(f.owner) /\ NodesResolve(f.owner, definitions)
    BY <1>3 DEF Framed, Wired
  <2>. HIDE DEF node
  <2>4. KeyOf(f.owner, node) \in DOMAIN definitions
    BY <1>4, <2>2, <2>3 DEF NodesResolve
  <2>. QED BY <1>4, <2>2, <2>3, <2>4, TablesAreTotal
<1>6. Usable(inner, definitions)
  BY <1>2, <1>4, <1>5
<1>. HIDE DEF inner, f, node
<1>7. ASSUME NEW q \in outputs
      PROVE  LET end == Shown(inner, q.name)
                 inside == <<PathOf(end[1]), end[2]>>
             IN  /\ inside \in DOMAIN store /\ store[inside] # None
                 /\ IsCompatible(store[inside].type, Interface(inner).outputs[q.name])
  <2>. DEFINE p == CHOOSE p \in outputs : p.name = q.name
              end == p.maps_to
              inside == <<PathOf(end[1]), end[2]>>
              value == store[inside]
              tables == Tables(inner, definitions)
  <2>1. p \in outputs
    OBVIOUS
  <2>2. /\ q.name \in DOMAIN Interface(inner).outputs
        /\ Interface(inner).outputs[q.name] = p.type
    BY DEF Interface, NodeImplementation, Exposed
  <2>. HIDE DEF p
  <2>3. HasOutput(tables, end) /\ IsCompatible(tables[end[1]].outputs[end[2]], p.type)
    BY <1>6, <2>1 DEF Usable, OutputsFit
  <2>4. end[1] \in Ids(inner)
    <3>1. DOMAIN tables = Ids(inner)
      BY <1>6, TablesAreTotal DEF Usable, Wired
    <3>. QED BY <2>3, <3>1 DEF HasOutput
  <2>5. OutputsAreIn(store, Innermost, end[1], definitions)
    <3>1. Range(Innermost.todo) = {}
      BY <1>1 DEF Range
    <3>. QED BY <1>2, <2>4, <3>1 DEF Framed, inner
  <2>6. inside \in DOMAIN store /\ value # None
        /\ IsCompatible(value.type, tables[end[1]].outputs[end[2]])
    BY <2>3, <2>5 DEF OutputsAreIn, HasOutput, PathOf, inner
  <2>. HIDE DEF value, tables, inside
  <2>7. IsCompatible(value.type, p.type)
    BY <2>3, <2>6, CompatibleInTwoSteps
  <2>. QED BY <2>2, <2>6, <2>7 DEF value, p, inside, Shown
<1>8. ASSUME NEW q \in outputs
      PROVE  LET end == Shown(inner, q.name)
                 inside == <<PathOf(end[1]), end[2]>>
             IN  <<address, q.name>> \in DOMAIN Exposures /\ Exposures[<<address, q.name>>] = store[inside]
  <2>1. /\ <<address, q.name>> \in DOMAIN Exposures
        /\ Exposures[<<address, q.name>>] =
              Found(PathOf(Shown(inner, q.name)[1]), Shown(inner, q.name)[2])
    <3>. HIDE DEF address
    <3>. QED BY DEF Exposures, address, inner
  <2>. QED BY <1>7, <2>1 DEF Found
<1>9. None \notin Range(Exposures)
  <2>1. \A key \in DOMAIN Exposures : \E q \in outputs : key = <<address, q.name>>
    BY DEF Exposures, inner
  <2>2. \A q \in outputs : Exposures[<<address, q.name>>] # None
    BY <1>7, <1>8
  <2>. HIDE DEF address, outputs
  <2>3. \A key \in DOMAIN Exposures : Exposures[key] # None
    BY <2>1, <2>2
  <2>. QED BY <2>3 DEF Range
<1>10. /\ store' = With(store, Exposures)
       /\ stack' = [SubSeq(stack, 1, caller) EXCEPT ![caller].todo = Tail(@)]
       /\ UNCHANGED <<searchVars, planVars, document, conditions, definitions, phase, events,
                      diagnostics, targets, behaviour>>
  BY <1>9 DEF Leave, Exposures, Shown
<1>. QED BY <1>1, <1>2, <1>3, <1>5, <1>7, <1>8, <1>10 DEF inner, f, node

LEMMA LeaveKeepsEvaluationInv == EvaluationInv /\ Leave => EvaluationInv'
<1>. SUFFICES ASSUME EvaluationInv, Leave PROVE EvaluationInv'
  OBVIOUS
<1>. DEFINE address == Innermost.path
            inner == Innermost.owner
            n == Len(stack)
            caller == n - 1
            rest == SubSeq(stack, 1, caller)
            f == stack[caller]
<1>1. /\ phase = "executing" /\ n \in Nat /\ n > 1
      /\ Waits(f, Innermost, definitions)
      /\ Tables(f.owner, definitions)[Head(f.todo)] = Interface(inner)
      /\ store' = With(store, Exposures)
      /\ stack' = [rest EXCEPT ![caller].todo = Tail(@)]
      /\ UNCHANGED <<searchVars, planVars, document, conditions, definitions, phase,
                     diagnostics, targets, behaviour>>
  BY LeaveDoes
<1>2. \A q \in Range(inner.exposed_outputs) :
         /\ <<address, q.name>> \in DOMAIN Exposures
         /\ Exposures[<<address, q.name>>] # None
         /\ IsCompatible(Exposures[<<address, q.name>>].type, Interface(inner).outputs[q.name])
  BY LeaveDoes
<1>3. Frames(stack, document, definitions, store)
  BY <1>1, WhileExecuting
<1>4. f.todo # <<>> /\ address = Append(f.path, Head(f.todo))
  BY <1>1 DEF Waits
<1>5. OutputsAreIn(With(store, Exposures), f, Head(f.todo), definitions)
  <2>. SUFFICES ASSUME NEW port \in DOMAIN Interface(inner).outputs
                PROVE  LET key == <<address, port>>
                       IN  /\ key \in DOMAIN With(store, Exposures)
                           /\ With(store, Exposures)[key] # None
                           /\ IsCompatible(With(store, Exposures)[key].type,
                                           Interface(inner).outputs[port])
    BY <1>1, <1>4 DEF OutputsAreIn
  <2>1. PICK q \in Range(inner.exposed_outputs) : q.name = port
    BY DEF Interface, NodeImplementation, Exposed
  <2>. DEFINE key == <<address, port>>
  <2>2. key \in DOMAIN Exposures /\ Exposures[key] # None
        /\ IsCompatible(Exposures[key].type, Interface(inner).outputs[port])
    BY <1>2, <2>1
  <2>. HIDE DEF key
  <2>3. key \in DOMAIN With(store, Exposures) /\ With(store, Exposures)[key] = Exposures[key]
    BY <2>2 DEF With
  <2>. QED BY <2>2, <2>3 DEF key
<1>6. Frames(rest, document, definitions, store) /\ Len(rest) = caller /\ rest[caller] = f
  <2>1. Frames(rest, document, definitions, store)
    BY <1>1, <1>3, FramesReturn
  <2>2. PICK S : stack \in Seq(S)
    BY <1>3 DEF Frames
  <2>3. Len(rest) = caller /\ rest[caller] = f
    BY <1>1, <2>2
  <2>. QED BY <2>1, <2>3
<1>7. Frames(stack', document, definitions, store')
  <2>0. \A key \in DOMAIN Exposures : key[1] = address
    BY DEF Exposures
  <2>. HIDE DEF rest, caller, address
  <2>1. \A key \in DOMAIN Exposures : key[1] = Append(rest[caller].path, Head(rest[caller].todo))
    BY <1>4, <1>6, <2>0
  <2>2. OutputsAreIn(With(store, Exposures), rest[caller], Head(rest[caller].todo), definitions)
    BY <1>5, <1>6
  <2>3. rest[caller].todo # <<>>
    BY <1>4, <1>6
  <2>. QED BY <1>1, <1>6, <2>1, <2>2, <2>3, FramesAdvance
<1>8. Planned'
  BY <1>1, PlannedIsKept DEF EvaluationInv
<1>9. Checked' /\ CleanNeverMisses' /\ NeverStarved' /\ UNCHANGED <<document, definitions>>
  BY <1>1 DEF EvaluationInv, Checked, CleanNeverMisses, NeverStarved
<1>. QED BY <1>7, <1>8, <1>9 DEF EvaluationInv

\* What is delivered to the terminal are targets.
LEMMA TerminateDoes ==
    ASSUME EvaluationInv, Terminate
    PROVE  /\ phase = "executing" /\ Len(stack) = 1 /\ Innermost.todo = <<>>
           /\ phase' = "done"
           /\ UNCHANGED <<searchVars, planVars, document, conditions, definitions, stack, store,
                          events, diagnostics, behaviour>>
<1>. DEFINE node == CHOOSE m \in TerminalNodes(document) : TRUE
            leading == {e \in Edges(document) : e.to = <<node.id, "targets">>}
            delivered == {Found(<<e.from[1]>>, e.from[2]) : e \in leading}
            tables == Tables(document, definitions)
<1>1. phase = "executing" /\ Len(stack) = 1 /\ Innermost.todo = <<>>
  BY DEF Terminate
<1>2. /\ Frames(stack, document, definitions, store)
      /\ Framed(Innermost, 1, definitions, store)
      /\ Wired(document, {}, definitions) /\ TerminalNodes(document) # {}
  BY <1>1, WhileExecuting
<1>3. Innermost.owner = document /\ Innermost.path = <<>>
  BY <1>1, <1>2 DEF Frames, Framed, Innermost
<1>4. node \in Range(document.nodes) /\ node.type = "target_portfolio"
  BY <1>2 DEF TerminalNodes, Registered, Terminal
<1>. HIDE DEF node
<1>5. /\ tables[node.id] = CoreBindings["target_portfolio"] /\ DOMAIN tables = Ids(document)
      /\ node.id \in Ids(document)
  BY <1>2, <1>4, TablesAreTotal DEF Wired, Ids
<1>6. /\ "targets" \in DOMAIN tables[node.id].inputs
      /\ tables[node.id].inputs["targets"] = "Targets"
  BY <1>5 DEF CoreBindings, TARGET_PORTFOLIO, NodeImplementation
<1>7. PICK e \in Edges(document) : e.to = <<node.id, "targets">>
  <2>1. <<node.id, "targets">> \in Range(Ends(document))
    BY <1>2, <1>5, <1>6 DEF Wired, InputsAreFed
  <2>. QED BY <2>1 DEF Ends, Edges, Range
<1>. DEFINE value == Found(<<e.from[1]>>, e.from[2])
<1>8. value.type = "Targets"
  <2>1. /\ e.from[1] \in Ids(document) /\ HasOutput(tables, e.from)
        /\ IsCompatible(tables[e.from[1]].outputs[e.from[2]], "Targets")
    <3>1. e.to[1] = node.id /\ e.to[2] = "targets"
      BY <1>7
    <3>. QED BY <1>2, <1>6, <1>7, <3>1 DEF Wired, EdgesFit
  <2>2. OutputsAreIn(store, Innermost, e.from[1], definitions)
    <3>1. Range(Innermost.todo) = {}
      BY <1>1 DEF Range
    <3>. QED BY <1>2, <1>3, <2>1, <3>1 DEF Framed
  <2>3. Append(Innermost.path, e.from[1]) = <<e.from[1]>>
    BY <1>3
  <2>4. IsCompatible(value.type, tables[e.from[1]].outputs[e.from[2]])
    BY <1>3, <2>1, <2>2, <2>3 DEF OutputsAreIn, HasOutput, Found
  <2>. HIDE DEF value
  <2>5. IsCompatible(value.type, "Targets")
    BY <2>1, <2>4, CompatibleInTwoSteps
  <2>. QED BY <2>5 DEF IsCompatible
<1>9. \E v \in delivered : v.type = "Targets"
  <2>1. value \in delivered
    BY <1>7
  <2>. HIDE DEF value, delivered
  <2>. QED BY <2>1, <1>8
<1>10. /\ phase' = "done"
       /\ UNCHANGED <<searchVars, planVars, document, conditions, definitions, stack, store,
                      events, diagnostics, behaviour>>
  <2>. HIDE DEF delivered
  <2>. QED BY <1>9 DEF Terminate, delivered, node
<1>. QED BY <1>1, <1>10

LEMMA TerminateKeepsEvaluationInv == EvaluationInv /\ Terminate => EvaluationInv'
<1>. SUFFICES ASSUME EvaluationInv, Terminate PROVE EvaluationInv'
  OBVIOUS
<1>1. /\ phase = "executing" /\ phase' = "done"
      /\ UNCHANGED <<searchVars, planVars, document, conditions, definitions, stack, store,
                     events, diagnostics, behaviour>>
  BY TerminateDoes
<1>2. Planned'
  BY <1>1, PlannedIsKept DEF EvaluationInv
<1>3. Checked' /\ CleanNeverMisses' /\ NeverStarved'
  BY <1>1 DEF EvaluationInv, Checked, CleanNeverMisses, NeverStarved
<1>. QED BY <1>1, <1>2, <1>3 DEF EvaluationInv

LEMMA EvalNextKeepsEvaluationInv == EvaluationInv /\ EvalNext => EvaluationInv'
BY SearchKeepsEvaluationInv, RejectKeepsEvaluationInv, FetchKeepsEvaluationInv,
   CheckKeepsEvaluationInv, OrderKeepsEvaluationInv, StartKeepsEvaluationInv,
   RunRegisteredKeepsEvaluationInv, EnterKeepsEvaluationInv, LeaveKeepsEvaluationInv,
   TerminateKeepsEvaluationInv DEF EvalNext

LEMMA StutterKeepsEvaluationInv == EvaluationInv /\ UNCHANGED evalVars => EvaluationInv'
<1>. SUFFICES ASSUME EvaluationInv, UNCHANGED evalVars PROVE EvaluationInv'
  OBVIOUS
<1>1. UNCHANGED <<searchVars, planVars, document>> /\ UNCHANGED evaluationVars
  BY DEF evalVars, evaluationVars
<1>2. Planned'
  BY <1>1, PlannedIsKept DEF EvaluationInv
<1>. QED BY <1>1, <1>2, EvaluationIsKept

-----------------------------------------------------------------------------
(* What a question is answered with.                                       *)

\* The node of a graph that is a component, and the graph of its definition.
Inner(graph, node) == Stored[KeyOf(graph, node)]

Within(graph, id, inner) ==
    /\ NodeOf(graph, id).type = "component" /\ KeyOf(graph, NodeOf(graph, id)) \in DOMAIN Stored
    /\ inner = Inner(graph, NodeOf(graph, id))

\* An address leads to a node, name by name: each but the last is a component's,
\* in whose definition the next is looked up.
Leads(d, graphs, a) ==
    /\ a \in Seq(Nat) /\ a # <<>> /\ graphs[1] = d
    /\ \A i \in 1 .. Len(a) : a[i] \in Ids(graphs[i]) /\ NodesAreUnique(graphs[i])
    /\ \A i \in 1 .. Len(a) - 1 : Within(graphs[i], a[i], graphs[i + 1])

NodeAt(graphs, a) == NodeOf(graphs[Len(a)], a[Len(a)])

InnerAt(graphs, a) == Inner(graphs[Len(a)], NodeAt(graphs, a))

OutputsAt(graphs, a) ==
    IF NodeAt(graphs, a).type = "component"
    THEN {p.name : p \in Range(InnerAt(graphs, a).exposed_outputs)}
    ELSE DOMAIN CoreBindings[NodeAt(graphs, a).type].outputs

\* The outputs of the node are held: those of a component are the ones inside.
OutputsHeld(values, graphs, a) ==
    IF NodeAt(graphs, a).type = "component"
    THEN \A name \in OutputsAt(graphs, a) :
            LET end == Shown(InnerAt(graphs, a), name)
            IN  /\ <<a, name>> \in DOMAIN values /\ <<Append(a, end[1]), end[2]>> \in DOMAIN values
                /\ values[<<a, name>>] = values[<<Append(a, end[1]), end[2]>>]
    ELSE \A port \in OutputsAt(graphs, a) :
            /\ <<a, port>> \in DOMAIN values
            /\ values[<<a, port>>].type = CoreBindings[NodeAt(graphs, a).type].outputs[port]

\* The implementation has answered.
Answered(how, a) == a \in DOMAIN how /\ how[a] \notin DOMAIN Failure

\* Where no code has changed, it has answered as it did in the run.
Settled(types, values, how, trace, graphs, a) ==
    /\ OutputsHeld(values, graphs, a)
    /\ types = {} /\ NodeAt(graphs, a).type # "component" =>
          Answered(how, a) /\ (how[a] = "answers" => a \in DOMAIN trace)

\* The frames have left the node behind.
Left(frames, a) ==
    \E k \in 1 .. Len(frames) :
        /\ k <= Len(a) /\ \A j \in 1 .. k - 1 : a[j] = Head(frames[j].todo)
        /\ a[k] \notin Range(frames[k].todo)

\* Each frame is inside the nodes that the frames around it wait at.
Nested(frames) ==
    \A k \in 1 .. Len(frames) : \A j \in 1 .. k - 1 : frames[k].path[j] = Head(frames[j].todo)

\* Values of outputs of nodes, made of the data at the session.
ValuesOf(d, values, data, session) ==
    \A key \in DOMAIN values :
        /\ key = <<key[1], key[2]>>
        /\ \E graphs : Leads(d, graphs, key[1]) /\ key[2] \in OutputsAt(graphs, key[1])
        /\ values[key] = [type |-> values[key].type, data |-> data, session |-> session,
                          other |-> values[key].other]
        /\ values[key].other \in BOOLEAN

Pure(values) == \A key \in DOMAIN values : values[key].other = FALSE

\* The nodes that left events answered with them.
Told(d, trace, how) ==
    \A a \in DOMAIN trace :
        /\ a \in DOMAIN how /\ how[a] = "answers"
        /\ \E graphs : Leads(d, graphs, a) /\ NodeAt(graphs, a).type # "component"

StructurePasses == result.state # "searching" /\ Faulty = {} /\ document # GraphOnly

ChecksPass ==
    /\ StructurePasses /\ NoSession = {}
    /\ Preflight(document, Fetched(document, Restrict(Stored, DOMAIN Stored))) = {}

Succeeded == phase = "done" /\ diagnostics = {}

\* What a run goes through before it is asked about, and a recompute after.
Stages ==
    /\ run = Unset => query = Unset
    /\ query = Unset => reply = Unset /\ conditions.changed = {} /\ conditions.catalog = DOMAIN Stored
    /\ run # Unset /\ query = Unset => Succeeded /\ store = run.store
    /\ query # Unset /\ reply = Unset => run.known
    /\ reply # Unset => phase = "done"
    /\ {"catalog", "data", "session", "visible", "changed"} \subseteq DOMAIN conditions
    /\ run # Unset => run.data = conditions.data /\ run.session = conditions.session

\* The checks pass again.
Passed ==
    /\ phase = "resolving" => StructurePasses
    /\ phase \in {"resolving", "ordering", "executing"} =>
          definitions = Fetched(document, Restrict(Stored, conditions.catalog))
    /\ run # Unset \/ phase \in {"ordering", "executing"} \/ Succeeded => ChecksPass

\* What the store holds while the evaluation goes on and when it is over.
LeftAreSettled ==
    \A graphs, a : Leads(document, graphs, a) /\ Left(stack, a) =>
        Settled(conditions.changed, store, behaviour, events, graphs, a)

AllAreSettled ==
    \A graphs, a : Leads(document, graphs, a) =>
        Settled(conditions.changed, store, behaviour, events, graphs, a)

StoreIsRight ==
    /\ ValuesOf(document, store, conditions.data, conditions.session)
    /\ phase = "executing" => Nested(stack) /\ LeftAreSettled
    /\ Succeeded => AllAreSettled

\* Where no code has changed, nothing is another value than the run's.
FedPurely(frames) ==
    \A k \in 1 .. Len(frames) : \A end \in DOMAIN frames[k].externals :
        frames[k].externals[end].other = FALSE

NothingDiffers ==
    conditions.changed = {} =>
        /\ Pure(store)
        /\ \A a \in DOMAIN events : events[a].other = FALSE
        /\ phase = "executing" => FedPurely(stack)

\* What is known of a run that is stored.
RunIsRight ==
    /\ run = Unset => Told(document, events, behaviour)
    /\ run # Unset =>
          /\ ValuesOf(document, run.store, run.data, run.session) /\ Pure(run.store)
          /\ \A graphs, a : Leads(document, graphs, a) =>
                /\ OutputsHeld(run.store, graphs, a)
                /\ NodeAt(graphs, a).type # "component" => Answered(behaviour, a)
          /\ Told(document, run.events, behaviour)

\* The recompute makes nothing but what the run has, and fails only if something
\* has changed.
Follows(values) ==
    \A key \in DOMAIN values :
        key \in DOMAIN run.store /\ values[key].type = run.store[key].type

RecomputeFollows ==
    run # Unset =>
        /\ Follows(store)
        /\ conditions.changed = {} /\ conditions.catalog = DOMAIN Stored => diagnostics = {}

\* The inductive invariant of a run and a question.
TapInv ==
    /\ EvaluationInv /\ Stages /\ Passed /\ StoreIsRight /\ NothingDiffers
    /\ RunIsRight /\ RecomputeFollows /\ TapAnswersForTheRun

-----------------------------------------------------------------------------
(* Where the frames stand, and what they leave behind.                     *)

\* The path to where the innermost frame stands leads to each of its nodes.
LEMMA StackLeads ==
    ASSUME NEW frames, NEW d, NEW held, NEW values, Frames(frames, d, held, values),
           HeldIsStored(held), Nested(frames), NEW n, n = Len(frames),
           NEW id \in Ids(frames[n].owner)
    PROVE  LET a == Append(frames[n].path, id)
           IN  /\ Leads(d, [i \in 1 .. n |-> frames[i].owner], a)
               /\ Len(a) = n /\ a[n] = id /\ \A j \in 1 .. n - 1 : a[j] = Head(frames[j].todo)
<1>. DEFINE a == Append(frames[n].path, id)
            graphs == [i \in 1 .. n |-> frames[i].owner]
<1>1. n \in Nat /\ n >= 1 /\ \A k \in 1 .. n : Framed(frames[k], k, held, values)
  BY DEF Frames
<1>2. frames[n].path \in Seq(Nat) /\ Len(frames[n].path) = n - 1 /\ id \in Nat
  BY <1>1 DEF Framed
<1>3. /\ a \in Seq(Nat) /\ Len(a) = n /\ a[n] = id /\ a # <<>>
      /\ \A j \in 1 .. n - 1 : a[j] = frames[n].path[j]
  BY <1>1, <1>2
<1>4. \A j \in 1 .. n - 1 : a[j] = Head(frames[j].todo)
  BY <1>1, <1>3 DEF Nested
<1>. HIDE DEF a
<1>5. ASSUME NEW i \in 1 .. n
      PROVE  a[i] \in Ids(graphs[i]) /\ NodesAreUnique(graphs[i])
  <2>1. NodesAreUnique(frames[i].owner)
    BY <1>1 DEF Framed, Wired
  <2>2. CASE i = n
    BY <2>1, <2>2, <1>3
  <2>3. CASE i # n
    <3>1. i \in 1 .. n - 1
      BY <2>3, <1>1
    <3>2. frames[i].todo # <<>>
      BY <3>1 DEF Frames, Waits
    <3>3. Head(frames[i].todo) \in Ids(frames[i].owner)
      <4>1. InOrder(frames[i].todo, Ids(frames[i].owner), AdjacencyIn(frames[i].owner))
        BY <1>1 DEF Framed
      <4>. QED BY <3>2, <4>1, TailIsInOrder
    <3>. QED BY <2>1, <3>1, <3>3, <1>4
  <2>. QED BY <2>2, <2>3
<1>6. ASSUME NEW i \in 1 .. n - 1
      PROVE  Within(graphs[i], a[i], graphs[i + 1])
  <2>. DEFINE owner == frames[i].owner
              node == NodeOf(owner, a[i])
  <2>1. i \in 1 .. n /\ i + 1 \in 1 .. n
    BY <1>1
  <2>2. /\ graphs[i] = owner /\ graphs[i + 1] = frames[i + 1].owner
        /\ a[i] = Head(frames[i].todo) /\ a[i] \in Ids(owner)
    BY <2>1, <1>4, <1>5
  <2>3. node.type = "component" /\ graphs[i + 1] = held[KeyOf(owner, node)]
    BY <2>2 DEF Frames, Waits
  <2>4. KeyOf(owner, node) \in DOMAIN held
    <3>1. node \in Range(owner.nodes)
      BY <2>2 DEF Ids, NodeOf
    <3>2. NodesResolve(owner, held)
      BY <1>1, <2>1 DEF Framed, Wired
    <3>. HIDE DEF node, owner
    <3>. QED BY <2>3, <3>1, <3>2 DEF NodesResolve
  <2>. HIDE DEF graphs
  <2>. QED BY <2>2, <2>3, <2>4 DEF Within, Inner, HeldIsStored
<1>7. graphs[1] = d
  BY <1>1 DEF Frames
<1>8. Leads(d, graphs, a)
  BY <1>3, <1>5, <1>6, <1>7 DEF Leads
<1>. QED BY <1>3, <1>4, <1>8 DEF a

\* An address that goes where the frames stand is looked up in their graphs.
LEMMA GraphsOfStack ==
    ASSUME NEW frames, NEW d, NEW held, NEW values, Frames(frames, d, held, values),
           HeldIsStored(held), NEW graphs, NEW a, Leads(d, graphs, a),
           NEW k \in 1 .. Len(frames), k <= Len(a),
           \A j \in 1 .. k - 1 : a[j] = Head(frames[j].todo)
    PROVE  graphs[k] = frames[k].owner
<1>. DEFINE n == Len(frames)
            T == {i \in 0 .. k : i = 0 \/ graphs[i] = frames[i].owner}
<1>1. n \in Nat /\ n >= 1 /\ \A i \in 1 .. n : Framed(frames[i], i, held, values)
  BY DEF Frames
<1>2. k \in Nat /\ k \in 1 .. n /\ Len(a) \in Nat
  BY <1>1 DEF Leads
<1>3. ASSUME NEW i \in 1 .. k, i = 1 \/ graphs[i - 1] = frames[i - 1].owner
      PROVE  graphs[i] = frames[i].owner
  <2>1. CASE i = 1
    BY <2>1 DEF Leads, Frames
  <2>2. CASE i # 1
    <3>. DEFINE m == i - 1
                owner == frames[m].owner
                node == NodeOf(owner, a[m])
    <3>1. /\ m \in 1 .. n - 1 /\ m \in 1 .. n /\ m \in 1 .. k - 1 /\ m + 1 = i
          /\ m \in 1 .. Len(a) - 1 /\ m \in 1 .. Len(a)
      BY <2>2, <1>1, <1>2
    <3>. HIDE DEF m
    <3>2. graphs[m] = owner
      BY <1>3, <2>2 DEF m
    <3>3. a[m] \in Ids(owner) /\ Within(owner, a[m], graphs[i])
      BY <3>1, <3>2 DEF Leads
    <3>4. /\ a[m] = Head(frames[m].todo)
          /\ frames[i].owner = held[KeyOf(owner, node)]
      BY <3>1 DEF Frames, Waits
    <3>5. KeyOf(owner, node) \in DOMAIN held
      <4>1. node \in Range(owner.nodes)
        BY <3>3 DEF Ids, NodeOf
      <4>2. NodesResolve(owner, held)
        BY <1>1, <3>1 DEF Framed, Wired
      <4>3. node.type = "component"
        BY <3>3 DEF Within
      <4>. HIDE DEF node, owner
      <4>. QED BY <4>1, <4>2, <4>3 DEF NodesResolve
    <3>. HIDE DEF owner
    <3>. QED BY <3>3, <3>4, <3>5 DEF Within, Inner, HeldIsStored
  <2>. QED BY <2>1, <2>2
<1>4. 0 \in T
  BY <1>2
<1>5. ASSUME NEW i \in 1 .. k, i - 1 \in T
      PROVE  i \in T
  <2>1. i - 1 = 0 \/ graphs[i - 1] = frames[i - 1].owner
    BY <1>5
  <2>2. graphs[i] = frames[i].owner
    BY <2>1, <1>2, <1>3
  <2>. QED BY <2>2, <1>2
<1>. HIDE DEF T
<1>6. \A i \in 0 .. k : i \in T
  BY <1>2, <1>4, <1>5, InductionTo
<1>7. k \in T
  BY <1>2, <1>6
<1>. QED BY <1>2, <1>7 DEF T

\* Where the frames stand, and the frames once that node is left.
Here(frames) == Append(frames[Len(frames)].path, Head(frames[Len(frames)].todo))

Onward(frames) == [frames EXCEPT ![Len(frames)].todo = Tail(@)]

LEMMA HereIsFirst ==
    ASSUME NEW frames, NEW d, NEW held, NEW values, Frames(frames, d, held, values),
           Nested(frames), NEW n, n = Len(frames), frames[n].todo # <<>>
    PROVE  /\ n \in Nat /\ n >= 1 /\ Here(frames) \in Seq(Nat) /\ Len(Here(frames)) = n
           /\ \A j \in 1 .. n : /\ Here(frames)[j] = Head(frames[j].todo)
                                /\ Here(frames)[j] \in Range(frames[j].todo)
                                /\ Here(frames)[j] \in Ids(frames[j].owner)
<1>1. n \in Nat /\ n >= 1 /\ \A k \in 1 .. n : Framed(frames[k], k, held, values)
  BY DEF Frames
<1>2. ASSUME NEW k \in 1 .. n
      PROVE  /\ Head(frames[k].todo) \in Range(frames[k].todo)
             /\ Head(frames[k].todo) \in Ids(frames[k].owner)
             /\ Head(frames[k].todo) \in Nat
  <2>1. frames[k].todo # <<>>
    <3>1. CASE k = n
      BY <3>1
    <3>2. CASE k # n
      <4>1. k \in 1 .. n - 1
        BY <3>2, <1>1
      <4>. QED BY <4>1 DEF Frames, Waits
    <3>. QED BY <3>1, <3>2
  <2>2. /\ InOrder(frames[k].todo, Ids(frames[k].owner), AdjacencyIn(frames[k].owner))
        /\ Ids(frames[k].owner) \subseteq Nat
    BY <1>1 DEF Framed
  <2>3. Head(frames[k].todo) \in Ids(frames[k].owner)
    BY <2>1, <2>2, TailIsInOrder
  <2>4. Head(frames[k].todo) \in Range(frames[k].todo)
    <3>1. frames[k].todo \in Seq(Ids(frames[k].owner))
      BY <2>2 DEF InOrder
    <3>2. 1 \in DOMAIN frames[k].todo /\ Head(frames[k].todo) = frames[k].todo[1]
      BY <2>1, <3>1
    <3>. QED BY <3>2 DEF Range
  <2>. QED BY <2>2, <2>3, <2>4
<1>3. frames[n].path \in Seq(Nat) /\ Len(frames[n].path) = n - 1
  BY <1>1 DEF Framed
<1>4. Head(frames[n].todo) \in Nat
  BY <1>1, <1>2
<1>5. /\ Here(frames) \in Seq(Nat) /\ Len(Here(frames)) = n
      /\ Here(frames)[n] = Head(frames[n].todo)
      /\ \A j \in 1 .. n - 1 : Here(frames)[j] = frames[n].path[j]
  BY <1>1, <1>3, <1>4 DEF Here
<1>6. \A j \in 1 .. n : Here(frames)[j] = Head(frames[j].todo)
  <2>1. \A j \in 1 .. n - 1 : frames[n].path[j] = Head(frames[j].todo)
    BY <1>1 DEF Nested
  <2>. QED BY <1>1, <1>5, <2>1
<1>. QED BY <1>1, <1>2, <1>5, <1>6

\* Neither a node that is left nor one inside it is where the frames stand.
LEMMA LeftIsElsewhere ==
    ASSUME NEW frames, NEW d, NEW held, NEW values, Frames(frames, d, held, values),
           Nested(frames), frames[Len(frames)].todo # <<>>, NEW a \in Seq(Nat), Left(frames, a)
    PROVE  a # Here(frames) /\ \A e : Append(a, e) # Here(frames)
<1>. DEFINE n == Len(frames)
            x == Here(frames)
<1>1. \A j \in 1 .. n : x[j] = Head(frames[j].todo) /\ x[j] \in Range(frames[j].todo)
  BY HereIsFirst
<1>2. PICK k \in 1 .. n :
        /\ k <= Len(a) /\ \A j \in 1 .. k - 1 : a[j] = Head(frames[j].todo)
        /\ a[k] \notin Range(frames[k].todo)
  BY DEF Left
<1>. HIDE DEF x
<1>3. a # x
  BY <1>1, <1>2
<1>4. ASSUME NEW e, Append(a, e) = x
      PROVE  FALSE
  <2>1. a \in Seq(Nat \cup {e}) /\ e \in Nat \cup {e}
    BY WiderSeq
  <2>2. n \in Nat /\ k \in 1 .. Len(a)
    BY <1>2 DEF Frames
  <2>3. Append(a, e)[k] = a[k]
    BY <2>1, <2>2
  <2>. QED BY <1>1, <1>2, <1>4, <2>3
<1>. QED BY <1>3, <1>4 DEF x

LEMMA OnwardIs ==
    ASSUME NEW frames, NEW d, NEW held, NEW values, Frames(frames, d, held, values),
           NEW n, n = Len(frames)
    PROVE  /\ n \in Nat /\ n >= 1 /\ Len(Onward(frames)) = n
           /\ \A k \in 1 .. n : k # n => Onward(frames)[k] = frames[k]
           /\ \A k \in 1 .. n : Onward(frames)[k].path = frames[k].path
           /\ \A k \in 1 .. n : Onward(frames)[k].externals = frames[k].externals
           /\ Onward(frames)[n].todo = Tail(frames[n].todo)
<1>. DEFINE f == frames[n]
            g == [f EXCEPT !.todo = Tail(@)]
<1>1. PICK S : frames \in Seq(S)
  BY DEF Frames
<1>2. n \in Nat /\ n >= 1 /\ frames \in Seq(S \cup {g})
  BY <1>1, WiderSeq DEF Frames
<1>3. f = Frame(f.owner, f.path, f.todo, f.externals)
  BY <1>2 DEF Frames, Framed
<1>4. g.path = f.path /\ g.externals = f.externals /\ g.todo = Tail(f.todo)
  BY <1>3 DEF Frame
<1>5. Onward(frames) = [frames EXCEPT ![n] = g]
  BY DEF Onward
<1>. HIDE DEF g
<1>6. /\ Len(Onward(frames)) = n /\ Onward(frames)[n] = g
      /\ \A k \in 1 .. n : k # n => Onward(frames)[k] = frames[k]
  BY <1>2, <1>5
<1>. QED BY <1>2, <1>4, <1>6

LEMMA OnwardIsNested ==
    ASSUME NEW frames, NEW d, NEW held, NEW values, Frames(frames, d, held, values),
           Nested(frames)
    PROVE  Nested(Onward(frames))
<1>. DEFINE n == Len(frames)
<1>1. /\ n \in Nat /\ n >= 1 /\ Len(Onward(frames)) = n
      /\ \A k \in 1 .. n : k # n => Onward(frames)[k] = frames[k]
      /\ \A k \in 1 .. n : Onward(frames)[k].path = frames[k].path
  BY OnwardIs
<1>2. ASSUME NEW k \in 1 .. n, NEW j \in 1 .. k - 1
      PROVE  Onward(frames)[k].path[j] = Head(Onward(frames)[j].todo)
  <2>1. j \in 1 .. n /\ j # n
    BY <1>1
  <2>. QED BY <1>1, <2>1 DEF Nested
<1>. QED BY <1>1, <1>2 DEF Nested

\* What is newly left is where the frames stood, or inside.
LEMMA NewlyLeft ==
    ASSUME NEW frames, NEW d, NEW held, NEW values, Frames(frames, d, held, values),
           Nested(frames), NEW n, n = Len(frames), frames[n].todo # <<>>,
           NEW a, Left(Onward(frames), a), ~Left(frames, a)
    PROVE  n <= Len(a) /\ \A j \in 1 .. n : a[j] = Here(frames)[j]
<1>. DEFINE next == Onward(frames)
<1>1. /\ n \in Nat /\ n >= 1 /\ Len(next) = n
      /\ \A k \in 1 .. n : k # n => next[k] = frames[k]
      /\ next[n].todo = Tail(frames[n].todo)
  BY OnwardIs
<1>2. \A j \in 1 .. n : Here(frames)[j] = Head(frames[j].todo)
  BY HereIsFirst
<1>3. PICK k \in 1 .. n :
        /\ k <= Len(a) /\ \A j \in 1 .. k - 1 : a[j] = Head(next[j].todo)
        /\ a[k] \notin Range(next[k].todo)
  BY <1>1 DEF Left
<1>. HIDE DEF next
<1>4. \A j \in 1 .. k - 1 : j \in 1 .. n /\ j # n /\ a[j] = Head(frames[j].todo)
  BY <1>1, <1>3
<1>5. a[k] \in Range(frames[k].todo)
  BY <1>3, <1>4 DEF Left
<1>6. k = n
  BY <1>1, <1>3, <1>5
<1>7. Range(next[n].todo) = Range(frames[n].todo) \ {Head(frames[n].todo)}
  <2>1. InOrder(frames[n].todo, Ids(frames[n].owner), AdjacencyIn(frames[n].owner))
    BY <1>1 DEF Frames, Framed
  <2>2. Range(Tail(frames[n].todo)) = Range(frames[n].todo) \ {Head(frames[n].todo)}
    BY <2>1, TailIsInOrder
  <2>. QED BY <1>1, <2>2
<1>8. a[n] = Head(frames[n].todo)
  BY <1>3, <1>5, <1>6, <1>7
<1>. QED BY <1>1, <1>2, <1>3, <1>4, <1>6, <1>8

LEMMA HeldIsKept ==
    ASSUME NEW values, NEW new, NEW x, \A key \in DOMAIN new : key[1] = x,
           NEW graphs, NEW a, OutputsHeld(values, graphs, a), a # x, \A e : Append(a, e) # x
    PROVE  OutputsHeld(With(values, new), graphs, a)
<1>1. \A b, port : b # x /\ <<b, port>> \in DOMAIN values =>
          /\ <<b, port>> \in DOMAIN With(values, new)
          /\ With(values, new)[<<b, port>>] = values[<<b, port>>]
  <2>. TAKE b, port
  <2>. DEFINE key == <<b, port>>
  <2>1. key[1] = b
    OBVIOUS
  <2>. HIDE DEF key
  <2>2. b # x /\ key \in DOMAIN values =>
            key \in DOMAIN With(values, new) /\ With(values, new)[key] = values[key]
    BY <2>1 DEF With
  <2>. QED BY <2>2 DEF key
<1>. QED BY <1>1 DEF OutputsHeld

\* What has been said of a node is not taken back.
Keeps(old, new) == \A a \in DOMAIN old : a \in DOMAIN new /\ new[a] = old[a]

LEMMA SettledIsKept ==
    ASSUME NEW values, NEW new, NEW x, \A key \in DOMAIN new : key[1] = x,
           NEW graphs, NEW a, a # x, \A e : Append(a, e) # x,
           NEW types, NEW how, NEW trace, Settled(types, values, how, trace, graphs, a),
           NEW newHow, Keeps(how, newHow), NEW newTrace, DOMAIN trace \subseteq DOMAIN newTrace
    PROVE  Settled(types, With(values, new), newHow, newTrace, graphs, a)
<1>1. OutputsHeld(With(values, new), graphs, a)
  BY HeldIsKept DEF Settled
<1>2. Answered(how, a) => Answered(newHow, a) /\ newHow[a] = how[a]
  BY DEF Answered, Keeps
<1>. QED BY <1>1, <1>2 DEF Settled

\* The frames go on: what was left stays settled, if what is newly left is.
LEMMA ProgressSettles ==
    ASSUME NEW frames, NEW d, NEW held, NEW values, Frames(frames, d, held, values),
           Nested(frames), NEW n, n = Len(frames), frames[n].todo # <<>>,
           NEW new, \A key \in DOMAIN new : key[1] = Here(frames),
           NEW types, NEW how, NEW trace,
           NEW newHow, Keeps(how, newHow), NEW newTrace, DOMAIN trace \subseteq DOMAIN newTrace,
           \A graphs, a : Leads(d, graphs, a) /\ Left(frames, a) =>
               Settled(types, values, how, trace, graphs, a),
           \A graphs, a : Leads(d, graphs, a) /\ n <= Len(a)
                          /\ (\A j \in 1 .. n : a[j] = Here(frames)[j]) =>
               Settled(types, With(values, new), newHow, newTrace, graphs, a)
    PROVE  \A graphs, a : Leads(d, graphs, a) /\ Left(Onward(frames), a) =>
               Settled(types, With(values, new), newHow, newTrace, graphs, a)
<1>. SUFFICES ASSUME NEW graphs, NEW a, Leads(d, graphs, a), Left(Onward(frames), a)
              PROVE  Settled(types, With(values, new), newHow, newTrace, graphs, a)
  OBVIOUS
<1>1. CASE Left(frames, a)
  <2>1. a # Here(frames) /\ \A e : Append(a, e) # Here(frames)
    BY <1>1, LeftIsElsewhere DEF Leads
  <2>2. Settled(types, values, how, trace, graphs, a)
    BY <1>1
  <2>. QED BY <2>1, <2>2, SettledIsKept
<1>2. CASE ~Left(frames, a)
  BY <1>2, NewlyLeft
<1>. QED BY <1>1, <1>2

LEMMA HereLeads ==
    ASSUME NEW frames, NEW d, NEW held, NEW values, Frames(frames, d, held, values),
           HeldIsStored(held), Nested(frames), NEW n, n = Len(frames), frames[n].todo # <<>>,
           NEW node, node = NodeOf(frames[n].owner, Head(frames[n].todo))
    PROVE  /\ \E graphs : Leads(d, graphs, Here(frames)) /\ NodeAt(graphs, Here(frames)) = node
                          /\ graphs[n] = frames[n].owner
           /\ \A graphs, a : Leads(d, graphs, a) /\ n <= Len(a)
                             /\ (\A j \in 1 .. n : a[j] = Here(frames)[j]) =>
                 /\ graphs[n] = frames[n].owner
                 /\ node.type # "component" => Len(a) = n
                 /\ Len(a) = n => a = Here(frames) /\ NodeAt(graphs, a) = node
<1>. DEFINE x == Here(frames)
<1>1. /\ n \in Nat /\ n >= 1 /\ x \in Seq(Nat) /\ Len(x) = n
      /\ \A j \in 1 .. n : x[j] = Head(frames[j].todo) /\ x[j] \in Ids(frames[j].owner)
  BY HereIsFirst
<1>2. \E graphs : Leads(d, graphs, x) /\ NodeAt(graphs, x) = node /\ graphs[n] = frames[n].owner
  <2>. DEFINE graphs == [i \in 1 .. n |-> frames[i].owner]
  <2>1. Leads(d, graphs, x)
    <3>. DEFINE id == Head(frames[n].todo)
    <3>1. id \in Ids(frames[n].owner) /\ x = Append(frames[n].path, id)
      BY <1>1 DEF Here
    <3>. HIDE DEF id, x
    <3>. QED BY <3>1, StackLeads
  <2>2. graphs[n] = frames[n].owner
    BY <1>1
  <2>. HIDE DEF graphs, x
  <2>3. NodeAt(graphs, x) = node
    BY <1>1, <2>2 DEF NodeAt
  <2>. QED BY <2>1, <2>2, <2>3
<1>. HIDE DEF x
<1>3. ASSUME NEW graphs, NEW a, Leads(d, graphs, a), n <= Len(a), \A j \in 1 .. n : a[j] = x[j]
      PROVE  /\ graphs[n] = frames[n].owner
             /\ node.type # "component" => Len(a) = n
             /\ Len(a) = n => a = x /\ NodeAt(graphs, a) = node
  <2>1. a \in Seq(Nat) /\ Len(a) \in Nat /\ a[n] = Head(frames[n].todo)
    BY <1>1, <1>3 DEF Leads
  <2>2. graphs[n] = frames[n].owner
    <3>1. n \in 1 .. Len(frames) /\ \A j \in 1 .. n - 1 : a[j] = Head(frames[j].todo)
      BY <1>1, <1>3
    <3>. QED BY <1>3, <3>1, GraphsOfStack
  <2>3. node = NodeOf(graphs[n], a[n])
    BY <2>1, <2>2
  <2>4. ASSUME Len(a) # n
        PROVE  node.type = "component"
    <3>1. n \in 1 .. Len(a) - 1
      BY <2>1, <2>4, <1>1, <1>3
    <3>. QED BY <3>1, <1>3, <2>3 DEF Leads, Within
  <2>5. ASSUME Len(a) = n
        PROVE  a = x /\ NodeAt(graphs, a) = node
    <3>1. a = x
      BY <2>1, <2>5, <1>1, <1>3
    <3>. QED BY <3>1, <2>3, <2>5 DEF NodeAt
  <2>. QED BY <2>2, <2>4, <2>5
<1>. QED BY <1>2, <1>3 DEF x

\* What two dicts agree on.
LEMMA WithIsEither ==
    ASSUME NEW old, NEW new, NEW key \in DOMAIN With(old, new)
    PROVE  \/ key \in DOMAIN new /\ With(old, new)[key] = new[key]
           \/ key \in DOMAIN old /\ key \notin DOMAIN new /\ With(old, new)[key] = old[key]
BY DEF With

LEMMA ValuesTogether ==
    ASSUME NEW d, NEW old, NEW new, NEW data, NEW session,
           ValuesOf(d, old, data, session), ValuesOf(d, new, data, session)
    PROVE  ValuesOf(d, With(old, new), data, session)
BY WithIsEither DEF ValuesOf

LEMMA PureTogether ==
    ASSUME NEW old, NEW new, Pure(old), Pure(new)
    PROVE  Pure(With(old, new))
BY WithIsEither DEF Pure

LEMMA FollowTogether ==
    ASSUME NEW old, NEW new, Follows(old), Follows(new)
    PROVE  Follows(With(old, new))
BY WithIsEither DEF Follows

LEMMA OldAreKept ==
    ASSUME NEW old, NEW new
    PROVE  Keeps(old, With(new, old))
BY DEF Keeps, With

LEMMA TellingIsKept ==
    ASSUME NEW d, NEW trace, NEW how, NEW newHow, Told(d, trace, how), Keeps(how, newHow)
    PROVE  Told(d, trace, newHow)
BY DEF Told, Keeps

\* Where no code has changed, an input is what it was in the run, and so is what
\* is made of it.
LEMMA NothingOther ==
    ASSUME EvaluationInv, NothingDiffers, conditions.changed = {}, phase = "executing"
    PROVE  /\ \A port : InputValue(port) # None => InputValue(port).other = FALSE
           /\ None \notin Inputs => Other = FALSE
<1>1. ASSUME NEW port, InputValue(port) # None
      PROVE  InputValue(port).other = FALSE
  <2>1. ASSUME NEW address, NEW out, Found(address, out) # None
        PROVE  Found(address, out).other = FALSE
    BY <2>1 DEF Found, NothingDiffers, Pure
  <2>2. \A end \in DOMAIN Innermost.externals : Innermost.externals[end].other = FALSE
    <3>1. Len(stack) \in 1 .. Len(stack)
      BY WhileExecuting
    <3>. QED BY <3>1 DEF NothingDiffers, FedPurely, Innermost
  <2>. QED BY <1>1, <2>1, <2>2 DEF InputValue
<1>2. ASSUME None \notin Inputs
      PROVE  Other = FALSE
  <2>1. \A v \in Inputs : v.other = FALSE
    BY <1>1, <1>2 DEF Inputs
  <2>2. Running.type \notin conditions.changed
    OBVIOUS
  <2>. QED BY <2>1, <2>2 DEF Other
<1>. QED BY <1>1, <1>2

-----------------------------------------------------------------------------
(* The stages of the evaluation, and its nodes, keep it.                   *)

LEMMA ChecksAreKept ==
    ASSUME UNCHANGED <<result, document, conditions>>
    PROVE  (StructurePasses' <=> StructurePasses) /\ (ChecksPass' <=> ChecksPass)
BY DEF ChecksPass, StructurePasses, Faulty, NoSession

\* As long as an evaluation goes on, nothing is answered.
LEMMA NothingIsAnswered ==
    ASSUME TapInv, phase # "done", UNCHANGED tapVars, UNCHANGED conditions
    PROVE  Stages' /\ TapAnswersForTheRun'
<1>1. reply' = Unset /\ ~Succeeded
  BY DEF TapInv, Stages, tapVars, Succeeded
<1>2. Stages'
  BY <1>1 DEF TapInv, Stages, tapVars
<1>3. TapAnswersForTheRun'
  BY <1>1 DEF TapAnswersForTheRun
<1>. QED BY <1>2, <1>3

LEMMA RunStaysRight ==
    ASSUME TapInv, UNCHANGED tapVars, UNCHANGED document, Keeps(behaviour, behaviour'),
           run = Unset => Told(document, events', behaviour')
    PROVE  RunIsRight'
<1>1. CASE run = Unset
  BY <1>1 DEF RunIsRight, tapVars
<1>2. CASE run # Unset
  <2>1. Told(document, run.events, behaviour')
    BY <1>2, TellingIsKept DEF TapInv, RunIsRight
  <2>2. \A a : Answered(behaviour, a) => Answered(behaviour', a)
    BY DEF Answered, Keeps
  <2>. QED BY <1>2, <2>1, <2>2 DEF TapInv, RunIsRight, tapVars
<1>. QED BY <1>1, <1>2

LEMMA KeepsItself == \A how : Keeps(how, how)
BY DEF Keeps

\* An evaluation that fails leaves the run as it was; one that repeats a run in
\* which nothing has changed does not.
LEMMA FailingKeepsTapInv ==
    ASSUME TapInv, EvaluationInv', phase # "done", UNCHANGED tapVars,
           NEW codes, codes # {}, Fail(codes), UNCHANGED events, Keeps(behaviour, behaviour'),
           run # Unset => ~(conditions.changed = {} /\ conditions.catalog = DOMAIN Stored)
    PROVE  TapInv'
<1>1. /\ phase' = "done" /\ diagnostics' = codes
      /\ UNCHANGED <<result, document, conditions, definitions, stack, store, events, run>>
  BY DEF Fail, searchVars, tapVars
<1>2. ~Succeeded'
  BY <1>1 DEF Succeeded
<1>3. Stages' /\ TapAnswersForTheRun'
  BY <1>1, NothingIsAnswered
<1>4. Passed'
  BY <1>1, <1>2, ChecksAreKept DEF TapInv, Passed
<1>5. StoreIsRight' /\ NothingDiffers'
  BY <1>1, <1>2 DEF TapInv, StoreIsRight, NothingDiffers
<1>6. RunIsRight'
  <2>1. run = Unset => Told(document, events', behaviour')
    BY <1>1, TellingIsKept DEF TapInv, RunIsRight
  <2>. QED BY <1>1, <2>1, RunStaysRight
<1>7. RecomputeFollows'
  BY <1>1 DEF TapInv, RecomputeFollows, Follows
<1>. QED BY <1>3, <1>4, <1>5, <1>6, <1>7 DEF TapInv

\* Before execution, nothing but the checks is established.
LEMMA CheckingKeepsTapInv ==
    ASSUME TapInv, EvaluationInv', phase # "done", phase' \notin {"executing", "done"},
           UNCHANGED <<document, conditions, stack, store, events, diagnostics, behaviour>>,
           UNCHANGED tapVars, Passed'
    PROVE  TapInv'
<1>1. Stages' /\ TapAnswersForTheRun' /\ run' = run
  BY NothingIsAnswered DEF tapVars
<1>2. StoreIsRight' /\ NothingDiffers'
  BY DEF TapInv, StoreIsRight, NothingDiffers, Succeeded
<1>3. RunIsRight'
  BY RunStaysRight, KeepsItself DEF TapInv, RunIsRight
<1>4. RecomputeFollows'
  BY <1>1 DEF TapInv, RecomputeFollows, Follows
<1>. QED BY <1>1, <1>2, <1>3, <1>4 DEF TapInv

LEMMA SearchKeepsTapInv == TapInv /\ Search /\ UNCHANGED tapVars => TapInv'
<1>. SUFFICES ASSUME TapInv, Search, UNCHANGED tapVars PROVE TapInv'
  OBVIOUS
<1>1. EvaluationInv'
  BY SearchKeepsEvaluationInv DEF TapInv
<1>2. /\ phase = "checking" /\ result.state = "searching"
      /\ UNCHANGED <<document, conditions, phase, stack, store, events, diagnostics, behaviour>>
  BY DEF Search, evaluationVars, SearchNext, NextRoot, NoRootLeft, Descend, BackEdge, Skip,
         Backtrack, Searching
<1>3. Passed'
  <2>1. run' = Unset
    BY <1>2 DEF TapInv, Passed, ChecksPass, StructurePasses, tapVars
  <2>. QED BY <1>2, <2>1 DEF Passed, Succeeded
<1>. QED BY <1>1, <1>2, <1>3, CheckingKeepsTapInv

LEMMA RejectKeepsTapInv == TapInv /\ Reject /\ UNCHANGED tapVars => TapInv'
<1>. SUFFICES ASSUME TapInv, Reject, UNCHANGED tapVars PROVE TapInv'
  OBVIOUS
<1>1. EvaluationInv'
  BY RejectKeepsEvaluationInv DEF TapInv
<1>2. /\ phase = "checking" /\ Faulty \cup NoSession # {} /\ Fail(Faulty \cup NoSession)
      /\ UNCHANGED events /\ Keeps(behaviour, behaviour')
  BY KeepsItself DEF Reject, Searched
<1>3. run = Unset
  BY DEF Reject, TapInv, Passed, ChecksPass, StructurePasses
<1>. QED BY <1>1, <1>2, <1>3, FailingKeepsTapInv

LEMMA FetchKeepsTapInv == TapInv /\ Fetch /\ UNCHANGED tapVars => TapInv'
<1>. SUFFICES ASSUME TapInv, Fetch, UNCHANGED tapVars PROVE TapInv'
  OBVIOUS
<1>1. EvaluationInv'
  BY FetchKeepsEvaluationInv DEF TapInv
<1>2. /\ phase = "checking" /\ phase' = "resolving" /\ StructurePasses
      /\ definitions' = Fetched(document, Restrict(Stored, conditions.catalog))
      /\ UNCHANGED <<result, document, conditions, stack, store, events, diagnostics, behaviour>>
  BY DEF Fetch, Searched, StructurePasses, searchVars
<1>3. Passed'
  BY <1>2, ChecksAreKept DEF TapInv, Passed, Succeeded, tapVars
<1>. QED BY <1>1, <1>2, <1>3, CheckingKeepsTapInv

\* The checks pass in a recompute that gets what they passed with in the run.
LEMMA CheckKeepsTapInv == TapInv /\ Check /\ UNCHANGED tapVars => TapInv'
<1>. SUFFICES ASSUME TapInv, Check, UNCHANGED tapVars PROVE TapInv'
  OBVIOUS
<1>. DEFINE faults == Preflight(document, definitions) \cup NoSession
<1>1. EvaluationInv'
  BY CheckKeepsEvaluationInv DEF TapInv
<1>2. /\ phase = "resolving" /\ UNCHANGED <<events, behaviour>> /\ StructurePasses
      /\ definitions = Fetched(document, Restrict(Stored, conditions.catalog))
  BY DEF Check, TapInv, Passed
<1>3. CASE faults # {} /\ Fail(faults)
  <2>1. run # Unset => ~(conditions.changed = {} /\ conditions.catalog = DOMAIN Stored)
    BY <1>2, <1>3 DEF TapInv, Passed, ChecksPass
  <2>. QED BY <1>1, <1>2, <1>3, <2>1, FailingKeepsTapInv, KeepsItself
<1>4. CASE /\ faults = {} /\ phase' = "ordering"
           /\ UNCHANGED <<searchVars, planVars, document, conditions, definitions, stack, store,
                          diagnostics, targets>>
  <2>1. ChecksPass
    <3>1. CASE run # Unset
      BY <3>1 DEF TapInv, Passed
    <3>2. CASE run = Unset
      <4>1. conditions.catalog = DOMAIN Stored
        BY <3>2 DEF TapInv, Stages
      <4>. QED BY <1>2, <1>4, <4>1 DEF ChecksPass
    <3>. QED BY <3>1, <3>2
  <2>2. Passed'
    <3>1. UNCHANGED <<result, document, conditions>>
      BY <1>4 DEF searchVars
    <3>. QED BY <1>2, <1>4, <2>1, <3>1, ChecksAreKept DEF Passed
  <2>. QED BY <1>1, <1>2, <1>4, <2>2, CheckingKeepsTapInv
<1>. QED BY <1>3, <1>4 DEF Check

LEMMA StillKeepsTapInv ==
    ASSUME TapInv, EvaluationInv', UNCHANGED evaluationVars, UNCHANGED result, UNCHANGED tapVars
    PROVE  TapInv'
<1>1. /\ UNCHANGED <<document, conditions, phase, definitions, stack, store, events, diagnostics,
                     behaviour>>
      /\ UNCHANGED <<run, query, reply>>
  BY DEF evaluationVars, tapVars
<1>2. Succeeded' <=> Succeeded
  BY <1>1 DEF Succeeded
<1>3. Stages' /\ Passed'
  BY <1>1, <1>2, ChecksAreKept DEF TapInv, Stages, Passed
<1>4. StoreIsRight' /\ NothingDiffers' /\ RunIsRight' /\ RecomputeFollows'
  BY <1>1, <1>2
  DEF TapInv, StoreIsRight, LeftAreSettled, AllAreSettled, NothingDiffers, RunIsRight,
      RecomputeFollows, Follows
<1>5. TapAnswersForTheRun'
  <2>1. /\ SelectedPorts(run.store)' = SelectedPorts(run.store)
        /\ Unselected(run.store)' = Unselected(run.store)
        /\ Stale' <=> Stale
    BY <1>1 DEF Produced, SelectedPorts, Unselected, Stale
  <2>. QED BY <1>1, <2>1 DEF TapInv, TapAnswersForTheRun
<1>. QED BY <1>3, <1>4, <1>5 DEF TapInv

LEMMA OrderKeepsTapInv == TapInv /\ Order /\ UNCHANGED tapVars => TapInv'
<1>. SUFFICES ASSUME TapInv, Order, UNCHANGED tapVars PROVE TapInv'
  OBVIOUS
<1>1. EvaluationInv'
  BY OrderKeepsEvaluationInv DEF TapInv
<1>2. UNCHANGED evaluationVars /\ UNCHANGED result
  BY DEF Order, Prepare, Place, Ordered, searchVars
<1>. QED BY <1>1, <1>2, StillKeepsTapInv

\* What a step of the execution has to keep.
LEMMA ExecutingKeepsTapInv ==
    ASSUME TapInv, EvaluationInv', phase \in {"ordering", "executing"}, phase' = "executing",
           UNCHANGED <<result, document, conditions, definitions, diagnostics>>,
           UNCHANGED tapVars, Keeps(behaviour, behaviour'),
           ValuesOf(document, store', conditions.data, conditions.session), Nested(stack'),
           \A graphs, a : Leads(document, graphs, a) /\ Left(stack', a) =>
               Settled(conditions.changed, store', behaviour', events', graphs, a),
           conditions.changed = {} =>
               /\ Pure(store') /\ FedPurely(stack')
               /\ \A a \in DOMAIN events' : events'[a].other = FALSE,
           run = Unset => Told(document, events', behaviour'),
           run # Unset => Follows(store')
    PROVE  TapInv'
<1>1. Stages' /\ TapAnswersForTheRun' /\ run' = run
  BY NothingIsAnswered DEF tapVars
<1>2. Passed'
  BY ChecksAreKept DEF TapInv, Passed
<1>3. ~Succeeded'
  BY DEF Succeeded
<1>4. StoreIsRight'
  BY <1>3 DEF StoreIsRight, LeftAreSettled
<1>5. NothingDiffers'
  BY DEF NothingDiffers
<1>6. RunIsRight'
  BY RunStaysRight
<1>7. RecomputeFollows'
  BY <1>1 DEF TapInv, RecomputeFollows, Follows
<1>. QED BY <1>1, <1>2, <1>4, <1>5, <1>6, <1>7 DEF TapInv

LEMMA StartKeepsTapInv == TapInv /\ Start /\ UNCHANGED tapVars => TapInv'
<1>. SUFFICES ASSUME TapInv, Start, UNCHANGED tapVars PROVE TapInv'
  OBVIOUS
<1>. DEFINE f == Frame(document, <<>>, order, <<>>)
<1>1. EvaluationInv'
  BY StartKeepsEvaluationInv DEF TapInv
<1>2. /\ phase = "ordering" /\ phase' = "executing" /\ Range(order) = Ids(document)
      /\ stack' = <<f>>
      /\ UNCHANGED <<result, document, conditions, definitions, store, events, diagnostics, behaviour>>
  BY StartDoes DEF TapInv, searchVars
<1>3. f.todo = order /\ f.externals = <<>>
  BY DEF Frame
<1>. HIDE DEF f
<1>4. Len(stack') = 1 /\ stack'[1] = f
  BY <1>2
<1>5. Nested(stack')
  BY <1>4 DEF Nested
<1>6. ASSUME NEW graphs, NEW a, Leads(document, graphs, a), Left(stack', a)
      PROVE  FALSE
  <2>1. 1 <= Len(a) /\ a[1] \notin Range(order)
    BY <1>3, <1>4, <1>6 DEF Left
  <2>2. Len(a) \in Nat
    BY <1>6 DEF Leads
  <2>3. a[1] \in Ids(document)
    BY <1>6, <2>1, <2>2 DEF Leads
  <2>. QED BY <1>2, <2>1, <2>3
<1>7. FedPurely(stack')
  BY <1>3, <1>4 DEF FedPurely
<1>. HIDE DEF TapInv
<1>8. /\ ValuesOf(document, store, conditions.data, conditions.session)
      /\ conditions.changed = {} => Pure(store) /\ \A a \in DOMAIN events : events[a].other = FALSE
      /\ run = Unset => Told(document, events, behaviour)
      /\ run # Unset => Follows(store)
  BY DEF TapInv, StoreIsRight, NothingDiffers, RunIsRight, RecomputeFollows
<1>. QED BY <1>1, <1>2, <1>5, <1>6, <1>7, <1>8, ExecutingKeepsTapInv, KeepsItself

\* A component that is entered has left nothing, and is fed what its caller is.
LEMMA EnterKeepsTapInv == TapInv /\ Enter /\ UNCHANGED tapVars => TapInv'
<1>. SUFFICES ASSUME TapInv, Enter, UNCHANGED tapVars PROVE TapInv'
  OBVIOUS
<1>. DEFINE n == Len(stack)
<1>1. EvaluationInv /\ EvaluationInv'
  BY EnterKeepsEvaluationInv DEF TapInv
<1>2. /\ phase = "executing" /\ Innermost.todo # <<>>
      /\ Entered.path = PathOf(Running.id) /\ Range(Entered.todo) = Ids(Entered.owner)
      /\ Framed(Entered, n + 1, definitions, store)
      /\ \A end \in DOMAIN Entered.externals : \E port : Entered.externals[end] = InputValue(port)
      /\ stack' = Append(stack, Entered)
      /\ UNCHANGED <<searchVars, planVars, document, conditions, definitions, phase, store,
                     events, diagnostics, targets, behaviour>>
  BY <1>1, EnterDoes
<1>3. /\ Frames(stack, document, definitions, store) /\ n \in Nat /\ n >= 1
      /\ HeldIsStored(definitions) /\ Nested(stack) /\ LeftAreSettled
      /\ Running.id = Head(Innermost.todo)
  BY <1>1, <1>2, WhileExecuting, RunningIsFirst DEF TapInv, StoreIsRight
<1>4. PICK S : stack \in Seq(S)
  BY <1>3 DEF Frames
<1>5. /\ Len(stack') = n + 1 /\ stack'[n + 1] = Entered
      /\ \A k \in 1 .. n : stack'[k] = stack[k]
  <2>1. stack \in Seq(S \cup {Entered})
    BY <1>4, WiderSeq
  <2>. QED BY <1>2, <1>3, <2>1
<1>6. Entered.path = Here(stack)
  BY <1>2, <1>3 DEF Here, PathOf, Innermost
<1>7. \A j \in 1 .. n : Here(stack)[j] = Head(stack[j].todo)
  BY <1>2, <1>3, HereIsFirst DEF Innermost
<1>8. Nested(stack')
  <2>. SUFFICES ASSUME NEW k \in 1 .. n + 1, NEW j \in 1 .. k - 1
                PROVE  stack'[k].path[j] = Head(stack'[j].todo)
    BY <1>5 DEF Nested
  <2>1. j \in 1 .. n /\ (k = n + 1 \/ k \in 1 .. n)
    BY <1>3
  <2>. QED BY <2>1, <1>3, <1>5, <1>6, <1>7 DEF Nested
<1>9. ASSUME NEW graphs, NEW a, Leads(document, graphs, a), Left(stack', a)
      PROVE  Settled(conditions.changed, store, behaviour, events, graphs, a)
  <2>1. PICK k \in 1 .. n + 1 :
          /\ k <= Len(a) /\ \A j \in 1 .. k - 1 : a[j] = Head(stack'[j].todo)
          /\ a[k] \notin Range(stack'[k].todo)
    BY <1>5, <1>9 DEF Left
  <2>2. CASE k = n + 1
    <3>1. Frames(stack', document, definitions, store)
      BY <1>1, <1>2 DEF EvaluationInv
    <3>2. graphs[k] = Entered.owner
      <4>1. /\ k \in 1 .. Len(stack') /\ HeldIsStored(definitions)
            /\ stack'[k].owner = Entered.owner
        BY <1>3, <1>5, <2>2
      <4>. HIDE DEF n
      <4>2. graphs[k] = stack'[k].owner
        BY <1>9, <2>1, <3>1, <4>1, GraphsOfStack
      <4>. QED BY <4>1, <4>2
    <3>3. Len(a) \in Nat /\ k \in 1 .. Len(a)
      BY <1>3, <1>9, <2>1 DEF Leads
    <3>4. a[k] \in Ids(Entered.owner)
      BY <1>9, <3>2, <3>3 DEF Leads
    <3>. QED BY <1>2, <1>5, <2>1, <2>2, <3>4
  <2>3. CASE k # n + 1
    <3>1. k \in 1 .. n /\ \A j \in 1 .. k - 1 : j \in 1 .. n
      BY <2>3, <1>3
    <3>2. Left(stack, a)
      BY <3>1, <1>5, <2>1 DEF Left
    <3>. QED BY <3>2, <1>3, <1>9 DEF LeftAreSettled
  <2>. QED BY <2>2, <2>3
<1>10. conditions.changed = {} => FedPurely(stack')
  <2>. SUFFICES ASSUME conditions.changed = {}, NEW k \in 1 .. n + 1,
                       NEW end \in DOMAIN stack'[k].externals
                PROVE  stack'[k].externals[end].other = FALSE
    BY <1>5 DEF FedPurely
  <2>1. CASE k = n + 1
    <3>1. end \in DOMAIN Entered.externals /\ Entered.externals[end] # None
      BY <1>2, <1>5, <2>1 DEF Framed
    <3>2. Entered.externals[end].other = FALSE
      BY <1>1, <1>2, <3>1, NothingOther DEF TapInv
    <3>. QED BY <3>2, <1>5, <2>1
  <2>2. CASE k # n + 1
    <3>1. k \in 1 .. n /\ stack'[k] = stack[k]
      BY <2>2, <1>3, <1>5
    <3>. QED BY <3>1, <1>2 DEF TapInv, NothingDiffers, FedPurely
  <2>. QED BY <2>1, <2>2
<1>11. /\ ValuesOf(document, store, conditions.data, conditions.session)
       /\ conditions.changed = {} => Pure(store) /\ \A a \in DOMAIN events : events[a].other = FALSE
       /\ run = Unset => Told(document, events, behaviour)
       /\ run # Unset => Follows(store)
  BY DEF TapInv, StoreIsRight, NothingDiffers, RunIsRight, RecomputeFollows
<1>12. UNCHANGED <<result, document, conditions, definitions, store, events, diagnostics, behaviour>>
  BY <1>2 DEF searchVars
<1>13. phase' = "executing"
  BY <1>2
<1>. QED BY <1>1, <1>2, <1>8, <1>9, <1>10, <1>11, <1>12, <1>13, ExecutingKeepsTapInv, KeepsItself

\* The node that runs, seen from the document.
LEMMA RunningLeads ==
    ASSUME TapInv, phase = "executing", Innermost.todo # <<>>
    PROVE  /\ Frames(stack, document, definitions, store) /\ HeldIsStored(definitions)
           /\ Nested(stack) /\ Len(stack) \in Nat /\ Len(stack) >= 1
           /\ PathOf(Running.id) = Here(stack) /\ Advanced = Onward(stack)
           /\ \E graphs : Leads(document, graphs, Here(stack))
                          /\ NodeAt(graphs, Here(stack)) = Running
           /\ \A graphs, a : Leads(document, graphs, a) /\ Len(stack) <= Len(a)
                             /\ (\A j \in 1 .. Len(stack) : a[j] = Here(stack)[j])
                             /\ Running.type # "component" =>
                 a = Here(stack) /\ NodeAt(graphs, a) = Running
<1>1. /\ Frames(stack, document, definitions, store) /\ HeldIsStored(definitions)
      /\ Len(stack) \in Nat /\ Len(stack) >= 1
      /\ Running.id = Head(Innermost.todo)
      /\ Running = NodeOf(Innermost.owner, Head(Innermost.todo))
  BY WhileExecuting, RunningIsFirst DEF TapInv
<1>2. Nested(stack)
  BY DEF TapInv, StoreIsRight
<1>3. PathOf(Running.id) = Here(stack) /\ Advanced = Onward(stack)
  BY <1>1 DEF PathOf, Here, Innermost, Advanced, Onward
<1>4. /\ stack[Len(stack)].todo # <<>>
      /\ Running = NodeOf(stack[Len(stack)].owner, Head(stack[Len(stack)].todo))
  BY <1>1 DEF Innermost
<1>. HIDE DEF Running, TapInv
<1>5. /\ \E graphs : Leads(document, graphs, Here(stack)) /\ NodeAt(graphs, Here(stack)) = Running
      /\ \A graphs, a : Leads(document, graphs, a) /\ Len(stack) <= Len(a)
                        /\ (\A j \in 1 .. Len(stack) : a[j] = Here(stack)[j]) =>
            /\ Running.type # "component" => Len(a) = Len(stack)
            /\ Len(a) = Len(stack) => a = Here(stack) /\ NodeAt(graphs, a) = Running
  BY <1>1, <1>2, <1>4, HereLeads
<1>. QED BY <1>1, <1>2, <1>3, <1>5

\* What the node that runs gives, of its own outputs.
LEMMA GivenIsRight ==
    ASSUME TapInv, phase = "executing", Innermost.todo # <<>>, Running.type # "component"
    PROVE  /\ ValuesOf(document, Given, conditions.data, conditions.session)
           /\ \A key \in DOMAIN Given : key[1] = Here(stack)
           /\ Other = FALSE => Pure(Given)
           /\ run # Unset => Follows(Given)
           /\ \A graphs : NodeAt(graphs, Here(stack)) = Running =>
                 OutputsHeld(With(store, Given), graphs, Here(stack))
<1>. DEFINE x == Here(stack)
            outputs == CoreBindings[Running.type].outputs
<1>1. /\ PathOf(Running.id) = x
      /\ \E graphs : Leads(document, graphs, x) /\ NodeAt(graphs, x) = Running
  BY RunningLeads
<1>. HIDE DEF x
<1>2. /\ \A key \in DOMAIN Given : \E port \in DOMAIN outputs : key = <<x, port>>
      /\ \A port \in DOMAIN outputs :
            /\ <<x, port>> \in DOMAIN Given
            /\ Given[<<x, port>>] = [type |-> outputs[port], data |-> conditions.data,
                                     session |-> conditions.session, other |-> Other]
  <2>. HIDE DEF outputs
  <2>1. Given = [key \in {x} \X DOMAIN outputs |->
                    [type |-> outputs[key[2]], data |-> conditions.data,
                     session |-> conditions.session, other |-> Other]]
    BY <1>1 DEF Given, outputs
  <2>. QED BY <2>1
<1>. HIDE DEF outputs
<1>3. Other \in BOOLEAN
  BY DEF Other
<1>4. ASSUME NEW port \in DOMAIN outputs
      PROVE  LET key == <<x, port>>
             IN  /\ key = <<key[1], key[2]>> /\ key[1] = x /\ key[2] = port
                 /\ Given[key].type = outputs[port] /\ Given[key].other = Other
                 /\ Given[key] = [type |-> Given[key].type, data |-> conditions.data,
                                  session |-> conditions.session, other |-> Given[key].other]
  <2>. DEFINE key == <<x, port>>
              value == [type |-> outputs[port], data |-> conditions.data,
                        session |-> conditions.session, other |-> Other]
  <2>1. key = <<key[1], key[2]>> /\ key[1] = x /\ key[2] = port
    OBVIOUS
  <2>2. value.type = outputs[port] /\ value.other = Other
    OBVIOUS
  <2>3. Given[key] = value
    BY <1>2
  <2>4. Given[key].type = outputs[port] /\ Given[key].other = Other
    <3>. HIDE DEF key, value
    <3>. QED BY <2>2, <2>3
  <2>5. Given[key] = [type |-> Given[key].type, data |-> conditions.data,
                      session |-> conditions.session, other |-> Given[key].other]
    <3>1. Given[key] = [type |-> outputs[port], data |-> conditions.data,
                        session |-> conditions.session, other |-> Other]
      BY <2>3
    <3>. HIDE DEF key, value
    <3>. QED BY <2>4, <3>1
  <2>. QED BY <2>1, <2>4, <2>5
<1>5. ValuesOf(document, Given, conditions.data, conditions.session)
  <2>1. \E graphs : Leads(document, graphs, x) /\ OutputsAt(graphs, x) = DOMAIN outputs
    BY <1>1 DEF OutputsAt, outputs
  <2>. SUFFICES ASSUME NEW key \in DOMAIN Given
                PROVE  /\ key = <<key[1], key[2]>>
                       /\ \E graphs : /\ Leads(document, graphs, key[1])
                                      /\ key[2] \in OutputsAt(graphs, key[1])
                       /\ Given[key] = [type |-> Given[key].type, data |-> conditions.data,
                                        session |-> conditions.session, other |-> Given[key].other]
                       /\ Given[key].other \in BOOLEAN
    BY DEF ValuesOf
  <2>2. PICK port \in DOMAIN outputs : key = <<x, port>>
    BY <1>2
  <2>3. /\ key = <<key[1], key[2]>> /\ key[1] = x /\ key[2] = port /\ Given[key].other = Other
        /\ Given[key] = [type |-> Given[key].type, data |-> conditions.data,
                         session |-> conditions.session, other |-> Given[key].other]
    BY <1>4, <2>2
  <2>. QED BY <1>3, <2>1, <2>3
<1>6. Other = FALSE => Pure(Given)
  <2>1. ASSUME NEW key \in DOMAIN Given
        PROVE  Given[key].other = Other
    <3>1. PICK port \in DOMAIN outputs : key = <<x, port>>
      BY <1>2
    <3>. QED BY <1>4, <3>1
  <2>. QED BY <2>1 DEF Pure
<1>7. run # Unset => Follows(Given)
  <2>. SUFFICES ASSUME run # Unset, NEW port \in DOMAIN outputs
                PROVE  <<x, port>> \in DOMAIN run.store
                       /\ Given[<<x, port>>].type = run.store[<<x, port>>].type
    BY <1>2 DEF Follows
  <2>1. PICK graphs : Leads(document, graphs, x) /\ NodeAt(graphs, x) = Running
    BY <1>1
  <2>2. OutputsHeld(run.store, graphs, x)
    BY <2>1 DEF TapInv, RunIsRight
  <2>3. <<x, port>> \in DOMAIN run.store /\ run.store[<<x, port>>].type = outputs[port]
    BY <2>1, <2>2 DEF OutputsHeld, OutputsAt, outputs
  <2>. QED BY <2>3, <1>4
<1>8. ASSUME NEW graphs, NodeAt(graphs, x) = Running
      PROVE  OutputsHeld(With(store, Given), graphs, x)
  <2>1. ASSUME NEW port \in DOMAIN outputs
        PROVE  /\ <<x, port>> \in DOMAIN With(store, Given)
               /\ With(store, Given)[<<x, port>>].type = outputs[port]
    <3>. DEFINE key == <<x, port>>
    <3>1. key \in DOMAIN Given /\ Given[key].type = outputs[port]
      BY <1>2, <1>4
    <3>. HIDE DEF key
    <3>2. key \in DOMAIN With(store, Given) /\ With(store, Given)[key] = Given[key]
      BY <3>1 DEF With
    <3>. QED BY <3>1, <3>2 DEF key
  <2>. QED BY <1>8, <2>1 DEF OutputsHeld, OutputsAt, outputs
<1>. QED BY <1>2, <1>4, <1>5, <1>6, <1>7, <1>8 DEF x

LEMMA RunRegisteredKeepsTapInv == TapInv /\ RunRegistered /\ UNCHANGED tapVars => TapInv'
<1>. SUFFICES ASSUME TapInv, RunRegistered, UNCHANGED tapVars PROVE TapInv'
  OBVIOUS
<1>. DEFINE x == Here(stack)
            n == Len(stack)
<1>1. EvaluationInv /\ EvaluationInv'
  BY RunRegisteredKeepsEvaluationInv DEF TapInv
<1>2. /\ phase = "executing" /\ Innermost.todo # <<>> /\ Running.type # "component"
      /\ None \notin Inputs
  BY <1>1, RunRegisteredDoes
<1>3. /\ Frames(stack, document, definitions, store) /\ HeldIsStored(definitions)
      /\ Nested(stack) /\ n \in Nat /\ n >= 1
      /\ PathOf(Running.id) = x /\ Advanced = Onward(stack)
      /\ \E graphs : Leads(document, graphs, x) /\ NodeAt(graphs, x) = Running
      /\ \A graphs, a : Leads(document, graphs, a) /\ n <= Len(a)
                        /\ (\A j \in 1 .. n : a[j] = x[j]) =>
            a = x /\ NodeAt(graphs, a) = Running
  BY <1>2, RunningLeads
<1>4. PICK how \in Behaves(x) :
        /\ behaviour' = With([a \in {x} |-> how], behaviour)
        /\ events' \in
              IF how = "answers"
              THEN {With(events, [a \in {x} |-> [other |-> shows]]) : shows \in {FALSE, Other}}
              ELSE {events}
        /\ \/ /\ how \notin DOMAIN Failure
              /\ store' = With(store, Given) /\ stack' = Advanced
              /\ UNCHANGED <<searchVars, planVars, document, conditions, definitions, phase,
                             diagnostics, targets>>
           \/ how \in DOMAIN Failure /\ Fail({Failure[how]})
  BY <1>1, <1>3, RunRegisteredDoes
<1>. HIDE DEF x, n, TapInv
<1>5. Keeps(behaviour, behaviour') /\ x \in DOMAIN behaviour'
  BY <1>4, OldAreKept DEF With
<1>6. ASSUME conditions.changed = {}
      PROVE  Other = FALSE /\ behaviour'[x] = how
  <2>1. Other = FALSE
    BY <1>1, <1>2, <1>6, NothingOther DEF TapInv
  <2>2. x \in DOMAIN behaviour => how = behaviour[x]
    BY <1>4, <2>1 DEF Behaves
  <2>. QED BY <1>4, <2>1, <2>2 DEF With
<1>7. CASE how \in DOMAIN Failure /\ Fail({Failure[how]})
  <2>1. ASSUME run # Unset, conditions.changed = {}
        PROVE  FALSE
    <3>1. PICK graphs : Leads(document, graphs, x) /\ NodeAt(graphs, x) = Running
      BY <1>3
    <3>2. Answered(behaviour, x)
      BY <1>2, <2>1, <3>1 DEF TapInv, RunIsRight
    <3>3. behaviour'[x] = behaviour[x]
      BY <1>5, <3>2 DEF Keeps, Answered
    <3>. QED BY <1>6, <1>7, <2>1, <3>2, <3>3 DEF Answered
  <2>2. how # "answers"
    BY <1>7 DEF Failure, With, Misbehaviour
  <2>3. UNCHANGED events /\ phase # "done" /\ {Failure[how]} # {}
    BY <1>2, <1>4, <2>2
  <2>. QED BY <1>1, <1>5, <1>7, <2>1, <2>3, FailingKeepsTapInv
<1>8. CASE /\ how \notin DOMAIN Failure
           /\ store' = With(store, Given) /\ stack' = Advanced
           /\ UNCHANGED <<searchVars, planVars, document, conditions, definitions, phase,
                          diagnostics, targets>>
  <2>1. /\ ValuesOf(document, Given, conditions.data, conditions.session)
        /\ \A key \in DOMAIN Given : key[1] = x
        /\ Other = FALSE => Pure(Given)
        /\ run # Unset => Follows(Given)
        /\ \A graphs : NodeAt(graphs, x) = Running => OutputsHeld(With(store, Given), graphs, x)
    BY <1>2, GivenIsRight DEF x
  <2>2. /\ DOMAIN events \subseteq DOMAIN events'
        /\ how = "answers" => x \in DOMAIN events'
        /\ how # "answers" => events' = events
        /\ \A a \in DOMAIN events' :
              \/ a \in DOMAIN events /\ events'[a] = events[a]
              \/ a = x /\ how = "answers" /\ events'[a].other \in {FALSE, Other}
    <3>1. CASE how = "answers"
      <4>1. PICK shows \in {FALSE, Other} : events' = With(events, [a \in {x} |-> [other |-> shows]])
        BY <1>4, <3>1
      <4>. QED BY <3>1, <4>1 DEF With
    <3>2. CASE how # "answers"
      BY <1>4, <3>2
    <3>. QED BY <3>1, <3>2
  <2>3. ValuesOf(document, store', conditions.data, conditions.session)
    BY <1>8, <2>1, ValuesTogether DEF TapInv, StoreIsRight
  <2>4. Nested(stack')
    BY <1>3, <1>8, OnwardIsNested
  <2>5. ASSUME NEW graphs, NEW a, Leads(document, graphs, a), n <= Len(a),
               \A j \in 1 .. n : a[j] = x[j]
        PROVE  Settled(conditions.changed, store', behaviour', events', graphs, a)
    <3>1. a = x /\ NodeAt(graphs, a) = Running
      BY <1>3, <2>5
    <3>2. OutputsHeld(store', graphs, a)
      BY <1>8, <2>1, <3>1
    <3>3. conditions.changed = {} =>
             Answered(behaviour', a) /\ (behaviour'[a] = "answers" => a \in DOMAIN events')
      BY <1>5, <1>6, <1>8, <2>2, <3>1 DEF Answered
    <3>. QED BY <3>2, <3>3 DEF Settled
  <2>6. \A graphs, a : Leads(document, graphs, a) /\ Left(stack', a) =>
            Settled(conditions.changed, store', behaviour', events', graphs, a)
    <3>1. \A graphs, a : Leads(document, graphs, a) /\ Left(stack, a) =>
              Settled(conditions.changed, store, behaviour, events, graphs, a)
      BY <1>2 DEF TapInv, StoreIsRight, LeftAreSettled
    <3>2. stack[n].todo # <<>>
      BY <1>2 DEF Innermost, n
    <3>3. \A graphs, a : Leads(document, graphs, a) /\ n <= Len(a)
                         /\ (\A j \in 1 .. n : a[j] = Here(stack)[j]) =>
              Settled(conditions.changed, With(store, Given), behaviour', events', graphs, a)
      BY <1>8, <2>5 DEF x
    <3>4. \A key \in DOMAIN Given : key[1] = Here(stack)
      BY <2>1 DEF x
    <3>5. \A graphs, a : Leads(document, graphs, a) /\ Left(Onward(stack), a) =>
              Settled(conditions.changed, With(store, Given), behaviour', events', graphs, a)
      BY <1>3, <1>5, <2>2, <3>1, <3>2, <3>3, <3>4, ProgressSettles DEF n
    <3>. QED BY <1>3, <1>8, <3>5
  <2>7. ASSUME conditions.changed = {}
        PROVE  /\ Pure(store') /\ FedPurely(stack')
               /\ \A a \in DOMAIN events' : events'[a].other = FALSE
    <3>1. /\ Pure(store) /\ FedPurely(stack) /\ \A a \in DOMAIN events : events[a].other = FALSE
      BY <1>2, <2>7 DEF TapInv, NothingDiffers
    <3>2. Pure(store')
      BY <1>6, <1>8, <2>1, <2>7, <3>1, PureTogether
    <3>3. FedPurely(Onward(stack))
      BY <1>3, <3>1, OnwardIs DEF FedPurely
    <3>4. \A a \in DOMAIN events' : events'[a].other = FALSE
      BY <1>6, <2>2, <2>7, <3>1
    <3>. QED BY <1>3, <1>8, <3>2, <3>3, <3>4
  <2>8. ASSUME run = Unset
        PROVE  Told(document, events', behaviour')
    <3>1. conditions.changed = {} /\ Told(document, events, behaviour)
      BY <2>8 DEF TapInv, Stages, RunIsRight
    <3>2. Told(document, events, behaviour')
      BY <1>5, <3>1, TellingIsKept
    <3>. QED BY <1>2, <1>3, <1>5, <1>6, <2>2, <3>1, <3>2 DEF Told
  <2>9. ASSUME run # Unset
        PROVE  Follows(store')
    <3>1. Follows(store)
      BY <2>9 DEF TapInv, RecomputeFollows
    <3>. QED BY <1>8, <2>1, <2>9, <3>1, FollowTogether
  <2>10. UNCHANGED <<result, document, conditions, definitions, diagnostics>> /\ phase' = "executing"
    BY <1>2, <1>8 DEF searchVars
  <2>. QED BY <1>1, <1>2, <1>5, <2>3, <2>4, <2>6, <2>7, <2>8, <2>9, <2>10, ExecutingKeepsTapInv
<1>. QED BY <1>4, <1>7, <1>8

\* The frames without the innermost one.
LEMMA RestOfStack ==
    ASSUME TapInv, Leave
    PROVE  LET n == Len(stack)
               rest == SubSeq(stack, 1, n - 1)
           IN  /\ n \in Nat /\ n > 1 /\ Innermost.todo = <<>>
               /\ Frames(stack, document, definitions, store) /\ HeldIsStored(definitions)
               /\ Frames(rest, document, definitions, store) /\ Len(rest) = n - 1
               /\ \A k \in 1 .. n - 1 : rest[k] = stack[k]
               /\ Nested(rest) /\ rest[n - 1].todo # <<>> /\ Here(rest) = Innermost.path
               /\ stack' = Onward(rest)
<1>. DEFINE n == Len(stack)
            rest == SubSeq(stack, 1, n - 1)
            f == stack[n - 1]
<1>1. /\ phase = "executing" /\ n \in Nat /\ n > 1 /\ Innermost.todo = <<>>
      /\ Waits(f, Innermost, definitions)
      /\ stack' = [rest EXCEPT ![n - 1].todo = Tail(@)]
  BY LeaveDoes DEF TapInv
<1>2. Frames(stack, document, definitions, store) /\ HeldIsStored(definitions) /\ Nested(stack)
  BY <1>1, WhileExecuting DEF TapInv, StoreIsRight
<1>3. PICK S : stack \in Seq(S)
  BY <1>2 DEF Frames
<1>4. Len(rest) = n - 1 /\ \A k \in 1 .. n - 1 : rest[k] = stack[k]
  BY <1>1, <1>3
<1>5. Frames(rest, document, definitions, store)
  BY <1>1, <1>2, FramesReturn
<1>. HIDE DEF rest, n
<1>6. Nested(rest)
  <2>. SUFFICES ASSUME NEW k \in 1 .. n - 1, NEW j \in 1 .. k - 1
                PROVE  rest[k].path[j] = Head(rest[j].todo)
    BY <1>4 DEF Nested
  <2>1. k \in 1 .. n /\ j \in 1 .. n - 1
    BY <1>1
  <2>. QED BY <1>2, <1>4, <2>1 DEF Nested, n
<1>7. rest[n - 1] = f /\ f.todo # <<>> /\ Innermost.path = Append(f.path, Head(f.todo))
  BY <1>1, <1>4 DEF Waits
<1>8. Here(rest) = Innermost.path /\ stack' = Onward(rest)
  BY <1>1, <1>4, <1>7 DEF Here, Onward
<1>. QED BY <1>1, <1>2, <1>4, <1>5, <1>6, <1>7, <1>8 DEF n, rest

\* What a component that is left gives is what is inside.
LEMMA ExposuresAreRight ==
    ASSUME TapInv, Leave
    PROVE  LET rest == SubSeq(stack, 1, Len(stack) - 1)
               x == Here(rest)
           IN  /\ \A key \in DOMAIN Exposures : key[1] = x
               /\ ValuesOf(document, Exposures, conditions.data, conditions.session)
               /\ Pure(store) => Pure(Exposures)
               /\ run # Unset => Follows(Exposures)
               /\ store' = With(store, Exposures)
               /\ \A graphs, a : Leads(document, graphs, a) /\ Len(a) = Len(stack) - 1
                                 /\ (\A j \in 1 .. Len(stack) - 1 : a[j] = x[j]) =>
                     /\ a = x /\ NodeAt(graphs, a).type = "component"
                     /\ OutputsHeld(store', graphs, a)
<1>. DEFINE n == Len(stack)
            rest == SubSeq(stack, 1, n - 1)
            x == Here(rest)
            f == stack[n - 1]
            node == NodeOf(f.owner, Head(f.todo))
            inner == Innermost.owner
            outputs == Range(inner.exposed_outputs)
            Inside(name) == <<Append(x, Shown(inner, name)[1]), Shown(inner, name)[2]>>
<1>1. /\ n \in Nat /\ n > 1 /\ HeldIsStored(definitions)
      /\ Frames(rest, document, definitions, store) /\ Len(rest) = n - 1
      /\ \A k \in 1 .. n - 1 : rest[k] = stack[k]
      /\ Nested(rest) /\ rest[n - 1].todo # <<>> /\ x = Innermost.path
  BY RestOfStack
<1>2. /\ node.type = "component" /\ KeyOf(f.owner, node) \in DOMAIN definitions
      /\ inner = definitions[KeyOf(f.owner, node)]
      /\ store' = With(store, Exposures)
  BY LeaveDoes DEF TapInv, Waits
<1>3. \A q \in outputs : /\ <<x, q.name>> \in DOMAIN Exposures /\ Inside(q.name) \in DOMAIN store
                         /\ Exposures[<<x, q.name>>] = store[Inside(q.name)]
  BY <1>1, LeaveDoes DEF TapInv, PathOf
<1>4. n - 1 \in 1 .. n - 1 /\ rest[n - 1] = f
  BY <1>1
<1>5. x \in Seq(Nat) /\ Len(x) = n - 1
  BY <1>1, HereIsFirst
<1>6. /\ \E graphs : Leads(document, graphs, x) /\ NodeAt(graphs, x) = node /\ graphs[n - 1] = f.owner
      /\ \A graphs, a : Leads(document, graphs, a) /\ n - 1 <= Len(a)
                        /\ (\A j \in 1 .. n - 1 : a[j] = x[j]) =>
            /\ graphs[n - 1] = f.owner
            /\ Len(a) = n - 1 => a = x /\ NodeAt(graphs, a) = node
  <2>1. node = NodeOf(rest[n - 1].owner, Head(rest[n - 1].todo))
    BY <1>4
  <2>2. n - 1 = Len(rest)
    BY <1>1
  <2>. HIDE DEF n, rest, node, f
  <2>. QED BY <1>1, <1>4, <2>1, <2>2, HereLeads
<1>7. \A key \in DOMAIN Exposures : \E q \in outputs : key = <<x, q.name>>
  BY <1>1 DEF Exposures
<1>. HIDE DEF x, rest, n, f, node, inner, outputs, TapInv
<1>8. \A graphs, a : /\ NodeAt(graphs, a) = node /\ graphs[Len(a)] = f.owner
                     => /\ InnerAt(graphs, a) = inner /\ OutputsAt(graphs, a) = {q.name : q \in outputs}
  BY <1>1, <1>2 DEF InnerAt, Inner, OutputsAt, HeldIsStored, outputs
<1>9. \A name : Inside(name)[1] # x
  <2>. SUFFICES ASSUME NEW e PROVE Append(x, e) # x
    OBVIOUS
  <2>1. x \in Seq(Nat \cup {e}) /\ e \in Nat \cup {e}
    BY <1>5, WiderSeq
  <2>. HIDE DEF x
  <2>2. Len(Append(x, e)) = Len(x) + 1 /\ Len(x) \in Nat
    BY <2>1
  <2>. QED BY <2>2
<1>. HIDE DEF Inside
<1>10. ValuesOf(document, Exposures, conditions.data, conditions.session)
  <2>1. PICK graphs : Leads(document, graphs, x) /\ OutputsAt(graphs, x) = {q.name : q \in outputs}
    BY <1>5, <1>6, <1>8
  <2>. SUFFICES ASSUME NEW q \in outputs
                PROVE  LET key == <<x, q.name>>
                       IN  /\ Exposures[key] = [type |-> Exposures[key].type,
                                                data |-> conditions.data,
                                                session |-> conditions.session,
                                                other |-> Exposures[key].other]
                           /\ Exposures[key].other \in BOOLEAN
    <3>. SUFFICES ASSUME NEW key \in DOMAIN Exposures
                  PROVE  /\ key = <<key[1], key[2]>> /\ key[1] = x
                         /\ key[2] \in {q.name : q \in outputs}
      BY <2>1, <1>7 DEF ValuesOf
    <3>. QED BY <1>7
  <2>2. ValuesOf(document, store, conditions.data, conditions.session)
    BY DEF TapInv, StoreIsRight
  <2>. QED BY <1>3, <2>2 DEF ValuesOf
<1>11. Pure(store) => Pure(Exposures)
  BY <1>3, <1>7 DEF Pure
<1>12. ASSUME run # Unset
       PROVE  Follows(Exposures)
  <2>. SUFFICES ASSUME NEW q \in outputs
                PROVE  LET key == <<x, q.name>>
                       IN  key \in DOMAIN run.store /\ Exposures[key].type = run.store[key].type
    BY <1>7 DEF Follows
  <2>1. PICK graphs : Leads(document, graphs, x) /\ NodeAt(graphs, x) = node /\ graphs[n - 1] = f.owner
    BY <1>6
  <2>2. InnerAt(graphs, x) = inner /\ q.name \in OutputsAt(graphs, x)
    BY <1>5, <1>8, <2>1
  <2>3. OutputsHeld(run.store, graphs, x)
    BY <1>12, <2>1 DEF TapInv, RunIsRight
  <2>4. /\ <<x, q.name>> \in DOMAIN run.store
        /\ run.store[<<x, q.name>>] = run.store[Inside(q.name)]
    BY <1>2, <2>1, <2>2, <2>3 DEF OutputsHeld, Inside
  <2>5. Follows(store)
    BY <1>12 DEF TapInv, RecomputeFollows
  <2>. QED BY <1>3, <2>4, <2>5 DEF Follows
<1>13. ASSUME NEW graphs, NEW a, Leads(document, graphs, a), Len(a) = n - 1,
              \A j \in 1 .. n - 1 : a[j] = x[j]
       PROVE  a = x /\ NodeAt(graphs, a).type = "component" /\ OutputsHeld(store', graphs, a)
  <2>1. a = x /\ NodeAt(graphs, a) = node /\ graphs[n - 1] = f.owner
    BY <1>1, <1>6, <1>13
  <2>2. InnerAt(graphs, a) = inner /\ OutputsAt(graphs, a) = {q.name : q \in outputs}
    BY <1>8, <1>13, <2>1
  <2>3. ASSUME NEW q \in outputs
        PROVE  /\ <<x, q.name>> \in DOMAIN store' /\ Inside(q.name) \in DOMAIN store'
               /\ store'[<<x, q.name>>] = store'[Inside(q.name)]
    <3>. DEFINE key == <<x, q.name>>
                inside == Inside(q.name)
    <3>1. key \in DOMAIN Exposures /\ inside \in DOMAIN store /\ Exposures[key] = store[inside]
      BY <1>3
    <3>2. inside \notin DOMAIN Exposures
      <4>1. \A k \in DOMAIN Exposures : k[1] = x
        BY <1>7
      <4>. QED BY <1>9, <4>1
    <3>. HIDE DEF key, inside
    <3>3. /\ key \in DOMAIN store' /\ inside \in DOMAIN store'
          /\ store'[key] = Exposures[key] /\ store'[inside] = store[inside]
      BY <1>2, <3>1, <3>2 DEF With
    <3>. QED BY <3>1, <3>3 DEF key, inside
  <2>. QED BY <1>2, <2>1, <2>2, <2>3 DEF OutputsHeld, Inside
<1>14. \A key \in DOMAIN Exposures : key[1] = x
  BY <1>7
<1>. QED BY <1>2, <1>10, <1>11, <1>12, <1>13, <1>14 DEF x, rest, n

\* What is inside a component that is left is left already.
LEMMA LeaveKeepsTapInv == TapInv /\ Leave /\ UNCHANGED tapVars => TapInv'
<1>. SUFFICES ASSUME TapInv, Leave, UNCHANGED tapVars PROVE TapInv'
  OBVIOUS
<1>. DEFINE n == Len(stack)
            rest == SubSeq(stack, 1, n - 1)
            x == Here(rest)
<1>1. EvaluationInv /\ EvaluationInv'
  BY LeaveKeepsEvaluationInv DEF TapInv
<1>2. /\ n \in Nat /\ n > 1 /\ Innermost.todo = <<>>
      /\ Frames(rest, document, definitions, store) /\ Len(rest) = n - 1
      /\ \A k \in 1 .. n - 1 : rest[k] = stack[k]
      /\ Nested(rest) /\ rest[n - 1].todo # <<>> /\ stack' = Onward(rest)
  BY RestOfStack
<1>3. /\ \A key \in DOMAIN Exposures : key[1] = x
      /\ ValuesOf(document, Exposures, conditions.data, conditions.session)
      /\ Pure(store) => Pure(Exposures)
      /\ run # Unset => Follows(Exposures)
      /\ store' = With(store, Exposures)
      /\ \A graphs, a : Leads(document, graphs, a) /\ Len(a) = n - 1
                        /\ (\A j \in 1 .. n - 1 : a[j] = x[j]) =>
            /\ a = x /\ NodeAt(graphs, a).type = "component"
            /\ OutputsHeld(store', graphs, a)
  BY ExposuresAreRight
<1>4. /\ phase = "executing"
      /\ UNCHANGED <<searchVars, planVars, document, conditions, definitions, phase, events,
                     diagnostics, targets, behaviour>>
  BY <1>1, LeaveDoes
<1>5. /\ Len(x) = n - 1 /\ x \in Seq(Nat) /\ \A j \in 1 .. n - 1 : x[j] = Head(stack[j].todo)
  BY <1>2, HereIsFirst
<1>. HIDE DEF rest, n, x, TapInv
<1>6. LeftAreSettled
  BY <1>4 DEF TapInv, StoreIsRight
<1>7. \A graphs, a : Leads(document, graphs, a) /\ Left(rest, a) =>
          Settled(conditions.changed, store, behaviour, events, graphs, a)
  <2>1. \A a : Left(rest, a) => Left(stack, a)
    <3>. SUFFICES ASSUME NEW a, Left(rest, a) PROVE Left(stack, a)
      OBVIOUS
    <3>1. PICK k \in 1 .. n - 1 :
            /\ k <= Len(a) /\ \A j \in 1 .. k - 1 : a[j] = Head(rest[j].todo)
            /\ a[k] \notin Range(rest[k].todo)
      BY <1>2 DEF Left
    <3>2. k \in 1 .. n /\ \A j \in 1 .. k - 1 : j \in 1 .. n - 1
      BY <1>2
    <3>. QED BY <1>2, <3>1, <3>2 DEF Left, n
  <2>. QED BY <1>6, <2>1 DEF LeftAreSettled
<1>8. ASSUME NEW graphs, NEW a, Leads(document, graphs, a), n - 1 <= Len(a),
             \A j \in 1 .. n - 1 : a[j] = x[j]
      PROVE  Settled(conditions.changed, store', behaviour, events, graphs, a)
  <2>1. a \in Seq(Nat) /\ Len(a) \in Nat
    BY <1>8 DEF Leads
  <2>2. CASE Len(a) = n - 1
    BY <1>3, <1>8, <2>2 DEF Settled
  <2>3. CASE Len(a) # n - 1
    <3>1. n <= Len(a)
      BY <1>2, <1>8, <2>1, <2>3
    <3>2. Left(stack, a)
      <4>1. Range(stack[n].todo) = {} /\ n \in 1 .. n
        BY <1>2 DEF Innermost, n, Range
      <4>. QED BY <1>5, <1>8, <3>1, <4>1 DEF Left, n
    <3>3. Settled(conditions.changed, store, behaviour, events, graphs, a)
      BY <1>6, <1>8, <3>2 DEF LeftAreSettled
    <3>4. a # x /\ \A e : Append(a, e) # x
      <4>1. a # x
        BY <1>5, <2>3
      <4>2. ASSUME NEW e PROVE Append(a, e) # x
        <5>1. a \in Seq(Nat \cup {e}) /\ e \in Nat \cup {e}
          BY <2>1, WiderSeq
        <5>2. Len(Append(a, e)) = Len(a) + 1
          BY <5>1
        <5>. QED BY <1>2, <1>5, <2>1, <3>1, <5>2
      <4>. QED BY <4>1, <4>2
    <3>. QED BY <1>3, <3>3, <3>4, SettledIsKept, KeepsItself
  <2>. QED BY <2>2, <2>3
<1>9. \A graphs, a : Leads(document, graphs, a) /\ Left(stack', a) =>
          Settled(conditions.changed, store', behaviour', events', graphs, a)
  <2>1. \A key \in DOMAIN Exposures : key[1] = Here(rest)
    BY <1>3 DEF x
  <2>2. \A graphs, a : Leads(document, graphs, a) /\ Len(rest) <= Len(a)
                       /\ (\A j \in 1 .. Len(rest) : a[j] = Here(rest)[j]) =>
            Settled(conditions.changed, With(store, Exposures), behaviour, events, graphs, a)
    BY <1>2, <1>3, <1>8 DEF x
  <2>3. rest[Len(rest)].todo # <<>>
    BY <1>2
  <2>4. \A graphs, a : Leads(document, graphs, a) /\ Left(Onward(rest), a) =>
            Settled(conditions.changed, With(store, Exposures), behaviour, events, graphs, a)
    BY <1>2, <1>7, <2>1, <2>2, <2>3, ProgressSettles, KeepsItself
  <2>. QED BY <1>2, <1>3, <1>4, <2>4
<1>10. Nested(stack')
  BY <1>2, OnwardIsNested
<1>11. ValuesOf(document, store', conditions.data, conditions.session)
  BY <1>3, ValuesTogether DEF TapInv, StoreIsRight
<1>12. ASSUME conditions.changed = {}
       PROVE  /\ Pure(store') /\ FedPurely(stack')
              /\ \A a \in DOMAIN events' : events'[a].other = FALSE
  <2>1. /\ Pure(store) /\ FedPurely(stack) /\ \A a \in DOMAIN events : events[a].other = FALSE
    BY <1>4, <1>12 DEF TapInv, NothingDiffers
  <2>2. FedPurely(rest)
    BY <1>2, <2>1 DEF FedPurely, n
  <2>3. FedPurely(Onward(rest))
    BY <1>2, <2>2, OnwardIs DEF FedPurely
  <2>. QED BY <1>2, <1>3, <1>4, <2>1, <2>3, PureTogether
<1>13. run = Unset => Told(document, events', behaviour')
  BY <1>4 DEF TapInv, RunIsRight
<1>14. run # Unset => Follows(store')
  BY <1>3, FollowTogether DEF TapInv, RecomputeFollows
<1>15. /\ UNCHANGED <<result, document, conditions, definitions, diagnostics>> /\ phase' = "executing"
       /\ Keeps(behaviour, behaviour')
  BY <1>4, KeepsItself DEF searchVars
<1>. QED BY <1>1, <1>4, <1>9, <1>10, <1>11, <1>12, <1>13, <1>14, <1>15, ExecutingKeepsTapInv

\* When the last node of the document is left, all are.
LEMMA TerminateKeepsTapInv == TapInv /\ Terminate /\ UNCHANGED tapVars => TapInv'
<1>. SUFFICES ASSUME TapInv, Terminate, UNCHANGED tapVars PROVE TapInv'
  OBVIOUS
<1>1. EvaluationInv'
  BY TerminateKeepsEvaluationInv DEF TapInv
<1>2. /\ phase = "executing" /\ Len(stack) = 1 /\ Innermost.todo = <<>> /\ phase' = "done"
      /\ UNCHANGED <<result, document, conditions, definitions, stack, store, events, diagnostics,
                     behaviour, run>>
  BY TerminateDoes DEF TapInv, searchVars, tapVars
<1>3. Stages' /\ TapAnswersForTheRun'
  BY <1>2, NothingIsAnswered
<1>4. Passed'
  BY <1>2, ChecksAreKept DEF TapInv, Passed
<1>5. ASSUME NEW graphs, NEW a, Leads(document, graphs, a)
      PROVE  Left(stack, a)
  <2>1. 1 <= Len(a)
    BY <1>5 DEF Leads
  <2>2. Range(stack[1].todo) = {}
    BY <1>2 DEF Innermost, Range
  <2>. QED BY <1>2, <2>1, <2>2 DEF Left
<1>6. StoreIsRight'
  BY <1>2, <1>5 DEF TapInv, StoreIsRight, LeftAreSettled, AllAreSettled
<1>7. NothingDiffers' /\ RecomputeFollows'
  BY <1>2 DEF TapInv, NothingDiffers, RecomputeFollows, Follows
<1>8. RunIsRight'
  BY <1>2, RunStaysRight, KeepsItself DEF TapInv, RunIsRight
<1>. QED BY <1>1, <1>3, <1>4, <1>6, <1>7, <1>8 DEF TapInv

LEMMA EvalNextKeepsTapInv == TapInv /\ EvalNext /\ UNCHANGED tapVars => TapInv'
BY SearchKeepsTapInv, RejectKeepsTapInv, FetchKeepsTapInv, CheckKeepsTapInv, OrderKeepsTapInv,
   StartKeepsTapInv, RunRegisteredKeepsTapInv, EnterKeepsTapInv, LeaveKeepsTapInv,
   TerminateKeepsTapInv DEF EvalNext

\* A run is stored with what it has made.
LEMMA RecordKeepsTapInv == TapInv /\ Record => TapInv'
<1>. SUFFICES ASSUME TapInv, Record PROVE TapInv'
  OBVIOUS
<1>1. PICK traced \in BOOLEAN, known \in BOOLEAN :
        run' = [state |-> "stored", data |-> conditions.data, session |-> conditions.session,
                known |-> known, events |-> IF traced THEN events ELSE <<>>, store |-> store]
  BY DEF Record
<1>2. /\ phase = "done" /\ diagnostics = {} /\ run = Unset
      /\ UNCHANGED <<searchVars, planVars>> /\ UNCHANGED evaluationVars
      /\ UNCHANGED <<result, document, conditions, phase, definitions, stack, store, events,
                     diagnostics, behaviour, query, reply>>
  BY DEF Record, evalVars, evaluationVars, searchVars
<1>3. /\ run' # Unset /\ run'.data = conditions.data /\ run'.session = conditions.session
      /\ run'.store = store /\ run'.events \in {events, <<>>}
  <2>1. "data" \in DOMAIN run' /\ "data" \notin DOMAIN Unset
    BY <1>1 DEF Unset
  <2>. QED BY <1>1, <2>1
<1>4. EvaluationInv'
  BY <1>2, StutterKeepsEvaluationInv DEF TapInv, evalVars
<1>5. Succeeded /\ Succeeded'
  BY <1>2 DEF Succeeded
<1>6. /\ query = Unset /\ reply = Unset /\ conditions.changed = {}
      /\ conditions.catalog = DOMAIN Stored
  BY <1>2 DEF TapInv, Stages
<1>7. Stages' /\ TapAnswersForTheRun'
  BY <1>2, <1>3, <1>5, <1>6 DEF TapInv, Stages, TapAnswersForTheRun
<1>8. Passed'
  BY <1>2, <1>5, ChecksAreKept DEF TapInv, Passed
<1>9. StoreIsRight' /\ NothingDiffers'
  BY <1>2, <1>5 DEF TapInv, StoreIsRight, LeftAreSettled, AllAreSettled, NothingDiffers
<1>10. RunIsRight'
  <2>1. ValuesOf(document, store, conditions.data, conditions.session) /\ Pure(store)
    BY <1>6 DEF TapInv, StoreIsRight, NothingDiffers
  <2>2. \A graphs, a : Leads(document, graphs, a) =>
            /\ OutputsHeld(store, graphs, a)
            /\ NodeAt(graphs, a).type # "component" => Answered(behaviour, a)
    BY <1>5, <1>6 DEF TapInv, StoreIsRight, AllAreSettled, Settled
  <2>3. Told(document, run'.events, behaviour)
    <3>1. Told(document, events, behaviour)
      BY <1>2 DEF TapInv, RunIsRight
    <3>2. Told(document, <<>>, behaviour)
      BY DEF Told
    <3>. QED BY <1>3, <3>1, <3>2
  <2>. QED BY <1>2, <1>3, <2>1, <2>2, <2>3 DEF RunIsRight
<1>11. RecomputeFollows'
  BY <1>2, <1>3 DEF RecomputeFollows, Follows
<1>. QED BY <1>4, <1>7, <1>8, <1>9, <1>10, <1>11 DEF TapInv

-----------------------------------------------------------------------------
(* The question and its answer.                                            *)

\* Of an address that leads to a node nothing is absent, whatever is loaded.
LEMMA LeadingIsNotAbsent ==
    ASSUME NEW d, NEW graphs, NEW a, Leads(d, graphs, a), NEW keys \in SUBSET DOMAIN Stored
    PROVE  ~Absent(d, a, Restrict(Stored, keys))
<1>. DEFINE catalog == Restrict(Stored, keys)
            N == Len(a)
            Called(graph, id) == {n \in Instances(graph) :
                                    n.id = id /\ KeyOf(graph, n) \in DOMAIN catalog}
            Below(level, id) ==
                UNION {{catalog[KeyOf(graph, node)] : node \in Called(graph, id)} : graph \in level}
            S == SUBSET ({d} \cup {Stored[k] : k \in DOMAIN Stored})
            F == [i \in 2 .. N |-> [level \in S |-> Below(level, a[i - 1])]]
            IsWithin(f) == f = [i \in 1 .. N |-> IF i = 1 THEN {d} ELSE Below(f[i - 1], a[i - 1])]
            within == CHOOSE f : IsWithin(f)
<1>1. DOMAIN catalog = keys /\ \A k \in keys : catalog[k] = Stored[k]
  BY DEF Restrict
<1>2. N \in Nat
  BY DEF Leads
<1>. HIDE DEF catalog
<1>3. \E f : IsWithin(f)
  <2>1. {d} \in S /\ F \in [2 .. N -> [S -> S]]
    <3>1. \A id : \A level \in S : Below(level, id) \in S
      BY <1>1
    <3>. HIDE DEF Below
    <3>. QED BY <3>1
  <2>2. PICK f \in [1 .. N -> S] : Iterates(f, 1, N, {d}, F)
    <3>. HIDE DEF N, S, F
    <3>. QED BY <1>2, <2>1, IteratesExistFrom1
  <2>3. \A i \in 1 .. N : i # 1 => F[i][f[i - 1]] = Below(f[i - 1], a[i - 1])
    <3>1. \A i \in 1 .. N : i # 1 => f[i - 1] \in S /\ i \in 2 .. N
      BY <1>2
    <3>. HIDE DEF Below, S, N
    <3>. QED BY <3>1
  <2>4. f = [i \in 1 .. N |-> IF i = 1 THEN {d} ELSE F[i][f[i - 1]]]
    BY <2>2 DEF Iterates
  <2>. HIDE DEF F, Below, N, S
  <2>5. IsWithin(f)
    BY <2>3, <2>4
  <2>. QED BY <2>5
<1>4. IsWithin(within)
  <2>. HIDE DEF IsWithin
  <2>. QED BY <1>3
<1>. DEFINE T == {i \in 0 .. N : i = 0 \/ within[i] \subseteq {graphs[i]}}
<1>5. ASSUME NEW i \in 1 .. N, i = 1 \/ within[i - 1] \subseteq {graphs[i - 1]}
      PROVE  within[i] \subseteq {graphs[i]}
  <2>. HIDE DEF within
  <2>1. within[i] = IF i = 1 THEN {d} ELSE Below(within[i - 1], a[i - 1])
    <3>. HIDE DEF Below, N
    <3>. QED BY <1>4
  <2>2. CASE i = 1
    BY <2>1, <2>2 DEF Leads
  <2>3. CASE i # 1
    <3>. DEFINE m == i - 1
    <3>1. m \in 1 .. N - 1 /\ m \in 1 .. N /\ m + 1 = i
      BY <2>3, <1>2
    <3>. HIDE DEF m
    <3>2. Within(graphs[m], a[m], graphs[i]) /\ NodesAreUnique(graphs[m])
      BY <3>1 DEF Leads
    <3>3. ASSUME NEW node \in Called(graphs[m], a[m])
          PROVE  catalog[KeyOf(graphs[m], node)] = graphs[i]
      <4>1. node \in Range(graphs[m].nodes) /\ node.id = a[m]
        BY DEF Instances
      <4>2. node = NodeOf(graphs[m], a[m])
        BY <3>2, <4>1, NodeOfIsTheNode
      <4>. QED BY <1>1, <3>2, <4>2 DEF Within, Inner
    <3>4. within[i] = Below(within[m], a[m]) /\ within[m] \subseteq {graphs[m]}
      BY <1>5, <2>1, <2>3 DEF m
    <3>. HIDE DEF Called
    <3>. QED BY <3>3, <3>4
  <2>. QED BY <2>2, <2>3
<1>6. \A i \in 1 .. N : within[i] \subseteq {graphs[i]}
  <2>. HIDE DEF within, N
  <2>1. 0 \in T
    BY <1>2
  <2>2. \A i \in 1 .. N : i - 1 \in T => i \in T
    <3>. SUFFICES ASSUME NEW i \in 1 .. N, i - 1 \in T PROVE i \in T
      OBVIOUS
    <3>1. i = 1 \/ within[i - 1] \subseteq {graphs[i - 1]}
      BY <1>2
    <3>. QED BY <1>2, <1>5, <3>1
  <2>3. \A i \in 0 .. N : i \in T
    <3>. HIDE DEF T
    <3>. QED BY <1>2, <2>1, <2>2, InductionTo
  <2>. QED BY <1>2, <2>3
<1>7. ASSUME NEW i \in 1 .. N, NEW graph \in within[i],
             \/ a[i] \notin Ids(graph)
             \/ i < N /\ NodeOf(graph, a[i]).type # "component"
      PROVE  FALSE
  <2>1. graph = graphs[i]
    BY <1>6
  <2>2. a[i] \in Ids(graphs[i])
    BY DEF Leads
  <2>3. i < N => NodeOf(graphs[i], a[i]).type = "component"
    <3>1. i < N => i \in 1 .. N - 1
      BY <1>2
    <3>. QED BY <3>1 DEF Leads, Within
  <2>. QED BY <1>7, <2>1, <2>2, <2>3
<1>. HIDE DEF within
<1>. QED BY <1>7 DEF Absent, within, catalog

\* What is refused at once: that an address is absent, only if the run has
\* nothing there.
LEMMA RefusedRightly ==
    ASSUME TapInv, run # Unset, NEW address, NEW session, NEW shelf, NEW keys \in SUBSET DOMAIN Stored,
           NEW objections,
           objections = Objections(address, session, shelf, Restrict(Stored, keys)), objections # {}
    PROVE  LET code == RefusalCodes[Smallest(objections)]
           IN  /\ code # "served" /\ code # "unset"
               /\ \/ code \in {"unknown_provenance", "no_evaluation_at_session",
                               "dataset_mismatch", "calendar_mismatch"}
                  \/ /\ code = "value_address_not_found"
                     /\ \A key \in DOMAIN run.store : key[1] # address
<1>. DEFINE i == Smallest(objections)
<1>1. objections \subseteq 1 .. 5
  BY DEF Objections, When
<1>2. i \in objections
  <2>1. objections \in SUBSET Nat
    BY <1>1
  <2>. HIDE DEF i
  <2>. QED BY <2>1, SmallestIsLeast DEF i
<1>3. /\ RefusalCodes[1] = "unknown_provenance" /\ RefusalCodes[2] = "no_evaluation_at_session"
      /\ RefusalCodes[3] = "value_address_not_found" /\ RefusalCodes[4] = "dataset_mismatch"
      /\ RefusalCodes[5] = "calendar_mismatch"
  BY DEF RefusalCodes
<1>4. ASSUME i = 3, NEW key \in DOMAIN run.store
      PROVE  key[1] # address
  <2>1. Absent(document, address, Restrict(Stored, keys))
    BY <1>2, <1>4 DEF Objections, When
  <2>2. PICK graphs : Leads(document, graphs, key[1])
    BY DEF TapInv, RunIsRight, ValuesOf
  <2>. QED BY <2>1, <2>2, LeadingIsNotAbsent
<1>. HIDE DEF i
<1>5. i = 1 \/ i = 2 \/ i = 3 \/ i = 4 \/ i = 5
  BY <1>1, <1>2
<1>. QED BY <1>3, <1>4, <1>5 DEF i

LEMMA AskKeepsTapInv == TapInv /\ AskValue => TapInv'
<1>. SUFFICES ASSUME TapInv, AskValue PROVE TapInv'
  OBVIOUS
<1>1. run # Unset /\ query = Unset /\ UNCHANGED <<searchVars, planVars, run>> /\ run' = run
      /\ result' = result
  BY DEF AskValue, searchVars
<1>2. PICK address \in Addresses, port \in Ports, session \in 1 .. 2,
           shelf \in SUBSET Fingerprints, changed \in Changes, keys \in Loads :
        LET objections == Objections(address, session, shelf, Restrict(Stored, keys))
        IN  /\ query' = [state |-> "asked", address |-> address, port |-> port]
            /\ \/ /\ objections # {}
                  /\ reply' = [state |-> RefusalCodes[Smallest(objections)]]
                  /\ UNCHANGED evaluationVars
               \/ /\ objections = {}
                  /\ \E data \in Matching(shelf) :
                        conditions' = [conditions EXCEPT !.data = data, !.changed = changed,
                                                         !.catalog = keys]
                  /\ phase' = "checking" /\ definitions' = <<>> /\ stack' = <<>>
                  /\ store' = <<>> /\ events' = <<>> /\ targets' = None
                  /\ UNCHANGED <<document, diagnostics, behaviour, reply>>
  BY DEF AskValue
<1>. DEFINE objections == Objections(address, session, shelf, Restrict(Stored, keys))
<1>3. query' # Unset /\ query'.address = address
  <2>1. "address" \in DOMAIN query' /\ "address" \notin DOMAIN Unset
    BY <1>2 DEF Unset
  <2>. QED BY <1>2, <2>1
<1>4. keys \in SUBSET DOMAIN Stored
  BY EvaluationAssumption
<1>5. /\ Succeeded /\ store = run.store /\ reply = Unset /\ ChecksPass
      /\ {"catalog", "data", "session", "visible", "changed"} \subseteq DOMAIN conditions
      /\ run.data = conditions.data /\ run.session = conditions.session
  BY <1>1 DEF TapInv, Stages, Passed
<1>. HIDE DEF TapInv, objections
<1>6. CASE /\ objections # {} /\ reply' = [state |-> RefusalCodes[Smallest(objections)]]
           /\ UNCHANGED evaluationVars
  <2>. DEFINE code == RefusalCodes[Smallest(objections)]
  <2>1. /\ code # "served" /\ code # "unset"
        /\ \/ code \in {"unknown_provenance", "no_evaluation_at_session",
                        "dataset_mismatch", "calendar_mismatch"}
           \/ /\ code = "value_address_not_found"
              /\ \A key \in DOMAIN run.store : key[1] # address
    BY <1>1, <1>4, <1>6, RefusedRightly DEF objections
  <2>. HIDE DEF code
  <2>2. reply' = [state |-> code] /\ reply'.state = code
    BY <1>6 DEF code
  <2>3. reply' # Unset
    BY <2>1, <2>2 DEF Unset
  <2>4. UNCHANGED <<document, conditions, phase, definitions, stack, store, events, diagnostics,
                    behaviour>>
    BY <1>6 DEF evaluationVars
  <2>5. EvaluationInv'
    BY <1>1, <1>6, StutterKeepsEvaluationInv DEF TapInv, evalVars
  <2>6. Succeeded' /\ phase = "done"
    BY <1>5, <2>4 DEF Succeeded
  <2>7. Stages'
    BY <1>1, <1>3, <1>5, <2>3, <2>4, <2>6 DEF TapInv, Stages
  <2>8. Passed'
    BY <1>1, <1>5, <2>4, <2>6, ChecksAreKept DEF TapInv, Passed
  <2>9. StoreIsRight' /\ NothingDiffers' /\ RunIsRight' /\ RecomputeFollows'
    BY <1>1, <1>5, <2>4, <2>6
    DEF TapInv, StoreIsRight, LeftAreSettled, AllAreSettled, NothingDiffers, RunIsRight,
        RecomputeFollows, Follows
  <2>10. TapAnswersForTheRun'
    <3>1. ASSUME code = "value_address_not_found"
          PROVE  code = Unselected(run.store)' /\ SelectedPorts(run.store)' = {}
      <4>1. \A key \in DOMAIN run.store : key[1] # address
        BY <2>1, <3>1
      <4>2. Produced(run.store)' = {}
        BY <1>1, <1>3, <4>1 DEF Produced
      <4>. QED BY <3>1, <4>2 DEF Unselected, SelectedPorts
    <3>2. ~Stale'
      BY <2>1, <2>2 DEF Stale
    <3>. QED BY <2>1, <2>2, <3>1, <3>2 DEF TapAnswersForTheRun
  <2>. QED BY <2>5, <2>7, <2>8, <2>9, <2>10 DEF TapInv
<1>7. CASE /\ objections = {}
           /\ \E data \in Matching(shelf) :
                 conditions' = [conditions EXCEPT !.data = data, !.changed = changed,
                                                  !.catalog = keys]
           /\ phase' = "checking" /\ definitions' = <<>> /\ stack' = <<>>
           /\ store' = <<>> /\ events' = <<>> /\ targets' = None
           /\ UNCHANGED <<document, diagnostics, behaviour, reply>>
  <2>1. PICK data \in Matching(shelf) :
          conditions' = [conditions EXCEPT !.data = data, !.changed = changed, !.catalog = keys]
    BY <1>7
  <2>2. /\ DOMAIN conditions' = DOMAIN conditions /\ conditions'.data = run.data
        /\ conditions'.session = conditions.session /\ conditions'.visible = conditions.visible
        /\ conditions'.catalog = keys
    BY <1>5, <2>1 DEF Matching
  <2>3. run.known
    BY <1>7 DEF objections, Objections, When
  <2>4. EvaluationInv'
    <3>1. Planned'
      BY <1>1, <1>7, PlannedIsKept DEF TapInv, EvaluationInv
    <3>2. Checked'
      BY <1>4, <1>5, <1>7, <2>2 DEF TapInv, EvaluationInv, Checked, Succeeded
    <3>3. NeverStarved' /\ CleanNeverMisses' /\ phase' # "executing"
      BY <1>7 DEF TapInv, EvaluationInv, NeverStarved, CleanNeverMisses
    <3>. QED BY <3>1, <3>2, <3>3 DEF EvaluationInv
  <2>5. Stages'
    BY <1>1, <1>3, <1>5, <1>7, <2>2, <2>3 DEF Stages
  <2>6. ChecksPass'
    BY <1>1, <1>5, <1>7, <2>2 DEF ChecksPass, StructurePasses, Faulty, NoSession
  <2>7. Passed'
    BY <1>7, <2>6 DEF Passed
  <2>8. StoreIsRight'
    BY <1>7 DEF StoreIsRight, ValuesOf, Succeeded
  <2>9. NothingDiffers'
    BY <1>7 DEF NothingDiffers, Pure
  <2>10. RunIsRight'
    BY <1>1, <1>7 DEF TapInv, RunIsRight
  <2>11. RecomputeFollows'
    BY <1>5, <1>7 DEF RecomputeFollows, Follows, Succeeded
  <2>12. TapAnswersForTheRun'
    BY <1>5, <1>7 DEF TapAnswersForTheRun
  <2>. QED BY <2>4, <2>5, <2>7, <2>8, <2>9, <2>10, <2>11, <2>12 DEF TapInv
<1>. QED BY <1>2, <1>6, <1>7 DEF objections

\* What a port of the address has in the recompute, it has in the run.
LEMMA ProducedInTheRun ==
    ASSUME TapInv, run # Unset, NEW port \in Produced(store)
    PROVE  LET key == <<query.address, port>>
           IN  /\ key \in DOMAIN store
               /\ store[key].data = run.data /\ store[key].session = run.session
               /\ store[key].other \in BOOLEAN
               /\ store[key].other = FALSE => store[key] = run.store[key]
               /\ conditions.changed = {} => store[key].other = FALSE
<1>1. PICK key \in DOMAIN store : key[1] = query.address /\ key[2] = port
  BY DEF Produced
<1>2. /\ ValuesOf(document, store, run.data, run.session)
      /\ ValuesOf(document, run.store, run.data, run.session)
      /\ Pure(run.store) /\ Follows(store)
  BY DEF TapInv, Stages, StoreIsRight, RunIsRight, RecomputeFollows
<1>3. /\ key = <<query.address, port>> /\ store[key].other \in BOOLEAN
      /\ store[key] = [type |-> store[key].type, data |-> run.data, session |-> run.session,
                       other |-> store[key].other]
  <2>1. /\ key = <<key[1], key[2]>> /\ store[key].other \in BOOLEAN
        /\ store[key] = [type |-> store[key].type, data |-> run.data, session |-> run.session,
                         other |-> store[key].other]
    BY <1>2 DEF ValuesOf
  <2>. QED BY <1>1, <2>1
<1>4. /\ key \in DOMAIN run.store /\ store[key].type = run.store[key].type
      /\ run.store[key].other = FALSE
      /\ run.store[key] = [type |-> run.store[key].type, data |-> run.data, session |-> run.session,
                           other |-> run.store[key].other]
  BY <1>2 DEF Follows, Pure, ValuesOf
<1>5. conditions.changed = {} => store[key].other = FALSE
  BY DEF TapInv, NothingDiffers, Pure
<1>6. store[key].data = run.data /\ store[key].session = run.session
  BY <1>3
<1>7. store[key].other = FALSE => store[key] = run.store[key]
  BY <1>3, <1>4
<1>. QED BY <1>1, <1>3, <1>5, <1>6, <1>7

\* Where nothing has changed and nothing is missing, the recompute has all that
\* the run had, and the same trace at the node.
LEMMA RecomputeIsTheRun ==
    ASSUME TapInv, run # Unset, phase = "done", conditions.changed = {},
           conditions.catalog = DOMAIN Stored
    PROVE  diagnostics = {} /\ DOMAIN store = DOMAIN run.store /\ ~Drifted
<1>1. diagnostics = {} /\ Follows(store)
  BY DEF TapInv, RecomputeFollows
<1>2. \A graphs, a : Leads(document, graphs, a) =>
          Settled({}, store, behaviour, events, graphs, a)
  BY <1>1 DEF TapInv, StoreIsRight, AllAreSettled, Succeeded
<1>3. ASSUME NEW key \in DOMAIN run.store
      PROVE  key \in DOMAIN store
  <2>1. /\ key = <<key[1], key[2]>>
        /\ \E graphs : Leads(document, graphs, key[1]) /\ key[2] \in OutputsAt(graphs, key[1])
    BY DEF TapInv, RunIsRight, ValuesOf
  <2>2. PICK graphs : Leads(document, graphs, key[1]) /\ key[2] \in OutputsAt(graphs, key[1])
    BY <2>1
  <2>3. OutputsHeld(store, graphs, key[1])
    BY <1>2, <2>2 DEF Settled
  <2>4. <<key[1], key[2]>> \in DOMAIN store
    BY <2>2, <2>3 DEF OutputsHeld
  <2>. QED BY <2>1, <2>4
<1>4. ASSUME query.address \in DOMAIN run.events
      PROVE  query.address \in DOMAIN events /\ events[query.address].other = FALSE
  <2>. DEFINE a == query.address
  <2>1. /\ behaviour[a] = "answers"
        /\ \E graphs : Leads(document, graphs, a) /\ NodeAt(graphs, a).type # "component"
    BY <1>4 DEF TapInv, RunIsRight, Told
  <2>2. a \in DOMAIN events
    BY <1>2, <2>1 DEF Settled
  <2>. QED BY <2>2 DEF TapInv, NothingDiffers
<1>. QED BY <1>1, <1>3, <1>4 DEF Follows, Drifted

LEMMA AnswerKeepsTapInv == TapInv /\ AnswerValue => TapInv'
<1>. SUFFICES ASSUME TapInv, AnswerValue PROVE TapInv'
  OBVIOUS
<1>1. /\ phase = "done" /\ query # Unset /\ reply = Unset /\ UNCHANGED <<run, query>>
      /\ UNCHANGED evalVars /\ UNCHANGED evaluationVars /\ result' = result
      /\ UNCHANGED <<document, conditions, phase, definitions, stack, store, events, diagnostics,
                     behaviour>>
  BY DEF AnswerValue, evalVars, evaluationVars, searchVars
<1>2. run # Unset /\ run.known
  BY <1>1 DEF TapInv, Stages
<1>3. Succeeded' <=> Succeeded
  BY <1>1 DEF Succeeded
<1>4. EvaluationInv'
  BY <1>1, StutterKeepsEvaluationInv DEF TapInv
<1>5. Stages'
  BY <1>1, <1>2, <1>3 DEF TapInv, Stages
<1>6. Passed'
  BY <1>1, <1>3, ChecksAreKept DEF TapInv, Passed
<1>7. StoreIsRight' /\ NothingDiffers' /\ RunIsRight' /\ RecomputeFollows'
  BY <1>1, <1>3
  DEF TapInv, StoreIsRight, LeftAreSettled, AllAreSettled, NothingDiffers, RunIsRight,
      RecomputeFollows, Follows
<1>. DEFINE right == IF SelectedPorts(run.store) # {} THEN "served" ELSE Unselected(run.store)
<1>8. right' = right
  BY <1>1 DEF SelectedPorts, Unselected, Produced
<1>9. ASSUME conditions.changed = {}, conditions.catalog = DOMAIN Stored
      PROVE  /\ diagnostics = {} /\ ~Drifted
             /\ right = IF SelectedPorts(store) # {} THEN "served" ELSE Unselected(store)
  BY <1>1, <1>2, <1>9, RecomputeIsTheRun DEF SelectedPorts, Unselected, Produced
<1>. HIDE DEF right, TapInv
\* Nothing is served.
<1>10. ASSUME reply'.state # "served",
              conditions.changed = {} /\ conditions.catalog = DOMAIN Stored => reply'.state = right
       PROVE  TapAnswersForTheRun'
  <2>1. ~Stale'
    BY <1>10 DEF Stale
  <2>. QED BY <1>1, <1>8, <1>10, <2>1 DEF TapAnswersForTheRun, right
<1>11. TapAnswersForTheRun'
  <2>1. CASE /\ Produced(store) = {} /\ diagnostics # {}
             /\ reply' = [state |-> "recompute_failed"]
    BY <1>9, <1>10, <2>1
  <2>2. CASE /\ Produced(store) # {} \/ diagnostics = {}
             /\ SelectedPorts(store) = {}
             /\ reply' = [state |-> Unselected(store)]
    <3>1. Unselected(store) # "served"
      BY DEF Unselected
    <3>. QED BY <1>9, <1>10, <2>2, <3>1
  <2>3. CASE SelectedPorts(store) # {} /\ Drifted /\ reply' = [state |-> "engine_drift"]
    BY <1>9, <1>10, <2>3
  <2>4. CASE /\ ~Drifted
             /\ \E port \in SelectedPorts(store) :
                   reply' = [state |-> "served", port |-> port,
                              value |-> store[<<query.address, port>>]]
    <3>1. PICK port \in SelectedPorts(store) :
            reply' = [state |-> "served", port |-> port, value |-> store[<<query.address, port>>]]
      BY <2>4
    <3>. DEFINE value == store[<<query.address, port>>]
    <3>2. port \in Produced(store)
      BY <3>1 DEF SelectedPorts
    <3>3. /\ value.data = run.data /\ value.session = run.session /\ value.other \in BOOLEAN
          /\ value.other = FALSE => value = run.store[<<query.address, port>>]
          /\ conditions.changed = {} => value.other = FALSE
      BY <1>2, <3>2, ProducedInTheRun
    <3>4. reply'.state = "served" /\ reply'.port = port /\ reply'.value = value
      BY <3>1
    <3>. HIDE DEF value
    <3>5. Stale' <=> value.other
      BY <3>4 DEF Stale
    <3>6. ASSUME value.other, query.address \in DOMAIN run.events
          PROVE  ~events[query.address].other
      BY <2>4, <3>6 DEF Drifted
    <3>7. conditions.changed = {} /\ conditions.catalog = DOMAIN Stored => reply'.state = right
      BY <1>9, <3>1, <3>4
    <3>. QED BY <1>1, <1>2, <1>8, <3>3, <3>4, <3>5, <3>6, <3>7 DEF TapAnswersForTheRun, value, right
  <2>. QED BY <2>1, <2>2, <2>3, <2>4 DEF AnswerValue
<1>. QED BY <1>4, <1>5, <1>6, <1>7, <1>11 DEF TapInv

LEMMA InitEstablishesTapInv == TapInit => TapInv
<1>. SUFFICES ASSUME TapInit PROVE TapInv
  OBVIOUS
<1>1. EvaluationInv
  BY InitEstablishesEvaluationInv DEF TapInit
<1>2. /\ run = Unset /\ query = Unset /\ reply = Unset /\ phase = "checking" /\ store = <<>>
      /\ events = <<>>
      /\ conditions \in [catalog : {DOMAIN Stored}, data : {<<1, 1>>}, session : {1},
                         visible : BOOLEAN, changed : {{}}]
  BY DEF TapInit, EvalInit
<1>3. Stages
  BY <1>2 DEF Stages
<1>4. Passed /\ StoreIsRight /\ NothingDiffers /\ RunIsRight /\ RecomputeFollows
  BY <1>2
  DEF Passed, StoreIsRight, ValuesOf, NothingDiffers, Pure, RunIsRight, Told, RecomputeFollows,
      Succeeded
<1>5. TapAnswersForTheRun
  BY <1>2 DEF TapAnswersForTheRun
<1>. QED BY <1>1, <1>3, <1>4, <1>5 DEF TapInv

THEOREM TapInvariant == TapSpec => []TapInv
<1>1. TapInv /\ [TapNext]_<<evalVars, tapVars>> => TapInv'
  <2>. SUFFICES ASSUME TapInv, [TapNext]_<<evalVars, tapVars>> PROVE TapInv'
    OBVIOUS
  <2>1. CASE UNCHANGED <<evalVars, tapVars>>
    <3>1. UNCHANGED evaluationVars /\ UNCHANGED result /\ UNCHANGED tapVars /\ UNCHANGED evalVars
      BY <2>1 DEF evalVars, evaluationVars, searchVars, tapVars
    <3>2. EvaluationInv'
      BY <3>1, StutterKeepsEvaluationInv DEF TapInv
    <3>. QED BY <3>1, <3>2, StillKeepsTapInv
  <2>. QED BY <2>1, EvalNextKeepsTapInv, AnswerKeepsTapInv, RecordKeepsTapInv, AskKeepsTapInv
           DEF TapNext, Progress
<1>. QED BY <1>1, InitEstablishesTapInv, PTL DEF TapSpec

\* Once execution has begun, only an implementation that misbehaves stops it: in
\* the evaluation of a run, and in the one that a question about its values
\* starts (preflight.py, resolve.py, evaluate.py _Executor, valuetap/service.py).
THEOREM CleanAlwaysNeverMisses == TapSpec => []CleanNeverMisses
<1>1. TapInv => CleanNeverMisses
  BY DEF TapInv, EvaluationInv
<1>. QED BY <1>1, TapInvariant, PTL

\* What is served was made of the run's data at the run's session, and is another
\* value than the run's only where code has changed and the run's trace at the
\* node cannot tell; where nothing has changed, the answer is what the run's own
\* store would have said (valuetap/service.py resolve_node_value).
THEOREM TapAlwaysAnswersForTheRun == TapSpec => []TapAnswersForTheRun
<1>1. TapInv => TapAnswersForTheRun
  BY DEF TapInv
<1>. QED BY <1>1, TapInvariant, PTL
=============================================================================
