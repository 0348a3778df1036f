-------------------------- MODULE RebalanceProofs --------------------------
(***************************************************************************)
(* Planning and filling for any number of assets, any book, any targets,   *)
(* prices and costs, and any order list a caller may bring: the loops of   *)
(* apply_orders are the function of their turns, so everything that the    *)
(* lemmas of OrdersProofs say of a turn holds between any two orders; and  *)
(* what reconcile proposes, apply_orders accepts.                          *)
(***************************************************************************)
EXTENDS Rebalance, OrdersProofs

-----------------------------------------------------------------------------
(* The loops and the turns.                                                *)

\* Turns that are nobody's change nothing.
LEMMA TurnsPassed ==
    ASSUME NEW book, NEW list, NEW op, NEW c, NEW k \in 0 .. LastTurn, NEW m \in k .. LastTurn,
           \A o \in list : ~ (k < TurnOf(o) /\ TurnOf(o) <= m)
    PROVE  Turns(book, list, op, c)[m] = Turns(book, list, op, c)[k]
<1> DEFINE after == Turns(book, list, op, c)
           T == {n \in 0 .. m - k : after[k + n] = after[k]}
<1>1. \A n \in 1 .. LastTurn : after[n] = AtTurn(after[n - 1], list, op, c, n)
    <2>1. TurnByTurn(after, book, list, op, c)
        BY TurnsRecur
    <2> HIDE DEF after
    <2> QED BY <2>1 DEF TurnByTurn
<1> HIDE DEF after
<1>2. LastTurn \in Nat /\ k \in Nat /\ m \in Nat /\ k <= m /\ m <= LastTurn
    BY LastTurnIsNatural
<1>3. 0 \in T
    BY <1>2
<1>4. ASSUME NEW n \in 1 .. m - k, n - 1 \in T PROVE n \in T
    <2>1. k + n \in 1 .. LastTurn /\ (k + n) - 1 = k + (n - 1) /\ k < k + n /\ k + n <= m
        BY <1>2
    <2>2. after[k + n] = AtTurn(after[k + (n - 1)], list, op, c, k + n)
        BY <1>1, <2>1
    <2>3. \A o \in list : TurnOf(o) # k + n
        BY <2>1
    <2>4. after[k + n] = after[k + (n - 1)]
        BY <2>2, <2>3, TurnSkipped
    <2> QED BY <1>2, <1>4, <2>4
<1> HIDE DEF T
<1>5. \A n \in 0 .. m - k : n \in T
    BY <1>2, <1>3, <1>4, InductionTo
<1>6. m - k \in 0 .. m - k /\ k + (m - k) = m
    BY <1>2
<1>7. after[k + (m - k)] = after[k]
    BY <1>5, <1>6 DEF T
<1> QED BY <1>6, <1>7 DEF after

\* The first of the orders left has the next turn.
NextIs(after, list, op, c, k, o) ==
    /\ TurnOf(o) \in 0 .. LastTurn
    /\ Had(list, TurnOf(o)) = Had(list, k) \cup {o}
    /\ after[TurnOf(o)] = IF o.side = "sell" THEN SellOne(after[k], o, op, c)
                          ELSE BuyOne(after[k], o, op, c)

LEMMA NextTurn ==
    ASSUME NEW book, NEW list \in SUBSET Orders, Duplicated(list) = {}, NEW op, NEW c,
           NEW k \in 0 .. LastTurn, NEW o \in list, o \notin Had(list, k),
           \A p \in list : p \notin Had(list, k) => TurnOf(o) <= TurnOf(p)
    PROVE  NextIs(Turns(book, list, op, c), list, op, c, k, o)
<1> DEFINE after == Turns(book, list, op, c)
           m == TurnOf(o)
<1>1. /\ \A p \in list : TurnOf(p) \in 1 .. LastTurn
      /\ \A p, q \in list : TurnOf(p) = TurnOf(q) => p = q
    BY TurnIsItsOwn
<1>2. LastTurn \in Nat /\ k \in Nat /\ m \in Nat /\ m \in 1 .. LastTurn /\ k < m
    BY <1>1, LastTurnIsNatural DEF Had
<1>3. \A p \in list : ~ (k < TurnOf(p) /\ TurnOf(p) <= m - 1)
    BY <1>1, <1>2, LastTurnIsNatural DEF Had
<1>4. after[m - 1] = after[k]
    <2>1. m - 1 \in k .. LastTurn
        BY <1>2
    <2> HIDE DEF m
    <2> QED BY <1>3, <2>1, TurnsPassed
<1>5. after[m] = AtTurn(after[m - 1], list, op, c, m)
    <2>1. TurnByTurn(after, book, list, op, c)
        BY TurnsRecur
    <2> HIDE DEF after, m
    <2> QED BY <1>2, <2>1 DEF TurnByTurn
<1>6. AtTurn(after[m - 1], list, op, c, m)
         = IF o.side = "sell" THEN SellOne(after[m - 1], o, op, c)
           ELSE BuyOne(after[m - 1], o, op, c)
    BY TurnTaken
<1>7. Had(list, m) = Had(list, k) \cup {o}
    <2> SUFFICES ASSUME NEW p \in list
                 PROVE  p \in Had(list, m) <=> p \in Had(list, k) \cup {o}
        BY DEF Had
    <2>1. TurnOf(p) \in Nat
        BY <1>1, LastTurnIsNatural
    <2> QED BY <1>1, <1>2, <2>1 DEF Had
<1> HIDE DEF after, m
<1> QED BY <1>2, <1>4, <1>5, <1>6, <1>7 DEF after, m, NextIs

-----------------------------------------------------------------------------
(* The loops keep to the turns.                                            *)

\* What an accepted call is at, and what OrdersProofs knows of it there.
LEMMA AcceptedIsAccounted ==
    ASSUME IInv, pc \in {"sells", "buys", "done"}
    PROVE  /\ start \in Books /\ orders \in SUBSET Orders /\ open \in [Assets -> Nat] /\ bps \in Int
           /\ Refusals(start, orders, open, bps) = {}
           /\ Duplicated(orders) = {}
           /\ \E k \in 0 .. LastTurn :
                 /\ Filled = Had(orders, k) /\ event = Turns(start, orders, open, bps)[k]
                 /\ Accounted(start, orders, event, k)
<1>1. /\ start \in Books /\ orders \in SUBSET Orders /\ open \in [Assets -> Nat] /\ bps \in Int
      /\ Refusals(start, orders, open, bps) = {}
    BY DEF IInv, TypeOK, AtATurn
<1>2. PICK k \in 0 .. LastTurn :
          Filled = {o \in orders : TurnOf(o) <= k} /\ event = Turns(start, orders, open, bps)[k]
    BY DEF IInv, AtATurn
<1>3. Accounted(start, orders, event, k)
    BY <1>1, <1>2, EveryTurnIsAccounted
<1> QED BY <1>1, <1>2, <1>3, NotRefused DEF Had

\* The event of an accepted call has the type that TypeOK gives it.
LEMMA TurnsAreTyped ==
    ASSUME NEW book \in Books, NEW list \in SUBSET Orders, NEW op \in [Assets -> Nat],
           NEW c \in Int, Refusals(book, list, op, c) = {}, NEW k \in 0 .. LastTurn
    PROVE  Turns(book, list, op, c)[k]
              \in [book : [cash : Int, qty : [Assets -> Int]], fills : Seq(FillRecords)]
<1> DEFINE e == Turns(book, list, op, c)[k]
<1>1. e \in Events
    BY EveryTurnIsAccounted DEF Accounted
<1> HIDE DEF e
<1>2. /\ e = [book |-> e.book, fills |-> e.fills] /\ e.fills \in Seq(FillRecords)
      /\ e.book = [cash |-> e.book.cash, qty |-> e.book.qty]
      /\ e.book.cash \in Int /\ e.book.qty \in [Assets -> Int]
    BY <1>1 DEF Events, Books
<1> QED BY <1>2 DEF e

\* apply_orders starts from the book it is given, with nothing filled.
LEMMA InitEstablishesIInv == Init => IInv
<1> SUFFICES ASSUME Init PROVE IInv
    OBVIOUS
<1>1. start \in Books /\ orders \subseteq Orders
    <2>1. /\ start = [cash |-> start.cash, qty |-> start.qty]
          /\ start.cash \in StartCash /\ start.qty \in [Assets -> 0 .. MaxLots]
        BY DEF Init
    <2>2. start.cash \in Nat /\ start.qty \in [Assets -> Nat]
        BY <2>1, ApplyOrdersAssumption
    <2>3. start \in Books
        BY <2>1, <2>2 DEF Books
    <2>4. \A o \in orders : o \in Orders
        BY ApplyOrdersAssumption DEF Init, Orders
    <2> QED BY <2>3, <2>4 DEF Init
<1>2. open \in [Assets -> Nat] /\ bps \in Int
    <2>1. \A a \in Assets : open[a] \in Nat
        <3>1. OpenPrices \cup {NoPrice} \subseteq Nat
            BY ApplyOrdersAssumption DEF NoPrice
        <3>2. \A a \in Assets : open[a] \in OpenPrices \cup {NoPrice}
            BY DEF Init
        <3> QED BY <3>1, <3>2
    <2> QED BY <2>1, ApplyOrdersAssumption DEF Init
<1>3. event \in [book : [cash : Int, qty : [Assets -> Int]], fills : Seq(FillRecords)]
    <2>1. event = [book |-> start, fills |-> <<>>] /\ <<>> \in Seq(FillRecords)
        BY DEF Init
    <2>2. start \in [cash : Int, qty : [Assets -> Int]]
        BY <1>1 DEF Books
    <2> QED BY <2>1, <2>2
<1>4. TypeOK
    BY <1>1, <1>2, <1>3 DEF Init, TypeOK
<1> QED BY <1>4 DEF Init, IInv, LoopsInOrder, AtATurn

\* One more order of a loop: the loop is at the turn of that order.
LEMMA LoopTakesTurn ==
    ASSUME IInv, pc \in {"sells", "buys"}, UNCHANGED <<args, pc>>, NEW o \in todo,
           o \notin Filled, Filled' = Filled \cup {o},
           \A p \in orders : p \notin Filled => TurnOf(o) <= TurnOf(p),
           event' = IF o.side = "sell" THEN SellOne(event, o, open, bps)
                    ELSE BuyOne(event, o, open, bps),
           todo' = todo \ {o}
    PROVE  TypeOK' /\ AtATurn'
<1>1. /\ start \in Books /\ orders \in SUBSET Orders /\ open \in [Assets -> Nat] /\ bps \in Int
      /\ Refusals(start, orders, open, bps) = {} /\ Duplicated(orders) = {}
    BY AcceptedIsAccounted
<1>2. PICK k \in 0 .. LastTurn :
          Filled = Had(orders, k) /\ event = Turns(start, orders, open, bps)[k]
    BY AcceptedIsAccounted
<1>3. o \in orders
    BY DEF IInv, TypeOK
<1>4. /\ TurnOf(o) \in 0 .. LastTurn /\ Had(orders, TurnOf(o)) = Filled \cup {o}
      /\ event' = Turns(start, orders, open, bps)[TurnOf(o)]
    <2>1. o \notin Had(orders, k) /\ \A p \in orders : p \notin Had(orders, k) => TurnOf(o) <= TurnOf(p)
        BY <1>2
    <2>2. NextIs(Turns(start, orders, open, bps), orders, open, bps, k, o)
        BY <1>1, <1>3, <2>1, NextTurn
    <2> QED BY <1>2, <2>2 DEF NextIs
<1>5. event' \in [book : [cash : Int, qty : [Assets -> Int]], fills : Seq(FillRecords)]
    <2>1. \A j \in 0 .. LastTurn :
              Turns(start, orders, open, bps)[j]
                  \in [book : [cash : Int, qty : [Assets -> Int]], fills : Seq(FillRecords)]
        BY <1>1, TurnsAreTyped
    <2> QED BY <1>4, <2>1
<1>6. start' = start /\ orders' = orders /\ open' = open /\ bps' = bps /\ pc' = pc
    BY DEF args
<1>7. TypeOK'
    BY <1>5, <1>6 DEF IInv, TypeOK
<1>8. AtATurn'
    BY <1>1, <1>4, <1>6 DEF AtATurn, Had
<1> QED BY <1>7, <1>8

LEMMA StepPreservesIInv == IInv /\ [Next]_vars => IInv'
<1> SUFFICES ASSUME IInv, [Next]_vars PROVE IInv'
    OBVIOUS
<1>s. ASSUME NEW o \in orders
      PROVE  /\ o.side \in {"sell", "buy"} /\ o.asset \in Nat /\ o.asset >= 1 /\ o.asset <= NumAssets
             /\ NumAssets \in Nat
             /\ TurnOf(o) = IF o.side = "sell" THEN o.asset ELSE NumAssets + o.asset
    BY LastTurnIsNatural DEF IInv, TypeOK, Orders, TurnOf
<1>1. CASE Refuse
    <2>1. TypeOK'
        BY <1>1 DEF Refuse, args, IInv, TypeOK
    <2> QED BY <1>1, <2>1 DEF Refuse, args, IInv, LoopsInOrder, AtATurn
<1>2. CASE Accept
    <2>1. TypeOK'
        BY <1>2 DEF Accept, args, Side, IInv, TypeOK
    <2>2. LoopsInOrder'
        BY <1>2 DEF Accept, args, Side, LoopsInOrder
    <2>3. AtATurn'
        <3>1. Refusals(start, orders, open, bps) = {} /\ UNCHANGED args
            BY <1>2 DEF Accept
        <3>2. Filled' = {}
            BY <1>2 DEF Accept, args, Filled, Side
        <3>3. {o \in orders : TurnOf(o) <= 0} = {}
            BY <1>s
        <3>4. event' = Turns(start, orders, open, bps)[0]
            <4>1. event' = [book |-> start, fills |-> <<>>]
                BY <1>2 DEF Accept, IInv, LoopsInOrder
            <4> QED BY <4>1, TurnsRecur DEF TurnByTurn
        <3>5. 0 \in 0 .. LastTurn
            BY LastTurnIsNatural
        <3>6. start' = start /\ orders' = orders /\ open' = open /\ bps' = bps
            BY <3>1 DEF args
        <3> QED BY <3>1, <3>2, <3>3, <3>4, <3>5, <3>6 DEF AtATurn
    <2> QED BY <2>1, <2>2, <2>3 DEF IInv
<1>3. CASE SellNext
    <2>1. PICK o \in First(todo) : event' = SellOne(event, o, open, bps) /\ todo' = todo \ {o}
        BY <1>3 DEF SellNext
    <2>2. /\ pc = "sells" /\ pc' = "sells" /\ UNCHANGED args
          /\ start' = start /\ orders' = orders /\ open' = open /\ bps' = bps
        BY <1>3 DEF SellNext, args
    <2>3. /\ o \in todo /\ o \in orders /\ o.side = "sell" /\ todo \subseteq Side("sell")
          /\ \A p \in todo : o.asset <= p.asset
        BY <2>1, <2>2 DEF First, IInv, TypeOK, LoopsInOrder, Side
    <2>4. /\ Filled = Side("sell") \ todo /\ Filled' = Side("sell") \ todo'
        BY <2>2 DEF Filled, Side
    <2>5. o \notin Filled /\ Filled' = Filled \cup {o}
        BY <2>1, <2>3, <2>4
    <2>6. ASSUME NEW p \in orders, p \notin Filled PROVE TurnOf(o) <= TurnOf(p)
        <3>1. p.side = "sell" => p \in todo
            BY <2>4, <2>6 DEF Side
        <3> QED BY <1>s, <2>3, <3>1
    <2>7. TypeOK' /\ AtATurn'
        BY <2>1, <2>2, <2>3, <2>5, <2>6, LoopTakesTurn
    <2>8. LoopsInOrder'
        BY <2>1, <2>2, <2>3 DEF LoopsInOrder, Side
    <2> QED BY <2>7, <2>8 DEF IInv
<1>4. CASE SellsDone
    <2>1. TypeOK'
        BY <1>4 DEF SellsDone, args, Side, IInv, TypeOK
    <2>2. LoopsInOrder'
        BY <1>4 DEF SellsDone, args, Side, LoopsInOrder
    <2>3. Filled' = Filled
        BY <1>4 DEF SellsDone, Filled, Side, args
    <2>4. AtATurn'
        BY <1>4, <2>3 DEF SellsDone, args, IInv, AtATurn
    <2> QED BY <2>1, <2>2, <2>4 DEF IInv
<1>5. CASE BuyNext
    <2>1. PICK o \in First(todo) : event' = BuyOne(event, o, open, bps) /\ todo' = todo \ {o}
        BY <1>5 DEF BuyNext
    <2>2. /\ pc = "buys" /\ pc' = "buys" /\ UNCHANGED args
          /\ start' = start /\ orders' = orders /\ open' = open /\ bps' = bps
        BY <1>5 DEF BuyNext, args
    <2>3. /\ o \in todo /\ o \in orders /\ o.side = "buy" /\ todo \subseteq Side("buy")
          /\ \A p \in todo : o.asset <= p.asset
        BY <2>1, <2>2 DEF First, IInv, TypeOK, LoopsInOrder, Side
    <2>4. /\ Filled = Side("sell") \cup (Side("buy") \ todo)
          /\ Filled' = Side("sell") \cup (Side("buy") \ todo')
        BY <2>2 DEF Filled, Side
    <2>5. o \notin Filled /\ Filled' = Filled \cup {o}
        BY <2>1, <2>3, <2>4 DEF Side
    <2>6. ASSUME NEW p \in orders, p \notin Filled PROVE TurnOf(o) <= TurnOf(p)
        <3>1. p.side = "buy" /\ p \in todo
            BY <1>s, <2>4, <2>6 DEF Side
        <3> QED BY <1>s, <2>3, <3>1
    <2>7. TypeOK' /\ AtATurn'
        BY <2>1, <2>2, <2>3, <2>5, <2>6, LoopTakesTurn
    <2>8. LoopsInOrder'
        BY <2>1, <2>2, <2>3 DEF LoopsInOrder, Side
    <2> QED BY <2>7, <2>8 DEF IInv
<1>6. CASE BuysDone
    <2>1. TypeOK'
        BY <1>6 DEF BuysDone, args, IInv, TypeOK
    <2>2. LoopsInOrder'
        BY <1>6 DEF BuysDone, args, LoopsInOrder
    <2>3. Filled' = Filled
        <3>1. Filled = Side("sell") \cup Side("buy") /\ Filled' = orders
            BY <1>6 DEF BuysDone, Filled, args
        <3> QED BY <1>s, <3>1 DEF Side
    <2>4. AtATurn'
        BY <1>6, <2>3 DEF BuysDone, args, IInv, AtATurn
    <2> QED BY <2>1, <2>2, <2>4 DEF IInv
<1>7. CASE UNCHANGED vars
    <2>1. Filled' = Filled
        BY <1>7 DEF vars, args, Filled, Side
    <2>2. AtATurn'
        BY <1>7, <2>1 DEF vars, args, IInv, AtATurn
    <2> QED BY <1>7, <2>2 DEF vars, args, IInv, TypeOK, LoopsInOrder, Side
<1> QED BY <1>1, <1>2, <1>3, <1>4, <1>5, <1>6, <1>7 DEF Next

\* The invariant of the loops holds of every call of apply_orders, whatever
\* orders the caller brings.
THEOREM ApplyOrdersInvariant == Spec => []IInv
BY InitEstablishesIInv, StepPreservesIInv, PTL DEF Spec

-----------------------------------------------------------------------------
(* Planning and filling in turn.                                           *)

LEMMA PricesAreNaturals ==
    /\ \A p \in Prices : p \in [Assets -> Nat]
    /\ \A w \in Targets : w \in [Assets -> Nat]
<1>1. OpenPrices \cup {NoPrice} \subseteq Nat /\ 0 .. WeightScale \subseteq Nat
    BY ApplyOrdersAssumption, ReconcileAssumption DEF NoPrice
<1>2. \A p \in Prices : p \in [Assets -> Nat]
    BY <1>1 DEF Prices
<1>3. \A w \in Targets : w \in [Assets -> Nat]
    BY <1>1 DEF Targets
<1> QED BY <1>2, <1>3

LEMMA RestEstablishesInv ==
    ASSUME RebalanceInit
    PROVE  RebalanceInv
<1>1. /\ target = [a \in Assets |-> 0] /\ price = [a \in Assets |-> NoPrice]
      /\ plan.ok = FALSE
    BY DEF RebalanceInit, NoPlan
<1>2. target \in [Assets -> Nat] /\ price \in [Assets -> Nat]
    BY <1>1 DEF NoPrice
<1>3. CASE Init /\ round = Rounds
    <2>1. IInv
        BY <1>3, InitEstablishesIInv
    <2>2. PlanIsCurrent
        BY <1>1, <1>2, <1>3 DEF PlanIsCurrent
    <2> QED BY <2>1, <2>2 DEF RebalanceInv
<1>4. CASE /\ start \in [cash : StartCash, qty : [Assets -> 0 .. MaxLots]]
           /\ bps \in Costs /\ CostsSupported(bps)
           /\ orders = {} /\ open = price /\ todo = {}
           /\ event = [book |-> start, fills |-> <<>>]
           /\ pc = "done" /\ round = 0
    <2>1. start \in Books
        <3>1. start = [cash |-> start.cash, qty |-> start.qty] /\ start.cash \in StartCash
              /\ start.qty \in [Assets -> 0 .. MaxLots]
            BY <1>4
        <3>2. start.cash \in Nat /\ start.qty \in [Assets -> Nat]
            BY <3>1, ApplyOrdersAssumption
        <3> QED BY <3>1, <3>2 DEF Books
    <2>2. event \in [book : [cash : Int, qty : [Assets -> Int]], fills : Seq(FillRecords)]
        <3>1. start \in [cash : Int, qty : [Assets -> Int]] /\ <<>> \in Seq(FillRecords)
            BY <2>1 DEF Books
        <3> QED BY <1>4, <3>1
    <2>3. bps \in Int
        BY <1>4, ApplyOrdersAssumption
    <2>4. TypeOK
        BY <1>2, <1>4, <2>1, <2>2, <2>3 DEF TypeOK
    <2>5. LoopsInOrder
        BY <1>4 DEF LoopsInOrder
    <2>6. AtATurn
        <3>1. Refusals(start, orders, open, bps) = {}
            BY <1>4 DEF Refusals, Duplicated, Oversold
        <3>2. Filled = {o \in orders : TurnOf(o) <= 0}
            BY <1>4 DEF Filled
        <3>3. TurnByTurn(Turns(start, orders, open, bps), start, orders, open, bps)
            BY TurnsRecur
        <3>4. event = Turns(start, orders, open, bps)[0] /\ 0 \in 0 .. LastTurn
            BY <1>4, <3>3, LastTurnIsNatural DEF TurnByTurn
        <3> QED BY <3>1, <3>2, <3>4 DEF AtATurn
    <2>7. PlanIsCurrent
        BY <1>1, <1>2, <1>4 DEF PlanIsCurrent
    <2> QED BY <2>4, <2>5, <2>6, <2>7 DEF RebalanceInv, IInv
<1> QED BY <1>3, <1>4 DEF RebalanceInit

\* The book of an accepted call is one that can be planned from.
LEMMA FilledBookIsABook ==
    ASSUME IInv, pc = "done"
    PROVE  event.book \in Books /\ event.fills \in Seq(FillRecords)
BY AcceptedIsAccounted DEF Accounted, Events

LEMMA PlanPreservesInv ==
    ASSUME RebalanceInv, Plan
    PROVE  RebalanceInv'
<1>1. /\ pc = "done" /\ round < Rounds /\ plan' = Reconciled(event.book, target', price')
      /\ target' \in [Assets -> Nat] /\ price' \in [Assets -> Nat]
    BY PricesAreNaturals DEF Plan
<1>2. CostsSupported(bps)
    BY <1>1, RebalanceAssumption DEF RebalanceInv, PlanIsCurrent
<1>3. event.book \in Books
    BY <1>1, FilledBookIsABook DEF RebalanceInv
<1>4. /\ \A o \in plan'.orders : Proposal(event.book, o, o.asset)
      /\ \A o, p \in plan'.orders : o.asset = p.asset => o = p
      /\ plan'.ok \in BOOLEAN
    BY <1>1, <1>3, PlanProposes
<1>5. plan'.orders \in SUBSET Orders
    BY <1>3, <1>4, PlanIsFillable
<1>6. CASE plan'.ok
    <2>1. /\ start' = event.book /\ orders' = plan'.orders /\ open' \in [Assets -> Nat]
          /\ event' = [book |-> event.book, fills |-> <<>>]
          /\ pc' = "validate" /\ bps' = bps /\ todo' = todo
        BY <1>6, PricesAreNaturals DEF Plan
    <2>2. todo = {}
        BY <1>1 DEF RebalanceInv, IInv, LoopsInOrder
    <2>3. event' \in [book : [cash : Int, qty : [Assets -> Int]], fills : Seq(FillRecords)]
        <3>1. event.book \in [cash : Int, qty : [Assets -> Int]] /\ <<>> \in Seq(FillRecords)
            BY <1>3 DEF Books
        <3> QED BY <2>1, <3>1
    <2>4. TypeOK'
        BY <1>3, <1>5, <2>1, <2>2, <2>3 DEF RebalanceInv, IInv, TypeOK
    <2>5. LoopsInOrder' /\ AtATurn'
        BY <2>1, <2>2 DEF LoopsInOrder, AtATurn
    <2>6. PlanIsCurrent'
        BY <1>1, <1>2, <2>1 DEF PlanIsCurrent
    <2> QED BY <2>4, <2>5, <2>6 DEF RebalanceInv, IInv
<1>7. CASE ~plan'.ok
    <2>1. UNCHANGED vars
        BY <1>7 DEF Plan
    <2>2. IInv'
        BY <2>1, StepPreservesIInv DEF RebalanceInv
    <2>3. PlanIsCurrent'
        BY <1>1, <1>2, <1>7, <2>1 DEF PlanIsCurrent, vars, args
    <2> QED BY <2>2, <2>3 DEF RebalanceInv
<1> QED BY <1>6, <1>7

LEMMA RebalanceStepPreservesInv == RebalanceInv /\ [RebalanceNext]_allVars => RebalanceInv'
<1> SUFFICES ASSUME RebalanceInv, [RebalanceNext]_allVars PROVE RebalanceInv'
    OBVIOUS
<1>1. CASE Plan
    BY <1>1, PlanPreservesInv
<1>2. CASE [Next]_vars /\ UNCHANGED planning
    <2>1. IInv'
        BY <1>2, StepPreservesIInv DEF RebalanceInv
    <2>2. UNCHANGED args
        BY <1>2 DEF Next, Refuse, Accept, SellNext, SellsDone, BuyNext, BuysDone, vars
    <2>3. PlanIsCurrent'
        BY <1>2, <2>2 DEF RebalanceInv, PlanIsCurrent, args, planning
    <2> QED BY <2>1, <2>3 DEF RebalanceInv
<1> QED BY <1>1, <1>2 DEF RebalanceNext, allVars

\* Planning and filling keep to the turns, and to the plan being filled.
THEOREM RebalanceInvariant == RebalanceSpec => []RebalanceInv
BY RestEstablishesInv, RebalanceStepPreservesInv, PTL DEF RebalanceSpec

-----------------------------------------------------------------------------
(* What the invariant says at once.                                        *)

\* R13: no call of apply_orders ever lets the settled cash or a position go
\* negative, at any point of its loops.
THEOREM CashFloor == RebalanceSpec => []NeverOverdrawn
<1>1. ASSUME RebalanceInv PROVE NeverOverdrawn
    <2>1. event.book \in Books
        <3>1. CASE pc \in {"validate", "refused"}
            BY <1>1, <3>1 DEF RebalanceInv, IInv, TypeOK, LoopsInOrder
        <3>2. CASE pc \in {"sells", "buys", "done"}
            BY <1>1, <3>2, AcceptedIsAccounted DEF RebalanceInv, Accounted, Events
        <3> QED BY <1>1, <3>1, <3>2 DEF RebalanceInv, IInv, TypeOK
    <2> QED BY <2>1 DEF NeverOverdrawn, Books
<1> QED BY <1>1, RebalanceInvariant, PTL

\* A fill event is atomic: refused, it leaves the starting book; done, every
\* order has its one fill (fills.py, apply_orders).
THEOREM FillEventIsAtomic == RebalanceSpec => []AllOrNothing
<1>1. ASSUME RebalanceInv PROVE AllOrNothing
    <2>1. pc = "refused" => event = [book |-> start, fills |-> <<>>]
        BY <1>1 DEF RebalanceInv, IInv, LoopsInOrder
    <2>2. ASSUME pc = "done"
          PROVE  /\ Len(event.fills) = Cardinality(orders)
                 /\ \A o \in orders : \E i \in DOMAIN event.fills :
                       event.fills[i].side = o.side /\ event.fills[i].asset = o.asset
        <3>1. PICK k \in 0 .. LastTurn :
                  Filled = Had(orders, k) /\ Accounted(start, orders, event, k)
            BY <1>1, <2>2, AcceptedIsAccounted DEF RebalanceInv
        <3>2. Had(orders, k) = orders
            BY <2>2, <3>1 DEF Filled
        <3> QED BY <3>1, <3>2 DEF Accounted, EachFilled
    <2> QED BY <2>1, <2>2 DEF AllOrNothing
<1> QED BY <1>1, RebalanceInvariant, PTL

\* A call that is done has had every turn, the last one included.
LEMMA DoneIsTheLastTurn ==
    ASSUME IInv, pc = "done"
    PROVE  event = Turns(start, orders, open, bps)[LastTurn] /\ Had(orders, LastTurn) = orders
<1>1. orders \in SUBSET Orders /\ Duplicated(orders) = {}
    BY AcceptedIsAccounted
<1>2. PICK k \in 0 .. LastTurn :
          Filled = Had(orders, k) /\ event = Turns(start, orders, open, bps)[k]
    BY AcceptedIsAccounted
<1>3. \A o \in orders : TurnOf(o) \in 1 .. LastTurn /\ TurnOf(o) <= k
    BY <1>1, <1>2, TurnIsItsOwn DEF Filled, Had
<1>4. LastTurn \in Nat /\ LastTurn \in k .. LastTurn /\ k \in Nat
    BY LastTurnIsNatural
<1>5. \A o \in orders : ~ (k < TurnOf(o) /\ TurnOf(o) <= LastTurn)
    BY <1>3, <1>4
<1>6. Turns(start, orders, open, bps)[LastTurn] = Turns(start, orders, open, bps)[k]
    BY <1>4, <1>5, TurnsPassed
<1>7. Had(orders, LastTurn) = orders
    BY <1>3 DEF Had
<1> QED BY <1>2, <1>6, <1>7

\* The two loops of apply_orders, taken order by order, compute the function of
\* its arguments that the engine takes the call to be.
THEOREM LoopsComputeTheFold == RebalanceSpec => []LoopsAreTheFold
<1>1. ASSUME RebalanceInv PROVE LoopsAreTheFold
    <2>1. ASSUME pc = "done"
          PROVE  Applied(start, orders, open, bps)
                    = [book |-> event.book, fills |-> event.fills, refusals |-> {}]
        <3>1. Refusals(start, orders, open, bps) = {}
            BY <1>1, <2>1, AcceptedIsAccounted DEF RebalanceInv
        <3>2. event = Turns(start, orders, open, bps)[LastTurn]
            BY <1>1, <2>1, DoneIsTheLastTurn DEF RebalanceInv
        <3> QED BY <3>1, <3>2 DEF Applied
    <2>2. pc = "refused" => Applied(start, orders, open, bps).refusals # {}
        BY <1>1 DEF RebalanceInv, IInv, LoopsInOrder, Applied
    <2> QED BY <2>1, <2>2 DEF LoopsAreTheFold
<1> QED BY <1>1, RebalanceInvariant, PTL

\* What is being filled when it is the orders of a plan.
LEMMA PlannedIsOfTheBook ==
    ASSUME RebalanceInv, Planned
    PROVE  /\ start \in Books /\ target \in [Assets -> Nat] /\ price \in [Assets -> Nat]
           /\ plan = Reconciled(start, target, price) /\ orders = plan.orders /\ plan.ok
           /\ CostsSupported(bps) /\ open \in [Assets -> Nat] /\ bps \in Int
           /\ \A o \in orders : Proposal(start, o, o.asset)
           /\ \A o, p \in orders : o.asset = p.asset => o = p
<1>1. /\ start \in Books /\ target \in [Assets -> Nat] /\ price \in [Assets -> Nat]
      /\ plan = Reconciled(start, target, price) /\ orders = plan.orders /\ plan.ok
      /\ CostsSupported(bps) /\ open \in [Assets -> Nat] /\ bps \in Int
    BY DEF RebalanceInv, IInv, TypeOK, PlanIsCurrent, Planned
<1>2. LET p == Reconciled(start, target, price)
      IN  /\ \A o \in p.orders : Proposal(start, o, o.asset)
          /\ \A o, q \in p.orders : o.asset = q.asset => o = q
    BY <1>1, PlanProposes
<1> QED BY <1>1, <1>2

\* apply_orders accepts what reconcile proposes: the only thing that can stop the
\* fill of a plan is an open that is not there (reconcile.py, fills.py).
THEOREM PlansAreAlwaysFillable == RebalanceSpec => []PlansAreFillable
<1>1. ASSUME RebalanceInv PROVE PlansAreFillable
    <2> SUFFICES ASSUME Planned, pc = "refused"
                 PROVE  Refusals(start, orders, open, bps) = {"missing_open_price"}
        BY DEF PlansAreFillable
    <2>1. /\ CostsSupported(bps) /\ Duplicated(orders) = {} /\ Oversold(start, orders) = {}
        BY <1>1, PlannedIsOfTheBook, PlanIsFillable
    <2>2. Refusals(start, orders, open, bps) # {}
        BY <1>1 DEF RebalanceInv, IInv, LoopsInOrder
    <2> QED BY <2>1, <2>2 DEF Refusals
<1> QED BY <1>1, RebalanceInvariant, PTL

-----------------------------------------------------------------------------
(* Value.                                                                  *)

\* What holds of nothing done, and of one fill more when it holds, holds after
\* every turn.
LEMMA TurnInduction ==
    ASSUME NEW book \in Books, NEW list \in SUBSET Orders, NEW op \in [Assets -> Nat],
           NEW c \in Int, Refusals(book, list, op, c) = {},
           NEW after, after = Turns(book, list, op, c), NEW T,
           after[0] = [book |-> book, fills |-> <<>>] => 0 \in T,
           \A k \in 1 .. LastTurn :
              /\ k - 1 \in T /\ Accounted(book, list, after[k - 1], k - 1)
              /\ TurnFills(list, after[k - 1], op, c, k, after[k])
              => k \in T
    PROVE  \A k \in 0 .. LastTurn : k \in T
<1>1. TurnByTurn(after, book, list, op, c)
    BY TurnsRecur
<1>2. LastTurn \in Nat
    BY LastTurnIsNatural
<1>3. 0 \in T
    BY <1>1 DEF TurnByTurn
<1>4. ASSUME NEW k \in 1 .. LastTurn, k - 1 \in T PROVE k \in T
    <2>1. k - 1 \in 0 .. LastTurn
        BY <1>2
    <2>2. Accounted(book, list, after[k - 1], k - 1)
        BY <2>1, EveryTurnIsAccounted
    <2>3. TurnFills(list, after[k - 1], op, c, k, AtTurn(after[k - 1], list, op, c, k))
        BY <2>2, TurnFillsOne DEF Accounted
    <2>4. after[k] = AtTurn(after[k - 1], list, op, c, k)
        BY <1>1 DEF TurnByTurn
    <2> QED BY <1>4, <2>2, <2>3, <2>4
<1> QED BY <1>2, <1>3, <1>4, InductionTo

\* What every position is worth; nothing is worth nothing.
Worth(b, op) == [a \in Assets |-> Notional(b.qty[a], op[a])]

LEMMA NotionalIsNatural ==
    ASSUME NEW n \in Nat, NEW p \in Nat
    PROVE  Notional(n, p) \in Nat /\ Notional(0, p) = 0
<1>1. n * p \in Nat /\ CostScale \in Nat
    BY NonNegativeProduct, PortfolioAssumption
<1>2. (n * p) * CostScale \in Nat
    BY <1>1, NonNegativeProduct
<1>3. 0 * p = 0 /\ 0 * CostScale = 0
    BY <1>1
<1> QED BY <1>2, <1>3 DEF Notional

LEMMA ValueIsWorth ==
    ASSUME NEW b \in Books, NEW op \in [Assets -> Nat]
    PROVE  /\ Worth(b, op) \in Seq(Int) /\ Len(Worth(b, op)) = NumAssets
           /\ ValueOf(b, op) = b.cash + SumOf(Worth(b, op))
<1>1. \A a \in Assets : b.qty[a] \in Nat /\ op[a] \in Nat
    BY DEF Books
<1>2. \A a \in Assets : Notional(b.qty[a], op[a]) \in Int
    BY <1>1, NotionalIsNatural
<1>3. Worth(b, op) \in Seq(Int) /\ Len(Worth(b, op)) = NumAssets
    BY <1>2, LastTurnIsNatural DEF Worth
<1>4. ASSUME NEW a \in Assets
      PROVE  (IF b.qty[a] > 0 THEN Notional(b.qty[a], op[a]) ELSE 0) = Notional(b.qty[a], op[a])
    <2>1. b.qty[a] > 0 \/ b.qty[a] = 0
        BY <1>1
    <2>2. Notional(0, op[a]) = 0
        BY <1>1, NotionalIsNatural
    <2> QED BY <2>1, <2>2
<1>5. [a \in Assets |-> IF b.qty[a] > 0 THEN Notional(b.qty[a], op[a]) ELSE 0] = Worth(b, op)
    BY <1>4 DEF Worth
<1> QED BY <1>3, <1>5 DEF ValueOf

\* The costs of some fills.
CostsOf(fills) == [i \in DOMAIN fills |-> fills[i].cost]

LEMMA OneMoreCost ==
    ASSUME NEW fills \in Seq(FillRecords), NEW f \in FillRecords
    PROVE  /\ SumOf(CostsOf(Append(fills, f))) = SumOf(CostsOf(fills)) + f.cost
           /\ SumOf(CostsOf(fills)) \in Int
<1> DEFINE g == Append(fills, f)
<1>1. /\ Len(fills) \in Nat /\ DOMAIN fills = 1 .. Len(fills) /\ DOMAIN g = 1 .. Len(fills) + 1
      /\ \A i \in 1 .. Len(fills) : g[i] = fills[i] /\ fills[i] \in FillRecords
      /\ g[Len(fills) + 1] = f
    OBVIOUS
<1> HIDE DEF g
<1>2. CostsOf(fills) \in Seq(Int) /\ Len(CostsOf(fills)) = Len(fills) /\ f.cost \in Int
    BY <1>1, FillAmounts DEF CostsOf
<1>3. CostsOf(g) = Append(CostsOf(fills), f.cost)
    BY <1>1, <1>2 DEF CostsOf
<1> QED BY <1>2, <1>3, SumOfAppend, SumIsInt DEF g

\* A fill moves value between cash and one position; its cost is what is lost.
LEMMA OneFillKeepsValue ==
    ASSUME NEW e \in Events, NEW o \in Orders, NEW op \in [Assets -> Nat], NEW c, NEW r,
           OneMoreFill(e, o, op, c, r)
    PROVE  ValueOf(r.book, op) + SumOf(CostsOf(r.fills)) = ValueOf(e.book, op) + SumOf(CostsOf(e.fills))
<1>1. PICK f \in FillRecords :
          /\ FillOf(e, o, op, c, f) /\ r.fills = Append(e.fills, f)
          /\ r.book.cash = e.book.cash + f.delta
          /\ \A a \in Assets : r.book.qty[a] = e.book.qty[a] + LotsMoved(f, a)
    BY DEF OneMoreFill
<1> DEFINE a0 == o.asset
           s  == Worth(e.book, op)
           t  == Worth(r.book, op)
           n  == Notional(f.qty, op[a0])
<1>2. /\ e.book \in Books /\ r.book \in Books /\ e.fills \in Seq(FillRecords)
      /\ a0 \in Assets /\ o.side \in {"sell", "buy"}
    BY DEF OneMoreFill, Events, Orders
<1>3. /\ f.qty \in Nat /\ f.cost \in Nat /\ f.side = o.side /\ f.asset = a0
      /\ f.delta = (IF o.side = "sell" THEN n ELSE -n) - f.cost
    BY <1>1 DEF FillOf, FillRecords
<1>4. \A a \in Assets : /\ e.book.qty[a] \in Nat /\ r.book.qty[a] \in Nat /\ op[a] \in Nat
                         /\ CostScale \in Nat
    BY <1>2, PortfolioAssumption DEF Books
<1>5. \A a \in Assets : a # a0 => t[a] = s[a]
    <2> SUFFICES ASSUME NEW a \in Assets, a # a0 PROVE r.book.qty[a] = e.book.qty[a]
        BY DEF Worth
    <2>1. LotsMoved(f, a) = 0
        BY <1>3 DEF LotsMoved
    <2> QED BY <1>1, <1>4, <2>1
<1>6. t[a0] - s[a0] = (IF o.side = "sell" THEN -n ELSE n) /\ n \in Int
    <2>1. r.book.qty[a0] = e.book.qty[a0] + (IF o.side = "sell" THEN -f.qty ELSE f.qty)
        BY <1>1, <1>2, <1>3 DEF LotsMoved
    <2>2. t[a0] = Notional(r.book.qty[a0], op[a0]) /\ s[a0] = Notional(e.book.qty[a0], op[a0])
        BY <1>2 DEF Worth
    <2>3. ASSUME NEW x \in Int, NEW y \in Int, NEW p \in Int
          PROVE  /\ Notional(x + y, p) - Notional(x, p) = Notional(y, p)
                 /\ Notional(-y, p) = -Notional(y, p) /\ Notional(y, p) \in Int
        <3>1. CostScale \in Int
            BY PortfolioAssumption
        <3>2. (x + y) * p * CostScale = x * p * CostScale + y * p * CostScale
            BY <3>1
        <3>3. (-y) * p * CostScale = -(y * p * CostScale)
            BY <3>1
        <3>4. x * p * CostScale \in Int /\ y * p * CostScale \in Int
            BY <3>1
        <3> QED BY <3>2, <3>3, <3>4 DEF Notional
    <2>4. e.book.qty[a0] \in Int /\ f.qty \in Int /\ -f.qty \in Int /\ op[a0] \in Int
        BY <1>2, <1>3, <1>4
    <2> DEFINE x == e.book.qty[a0]
               y == f.qty
               p == op[a0]
    <2> HIDE DEF s, t, a0, x, y, p
    <2>5. /\ Notional(x + y, p) - Notional(x, p) = Notional(y, p)
          /\ Notional(x + (-y), p) - Notional(x, p) = Notional(-y, p)
          /\ Notional(-y, p) = -Notional(y, p) /\ Notional(y, p) \in Int
        <3>1. x \in Int /\ y \in Int /\ p \in Int
            BY <2>4 DEF x, y, p
        <3> QED BY <2>3, <3>1
    <2>6. t[a0] = Notional(x + (IF o.side = "sell" THEN -y ELSE y), p) /\ s[a0] = Notional(x, p)
        BY <2>1, <2>2 DEF x, y, p
    <2>7. t[a0] - s[a0] = (IF o.side = "sell" THEN -Notional(y, p) ELSE Notional(y, p))
        BY <2>5, <2>6
    <2> QED BY <2>5, <2>7 DEF y, p
<1>7. /\ s \in Seq(Int) /\ t \in Seq(Int) /\ Len(s) = NumAssets /\ Len(t) = NumAssets
      /\ ValueOf(e.book, op) = e.book.cash + SumOf(s)
      /\ ValueOf(r.book, op) = r.book.cash + SumOf(t)
    BY <1>2, ValueIsWorth
<1>8. SumOf(t) = SumOf(s) + (t[a0] - s[a0]) /\ SumOf(s) \in Int
    <2>1. a0 \in 1 .. Len(s) /\ \A j \in 1 .. Len(s) : j # a0 => t[j] = s[j]
        BY <1>2, <1>5, <1>7, LastTurnIsNatural
    <2> HIDE DEF s, t, a0
    <2> QED BY <1>7, <2>1, SumOfChanged, SumIsInt
<1>9. SumOf(CostsOf(r.fills)) = SumOf(CostsOf(e.fills)) + f.cost /\ SumOf(CostsOf(e.fills)) \in Int
    BY <1>1, <1>2, OneMoreCost
<1>10. e.book.cash \in Int
    BY <1>2 DEF Books
<1> HIDE DEF s, t, a0, n
<1>11. /\ r.book.cash = e.book.cash + f.delta
       /\ f.delta + f.cost = (IF o.side = "sell" THEN n ELSE -n) /\ f.delta \in Int /\ f.cost \in Int
       /\ SumOf(t) = SumOf(s) + (IF o.side = "sell" THEN -n ELSE n)
    BY <1>1, <1>3, <1>6, <1>8
<1>12. r.book.cash + SumOf(t) + f.cost = e.book.cash + SumOf(s)
    BY <1>6, <1>8, <1>10, <1>11
<1>13. r.book.cash \in Int /\ SumOf(t) \in Int
    BY <1>6, <1>8, <1>10, <1>11
<1> QED BY <1>7, <1>8, <1>9, <1>10, <1>11, <1>12, <1>13

\* At every moment of a fill event value has moved between cash and positions,
\* and only the costs of the fills so far are lost (fills.py).
THEOREM OnlyCostsAreLost == RebalanceSpec => []CostsAreTheOnlyLoss
<1>1. ASSUME NEW book \in Books, NEW list \in SUBSET Orders, NEW op \in [Assets -> Nat],
             NEW c \in Int, Refusals(book, list, op, c) = {}, NEW k \in 0 .. LastTurn,
             NEW e, e = Turns(book, list, op, c)[k]
      PROVE  ValueOf(e.book, op) + SumOf(CostsOf(e.fills)) = ValueOf(book, op)
    <2> DEFINE after == Turns(book, list, op, c)
               Kept(r) == ValueOf(r.book, op) + SumOf(CostsOf(r.fills)) = ValueOf(book, op)
               T == {j \in 0 .. LastTurn : Kept(after[j])}
    <2> HIDE DEF after
    <2>1. after[0] = [book |-> book, fills |-> <<>>] => 0 \in T
        <3>1. CostsOf(<<>>) = <<>> /\ SumOf(<<>>) = 0
            BY SumOfNothing DEF CostsOf
        <3>2. ValueOf(book, op) \in Int
            BY ValueIsNatural
        <3>3. Kept([book |-> book, fills |-> <<>>])
            BY <3>1, <3>2
        <3>4. 0 \in 0 .. LastTurn
            BY LastTurnIsNatural
        <3> HIDE DEF Kept
        <3> QED BY <3>3, <3>4
    <2>2. ASSUME NEW j \in 1 .. LastTurn, j - 1 \in T, Accounted(book, list, after[j - 1], j - 1),
                 TurnFills(list, after[j - 1], op, c, j, after[j])
          PROVE  j \in T
        <3>1. Kept(after[j - 1]) /\ j \in 0 .. LastTurn /\ after[j - 1] \in Events
            BY <2>2, LastTurnIsNatural DEF Accounted
        <3>2. CASE after[j] = after[j - 1]
            BY <3>1, <3>2
        <3>3. ASSUME NEW o \in list, OneMoreFill(after[j - 1], o, op, c, after[j])
              PROVE  Kept(after[j])
            <4>1. ValueOf(after[j].book, op) + SumOf(CostsOf(after[j].fills))
                    = ValueOf(after[j - 1].book, op) + SumOf(CostsOf(after[j - 1].fills))
                BY <3>1, <3>3, OneFillKeepsValue
            <4> QED BY <3>1, <4>1
        <3> QED BY <2>2, <3>1, <3>2, <3>3 DEF TurnFills
    <2> HIDE DEF T, Kept
    <2>3. \A j \in 0 .. LastTurn : j \in T
        BY <1>1, <2>1, <2>2, TurnInduction DEF after
    <2> QED BY <1>1, <2>3 DEF T, Kept, after
<1>2. ASSUME RebalanceInv PROVE CostsAreTheOnlyLoss
    <2> SUFFICES ASSUME pc \in {"sells", "buys", "done"}
                 PROVE  ValueOf(event.book, open) + SumOf(CostsOf(event.fills)) = ValueOf(start, open)
        BY DEF CostsAreTheOnlyLoss, CostsOf
    <2>1. /\ start \in Books /\ orders \in SUBSET Orders /\ open \in [Assets -> Nat] /\ bps \in Int
          /\ Refusals(start, orders, open, bps) = {}
          /\ \E k \in 0 .. LastTurn : event = Turns(start, orders, open, bps)[k]
        BY <1>2, AcceptedIsAccounted DEF RebalanceInv
    <2> QED BY <1>1, <2>1
<1> QED BY <1>2, RebalanceInvariant, PTL

-----------------------------------------------------------------------------
(* The shortfall.                                                          *)

LEMMA MinOfTwo ==
    ASSUME NEW m \in Int, NEW n \in Int
    PROVE  Min({m, n}) = IF m <= n THEN m ELSE n
<1> DEFINE least == IF m <= n THEN m ELSE n
<1>1. least \in {m, n} /\ \A y \in {m, n} : least <= y
    OBVIOUS
<1>2. \A x \in {m, n} : (\A y \in {m, n} : x <= y) => x = least
    OBVIOUS
<1>3. \E x \in {m, n} : \A y \in {m, n} : x <= y
    BY <1>1
<1> HIDE DEF least
<1>4. (CHOOSE x \in {m, n} : \A y \in {m, n} : x <= y) = least
    BY <1>2, <1>3
<1> QED BY <1>4 DEF Min, least

\* What some cash covers is what the quotient says.
LEMMA QuotientIsWhatIsPaidFor ==
    ASSUME NEW cash \in Nat, NEW unit \in Nat \ {0}, NEW n \in Nat
    PROVE  n * unit <= cash <=> n <= cash \div unit
<1> DEFINE q == cash \div unit
<1>1. q \in Nat /\ q * unit <= cash
    BY AffordableLots
<1>2. ~ ((q + 1) * unit <= cash)
    OBVIOUS
<1> HIDE DEF q
<1>3. ASSUME n * unit <= cash PROVE n <= q
    <2>1. q + 1 \in Nat
        BY <1>1
    <2>2. n <= q + 1
        BY <1>2, <1>3, <2>1, SmallerProduct
    <2>3. n # q + 1
        BY <1>2, <1>3
    <2> QED BY <1>1, <2>2, <2>3
<1>4. ASSUME ~ (n * unit <= cash) PROVE ~ (n <= q)
    <2>1. q <= n
        BY <1>1, <1>4, SmallerProduct
    <2>2. q # n
        BY <1>1, <1>4
    <2> QED BY <1>1, <2>1, <2>2
<1> QED BY <1>3, <1>4 DEF q

\* The cash that the fills before a buy leave it, and what it gets of that.
IsBefore(f, o) == f.side = "sell" \/ f.asset < o.asset

LeftFor(book, fills, o) ==
    book.cash + SumOf([i \in DOMAIN fills |-> IF IsBefore(fills[i], o) THEN fills[i].delta ELSE 0])

Borne(book, fills, o, unit) ==
    \E i \in DOMAIN fills :
        /\ fills[i].side = "buy" /\ fills[i].asset = o.asset
        /\ fills[i].qty = Min({o.qty, LeftFor(book, fills, o) \div unit})
        /\ fills[i].scaled <=> LeftFor(book, fills, o) \div unit < o.qty

\* A fill that is not before a buy leaves it what there was.
LEMMA LeftForStays ==
    ASSUME NEW book, NEW fills \in Seq(FillRecords), NEW f \in FillRecords, NEW o, ~ IsBefore(f, o)
    PROVE  LeftFor(book, Append(fills, f), o) = LeftFor(book, fills, o)
<1> DEFINE g == Append(fills, f)
           s == [i \in DOMAIN fills |-> IF IsBefore(fills[i], o) THEN fills[i].delta ELSE 0]
           t == [i \in DOMAIN g |-> IF IsBefore(g[i], o) THEN g[i].delta ELSE 0]
<1>1. /\ Len(fills) \in Nat /\ DOMAIN fills = 1 .. Len(fills) /\ DOMAIN g = 1 .. Len(fills) + 1
      /\ \A i \in 1 .. Len(fills) : g[i] = fills[i] /\ fills[i] \in FillRecords
      /\ g[Len(fills) + 1] = f
    OBVIOUS
<1> HIDE DEF g
<1>2. s \in Seq(Int) /\ Len(s) = Len(fills)
    BY <1>1, FillAmounts
<1>3. t = Append(s, 0)
    BY <1>1, <1>2
<1> HIDE DEF s, t
<1>4. SumOf(t) = SumOf(s) /\ SumOf(s) \in Int
    BY <1>2, <1>3, SumOfAppend, SumIsInt
<1> QED BY <1>4 DEF LeftFor, s, t, g

\* When all fills are before it, a buy is left the cash of the book.
LEMMA LeftForIsTheCash ==
    ASSUME NEW book, NEW fills, NEW b, Explained(book, fills, b), NEW o,
           \A i \in DOMAIN fills : IsBefore(fills[i], o)
    PROVE  LeftFor(book, fills, o) = b.cash
<1>1. [i \in DOMAIN fills |-> IF IsBefore(fills[i], o) THEN fills[i].delta ELSE 0]
         = [i \in DOMAIN fills |-> fills[i].delta]
    OBVIOUS
<1> QED BY <1>1 DEF LeftFor, Explained

\* The turn of a buy: it gets what is left for it.
LEMMA BuyBearsShortfall ==
    ASSUME NEW book, NEW list \in SUBSET Orders, Duplicated(list) = {}, NEW e,
           NEW k \in 1 .. LastTurn, Accounted(book, list, e, k - 1),
           NEW o \in list, TurnOf(o) = k, o.side = "buy", NEW op, NEW c, NEW r,
           UnitCost(op[o.asset], c) \in Nat \ {0}, OneMoreFill(e, o, op, c, r)
    PROVE  Borne(book, r.fills, o, UnitCost(op[o.asset], c))
<1> DEFINE unit == UnitCost(op[o.asset], c)
<1>1. PICK f \in FillRecords :
          /\ FillOf(e, o, op, c, f) /\ r.fills = Append(e.fills, f)
    BY DEF OneMoreFill
<1>2. e.fills \in Seq(FillRecords) /\ e.book \in Books /\ Explained(book, e.fills, e.book)
    BY DEF Accounted, Events
<1>3. /\ f.side = "buy" /\ f.asset = o.asset /\ f.qty = BoughtQty(e.book, o, op[o.asset], c)
      /\ f.scaled <=> o.qty * unit > e.book.cash
    BY <1>1 DEF FillOf
<1>4. o.asset \in Nat /\ o.qty \in Nat /\ e.book.cash \in Nat
    BY <1>2, LastTurnIsNatural DEF Orders, Books
<1>5. \A i \in DOMAIN e.fills : IsBefore(e.fills[i], o)
    <2> SUFFICES ASSUME NEW i \in DOMAIN e.fills, e.fills[i].side # "sell"
                 PROVE  e.fills[i].asset < o.asset
        BY DEF IsBefore
    <2>1. PICK p \in Had(list, k - 1) : p.side = e.fills[i].side /\ p.asset = e.fills[i].asset
        BY DEF Accounted, FilledFor
    <2>2. p \in list /\ TurnOf(p) <= k - 1 /\ p.side # "sell" /\ p.asset \in Nat
        BY <2>1, LastTurnIsNatural DEF Had, Orders
    <2>3. TurnOf(p) = NumAssets + p.asset /\ TurnOf(o) = NumAssets + o.asset
        BY <2>2 DEF TurnOf
    <2> QED BY <1>4, <2>1, <2>2, <2>3, LastTurnIsNatural
<1>6. ~ IsBefore(f, o)
    BY <1>3, <1>4 DEF IsBefore
<1>7. LeftFor(book, r.fills, o) = e.book.cash
    BY <1>1, <1>2, <1>5, <1>6, LeftForStays, LeftForIsTheCash
<1>8. Len(e.fills) + 1 \in DOMAIN r.fills /\ r.fills[Len(e.fills) + 1] = f
    BY <1>1, <1>2
<1>9. (o.qty * unit <= e.book.cash <=> o.qty <= e.book.cash \div unit)
      /\ e.book.cash \div unit \in Nat /\ o.qty * unit \in Nat
    <2>1. unit \in Nat \ {0}
        OBVIOUS
    <2> HIDE DEF unit
    <2> QED BY <1>4, <2>1, QuotientIsWhatIsPaidFor, AffordableLots, NonNegativeProduct
<1> HIDE DEF unit
<1>10. f.qty = Min({o.qty, e.book.cash \div unit})
    <2>1. f.qty = IF o.qty * unit <= e.book.cash THEN o.qty ELSE e.book.cash \div unit
        BY <1>3 DEF BoughtQty, unit
    <2>2. Min({o.qty, e.book.cash \div unit})
             = IF o.qty <= e.book.cash \div unit THEN o.qty ELSE e.book.cash \div unit
        BY <1>4, <1>9, MinOfTwo
    <2> QED BY <1>9, <2>1, <2>2
<1>11. f.scaled <=> e.book.cash \div unit < o.qty
    BY <1>3, <1>4, <1>9
<1>12. Borne(book, r.fills, o, unit)
    BY <1>3, <1>7, <1>8, <1>10, <1>11 DEF Borne
<1> QED BY <1>12 DEF unit

\* A turn after it takes nothing from a buy.
LEMMA BorneStays ==
    ASSUME NEW book, NEW list \in SUBSET Orders, Duplicated(list) = {}, NEW e \in Events,
           NEW o \in list, NEW p \in list, p.side = "buy", TurnOf(p) < TurnOf(o),
           NEW op, NEW c, NEW r, OneMoreFill(e, o, op, c, r), NEW unit,
           Borne(book, e.fills, p, unit)
    PROVE  Borne(book, r.fills, p, unit)
<1>1. PICK f \in FillRecords :
          /\ FillOf(e, o, op, c, f) /\ r.fills = Append(e.fills, f)
    BY DEF OneMoreFill
<1>2. f.side = o.side /\ f.asset = o.asset /\ e.fills \in Seq(FillRecords)
    BY <1>1 DEF FillOf, Events
<1>3. ~ IsBefore(f, p)
    <2>1. o.side # "sell"
        BY LastTurnIsNatural DEF TurnOf, Orders
    <2>2. TurnOf(p) = NumAssets + p.asset /\ TurnOf(o) = NumAssets + o.asset
          /\ p.asset \in Nat /\ o.asset \in Nat
        BY <2>1, LastTurnIsNatural DEF TurnOf, Orders
    <2> QED BY <1>2, <2>1, <2>2, LastTurnIsNatural DEF IsBefore
<1>4. LeftFor(book, r.fills, p) = LeftFor(book, e.fills, p)
    BY <1>1, <1>2, <1>3, LeftForStays
<1>5. PICK i \in DOMAIN e.fills :
          /\ e.fills[i].side = "buy" /\ e.fills[i].asset = p.asset
          /\ e.fills[i].qty = Min({p.qty, LeftFor(book, e.fills, p) \div unit})
          /\ e.fills[i].scaled <=> LeftFor(book, e.fills, p) \div unit < p.qty
    BY DEF Borne
<1>6. i \in DOMAIN r.fills /\ r.fills[i] = e.fills[i]
    BY <1>1, <1>2, <1>5
<1> QED BY <1>4, <1>5, <1>6 DEF Borne

\* Later buys bear the shortfall: a buy gets as many of its lots as are paid for
\* by the starting cash, all the sells and what the buys before it left.
THEOREM ShortfallIsBorneLater == RebalanceSpec => []LaterBuysBearShortfall
<1>1. ASSUME NEW book \in Books, NEW list \in SUBSET Orders, NEW op \in [Assets -> Nat],
             NEW c \in Int, Refusals(book, list, op, c) = {}
      PROVE  \A o \in Had(list, LastTurn) :
                o.side = "buy" => Borne(book, Turns(book, list, op, c)[LastTurn].fills, o,
                                        UnitCost(op[o.asset], c))
    <2> DEFINE after == Turns(book, list, op, c)
               AllBorne(j) == \A o \in Had(list, j) :
                    o.side = "buy" => Borne(book, after[j].fills, o, UnitCost(op[o.asset], c))
               T == {j \in 0 .. LastTurn : AllBorne(j)}
    <2> HIDE DEF after
    <2>1. Duplicated(list) = {} /\ \A o \in list : TurnOf(o) \in 1 .. LastTurn
        BY <1>1, NotRefused, TurnIsItsOwn
    <2>2. \A o \in list : UnitCost(op[o.asset], c) \in Nat \ {0}
        <3> SUFFICES ASSUME NEW o \in list PROVE UnitCost(op[o.asset], c) \in Nat \ {0}
            OBVIOUS
        <3>1. CostsSupported(c) /\ op[o.asset] # NoPrice
            BY <1>1, NotRefused
        <3>2. op[o.asset] \in Nat \ {0} /\ 0 \in Nat
            BY <3>1 DEF Orders, NoPrice
        <3> QED BY <3>1, <3>2, CostsLeaveProceeds
    <2>3. 0 \in T
        BY <2>1, LastTurnIsNatural DEF Had
    <2>4. ASSUME NEW j \in 1 .. LastTurn, j - 1 \in T, Accounted(book, list, after[j - 1], j - 1),
                 TurnFills(list, after[j - 1], op, c, j, after[j])
          PROVE  j \in T
        <3>1. AllBorne(j - 1) /\ j \in 0 .. LastTurn /\ after[j - 1] \in Events
            BY <2>4, LastTurnIsNatural DEF Accounted
        <3>2. CASE after[j] = after[j - 1] /\ Had(list, j) = Had(list, j - 1)
            BY <3>1, <3>2
        <3>3. ASSUME NEW o \in list, TurnOf(o) = j, Had(list, j) = Had(list, j - 1) \cup {o},
                     OneMoreFill(after[j - 1], o, op, c, after[j])
              PROVE  AllBorne(j)
            <4> SUFFICES ASSUME NEW p \in Had(list, j), p.side = "buy"
                         PROVE  Borne(book, after[j].fills, p, UnitCost(op[p.asset], c))
                OBVIOUS
            <4>1. CASE p = o
                BY <2>1, <2>2, <2>4, <3>3, <4>1, BuyBearsShortfall
            <4>2. CASE p \in Had(list, j - 1)
                <5>1. p \in list /\ TurnOf(p) < TurnOf(o)
                    BY <2>1, <3>3, <4>2, LastTurnIsNatural DEF Had
                <5>2. Borne(book, after[j - 1].fills, p, UnitCost(op[p.asset], c))
                    BY <3>1, <4>2
                <5> DEFINE unit == UnitCost(op[p.asset], c)
                           e == after[j - 1]
                           r == after[j]
                <5> HIDE DEF unit, e, r
                <5>3. OneMoreFill(e, o, op, c, r) /\ Borne(book, e.fills, p, unit) /\ e \in Events
                    BY <3>1, <3>3, <5>2 DEF e, r, unit
                <5>4. Borne(book, r.fills, p, unit)
                    BY <2>1, <5>1, <5>3, BorneStays
                <5> QED BY <5>4 DEF r, unit
            <4> QED BY <3>3, <4>1, <4>2
        <3> QED BY <2>4, <3>1, <3>2, <3>3 DEF TurnFills
    <2> HIDE DEF T, AllBorne
    <2>5. \A j \in 0 .. LastTurn : j \in T
        BY <1>1, <2>3, <2>4, TurnInduction DEF after
    <2>6. LastTurn \in T
        BY <2>5, LastTurnIsNatural
    <2> QED BY <2>6 DEF T, AllBorne, after
<1>2. ASSUME RebalanceInv PROVE LaterBuysBearShortfall
    <2> SUFFICES ASSUME pc = "done", NEW o \in Side("buy")
                 PROVE  Borne(start, event.fills, o, UnitCost(open[o.asset], bps))
        BY DEF LaterBuysBearShortfall, Borne, LeftFor, IsBefore
    <2>1. /\ start \in Books /\ orders \in SUBSET Orders /\ open \in [Assets -> Nat] /\ bps \in Int
          /\ Refusals(start, orders, open, bps) = {}
        BY <1>2, AcceptedIsAccounted DEF RebalanceInv
    <2>2. event = Turns(start, orders, open, bps)[LastTurn] /\ o \in Had(orders, LastTurn)
          /\ o.side = "buy"
        BY <1>2, DoneIsTheLastTurn DEF RebalanceInv, Side
    <2> QED BY <1>1, <2>1, <2>2
<1> QED BY <1>2, RebalanceInvariant, PTL

-----------------------------------------------------------------------------
(* Exits.                                                                  *)

OneEach(list) == \A o, p \in list : o.asset = p.asset => o = p

\* Where a list with one order per asset has got the positions: those without an
\* order had are what they were, those sold are short of what was ordered.
SoldSoFar(book, list, e, k) ==
    \A a \in Assets :
        /\ (\A o \in Had(list, k) : o.asset # a) => e.book.qty[a] = book.qty[a]
        /\ \A o \in Had(list, k) :
              o.side = "sell" /\ o.asset = a => e.book.qty[a] = book.qty[a] - o.qty

\* A fill moves the position it is of.
LEMMA FillMovesItsPosition ==
    ASSUME NEW e \in Events, NEW o \in Orders, NEW op, NEW c, NEW r, OneMoreFill(e, o, op, c, r)
    PROVE  /\ \A a \in Assets : a # o.asset => r.book.qty[a] = e.book.qty[a]
           /\ o.side = "sell" /\ o.qty <= e.book.qty[o.asset] =>
                 r.book.qty[o.asset] = e.book.qty[o.asset] - o.qty
           /\ o.side = "buy" /\ BoughtQty(e.book, o, op[o.asset], c) = o.qty =>
                 r.book.qty[o.asset] = e.book.qty[o.asset] + o.qty
<1>1. PICK f \in FillRecords :
          /\ FillOf(e, o, op, c, f)
          /\ \A a \in Assets : r.book.qty[a] = e.book.qty[a] + LotsMoved(f, a)
    BY DEF OneMoreFill
<1>2. /\ f.side = o.side /\ f.asset = o.asset /\ f.qty \in Nat
      /\ o.asset \in Assets /\ o.qty \in Nat
      /\ \A a \in Assets : e.book.qty[a] \in Nat
    BY <1>1 DEF FillOf, FillRecords, Orders, Events, Books
<1>3. ASSUME NEW a \in Assets, a # o.asset PROVE r.book.qty[a] = e.book.qty[a]
    BY <1>1, <1>2, <1>3 DEF LotsMoved
<1>4. ASSUME o.side = "sell", o.qty <= e.book.qty[o.asset]
      PROVE  r.book.qty[o.asset] = e.book.qty[o.asset] - o.qty
    <2>1. f.qty = o.qty
        <3>1. f.qty = SoldQty(e.book, o)
            BY <1>1, <1>4 DEF FillOf
        <3> QED BY <1>2, <1>4, <3>1 DEF SoldQty
    <2>2. LotsMoved(f, o.asset) = -o.qty
        BY <1>2, <1>4, <2>1 DEF LotsMoved
    <2> QED BY <1>1, <1>2, <2>2
<1>5. ASSUME o.side = "buy", BoughtQty(e.book, o, op[o.asset], c) = o.qty
      PROVE  r.book.qty[o.asset] = e.book.qty[o.asset] + o.qty
    <2>1. f.qty = o.qty
        BY <1>1, <1>5 DEF FillOf
    <2>2. LotsMoved(f, o.asset) = o.qty
        BY <1>2, <1>5, <2>1 DEF LotsMoved
    <2> QED BY <1>1, <1>2, <2>2
<1> QED BY <1>3, <1>4, <1>5

\* An order that has not been had is the first of its asset.
LEMMA FirstOfItsAsset ==
    ASSUME NEW list, OneEach(list), NEW k, NEW o \in list, o \notin Had(list, k)
    PROVE  \A p \in Had(list, k) : p.asset # o.asset
BY DEF OneEach, Had

LEMMA SellsAreWhole ==
    ASSUME NEW book \in Books, NEW list \in SUBSET Orders, NEW op \in [Assets -> Nat],
           NEW c \in Int, Refusals(book, list, op, c) = {}, OneEach(list),
           \A o \in list : Proposal(book, o, o.asset)
    PROVE  SoldSoFar(book, list, Turns(book, list, op, c)[LastTurn], LastTurn)
<1> DEFINE after == Turns(book, list, op, c)
           T == {j \in 0 .. LastTurn : SoldSoFar(book, list, after[j], j)}
<1> HIDE DEF after
<1>1. after[0] = [book |-> book, fills |-> <<>>] => 0 \in T
    <2>1. Had(list, 0) = {}
        <3>1. Duplicated(list) = {}
            BY NotRefused
        <3>2. \A o \in list : TurnOf(o) \in 1 .. LastTurn
            BY <3>1, TurnIsItsOwn
        <3> QED BY <3>2, LastTurnIsNatural DEF Had
    <2> QED BY <2>1, LastTurnIsNatural DEF SoldSoFar
<1>2. ASSUME NEW j \in 1 .. LastTurn, j - 1 \in T, Accounted(book, list, after[j - 1], j - 1),
             TurnFills(list, after[j - 1], op, c, j, after[j])
      PROVE  j \in T
    <2> DEFINE e == after[j - 1]
               r == after[j]
    <2>1. SoldSoFar(book, list, e, j - 1) /\ j \in 0 .. LastTurn /\ e \in Events
        BY <1>2, LastTurnIsNatural DEF Accounted
    <2>2. CASE r = e /\ Had(list, j) = Had(list, j - 1)
        BY <2>1, <2>2 DEF SoldSoFar
    <2>3. ASSUME NEW o \in list, o \notin Had(list, j - 1), Had(list, j) = Had(list, j - 1) \cup {o},
                 OneMoreFill(e, o, op, c, r)
          PROVE  SoldSoFar(book, list, r, j)
        <3> HIDE DEF e, r
        <3>1. \A p \in Had(list, j - 1) : p.asset # o.asset
            BY <2>3, FirstOfItsAsset
        <3>2. /\ \A a \in Assets : a # o.asset => r.book.qty[a] = e.book.qty[a]
              /\ o.side = "sell" /\ o.qty <= e.book.qty[o.asset] =>
                    r.book.qty[o.asset] = e.book.qty[o.asset] - o.qty
            BY <2>1, <2>3, FillMovesItsPosition
        <3>3. /\ o.asset \in Assets /\ e.book.qty[o.asset] = book.qty[o.asset]
              /\ o.side = "sell" => o.qty <= book.qty[o.asset]
            BY <2>1, <3>1 DEF SoldSoFar, Proposal, Orders
        <3> QED BY <2>1, <2>3, <3>1, <3>2, <3>3 DEF SoldSoFar
    <2> HIDE DEF e, r
    <2>4. SoldSoFar(book, list, r, j)
        BY <1>2, <2>2, <2>3 DEF TurnFills, e, r
    <2> QED BY <2>1, <2>4 DEF r
<1> HIDE DEF T
<1>3. \A j \in 0 .. LastTurn : j \in T
    BY <1>1, <1>2, TurnInduction DEF after
<1>4. LastTurn \in T
    BY <1>3, LastTurnIsNatural
<1> QED BY <1>4 DEF T, after

\* What a plan that was made has for an asset: what the asset's row says.
RowOf(book, weight, price0, a) == PlanFor(book, weight, price0, ValueOf(book, price0), a)

IsOfRows(p, book, weight, price0) ==
    /\ PlannedAssets(book, weight) \subseteq Assets
    /\ \A a \in PlannedAssets(book, weight) : price0[a] \in Nat \ {0}
    /\ ValueOf(book, price0) \in Nat
    /\ p.orders = UNION {RowOf(book, weight, price0, a).orders : a \in PlannedAssets(book, weight)}
    /\ p.projected = book.cash + SumOf([a \in Assets |->
           IF a \in PlannedAssets(book, weight) THEN RowOf(book, weight, price0, a).flow ELSE 0])

LEMMA PlanIsItsRows ==
    ASSUME NEW book \in Books, NEW weight \in [Assets -> Nat], NEW price0 \in [Assets -> Nat],
           Reconciled(book, weight, price0).ok
    PROVE  IsOfRows(Reconciled(book, weight, price0), book, weight, price0)
<1>1. Unpriced(book, weight, price0) = {}
    BY DEF Reconciled
<1>2. PlannedAssets(book, weight) \subseteq Assets
    BY DEF PlannedAssets, Held
<1>3. \A a \in PlannedAssets(book, weight) : price0[a] \in Nat \ {0}
    BY <1>1, <1>2 DEF Unpriced, NoPrice
<1>4. ValueOf(book, price0) \in Nat
    BY ValueIsNatural
<1>5. Reconciled(book, weight, price0).orders = UNION {RowOf(book, weight, price0, a).orders : a \in PlannedAssets(book, weight)}
    BY <1>1 DEF Reconciled, RowOf
<1>6. Reconciled(book, weight, price0).projected = book.cash + SumOf([a \in Assets |->
          IF a \in PlannedAssets(book, weight) THEN RowOf(book, weight, price0, a).flow ELSE 0])
    <2>1. \A a \in PlannedAssets(book, weight) :
              [b \in PlannedAssets(book, weight) |->
                  PlanFor(book, weight, price0, ValueOf(book, price0), b)][a] = RowOf(book, weight, price0, a)
        BY DEF RowOf
    <2> QED BY <1>1, <2>1 DEF Reconciled
<1> QED BY <1>2, <1>3, <1>4, <1>5, <1>6 DEF IsOfRows

\* An order of a plan comes from the row of its asset.
HasItsRow(o, book, weight, price0) ==
    /\ o.asset \in PlannedAssets(book, weight)
    /\ RowOf(book, weight, price0, o.asset).orders = {o}

LEMMA OrderIsOfItsRow ==
    ASSUME NEW book \in Books, NEW weight \in [Assets -> Nat], NEW price0 \in [Assets -> Nat],
           NEW p, IsOfRows(p, book, weight, price0), NEW o \in p.orders
    PROVE  HasItsRow(o, book, weight, price0)
<1>1. PICK a \in PlannedAssets(book, weight) : o \in RowOf(book, weight, price0, a).orders
    BY DEF IsOfRows
<1>2. a \in Assets /\ price0[a] \in Nat \ {0} /\ ValueOf(book, price0) \in Nat
    BY DEF IsOfRows
<1>3. \/ RowOf(book, weight, price0, a).orders = {}
      \/ \E q : RowOf(book, weight, price0, a).orders = {q} /\ Proposal(book, q, a)
    BY <1>2, PlanForProposes DEF RowOf
<1>4. RowOf(book, weight, price0, a).orders = {o} /\ o.asset = a
    BY <1>1, <1>3 DEF Proposal
<1> QED BY <1>1, <1>4 DEF HasItsRow

\* The row of an asset that is held and no longer targeted sells all of it.
LEMMA ExitSellsEverything ==
    ASSUME NEW book \in Books, NEW weight, NEW price0, NEW a \in Assets,
           weight[a] = 0, book.qty[a] > 0
    PROVE  RowOf(book, weight, price0, a).orders = {[side |-> "sell", asset |-> a, qty |-> book.qty[a]]}
<1> DEFINE current == book.qty[a]
           delta   == TargetQty(weight[a], price0[a], ValueOf(book, price0)) - current
           emit    == delta # 0 /\ Emits(current, weight[a], delta, price0[a], ValueOf(book, price0))
<1>1. current \in Nat /\ current > 0
    BY DEF Books
<1>2. delta = 0 - current
    BY DEF TargetQty
<1>3. emit
    BY <1>1, <1>2 DEF Emits
<1>4. OrderFor(a, current, delta) = [side |-> "sell", asset |-> a, qty |-> current]
    <2> HIDE DEF current, delta
    <2> QED BY <1>1, <1>2 DEF OrderFor
<1>5. RowOf(book, weight, price0, a).orders = IF emit THEN {OrderFor(a, current, delta)} ELSE {}
    BY DEF RowOf, PlanFor
<1> HIDE DEF emit, delta
<1> QED BY <1>3, <1>4, <1>5

\* An asset that the targets do not name is gone after the fill, however little of
\* it was held (reconcile.py, R6; fills.py).
THEOREM ExitsAreAlwaysComplete == RebalanceSpec => []ExitsAreComplete
<1>1. ASSUME RebalanceInv PROVE ExitsAreComplete
    <2> SUFFICES ASSUME PlanFilled, NEW a \in Assets, target[a] = 0 PROVE event.book.qty[a] = 0
        BY DEF ExitsAreComplete
    <2>1. /\ start \in Books /\ target \in [Assets -> Nat] /\ price \in [Assets -> Nat]
          /\ plan = Reconciled(start, target, price) /\ orders = plan.orders /\ plan.ok
          /\ open \in [Assets -> Nat] /\ bps \in Int
          /\ \A o \in orders : Proposal(start, o, o.asset)
          /\ OneEach(orders)
        BY <1>1, PlannedIsOfTheBook DEF PlanFilled, OneEach
    <2>2. orders \in SUBSET Orders /\ Refusals(start, orders, open, bps) = {}
          /\ event = Turns(start, orders, open, bps)[LastTurn] /\ Had(orders, LastTurn) = orders
        BY <1>1, AcceptedIsAccounted, DoneIsTheLastTurn DEF RebalanceInv, PlanFilled
    <2>6. IsOfRows(plan, start, target, price)
        BY <2>1, PlanIsItsRows
    <2>3. SoldSoFar(start, orders, event, LastTurn)
        BY <2>1, <2>2, SellsAreWhole
    <2>4. CASE start.qty[a] > 0
        <3> DEFINE o == [side |-> "sell", asset |-> a, qty |-> start.qty[a]]
        <3>1. RowOf(start, target, price, a).orders = {o}
            BY <2>1, <2>4, ExitSellsEverything
        <3>2. a \in PlannedAssets(start, target)
            BY <2>4 DEF PlannedAssets, Held
        <3>3. o \in orders
            BY <2>1, <2>6, <3>1, <3>2 DEF IsOfRows
        <3>4. event.book.qty[a] = start.qty[a] - o.qty
            BY <2>2, <2>3, <3>3 DEF SoldSoFar
        <3>5. start.qty[a] \in Nat
            BY <2>1 DEF Books
        <3> QED BY <3>4, <3>5
    <2>5. CASE ~ (start.qty[a] > 0)
        <3>1. start.qty[a] = 0
            BY <2>1, <2>5 DEF Books
        <3>2. a \notin PlannedAssets(start, target)
            BY <2>5, <3>1 DEF PlannedAssets, Held
        <3>3. \A o \in Had(orders, LastTurn) : o.asset # a
            BY <2>1, <2>2, <2>6, <3>2, OrderIsOfItsRow DEF HasItsRow
        <3> QED BY <2>3, <3>1, <3>3 DEF SoldSoFar
    <2> QED BY <2>4, <2>5
<1> QED BY <1>1, RebalanceInvariant, PTL

-----------------------------------------------------------------------------
(* Settling.                                                               *)

\* Of the planned cash flows, those of the orders that have had their turn.
FlowsHad(list, flow, k) ==
    [a \in Assets |-> IF \E o \in Had(list, k) : o.asset = a THEN flow[a] ELSE 0]

\* What makes the flows of a list flows at some prices.
FlowsOf(flow, list, op) ==
    /\ flow \in [Assets -> Int]
    /\ \A o \in list : flow[o.asset] = FlowOf(o, op[o.asset])
    /\ \A a \in Assets : (\A o \in list : o.asset # a) => flow[a] = 0

\* Where orders filled in full have got a book, and its value at some prices.
ArrivedAt(to, book, list, op) ==
    /\ ValueOf(to, op) = ValueOf(book, op)
    /\ \A a \in Assets : (\A o \in list : o.asset # a) => to.qty[a] = book.qty[a]
    /\ \A o \in list :
          to.qty[o.asset] = book.qty[o.asset] + (IF o.side = "sell" THEN -o.qty ELSE o.qty)

\* Where a list filled without costs, in full so far, has got the book.
SettledSoFar(book, list, op, flow, e, k) ==
    /\ e.book.cash = book.cash + SumOf(FlowsHad(list, flow, k))
    /\ ArrivedAt(e.book, book, Had(list, k), op)

LEMMA FlowsHadAreAmounts ==
    ASSUME NEW list, NEW flow \in [Assets -> Int], NEW k
    PROVE  FlowsHad(list, flow, k) \in Seq(Int) /\ Len(FlowsHad(list, flow, k)) = NumAssets
BY LastTurnIsNatural DEF FlowsHad

\* The turn of an order adds its flow.
LEMMA OneMoreFlow ==
    ASSUME NEW list \in SUBSET Orders, OneEach(list), NEW flow \in [Assets -> Int], NEW k, NEW m,
           NEW o \in list, o \notin Had(list, k), Had(list, m) = Had(list, k) \cup {o}
    PROVE  /\ SumOf(FlowsHad(list, flow, m)) = SumOf(FlowsHad(list, flow, k)) + flow[o.asset]
           /\ SumOf(FlowsHad(list, flow, k)) \in Int
<1> DEFINE s == FlowsHad(list, flow, k)
           t == FlowsHad(list, flow, m)
<1>1. \A p \in Had(list, k) : p.asset # o.asset
    BY FirstOfItsAsset
<1>2. o.asset \in Assets /\ flow[o.asset] \in Int
    BY DEF Orders
<1>3. s[o.asset] = 0 /\ t[o.asset] = flow[o.asset]
    BY <1>1, <1>2 DEF FlowsHad
<1>4. \A a \in Assets : a # o.asset => t[a] = s[a]
    BY DEF FlowsHad
<1>5. s \in Seq(Int) /\ t \in Seq(Int) /\ Len(s) = NumAssets /\ Len(t) = NumAssets
    BY FlowsHadAreAmounts
<1>6. o.asset \in 1 .. Len(s) /\ \A j \in 1 .. Len(s) : j # o.asset => t[j] = s[j]
    BY <1>2, <1>4, <1>5, LastTurnIsNatural
<1> HIDE DEF s, t
<1>7. SumOf(t) = SumOf(s) + (t[o.asset] - s[o.asset])
    BY <1>5, <1>6, SumOfChanged
<1>8. SumOf(s) \in Int
    BY <1>5, SumIsInt
<1> QED BY <1>2, <1>3, <1>7, <1>8 DEF s, t

\* When a buy has had its turn, no sell is left: what is left takes cash.
LEMMA BuysAreLast ==
    ASSUME NEW list \in SUBSET Orders, Duplicated(list) = {}, NEW op \in [Assets -> Nat],
           NEW flow, FlowsOf(flow, list, op),
           NEW k \in 1 .. LastTurn, NEW o \in list, TurnOf(o) = k, o.side = "buy"
    PROVE  SumOf(flow) <= SumOf(FlowsHad(list, flow, k))
<1> DEFINE t == FlowsHad(list, flow, k)
<1>1. flow \in [Assets -> Int] /\ flow \in Seq(Int) /\ Len(flow) = NumAssets
    BY LastTurnIsNatural DEF FlowsOf
<1>2. t \in Seq(Int) /\ Len(t) = NumAssets
    BY <1>1, FlowsHadAreAmounts
<1>3. ASSUME NEW a \in Assets PROVE flow[a] <= t[a]
    <2>1. CASE \E p \in Had(list, k) : p.asset = a
        BY <1>1, <2>1 DEF FlowsHad
    <2>2. CASE \A p \in list : p.asset # a
        <3>1. flow[a] = 0 /\ t[a] = 0
            BY <2>2 DEF FlowsOf, FlowsHad, Had
        <3> QED BY <3>1
    <2>3. ASSUME NEW p \in list, p.asset = a, \A q \in Had(list, k) : q.asset # a
          PROVE  flow[a] <= t[a]
        <3>1. t[a] = 0
            BY <2>3 DEF FlowsHad
        <3>2. ~ (TurnOf(p) <= k)
            BY <2>3 DEF Had
        <3>3. p.side # "sell" /\ p.qty \in Nat /\ op[p.asset] \in Nat
            BY <2>3, <3>2, LastTurnIsNatural DEF TurnOf, Orders
        <3>4. flow[a] = -Notional(p.qty, op[p.asset])
            BY <2>3, <3>3 DEF FlowsOf, FlowOf
        <3>5. Notional(p.qty, op[p.asset]) \in Nat
            BY <3>3, NotionalIsNatural
        <3> QED BY <3>1, <3>4, <3>5
    <2> QED BY <2>1, <2>2, <2>3
<1>4. \A i \in 1 .. Len(flow) : flow[i] <= t[i]
    BY <1>1, <1>3, LastTurnIsNatural
<1> HIDE DEF t
<1>5. SumOf(flow) <= SumOf(t)
    BY <1>1, <1>2, <1>4, SumOfLarger
<1> QED BY <1>5 DEF t

\* Without costs a fill brings in what its order was planned to, or less when a
\* buy is scaled, and the value of the book stays.
LEMMA CostFreeFill ==
    ASSUME NEW e \in Events, NEW o \in Orders, NEW op \in [Assets -> Nat], NEW c, c = 0, NEW r,
           OneMoreFill(e, o, op, c, r),
           o.side = "sell" => o.qty <= e.book.qty[o.asset],
           o.side = "buy" => Notional(o.qty, op[o.asset]) <= e.book.cash
    PROVE  /\ r.book.cash = e.book.cash + FlowOf(o, op[o.asset])
           /\ ValueOf(r.book, op) = ValueOf(e.book, op)
           /\ r.book.qty[o.asset] = e.book.qty[o.asset] + (IF o.side = "sell" THEN -o.qty ELSE o.qty)
           /\ \A a \in Assets : a # o.asset => r.book.qty[a] = e.book.qty[a]
<1> DEFINE p == op[o.asset]
<1>1. PICK f \in FillRecords :
          /\ FillOf(e, o, op, c, f) /\ r.fills = Append(e.fills, f)
          /\ r.book.cash = e.book.cash + f.delta
    BY DEF OneMoreFill
<1>2. /\ f.qty \in Nat /\ o.qty \in Nat /\ p \in Nat /\ o.side \in {"sell", "buy"}
      /\ e.book.cash \in Nat /\ e.book.qty[o.asset] \in Nat /\ r.book \in Books /\ e.book \in Books
      /\ e.fills \in Seq(FillRecords) /\ o.asset \in Assets
    BY DEF FillRecords, Orders, Events, Books, OneMoreFill
<1>3. f.cost = 0
    <2>1. f.cost = f.qty * p * 0
        BY <1>1 DEF FillOf
    <2>2. f.qty * p \in Nat
        BY <1>2, NonNegativeProduct
    <2> QED BY <2>1, <2>2
<1>4. o.side = "buy" => BoughtQty(e.book, o, p, c) = o.qty
    <2>1. o.qty * UnitCost(p, c) = Notional(o.qty, p)
        BY <1>2, PortfolioAssumption DEF UnitCost, Notional
    <2> QED BY <2>1 DEF BoughtQty
<1>5. o.side = "sell" => SoldQty(e.book, o) = o.qty
    BY <1>2 DEF SoldQty
<1>6. f.qty = o.qty
    BY <1>1, <1>2, <1>4, <1>5 DEF FillOf
<1>7. f.delta = FlowOf(o, p)
    <2>1. Notional(f.qty, p) \in Int
        <3> HIDE DEF p
        <3>1. Notional(f.qty, p) \in Nat
            BY <1>2, NotionalIsNatural
        <3> QED BY <3>1
    <2> QED BY <1>1, <1>2, <1>3, <1>6, <2>1 DEF FillOf, FlowOf
<1>8. ValueOf(r.book, op) = ValueOf(e.book, op)
    <2>1. ValueOf(r.book, op) + SumOf(CostsOf(r.fills)) = ValueOf(e.book, op) + SumOf(CostsOf(e.fills))
        BY OneFillKeepsValue
    <2>2. /\ SumOf(CostsOf(r.fills)) = SumOf(CostsOf(e.fills)) + 0
          /\ SumOf(CostsOf(e.fills)) \in Int
        BY <1>1, <1>2, <1>3, OneMoreCost
    <2>3. ValueOf(r.book, op) \in Int /\ ValueOf(e.book, op) \in Int
        BY <1>2, ValueIsNatural
    <2> QED BY <2>1, <2>2, <2>3
<1>9. /\ \A a \in Assets : a # o.asset => r.book.qty[a] = e.book.qty[a]
      /\ r.book.qty[o.asset] = e.book.qty[o.asset] + (IF o.side = "sell" THEN -o.qty ELSE o.qty)
    <2> HIDE DEF p
    <2>1. o.side \in {"sell", "buy"}
        BY DEF Orders
    <2>2. \A a \in Assets : a # o.asset => r.book.qty[a] = e.book.qty[a]
        BY FillMovesItsPosition
    <2>3. CASE o.side = "sell"
        <3>1. r.book.qty[o.asset] = e.book.qty[o.asset] - o.qty
            BY <2>3, FillMovesItsPosition
        <3>2. o.qty \in Int /\ e.book.qty[o.asset] \in Int
            BY DEF Orders, Events, Books
        <3> QED BY <2>2, <2>3, <3>1, <3>2
    <2>4. CASE o.side = "buy"
        <3>1. r.book.qty[o.asset] = e.book.qty[o.asset] + o.qty
            BY <1>4, <2>4, FillMovesItsPosition DEF p
        <3> QED BY <2>2, <2>4, <3>1
    <2> QED BY <2>1, <2>3, <2>4
<1> QED BY <1>1, <1>7, <1>8, <1>9

\* A list that can be paid for at the prices it was planned at is filled in full.
LEMMA PlanFillsInFull ==
    ASSUME NEW book \in Books, NEW list \in SUBSET Orders, NEW op \in [Assets -> Nat],
           NEW c \in Int, c = 0, Refusals(book, list, op, c) = {}, OneEach(list),
           \A o \in list : Proposal(book, o, o.asset),
           NEW flow, FlowsOf(flow, list, op), book.cash + SumOf(flow) >= 0
    PROVE  SettledSoFar(book, list, op, flow, Turns(book, list, op, c)[LastTurn], LastTurn)
<1> DEFINE after == Turns(book, list, op, c)
           T == {j \in 0 .. LastTurn : SettledSoFar(book, list, op, flow, after[j], j)}
<1> HIDE DEF after
<1>0. /\ Duplicated(list) = {} /\ \A o \in list : TurnOf(o) \in 1 .. LastTurn
      /\ flow \in [Assets -> Int] /\ SumOf(flow) \in Int
    <2>1. Duplicated(list) = {}
        BY NotRefused
    <2>2. flow \in [Assets -> Int] /\ flow \in Seq(Int)
        BY LastTurnIsNatural DEF FlowsOf
    <2> QED BY <2>1, <2>2, TurnIsItsOwn, SumIsInt
<1>1. after[0] = [book |-> book, fills |-> <<>>] => 0 \in T
    <2>1. Had(list, 0) = {}
        BY <1>0, LastTurnIsNatural DEF Had
    <2>2. FlowsHad(list, flow, 0) = [a \in Assets |-> 0]
        BY <2>1 DEF FlowsHad
    <2>3. SumOf([a \in Assets |-> 0]) = 0
        <3> DEFINE z == [a \in Assets |-> 0]
        <3>1. z \in Seq(Int) /\ Len(z) = NumAssets /\ \A i \in 1 .. Len(z) : z[i] = 0
            BY LastTurnIsNatural
        <3> HIDE DEF z
        <3> DEFINE Z == {k \in 0 .. Len(z) : Sums(z)[k] = 0}
        <3>2. 0 \in Z /\ \A k \in 1 .. Len(z) : k - 1 \in Z => k \in Z
            BY <3>1, SumsRecur
        <3>3. Len(z) \in Nat
            BY <3>1
        <3> HIDE DEF Z
        <3>4. \A k \in 0 .. Len(z) : k \in Z
            BY <3>2, <3>3, InductionTo
        <3>5. Len(z) \in Z
            BY <3>3, <3>4
        <3> QED BY <3>5 DEF Z, z, SumOf
    <2>4. book.cash \in Int
        BY DEF Books
    <2> QED BY <2>1, <2>2, <2>3, <2>4, LastTurnIsNatural DEF SettledSoFar, ArrivedAt
<1>2. ASSUME NEW j \in 1 .. LastTurn, j - 1 \in T, Accounted(book, list, after[j - 1], j - 1),
             TurnFills(list, after[j - 1], op, c, j, after[j])
      PROVE  j \in T
    <2> DEFINE e == after[j - 1]
               r == after[j]
    <2>1. SettledSoFar(book, list, op, flow, e, j - 1) /\ j \in 0 .. LastTurn /\ e \in Events
        BY <1>2, LastTurnIsNatural DEF Accounted
    <2>2. CASE r = e /\ Had(list, j) = Had(list, j - 1)
        BY <2>1, <2>2 DEF SettledSoFar, ArrivedAt, FlowsHad
    <2>3. ASSUME NEW o \in list, TurnOf(o) = j, o \notin Had(list, j - 1),
                 Had(list, j) = Had(list, j - 1) \cup {o}, OneMoreFill(e, o, op, c, r)
          PROVE  SettledSoFar(book, list, op, flow, r, j)
        <3> HIDE DEF e, r
        <3>1. \A p \in Had(list, j - 1) : p.asset # o.asset
            BY <2>3, FirstOfItsAsset
        <3>2. /\ o.asset \in Assets /\ o.qty \in Nat /\ o.side \in {"sell", "buy"}
              /\ e.book.qty[o.asset] = book.qty[o.asset]
              /\ o.side = "sell" => o.qty <= book.qty[o.asset]
            BY <2>1, <3>1 DEF SettledSoFar, ArrivedAt, Proposal, Orders
        <3>3. /\ SumOf(FlowsHad(list, flow, j)) = SumOf(FlowsHad(list, flow, j - 1)) + flow[o.asset]
              /\ SumOf(FlowsHad(list, flow, j - 1)) \in Int
            BY <1>0, <2>3, OneMoreFlow
        <3>4. flow[o.asset] = FlowOf(o, op[o.asset]) /\ flow[o.asset] \in Int
            BY <1>0, <3>2 DEF FlowsOf
        <3>5. book.cash \in Int /\ e.book.cash = book.cash + SumOf(FlowsHad(list, flow, j - 1))
            BY <2>1 DEF SettledSoFar, ArrivedAt, Books
        <3>6. o.side = "buy" => Notional(o.qty, op[o.asset]) <= e.book.cash
            <4> SUFFICES ASSUME o.side = "buy" PROVE Notional(o.qty, op[o.asset]) <= e.book.cash
                OBVIOUS
            <4>1. SumOf(flow) <= SumOf(FlowsHad(list, flow, j))
                BY <1>0, <2>3, BuysAreLast
            <4>2. flow[o.asset] = -Notional(o.qty, op[o.asset]) /\ Notional(o.qty, op[o.asset]) \in Nat
                BY <3>2, <3>4, NotionalIsNatural DEF FlowOf
            <4> QED BY <1>0, <3>3, <3>5, <4>1, <4>2
        <3>7. /\ r.book.cash = e.book.cash + FlowOf(o, op[o.asset])
              /\ ValueOf(r.book, op) = ValueOf(e.book, op)
              /\ r.book.qty[o.asset] = e.book.qty[o.asset] + (IF o.side = "sell" THEN -o.qty ELSE o.qty)
              /\ \A a \in Assets : a # o.asset => r.book.qty[a] = e.book.qty[a]
            BY <2>1, <2>3, <3>2, <3>6, CostFreeFill
        <3>8. r.book.cash = book.cash + SumOf(FlowsHad(list, flow, j))
            BY <3>3, <3>4, <3>5, <3>7
        <3>9. \A a \in Assets : (\A p \in Had(list, j) : p.asset # a) => r.book.qty[a] = book.qty[a]
            BY <2>1, <2>3, <3>7 DEF SettledSoFar, ArrivedAt
        <3>10. ASSUME NEW p \in Had(list, j)
               PROVE  r.book.qty[p.asset] = book.qty[p.asset] + (IF p.side = "sell" THEN -p.qty ELSE p.qty)
            <4>1. CASE p = o
                BY <3>2, <3>7, <4>1
            <4>2. CASE p \in Had(list, j - 1)
                <5>1. p.asset # o.asset /\ p.asset \in Assets
                    BY <3>1, <4>2 DEF Had, Orders
                <5> QED BY <2>1, <3>7, <4>2, <5>1 DEF SettledSoFar, ArrivedAt
            <4> QED BY <2>3, <4>1, <4>2
        <3> QED BY <2>1, <3>7, <3>8, <3>9, <3>10 DEF SettledSoFar, ArrivedAt
    <2> HIDE DEF e, r
    <2>4. SettledSoFar(book, list, op, flow, r, j)
        BY <1>2, <2>2, <2>3 DEF TurnFills, e, r
    <2> QED BY <2>1, <2>4 DEF r
<1> HIDE DEF T
<1>3. \A j \in 0 .. LastTurn : j \in T
    BY <1>1, <1>2, TurnInduction DEF after
<1>4. LastTurn \in T
    BY <1>3, LastTurnIsNatural
<1> QED BY <1>4 DEF T, after

\* An order says how far its asset is from its target, and its flow what that is
\* worth; an asset at its target has none.
LEMMA RowSaysTheGap ==
    ASSUME NEW book \in Books, NEW weight \in [Assets -> Nat], NEW price0, NEW a \in Assets,
           price0[a] \in Nat \ {0}, ValueOf(book, price0) \in Nat
    PROVE  LET row == RowOf(book, weight, price0, a)
               t   == TargetQty(weight[a], price0[a], ValueOf(book, price0))
           IN  /\ t \in Nat
               /\ book.qty[a] = t => row.orders = {}
               /\ \A o : row.orders = {o} =>
                     /\ row.flow = FlowOf(o, price0[a]) /\ row.flow \in Int
                     /\ book.qty[a] + (IF o.side = "sell" THEN -o.qty ELSE o.qty) = t
               /\ row.orders = {} => row.flow = 0
<1> DEFINE t       == TargetQty(weight[a], price0[a], ValueOf(book, price0))
           current == book.qty[a]
           delta   == t - current
           emit    == delta # 0 /\ Emits(current, weight[a], delta, price0[a], ValueOf(book, price0))
           order   == OrderFor(a, current, delta)
           row     == RowOf(book, weight, price0, a)
<1>1. t \in Nat
    BY TargetQtyIsNatural
<1>2. current \in Nat
    BY DEF Books
<1>3. /\ row.orders = IF emit THEN {order} ELSE {}
      /\ row.flow = IF emit THEN FlowOf(order, price0[a]) ELSE 0
    BY DEF RowOf, PlanFor
<1> HIDE DEF t, current, row
<1>4. current = t => ~emit
    BY <1>1, <1>2
<1>5. ASSUME emit
      PROVE  /\ current + (IF order.side = "sell" THEN -order.qty ELSE order.qty) = t
             /\ FlowOf(order, price0[a]) \in Int
    <2>1. CASE delta > 0
        <3>1. order = [side |-> "buy", asset |-> a, qty |-> delta] /\ delta \in Nat
            BY <1>1, <1>2, <2>1 DEF OrderFor
        <3>2. Notional(delta, price0[a]) \in Nat
            <4> HIDE DEF delta
            <4> QED BY <3>1, NotionalIsNatural
        <3>3. current + delta = t
            BY <1>1, <1>2
        <3> HIDE DEF order, delta
        <3> QED BY <3>1, <3>2, <3>3 DEF FlowOf
    <2>2. CASE ~ (delta > 0)
        <3> DEFINE lots == IF -delta < current THEN -delta ELSE current
        <3>1. order = [side |-> "sell", asset |-> a, qty |-> lots]
            BY <2>2 DEF OrderFor
        <3>2. lots \in Nat /\ current + (-lots) = t
            BY <1>1, <1>2, <2>2
        <3>3. Notional(lots, price0[a]) \in Nat
            <4> HIDE DEF lots
            <4> QED BY <3>2, NotionalIsNatural
        <3> HIDE DEF order, lots
        <3> QED BY <3>1, <3>2, <3>3 DEF FlowOf
    <2> QED BY <2>1, <2>2
<1> HIDE DEF emit, order
<1>6. \A o : row.orders = {o} => emit /\ order = o
    BY <1>3
<1> QED BY <1>1, <1>3, <1>4, <1>5, <1>6 DEF t, current, row

\* The flows that a plan adds up are those of its orders.
LEMMA PlannedFlows ==
    ASSUME NEW book \in Books, NEW weight \in [Assets -> Nat], NEW price0 \in [Assets -> Nat],
           NEW p, IsOfRows(p, book, weight, price0)
    PROVE  \E flow : FlowsOf(flow, p.orders, price0) /\ p.projected = book.cash + SumOf(flow)
<1> DEFINE planned == PlannedAssets(book, weight)
           flow == [a \in Assets |-> IF a \in planned THEN RowOf(book, weight, price0, a).flow ELSE 0]
<1>1. p.projected = book.cash + SumOf(flow)
    BY DEF IsOfRows
<1>2. /\ planned \subseteq Assets /\ \A a \in planned : price0[a] \in Nat \ {0}
      /\ ValueOf(book, price0) \in Nat
    BY DEF IsOfRows
<1> HIDE DEF planned
<1>3. ASSUME NEW a \in planned
      PROVE  /\ \A o : RowOf(book, weight, price0, a).orders = {o} =>
                   /\ RowOf(book, weight, price0, a).flow = FlowOf(o, price0[a])
                   /\ RowOf(book, weight, price0, a).flow \in Int
             /\ RowOf(book, weight, price0, a).orders = {} =>
                   RowOf(book, weight, price0, a).flow = 0
             /\ \/ RowOf(book, weight, price0, a).orders = {}
                \/ \E q : RowOf(book, weight, price0, a).orders = {q} /\ q.asset = a
    <2>1. \/ RowOf(book, weight, price0, a).orders = {}
          \/ \E q : RowOf(book, weight, price0, a).orders = {q} /\ Proposal(book, q, a)
        BY <1>2, PlanForProposes DEF RowOf
    <2> QED BY <1>2, <2>1, RowSaysTheGap DEF Proposal
<1>4. \A a \in Assets : flow[a] \in Int
    BY <1>3
<1>5. ASSUME NEW o \in p.orders PROVE flow[o.asset] = FlowOf(o, price0[o.asset])
    <2>1. o.asset \in planned /\ RowOf(book, weight, price0, o.asset).orders = {o}
        BY OrderIsOfItsRow DEF planned, HasItsRow
    <2> QED BY <1>2, <1>3, <2>1
<1>6. ASSUME NEW a \in Assets, \A o \in p.orders : o.asset # a PROVE flow[a] = 0
    <2>1. CASE a \in planned
        <3>1. RowOf(book, weight, price0, a).orders \subseteq p.orders
            BY <2>1 DEF IsOfRows, planned
        <3>2. RowOf(book, weight, price0, a).orders = {}
            BY <1>3, <1>6, <2>1, <3>1
        <3> QED BY <1>3, <2>1, <3>2
    <2> QED BY <2>1
<1>7. flow \in [Assets -> Int]
    BY <1>4
<1> HIDE DEF flow
<1> QED BY <1>1, <1>5, <1>6, <1>7 DEF FlowsOf

\* Planned again from where the plan was to get to, nothing is proposed.
LEMMA NothingLeftToPlan ==
    ASSUME NEW book \in Books, NEW weight \in [Assets -> Nat], NEW price0 \in [Assets -> Nat],
           NEW p, IsOfRows(p, book, weight, price0), NEW b \in Books,
           ArrivedAt(b, book, p.orders, price0)
    PROVE  Reconciled(b, weight, price0).orders = {}
<1>0. \A o \in p.orders : HasItsRow(o, book, weight, price0)
    BY OrderIsOfItsRow
<1>1. CASE ~Reconciled(b, weight, price0).ok
    BY <1>1, PlanProposes
<1>2. CASE Reconciled(b, weight, price0).ok
    <2>1. IsOfRows(Reconciled(b, weight, price0), b, weight, price0)
        BY <1>2, PlanIsItsRows
    <2>2. ASSUME NEW a \in PlannedAssets(b, weight) PROVE RowOf(b, weight, price0, a).orders = {}
        <3>1. /\ a \in Assets /\ price0[a] \in Nat \ {0} /\ ValueOf(b, price0) \in Nat
              /\ ValueOf(book, price0) = ValueOf(b, price0)
            BY <2>1 DEF IsOfRows, ArrivedAt
        <3>2. CASE \A o \in p.orders : o.asset # a
            <4>1. b.qty[a] = book.qty[a]
                BY <3>1, <3>2 DEF ArrivedAt
            <4>2. RowOf(b, weight, price0, a) = RowOf(book, weight, price0, a)
                BY <3>1, <4>1 DEF RowOf, PlanFor
            <4>3. a \in PlannedAssets(book, weight)
                BY <4>1 DEF PlannedAssets, Held
            <4>4. RowOf(book, weight, price0, a).orders \subseteq p.orders
                BY <4>3 DEF IsOfRows
            <4>5. \/ RowOf(book, weight, price0, a).orders = {}
                  \/ \E q : RowOf(book, weight, price0, a).orders = {q} /\ Proposal(book, q, a)
                BY <3>1, PlanForProposes DEF RowOf
            <4> QED BY <3>2, <4>2, <4>4, <4>5 DEF Proposal
        <3>3. ASSUME NEW o \in p.orders, o.asset = a PROVE RowOf(b, weight, price0, a).orders = {}
            <4>1. RowOf(book, weight, price0, a).orders = {o}
                BY <1>0, <3>3 DEF HasItsRow
            <4>2. b.qty[a] = TargetQty(weight[a], price0[a], ValueOf(book, price0))
                <5>1. b.qty[a] = book.qty[a] + (IF o.side = "sell" THEN -o.qty ELSE o.qty)
                    BY <3>3 DEF ArrivedAt
                <5> QED BY <3>1, <4>1, <5>1, RowSaysTheGap
            <4> QED BY <3>1, <4>2, RowSaysTheGap
        <3> QED BY <3>2, <3>3
    <2> QED BY <2>1, <2>2 DEF IsOfRows
<1> QED BY <1>1, <1>2

\* Filled without costs at the prices it was planned at, a plan that can be paid
\* for ends at the cash it projected, and planning again proposes nothing
\* (reconcile.py, fills.py).
THEOREM PlanAlwaysSettles == RebalanceSpec => []PlanSettles
<1>1. ASSUME RebalanceInv PROVE PlanSettles
    <2> SUFFICES ASSUME PlanFilled, open = price, bps = 0, plan.projected >= 0
                 PROVE  /\ event.book.cash = plan.projected
                        /\ Reconciled(event.book, target, price).orders = {}
        BY DEF PlanSettles
    <2>1. /\ start \in Books /\ target \in [Assets -> Nat] /\ price \in [Assets -> Nat]
          /\ plan = Reconciled(start, target, price) /\ orders = plan.orders /\ plan.ok
          /\ \A o \in orders : Proposal(start, o, o.asset)
          /\ OneEach(orders)
        BY <1>1, PlannedIsOfTheBook DEF PlanFilled, OneEach
    <2>2. /\ orders \in SUBSET Orders /\ Refusals(start, orders, price, bps) = {}
          /\ event = Turns(start, orders, price, bps)[LastTurn] /\ Had(orders, LastTurn) = orders
          /\ event.book \in Books
        BY <1>1, AcceptedIsAccounted, DoneIsTheLastTurn, FilledBookIsABook DEF RebalanceInv, PlanFilled
    <2>3. IsOfRows(plan, start, target, price)
        BY <2>1, PlanIsItsRows
    <2>4. PICK flow : FlowsOf(flow, orders, price) /\ plan.projected = start.cash + SumOf(flow)
        BY <2>1, <2>3, PlannedFlows
    <2>5. SettledSoFar(start, orders, price, flow, event, LastTurn)
        BY <2>1, <2>2, <2>4, PlanFillsInFull
    <2>6. FlowsHad(orders, flow, LastTurn) = flow
        BY <2>2, <2>4 DEF FlowsHad, FlowsOf
    <2>7. event.book.cash = plan.projected
        BY <2>4, <2>5, <2>6 DEF SettledSoFar, ArrivedAt
    <2>8. Reconciled(event.book, target, price).orders = {}
        <3>1. ArrivedAt(event.book, start, plan.orders, price)
            BY <2>1, <2>2, <2>5 DEF SettledSoFar
        <3> QED BY <2>1, <2>2, <2>3, <3>1, NothingLeftToPlan
    <2> QED BY <2>7, <2>8
<1> QED BY <1>1, RebalanceInvariant, PTL
=============================================================================
