---------------------------- MODULE ApplyOrders ----------------------------
(***************************************************************************)
(* One call of apply_orders (quantize/engine/fills.py), loop by loop: the  *)
(* orders are checked against the starting book, then the sells and then   *)
(* the buys are applied, each side in canonical asset order.               *)
(***************************************************************************)
EXTENDS Fills

CONSTANTS StartCash,   \* bounds: the cash a call starts with,
          MaxLots,     \*         the lots held and ordered per asset,
          MaxOrders,   \*         the orders of a call,
          OpenPrices,  \*         the opens visible at the fill,
          Costs        \*         the transaction costs of the strategy

ASSUME ApplyOrdersAssumption ==
    /\ StartCash \subseteq Nat /\ MaxLots \in Nat /\ MaxOrders \in Nat
    /\ OpenPrices \subseteq Nat \ {NoPrice} /\ Costs \subseteq Int

VARIABLES start,   \* the book of the call
          orders, open, bps,
          todo,    \* the orders the current loop has left
          event,   \* [book, fills]: cash, positions and fills of the call
          pc

args == <<start, orders, open, bps>>
vars == <<args, todo, event, pc>>

Side(s) == {o \in orders : o.side = s}

Init ==
    /\ start \in [cash : StartCash, qty : [Assets -> 0 .. MaxLots]]
    /\ orders \in SUBSET [side : {"sell", "buy"}, asset : Assets, qty : 1 .. MaxLots]
    /\ IsFiniteSet(orders) /\ Cardinality(orders) <= MaxOrders
    /\ open \in [Assets -> OpenPrices \cup {NoPrice}]
    /\ bps \in Costs
    /\ todo = {}
    /\ event = [book |-> start, fills |-> <<>>]
    /\ pc = "validate"

Refuse ==
    /\ pc = "validate"
    /\ Refusals(start, orders, open, bps) # {}
    /\ pc' = "refused"
    /\ UNCHANGED <<args, todo, event>>

Accept ==
    /\ pc = "validate"
    /\ Refusals(start, orders, open, bps) = {}
    /\ todo' = Side("sell")
    /\ pc' = "sells"
    /\ UNCHANGED <<args, event>>

\* The next order of a loop: the first of those left, by asset.
First(left) == {o \in left : \A other \in left : o.asset <= other.asset}

SellNext ==
    /\ pc = "sells"
    /\ \E o \in First(todo) :
          /\ event' = SellOne(event, o, open, bps)
          /\ todo' = todo \ {o}
    /\ UNCHANGED <<args, pc>>

SellsDone ==
    /\ pc = "sells"
    /\ todo = {}
    /\ todo' = Side("buy")
    /\ pc' = "buys"
    /\ UNCHANGED <<args, event>>

\* Mutants: a buy of nothing leaves no fill; the buys are taken last asset first.
BuyNextSkipsZero ==
    /\ pc = "buys"
    /\ \E o \in First(todo) :
          /\ event' = IF BoughtQty(event.book, o, open[o.asset], bps) = 0 THEN event
                      ELSE BuyOne(event, o, open, bps)
          /\ todo' = todo \ {o}
    /\ UNCHANGED <<args, pc>>

BuyNextReversed ==
    /\ pc = "buys"
    /\ \E o \in {o \in todo : \A other \in todo : o.asset >= other.asset} :
          /\ event' = BuyOne(event, o, open, bps)
          /\ todo' = todo \ {o}
    /\ UNCHANGED <<args, pc>>

BuyNext ==
    /\ pc = "buys"
    /\ \E o \in First(todo) :
          /\ event' = BuyOne(event, o, open, bps)
          /\ todo' = todo \ {o}
    /\ UNCHANGED <<args, pc>>

BuysDone ==
    /\ pc = "buys"
    /\ todo = {}
    /\ pc' = "done"
    /\ UNCHANGED <<args, todo, event>>

Next == Refuse \/ Accept \/ SellNext \/ SellsDone \/ BuyNext \/ BuysDone

Spec == Init /\ [][Next]_vars

-----------------------------------------------------------------------------
TypeOK ==
    /\ start \in Books
    /\ orders \subseteq Orders
    /\ open \in [Assets -> Nat]
    /\ bps \in Int
    /\ todo \subseteq orders
    /\ event \in [book : [cash : Int, qty : [Assets -> Int]], fills : Seq(FillRecords)]
    /\ pc \in {"validate", "sells", "buys", "refused", "done"}

\* R13, and the long-only rule: at no point of the call is the settled cash or
\* a position negative, so that PortfolioState accepts what the call returns.
NeverOverdrawn ==
    event.book.cash >= 0 /\ \A a \in Assets : event.book.qty[a] >= 0

\* A fill event is atomic: it changes nothing, or every order has its one fill,
\* a buy scaled to zero included.
AllOrNothing ==
    /\ pc = "refused" => event = [book |-> start, fills |-> <<>>]
    /\ pc = "done" =>
          /\ Len(event.fills) = Cardinality(orders)
          /\ \A o \in orders : \E i \in DOMAIN event.fills :
                event.fills[i].side = o.side /\ event.fills[i].asset = o.asset

\* Later buys bear the shortfall: a buy gets as many of its lots as are paid for
\* by the starting cash, all the sells and what the buys before it left.
LaterBuysBearShortfall ==
    pc = "done" =>
        \A o \in Side("buy") :
            LET before(f) == f.side = "sell" \/ f.asset < o.asset
                left == start.cash
                            + SumOf([i \in DOMAIN event.fills |->
                                        IF before(event.fills[i]) THEN event.fills[i].delta ELSE 0])
                lots == left \div UnitCost(open[o.asset], bps)
            IN  \E i \in DOMAIN event.fills :
                    /\ event.fills[i].side = "buy" /\ event.fills[i].asset = o.asset
                    /\ event.fills[i].qty = Min({o.qty, lots})
                    /\ event.fills[i].scaled <=> lots < o.qty

\* The loops compute what the engine takes apply_orders to compute.
LoopsAreTheFold ==
    /\ pc = "done" => Applied(start, orders, open, bps)
                         = [book |-> event.book, fills |-> event.fills, refusals |-> {}]
    /\ pc = "refused" => Applied(start, orders, open, bps).refusals # {}

-----------------------------------------------------------------------------
\* The orders that have had their turn.
Filled ==
    CASE pc \in {"validate", "refused"} -> {}
      [] pc = "sells" -> Side("sell") \ todo
      [] pc = "buys"  -> Side("sell") \cup (Side("buy") \ todo)
      [] pc = "done"  -> orders

LoopsInOrder ==
    /\ pc = "sells" => todo \subseteq Side("sell")
    /\ pc = "buys" => todo \subseteq Side("buy")
    /\ pc \in {"validate", "refused"} => event = [book |-> start, fills |-> <<>>]
    /\ pc \in {"validate", "refused", "done"} => todo = {}
    /\ pc = "refused" => Refusals(start, orders, open, bps) # {}

\* An accepted call is where the function of the turns is after one of them.
AtATurn ==
    pc \in {"sells", "buys", "done"} =>
        /\ Refusals(start, orders, open, bps) = {}
        /\ \E k \in 0 .. LastTurn :
              /\ Filled = {o \in orders : TurnOf(o) <= k}
              /\ event = Turns(start, orders, open, bps)[k]

IInv == TypeOK /\ LoopsInOrder /\ AtATurn
=============================================================================
