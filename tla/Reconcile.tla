----------------------------- MODULE Reconcile -----------------------------
(***************************************************************************)
(* Order reconciliation (quantize/engine/reconcile.py, ADR-0005): a pure   *)
(* planning function from a settled book, target weights and planning      *)
(* prices to the proposed orders.                                          *)
(*                                                                         *)
(* A weight of w stands for w / WeightScale, and the dust ratio for        *)
(* 1 / DustScale (the code's 1e-9).  DustBase is the 1.0 below which the   *)
(* dust threshold no longer shrinks.                                       *)
(***************************************************************************)
EXTENDS Portfolio

CONSTANTS WeightScale, DustScale, DustBase

ASSUME ReconcileAssumption == /\ WeightScale \in Nat \ {0}
                              /\ DustScale \in Nat \ {0}
                              /\ DustBase \in Nat \ {0}

\* PortfolioTargets: weights >= 0 that sum to at most one.
Targets == {w \in [Assets -> 0 .. WeightScale] : SumOf(w) <= WeightScale}

\* D5 and D7: held or targeted; a zero weight is the same as absence.
PlannedAssets(book, weight) == Held(book) \cup {a \in Assets : weight[a] > 0}

\* D8: the assets that make the plan fail as a whole.
Unpriced(book, weight, price) ==
    {a \in PlannedAssets(book, weight) : price[a] = NoPrice}

Magnitude(n) == IF n < 0 THEN -n ELSE n

TargetQty(weight, price, value) ==
    IF weight = 0 THEN 0
    ELSE (weight * value) \div (WeightScale * price * CostScale)

\* D9: the dust rule.
AboveDust(qty, price, value) ==
    Notional(qty, price) * DustScale > Max({value, DustBase})

\* Mutant: a residue of a closed position can be dust like any other.
EmitsDustyExits(current, weight, delta, price, value) ==
    AboveDust(Magnitude(delta), price, value)

\* R6: a full liquidation is exempt from the dust rule.
Emits(current, weight, delta, price, value) ==
    \/ weight = 0 /\ current > 0
    \/ AboveDust(Magnitude(delta), price, value)

\* Mutant: a sell closes the position whatever the target.
OrderForWholePosition(a, current, delta) ==
    IF delta > 0 THEN [side |-> "buy", asset |-> a, qty |-> delta]
    ELSE [side |-> "sell", asset |-> a, qty |-> current]

\* Mutant: the sides are swapped.
OrderForSwapped(a, current, delta) ==
    IF delta < 0 THEN [side |-> "buy", asset |-> a, qty |-> -delta]
    ELSE [side |-> "sell", asset |-> a, qty |-> delta]

OrderFor(a, current, delta) ==
    IF delta > 0 THEN [side |-> "buy", asset |-> a, qty |-> delta]
    ELSE [side |-> "sell", asset |-> a,
          qty |-> IF -delta < current THEN -delta ELSE current]

\* What an order is planned to bring in.
FlowOf(o, price) == IF o.side = "sell" THEN Notional(o.qty, price) ELSE -Notional(o.qty, price)

\* The row of the explanation table for one asset, and its order if it has one.
PlanFor(book, weight, price, value, a) ==
    LET current == book.qty[a]
        delta   == TargetQty(weight[a], price[a], value) - current
        emit    == delta # 0 /\ Emits(current, weight[a], delta, price[a], value)
        order   == OrderFor(a, current, delta)
    IN  [action |-> IF emit THEN IF delta > 0 THEN "buy" ELSE "sell"
                    ELSE IF delta # 0 THEN "dust" ELSE "hold",
         orders |-> IF emit THEN {order} ELSE {},
         flow   |-> IF emit THEN FlowOf(order, price[a]) ELSE 0]

\* The outcome: every order at once, or none when an asset has no price.
Reconciled(book, weight, price) ==
    LET assets == PlannedAssets(book, weight)
        value  == ValueOf(book, price)
        plans  == [a \in assets |-> PlanFor(book, weight, price, value, a)]
    IN  IF Unpriced(book, weight, price) # {}
        THEN [ok |-> FALSE, orders |-> {}, missing |-> Unpriced(book, weight, price)]
        ELSE [ok |-> TRUE, orders |-> UNION {plans[a].orders : a \in assets}, value |-> value,
              omitted |-> {a \in assets : plans[a].action \in {"dust", "hold"}},
              projected |-> book.cash + SumOf([a \in Assets |->
                                IF a \in assets THEN plans[a].flow ELSE 0])]
=============================================================================
