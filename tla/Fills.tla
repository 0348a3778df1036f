------------------------------- MODULE Fills -------------------------------
(***************************************************************************)
(* Fill application (quantize/engine/fills.py, ADR-0005 D11 and R13): the  *)
(* refusals checked before any arithmetic, one sell, one buy, and the      *)
(* whole of apply_orders, turn by turn in canonical order.                 *)
(*                                                                         *)
(* The code's clamp of a negative rounding residue (fills.py:162-166) has  *)
(* no counterpart: integer arithmetic leaves no residue.                   *)
(***************************************************************************)
EXTENDS Portfolio

CONSTANT OversellTolerance  \* in lots; the code's 1e-9

ASSUME FillsAssumption == OversellTolerance \in Nat

CostsSupported(bps) == 0 <= bps /\ bps < CostScale

Oversold(book, orders) ==
    {o \in orders : o.side = "sell" /\ o.qty > book.qty[o.asset] + OversellTolerance}

Duplicated(orders) ==
    {o \in orders : \E other \in orders :
        other # o /\ other.side = o.side /\ other.asset = o.asset}

\* The refusals of one fill event; open[a] is the open visible at the fill.
Refusals(book, orders, open, bps) ==
    IF ~CostsSupported(bps) THEN {"invalid_transaction_costs"}
    ELSE {code \in {"missing_open_price", "invalid_order"} :
            \/ /\ code = "missing_open_price"
               /\ \E o \in orders : open[o.asset] = NoPrice
            \/ /\ code = "invalid_order"
               /\ Duplicated(orders) # {} \/ Oversold(book, orders) # {}}

-----------------------------------------------------------------------------
\* An event in progress: the book so far, and the fills so far.
\* Mutant: a lot costs its price, the transaction cost left out.
UnitCostFree(price, bps) == price * CostScale

UnitCost(price, bps) == price * (CostScale + bps)

\* Mutant: the quantity sold is the quantity ordered, tolerance included.
SoldQtyUnclamped(book, o) == o.qty

SoldQty(book, o) == IF o.qty < book.qty[o.asset] THEN o.qty ELSE book.qty[o.asset]

SellOne(event, o, open, bps) ==
    LET price == open[o.asset]
        qty   == SoldQty(event.book, o)
        cost  == qty * price * bps
        delta == Notional(qty, price) - cost
    IN  [book  |-> [cash |-> event.book.cash + delta,
                    qty  |-> [event.book.qty EXCEPT ![o.asset] = @ - qty]],
         fills |-> Append(event.fills,
                      [side |-> "sell", asset |-> o.asset, qty |-> qty, price |-> price,
                       cost |-> cost, delta |-> delta, scaled |-> FALSE])]

\* Mutant: a buy that cannot be afforded in full is dropped instead of scaled.
BoughtQtyAllOrNothing(book, o, price, bps) ==
    IF o.qty * UnitCost(price, bps) <= book.cash THEN o.qty ELSE 0

\* What the cash left pays for: all of the order, or as much as it covers.
BoughtQty(book, o, price, bps) ==
    IF o.qty * UnitCost(price, bps) <= book.cash THEN o.qty
    ELSE book.cash \div UnitCost(price, bps)

BuyOne(event, o, open, bps) ==
    LET price == open[o.asset]
        qty   == BoughtQty(event.book, o, price, bps)
        spend == qty * UnitCost(price, bps)
    IN  [book  |-> [cash |-> event.book.cash - spend,
                    qty  |-> [event.book.qty EXCEPT ![o.asset] = @ + qty]],
         fills |-> Append(event.fills,
                      [side |-> "buy", asset |-> o.asset, qty |-> qty, price |-> price,
                       cost |-> qty * price * bps, delta |-> -spend,
                       scaled |-> o.qty * UnitCost(price, bps) > event.book.cash])]

-----------------------------------------------------------------------------
\* The canonical order: every sell by asset, then every buy by asset.
TurnOf(o) == IF o.side = "sell" THEN o.asset ELSE NumAssets + o.asset

LastTurn == 2 * NumAssets

\* Turn k of the loops: the order whose turn it is, if there is one; duplicates
\* have been refused, so there is no other.
AtTurn(event, orders, open, bps, k) ==
    LET turn == {o \in orders : TurnOf(o) = k}
        o    == CHOOSE o \in turn : TRUE
    IN  IF turn = {} THEN event
        ELSE IF k <= NumAssets THEN SellOne(event, o, open, bps)
        ELSE BuyOne(event, o, open, bps)

Turns(book, orders, open, bps) ==
    LET after[k \in 0 .. LastTurn] ==
            IF k = 0 THEN [book |-> book, fills |-> <<>>]
            ELSE AtTurn(after[k - 1], orders, open, bps, k)
    IN  after

\* apply_orders: nothing but the refusals, or every turn.
Applied(book, orders, open, bps) ==
    LET event == Turns(book, orders, open, bps)[LastTurn]
    IN  IF Refusals(book, orders, open, bps) # {}
        THEN [book |-> book, fills |-> <<>>, refusals |-> Refusals(book, orders, open, bps)]
        ELSE [book |-> event.book, fills |-> event.fills, refusals |-> {}]
=============================================================================
