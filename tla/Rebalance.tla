----------------------------- MODULE Rebalance -----------------------------
(***************************************************************************)
(* Planning and filling in turn: reconcile proposes orders from one set of *)
(* prices and apply_orders executes them, loop by loop, at another, as     *)
(* SessionEngine does overnight.  The calendar is left out here (module    *)
(* SessionEngine has it): any targets, planning prices and opens may come  *)
(* up at each turn.  Calls of apply_orders with any other order list are   *)
(* explored beside them: the function is public.                           *)
(***************************************************************************)
EXTENDS Reconcile, ApplyOrders

CONSTANT Rounds  \* bound: plans made

ASSUME RebalanceAssumption == Rounds \in Nat

VARIABLES target,  \* the target weights of the last plan
          price,   \* the closes it was made at
          plan,    \* the outcome of the last reconcile
          round

planning == <<target, price, plan, round>>
allVars  == <<vars, planning>>

Prices == [Assets -> OpenPrices \cup {NoPrice}]

NoPlan == [ok |-> FALSE, orders |-> {}, missing |-> {}]

\* A call with orders of the caller's own, or a strategy at rest whose costs
\* the preflight of the engine let through.
RebalanceInit ==
    /\ target = [a \in Assets |-> 0]
    /\ price = [a \in Assets |-> NoPrice]
    /\ plan = NoPlan
    /\ \/ Init /\ round = Rounds
       \/ /\ start \in [cash : StartCash, qty : [Assets -> 0 .. MaxLots]]
          /\ bps \in Costs /\ CostsSupported(bps)
          /\ orders = {} /\ open = price /\ todo = {}
          /\ event = [book |-> start, fills |-> <<>>]
          /\ pc = "done" /\ round = 0

\* A plan that cannot be made, and a fill that is refused, end the run.
Plan ==
    /\ pc = "done" /\ round < Rounds /\ (round > 0 => plan.ok)
    /\ target' \in Targets /\ price' \in Prices
    /\ plan' = Reconciled(event.book, target', price')
    /\ round' = round + 1
    /\ IF plan'.ok
       THEN /\ start' = event.book /\ orders' = plan'.orders /\ open' \in Prices
            /\ event' = [book |-> event.book, fills |-> <<>>]
            /\ pc' = "validate" /\ UNCHANGED <<bps, todo>>
       ELSE UNCHANGED vars

RebalanceNext == Plan \/ (Next /\ UNCHANGED planning)

RebalanceSpec == RebalanceInit /\ [][RebalanceNext]_allVars

-----------------------------------------------------------------------------
\* The orders of the call are those of a plan, and it has been filled.
Planned == round > 0 /\ plan.ok /\ orders = plan.orders
PlanFilled == Planned /\ pc = "done"

\* The two components agree on what an order may be: reconciliation never
\* proposes what apply_orders refuses as invalid, so a missing open is the only
\* thing that can stop a fill (fills.py validation, reconcile.py orders).
PlansAreFillable ==
    Planned /\ pc = "refused" => Refusals(start, orders, open, bps) = {"missing_open_price"}

\* An asset the targets do not name is gone after the fill, however little of
\* it was held: the dust rule does not keep a residue of a closed position
\* (reconcile.py R6).
ExitsAreComplete ==
    PlanFilled => \A a \in Assets : target[a] = 0 => event.book.qty[a] = 0

\* Filled without costs at the prices it was planned at, a plan whose projected
\* cash is not negative does what it said: the cash is the projected cash, and
\* planning the same targets again proposes nothing.
PlanSettles ==
    PlanFilled /\ open = price /\ bps = 0 /\ plan.projected >= 0 =>
        /\ event.book.cash = plan.projected
        /\ Reconciled(event.book, target, price).orders = {}

\* At every moment of a fill event, value has moved between cash and positions
\* and only the costs of the fills so far are lost (fills.py).
CostsAreTheOnlyLoss ==
    pc \in {"sells", "buys", "done"} /\ (\A a \in Assets : open[a] # NoPrice) =>
        ValueOf(event.book, open)
            + SumOf([i \in DOMAIN event.fills |-> event.fills[i].cost])
            = ValueOf(start, open)

-----------------------------------------------------------------------------
\* The orders of a plan that succeeded are being filled, from the book that it
\* was made of, at costs that the preflight let through.
PlanIsCurrent ==
    /\ target \in [Assets -> Nat] /\ price \in [Assets -> Nat]
    /\ plan.ok => plan = Reconciled(start, target, price) /\ orders = plan.orders
    /\ CostsSupported(bps) \/ (~plan.ok /\ round = Rounds)

RebalanceInv == IInv /\ PlanIsCurrent
=============================================================================
