----------------------------- MODULE Portfolio -----------------------------
(***************************************************************************)
(* The value objects of the engine (quantize/engine/state.py, orders.py):  *)
(* the settled portfolio state, orders and fills, over the canonical       *)
(* (ticker-ordered) assets 1 .. NumAssets.                                 *)
(*                                                                         *)
(* The code's floats are integers here.  Quantities are whole lots, prices *)
(* are per lot, and money is counted in 1/CostScale of a price unit, so    *)
(* that a transaction cost of c in CostScale (the code's bps in 10,000) is *)
(* exact.  A quantity the code obtains by a division is rounded down to a  *)
(* whole lot; nothing else is rounded.                                     *)
(***************************************************************************)
EXTENDS Universe, Amounts, FiniteSets, SequencesExt

CONSTANT CostScale  \* the 10,000 that transaction costs are counted in

ASSUME PortfolioAssumption == CostScale \in Nat \ {0}

\* PortfolioState: finite cash >= 0 and quantities >= 0, an unheld asset being
\* one whose quantity is zero (zero entries are canonicalised away).
Books == [cash : Nat, qty : [Assets -> Nat]]

Held(book) == {a \in Assets : book.qty[a] > 0}

Orders == [side : {"sell", "buy"}, asset : Assets, qty : Nat \ {0}]

\* Fill: what one order came to, with the signed cash movement.
FillRecords == [side : {"sell", "buy"}, asset : Assets, qty : Nat, price : Nat \ {NoPrice},
                cost : Nat, delta : Int, scaled : BOOLEAN]

\* What a fill does to the position in an asset.
LotsMoved(fill, a) ==
    IF fill.asset # a THEN 0 ELSE IF fill.side = "buy" THEN fill.qty ELSE -fill.qty

\* What qty lots at a price are worth.
Notional(qty, price) == qty * price * CostScale

\* Cash and what every position is worth, in canonical order; an asset that is
\* not held has no entry, and its price is not looked at.
ValueOf(book, price) ==
    book.cash + SumOf([a \in Assets |->
                          IF book.qty[a] > 0 THEN Notional(book.qty[a], price[a]) ELSE 0])
=============================================================================
