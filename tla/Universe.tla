------------------------------ MODULE Universe ------------------------------
(***************************************************************************)
(* The assets of a run: 1 .. NumAssets, in canonical (ticker) order.       *)
(***************************************************************************)
EXTENDS Integers

CONSTANT NumAssets

ASSUME UniverseAssumption == NumAssets \in Nat \ {0}

Assets == 1 .. NumAssets

NoPrice == 0  \* None: no visible price
=============================================================================
