--------------------------- MODULE MCMarketCursor ---------------------------
(***************************************************************************)
(* Two assets whose closes cross, and a graph with a short and a long      *)
(* moving average.                                                         *)
(***************************************************************************)
EXTENDS EvaluationMemo

MCCloseOf == [a \in Assets |-> [d \in Days |-> IF a = 1 THEN d + 1 ELSE 5 - d]]

MCWindow == [smooth |-> 1, trend |-> 2]
Chained  == [smooth |-> 2, trend |-> 2]

MCCap == <<2, 5>>

MCConviction == [whole |-> 4, part |-> [a \in Assets |-> IF a = 1 THEN 3 ELSE 1]]
=============================================================================
