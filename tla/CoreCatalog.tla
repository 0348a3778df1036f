----------------------------- MODULE CoreCatalog -----------------------------
(***************************************************************************)
(* The bindings of the core node types (quantize/nodes, runtime/binding):  *)
(* input and output ports with the type of value each carries, and the     *)
(* warm-up a node declares.  All core input ports are required.            *)
(***************************************************************************)
EXTENDS Integers

NoPorts == <<>>

NodeImplementation(inputs, outputs) == [inputs |-> inputs, outputs |-> outputs]

FIXED_LIST == NodeImplementation(NoPorts, [assets |-> "AssetSet"])
PRICE == NodeImplementation([assets |-> "AssetSet"], [series |-> "Series"])

TRAILING_RETURN == NodeImplementation([series |-> "Series"], [values |-> "Numbers"])
MOVING_AVERAGE == NodeImplementation([series |-> "Series"], [series |-> "Series"])
LATEST == NodeImplementation([series |-> "Series"], [values |-> "Numbers"])
RANK == NodeImplementation([values |-> "Numbers"], [values |-> "Numbers"])
GREATER_THAN ==
    NodeImplementation([left |-> "Numbers", right |-> "Numbers"], [values |-> "Booleans"])

SELECT_TOP_N ==
    NodeImplementation([scores |-> "Numbers", universe |-> "AssetSet"], [assets |-> "AssetSet"])
EQUAL_WEIGHT == NodeImplementation([assets |-> "AssetSet"], [targets |-> "Targets"])
FIXED_WEIGHT == NodeImplementation([assets |-> "AssetSet"], [targets |-> "Targets"])
APPLY_MASK ==
    NodeImplementation([targets |-> "Targets", mask |-> "Booleans"], [targets |-> "Targets"])
MAX_WEIGHT == NodeImplementation([targets |-> "Targets"], [targets |-> "Targets"])
TARGET_PORTFOLIO == NodeImplementation([targets |-> "Targets"], NoPorts)

\* build_core_catalog: a type resolves here or nowhere.
CoreBindings ==
    [fixed_list      |-> FIXED_LIST,      price          |-> PRICE,
     trailing_return |-> TRAILING_RETURN, moving_average |-> MOVING_AVERAGE,
     latest          |-> LATEST,          rank           |-> RANK,
     greater_than    |-> GREATER_THAN,    select_top_n   |-> SELECT_TOP_N,
     equal_weight    |-> EQUAL_WEIGHT,    fixed_weight   |-> FIXED_WEIGHT,
     apply_mask      |-> APPLY_MASK,      max_weight     |-> MAX_WEIGHT,
     target_portfolio |-> TARGET_PORTFOLIO]

Terminal == "target_portfolio"

\* The warm-up lambdas: sessions needed strictly before the one evaluated.
Warmup(type, sessions) ==
    CASE type = "trailing_return" -> sessions
      [] type = "moving_average"  -> sessions - 1
      [] OTHER                    -> 0
=============================================================================
