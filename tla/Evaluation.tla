----------------------------- MODULE Evaluation -----------------------------
(***************************************************************************)
(* evaluate_strategy of quantize/evaluator/evaluate.py: a document is      *)
(* searched for a cycle, checked, put in order and executed node by node.  *)
(* A component node is executed by executing its graph in a frame of its   *)
(* own.  A step is a turn of the search or of the planner, the whole       *)
(* pre-flight, or one node; it ends with targets or with diagnostics.      *)
(*                                                                         *)
(* The planner is also called alone, on any graph (GraphOnly): the tests   *)
(* of the repository do, and its order is what a frame relies on.          *)
(***************************************************************************)
EXTENDS Planning, Documents

CONSTANTS Strategies,  \* the documents
          Stored,      \* component key -> the definition stored
          Loads        \* the sets of keys whose definitions an evaluation may get

GraphOnly == [nodes |-> <<>>]

\* A document without two nodes of one id has the ids of Nodes.  Definitions have
\* finitely many nodes, their ids are ordered too, and there are finitely many.
ASSUME EvaluationAssumption ==
    /\ \A d \in Strategies :
          /\ Ids(d) \subseteq Nodes
          /\ IsInjective([i \in DOMAIN d.nodes |-> d.nodes[i].id]) => Ids(d) = Nodes
    /\ \A k \in DOMAIN Stored : Ids(Stored[k]) \subseteq Nat /\ IsFiniteSet(Ids(Stored[k]))
    /\ IsFiniteSet(DOMAIN Stored)
    /\ DOMAIN Stored \in Loads /\ Loads \subseteq SUBSET DOMAIN Stored

VARIABLES
    document,
    conditions,   \* what an evaluation runs under: the components that are loaded, the data
                  \* and the session, whether a session has closed by then, and the node
                  \* types whose code has changed since the run
    phase,        \* "checking", "resolving", "ordering", "executing", "done"
    definitions,  \* the component definitions that the evaluation has fetched
    stack,        \* the graphs under execution, the innermost last
    store,        \* <<node path, port>> -> value
    events,       \* node path -> what the node's trace events show
    diagnostics,
    targets,      \* what the terminal received
    behaviour     \* node path -> how its implementation behaved when it was first run

evaluationVars ==
    <<document, conditions, phase, definitions, stack, store, events, diagnostics, targets,
      behaviour>>
evalVars == <<searchVars, planVars, evaluationVars>>

None == [type |-> "none"]  \* no value

\* A dict that is updated with another.
With(old, new) ==
    [key \in DOMAIN old \cup DOMAIN new |-> IF key \in DOMAIN new THEN new[key] ELSE old[key]]

\* The order of OrderIsCanonical, for a graph that has no cycle.
CanonicalOrder(adjacent) ==
    LET ids == DOMAIN adjacent
        AvailableAfter(done) ==
            {n \in ids \ done : \A m \in ids \ done : n \notin adjacent[m]}
        prefix[i \in 0 .. Cardinality(ids)] ==
            IF i = 0 THEN <<>>
            ELSE LET first == prefix[i - 1]
                 IN  Append(first, Smallest(AvailableAfter(Range(first))))
    IN  prefix[Cardinality(ids)]

EvalInit ==
    /\ \/ document = GraphOnly
       \/ /\ document \in Strategies
          /\ adjacency = [n \in Nodes |-> IF n \in Ids(document) THEN AdjacencyIn(document)[n]
                                          ELSE {}]
    /\ SearchInit /\ PlanInit
    /\ conditions \in [catalog : {DOMAIN Stored}, data : {<<1, 1>>}, session : {1},
                       visible : BOOLEAN, changed : {{}}]
    /\ phase = "checking" /\ definitions = <<>> /\ stack = <<>> /\ store = <<>> /\ events = <<>>
    /\ diagnostics = {} /\ targets = None /\ behaviour = <<>>

-----------------------------------------------------------------------------
(* Before execution.                                                       *)

Search == phase = "checking" /\ SearchNext /\ UNCHANGED <<planVars, evaluationVars>>

Searched == phase = "checking" /\ result.state # "searching"

Fail(codes) ==
    /\ phase' = "done" /\ diagnostics' = codes
    /\ UNCHANGED <<searchVars, planVars, document, conditions, definitions, stack, store, targets>>

NoSession == When(~conditions.visible, "no_visible_session")

Faulty == Structure(document, result.state = "cyclic")

Reject ==
    /\ Searched /\ document # GraphOnly /\ Faulty # {}
    /\ Fail(Faulty \cup NoSession)
    /\ UNCHANGED <<events, behaviour>>

Fetch ==
    /\ Searched /\ document # GraphOnly /\ Faulty = {}
    /\ definitions' = Fetched(document, Restrict(Stored, conditions.catalog))
    /\ phase' = "resolving"
    /\ UNCHANGED <<searchVars, planVars, document, conditions, stack, store, events, diagnostics,
                   targets, behaviour>>

\* The document's faults and the lack of data are reported together.
Check ==
    /\ phase = "resolving"
    /\ \E faults \in {Preflight(document, definitions) \cup NoSession} :
          \/ faults # {} /\ Fail(faults)
          \/ /\ faults = {}
             /\ phase' = "ordering"
             /\ UNCHANGED <<searchVars, planVars, document, conditions, definitions, stack, store,
                            diagnostics, targets>>
    /\ UNCHANGED <<events, behaviour>>

\* The order of a document, or of a graph for whoever asks.
Order ==
    /\ phase = "ordering" \/ document = GraphOnly
    /\ Prepare \/ Place \/ Ordered
    /\ UNCHANGED evaluationVars

Frame(owner, at, nodes, externals) ==
    [owner |-> owner, path |-> at, todo |-> nodes, externals |-> externals]

Start ==
    /\ phase = "ordering" /\ plan = "ordered"
    /\ stack' = <<Frame(document, <<>>, order, <<>>)>>
    /\ phase' = "executing"
    /\ UNCHANGED <<searchVars, planVars, document, conditions, definitions, store, events,
                   diagnostics, targets, behaviour>>

-----------------------------------------------------------------------------
(* Execution, of the node that comes first in the innermost graph.         *)

Innermost == stack[Len(stack)]

Executing == phase = "executing" /\ Innermost.todo # <<>>

Running == NodeOf(Innermost.owner, Head(Innermost.todo))

PathOf(id) == Append(Innermost.path, id)

Found(address, port) ==
    IF <<address, port>> \in DOMAIN store THEN store[<<address, port>>] ELSE None

\* _input_value: from the edge that leads there, or from outside the component.
InputValue(port) ==
    LET end == <<Running.id, port>>
        leading == {e \in Edges(Innermost.owner) : e.to = end}
    IN  IF leading # {} THEN LET e == CHOOSE e \in leading : TRUE
                             IN  Found(PathOf(e.from[1]), e.from[2])
        ELSE IF end \in DOMAIN Innermost.externals THEN Innermost.externals[end]
        ELSE None

Advanced == [stack EXCEPT ![Len(stack)].todo = Tail(@)]

Inputs == {InputValue(port) : port \in DOMAIN CoreBindings[Running.type].inputs}

\* Whether what the node gives may be another value than the run's: its code, or
\* something it is made from, has changed since.
Other == Running.type \in conditions.changed \/ \E v \in Inputs : v.other

\* What an implementation does: it answers, with trace events or (max_weight,
\* where nothing is capped) without; it raises; it answers with other ports or
\* another type than declared.
Behaviours(type) ==
    {"answers", "raises", "other_ports"}
    \cup (IF type = "max_weight" THEN {"answers_untraced"} ELSE {})
    \cup (IF DOMAIN CoreBindings[type].outputs # {} THEN {"other_type"} ELSE {})

\* An implementation is a function of what it is given: at one path it behaves
\* as it did before, unless its code or its inputs have changed.
Behaves(address) ==
    IF address \in DOMAIN behaviour /\ ~Other THEN {behaviour[address]}
    ELSE Behaviours(Running.type)

\* A node may lack what it needs to be run at all.
Outcomes(address) ==
    IF ~Resolves(Running) THEN {"unavailable"}
    ELSE IF None \in Inputs THEN {"unfed"}
    ELSE Behaves(address)

Misbehaviour ==
    [raises |-> "node_execution_failed", other_ports |-> "wrong_output_ports",
     other_type |-> "wrong_output_type"]

Failure ==
    With(Misbehaviour,
         [unavailable |-> "implementation_unavailable", unfed |-> "missing_runtime_input"])

\* _run_registered.  The events show the run's number or, of a value that may be
\* another, perhaps another; those of a node that fails are of no use to anyone.
RunRegistered ==
    /\ Executing /\ Running.type # "component"
    /\ LET address == PathOf(Running.id)
           outputs == CoreBindings[Running.type].outputs
       IN  \E how \in Outcomes(address) :
              /\ behaviour' = With([a \in {address} |-> how], behaviour)
              /\ events' \in
                    IF how = "answers"
                    THEN {With(events, [a \in {address} |-> [other |-> shows]]) :
                             shows \in {FALSE, Other}}
                    ELSE {events}
              /\ \/ /\ how \notin DOMAIN Failure
                    /\ store' = With(store, [key \in {address} \X DOMAIN outputs |->
                                                [type |-> outputs[key[2]],
                                                 data |-> conditions.data,
                                                 session |-> conditions.session,
                                                 other |-> Other]])
                    /\ stack' = Advanced
                    /\ UNCHANGED <<searchVars, planVars, document, conditions, definitions, phase,
                                   diagnostics, targets>>
                 \/ how \in DOMAIN Failure /\ Fail({Failure[how]})

\* _run_component: a frame for the definition's graph, fed with the values of
\* the exposed inputs.  Its order is the planner's (Planning, OrderIsCanonical).
Enter ==
    /\ Executing /\ Running.type = "component"
    /\ LET definition == definitions[KeyOf(Innermost.owner, Running)]
           inputs == Range(definition.exposed_inputs)
           externals == [end \in {p.maps_to : p \in inputs} |->
                            InputValue((CHOOSE p \in inputs : p.maps_to = end).name)]
       IN  IF None \in Range(externals) THEN Fail({"missing_runtime_input"})
           ELSE /\ stack' = Append(stack, Frame(definition, PathOf(Running.id),
                                               CanonicalOrder(AdjacencyIn(definition)), externals))
                /\ UNCHANGED <<searchVars, planVars, document, conditions, definitions, phase,
                               store, diagnostics, targets>>
    /\ UNCHANGED <<events, behaviour>>

\* The exposed outputs become the outputs of the component node.
Leave ==
    /\ phase = "executing" /\ Len(stack) > 1 /\ Innermost.todo = <<>>
    /\ LET address == Innermost.path
           outputs == Range(Innermost.owner.exposed_outputs)
           exposed == [key \in {<<address, p.name>> : p \in outputs} |->
                          LET end == (CHOOSE p \in outputs : p.name = key[2]).maps_to
                          IN  Found(PathOf(end[1]), end[2])]
           caller == Len(stack) - 1
       IN  IF None \in Range(exposed) THEN Fail({"missing_runtime_input"})
           ELSE /\ store' = With(store, exposed)
                /\ stack' = [SubSeq(stack, 1, caller) EXCEPT ![caller].todo = Tail(@)]
                /\ UNCHANGED <<searchVars, planVars, document, conditions, definitions, phase,
                               diagnostics, targets>>
    /\ UNCHANGED <<events, behaviour>>

\* The value delivered to the single input of the terminal.
Terminate ==
    /\ phase = "executing" /\ Len(stack) = 1 /\ Innermost.todo = <<>>
    /\ LET terminal == (CHOOSE node \in TerminalNodes(document) : TRUE).id
           leading == {e \in Edges(document) : e.to = <<terminal, "targets">>}
           delivered == {Found(<<e.from[1]>>, e.from[2]) : e \in leading}
       IN  IF \E v \in delivered : v.type = "Targets"
           THEN /\ targets' \in delivered
                /\ phase' = "done"
                /\ UNCHANGED <<searchVars, planVars, document, conditions, definitions, stack,
                               store, diagnostics>>
           ELSE Fail({"invalid_terminal_node"})
    /\ UNCHANGED <<events, behaviour>>

EvalNext ==
    Search \/ Reject \/ Fetch \/ Check \/ Order \/ Start
    \/ RunRegistered \/ Enter \/ Leave \/ Terminate

EvalSpec == EvalInit /\ [][EvalNext]_evalVars /\ WF_evalVars(EvalNext)

-----------------------------------------------------------------------------
\* What the static checks let through cannot fail for a reason they are there
\* to find: once execution has begun, only an implementation that misbehaves
\* stops it.  No input is ever missing, through however many components it is
\* wired, and the terminal receives targets (preflight.py, resolve.py,
\* evaluate.py _Executor).
CleanNeverMisses ==
    phase = "done" /\ stack # <<>> => diagnostics \subseteq Range(Misbehaviour)

\* Every evaluation ends, and so does every call of the planner alone.
EvaluationEnds == <>(phase = "done" \/ plan \in {"ordered", "refused"})
=============================================================================
