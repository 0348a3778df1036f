------------------------------ MODULE Documents ------------------------------
(***************************************************************************)
(* What stands between a strategy document and its evaluation: the checks  *)
(* of its structure (quantize/validation/structural.py), of its registered *)
(* nodes (quantize/validation/semantic.py), of the components it pins      *)
(* (quantize/components/resolve.py) and of the wiring between the two      *)
(* (quantize/evaluator/preflight.py).                                      *)
(*                                                                         *)
(* A document and a component definition are both a graph with pins: nodes *)
(* (a registered type, or "component" with the id of a pin), edges between *)
(* ports, and component_refs.  A diagnostic is its code: which node it     *)
(* names and how it is worded is left out.  Of a parameter value only      *)
(* matters whether it is "good" or "bad" to the schemas that judge it.     *)
(***************************************************************************)
EXTENDS CoreCatalog, Sequences, FiniteSets, Functions

When(condition, code) == IF condition THEN {code} ELSE {}

Registered(owner) == {node \in Range(owner.nodes) : node.type # "component"}
Instances(owner)  == Range(owner.nodes) \ Registered(owner)

Ids(owner) == {node.id : node \in Range(owner.nodes)}

NodeOf(owner, id) == CHOOSE node \in Range(owner.nodes) : node.id = id

Edges(owner) == Range(owner.edges)

\* The nodes that an edge leads to: only edges between two nodes that exist.
AdjacencyIn(owner) ==
    [id \in Ids(owner) |->
        {e.to[1] : e \in {f \in Edges(owner) : f.from[1] = id /\ f.to[1] # id}} \cap Ids(owner)]

\* What _find_cycle finds, without a search (CycleSearch, SearchIsRight).
HasCycle(adjacent) ==
    \E S \in SUBSET DOMAIN adjacent : S # {} /\ \A n \in S : adjacent[n] \cap S # {}

-----------------------------------------------------------------------------
(* The structure, of a document or of a definition.                        *)

RefIds(owner) == {ref.id : ref \in Range(owner.component_refs)}

\* _validate_graph and _duplicate_ref_id_errors, but for the cycle.
GraphErrors(owner) ==
    When(~IsInjective([i \in DOMAIN owner.nodes |-> owner.nodes[i].id]), "duplicate_node_id")
    \cup When(\E node \in Instances(owner) : node.ref \notin RefIds(owner), "unknown_component_ref")
    \cup When(\E e \in Edges(owner) : {e.from[1], e.to[1]} \ Ids(owner) # {},
              "edge_endpoint_unknown_node")
    \cup When(\E e \in Edges(owner) : e.from[1] = e.to[1], "self_edge")
    \cup When(~IsInjective([i \in DOMAIN owner.component_refs |-> owner.component_refs[i].id]),
              "duplicate_ref_id")

PinnedBy(owner) == {ref.key : ref \in Range(owner.component_refs)}

\* find_ref_key
KeyOf(owner, node) == (CHOOSE ref \in Range(owner.component_refs) : ref.id = node.ref).key

\* validate_component_definition
DefinitionIsStructural(definition) ==
    /\ GraphErrors(definition) = {} /\ ~HasCycle(AdjacencyIn(definition))
    /\ definition.key \notin PinnedBy(definition)

\* validate_component_set: pins that are not supplied are left to others.
SetErrors(definitions) ==
    When(\E k \in DOMAIN definitions : k \in PinnedBy(definitions[k]), "component_direct_recursion")
    \cup When(HasCycle([k \in DOMAIN definitions |->
                           (PinnedBy(definitions[k]) \cap DOMAIN definitions) \ {k}]),
              "component_cycle")

-----------------------------------------------------------------------------
(* Ports and wires.                                                        *)

Resolves(node) == node.type \in DOMAIN CoreBindings

Exposed(ports) ==
    [name \in {p.name : p \in Range(ports)} |->
        (CHOOSE p \in Range(ports) : p.name = name).type]

Interface(definition) ==
    NodeImplementation(Exposed(definition.exposed_inputs), Exposed(definition.exposed_outputs))

\* build_port_tables, for the nodes of a set: those that resolve nowhere are
\* absent, and what touches them is not checked.
PortTables(owner, nodes, definitions) ==
    [id \in {n.id : n \in {m \in nodes : IF m.type = "component"
                                         THEN KeyOf(owner, m) \in DOMAIN definitions
                                         ELSE Resolves(m)}} |->
        LET node == NodeOf(owner, id)
        IN  IF node.type = "component" THEN Interface(definitions[KeyOf(owner, node)])
            ELSE CoreBindings[node.type]]

\* is_compatible: the one widening apart, types connect to themselves.
IsCompatible(source, destination) ==
    source = destination \/ (source = "Integer" /\ destination = "Number")

HasOutput(tables, end) == end[1] \in DOMAIN tables /\ end[2] \in DOMAIN tables[end[1]].outputs
HasInput(tables, end)  == end[1] \in DOMAIN tables /\ end[2] \in DOMAIN tables[end[1]].inputs

EdgeErrors(edges, tables) ==
    When(\E e \in edges : e.from[1] \in DOMAIN tables /\ ~HasOutput(tables, e.from),
         "unknown_output_port")
    \cup When(\E e \in edges : e.to[1] \in DOMAIN tables /\ ~HasInput(tables, e.to),
              "unknown_input_port")
    \cup When(\E e \in edges :
                  /\ HasOutput(tables, e.from) /\ HasInput(tables, e.to)
                  /\ ~IsCompatible(tables[e.from[1]].outputs[e.from[2]],
                                   tables[e.to[1]].inputs[e.to[2]]),
              "incompatible_port_types")

Ends(owner) == [i \in DOMAIN owner.edges |-> owner.edges[i].to]

\* Mutant: an input counts as connected when its node is.
UnconnectedNode(tables, connected) ==
    When(\E id \in DOMAIN tables :
             DOMAIN tables[id].inputs # {} /\ \A end \in connected : end[1] # id,
         "required_input_unconnected")

\* Every input of a core type and every exposed input is required.
Unconnected(tables, connected) ==
    When(\E id \in DOMAIN tables : \E port \in DOMAIN tables[id].inputs :
             <<id, port>> \notin connected,
         "required_input_unconnected")

Accepted(params) == \A name \in DOMAIN params : params[name] = "good"

\* validate_strategy_semantics: the registered nodes of the document.
Semantics(document) ==
    LET tables == PortTables(document, Registered(document), <<>>)
    IN  When(\E node \in Registered(document) : ~Resolves(node), "unknown_node_type")
        \cup EdgeErrors(Edges(document), tables)
        \cup Unconnected(tables, Range(Ends(document)))
        \cup When(\E node \in Registered(document) : Resolves(node) /\ ~Accepted(node.params),
                  "invalid_parameters")

-----------------------------------------------------------------------------
(* Component resolution.                                                   *)

\* _fetch_definition_closure: what of the catalog the pins lead to, a level at
\* a time.
Fetched(document, catalog) ==
    LET level[i \in 1 .. Cardinality(DOMAIN catalog)] ==
            IF i = 1 THEN PinnedBy(document) \cap DOMAIN catalog
            ELSE UNION {{k} \cup (PinnedBy(catalog[k]) \cap DOMAIN catalog) : k \in level[i - 1]}
    IN  IF catalog = <<>> THEN <<>> ELSE Restrict(catalog, level[Cardinality(DOMAIN catalog)])

Names(ports) == [i \in DOMAIN ports |-> ports[i].name]

ExposedInputErrors(definition, tables) ==
    LET inputs == definition.exposed_inputs
        Feeds(i) == inputs[i].maps_to
    IN  When(\E i \in DOMAIN inputs : ~HasInput(tables, Feeds(i)), "exposed_port_target_missing")
        \cup When(\E i \in DOMAIN inputs : HasInput(tables, Feeds(i)) /\
                      ~IsCompatible(inputs[i].type, tables[Feeds(i)[1]].inputs[Feeds(i)[2]]),
                  "exposed_port_type_incompatible")
        \cup When(\E i \in DOMAIN inputs : HasInput(tables, Feeds(i)) /\
                      (Feeds(i) \in Range(Ends(definition))
                       \/ \E j \in 1 .. i - 1 : Feeds(j) = Feeds(i)),
                  "ambiguous_input")

ExposedOutputErrors(definition, tables) ==
    LET outputs == Range(definition.exposed_outputs)
    IN  When(\E p \in outputs : ~HasOutput(tables, p.maps_to), "exposed_port_target_missing")
        \cup When(\E p \in outputs : HasOutput(tables, p.maps_to) /\
                      ~IsCompatible(tables[p.maps_to[1]].outputs[p.maps_to[2]], p.type),
                  "exposed_port_type_incompatible")

ExposedParamErrors(definition, definitions) ==
    LET BindsNowhere(param) ==
            \/ param.binds_to[1] \notin Ids(definition)
            \/ \E node \in Instances(definition) :
                  /\ node.id = param.binds_to[1] /\ KeyOf(definition, node) \in DOMAIN definitions
                  /\ param.binds_to[2] \notin
                        Range(Names(definitions[KeyOf(definition, node)].exposed_params))
    IN  When(\E p \in Range(definition.exposed_params) : BindsNowhere(p),
             "exposed_param_target_missing")
        \cup When(\E p \in Range(definition.exposed_params) : p.schema = "invalid",
                  "exposed_param_schema_invalid")

\* _check_definition
DefinitionErrors(definition, definitions) ==
    LET tables == PortTables(definition, Range(definition.nodes), definitions)
        feeds == {p.maps_to : p \in Range(definition.exposed_inputs)}
    IN  When(\E node \in Registered(definition) : ~Resolves(node), "unknown_node_type")
        \cup When(~IsInjective(Names(definition.exposed_inputs))
                  \/ ~IsInjective(Names(definition.exposed_outputs)), "duplicate_exposed_port")
        \cup When(~IsInjective(Names(definition.exposed_params)), "duplicate_exposed_param")
        \cup ExposedInputErrors(definition, tables)
        \cup ExposedOutputErrors(definition, tables)
        \cup ExposedParamErrors(definition, definitions)
        \cup When(~IsInjective(Ends(definition)), "ambiguous_input")
        \cup EdgeErrors(Edges(definition), tables)
        \cup Unconnected(tables, Range(Ends(definition)) \cup feeds)

\* _instantiate: what a component node provides overrides the parameters that
\* the definition exposes.
Exposing(definition, name) == {p \in Range(definition.exposed_params) : p.name = name}

Refused(provided, definition, name) ==
    \E p \in Exposing(definition, name) : p.schema = "strict" /\ provided[name] = "bad"

Effective(provided, definition, node) ==
    LET overrides == {name \in DOMAIN provided : /\ Exposing(definition, name) # {}
                                                 /\ ~Refused(provided, definition, name)}
        Binding(name) == {p \in Exposing(definition, name) : p.binds_to[1] = node.id}
        bound == [param \in {p.binds_to[2] : p \in UNION {Binding(n) : n \in overrides}} |->
                     provided[CHOOSE n \in overrides :
                                 \E p \in Binding(n) : p.binds_to[2] = param]]
    IN  [p \in DOMAIN node.params \cup DOMAIN bound |->
            IF p \in DOMAIN bound THEN bound[p] ELSE node.params[p]]

InstanceErrors(provided, definition) ==
    When(\E name \in DOMAIN provided : Exposing(definition, name) = {}, "unknown_component_param")
    \cup When(\E name \in DOMAIN provided : Refused(provided, definition, name),
              "invalid_component_param")
    \cup When(\E node \in Registered(definition) : ~Accepted(Effective(provided, definition, node)),
              "invalid_parameters")

\* The components inside components, a level at a time: what is provided for each
\* and the key of its definition.
Instantiated(document, definitions) ==
    LET level[i \in 1 .. Cardinality(DOMAIN definitions)] ==
            IF i = 1 THEN {<<node.params, KeyOf(document, node)>> : node \in Instances(document)}
            ELSE UNION {LET definition == definitions[outer[2]]
                        IN  {<<Effective(outer[1], definition, node), KeyOf(definition, node)>> :
                                node \in Instances(definition)} : outer \in level[i - 1]}
    IN  UNION {level[i] : i \in DOMAIN level}

\* resolve_strategy_components, of the definitions that it has fetched: they are
\* checked against the registry once they are sound, and instantiated once they
\* pass.
Resolution(document, definitions) ==
    LET pins == PinnedBy(document) \cup UNION {PinnedBy(definitions[k]) : k \in DOMAIN definitions}
        unsound ==
            When(pins \ DOMAIN definitions # {}, "component_definition_unavailable")
            \cup SetErrors(definitions)
            \cup When(\E k \in DOMAIN definitions : ~DefinitionIsStructural(definitions[k]),
                      "component_definition_invalid")
        misfits == UNION {DefinitionErrors(definitions[k], definitions) : k \in DOMAIN definitions}
    IN  IF unsound # {} THEN unsound
        ELSE IF misfits # {} THEN misfits
        ELSE UNION {InstanceErrors(instance[1], definitions[instance[2]]) :
                       instance \in Instantiated(document, definitions)}

-----------------------------------------------------------------------------
(* The pre-flight.                                                         *)

\* toplevel_component_wiring: the edges that touch a component.  The document
\* has passed the layers before.
Wiring(document, definitions) ==
    LET tables == PortTables(document, Range(document.nodes), definitions)
        components == {node.id : node \in Instances(document)}
    IN  When(~IsInjective(Ends(document)), "ambiguous_input")
        \cup EdgeErrors({e \in Edges(document) : {e.from[1], e.to[1]} \cap components # {}}, tables)
        \cup Unconnected(Restrict(tables, components), Range(Ends(document)))

TerminalNodes(document) == {node \in Registered(document) : node.type = Terminal}

TerminalRule(document) ==
    When(TerminalNodes(document) = {}, "missing_terminal_node")
    \cup When(\E a, b \in TerminalNodes(document) : a # b, "multiple_terminal_nodes")

\* run_document_preflight.  A document without a sound structure goes no further;
\* nothing is fetched for it.
Structure(document, cyclic) == GraphErrors(document) \cup When(cyclic, "graph_cycle")

Preflight(document, definitions) ==
    LET inner == Semantics(document) \cup Resolution(document, definitions)
    IN  IF inner # {} THEN inner
        ELSE Wiring(document, definitions) \cup TerminalRule(document)
=============================================================================
