---------------------------- MODULE MCEvaluation ----------------------------
EXTENDS ValueTap, TLC

Registered_(id, type) == [id |-> id, type |-> type, params |-> <<>>]
Instance(id, ref) == [id |-> id, type |-> "component", ref |-> ref, params |-> <<>>]
Edge(a, out, b, in) == [from |-> <<a, out>>, to |-> <<b, in>>]
Port(name, type, id, port) == [name |-> name, type |-> type, maps_to |-> <<id, port>>]
Ref(key) == [id |-> key, key |-> key]

-----------------------------------------------------------------------------
(* Components that take assets and give targets.                           *)

Body(nodes, edges) == [nodes |-> nodes, edges |-> edges]

Weigh == Body(<<Registered_(1, "max_weight"), Registered_(2, "equal_weight")>>,
              <<Edge(2, "targets", 1, "targets")>>)

Component(key, refs, body, inputs, outputs) ==
    [key |-> key, component_refs |-> refs, nodes |-> body.nodes, edges |-> body.edges,
     exposed_inputs |-> inputs, exposed_outputs |-> outputs, exposed_params |-> <<>>]

In == <<Port("assets", "AssetSet", 2, "assets")>>
Out == <<Port("targets", "Targets", 1, "targets"), Port("raw", "Targets", 2, "targets")>>

\* One that works and one around it; then one with each fault.
Components == {
    [Component("wrap", <<>>, Weigh, In, Out) EXCEPT
        !.exposed_params = <<[name |-> "cap", binds_to |-> <<1, "cap">>, schema |-> "any"]>>],
    Component("nest", <<Ref("wrap")>>,
              Body(<<Instance(1, "wrap"), Registered_(2, "max_weight")>>,
                   <<Edge(1, "raw", 2, "targets")>>),
              <<Port("assets", "AssetSet", 1, "assets")>>,
              <<Port("targets", "Targets", 2, "targets"), Port("raw", "Targets", 1, "targets")>>),
    Component("unfed", <<>>, [Weigh EXCEPT !.edges = <<>>], In, Out),
    Component("unexposed", <<>>, Weigh, <<>>, Out),
    Component("leaky", <<>>, Weigh, In, <<Port("targets", "Targets", 1, "gone")>>),
    Component("mistyped", <<>>, Weigh, <<Port("assets", "Series", 2, "assets")>>, Out),
    Component("mislabelled", <<>>,
              Body(<<Registered_(1, "select_top_n"), Registered_(2, "equal_weight")>>, <<>>),
              In, <<Port("targets", "Targets", 1, "assets")>>),
    Component("twice", <<>>, Weigh, Append(In, Port("more", "Targets", 1, "targets")), Out),
    Component("itself", <<Ref("itself")>>, Weigh, In, Out),
    Component("loop", <<>>, [Weigh EXCEPT !.edges = Append(@, Edge(1, "targets", 2, "assets"))],
              In, Out),
    Component("unknown", <<>>, [Weigh EXCEPT !.nodes[1].type = "neural_net"], In, Out)}

Keys == {c.key : c \in Components}

MCStored == [k \in Keys |-> CHOOSE c \in Components : c.key = k]

MCLoads == {Keys, Keys \ {"wrap"}}

-----------------------------------------------------------------------------
(* Strategies: a universe, something that weighs it, something that limits *)
(* the weights and an end, under all subsets of some edges.                *)

Candidates == <<
    Edge(1, "assets", 2, "assets"), Edge(2, "targets", 3, "targets"),
    Edge(3, "targets", 4, "targets"),
    Edge(2, "raw", 4, "targets"),      \* an output that only some components have
    Edge(1, "assets", 3, "targets"),   \* another type
    Edge(3, "targets", 2, "assets"),   \* a cycle with the second
    Edge(1, "assets", 3, "universe")>> \* an input that only some have

Strategy(weigher, limiter, end, edges) ==
    [component_refs |-> IF weigher.type = "component" THEN <<Ref(weigher.ref)>> ELSE <<>>,
     nodes |-> <<Registered_(1, "fixed_list"), weigher, Registered_(3, limiter),
                 Registered_(4, end)>>,
     edges |-> edges]

EdgesIn(S) == SelectSeq(Candidates, LAMBDA e : e \in S)

Weighers == {Registered_(2, type) : type \in {"equal_weight", "neural_net"}}
            \cup {Instance(2, key) : key \in Keys \cup {"gone"}}

Chain == SubSeq(Candidates, 1, 3)

Plain == Strategy(Registered_(2, "equal_weight"), "max_weight", Terminal, Chain)

Wrapped == Strategy(Instance(2, "wrap"), "max_weight", Terminal, Chain)

\* Faults of the structure and of parameters.
Odd == {
    [Plain EXCEPT !.nodes[2].id = 3],
    [Plain EXCEPT !.edges = Append(@, Edge(4, "targets", 4, "targets"))],
    [Plain EXCEPT !.edges = Append(@, @[1])],
    [Plain EXCEPT !.edges = Append(@, Edge(7, "targets", 3, "targets"))],
    [Plain EXCEPT !.nodes[3].params = "cap" :> "bad"],
    [Wrapped EXCEPT !.component_refs = <<>>],
    [Wrapped EXCEPT !.component_refs = @ \o @],
    [Wrapped EXCEPT !.nodes[2].params = "cap" :> "bad"],
    [Wrapped EXCEPT !.nodes[2].params = "cap" :> "good"],
    [Wrapped EXCEPT !.nodes[2].params = "floor" :> "good"],
    [Wrapped EXCEPT !.nodes[4] = Registered_(4, "max_weight"), !.nodes[3].type = Terminal,
                    !.edges = SubSeq(Candidates, 1, 2) \o <<Edge(2, "raw", 4, "targets")>>]}

MCStrategies ==
    {Strategy(weigher, limiter, end, EdgesIn(S)) :
        weigher \in Weighers, limiter \in {"max_weight", "select_top_n"},
        end \in {Terminal, "max_weight"}, S \in SUBSET Range(Candidates)}
    \cup Odd

-----------------------------------------------------------------------------
(* Runs that are asked about.                                              *)

MCTapped == {Plain, Wrapped}

MCFingerprints == {<<1, 1>>, <<1, 2>>, <<2, 1>>}

MCChanges == {{}, {"equal_weight"}, {"max_weight"}}
=============================================================================
