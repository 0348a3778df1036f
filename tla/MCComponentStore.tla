-------------------------- MODULE MCComponentStore --------------------------
EXTENDS ComponentStore

MCKeys == {"leaf", "user", "both"}

MCInterfaces == {"wide", "narrow"}

Pin(key, interface) == [key |-> key, accepts |-> {interface}]

\* A pin that no node of the graph uses.
UnusedPin(key) == [key |-> key, accepts |-> MCInterfaces]

Definition(key, interface, refs, flaw) ==
    [key |-> key, interface |-> interface, component_refs |-> refs, flaw |-> flaw]

\* A leaf with two contents, a user of either, a user of both keys (a shared
\* pin), a definition that closes a cycle, one that pins itself and two flawed.
MCDefinitions == {
    Definition("leaf", "wide", <<>>, "none"),
    Definition("leaf", "narrow", <<>>, "none"),
    Definition("leaf", "wide", <<Pin("user", "wide")>>, "none"),
    Definition("user", "wide", <<Pin("leaf", "wide")>>, "none"),
    Definition("user", "wide", <<Pin("user", "wide")>>, "none"),
    Definition("both", "wide", <<UnusedPin("leaf"), Pin("user", "wide")>>, "none"),
    Definition("both", "wide", <<>>, "structural"),
    Definition("both", "wide", <<Pin("leaf", "narrow")>>, "semantic")}

MCDocuments == {[component_refs |-> <<Pin("user", "wide"), Pin("leaf", "wide"), Pin("both", "wide")>>],
                [component_refs |-> <<Pin("leaf", "wide")>>]}
=============================================================================
