--------------------------- MODULE ComponentStore ---------------------------
(***************************************************************************)
(* Component definitions pin other definitions.  Saving one                *)
(* (quantize/api/routes/components.py) and resolving a strategy that pins  *)
(* some (quantize/api/service.py) both walk the pinned closure through the *)
(* store, one query per pin and outside any transaction                    *)
(* (quantize/persistence/closure.py), while other requests save.  What the *)
(* walk brings home is then judged in memory                               *)
(* (quantize/components/resolve.py, quantize/validation/structural.py).    *)
(*                                                                         *)
(* What a definition is made of matters in three ways only: what it pins,  *)
(* which interface it exposes, and whether it is flawed in itself, in its  *)
(* structure or against the node registry.                                 *)
(***************************************************************************)
EXTENDS FiniteSets, Sequences, SequencesExt

CONSTANTS Clients,
          Keys,         \* the pairs (component_id, version)
          Interfaces,   \* what a component can expose
          Definitions,  \* the definitions that clients try to save
          Documents,    \* the strategies that clients try to run
          MaxRequests   \* bound: the requests made in all

\* A pin, with the interfaces that the graph around it can be wired to: all of
\* them when no node uses the pin.
Refs == Seq([key : Keys, accepts : SUBSET Interfaces])

ASSUME ComponentStoreAssumption ==
    /\ MaxRequests \in Nat
    /\ \A d \in Definitions :
          /\ d.key \in Keys /\ d.interface \in Interfaces /\ d.component_refs \in Refs
          /\ d.flaw \in {"none", "structural", "semantic"}
    /\ \A document \in Documents : document.component_refs \in Refs

VARIABLES
    stored,     \* the rows of the table components
    requests,   \* how many requests there were
    pc, request,
    queue, visited, catalog,  \* client -> the state of its closure walk
    existed,    \* client -> what _component_exists said
    answer,     \* client -> the answer to its last request
    resolved    \* history: the documents resolved, with what they resolved to

walk == <<queue, visited, catalog>>
vars == <<stored, requests, pc, request, walk, existed, answer, resolved>>

NoRequest == [component_refs |-> <<>>]

Init ==
    /\ stored = {} /\ requests = 0 /\ resolved = {}
    /\ pc = [c \in Clients |-> "idle"]
    /\ request = [c \in Clients |-> NoRequest]
    /\ queue = [c \in Clients |-> <<>>]
    /\ visited = [c \in Clients |-> {}]
    /\ catalog = [c \in Clients |-> <<>>]
    /\ existed = [c \in Clients |-> FALSE]
    /\ answer = [c \in Clients |-> "none"]

-----------------------------------------------------------------------------
(* Judging a closure, in memory.                                           *)

PinnedBy(d) == {ref.key : ref \in ToSet(d.component_refs)}

KeysOf(definitions) == {d.key : d \in definitions}

\* The definitions that a walk from `root` reaches within `definitions`: those
\* that no set escapes which holds what root pins and what its members pin.
Closure(root, definitions) ==
    LET PinnedIn(d, S) == \A e \in definitions : e.key \in PinnedBy(d) => e \in S
        IsClosed(S) == PinnedIn(root, S) /\ \A d \in S : PinnedIn(d, S)
    IN  {d \in definitions : \A S \in SUBSET definitions : IsClosed(S) => d \in S}

\* Mutant: a pin that the store does not have is passed over.
UnavailableIgnored(definitions) == {}

Unavailable(definitions) == (UNION {PinnedBy(d) : d \in definitions}) \ KeysOf(definitions)

\* Every set of definitions has one that pins none of the others, or itself.
Acyclic(definitions) ==
    \A S \in SUBSET definitions : S # {} => \E d \in S : PinnedBy(d) \cap KeysOf(S) = {}

\* _check_definition: d's graph fits the nodes it uses and what they expose.
WellWired(d, definitions) ==
    /\ d.flaw # "semantic"
    /\ \A ref \in ToSet(d.component_refs) :
          \A e \in definitions : e.key = ref.key => e.interface \in ref.accepts

\* The gates that both callers run over a closure; the last one only when the
\* others are passed.
Sound(definitions) ==
    /\ Unavailable(definitions) = {}
    /\ Acyclic(definitions)
    /\ \A d \in definitions : d.flaw # "structural"
    /\ \A d \in definitions : WellWired(d, definitions)

\* The definition under scrutiny stands for its own key, whatever is stored
\* there.
Diagnosed(definition, definitions) ==
    LET others == {d \in definitions : d.key # definition.key}
    IN  Sound({definition} \cup Closure(definition, {definition} \cup others))

Resolves(document, definitions) ==
    /\ PinnedBy(document) \subseteq KeysOf(definitions)
    /\ Sound(Closure(document, definitions))

-----------------------------------------------------------------------------
(* The steps of a request.                                                 *)

RefKeys(d) == [i \in DOMAIN d.component_refs |-> d.component_refs[i].key]

Ask(c, r) ==
    /\ pc[c] = "idle" /\ requests < MaxRequests
    /\ requests' = requests + 1
    /\ request' = [request EXCEPT ![c] = r]
    /\ queue' = [queue EXCEPT ![c] = RefKeys(r)]
    /\ visited' = [visited EXCEPT ![c] = {}]
    /\ catalog' = [catalog EXCEPT ![c] = <<>>]
    /\ answer' = [answer EXCEPT ![c] = "pending"]
    /\ pc' = [pc EXCEPT ![c] = "walk"]
    /\ UNCHANGED <<stored, existed, resolved>>

Answered(c, a) ==
    /\ pc' = [pc EXCEPT ![c] = "idle"]
    /\ answer' = [answer EXCEPT ![c] = a]

Found(key) == {d \in stored : d.key = key}

\* Mutant: a pin that is not stored is asked for until it is.
DropOnlyVisited(c) ==
    LET key == Head(queue[c])
    IN  /\ pc[c] = "walk" /\ queue[c] # <<>>
        /\ key \in visited[c] \/ Found(key) = {}
        /\ queue' = [queue EXCEPT ![c] = IF key \in visited[c] THEN Tail(@)
                                         ELSE Append(Tail(@), key)]
        /\ UNCHANGED <<stored, requests, pc, request, visited, catalog, existed, answer, resolved>>

\* A key that was met before is dropped, one that is not stored is left absent.
Drop(c) ==
    LET key == Head(queue[c])
    IN  /\ pc[c] = "walk" /\ queue[c] # <<>>
        /\ key \in visited[c] \/ Found(key) = {}
        /\ visited' = [visited EXCEPT ![c] = @ \cup {key}]
        /\ queue' = [queue EXCEPT ![c] = Tail(@)]
        /\ UNCHANGED <<stored, requests, pc, request, catalog, existed, answer, resolved>>

\* Mutant: what a fetched definition pins is not fetched.
FetchShallow(c) ==
    LET key == Head(queue[c])
    IN  /\ pc[c] = "walk" /\ queue[c] # <<>> /\ key \notin visited[c]
        /\ \E d \in Found(key) : catalog' = [catalog EXCEPT ![c] = Append(@, d)]
        /\ visited' = [visited EXCEPT ![c] = @ \cup {key}]
        /\ queue' = [queue EXCEPT ![c] = Tail(@)]
        /\ UNCHANGED <<stored, requests, pc, request, existed, answer, resolved>>

\* A new one is fetched, and what it pins is queued.
Fetch(c) ==
    LET key == Head(queue[c])
    IN  /\ pc[c] = "walk" /\ queue[c] # <<>> /\ key \notin visited[c]
        /\ \E d \in Found(key) :
              /\ catalog' = [catalog EXCEPT ![c] = Append(@, d)]
              /\ queue' = [queue EXCEPT ![c] = Tail(@) \o RefKeys(d)]
        /\ visited' = [visited EXCEPT ![c] = @ \cup {key}]
        /\ UNCHANGED <<stored, requests, pc, request, existed, answer, resolved>>

Walked(c) == pc[c] = "walk" /\ queue[c] = <<>>

\* A run resolves its document against what the walk found.
Resolve(c) ==
    LET document == request[c]
    IN  /\ Walked(c) /\ document \in Documents
        /\ \/ /\ Resolves(document, ToSet(catalog[c]))
              /\ Answered(c, "resolved")
              /\ resolved' = resolved \cup {[document |-> document, to |-> ToSet(catalog[c])]}
           \/ /\ ~Resolves(document, ToSet(catalog[c]))
              /\ Answered(c, "unresolved")
              /\ UNCHANGED resolved
        /\ UNCHANGED <<stored, requests, request, walk, existed>>

\* A save refuses a definition with a diagnostic.
Diagnose(c) ==
    /\ Walked(c) /\ request[c] \in Definitions
    /\ \/ /\ Diagnosed(request[c], ToSet(catalog[c]))
          /\ pc' = [pc EXCEPT ![c] = "exists"]
          /\ UNCHANGED answer
       \/ /\ ~Diagnosed(request[c], ToSet(catalog[c]))
          /\ Answered(c, "invalid")
    /\ UNCHANGED <<stored, requests, request, walk, existed, resolved>>

LooksWhetherItExists(c) ==
    /\ pc[c] = "exists"
    /\ existed' = [existed EXCEPT ![c] = request[c].key \in KeysOf(stored)]
    /\ pc' = [pc EXCEPT ![c] = "save"]
    /\ UNCHANGED <<stored, requests, request, walk, answer, resolved>>

Acknowledgement(c) == IF existed[c] THEN "ok" ELSE "created"

\* Mutant: whatever is stored under the key is taken to be the same.
SaveChecksTheKeyOnly(c) ==
    /\ pc[c] = "save"
    /\ \/ /\ request[c].key \in KeysOf(stored)
          /\ Answered(c, Acknowledgement(c))
       \/ /\ request[c].key \notin KeysOf(stored)
          /\ pc' = [pc EXCEPT ![c] = "insert"]
          /\ UNCHANGED answer
    /\ UNCHANGED <<stored, requests, request, walk, existed, resolved>>

\* ComponentRepository.save: an identical definition is acknowledged, another
\* one under its key is a conflict.
Save(c) ==
    /\ pc[c] = "save"
    /\ \/ /\ request[c] \in stored
          /\ Answered(c, Acknowledgement(c))
       \/ /\ request[c] \notin stored /\ request[c].key \in KeysOf(stored)
          /\ Answered(c, "conflict")
       \/ /\ request[c].key \notin KeysOf(stored)
          /\ pc' = [pc EXCEPT ![c] = "insert"]
          /\ UNCHANGED answer
    /\ UNCHANGED <<stored, requests, request, walk, existed, resolved>>

\* Mutant: the statement is INSERT OR REPLACE.
InsertOrReplace(c) ==
    /\ pc[c] = "insert"
    /\ stored' = {d \in stored : d.key # request[c].key} \cup {request[c]}
    /\ Answered(c, Acknowledgement(c))
    /\ UNCHANGED <<requests, request, walk, existed, resolved>>

\* Its transaction: the row is new, or the key was taken since, or the database
\* stayed locked.
Insert(c) ==
    /\ pc[c] = "insert"
    /\ \/ /\ request[c].key \notin KeysOf(stored)
          /\ stored' = stored \cup {request[c]}
          /\ Answered(c, Acknowledgement(c))
       \/ /\ request[c].key \in KeysOf(stored)
          /\ Answered(c, "conflict")
          /\ UNCHANGED stored
       \/ /\ Answered(c, "locked")
          /\ UNCHANGED stored
    /\ UNCHANGED <<requests, request, walk, existed, resolved>>

Step(c) ==
    \/ Drop(c)
    \/ Fetch(c)
    \/ Resolve(c)
    \/ Diagnose(c)
    \/ LooksWhetherItExists(c)
    \/ Save(c)
    \/ Insert(c)

Next ==
    \E c \in Clients :
        \/ \E r \in Definitions \cup Documents : Ask(c, r)
        \/ Step(c)

Spec == Init /\ [][Next]_vars /\ \A c \in Clients : WF_vars(Step(c))

-----------------------------------------------------------------------------
TypeOK ==
    /\ stored \subseteq Definitions
    /\ requests \in 0 .. MaxRequests
    /\ pc \in [Clients -> {"idle", "walk", "exists", "save", "insert"}]
    /\ request \in [Clients -> Definitions \cup Documents \cup {NoRequest}]
    /\ queue \in [Clients -> Seq(Keys)] /\ visited \in [Clients -> SUBSET Keys]
    /\ catalog \in [Clients -> Seq(Definitions)]
    /\ existed \in [Clients -> BOOLEAN]
    /\ answer \in [Clients -> {"none", "pending", "resolved", "unresolved", "invalid", "ok",
                               "created", "conflict", "locked"}]
    /\ \A r \in resolved : r.document \in Documents /\ r.to \subseteq Definitions

\* Whatever is saved in whatever order, every stored definition would pass the
\* diagnosis of its own save against the store as it is now: its closure is
\* stored, acyclic and wired to what its members expose
\* (routes/components.py save_component).
StoredStaySound == \A d \in stored : Diagnosed(d, stored)

\* A finished walk has fetched exactly what the request reaches in the store,
\* but for what was saved behind the walk's back, and each definition once: a
\* second copy would make the constructor of ComponentCatalog raise
\* (closure.py load_component_catalog).
CatalogIsTheClosure ==
    \A c \in Clients : Walked(c) =>
        LET missed == visited[c] \ KeysOf(ToSet(catalog[c]))
        IN  /\ IsInjective(catalog[c])
            /\ ToSet(catalog[c]) = Closure(request[c], {d \in stored : d.key \notin missed})

\* The inductive invariant of the saves: keys are unique, a walk brings home
\* what is stored, and a definition on its way into the table has passed the
\* diagnosis against what its walk brought home.
KeysAreUnique == \A d, e \in stored : d.key = e.key => d = e

WalksBringStored == \A c \in Clients : ToSet(catalog[c]) \subseteq stored

SavesAreDiagnosed ==
    \A c \in Clients : pc[c] \in {"exists", "save", "insert"} =>
        request[c] \in Definitions /\ Diagnosed(request[c], ToSet(catalog[c]))

SaveInv ==
    /\ TypeOK /\ KeysAreUnique /\ WalksBringStored /\ SavesAreDiagnosed /\ StoredStaySound

\* A document that was resolved once resolves to the same definitions for ever
\* (service.py execute_backtest_run, execute_forward_run).
ResolvedIsReproducible == \A r \in resolved : Closure(r.document, stored) = r.to

\* An acknowledged definition is the one that is stored (routes/components.py
\* save_component).
AcknowledgedIsStored ==
    \A c \in Clients : answer[c] \in {"ok", "created"} => request[c] \in stored

\* Every request is answered: the walk ends, whatever is saved meanwhile.
RequestsReturn == \A c \in Clients : pc[c] # "idle" ~> pc[c] = "idle"

=============================================================================
