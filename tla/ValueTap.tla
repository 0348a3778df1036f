------------------------------ MODULE ValueTap ------------------------------
(***************************************************************************)
(* resolve_node_value of quantize/valuetap/service.py: what did a port of  *)
(* a node give, in a run that is stored?  The run's document is evaluated  *)
(* again, over the data that has the run's fingerprints, and one value is  *)
(* taken out.  Between the run and the question, data may have gone, node  *)
(* code may have changed and definitions may be missing.                   *)
(***************************************************************************)
EXTENDS Evaluation

CONSTANTS Tapped,       \* the strategies whose runs are asked about
          Fingerprints, \* the <<dataset, calendar>> that may be stored
          Changes       \* the sets of node types whose code may have changed

ASSUME ValueTapAssumption ==
    /\ Tapped \subseteq Strategies /\ Fingerprints \subseteq Nat \X Nat
    /\ Changes \subseteq SUBSET DOMAIN CoreBindings

VARIABLES
    run,    \* what is stored of the evaluation
    query,  \* the address of a node, and a port or AnyPort
    reply   \* a code, "served" with a value

tapVars == <<run, query, reply>>

Unset == [state |-> "unset"]

AnyPort == "any"

TapInit == EvalInit /\ run = Unset /\ query = Unset /\ reply = Unset

-----------------------------------------------------------------------------
\* An evaluation that succeeds is stored with its store's trace, if the run
\* collects one, and the fingerprints, unless the row is older than they are.
\* Its store is not: it is kept here for the property.
Record ==
    /\ phase = "done" /\ diagnostics = {} /\ document \in Tapped /\ run = Unset
    /\ \E traced, known \in BOOLEAN :
          run' = [state |-> "stored", data |-> conditions.data, session |-> conditions.session,
                  known |-> known, events |-> IF traced THEN events ELSE <<>>, store |-> store]
    /\ UNCHANGED <<evalVars, query, reply>>

\* _verify_address, name by name in the graph that the names before lead to, if
\* it is loaded: absent for certain.
Absent(owner, address, catalog) ==
    LET within[i \in 1 .. Len(address)] ==
            IF i = 1 THEN {owner}
            ELSE UNION {{catalog[KeyOf(graph, node)] :
                            node \in {n \in Instances(graph) :
                                         n.id = address[i - 1] /\ KeyOf(graph, n) \in DOMAIN catalog}} :
                        graph \in within[i - 1]}
    IN  \E i \in 1 .. Len(address) : \E graph \in within[i] :
            \/ address[i] \notin Ids(graph)
            \/ i < Len(address) /\ NodeOf(graph, address[i]).type # "component"

\* _resolve_dataset: both fingerprints must agree.
Matching(shelf) == {data \in shelf : data = run.data}

\* The refusals that need no evaluation, in the order in which they are tried.
RefusalCodes ==
    <<"unknown_provenance", "no_evaluation_at_session", "value_address_not_found",
      "dataset_mismatch", "calendar_mismatch">>

\* The places in that order of those that apply: the first one is raised.
Objections(asked, session, shelf, catalog) ==
    When(~run.known, 1)
    \cup When(session # run.session, 2)
    \cup When(Absent(document, asked, catalog), 3)
    \cup When(\A data \in shelf : data[1] # run.data[1], 4)
    \cup When(Matching(shelf) = {}, 5)

\* Addresses that exist, in one definition or another, and some that do not.
Addresses == UNION {[1 .. depth -> Nodes] : depth \in 1 .. 2}

Ports == {AnyPort, "assets", "targets", "raw"}

AskValue ==
    /\ run # Unset /\ query = Unset
    /\ \E address \in Addresses, port \in Ports, session \in 1 .. 2,
          shelf \in SUBSET Fingerprints, changed \in Changes, keys \in Loads :
          LET objections == Objections(address, session, shelf, Restrict(Stored, keys))
          IN  /\ query' = [state |-> "asked", address |-> address, port |-> port]
              /\ \/ /\ objections # {}
                    /\ reply' = [state |-> RefusalCodes[Smallest(objections)]]
                    /\ UNCHANGED evaluationVars
                 \/ /\ objections = {}
                    /\ \E data \in Matching(shelf) :
                          conditions' = [conditions EXCEPT !.data = data, !.changed = changed,
                                                           !.catalog = keys]
                    /\ phase' = "checking" /\ definitions' = <<>> /\ stack' = <<>>
                    /\ store' = <<>> /\ events' = <<>> /\ targets' = None
                    /\ UNCHANGED <<document, diagnostics, behaviour, reply>>
    /\ UNCHANGED <<searchVars, planVars, run>>

\* Mutant: the fresh trace is not compared.
DriftedNever == FALSE

\* _assert_no_drift: of the node that was asked for, if the run has events of it.
Drifted ==
    /\ query.address \in DOMAIN run.events
    /\ query.address \in DOMAIN events => events[query.address].other

\* The ports of the address that have a value.
Produced(values) == {key[2] : key \in {k \in DOMAIN values : k[1] = query.address}}

\* _select_output_port, out of what was produced.
SelectedPorts(values) ==
    {port \in Produced(values) :
        query.port = port \/ (query.port = AnyPort /\ Produced(values) = {port})}

\* What is said when no port is selected.
Unselected(values) ==
    IF Produced(values) = {} \/ query.port # AnyPort THEN "value_address_not_found"
    ELSE "ambiguous_output_port"

AnswerValue ==
    /\ phase = "done" /\ query # Unset /\ reply = Unset
    /\ \/ /\ Produced(store) = {} /\ diagnostics # {}
          /\ reply' = [state |-> "recompute_failed"]
       \/ /\ Produced(store) # {} \/ diagnostics = {}
          /\ SelectedPorts(store) = {}
          /\ reply' = [state |-> Unselected(store)]
       \/ /\ SelectedPorts(store) # {} /\ Drifted
          /\ reply' = [state |-> "engine_drift"]
       \/ /\ ~Drifted
          /\ \E port \in SelectedPorts(store) :
                reply' = [state |-> "served", port |-> port,
                           value |-> store[<<query.address, port>>]]
    /\ UNCHANGED <<evalVars, run, query>>

Progress == (EvalNext /\ UNCHANGED tapVars) \/ AnswerValue

TapNext == Progress \/ Record \/ AskValue

\* Nobody has to ask.
TapSpec == TapInit /\ [][TapNext]_<<evalVars, tapVars>> /\ WF_<<evalVars, tapVars>>(Progress)

-----------------------------------------------------------------------------
Stale == reply.state = "served" /\ reply.value.other

\* The recompute answers for the run and for nothing else.  What it serves was
\* made of the run's data at the run's session; it is another number than the
\* run's only where code has changed that the number depends on and the trace of
\* the run, at that node, cannot tell.  Where nothing has changed, it says of the
\* address and the port exactly what the run's own store would have said.
TapAnswersForTheRun ==
    reply # Unset =>
        /\ reply.state = "served" =>
              /\ run.known
              /\ reply.value.data = run.data /\ reply.value.session = run.session
              /\ ~Stale => reply.value = run.store[<<query.address, reply.port>>]
        /\ Stale => /\ conditions.changed # {}
                    /\ query.address \in DOMAIN run.events => ~events[query.address].other
        /\ conditions.changed = {} /\ conditions.catalog = DOMAIN Stored
              /\ reply.state \notin {"unknown_provenance", "no_evaluation_at_session",
                                      "dataset_mismatch", "calendar_mismatch"}
              => reply.state = IF SelectedPorts(run.store) # {} THEN "served"
                               ELSE Unselected(run.store)

\* Every evaluation ends, every call of the planner alone ends, and every
\* question is answered.
EverythingEnds == EvaluationEnds /\ (query # Unset ~> reply # Unset)
=============================================================================
