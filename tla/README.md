# Quantize: a TLA+ model of the engine and the store

Quantize is a strategy workbench. A *strategy document* is a graph of nodes that
turns market data into target weights; an *engine* feeds a market calendar to
that graph session by session and simulates the trades; a *store* keeps
strategies, components, datasets and runs in one SQLite file; an *HTTP API*
opens that file anew for each request; a *web editor* edits the document, saves
it, validates it, runs it and browses the facts a run recorded.

This directory holds modules that model the parts where order, failure and
concurrency decide whether the program is right, the TLC configurations that
check them on small instances, and proofs for every instance of the parts whose
invariants matter most.

Paths below are relative to the repository's root.

## Inventory

| Part | State | Operations | Talks to | What must hold |
|---|---|---|---|---|
| Market data, `quantize/market/data.py`, `calendar.py` | frozen datasets: price observations with *availability* instants; a calendar of sessions | `as_of(instant)`; the cursor's `latest_close`, `session_close`, `open_price` | asked by the engine and by nodes | the incremental cursor answers what the as-of view answers; nothing is shown before it is available |
| Fills, `engine/fills.py` | none (a function of book, orders, opens, cost) | `apply_orders` | called at the open of a session | all or nothing; no negative cash or position; sells first, later buys bear a shortfall |
| Reconciliation, `engine/reconcile.py` | none | `reconcile` | called at the close of a firing session | what it plans can be filled; exits are complete; only dust is left |
| Session engine, `engine/backtest.py`, `schedule.py` | book, overnight queue, valuations, marks, evaluations, fills, notes, trace | `preflight`, `step`, `finish`, `run_backtest` | cursor, evaluator, reconcile, fills | no look-ahead; no decision lost or invented; recorded facts explain the book, also in a failed run |
| Forward replay, `engine/forward.py` | an engine, a session cursor, a failure | `advance`, `snapshot`, `resume`, `result` | the session engine | a replay cut anywhere and resumed is the backtest |
| Store, `persistence/` | four tables of immutable artifacts and a trace stream | the repositories' `save`, `save_run`, loads | every API request, by a connection of its own | saves are atomic, keys unique, runs whole, answers honest |
| Migrations, `persistence/database.py`, `migrations.py` | tables, applied versions | `Database(...)` | every opener of the file | the file is exactly at one version |
| Component closure, `persistence/closure.py`, `api/routes/components.py` | none | breadth-first fetch, diagnosis, save | store, evaluator, save route | stored components are closed and acyclic; resolution terminates and is reproducible |
| Validation, `validation/`, `components/resolve.py`, `evaluator/preflight.py` | none | cycle search, structural, semantic and wiring checks, instance tree | every document before it is run | what passes cannot fail for a reason the checks are there to find |
| Evaluation, `evaluator/` | per-evaluation outputs and trace | `evaluate_strategy`, `topological_order`, warm-up | nodes, views | a canonical order; the terminal receives targets |
| Nodes and memo, `nodes/`, `runtime/` | the run's memo with its high water | the node implementations, `EvaluationMemo` | the as-of view | the memo changes no value; caps hold; only priceable assets are weighted |
| Value tap, `valuetap/service.py` | none | `resolve_node_value` | store, evaluator | serves only a number the run produced |
| Registry, schema, serialization, code generation, tracing trees, HTTP layer | tables built at start; declarations and encodings | | | |
| Web editor, `web/src/App.tsx`, `document/store.ts`, panels | document, baseline, open and save tickets, verdict | clicks, edits, answers of fetches | HTTP API | an answer never lands on a document it was not asked for |
| Web debug loop, `web/src/run/useDebugLoopState.ts` | selected run, record, session cursor, trace, cadence | selections, effects, answers | HTTP API, the editor | what is shown is whole and of the selected run |

Hard behaviours: market data that arrives late and out of order; decisions
taken at a close and executed at a later open; runs that fail between two
phases of a session; checkpoints across the overnight queue; several
connections on one file with duplicate checks outside their transactions,
statements that fail, busy timeouts and processes that die; web answers in any
order. `PROJECT.json` lists each hazard at its line with the property that
covers it.

## Modules

The modules in the order in which they build on each other:

    Universe -> MarketData -> MarketCursor -> EvaluationMemo <- CoreNodes, CoreCatalog
    Amounts -> CoreNodes, Portfolio; Portfolio -> Reconcile, Fills -> ApplyOrders -> Rebalance
    MarketData, Reconcile, Fills -> SessionEngine -> LookAhead -> ForwardReplay
    ArtifactStore <= Persistence        Migrations        ComponentStore
    CycleSearch -> Planning, CoreCatalog -> Documents; both -> Evaluation -> ValueTap
    DebugLoop -> EditorSession

(`->` is EXTENDS, `<=` a refinement.) A module `MCX` holds the instances that TLC
checks, a module `XProofs` theorems: see Proofs.

### Engine

`Universe` and `MarketData` hold the data every engine module shares: assets,
session days, instants (per day an open and a close, `OpenAt` and `CloseAt`),
datasets as *what becomes available when* (`CloseAvailability`,
`OpenAvailability`), and the as-of view.

`MarketCursor` models `MarketDataCursor`: two arrival queues sorted by
availability, their positions, the latest closes and the visible opens, the
high water and the fallback to the as-of view when a question goes backwards.
A question starts with `Ask`; the two loops of `_advance` are `TakeClose` and
`TakeOpen`, one arrival per step; `Answer` returns. Here a price is the session
it belongs to: the only thing a cursor can get wrong is *which* observation it
shows.

`Portfolio`, `Reconcile` and `Fills` translate `state.py`, `orders.py`,
`reconcile.py` and `fills.py` as operators. `ApplyOrders` is `apply_orders` as
steps: validation, the sells in asset order, the buys in asset order.
The operator `Applied` that the engine modules use is the last of `Turns`, a
recursive function of whose turn it is; `LoopsAreTheFold` ties the two: it is what
the loops compute. `Amounts` adds up from left to right, by another recursive
function, `Sums`, here and in the nodes. `Rebalance` alternates the two functions, a plan
at one price vector and a fill at another.

`SessionEngine` is the engine. `StepOf` is `SessionEngine.step`, phase by phase
(`AtOpen`, `AtClose`, `AtEvaluation`, `Evaluated`) with every early return, over
an engine record with the source's fields; `Next` is `run_backtest`: preflight,
one session at a time, finish. A configuration carries the outcome of the graph
at each session, any target vector of the model or a failure; what an evaluation
does is `Evaluation`. `LookAhead` composes the engine with itself: a second run
of the same configuration over another dataset. `ForwardReplay` puts a forward
driver beside the backtest of the same inputs: drivers are constructed,
advanced, snapshotted, abandoned (the process goes away) and resumed in any
order, and their results are given to `save_run`.

### Evaluation

`CycleSearch` is `_find_cycle` of `structural.py` with its colours, its stack and
its resumed iterators, a step per neighbour, root or backtrack. Acyclic is defined
without a search: every nonempty set of nodes has one without an edge into it.
The names of its specification are its own (`SearchInit`, `SearchNext`,
`SearchSpec`), since the evaluator extends it.
`Planning` is `topological_order` of `plan.py` on the graph that was searched:
`Prepare` counts predecessors, `Place` takes the smallest node off the heap,
`Ordered` compares lengths and refuses.

`CoreCatalog` is the table of the core node types: ports, their types, warm-ups.
`Documents` holds the checks as operators, one per function of the source:
`GraphErrors`, `Structure` (`structural.py`), `Semantics` (`semantic.py`),
`Fetched`, `DefinitionErrors`, `SetErrors`, `InstanceErrors` of each instance that
`Instantiated` reaches, a level of nesting at a time (`resolve.py`), and the wires
that cross from the document into its components (`preflight.py`). A diagnostic is
its code.

`Evaluation` is `evaluate_strategy`: the search, the checks in their order with
the early returns between them (`Reject`, `Fetch`, `Check`), the planner, and the
executor. A component node pushes a frame with the order of its definition's
graph (`Enter`) and pops it when its exposed outputs are read (`Leave`); a
registered node reads its inputs from the store by its path and gives values,
raises, gives other ports or another type (`RunRegistered`). A value is its type
and what it was made from: data, session, and whether code that has changed
since the run took part. `ValueTap` is `resolve_node_value` over a stored run:
the refusals in the order of the source, the data set with the run's
fingerprints, the recompute *by the actions of `Evaluation`* under whatever has
changed since, the comparison of traces, the port.

`CoreNodes` holds what each core node computes, over exact fractions, with the
missing-data rules of each. `EvaluationMemo` is one run's evaluations of a graph
of all of them with the run's `EvaluationMemo`: its slots, its high water and the
refusal of an earlier instant.

### Store

`ArtifactStore` is what the store promises: `Ask`, one atomic `Store` of a whole
unit, `Answer`. `Persistence` is what `database.py` and the repositories do: a
duplicate check outside the transaction, `BEGIN IMMEDIATE` with a busy timeout,
one `INSERT` at a time, constraint violations, failing statements and commits,
rollback, crash; `save_run` additionally checks its strategy and adds its row to
the same transaction; `load_trace` reads in two queries. `SavesAreAtomic` is the
refinement `Store!Spec`: the rows of the file are mapped to the abstract table
by `StoredIn`, a unit's key being the pair of its table and its key there: a run
counts when its row and its whole stream are there, anything else about it is
*torn*, which no abstract state is.

`Migrations` models `Database.__init__`: the journal pragma, reading the version,
the loop over `DATABASE_MIGRATIONS` with one transaction per migration and one
statement per step, by several openers of one file.

`ComponentStore` models what the component routes and the run routes do with
definitions that pin each other: `Ask` starts a request, `Drop` and `Fetch` are
the turns of the closure walk (one query each, with other requests' saves in
between), `Diagnose` or `Resolve` judges in memory what the walk brought home
(`Sound` is the gates of `components/resolve.py`), `LooksWhetherItExists`, `Save` and
`Insert` are the route's existence check, the repository's duplicate check and
its transaction. A definition is what it pins, which interfaces of the pinned it
can be wired to, which interface it exposes, and one flaw of its own; `Documents`
has the same gates in full, on a store that stands still. What makes the
unprotected diagnosis right is that rows never change and never go: `SaveInv`
says so and is proved.

### Editor

`EditorSession` is the shell of the web editor. A document object is the opening
it belongs to, its version and its edits, so that `===` and "the same content"
can differ. Every request in flight is a record with what its closure captured:
an open its ticket, a save the generation and the document, a validation the
refs of the panel that asked, which stay behind when the dock unmounts the panel.
Answers come in any order, with success or error. `DebugLoop` is
`useDebugLoopState`: a render shows a new selection at once, `Effects` runs the
effects whose dependencies have changed and cancels what they had in flight, and
each answer is tagged. `EditorSession` extends it: opening a document and the
answer of a submitted run both select runs.

## Abstractions

- Lots and money are integers; weights are in units of `1 / WeightScale`, costs
  in units of `1 / CostScale` of the price, dust in `1 / DustScale`. Divisions
  round down as `\div` does, which stands for a quantity that is not exact.
  The clamp of a negative rounding residue in `apply_orders` has no counterpart:
  with integers there is no residue (`NeverOverdrawn` says the code's
  programming-error branch is never taken). In `CoreNodes` numbers are exact
  fractions and the tolerances that absorb float rounding are zero.
- SQLite is modelled by what the wrapper relies on in WAL mode: a query sees
  committed rows, one writer at a time, `COMMIT` is atomic and a dying process
  releases its lock and leaves nothing. Lock errors on the query side do not
  occur in WAL mode and are left out; the journal mode itself is not tracked.
- Contents are digests: two artifacts are identical exactly when their contents
  are equal. A dataset's key is its content.
- The strategies route calls `prepare_save` once more before `save`; that check
  only chooses between 200 and 201 and changes nothing, so it is left out.
- A parameter value is `good` or `bad` to the schemas that judge it, an exposed
  schema `any`, `strict` or `invalid`. There is one schema version and one version
  of each node type. The graph of a component is put in order by `CanonicalOrder`,
  the function that `Planning` is shown to compute (`PlanIsCanonical`).
- A node implementation behaves at one path as it did before unless its code or
  its inputs have changed (`Behaves`): the purity that `NodeInvocation` demands.
- React renders and runs the effects of an edit before the next answer arrives;
  of a *selection* in the debug loop the effects are a step of their own, since
  there the code is written for the gap between the two.
- `MaxCalls`, `MaxOpens` and `MaxRequests` bound how many saves, opens and requests
  there are in all, `Limits` how much an editor session does, `Rounds` the
  plan-and-fill rounds, `LastDay` the calendar. None of them is a limit of the code.

## Runs

| Run | Instance | Shows |
|---|---|---|
| `market_cursor` | 2 assets whose closes cross, 2 sessions, a close on time or 3 instants late, every dataset; ascending evaluations of a graph of all core nodes, then every sequence of questions | `Exact`: the cursor is the as-of view, out of order and backwards. `MemoIsTransparent`: the memo changes no average at any instant it accepts. `CapIsRespected`: the waterfall caps, keeps the order and leaves cash only when every asset held is at the cap. `TargetsArePriceable`: weight goes only to assets with a planning price |
| `rebalance` | fill events of 2 assets, up to 3 orders, duplicates and oversold ones included, 2 opens, 3 costs, 3 cash levels; then 2 rounds of planning and filling at prices that change in between | `NeverOverdrawn`, `AllOrNothing`, `LaterBuysBearShortfall`, `LoopsAreTheFold`; `PlansAreFillable`, `ExitsAreComplete`, `PlanSettles`, `CostsAreTheOnlyLoss` |
| `session_engine` | 2 assets, 3 sessions, datasets with one observation late, missing or different; windows, cadences, warm-ups, costs, graphs that fail; beside a run either every other dataset or a forward driver, snapshotted and resumed anywhere | the facts of every run, failed ones included, agree with each other (`NothingDangles`, `EveryFiringAccounted`, `FillsWerePlanned`, `FactsExplainBook`, `ValuedWithoutGaps`, `TraceTellsFacts`); two runs cannot differ before their data do (`NoLookAheadInRun`); a replay is the backtest (`ReplayIsBacktest`) and only the completed run is stored (`SavedIsWhole`) |
| `persistence` | 2 writers, 1 reader, 3 saves over 5 keys, 2 contents, runs of 2 events | `RunsAreWhole`, `NoTornTrace`, atomicity by refinement (`SavesAreAtomic`), every save returns (`SavesReturn`) |
| `migrations` | 3 openers, 4 opens, every starting version and one too new | `FileIsAtAVersion`, `OpenedIsCurrent`, `OpensEnd` |
| `component_store` | 2 clients, 4 requests, 3 keys, 8 definitions (two contents of one key, a shared pin, a cycle, a self-pin, two flawed) and 2 strategies | stored definitions stay sound, walks find closures, resolution is reproducible, acknowledged is stored, requests return |
| `evaluation` | the search and the planner on every graph of 4 nodes without self-edges (a self-edge is refused before); some 7 000 documents of a universe, a weigher, a limiter and an end under every subset of 7 edges, the weigher a node or one of 11 components, nested and faulty ones among them; two of their runs asked about, at every address of depth 2 | `SearchIsRight`; `PlanIsCanonical`; `CleanNeverMisses`: only an implementation that misbehaves stops what the checks let through; `TapAnswersForTheRun`; `EverythingEnds` |
| `editor_session` | sessions that edit and save (2 opens, 2 edits, 2 versions), that edit and validate, and that look at runs (3 runs, one without sessions, two with a date in common) | `EditorIsItsOwn`; `LoopShowsTheRun` |
| `conflicts_are_divergent`, `failures_are_structured`, `first_evaluation_is_defined`, `stale_verdict` | as above; for the second, two openers of a new file; for the third, a trailing return over a moving average on data without gaps | violated: see Findings |

The bounds are the smallest at which each case exists: two assets so that one
order can starve another, two arrivals of one asset so that they can swap, three
sessions so that an order can be decided, filled and followed by another, two
writers and a reader so that a check, an insert and a read interleave, two
trace events so that a stream can be torn, three openers so that one can crash
while two race, four nodes so that a diamond and a cycle beside a tail exist, a
component in a component so that a wire crosses two boundaries, two openings
with an edit and a save each so that every answer can be late. Every disjunct of
every next-state relation fires in some passing run. Symmetry is not used: assets
and nodes are ordered in the code and the runs over the store check temporal
properties.

`CHECK_DEADLOCK FALSE` appears where the modelled program ends: a run finishes, a
fill event is applied, an evaluation has its targets, the bound on saves, opens
or clicks is reached.

### Fairness

`Persistence` assumes `WF_vars(Step(h))` for each handle and `Migrations` the same
for each opener. It stands for a thread that goes on with a call it has
started. It is no more than that: `BEGIN IMMEDIATE` never waits for ever, since
`busy_timeout` (`database.py:64`) ends it with `database_locked`, so a step of a
waiting handle is always enabled (`Begin` or `BeginTimesOut`). `ComponentStore`
assumes the same for each client's handler, whose insert may always answer
`locked`. `ValueTap` assumes that an evaluation that has started goes on and that
what was asked is answered (`Progress`), all in one thread; not that anybody asks.
No fairness is assumed of failures, crashes, calls, readers, users or
the network.

## Findings

- **Identical content can be a conflict** (`conflicts_are_divergent`). Two
  connections that save the same new document at once both pass the duplicate
  check; the slower `INSERT` is refused and the save answers `artifact_conflict`,
  "concurrently saved with different content". `documents.py:4-6` promises a
  conflict only for divergent content. The dataset repository treats the same
  race as success.
- **Two first openers: a bare sqlite3 error** (`failures_are_structured`). Both open
  a new file and read version 0; when the first migration of one is committed, the
  other's `CREATE TABLE schema_migrations` fails with `sqlite3.OperationalError`,
  which the bare `raise` of `database.py:87` lets out of the constructor. `errors.py:3-4`
  promises a `PersistenceError`. The run starts from version 0 only; two openers of
  a file at version 1 fail in the same way at `CREATE TABLE datasets`. Nothing is
  damaged (`FileIsAtAVersion` holds), and a later open starts from the version
  that is committed by then.
- **Warm-ups of chained nodes do not add up** (`first_evaluation_is_defined`).
  `resolve_warmup` takes the largest warm-up of any node; a trailing return that
  reads a moving average needs the sum. `plan.py:71-74` promises that at
  `total + 1` visible sessions every node's output is defined. The first
  evaluations then exclude assets as if history were missing.
- **A verdict outlives its panel** (`stale_verdict`). `isCurrent` of
  `ValidatePanel.tsx` compares refs that stop changing when the panel is
  unmounted; a validation that is answered after a tab switch and an edit, or
  after another document was opened, is stamped with the key of the live document
  and badges it. `App.tsx:210-211` says the panel discards a superseded one.

Three more things the models show that no document contradicts outright. `save_run` of
a run that is stored already returns at `runs.py:155`, before `prepare_save` looks at
the document, so a divergent document is then neither stored nor refused
(`Check` comes before `CheckDocument` in `Persistence`). Two requests that post
one new definition at once can both be answered 201, since the route reads whether it
existed before it saves (`LooksWhetherItExists` before `Save` in `ComponentStore`);
only the status depends on it, and `AcknowledgedIsStored` holds of both answers.
And a run that was submitted for one strategy selects itself when it is answered,
also when another strategy is open by then (`SelectRun` in `EditorSession`):
`LoopShowsTheRun` holds of it, but it is not a run of the document beside it.
These are the three hazards of `PROJECT.json` without a property.

## Proofs

The eight modules below prove for every value of the constants what the runs check
on small ones. The constants' assumptions are the named `ASSUME`s of the modules;
TLC evaluates them in the runs. An invariant that a run checks is rarely inductive;
each argument rests on one that is, and TLC has checked that one on the instance of
the run. All properties of the passing runs are proved except those listed at the
end of this section. The inductive invariants contain the types they need; the
session engine, the store and the migrations have no type invariant among the runs,
whose properties are spent on what can go wrong.

### The evaluator: `EvaluatorProofs`

The **cycle search** (`SearchInv`), for any set of numbered nodes: the grey nodes
are the path, the path is a chain of edges, a node's iterator holds what was
neither skipped nor descended into, and the black nodes are closed under edges and
acyclic. `SearchIsAlwaysRight` follows.

The **planner** (`PlanInv`), for any finite set of nodes: the counters count the
predecessors that are not ordered yet, so the heap is what is available
(`PlanIsKahn`). That an exhausted heap means a cycle uses the search's own answer
and that a finite acyclic graph has a source. `PlanIsAlwaysCanonical` follows.

The **cursor** (`IInv` of `MarketCursor`), for any number of assets and sessions
and any availability: the positions of the queues split the arrivals at the high
water, the latest close of each asset is the maximum session among the closes taken
(`LatestIsMax`), and the visible opens are those taken (`OpensAreTaken`). `Exact`
alone speaks of answers and says nothing of the tables they are read from. From
`IInv` follow `CursorIsExact` and `CursorNeverLooksAhead`.

The **memo** (`MemoInv`), for any windows and prices: every point it holds is of a
session whose window was visible at the high water, and is the mean over it. What
is visible only grows, so the point is the one that a later evaluation computes:
`MemoNeverShows`.

The **nodes**, for any assets, allocation of the graph and cap. The waterfall of
`risk.max_weight` is a recursive function over its passes with an invariant of its
own, `WaterInv`: whoever was capped sits at the limit, the order of the targets is
kept except among those at the limit or over it, what had no weight has none, and
the sum is that of the targets, or it is less and everything held sits at the limit.
A pass that cuts somebody caps one more asset (`Progressed`), so after as many
passes as assets nobody is over, which is also why the loop of the code ends. The
sums are linear (`SumsAreLinear`), so what is shared out is what was cut:
`CapIsAlwaysRespected`. `TargetsAreAlwaysPriceable` adds that selecting and masking
demand a point or a price *at* the session evaluated, hence a visible close of it,
which is then the latest one the cursor has.

The **evaluation** (`EvaluationInv`), for any documents and stored components, in a
run and in a recompute: who executes is executing what the checks passed
(`Checked`), the order of each graph is complete (`Planned`), each graph on the
stack is the definition that the node under execution of the graph around it names,
and what its nodes still to come read from those before them, or from outside, is in
the store (`Frames`, `NeverStarved`). What the checks establish is three lemmas, by
the layer that checks it: `StructureIsSound`, `ResolvedIsUsable`, `CheckedIsWired`. The
order of a frame, a recursive function, is complete and keeps the edges
(`CanonicalOrderIsComplete`); the levels of nested instances are another, whose
definition by recursion is a lemma (`IteratesExist`), not an assumption.
`CleanAlwaysNeverMisses` follows: a node finds all its inputs, a component its outputs,
and the terminal its targets.

The **value tap** (`TapInv`), on top of it, for any document, run and question. It
relates two evaluations of which only the second is in the state, so it says of
*every* address that leads to a node of the document (`Leads`, at any depth) what the
store has there: once the frames have left the address (`Left`), all outputs of its
node, a component's being those inside (`LeftAreSettled`); at the end of a success that is
every address (`AllAreSettled`), and so the stored run has them all (`RunIsRight`). The
checks judge the document and what it pins and nothing else (`Passed`), hence they
pass again, unless a definition has gone; each value of the recompute is one of the
run's as to its type, its data and its session (`ValuesOf`, `RecomputeFollows`), and where no
code has changed it is the run's value (`NothingDiffers`), every implementation answers as it
did, and the recompute cannot fail. `TapAlwaysAnswersForTheRun` follows from comparing
the two stores at the address asked for (`RecomputeIsTheRun`).

### Orders: `OrdersProofs`, `RebalanceProofs`

`OrdersProofs` has the lemmas that the books of both the fill loops and the engine
rest on: sums over lists (appending, concatenating, changing one amount), the turns
of `apply_orders` one by one (an order adds one fill of its side and asset, no
larger than the order, and moves cash and lots by what the fill says), and what
`reconcile` proposes (at most one order per asset, no sell of more than is held).
Sums and turns are recursive functions; induction over them is over the *set* of
numbers a fact holds of (`InductionTo`), from the well-foundedness of `<`.

`RebalanceProofs` proves every property of the `rebalance` run. `ApplyOrders`' own
invariant `IInv` says that between any two orders the loops are where the function
`Turns` is after one of its turns (`AtATurn`): `LoopsComputeTheFold`, and
everything a lemma says of a turn then holds of the loops: `CashFloor`
(`NeverOverdrawn`), `FillEventIsAtomic` (`AllOrNothing`), `OnlyCostsAreLost` (value
is conserved order by order but for the costs) and `ShortfallIsBorneLater` (what a
buy finds in cash is what the starting cash, all sells and the buys before it
left). `RebalanceInv` adds that what is being filled is the plan of the book it is
filled from (`PlanIsCurrent`): `PlansAreAlwaysFillable`, `ExitsAreAlwaysComplete` (a
liquidation is for all that is held, and no turn after it adds to it) and
`PlanAlwaysSettles` (at the planned prices and without costs, the cash before each
buy covers it, because the projected cash is not negative and sells come first; so
every order fills in full, and the value and with it every target quantity is what
it was).

### The engine: `ForwardReplayProofs`

Every property of the `session_engine` run, for any calendar, datasets and
configurations, and any history of snapshots, crashes and resumes.

- `ReplayInv`: a driver or a snapshot at session k is the backtest after k sessions
  (`AtBoundary`), which an advance carries on because both take the same step and a
  resume leaves alone because a snapshot holds every accumulator (`IsEngine`); what a
  step computes plays no part. Before session k nothing is valued at k or later, so
  an engine whose last valuation is of the last session is the completed run.
  `ReplayIsAlwaysBacktest` and `SavedIsAlwaysWhole` follow.
- `TwinInv`: each phase reads its dataset only through the as-of view at an instant
  of its session, where two datasets that have shown the same agree.
  `RunNeverLooksAhead`.
- `QueueInv`: a step empties the queue before it fills it, and the gate of
  `AtEvaluation` lets through only a session whose successor is in the window.
  `NothingEverDangles`.
- `AccountInv`: each phase appends what its session owes and touches nothing else,
  so a step adds one session (`StepHasRecords`) and a failure is the last record.
  `RunsAreValuedWithoutGaps`, `EveryFiringIsAccounted`.
- `BookInv`: the book is the opening one and the fills added up. Only fills touch
  the book, and `OrdersProofs` explains what they change. `FillsExplainTheBook`.
- `PlannedInv`: what waits in the queue is what the last evaluation planned, for the
  session after it; each plan whose session is over was filled, order by order.
  `EveryFillWasPlanned`.
- `TraceInv`: the trace is in the order of its instants up to the close of the last
  session fed, and its days are the days of the facts. `TraceAlwaysTellsFacts`.

### The store: `PersistenceProofs`, `MigrationsProofs`, `ComponentStoreProofs`

`PersistenceProofs`, for any handles, readers, units and lengths of streams
(`PersistenceInv`): a handle in a transaction holds the lock, what it has written
and what it has left are the rows of its unit, each once and after the rows they
refer to, and what is committed are whole units. `SpecKeepsRunsWhole` and
`SpecKeepsTracesUntorn` follow; a trace that is read in two queries is whole
because a run's rows are committed together and never change. `SpecImplementsStore`
is the refinement step by step: the commit of a transaction is the abstract
`Store`, the answers are the abstract `Answer`, and every other step is a stutter.

`MigrationsProofs`, for any openers and any history of opens (`MigrationsInv`): the
committed tables are exactly those of the applied migrations, which have no gap.
A version that was read is stale at once; what makes the loop right is that a
transaction whose `CREATE TABLE`s all succeeded found none of its tables.
`SpecKeepsFileAtAVersion` and `SpecKeepsOpenedCurrent` follow.

`ComponentStoreProofs`, for any clients, keys and definitions. `SaveInv`: keys are
unique, walks bring home what is stored, a definition that is about to be inserted
was diagnosed against what its walk brought home, and what is stored is sound. The
step that matters is `Insert`: the diagnosis was made over an older part of the
store, and stays true of every larger store with unique keys
(`DiagnosisIsStable`), because a sound closure misses no pin and so cannot grow.
`StoreStaysSound` and `AcknowledgedStaysStored` follow. `WalksInv` follows a walk
query by query: what it has fetched is reached from the root within itself, and
everything pinned so far was visited or is queued; so an empty queue means that the
closure is complete (`CatalogStaysTheClosure`). `ResolutionsInv` keeps of a
resolution that it is stored, closed and reached, which determines it in every
larger store (`ResolutionStaysReproducible`).

### The editor: `EditorSessionProofs`

`SessionInv`, for any limits: an opening has at most one save in flight, of a
document of that opening, and none while it is not answered itself
(`SavesAreOfOpenings`); the baseline is the document as opened or as confirmed
(`BaselineIsKnown`). `EditorIsAlwaysItsOwn` follows. `LoopInv`, for any runs and
axes: the record, the cadence and the trace are each of what the effects last saw
or still on their way (`RecordIsTracked`, `CadenceIsTracked`, `TraceIsTracked`), so
when nothing is in flight and no effect is due, they are of the selected run:
`LoopAlwaysShowsTheRun`.

### Only model-checked

- `SavesReturn`, `OpensEnd`, `RequestsReturn`, `EverythingEnds`: liveness under
  fairness, which the prover does not do.
- The four findings, which are counterexamples.

## Not modelled

- Serialization, records, provenance, the document schema: encodings and
  declarations of data. The stores use their result, a content that is equal
  exactly when the bytes are.
- Code generation: at build time.
- The HTTP layer: each request opens a connection of its own and calls one
  repository or the engine; parsing, DTOs and status codes are left out.
- The payload migrations of `migrations.py`, the export of the registry, trace
  schemas and trees, summaries of values, `metrics.py`: pure functions whose result
  nothing above depends on.
- Of the editor: canvas selection, the component breadcrumb, the data set picker
  and the journey; the component cache, the generic fetch hook and the hover probe,
  which repeat the cancelled flag and the tag of `DebugLoop`; rendering.

`PROJECT.json` lists each with its reason.

## Plan

Every safety property of the passing runs is proved; the properties left to TLC are
those a proof cannot reach here. What the models could still take in is listed under
"Not modelled" and, for the hazards without a property, in `PROJECT.json`.
