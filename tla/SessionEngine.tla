--------------------------- MODULE SessionEngine ---------------------------
(***************************************************************************)
(* The engine core (quantize/engine/backtest.py): one session of the       *)
(* lifecycle as a function of the engine's accumulators, and run_backtest  *)
(* as the loop that feeds it the sessions of the window.                   *)
(*                                                                         *)
(* Prices are read through the cursor at an instant; module MarketCursor   *)
(* shows that its answers are those of the as-of view used here.  The      *)
(* strategy graph is any function from sessions to target weights or to    *)
(* EvaluationFails: the engine hands it no state of its own.               *)
(***************************************************************************)
EXTENDS MarketData, Reconcile, Fills

CONSTANTS Feeds,            \* the datasets: when prices are available, and what they are
          Configs,          \* the run configurations
          EvaluationFails   \* the outcome of a graph evaluation that fails

\* A feed is what a MarketDataSet holds, a config what run_backtest is given:
\* the window bounds (NoDay for None), the schedule with the calendar's periods,
\* the warm-up total of the graph, whether its components resolve, the costs,
\* the graph's outcome at each session, and the starting book.
ASSUME EngineAssumption ==
    /\ \A f \in Feeds :
          /\ f.closeAvail \in CloseAvailability /\ f.openAvail \in OpenAvailability
          /\ f.close \in [Assets -> [Days -> Nat \ {NoPrice}]]
          /\ f.open \in [Assets -> [Days -> Nat \ {NoPrice}]]
    /\ \A c \in Configs :
          /\ c.first \in Days \cup {NoDay} /\ c.last \in Days \cup {NoDay}
          /\ c.daily \in BOOLEAN /\ c.period \in [Days -> Nat]
          /\ c.warmup \in Nat /\ c.resolves \in BOOLEAN /\ c.bps \in Nat
          /\ c.graph \in [Days -> Targets \cup {EvaluationFails}]
          /\ c.book \in Books

-----------------------------------------------------------------------------
\* run_window: the sessions of the calendar inside the bounds.
FirstDay(c) == IF c.first = NoDay THEN 1 ELSE c.first
FinalDay(c) == IF c.last = NoDay THEN LastDay ELSE c.last

WindowSize(c) == IF FinalDay(c) < FirstDay(c) THEN 0 ELSE FinalDay(c) - FirstDay(c) + 1

Window(c) == [i \in 1 .. WindowSize(c) |-> FirstDay(c) + i - 1]

\* scheduled_sessions: every session, or the last of each week or month.
Fires(c) == {d \in Days : c.daily \/ d = LastDay \/ c.period[d + 1] # c.period[d]}

-----------------------------------------------------------------------------
\* The accumulators of a new engine.  fillDay is NoDay while nothing is pending.
Fresh(c) ==
    [book |-> c.book, pending |-> {}, fillDay |-> NoDay, valuations |-> <<>>, stale |-> <<>>,
     evaluations |-> <<>>, fills |-> <<>>, notes |-> <<>>, trace |-> <<>>, failure |-> "none"]

\* preflight: the component closure, then the supported range of the costs.
PreflightFailure(c) ==
    IF ~c.resolves THEN "components_unresolved"
    ELSE IF ~CostsSupported(c.bps) THEN "invalid_transaction_costs" ELSE "none"

Traced(e, type, d) == [e EXCEPT !.trace = Append(@, [type |-> type, day |-> d])]

Noted(e, d, code) ==
    Traced([e EXCEPT !.notes = Append(@, [day |-> d, code |-> code])], "note", d)

\* Mutant: the fills of the session replace those recorded before.
AtOpenReplacesFills(feed, c, e, d) ==
    LET opens   == [a \in Assets |->
                      IF AsOfOpen(feed.openAvail, a, d, OpenAt(d)) = d
                      THEN feed.open[a][d] ELSE NoPrice]
        applied == Applied(e.book, e.pending, opens, c.bps)
    IN  IF e.fillDay # d THEN e
        ELSE IF applied.refusals # {} THEN [e EXCEPT !.failure = "missing_open_price"]
        ELSE [Traced(Traced(e, "orders_filled", d), "state_transition", d)
                 EXCEPT !.book = applied.book, !.pending = {}, !.fillDay = NoDay,
                        !.fills = [i \in DOMAIN applied.fills |->
                                     [day |-> d, fill |-> applied.fills[i]]]]

\* OPEN: the orders pending for this session fill at its opens, all or none.
AtOpen(feed, c, e, d) ==
    LET opens   == [a \in Assets |->
                      IF AsOfOpen(feed.openAvail, a, d, OpenAt(d)) = d
                      THEN feed.open[a][d] ELSE NoPrice]
        applied == Applied(e.book, e.pending, opens, c.bps)
        filled  == [i \in DOMAIN applied.fills |-> [day |-> d, fill |-> applied.fills[i]]]
    IN  IF e.fillDay # d THEN e
        ELSE IF applied.refusals # {}
        THEN [e EXCEPT !.failure = IF applied.refusals = {"missing_open_price"}
                                   THEN "missing_open_price" ELSE "invalid_order"]
        ELSE [Traced(Traced(e, "orders_filled", d), "state_transition", d)
                 EXCEPT !.book = applied.book, !.fills = @ \o filled,
                        !.pending = {}, !.fillDay = NoDay]

StaleMarks(mark, stale, d) ==
    SetToSortSeq({[day |-> d, asset |-> a, mark |-> mark[a]] : a \in stale},
                 LAMBDA m, n : m.asset < n.asset)

\* CLOSE, valuation: every position at its latest visible close, marked stale
\* when that is the close of an earlier session.
AtClose(feed, e, d) ==
    LET held  == Held(e.book)
        mark  == [a \in held |-> AsOfLatestClose(feed.closeAvail, a, CloseAt(d))]
        value == ValueOf(e.book, [a \in held |-> feed.close[a][mark[a]]])
        stale == StaleMarks(mark, {a \in held : mark[a] # d}, d)
    IN  IF \E a \in held : mark[a] = NoDay
        THEN [e EXCEPT !.failure = "missing_valuation_price"]
        ELSE [e EXCEPT !.valuations = Append(@, [day |-> d, value |-> value]),
                       !.stale = @ \o stale]

\* Mutant: the planning prices are read from the dataset, not from the view.
EvaluatedUngated(feed, c, e, d) ==
    LET plan    == Reconciled(e.book, c.graph[d], [a \in Assets |-> feed.close[a][d]])
        graphed == Traced(e, "graph", d)
        logged  == [graphed EXCEPT !.evaluations =
                      Append(@, [day |-> d, ok |-> plan.ok, orders |-> plan.orders,
                                 fillDay |-> NextSessionAfter(d)])]
    IN  IF c.graph[d] = EvaluationFails THEN [graphed EXCEPT !.failure = "evaluation_failed"]
        ELSE IF plan.orders = {} THEN Traced(logged, "orders_proposed", d)
        ELSE Traced([logged EXCEPT !.pending = plan.orders, !.fillDay = NextSessionAfter(d)],
                    "orders_proposed", d)

\* Mutant: the record names the planning session as the session of the fill.
EvaluatedFillsToday(feed, c, e, d) ==
    LET closes  == [a \in Assets |->
                      IF AsOfSessionClose(feed.closeAvail, a, d, CloseAt(d)) = d
                      THEN feed.close[a][d] ELSE NoPrice]
        plan    == Reconciled(e.book, c.graph[d], closes)
        graphed == Traced(e, "graph", d)
        logged  == [graphed EXCEPT !.evaluations =
                      Append(@, [day |-> d, ok |-> plan.ok, orders |-> plan.orders, fillDay |-> d])]
    IN  IF c.graph[d] = EvaluationFails THEN [graphed EXCEPT !.failure = "evaluation_failed"]
        ELSE IF ~plan.ok THEN [logged EXCEPT !.failure = "reconciliation_failed"]
        ELSE IF plan.orders = {} THEN Traced(logged, "orders_proposed", d)
        ELSE Traced([logged EXCEPT !.pending = plan.orders, !.fillDay = NextSessionAfter(d)],
                    "orders_proposed", d)

\* CLOSE, evaluation that may fill: the graph is evaluated, the plan is made
\* from this session's own closes, and its orders wait for the next session.
Evaluated(feed, c, e, d) ==
    LET target  == c.graph[d]
        closes  == [a \in Assets |->
                      IF AsOfSessionClose(feed.closeAvail, a, d, CloseAt(d)) = d
                      THEN feed.close[a][d] ELSE NoPrice]
        plan    == Reconciled(e.book, target, closes)
        record  == [day |-> d, ok |-> plan.ok, orders |-> plan.orders,
                    fillDay |-> NextSessionAfter(d)]
        graphed == Traced(e, "graph", d)
        logged  == [graphed EXCEPT !.evaluations = Append(@, record)]
        queued  == IF plan.orders = {} THEN logged
                   ELSE [logged EXCEPT !.pending = plan.orders, !.fillDay = record.fillDay]
    IN  IF target = EvaluationFails THEN [graphed EXCEPT !.failure = "evaluation_failed"]
        ELSE IF ~plan.ok THEN [logged EXCEPT !.failure = "reconciliation_failed"]
        ELSE Traced(queued, "orders_proposed", d)

\* Mutants: the fill is not required to fall inside the window; a session in the
\* warm-up leaves no note.
AtEvaluationNoWindow(feed, c, e, d) ==
    LET next == NextSessionAfter(d)
    IN  IF d \notin Fires(c) THEN e
        ELSE IF d <= c.warmup THEN Noted(e, d, "warmup_not_satisfied")
        ELSE IF next = NoDay THEN Noted(e, d, "no_next_session")
        ELSE Evaluated(feed, c, e, d)

AtEvaluationSilentWarmup(feed, c, e, d) ==
    LET next == NextSessionAfter(d)
    IN  IF d \notin Fires(c) \/ d <= c.warmup THEN e
        ELSE IF next = NoDay THEN Noted(e, d, "no_next_session")
        ELSE IF c.last # NoDay /\ next > c.last THEN Noted(e, d, "fill_outside_window")
        ELSE Evaluated(feed, c, e, d)

\* CLOSE, evaluation gate: the first of the reasons not to evaluate is noted.
AtEvaluation(feed, c, e, d) ==
    LET next == NextSessionAfter(d)
    IN  IF d \notin Fires(c) THEN e
        ELSE IF d <= c.warmup THEN Noted(e, d, "warmup_not_satisfied")
        ELSE IF next = NoDay THEN Noted(e, d, "no_next_session")
        ELSE IF c.last # NoDay /\ next > c.last THEN Noted(e, d, "fill_outside_window")
        ELSE Evaluated(feed, c, e, d)

\* Mutants: only the sessions that fire are valued; the evaluation comes before
\* the fills of the session.
StepOfValuesFiringOnly(feed, c, e, d) ==
    LET opened == AtOpen(feed, c, e, d)
        valued == AtClose(feed, opened, d)
    IN  IF opened.failure # "none" \/ d \notin Fires(c) THEN opened
        ELSE IF valued.failure # "none" THEN valued
        ELSE AtEvaluation(feed, c, valued, d)

StepOfEvaluatesFirst(feed, c, e, d) ==
    LET planned == AtEvaluation(feed, c, e, d)
        opened  == AtOpen(feed, c, [planned EXCEPT !.pending = e.pending, !.fillDay = e.fillDay], d)
    IN  IF planned.failure # "none" THEN planned
        ELSE IF opened.failure # "none" THEN opened
        ELSE [AtClose(feed, opened, d) EXCEPT !.pending = planned.pending,
                                              !.fillDay = planned.fillDay]

\* step: OPEN, then CLOSE; the first failure ends the session and the run.
StepOf(feed, c, e, d) ==
    LET opened == AtOpen(feed, c, e, d)
        valued == AtClose(feed, opened, d)
    IN  IF opened.failure # "none" THEN opened
        ELSE IF valued.failure # "none" THEN valued
        ELSE AtEvaluation(feed, c, valued, d)

-----------------------------------------------------------------------------
VARIABLES feed, cfg,  \* what the run is given
          eng,        \* the engine's accumulators
          cursor,     \* sessions of the window fed so far
          stage

vars == <<feed, cfg, eng, cursor, stage>>

Init ==
    /\ feed \in Feeds /\ cfg \in Configs
    /\ eng = Fresh(cfg)
    /\ cursor = 0
    /\ stage = "preflight"

Preflight ==
    /\ stage = "preflight"
    /\ eng' = [eng EXCEPT !.failure = PreflightFailure(cfg)]
    /\ stage' = IF eng'.failure = "none" THEN "running" ELSE "finished"
    /\ UNCHANGED <<feed, cfg, cursor>>

FeedSession ==
    /\ stage = "running" /\ cursor < WindowSize(cfg)
    /\ eng' = StepOf(feed, cfg, eng, Window(cfg)[cursor + 1])
    /\ cursor' = cursor + 1
    /\ stage' = IF eng'.failure = "none" THEN "running" ELSE "finished"
    /\ UNCHANGED <<feed, cfg>>

Finish ==
    /\ stage = "running" /\ cursor = WindowSize(cfg)
    /\ stage' = "finished"
    /\ UNCHANGED <<feed, cfg, eng, cursor>>

Next == Preflight \/ FeedSession \/ Finish

Spec == Init /\ [][Next]_vars

-----------------------------------------------------------------------------
\* The sessions fed so far whose close was valued, and those whose close was
\* evaluated if it fired.
SessionsFed == {Window(cfg)[i] : i \in 1 .. cursor}

Completed == {d \in SessionsFed : eng.failure = "none" \/ d # Window(cfg)[cursor]}

On(d, records) == {i \in DOMAIN records : records[i].day = d}

\* R16, the overnight queue: whatever waits for a fill waits for the very next
\* session of the window, so the queue is empty whenever a plan is made and
\* nothing is left in it at the end of a run.
NothingDangles ==
    eng.failure = "none" =>
        \/ eng.pending = {} /\ eng.fillDay = NoDay
        \/ /\ stage = "running" /\ cursor < WindowSize(cfg)
           /\ eng.fillDay = Window(cfg)[cursor + 1]

\* Every session that fires has exactly one evaluation or one note saying why
\* there is none, and no other session has any.
EveryFiringAccounted ==
    \A d \in Completed :
        Cardinality(On(d, eng.evaluations)) + Cardinality(On(d, eng.notes))
            = IF d \in Fires(cfg) THEN 1 ELSE 0

\* An order is filled at the session its evaluation announced, once, and nothing
\* is filled that no evaluation proposed.
FillsWerePlanned ==
    /\ \A i \in DOMAIN eng.fills :
          \E j \in DOMAIN eng.evaluations :
              /\ eng.evaluations[j].ok
              /\ eng.evaluations[j].day < eng.fills[i].day
              /\ eng.evaluations[j].fillDay = eng.fills[i].day
              /\ \E o \in eng.evaluations[j].orders :
                    /\ o.side = eng.fills[i].fill.side /\ o.asset = eng.fills[i].fill.asset
                    /\ o.qty >= eng.fills[i].fill.qty
    /\ \A j \in DOMAIN eng.evaluations :
          LET ev == eng.evaluations[j]
          IN  ev.ok /\ ev.fillDay \in Completed =>
                  Cardinality(On(ev.fillDay, eng.fills)) = Cardinality(ev.orders)

\* The recorded fills explain the final state from the starting one, whatever
\* session a run fails in.
FactsExplainBook ==
    LET filled == [i \in DOMAIN eng.fills |-> eng.fills[i].fill]
    IN  /\ eng.book.cash = cfg.book.cash + SumOf([i \in DOMAIN filled |-> filled[i].delta])
        /\ \A a \in Assets :
              eng.book.qty[a] = cfg.book.qty[a]
                                    + SumOf([i \in DOMAIN filled |-> LotsMoved(filled[i], a)])

\* One valuation per session in session order: a run that succeeded valued its
\* whole window, a failed one an unbroken prefix that ends no earlier than the
\* session before the failing one.
ValuedWithoutGaps ==
    /\ \A i \in DOMAIN eng.valuations : eng.valuations[i].day = Window(cfg)[i]
    /\ Len(eng.valuations) \in {cursor, cursor - 1}
    /\ eng.failure = "none" => Len(eng.valuations) = cursor

\* The trace is in the order of the instants it is about, and tells the facts:
\* fills, proposals and notes at the sessions where the records have them.
TraceTellsFacts ==
    LET Instant(ev) == IF ev.type \in {"orders_filled", "state_transition"}
                       THEN OpenAt(ev.day) ELSE CloseAt(ev.day)
        DaysOf(type) == {ev.day : ev \in {eng.trace[i] : i \in
                            {k \in DOMAIN eng.trace : eng.trace[k].type = type}}}
    IN  /\ \A i, j \in DOMAIN eng.trace : i < j => Instant(eng.trace[i]) <= Instant(eng.trace[j])
        /\ DaysOf("orders_filled") = {eng.fills[i].day : i \in DOMAIN eng.fills}
        /\ DaysOf("note") = {eng.notes[i].day : i \in DOMAIN eng.notes}
        /\ DaysOf("orders_proposed") = {ev.day : ev \in {eng.evaluations[i] : i \in
               {k \in DOMAIN eng.evaluations : eng.evaluations[k].ok}}}
=============================================================================
