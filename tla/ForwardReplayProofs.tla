------------------------ MODULE ForwardReplayProofs ------------------------
(***************************************************************************)
(* A forward replay is the backtest, for every calendar, dataset and       *)
(* configuration and every history of snapshots, crashes and resumes, and  *)
(* only the completed run is saved.  The argument is AtBoundary: a driver  *)
(* or a snapshot at session k is the backtest after k sessions, which an   *)
(* advance carries to k + 1 because both take the same step, and a resume  *)
(* leaves alone because a snapshot holds every accumulator of the engine   *)
(* (IsEngine).  What a step computes is of no consequence to it.           *)
(* A run never looks ahead because each part of a step reads its dataset   *)
(* through the as-of view of an instant of its session only, where two     *)
(* datasets that have shown the same agree; and nothing dangles overnight  *)
(* because a step empties the queue before it fills it, and fills it for   *)
(* the next session of the window.                                         *)
(* The records of a run are accounted for phase by phase: each phase       *)
(* appends what its session owes and touches nothing else, so a step adds  *)
(* one session (StepHasRecords) and a failure is the last record.          *)
(* What the facts of a run say rests on the same phases.  The book is what *)
(* the fills make of the opening one, because apply_orders explains what   *)
(* it changes and nothing else touches a book (BookInv).  What waits was   *)
(* planned at the last evaluation and for the session after it, so that is *)
(* where every fill comes from (PlannedInv).  And each event of the trace  *)
(* is appended in the phase of the fact it stands for (TraceInv).          *)
(***************************************************************************)
EXTENDS ForwardReplay, OrdersProofs, FiniteSetTheorems, WellFoundedInduction, TLAPS

\* An engine is put together again from its accumulators.
LEMMA SameEngine ==
    ASSUME NEW e, IsEngine(e)
    PROVE  e = [book |-> e.book, pending |-> e.pending, fillDay |-> e.fillDay,
                valuations |-> e.valuations, stale |-> e.stale, evaluations |-> e.evaluations,
                fills |-> e.fills, notes |-> e.notes, trace |-> e.trace, failure |-> e.failure]
BY DEF IsEngine, Accumulators

LEMMA FreshIsEngine == \A c : IsEngine(Fresh(c))
BY DEF IsEngine, Fresh, Accumulators

LEMMA ExceptIsEngine ==
    ASSUME NEW e, IsEngine(e), NEW field, NEW v
    PROVE  IsEngine([e EXCEPT ![field] = v])
BY DEF IsEngine

LEMMA TracedIsEngine ==
    ASSUME NEW e, IsEngine(e), NEW type, NEW d
    PROVE  IsEngine(Traced(e, type, d))
BY ExceptIsEngine DEF Traced

LEMMA NotedIsEngine ==
    ASSUME NEW e, IsEngine(e), NEW code, NEW d
    PROVE  IsEngine(Noted(e, d, code))
BY TracedIsEngine, ExceptIsEngine DEF Noted

LEMMA AtOpenIsEngine ==
    ASSUME NEW f, NEW c, NEW e, IsEngine(e), NEW d
    PROVE  IsEngine(AtOpen(f, c, e, d))
BY TracedIsEngine, ExceptIsEngine DEF AtOpen

LEMMA AtCloseIsEngine ==
    ASSUME NEW f, NEW e, IsEngine(e), NEW d
    PROVE  IsEngine(AtClose(f, e, d))
BY ExceptIsEngine DEF AtClose

LEMMA EvaluatedIsEngine ==
    ASSUME NEW f, NEW c, NEW e, IsEngine(e), NEW d
    PROVE  IsEngine(Evaluated(f, c, e, d))
BY TracedIsEngine, ExceptIsEngine DEF Evaluated

LEMMA AtEvaluationIsEngine ==
    ASSUME NEW f, NEW c, NEW e, IsEngine(e), NEW d
    PROVE  IsEngine(AtEvaluation(f, c, e, d))
BY NotedIsEngine, EvaluatedIsEngine DEF AtEvaluation

LEMMA StepIsEngine ==
    ASSUME NEW f, NEW c, NEW e, IsEngine(e), NEW d
    PROVE  IsEngine(StepOf(f, c, e, d))
BY AtOpenIsEngine, AtCloseIsEngine, AtEvaluationIsEngine DEF StepOf

-----------------------------------------------------------------------------
(* What a step adds to the valuations.                                     *)

LEMMA ExceptKeepsValuations ==
    ASSUME NEW e, IsEngine(e), NEW field, field # "valuations", NEW v
    PROVE  [e EXCEPT ![field] = v].valuations = e.valuations
BY DEF IsEngine, Accumulators

LEMMA TracedKeepsValuations ==
    ASSUME NEW e, IsEngine(e), NEW type, NEW d
    PROVE  Traced(e, type, d).valuations = e.valuations
BY ExceptKeepsValuations DEF Traced

LEMMA NotedKeepsValuations ==
    ASSUME NEW e, IsEngine(e), NEW code, NEW d
    PROVE  Noted(e, d, code).valuations = e.valuations
<1>. DEFINE noted == [e EXCEPT !.notes = Append(@, [day |-> d, code |-> code])]
<1>1. IsEngine(noted) /\ noted.valuations = e.valuations
  BY ExceptKeepsValuations, ExceptIsEngine
<1>2. Noted(e, d, code) = Traced(noted, "note", d)
  BY DEF Noted
<1>. HIDE DEF noted
<1>. QED BY <1>1, <1>2, TracedKeepsValuations

LEMMA AtOpenKeepsValuations ==
    ASSUME NEW f, NEW c, NEW e, IsEngine(e), NEW d
    PROVE  AtOpen(f, c, e, d).valuations = e.valuations
BY TracedIsEngine, ExceptIsEngine, TracedKeepsValuations, ExceptKeepsValuations DEF AtOpen

LEMMA AtCloseAddsValuation ==
    ASSUME NEW f, NEW e, IsEngine(e), NEW d
    PROVE  \/ AtClose(f, e, d).valuations = e.valuations
           \/ \E entry : entry.day = d /\ AtClose(f, e, d).valuations = Append(e.valuations, entry)
BY ExceptIsEngine, ExceptKeepsValuations DEF AtClose, IsEngine, Accumulators

LEMMA EvaluatedKeepsValuations ==
    ASSUME NEW f, NEW c, NEW e, IsEngine(e), NEW d
    PROVE  Evaluated(f, c, e, d).valuations = e.valuations
<1>. DEFINE closes == [a \in Assets |->
                         IF AsOfSessionClose(f.closeAvail, a, d, CloseAt(d)) = d
                         THEN f.close[a][d] ELSE NoPrice]
            plan == Reconciled(e.book, c.graph[d], closes)
            record == [day |-> d, ok |-> plan.ok, orders |-> plan.orders,
                       fillDay |-> NextSessionAfter(d)]
            graphed == Traced(e, "graph", d)
            logged == [graphed EXCEPT !.evaluations = Append(@, record)]
            proposed == [logged EXCEPT !.pending = plan.orders]
            queued == IF plan.orders = {} THEN logged
                      ELSE [proposed EXCEPT !.fillDay = record.fillDay]
<1>1. IsEngine(graphed) /\ graphed.valuations = e.valuations
  BY TracedIsEngine, TracedKeepsValuations
<1>2. Evaluated(f, c, e, d) \in {[graphed EXCEPT !.failure = "evaluation_failed"],
                                 [logged EXCEPT !.failure = "reconciliation_failed"],
                                 Traced(queued, "orders_proposed", d)}
  BY DEF Evaluated
<1>. HIDE DEF closes, plan, record, graphed
<1>3. IsEngine(logged) /\ logged.valuations = e.valuations
  BY <1>1, ExceptIsEngine, ExceptKeepsValuations
<1>. HIDE DEF logged
<1>4. IsEngine(proposed) /\ proposed.valuations = e.valuations
  BY <1>3, ExceptIsEngine, ExceptKeepsValuations
<1>. HIDE DEF proposed
<1>5. IsEngine(queued) /\ queued.valuations = e.valuations
  BY <1>3, <1>4, ExceptIsEngine, ExceptKeepsValuations
<1>. HIDE DEF queued
<1>6. /\ Traced(queued, "orders_proposed", d).valuations = e.valuations
      /\ [graphed EXCEPT !.failure = "evaluation_failed"].valuations = e.valuations
      /\ [logged EXCEPT !.failure = "reconciliation_failed"].valuations = e.valuations
  BY <1>1, <1>3, <1>5, TracedKeepsValuations, ExceptKeepsValuations
<1>. QED BY <1>2, <1>6

LEMMA StepAddsValuation ==
    ASSUME NEW f, NEW c, NEW e, IsEngine(e), NEW d
    PROVE  \/ StepOf(f, c, e, d).valuations = e.valuations
           \/ \E entry : /\ entry.day = d
                         /\ StepOf(f, c, e, d).valuations = Append(e.valuations, entry)
<1>. DEFINE opened == AtOpen(f, c, e, d)
            valued == AtClose(f, opened, d)
<1>1. IsEngine(opened) /\ opened.valuations = e.valuations
  BY AtOpenIsEngine, AtOpenKeepsValuations
<1>2. /\ IsEngine(valued)
      /\ \/ valued.valuations = e.valuations
         \/ \E entry : entry.day = d /\ valued.valuations = Append(e.valuations, entry)
  <2>. HIDE DEF opened
  <2>. QED BY <1>1, AtCloseIsEngine, AtCloseAddsValuation
<1>3. AtEvaluation(f, c, valued, d).valuations = valued.valuations
  <2>. HIDE DEF valued
  <2>. QED BY <1>2, NotedKeepsValuations, EvaluatedKeepsValuations DEF AtEvaluation
<1>4. StepOf(f, c, e, d) \in {opened, valued, AtEvaluation(f, c, valued, d)}
  BY DEF StepOf
<1>. HIDE DEF opened, valued
<1>. QED BY <1>1, <1>2, <1>3, <1>4

-----------------------------------------------------------------------------
\* Appending to a list.
LEMMA AppendToList ==
    ASSUME NEW n \in Nat, NEW s, IsList(s, n), NEW v
    PROVE  /\ Len(s) = n
           /\ IsList(Append(s, v), n + 1) /\ Len(Append(s, v)) = n + 1
           /\ Append(s, v)[n + 1] = v
           /\ \A i \in 1 .. n : Append(s, v)[i] = s[i]
<1>. DEFINE S == {s[i] : i \in 1 .. n} \cup {v}
<1>1. s \in [1 .. n -> S] /\ v \in S
  BY DEF IsList
<1>. HIDE DEF S
<1>2. s \in Seq(S) /\ Len(s) = n
  BY <1>1
<1>3. Append(s, v) \in Seq(S) /\ Len(Append(s, v)) = n + 1
  BY <1>1, <1>2
<1>4. Append(s, v)[n + 1] = v /\ \A i \in 1 .. n : Append(s, v)[i] = s[i]
  BY <1>1, <1>2
<1>5. IsList(Append(s, v), n + 1)
  BY <1>3 DEF IsList
<1>. QED BY <1>2, <1>3, <1>4, <1>5

LEMMA WindowFacts ==
    ASSUME NEW c \in Configs
    PROVE  /\ WindowSize(c) \in Nat /\ FirstDay(c) \in Nat
           /\ \A i \in 1 .. WindowSize(c) :
                 Window(c)[i] = FirstDay(c) + i - 1 /\ Window(c)[i] \in Days
           /\ WindowSize(c) > 0 => FinalDay(c) = FirstDay(c) + WindowSize(c) - 1
<1>1. FirstDay(c) \in Days /\ FinalDay(c) \in Days
  BY EngineAssumption, MarketAssumption DEF FirstDay, FinalDay, Days, NoDay
<1>. QED BY <1>1, MarketAssumption DEF WindowSize, Window, Days

\* A step values its own session or none.
LEMMA StepIsValuedBefore ==
    ASSUME NEW e, IsEngine(e), cfg \in Configs, NEW i \in 1 .. WindowSize(cfg),
           ValuedBefore(e.valuations, i)
    PROVE  ValuedBefore(StepOf(feed, cfg, e, Window(cfg)[i]).valuations, i + 1)
<1>. DEFINE d == Window(cfg)[i]
            before == e.valuations
            after == StepOf(feed, cfg, e, d).valuations
            n == Len(before)
<1>1. d = FirstDay(cfg) + i - 1 /\ FirstDay(cfg) \in Nat /\ i \in Nat
  BY WindowFacts
<1>2. n \in Nat /\ IsList(before, n) /\ (n > 0 => before[n].day \in 0 .. FirstDay(cfg) + i - 2)
  BY DEF ValuedBefore
<1>3. after = before \/ \E entry : entry.day = d /\ after = Append(before, entry)
  <2>. HIDE DEF d
  <2>1. \/ StepOf(feed, cfg, e, d).valuations = e.valuations
        \/ \E entry : /\ entry.day = d
                      /\ StepOf(feed, cfg, e, d).valuations = Append(e.valuations, entry)
    BY StepAddsValuation
  <2>. QED BY <2>1
<1>. HIDE DEF before, after
<1>4. CASE after = before
  <2>1. 0 .. FirstDay(cfg) + i - 2 \subseteq 0 .. FirstDay(cfg) + (i + 1) - 2
    BY <1>1
  <2>. QED BY <1>2, <1>4, <2>1 DEF ValuedBefore, after
<1>5. CASE \E entry : entry.day = d /\ after = Append(before, entry)
  <2>1. PICK entry : entry.day = d /\ after = Append(before, entry)
    BY <1>5
  <2>2. IsList(after, n + 1) /\ Len(after) = n + 1 /\ after[n + 1].day = d
    BY <1>2, <2>1, AppendToList
  <2>3. d \in 0 .. FirstDay(cfg) + (i + 1) - 2
    BY <1>1
  <2>. QED BY <1>2, <2>2, <2>3 DEF ValuedBefore, after
<1>. QED BY <1>3, <1>4, <1>5

-----------------------------------------------------------------------------
(* The backtest and its boundaries.                                        *)

LEMMA InitEstablishesReplayInv == ReplayInit => ReplayInv
<1>. SUFFICES ASSUME ReplayInit PROVE ReplayInv
  OBVIOUS
<1>1. /\ cfg \in Configs /\ eng = Fresh(cfg) /\ cursor = 0 /\ stage = "preflight"
      /\ whole = <<>> /\ alive = FALSE /\ checkpoints = {} /\ saved = {} /\ verdict = "none"
  BY DEF ReplayInit, BothInit, Init
<1>2. cursor \in 0 .. WindowSize(cfg)
  BY <1>1, WindowFacts
<1>. QED BY <1>1, <1>2 DEF ReplayInv, SavedIsWhole

\* The first boundary.
LEMMA PreflightPreservesReplayInv ==
    ReplayInv /\ BothPreflight /\ Backtest => ReplayInv'
<1>. SUFFICES ASSUME ReplayInv, BothPreflight, Backtest PROVE ReplayInv'
  OBVIOUS
<1>1. /\ stage = "preflight" /\ eng' = [eng EXCEPT !.failure = PreflightFailure(cfg)]
      /\ stage' = IF eng'.failure = "none" THEN "running" ELSE "finished"
      /\ UNCHANGED <<feed, cfg, cursor>>
  BY DEF BothPreflight, Preflight
<1>2. /\ whole' = IF cfg \in ReplayConfigs THEN Append(whole, eng') ELSE whole
      /\ UNCHANGED <<alive, driver, checkpoints, saved, verdict>>
  BY DEF Backtest, replay
<1>3. /\ whole = <<>> /\ eng = Fresh(cfg) /\ cursor = 0 /\ ~alive /\ checkpoints = {} /\ saved = {}
      /\ cfg \in Configs /\ cursor \in 0 .. WindowSize(cfg) /\ SavedIsWhole
  BY <1>1 DEF ReplayInv
<1>4. IsEngine(eng') /\ eng'.valuations = <<>>
  <2>1. IsEngine(Fresh(cfg)) /\ Fresh(cfg).valuations = <<>>
    BY FreshIsEngine DEF Fresh
  <2>2. eng' = [Fresh(cfg) EXCEPT !.failure = PreflightFailure(cfg)]
    BY <1>1, <1>3
  <2>. QED BY <2>1, <2>2, ExceptIsEngine, ExceptKeepsValuations
<1>5. ValuedBefore(eng.valuations, 1)'
  BY <1>4 DEF ValuedBefore, IsList
<1>6. cfg \in ReplayConfigs => WholeIsSteps'
  <2>. SUFFICES ASSUME cfg \in ReplayConfigs PROVE WholeIsSteps'
    OBVIOUS
  <2>1. whole' = <<eng'>>
    BY <1>2, <1>3
  <2>2. IsList(whole', 1) /\ whole'[1] = eng'
    BY <2>1 DEF IsList
  <2>3. cursor' = 0 /\ cursor' + 1 = 1 /\ 1 .. cursor' = {} /\ 1 .. cursor' + 1 = {1}
    BY <1>1, <1>3
  <2>4. whole'[1] = [Fresh(cfg) EXCEPT !.failure = PreflightFailure(cfg)]'
    BY <2>2, <1>1, <1>3
  <2>5. \A i \in {1} : IsEngine(whole[i])' /\ ValuedBefore(whole[i].valuations, i)'
    <3>1. ValuedBefore(whole[1].valuations, 1)'
      BY <2>2, <1>1, <1>4, <1>5 DEF ValuedBefore
    <3>. QED BY <3>1, <2>2, <1>4
  <2>. QED BY <2>2, <2>3, <2>4, <2>5 DEF WholeIsSteps
<1>7. SavedIsWhole'
  BY <1>2, <1>3 DEF SavedIsWhole
<1>8. /\ stage' \in {"running", "finished"} /\ (stage' = "running" => eng'.failure = "none")
      /\ (stage' = "finished" => eng'.failure # "none")
  BY <1>1
<1>. QED BY <1>1, <1>2, <1>3, <1>6, <1>7, <1>8 DEF ReplayInv

\* The next boundary, which the step from the last one leads to.
LEMMA FeedPreservesReplayInv ==
    ReplayInv /\ BothFeedSession /\ Backtest => ReplayInv'
<1>. SUFFICES ASSUME ReplayInv, BothFeedSession, Backtest PROVE ReplayInv'
  OBVIOUS
<1>1. /\ stage = "running" /\ cursor < WindowSize(cfg) /\ cursor' = cursor + 1
      /\ eng' = StepOf(feed, cfg, eng, Window(cfg)[cursor + 1])
      /\ stage' = IF eng'.failure = "none" THEN "running" ELSE "finished"
      /\ UNCHANGED <<feed, cfg>>
  BY DEF BothFeedSession, FeedSession
<1>2. /\ whole' = IF cfg \in ReplayConfigs THEN Append(whole, eng') ELSE whole
      /\ UNCHANGED <<alive, driver, checkpoints, saved, verdict>>
  BY DEF Backtest, replay
<1>3. /\ eng.failure = "none" /\ ~alive /\ checkpoints = {} /\ saved = {}
      /\ cfg \in Configs /\ cursor \in 0 .. WindowSize(cfg) /\ SavedIsWhole
      /\ cfg \in ReplayConfigs => WholeIsSteps
  BY <1>1 DEF ReplayInv
<1>4. WindowSize(cfg) \in Nat /\ cursor \in Nat /\ cursor' \in 0 .. WindowSize(cfg)
  BY <1>1, <1>3, WindowFacts
<1>5. cfg \in ReplayConfigs => WholeIsSteps'
  <2>. SUFFICES ASSUME cfg \in ReplayConfigs PROVE WholeIsSteps'
    OBVIOUS
  <2>. DEFINE n == cursor + 1
  <2>1. WholeIsSteps /\ n \in Nat /\ n \in 1 .. WindowSize(cfg) /\ cursor' = n
    BY <1>1, <1>3, <1>4
  <2>2. /\ IsList(whole', n + 1) /\ whole'[n + 1] = eng'
        /\ \A i \in 1 .. n : whole'[i] = whole[i]
    <3>1. IsList(whole, n)
      BY <2>1 DEF WholeIsSteps
    <3>. QED BY <3>1, <2>1, <1>2, AppendToList
  <2>3. whole[n] = eng /\ IsEngine(eng) /\ ValuedBefore(eng.valuations, n)
    BY <2>1 DEF WholeIsSteps
  <2>4. IsEngine(eng') /\ ValuedBefore(eng'.valuations, n + 1)
    <3>. HIDE DEF n
    <3>. QED BY <2>1, <2>3, <1>1, <1>3, StepIsEngine, StepIsValuedBefore
  <2>5. ASSUME NEW i \in 1 .. n
        PROVE  /\ whole'[i].failure = "none"
               /\ whole'[i + 1] = StepOf(feed, cfg, whole'[i], Window(cfg)[i])
    <3>1. CASE i = n
      BY <3>1, <2>2, <2>3, <1>1, <1>3
    <3>2. CASE i # n
      <4>1. i \in 1 .. cursor /\ i + 1 \in 1 .. n
        BY <3>2, <1>4
      <4>. QED BY <4>1, <2>1, <2>2 DEF WholeIsSteps
    <3>. QED BY <3>1, <3>2
  <2>6. ASSUME NEW i \in 1 .. n + 1
        PROVE  IsEngine(whole'[i]) /\ ValuedBefore(whole[i].valuations, i)'
    <3>1. CASE i = n + 1
      BY <3>1, <2>2, <2>4, <1>1 DEF ValuedBefore
    <3>2. CASE i # n + 1
      <4>1. i \in 1 .. n
        BY <3>2, <2>1
      <4>2. whole'[i] = whole[i] /\ IsEngine(whole[i]) /\ ValuedBefore(whole[i].valuations, i)
        BY <4>1, <2>1, <2>2 DEF WholeIsSteps
      <4>. QED BY <4>2, <1>1 DEF ValuedBefore
    <3>. QED BY <3>1, <3>2
  <2>7. whole'[1] = [Fresh(cfg) EXCEPT !.failure = PreflightFailure(cfg)]
    <3>1. 1 \in 1 .. n
      BY <2>1
    <3>. QED BY <3>1, <2>1, <2>2 DEF WholeIsSteps
  <2>. QED BY <2>1, <2>2, <2>5, <2>6, <2>7, <1>1 DEF WholeIsSteps
<1>6. SavedIsWhole'
  BY <1>2, <1>3 DEF SavedIsWhole
<1>7. /\ stage' \in {"running", "finished"} /\ (stage' = "running" => eng'.failure = "none")
      /\ (stage' = "finished" => eng'.failure # "none")
  BY <1>1
<1>. QED BY <1>1, <1>2, <1>3, <1>4, <1>5, <1>6, <1>7 DEF ReplayInv

LEMMA BacktestDonePreservesReplayInv == ReplayInv /\ BacktestDone => ReplayInv'
<1>. SUFFICES ASSUME ReplayInv, BacktestDone PROVE ReplayInv'
  OBVIOUS
<1>1. /\ stage = "running" /\ cursor = WindowSize(cfg) /\ stage' = "finished"
      /\ UNCHANGED <<feed, cfg, eng, cursor, whole, alive, driver, checkpoints, saved, verdict>>
  BY DEF BacktestDone, BothFinish, Finish, replay
<1>2. /\ ~alive /\ checkpoints = {} /\ saved = {} /\ SavedIsWhole
      /\ cfg \in Configs /\ cursor \in 0 .. WindowSize(cfg)
      /\ cfg \in ReplayConfigs => WholeIsSteps
  BY <1>1 DEF ReplayInv
<1>3. cfg \in ReplayConfigs => WholeIsSteps'
  BY <1>1, <1>2 DEF WholeIsSteps, ValuedBefore
<1>4. SavedIsWhole'
  BY <1>1, <1>2 DEF SavedIsWhole
<1>. QED BY <1>1, <1>2, <1>3, <1>4 DEF ReplayInv

-----------------------------------------------------------------------------
(* The drivers at the boundaries.                                          *)

\* Where a driver stands when the backtest is over.
LEMMA BoundaryFacts ==
    ASSUME ReplayInv, cfg \in ReplayConfigs, stage = "finished", NEW d, AtBoundary(d)
    PROVE  /\ d.cursor \in 0 .. cursor /\ d.eng = whole[d.cursor + 1] /\ IsEngine(d.eng)
           /\ d = [eng |-> d.eng, cursor |-> d.cursor]
           /\ d.eng.failure = "none" => PreflightFailure(cfg) = "none"
           /\ Exhausted(d) => d.eng = eng
           /\ ~Exhausted(d) => d.cursor < cursor
           /\ CompletedRun(d.eng) => d.eng = eng
<1>. DEFINE k == d.cursor
<1>1. /\ WholeIsSteps /\ cfg \in Configs /\ cursor \in 0 .. WindowSize(cfg)
      /\ eng.failure # "none" \/ cursor = WindowSize(cfg)
  BY DEF ReplayInv
<1>2. WindowSize(cfg) \in Nat /\ cursor \in Nat /\ k \in 0 .. cursor /\ k \in Nat
  BY <1>1, WindowFacts DEF AtBoundary
<1>3. d.eng = whole[k + 1] /\ IsEngine(d.eng) /\ d = [eng |-> d.eng, cursor |-> k]
  BY <1>1, <1>2 DEF AtBoundary, WholeIsSteps
<1>4. eng = whole[cursor + 1]
  BY <1>1 DEF WholeIsSteps
<1>5. k < cursor => d.eng.failure = "none"
  BY <1>1, <1>2, <1>3 DEF WholeIsSteps
<1>6. k = cursor => d.eng = eng
  BY <1>3, <1>4
<1>7. d.eng.failure = "none" => PreflightFailure(cfg) = "none"
  <2>1. whole[1].failure = PreflightFailure(cfg)
    BY <1>1, FreshIsEngine DEF WholeIsSteps, IsEngine, Accumulators
  <2>2. CASE k = 0
    BY <2>1, <2>2, <1>3
  <2>3. CASE k # 0
    <3>1. 1 \in 1 .. cursor
      BY <2>3, <1>2
    <3>. QED BY <3>1, <2>1, <1>1 DEF WholeIsSteps
  <2>. QED BY <2>2, <2>3
<1>8. Exhausted(d) => k = cursor
  BY <1>1, <1>2, <1>5 DEF Exhausted
<1>9. ~Exhausted(d) => k < cursor
  BY <1>1, <1>2, <1>6 DEF Exhausted
<1>10. ASSUME CompletedRun(d.eng), k # cursor
       PROVE  FALSE
  <2>1. k < cursor /\ d.eng.failure = "none" /\ WindowSize(cfg) > 0 /\ k < WindowSize(cfg)
    BY <1>1, <1>2, <1>5, <1>10
  <2>. DEFINE valuations == d.eng.valuations
  <2>2. valuations # <<>> /\ valuations[Len(valuations)].day = FinalDay(cfg)
    BY <2>1, <1>10 DEF CompletedRun
  <2>3. ValuedBefore(valuations, k + 1)
    BY <1>1, <1>2, <1>3 DEF WholeIsSteps
  <2>4. FirstDay(cfg) \in Nat /\ FinalDay(cfg) = FirstDay(cfg) + WindowSize(cfg) - 1
    BY <2>1, <1>1, WindowFacts
  <2>. HIDE DEF valuations
  <2>5. CASE Len(valuations) > 0
    BY <2>1, <2>2, <2>3, <2>4, <2>5, <1>2 DEF ValuedBefore
  <2>6. CASE ~(Len(valuations) > 0)
    <3>1. Len(valuations) = 0
      BY <2>3, <2>6 DEF ValuedBefore
    <3>2. valuations = [i \in 1 .. 0 |-> valuations[i]]
      BY <2>3, <3>1 DEF ValuedBefore, IsList
    <3>3. valuations = <<>>
      BY <3>2
    <3>. QED BY <3>3, <2>2
  <2>. QED BY <2>5, <2>6
<1>. QED BY <1>2, <1>3, <1>6, <1>7, <1>8, <1>9, <1>10

\* What the caller does leaves the backtest alone.
LEMMA CallerPreservesReplayInv ==
    ASSUME ReplayInv, UNCHANGED <<bothVars, whole>>,
           alive' \/ checkpoints' # {} => cfg \in ReplayConfigs /\ stage = "finished",
           alive' => AtBoundary(driver'),
           \A ck \in checkpoints' : AtBoundary(ck),
           saved' # {} => stage = "finished",
           saved' \subseteq {eng}, verdict' # "conflict"
    PROVE  ReplayInv'
<1>1. UNCHANGED <<feed, cfg, eng, cursor, stage, whole>>
  BY DEF bothVars, vars
<1>2. cfg \in ReplayConfigs /\ stage # "preflight" => WholeIsSteps'
  BY <1>1 DEF ReplayInv, WholeIsSteps, ValuedBefore
<1>3. AtBoundary(driver') => AtBoundary(driver)'
  BY <1>1 DEF AtBoundary
<1>4. \A ck : AtBoundary(ck)' = AtBoundary(ck)
  BY <1>1 DEF AtBoundary
<1>5. SavedIsWhole'
  BY <1>1 DEF SavedIsWhole
<1>. QED BY <1>1, <1>2, <1>3, <1>4, <1>5 DEF ReplayInv

LEMMA ConstructPreservesReplayInv == ReplayInv /\ Construct => ReplayInv'
<1>. SUFFICES ASSUME ReplayInv, Construct PROVE ReplayInv'
  OBVIOUS
<1>1. /\ cfg \in ReplayConfigs /\ stage = "finished" /\ UNCHANGED <<bothVars, whole>>
      /\ driver' = [eng |-> [Fresh(cfg) EXCEPT !.failure = PreflightFailure(cfg)], cursor |-> 0]
      /\ UNCHANGED <<checkpoints, saved, verdict>>
  BY DEF Construct
<1>2. AtBoundary(driver')
  <2>1. cursor \in Nat /\ whole[1] = [Fresh(cfg) EXCEPT !.failure = PreflightFailure(cfg)]
    BY <1>1, WindowFacts DEF ReplayInv, WholeIsSteps
  <2>. QED BY <2>1, <1>1 DEF AtBoundary
<1>3. /\ \A ck \in checkpoints' : AtBoundary(ck)
      /\ saved' \subseteq {eng} /\ verdict' # "conflict"
  BY <1>1 DEF ReplayInv, SavedIsWhole
<1>. QED BY <1>1, <1>2, <1>3, CallerPreservesReplayInv

\* An advance takes the step that the backtest took.
LEMMA AdvancePreservesReplayInv == ReplayInv /\ Advance => ReplayInv'
<1>. SUFFICES ASSUME ReplayInv, Advance PROVE ReplayInv'
  OBVIOUS
<1>1. /\ alive /\ ~Exhausted(driver) /\ UNCHANGED <<bothVars, whole>>
      /\ driver' = [eng |-> StepOf(feed, cfg, driver.eng, Window(cfg)[driver.cursor + 1]),
                    cursor |-> driver.cursor + 1]
      /\ UNCHANGED <<alive, checkpoints, saved, verdict>>
  BY DEF Advance
<1>2. cfg \in ReplayConfigs /\ stage = "finished" /\ AtBoundary(driver)
  BY <1>1 DEF ReplayInv
<1>3. driver.cursor \in Nat /\ driver.cursor + 1 \in 1 .. cursor /\ cursor \in Nat
  <2>1. cursor \in Nat
    BY WindowFacts DEF ReplayInv
  <2>. QED BY <2>1, <1>1, <1>2, BoundaryFacts
<1>4. AtBoundary(driver')
  <2>. DEFINE i == driver.cursor + 1
  <2>1. driver.eng = whole[i]
    BY <1>2, BoundaryFacts
  <2>2. whole[i + 1] = StepOf(feed, cfg, whole[i], Window(cfg)[i])
    BY <1>2, <1>3 DEF ReplayInv, WholeIsSteps
  <2>3. driver' = [eng |-> whole[i + 1], cursor |-> i]
    BY <2>1, <2>2, <1>1
  <2>. QED BY <2>3, <1>3 DEF AtBoundary
<1>5. /\ \A ck \in checkpoints' : AtBoundary(ck)
      /\ saved' \subseteq {eng} /\ verdict' # "conflict"
  BY <1>1 DEF ReplayInv, SavedIsWhole
<1>. QED BY <1>1, <1>2, <1>4, <1>5, CallerPreservesReplayInv

LEMMA SnapshotPreservesReplayInv == ReplayInv /\ (Snapshot \/ Abandon) => ReplayInv'
<1>. SUFFICES ASSUME ReplayInv, Snapshot \/ Abandon PROVE ReplayInv'
  OBVIOUS
<1>1. /\ alive /\ UNCHANGED <<bothVars, whole, saved, verdict>>
      /\ alive' => driver' = driver
      /\ checkpoints' \subseteq checkpoints \cup {driver}
  BY DEF Snapshot, Abandon
<1>2. cfg \in ReplayConfigs /\ stage = "finished" /\ AtBoundary(driver)
  BY <1>1 DEF ReplayInv
<1>3. /\ \A ck \in checkpoints' : AtBoundary(ck)
      /\ saved' \subseteq {eng} /\ verdict' # "conflict"
  BY <1>1, <1>2 DEF ReplayInv, SavedIsWhole
<1>. QED BY <1>1, <1>2, <1>3, CallerPreservesReplayInv

\* A snapshot is restored as it was taken.
LEMMA ResumePreservesReplayInv == ReplayInv /\ Resume => ReplayInv'
<1>. SUFFICES ASSUME ReplayInv, Resume PROVE ReplayInv'
  OBVIOUS
<1>1. PICK ck \in checkpoints : driver' = Restored(ck)
  BY DEF Resume
<1>2. UNCHANGED <<bothVars, whole, checkpoints, saved, verdict>>
  BY DEF Resume
<1>3. cfg \in ReplayConfigs /\ stage = "finished" /\ AtBoundary(ck)
  BY <1>1 DEF ReplayInv
<1>4. /\ IsEngine(ck.eng) /\ ck = [eng |-> ck.eng, cursor |-> ck.cursor]
      /\ ck.eng.failure = "none" => PreflightFailure(cfg) = "none"
  BY <1>3, BoundaryFacts
<1>5. Restored(ck) = [eng |-> ck.eng, cursor |-> ck.cursor]
  BY <1>4, SameEngine DEF Restored
<1>6. /\ \A other \in checkpoints' : AtBoundary(other)
      /\ saved' \subseteq {eng} /\ verdict' # "conflict"
  BY <1>2 DEF ReplayInv, SavedIsWhole
<1>. QED BY <1>1, <1>2, <1>3, <1>4, <1>5, <1>6, CallerPreservesReplayInv

LEMMA SavePreservesReplayInv == ReplayInv /\ SaveResult => ReplayInv'
<1>. SUFFICES ASSUME ReplayInv, SaveResult PROVE ReplayInv'
  OBVIOUS
<1>1. alive /\ UNCHANGED <<bothVars, whole, alive, driver, checkpoints>>
  BY DEF SaveResult
<1>2. cfg \in ReplayConfigs /\ stage = "finished" /\ AtBoundary(driver)
  BY <1>1 DEF ReplayInv
<1>3. saved \subseteq {eng} /\ \A ck \in checkpoints : AtBoundary(ck)
  BY DEF ReplayInv, SavedIsWhole
<1>4. saved' \subseteq {eng} /\ verdict' # "conflict"
  <2>1. CASE ~CompletedRun(driver.eng)
    BY <2>1, <1>3 DEF SaveResult
  <2>2. CASE CompletedRun(driver.eng)
    <3>1. driver.eng = eng
      BY <2>2, <1>2, BoundaryFacts
    <3>. QED BY <3>1, <2>2, <1>3 DEF SaveResult
  <2>. QED BY <2>1, <2>2
<1>. QED BY <1>1, <1>2, <1>3, <1>4, CallerPreservesReplayInv

THEOREM ReplayInvariant == ReplaySpec => []ReplayInv
<1>1. ReplayInit => ReplayInv
  BY InitEstablishesReplayInv
<1>2. ReplayInv /\ [ReplayNext]_allVars => ReplayInv'
  <2>. SUFFICES ASSUME ReplayInv, [ReplayNext]_allVars PROVE ReplayInv'
    OBVIOUS
  <2>1. CASE UNCHANGED allVars
    <3>1. UNCHANGED <<bothVars, whole, alive, driver, checkpoints, saved, verdict>>
      BY <2>1 DEF allVars, replay
    <3>. QED BY <3>1, CallerPreservesReplayInv DEF ReplayInv, SavedIsWhole
  <2>2. CASE Backtest
    BY <2>2, PreflightPreservesReplayInv, FeedPreservesReplayInv DEF Backtest
  <2>. QED BY <2>1, <2>2, BacktestDonePreservesReplayInv, ConstructPreservesReplayInv,
           AdvancePreservesReplayInv, SnapshotPreservesReplayInv, ResumePreservesReplayInv,
           SavePreservesReplayInv DEF ReplayNext
<1>. QED BY <1>1, <1>2, PTL DEF ReplaySpec

\* However a forward driver is snapshotted, abandoned and resumed, it has at every
\* session what the backtest had there, and at the end the backtest's result
\* (forward.py advance, resume).
THEOREM ReplayIsAlwaysBacktest == ReplaySpec => []ReplayIsBacktest
<1>1. ReplayInv => ReplayIsBacktest
  BY BoundaryFacts DEF ReplayInv, ReplayIsBacktest
<1>. QED BY <1>1, ReplayInvariant, PTL

\* A run is saved whole or as the failure that ended it, and saving it again is no
\* conflict (runs.py save_run).
THEOREM SavedIsAlwaysWhole == ReplaySpec => []SavedIsWhole
<1>1. ReplayInv => SavedIsWhole
  BY DEF ReplayInv
<1>. QED BY <1>1, ReplayInvariant, PTL

-----------------------------------------------------------------------------
(* No look-ahead: two runs whose datasets have shown the same take the same *)
(* step, because every price that a step reads has been shown.              *)

\* A nonempty set of sessions has a latest one.
LEMMA LatestSessionExists ==
    ASSUME NEW S \in SUBSET Days, S # {}
    PROVE  \E d \in S : \A other \in S : other <= d
<1>. DEFINE T == {LastDay - d : d \in S}
            Less == OpToRel(<, Nat)
<1>1. T \subseteq Nat /\ T # {}
  <2>1. \A d \in Days : LastDay - d \in Nat
    BY MarketAssumption DEF Days
  <2>. QED BY <2>1
<1>2. \E k \in T : \A m \in T : <<m, k>> \notin Less
  <2>. HIDE DEF T, Less
  <2>1. IsWellFoundedOn(Less, Nat)
    BY NatLessThanWellFounded DEF Less
  <2>. QED BY <1>1, <2>1, WFMin
<1>3. \A k, m \in Nat : <<m, k>> \notin Less => k <= m
  BY DEF OpToRel
<1>4. PICK k \in T : \A m \in T : k <= m
  <2>. HIDE DEF T, Less
  <2>. QED BY <1>1, <1>2, <1>3
<1>5. PICK d \in S : k = LastDay - d
  OBVIOUS
<1>6. \A other \in S : LastDay - d <= LastDay - other
  BY <1>4, <1>5
<1>. QED BY <1>5, <1>6, MarketAssumption DEF Days

\* What is shown at an instant was shown at every later one.
LEMMA ShownIsKept ==
    ASSUME NEW avail, NEW price, NEW t \in Int, NEW s \in Int, s <= t,
           \A a \in Assets, d \in Days : avail[a][d] \in Int
    PROVE  Shown(avail, price, s) = {seen \in Shown(avail, price, t) : seen[3] <= s}
BY DEF Shown

\* The sessions that are visible, and their prices, are those shown.
LEMMA ShownIsSeen ==
    ASSUME NEW avail1, NEW price1, NEW avail2, NEW price2, NEW t, NEW a \in Assets,
           Shown(avail1, price1, t) = Shown(avail2, price2, t)
    PROVE  /\ VisibleDays(avail1, a, t) = VisibleDays(avail2, a, t)
           /\ \A d \in VisibleDays(avail1, a, t) : price1[a][d] = price2[a][d]
<1>1. ASSUME NEW x1, NEW p1, NEW x2, NEW p2, Shown(x1, p1, t) = Shown(x2, p2, t),
             NEW d \in VisibleDays(x1, a, t)
      PROVE  d \in VisibleDays(x2, a, t) /\ p1[a][d] = p2[a][d]
  <2>1. d \in Days /\ x1[a][d] <= t
    BY <1>1 DEF VisibleDays
  <2>2. <<a, d, x1[a][d], p1[a][d]>> \in Shown(x1, p1, t)
    BY <2>1 DEF Shown
  <2>3. <<a, d, x1[a][d], p1[a][d]>> \in Shown(x2, p2, t)
    BY <2>2, <1>1
  <2>4. PICK b \in Assets, k \in Days :
          /\ <<a, d, x1[a][d], p1[a][d]>> = <<b, k, x2[b][k], p2[b][k]>>
          /\ x2[b][k] <= t
    BY <2>3 DEF Shown
  <2>5. a = b /\ d = k
    BY <2>4
  <2>. QED BY <2>4, <2>5 DEF VisibleDays
<1>. QED BY <1>1

\* So is the latest close, which is visible if there is one.
LEMMA LatestCloseIsSeen ==
    ASSUME NEW avail1, NEW avail2, NEW a, NEW t, VisibleDays(avail1, a, t) = VisibleDays(avail2, a, t)
    PROVE  /\ AsOfLatestClose(avail1, a, t) = AsOfLatestClose(avail2, a, t)
           /\ AsOfLatestClose(avail1, a, t) \in VisibleDays(avail1, a, t) \cup {NoDay}
<1>. DEFINE V == VisibleDays(avail1, a, t)
<1>1. AsOfLatestClose(avail1, a, t) = AsOfLatestClose(avail2, a, t)
  BY DEF AsOfLatestClose
<1>2. V # {} => \E d \in V : \A other \in V : other <= d
  BY LatestSessionExists DEF VisibleDays
<1>. QED BY <1>1, <1>2 DEF AsOfLatestClose

LEMMA SameUpToEarlier ==
    ASSUME feed \in Feeds, feed2 \in Feeds, NEW t \in Int, NEW s \in Int, s <= t, SameUpTo(t)
    PROVE  SameUpTo(s)
<1>1. \A f \in Feeds : \A a \in Assets, d \in Days :
        f.closeAvail[a][d] \in Int /\ f.openAvail[a][d] \in Int
  <2>1. \A k \in Instants \cup {Never} : k \in Int
    BY MarketAssumption DEF Instants, Never
  <2>. QED BY <2>1, EngineAssumption DEF CloseAvailability, OpenAvailability
<1>2. /\ Shown(feed.closeAvail, feed.close, s) = Shown(feed2.closeAvail, feed2.close, s)
      /\ Shown(feed.openAvail, feed.open, s) = Shown(feed2.openAvail, feed2.open, s)
  BY <1>1, ShownIsKept DEF SameUpTo
<1>. QED BY <1>2 DEF SameUpTo

LEMMA SameOpen ==
    ASSUME NEW c, NEW e, NEW d \in Days, SameUpTo(OpenAt(d))
    PROVE  AtOpen(feed, c, e, d) = AtOpen(feed2, c, e, d)
<1>. DEFINE opens(f) == [a \in Assets |->
                            IF AsOfOpen(f.openAvail, a, d, OpenAt(d)) = d
                            THEN f.open[a][d] ELSE NoPrice]
<1>1. ASSUME NEW a \in Assets
      PROVE  /\ AsOfOpen(feed.openAvail, a, d, OpenAt(d)) = AsOfOpen(feed2.openAvail, a, d, OpenAt(d))
             /\ AsOfOpen(feed.openAvail, a, d, OpenAt(d)) = d => feed.open[a][d] = feed2.open[a][d]
  <2>1. Shown(feed.openAvail, feed.open, OpenAt(d)) = Shown(feed2.openAvail, feed2.open, OpenAt(d))
    BY DEF SameUpTo
  <2>2. d # NoDay
    BY MarketAssumption DEF Days, NoDay
  <2>. QED BY <2>1, <2>2, ShownIsSeen DEF AsOfOpen
<1>2. opens(feed) = opens(feed2)
  BY <1>1
<1>. QED BY <1>2 DEF AtOpen

LEMMA SameClose ==
    ASSUME NEW e, NEW d \in Days, SameUpTo(CloseAt(d))
    PROVE  AtClose(feed, e, d) = AtClose(feed2, e, d)
<1>. DEFINE held == Held(e.book)
            Mark(f) == [a \in held |-> AsOfLatestClose(f.closeAvail, a, CloseAt(d))]
            Prices(f, mark) == [a \in held |-> f.close[a][mark[a]]]
<1>1. ASSUME NEW a \in held
      PROVE  /\ Mark(feed)[a] = Mark(feed2)[a]
             /\ Mark(feed)[a] # NoDay => feed.close[a][Mark(feed)[a]] = feed2.close[a][Mark(feed)[a]]
  <2>1. a \in Assets
    BY DEF Held
  <2>2. Shown(feed.closeAvail, feed.close, CloseAt(d)) = Shown(feed2.closeAvail, feed2.close, CloseAt(d))
    BY DEF SameUpTo
  <2>3. /\ VisibleDays(feed.closeAvail, a, CloseAt(d)) = VisibleDays(feed2.closeAvail, a, CloseAt(d))
        /\ \A k \in VisibleDays(feed.closeAvail, a, CloseAt(d)) : feed.close[a][k] = feed2.close[a][k]
    BY <2>1, <2>2, ShownIsSeen
  <2>. QED BY <2>3, LatestCloseIsSeen
<1>2. Mark(feed) = Mark(feed2)
  BY <1>1
<1>3. CASE \E a \in held : Mark(feed)[a] = NoDay
  BY <1>2, <1>3 DEF AtClose
<1>4. CASE ~ \E a \in held : Mark(feed)[a] = NoDay
  <2>1. Prices(feed, Mark(feed)) = Prices(feed2, Mark(feed2))
    BY <1>1, <1>2, <1>4
  <2>. DEFINE Closed(mark, prices) ==
                 [e EXCEPT !.valuations = Append(@, [day |-> d, value |-> ValueOf(e.book, prices)]),
                           !.stale = @ \o StaleMarks(mark, {a \in held : mark[a] # d}, d)]
  <2>2. AtClose(feed, e, d) = Closed(Mark(feed), Prices(feed, Mark(feed)))
    BY <1>4 DEF AtClose
  <2>3. AtClose(feed2, e, d) = Closed(Mark(feed2), Prices(feed2, Mark(feed2)))
    BY <1>2, <1>4 DEF AtClose
  <2>. HIDE DEF Closed, Mark, Prices
  <2>. QED BY <1>2, <2>1, <2>2, <2>3
<1>. QED BY <1>3, <1>4

LEMMA SameEvaluation ==
    ASSUME NEW c, NEW e, NEW d \in Days, SameUpTo(CloseAt(d))
    PROVE  AtEvaluation(feed, c, e, d) = AtEvaluation(feed2, c, e, d)
<1>. DEFINE closes(f) == [a \in Assets |->
                             IF AsOfSessionClose(f.closeAvail, a, d, CloseAt(d)) = d
                             THEN f.close[a][d] ELSE NoPrice]
            Seen(f, a) == AsOfSessionClose(f.closeAvail, a, d, CloseAt(d))
<1>1. ASSUME NEW a \in Assets
      PROVE  Seen(feed, a) = Seen(feed2, a) /\ (Seen(feed, a) = d => feed.close[a][d] = feed2.close[a][d])
  <2>1. Shown(feed.closeAvail, feed.close, CloseAt(d)) = Shown(feed2.closeAvail, feed2.close, CloseAt(d))
    BY DEF SameUpTo
  <2>2. /\ VisibleDays(feed.closeAvail, a, CloseAt(d)) = VisibleDays(feed2.closeAvail, a, CloseAt(d))
        /\ \A k \in VisibleDays(feed.closeAvail, a, CloseAt(d)) : feed.close[a][k] = feed2.close[a][k]
    BY <2>1, ShownIsSeen
  <2>3. d # NoDay
    BY MarketAssumption DEF Days, NoDay
  <2>. QED BY <2>2, <2>3, LatestCloseIsSeen DEF AsOfSessionClose
<1>2. closes(feed) = closes(feed2)
  BY <1>1
<1>3. Evaluated(feed, c, e, d) = Evaluated(feed2, c, e, d)
  BY <1>2 DEF Evaluated
<1>. QED BY <1>3 DEF AtEvaluation

LEMMA SameStep ==
    ASSUME feed \in Feeds, feed2 \in Feeds, NEW c, NEW e, NEW d \in Days, SameUpTo(CloseAt(d))
    PROVE  StepOf(feed, c, e, d) = StepOf(feed2, c, e, d)
<1>1. SameUpTo(OpenAt(d))
  BY SameUpToEarlier DEF Days, OpenAt, CloseAt
<1>2. AtOpen(feed, c, e, d) = AtOpen(feed2, c, e, d)
  BY <1>1, SameOpen
<1>3. \A opened : AtClose(feed, opened, d) = AtClose(feed2, opened, d)
  BY SameClose
<1>4. \A valued : AtEvaluation(feed, c, valued, d) = AtEvaluation(feed2, c, valued, d)
  BY SameEvaluation
<1>. QED BY <1>2, <1>3, <1>4 DEF StepOf

\* The runs are the same as long as nothing that differs has been shown.
LEMMA TwinIsKept ==
    ASSUME TwinInv, BothNext
    PROVE  TwinInv'
<1>. USE DEF TwinInv
<1>1. WindowSize(cfg) \in Nat /\ cursor \in Nat
  BY WindowFacts
<1>2. CASE BothPreflight
  <2>1. /\ eng' = eng2' /\ UNCHANGED <<feed, feed2, cfg, cursor>>
        /\ stage' = "running" => eng'.failure = "none"
    BY <1>2 DEF BothPreflight, Preflight
  <2>. QED BY <2>1 DEF NoLookAheadInRun
<1>3. CASE BothFeedSession
  <2>. DEFINE d == Window(cfg)[cursor + 1]
  <2>1. /\ stage = "running" /\ cursor < WindowSize(cfg) /\ cursor' = cursor + 1
        /\ eng' = StepOf(feed, cfg, eng, d)
        /\ eng2' = IF eng2.failure # "none" THEN eng2 ELSE StepOf(feed2, cfg, eng2, d)
        /\ stage' = "running" => eng'.failure = "none"
        /\ UNCHANGED <<feed, feed2, cfg>>
    BY <1>3 DEF BothFeedSession, FeedSession
  <2>2. cursor + 1 \in 1 .. WindowSize(cfg) /\ d = FirstDay(cfg) + cursor /\ d \in Days
    BY <2>1, <1>1, WindowFacts
  <2>. HIDE DEF d
  <2>3. ASSUME SameUpTo(CloseAt(d))
        PROVE  eng' = eng2'
    <3>1. eng = eng2
      <4>1. CASE cursor = 0
        BY <4>1
      <4>2. CASE cursor # 0
        <5>. DEFINE last == Window(cfg)[cursor]
        <5>1. last = d - 1 /\ last \in Days /\ d \in Int
          BY <4>2, <2>1, <2>2, <1>1, WindowFacts DEF Days
        <5>2. CloseAt(last) <= CloseAt(d) /\ CloseAt(last) \in Int /\ CloseAt(d) \in Int
          BY <5>1 DEF CloseAt
        <5>3. SameUpTo(CloseAt(last))
          BY <5>2, <2>3, SameUpToEarlier
        <5>. QED BY <5>3, <4>2, <1>1 DEF NoLookAheadInRun
      <4>. QED BY <4>1, <4>2
    <3>. QED BY <3>1, <2>1, <2>2, <2>3, SameStep
  <2>4. NoLookAheadInRun'
    <3>1. SameUpTo(CloseAt(Window(cfg)[cursor]))' = SameUpTo(CloseAt(d))
      BY <2>1 DEF SameUpTo, d, Window, WindowSize, FirstDay, FinalDay
    <3>. QED BY <3>1, <2>3 DEF NoLookAheadInRun
  <2>5. cursor' # 0 /\ cursor' \in 0 .. WindowSize(cfg')
    BY <2>1, <1>1
  <2>. QED BY <2>1, <2>4, <2>5
<1>4. CASE BothFinish
  <2>1. UNCHANGED <<feed, feed2, cfg, eng, eng2, cursor>> /\ stage' = "finished"
    BY <1>4 DEF BothFinish, Finish
  <2>2. NoLookAheadInRun'
    BY <2>1 DEF NoLookAheadInRun, SameUpTo
  <2>. QED BY <2>1, <2>2
<1>. QED BY <1>2, <1>3, <1>4 DEF BothNext

\* No fact of a run depends on data that was not available when the fact was
\* established (backtest.py): whatever the rest of two datasets, as long as they
\* have shown the same, the runs over them are the same.
THEOREM RunNeverLooksAhead == ReplaySpec => []NoLookAheadInRun
<1>1. ReplayInit => TwinInv
  <2>. SUFFICES ASSUME ReplayInit PROVE TwinInv
    OBVIOUS
  <2>1. /\ cfg \in Configs /\ feed \in Feeds /\ feed2 \in Feeds /\ cursor = 0 /\ eng2 = eng
        /\ stage = "preflight"
    BY DEF ReplayInit, BothInit, Init
  <2>2. cursor \in 0 .. WindowSize(cfg)
    BY <2>1, WindowFacts
  <2>. QED BY <2>1, <2>2 DEF TwinInv, NoLookAheadInRun
<1>2. TwinInv /\ [ReplayNext]_allVars => TwinInv'
  <2>. SUFFICES ASSUME TwinInv, [ReplayNext]_allVars PROVE TwinInv'
    OBVIOUS
  <2>1. BothNext \/ UNCHANGED bothVars
    BY DEF ReplayNext, allVars, Backtest, BacktestDone, BothNext, Construct, Advance, Snapshot,
           Abandon, Resume, SaveResult
  <2>2. CASE UNCHANGED bothVars
    BY <2>2 DEF bothVars, vars, TwinInv, NoLookAheadInRun, SameUpTo
  <2>. QED BY <2>1, <2>2, TwinIsKept
<1>3. TwinInv => NoLookAheadInRun
  BY DEF TwinInv
<1>. QED BY <1>1, <1>2, <1>3, PTL DEF ReplaySpec

-----------------------------------------------------------------------------
(* The overnight queue: a step empties it before it fills it again, and only *)
(* for a session of the window.                                             *)

QueueIsEmpty(e) == e.pending = {} /\ e.fillDay = NoDay

LEMMA ExceptKeepsQueue ==
    ASSUME NEW e, IsEngine(e), NEW field, field \notin {"pending", "fillDay"}, NEW v
    PROVE  /\ [e EXCEPT ![field] = v].pending = e.pending
           /\ [e EXCEPT ![field] = v].fillDay = e.fillDay
BY DEF IsEngine, Accumulators

LEMMA TracedKeepsQueue ==
    ASSUME NEW e, IsEngine(e), NEW type, NEW d
    PROVE  Traced(e, type, d).pending = e.pending /\ Traced(e, type, d).fillDay = e.fillDay
BY ExceptKeepsQueue DEF Traced

LEMMA NotedKeepsQueue ==
    ASSUME NEW e, IsEngine(e), NEW code, NEW d
    PROVE  Noted(e, d, code).pending = e.pending /\ Noted(e, d, code).fillDay = e.fillDay
<1>. DEFINE noted == [e EXCEPT !.notes = Append(@, [day |-> d, code |-> code])]
<1>1. IsEngine(noted) /\ noted.pending = e.pending /\ noted.fillDay = e.fillDay
  BY ExceptIsEngine, ExceptKeepsQueue
<1>2. Noted(e, d, code) = Traced(noted, "note", d)
  BY DEF Noted
<1>. HIDE DEF noted
<1>. QED BY <1>1, <1>2, TracedKeepsQueue

\* What is not filled at its open was not waiting for it.
LEMMA AtOpenEmptiesQueue ==
    ASSUME NEW f, NEW c, NEW e, IsEngine(e), NEW d \in Days,
           QueueIsEmpty(e) \/ e.fillDay = d, AtOpen(f, c, e, d).failure = "none"
    PROVE  QueueIsEmpty(AtOpen(f, c, e, d))
<1>1. CASE e.fillDay # d
  BY <1>1 DEF AtOpen
<1>2. CASE e.fillDay = d
  <2>1. \A code : [e EXCEPT !.failure = code].failure = code
    BY DEF IsEngine, Accumulators
  <2>. DEFINE traced == Traced(Traced(e, "orders_filled", d), "state_transition", d)
  <2>2. IsEngine(traced)
    BY TracedIsEngine
  <2>3. \A book, fills : [traced EXCEPT !.book = book, !.fills = fills,
                                        !.pending = {}, !.fillDay = NoDay].pending = {}
    BY <2>2 DEF IsEngine, Accumulators
  <2>4. \A book, fills : [traced EXCEPT !.book = book, !.fills = fills,
                                        !.pending = {}, !.fillDay = NoDay].fillDay = NoDay
    BY <2>2 DEF IsEngine, Accumulators
  <2>. HIDE DEF traced
  <2>. QED BY <1>2, <2>1, <2>3, <2>4 DEF AtOpen, QueueIsEmpty, traced
<1>. QED BY <1>1, <1>2

LEMMA AtCloseKeepsQueue ==
    ASSUME NEW f, NEW e, IsEngine(e), NEW d
    PROVE  AtClose(f, e, d).pending = e.pending /\ AtClose(f, e, d).fillDay = e.fillDay
BY ExceptIsEngine, ExceptKeepsQueue DEF AtClose

\* What is planned waits for the next session.
LEMMA EvaluatedQueuesForNext ==
    ASSUME NEW f, NEW c, NEW e, IsEngine(e), QueueIsEmpty(e), NEW d
    PROVE  \/ QueueIsEmpty(Evaluated(f, c, e, d))
           \/ Evaluated(f, c, e, d).fillDay = NextSessionAfter(d)
<1>. DEFINE closes == [a \in Assets |->
                         IF AsOfSessionClose(f.closeAvail, a, d, CloseAt(d)) = d
                         THEN f.close[a][d] ELSE NoPrice]
            plan == Reconciled(e.book, c.graph[d], closes)
            record == [day |-> d, ok |-> plan.ok, orders |-> plan.orders,
                       fillDay |-> NextSessionAfter(d)]
            graphed == Traced(e, "graph", d)
            logged == [graphed EXCEPT !.evaluations = Append(@, record)]
            proposed == [logged EXCEPT !.pending = plan.orders]
            queued == [proposed EXCEPT !.fillDay = record.fillDay]
<1>1. IsEngine(graphed) /\ QueueIsEmpty(graphed)
  BY TracedIsEngine, TracedKeepsQueue DEF QueueIsEmpty
<1>2. Evaluated(f, c, e, d) \in {[graphed EXCEPT !.failure = "evaluation_failed"],
                                 [logged EXCEPT !.failure = "reconciliation_failed"],
                                 Traced(logged, "orders_proposed", d),
                                 Traced(queued, "orders_proposed", d)}
  BY DEF Evaluated
<1>3. record.fillDay = NextSessionAfter(d)
  OBVIOUS
<1>. HIDE DEF closes, plan, record, graphed
<1>4. IsEngine(logged) /\ QueueIsEmpty(logged)
  <2>1. IsEngine(logged)
    BY <1>1, ExceptIsEngine
  <2>2. logged.pending = graphed.pending /\ logged.fillDay = graphed.fillDay
    BY <1>1, ExceptKeepsQueue
  <2>. HIDE DEF logged
  <2>. QED BY <1>1, <2>1, <2>2 DEF QueueIsEmpty
<1>. HIDE DEF logged
<1>5. IsEngine(proposed)
  BY <1>4, ExceptIsEngine
<1>. HIDE DEF proposed
<1>6. IsEngine(queued) /\ queued.fillDay = NextSessionAfter(d)
  BY <1>3, <1>5, ExceptIsEngine DEF IsEngine, Accumulators
<1>. HIDE DEF queued
<1>7. /\ Traced(queued, "orders_proposed", d).fillDay = NextSessionAfter(d)
      /\ QueueIsEmpty(Traced(logged, "orders_proposed", d))
      /\ QueueIsEmpty([graphed EXCEPT !.failure = "evaluation_failed"])
      /\ QueueIsEmpty([logged EXCEPT !.failure = "reconciliation_failed"])
  BY <1>1, <1>4, <1>6, TracedKeepsQueue, ExceptKeepsQueue DEF QueueIsEmpty
<1>. QED BY <1>2, <1>7

LEMMA StepQueuesForNext ==
    ASSUME NEW f, NEW c \in Configs, NEW e, IsEngine(e), NEW d \in Days,
           QueueIsEmpty(e) \/ e.fillDay = d, StepOf(f, c, e, d).failure = "none"
    PROVE  \/ QueueIsEmpty(StepOf(f, c, e, d))
           \/ StepOf(f, c, e, d).fillDay = d + 1 /\ d + 1 <= FinalDay(c)
<1>. DEFINE opened == AtOpen(f, c, e, d)
            valued == AtClose(f, opened, d)
            step == StepOf(f, c, e, d)
<1>1. opened.failure = "none" /\ valued.failure = "none" /\ step = AtEvaluation(f, c, valued, d)
  BY DEF StepOf
<1>2. IsEngine(opened) /\ QueueIsEmpty(opened)
  BY <1>1, AtOpenIsEngine, AtOpenEmptiesQueue
<1>3. IsEngine(valued) /\ QueueIsEmpty(valued)
  <2>. HIDE DEF opened
  <2>. QED BY <1>2, AtCloseIsEngine, AtCloseKeepsQueue DEF QueueIsEmpty
<1>. HIDE DEF valued, step
<1>4. \A code : QueueIsEmpty(Noted(valued, d, code))
  BY <1>3, NotedKeepsQueue DEF QueueIsEmpty
<1>5. CASE step = Evaluated(f, c, valued, d) /\ NextSessionAfter(d) # NoDay
           /\ (c.last # NoDay => NextSessionAfter(d) <= c.last)
  <2>1. QueueIsEmpty(step) \/ step.fillDay = NextSessionAfter(d)
    BY <1>3, <1>5, EvaluatedQueuesForNext
  <2>2. NextSessionAfter(d) = d + 1 /\ d + 1 <= LastDay
    <3>1. NextSessionAfter(d) # NoDay
      BY <1>5
    <3>. QED BY <3>1, MarketAssumption DEF NextSessionAfter, Days, NoDay
  <2>3. NextSessionAfter(d) <= FinalDay(c)
    BY <1>5, <2>2 DEF FinalDay
  <2>. QED BY <2>1, <2>2, <2>3 DEF step
<1>6. \/ step = Evaluated(f, c, valued, d) /\ NextSessionAfter(d) # NoDay
         /\ (c.last # NoDay => NextSessionAfter(d) <= c.last)
      \/ step = valued
      \/ \E code : step = Noted(valued, d, code)
  <2>1. c.last \in Int /\ NextSessionAfter(d) \in Int
    BY EngineAssumption, MarketAssumption DEF Days, NoDay, NextSessionAfter
  <2>. QED BY <1>1, <2>1 DEF AtEvaluation
<1>. QED BY <1>3, <1>4, <1>5, <1>6 DEF step

\* Nothing is queued in an engine that is not running, but for a session of the
\* window yet to be fed.
QueueInv ==
    /\ cfg \in Configs /\ cursor \in 0 .. WindowSize(cfg)
    /\ IsEngine(eng)
    /\ stage = "preflight" => QueueIsEmpty(eng) /\ cursor = 0
    /\ stage = "running" => eng.failure = "none"
    /\ NothingDangles

LEMMA QueueIsKept ==
    ASSUME QueueInv, BothNext
    PROVE  QueueInv'
<1>1. CASE BothPreflight
  <2>1. /\ stage = "preflight" /\ UNCHANGED <<cfg, cursor>>
        /\ eng' = [eng EXCEPT !.failure = PreflightFailure(cfg)]
        /\ stage' = IF eng'.failure = "none" THEN "running" ELSE "finished"
    BY <1>1 DEF BothPreflight, Preflight
  <2>2. IsEngine(eng') /\ QueueIsEmpty(eng')
    <3>. HIDE DEF PreflightFailure
    <3>1. eng'.pending = eng.pending /\ eng'.fillDay = eng.fillDay
      BY <2>1, ExceptKeepsQueue DEF QueueInv
    <3>2. IsEngine(eng')
      BY <2>1, ExceptIsEngine DEF QueueInv
    <3>. QED BY <3>1, <3>2, <2>1 DEF QueueInv, QueueIsEmpty
  <2>. QED BY <2>1, <2>2 DEF QueueInv, NothingDangles, QueueIsEmpty
<1>2. CASE BothFeedSession
  <2>. DEFINE d == Window(cfg)[cursor + 1]
  <2>1. /\ stage = "running" /\ cursor < WindowSize(cfg) /\ cfg' = cfg /\ cursor' = cursor + 1
        /\ eng' = StepOf(feed, cfg, eng, d)
        /\ stage' = IF eng'.failure = "none" THEN "running" ELSE "finished"
    BY <1>2 DEF BothFeedSession, FeedSession
  <2>2. /\ cursor + 1 \in 1 .. WindowSize(cfg) /\ cursor' \in 0 .. WindowSize(cfg')
        /\ d \in Days /\ d = FirstDay(cfg) + cursor
    BY <2>1, WindowFacts DEF QueueInv
  <2>3. IsEngine(eng')
    BY <2>1, StepIsEngine DEF QueueInv
  <2>4. QueueIsEmpty(eng) \/ eng.fillDay = d
    BY <2>1 DEF QueueInv, NothingDangles, QueueIsEmpty
  <2>. HIDE DEF d
  <2>5. ASSUME eng'.failure = "none"
        PROVE  \/ QueueIsEmpty(eng')
               \/ eng'.fillDay = d + 1 /\ d + 1 <= FinalDay(cfg)
    BY <2>1, <2>2, <2>4, <2>5, StepQueuesForNext DEF QueueInv
  <2>6. ASSUME d + 1 <= FinalDay(cfg)
        PROVE  cursor' < WindowSize(cfg) /\ Window(cfg)[cursor' + 1] = d + 1
    <3>1. cfg \in Configs /\ FirstDay(cfg) \in Int /\ FinalDay(cfg) \in Int
      BY EngineAssumption, MarketAssumption DEF QueueInv, FirstDay, FinalDay, Days, NoDay
    <3>2. cursor' < WindowSize(cfg)
      BY <2>1, <2>2, <2>6, <3>1 DEF QueueInv, WindowSize
    <3>. QED BY <2>1, <2>2, <3>1, <3>2, WindowFacts DEF QueueInv
  <2>7. NothingDangles'
    <3>. SUFFICES ASSUME eng'.failure = "none"
                  PROVE  \/ QueueIsEmpty(eng')
                         \/ /\ stage' = "running" /\ cursor' < WindowSize(cfg')
                            /\ eng'.fillDay = Window(cfg')[cursor' + 1]
      BY DEF NothingDangles, QueueIsEmpty
    <3>. QED BY <2>1, <2>5, <2>6
  <2>. QED BY <2>1, <2>2, <2>3, <2>7 DEF QueueInv
<1>3. CASE BothFinish
  BY <1>3 DEF BothFinish, Finish, QueueInv, NothingDangles
<1>. QED BY <1>1, <1>2, <1>3 DEF BothNext

\* R16: whatever waits overnight for a fill waits for the very next session of
\* the window, and nothing is left waiting when a run ends (backtest.py), in a run
\* of any calendar, dataset and configuration.
THEOREM NothingEverDangles == ReplaySpec => []NothingDangles
<1>1. ReplayInit => QueueInv
  <2>. SUFFICES ASSUME ReplayInit PROVE QueueInv
    OBVIOUS
  <2>1. cfg \in Configs /\ cursor = 0 /\ eng = Fresh(cfg) /\ stage = "preflight"
    BY DEF ReplayInit, BothInit, Init
  <2>2. IsEngine(eng) /\ eng.pending = {} /\ eng.fillDay = NoDay
    BY <2>1, FreshIsEngine DEF Fresh
  <2>3. cursor \in 0 .. WindowSize(cfg)
    BY <2>1, WindowFacts
  <2>. QED BY <2>1, <2>2, <2>3 DEF QueueInv, QueueIsEmpty, NothingDangles
<1>2. QueueInv /\ [ReplayNext]_allVars => QueueInv'
  <2>. SUFFICES ASSUME QueueInv, [ReplayNext]_allVars PROVE QueueInv'
    OBVIOUS
  <2>1. BothNext \/ UNCHANGED bothVars
    BY DEF ReplayNext, allVars, Backtest, BacktestDone, BothNext, Construct, Advance, Snapshot,
           Abandon, Resume, SaveResult
  <2>2. CASE UNCHANGED bothVars
    BY <2>2 DEF bothVars, vars, QueueInv, NothingDangles
  <2>. QED BY <2>1, <2>2, QueueIsKept
<1>3. QueueInv => NothingDangles
  BY DEF QueueInv
<1>. QED BY <1>1, <1>2, <1>3, PTL DEF ReplaySpec

-----------------------------------------------------------------------------
(* What a session adds to the records.                                     *)

\* The accumulators that a part of a step leaves alone.
Keeps(e, after, touched) == \A field \in Accumulators \ touched : after[field] = e[field]

OpensAt(f, d) ==
    [a \in Assets |-> IF AsOfOpen(f.openAvail, a, d, OpenAt(d)) = d THEN f.open[a][d] ELSE NoPrice]

ClosesAt(f, d) ==
    [a \in Assets |-> IF AsOfSessionClose(f.closeAvail, a, d, CloseAt(d)) = d
                      THEN f.close[a][d] ELSE NoPrice]

FillsAt(f, c, e, d) == Applied(e.book, e.pending, OpensAt(f, d), c.bps)
PlanAt(f, c, e, d) == Reconciled(e.book, c.graph[d], ClosesAt(f, d))

Event(type, d) == [type |-> type, day |-> d]

LEMMA ExceptTouches ==
    ASSUME NEW e, IsEngine(e), NEW field \in Accumulators, NEW v
    PROVE  /\ IsEngine([e EXCEPT ![field] = v]) /\ [e EXCEPT ![field] = v][field] = v
           /\ Keeps(e, [e EXCEPT ![field] = v], {field})
BY DEF IsEngine, Keeps

LEMMA FailedIs ==
    ASSUME NEW e, IsEngine(e), NEW code, code # "none"
    PROVE  /\ IsEngine([e EXCEPT !["failure"] = code])
           /\ [e EXCEPT !["failure"] = code].failure # "none"
           /\ Keeps(e, [e EXCEPT !["failure"] = code], {"failure"})
<1>1. "failure" \in Accumulators
  BY DEF Accumulators
<1>. QED BY <1>1, ExceptTouches

LEMMA TracedIs ==
    ASSUME NEW e, IsEngine(e), NEW type, NEW d
    PROVE  /\ IsEngine(Traced(e, type, d)) /\ Keeps(e, Traced(e, type, d), {"trace"})
           /\ Traced(e, type, d).trace = Append(e.trace, Event(type, d))
<1>1. "trace" \in Accumulators
  BY DEF Accumulators
<1>. DEFINE longer == Append(e.trace, Event(type, d))
<1>2. Traced(e, type, d) = [e EXCEPT !["trace"] = longer]
  BY DEF Traced, Event
<1>. HIDE DEF longer
<1>3. /\ IsEngine([e EXCEPT !["trace"] = longer]) /\ [e EXCEPT !["trace"] = longer]["trace"] = longer
      /\ Keeps(e, [e EXCEPT !["trace"] = longer], {"trace"})
  BY <1>1, ExceptTouches
<1>. QED BY <1>2, <1>3 DEF longer

LEMMA NotedIs ==
    ASSUME NEW e, IsEngine(e), NEW code, NEW d
    PROVE  /\ IsEngine(Noted(e, d, code)) /\ Keeps(e, Noted(e, d, code), {"notes", "trace"})
           /\ Noted(e, d, code).notes = Append(e.notes, [day |-> d, code |-> code])
           /\ Noted(e, d, code).trace = Append(e.trace, Event("note", d))
<1>. DEFINE noted == [e EXCEPT !["notes"] = Append(e.notes, [day |-> d, code |-> code])]
<1>1. "notes" \in Accumulators /\ "trace" \in Accumulators
  BY DEF Accumulators
<1>2. /\ IsEngine(noted) /\ Keeps(e, noted, {"notes"})
      /\ noted.notes = Append(e.notes, [day |-> d, code |-> code])
  BY <1>1, ExceptTouches
<1>3. Noted(e, d, code) = Traced(noted, "note", d)
  BY DEF Noted
<1>. HIDE DEF noted
<1>4. /\ IsEngine(Noted(e, d, code)) /\ Keeps(noted, Noted(e, d, code), {"trace"})
      /\ Noted(e, d, code).trace = Append(noted.trace, Event("note", d))
  BY <1>2, <1>3, TracedIs
<1>. QED BY <1>1, <1>2, <1>4 DEF Keeps

\* OPEN: nothing waits, or the fills are refused, or the whole event is booked.
OpeningOf(f, c, e, opened, d) ==
    LET applied == FillsAt(f, c, e, d)
    IN  \/ e.fillDay # d /\ opened = e
        \/ opened.failure # "none" /\ Keeps(e, opened, {"failure"})
        \/ /\ e.fillDay = d /\ applied.refusals = {}
           /\ Keeps(e, opened, {"book", "fills", "pending", "fillDay", "trace"})
           /\ opened.book = applied.book
           /\ opened.fills = e.fills \o [i \in DOMAIN applied.fills |->
                                           [day |-> d, fill |-> applied.fills[i]]]
           /\ opened.pending = {} /\ opened.fillDay = NoDay
           /\ opened.trace = Append(Append(e.trace, Event("orders_filled", d)),
                                    Event("state_transition", d))

LEMMA AtOpenIs ==
    ASSUME NEW f, NEW c, NEW e, IsEngine(e), NEW d
    PROVE  IsEngine(AtOpen(f, c, e, d)) /\ OpeningOf(f, c, e, AtOpen(f, c, e, d), d)
<1>. DEFINE applied == FillsAt(f, c, e, d)
            filled == [i \in DOMAIN applied.fills |-> [day |-> d, fill |-> applied.fills[i]]]
            once == Traced(e, "orders_filled", d)
            traced == Traced(once, "state_transition", d)
            code == IF applied.refusals = {"missing_open_price"}
                    THEN "missing_open_price" ELSE "invalid_order"
            failed == [e EXCEPT !["failure"] = code]
            booked == [traced EXCEPT !["book"] = applied.book]
            recorded == [booked EXCEPT !["fills"] = traced.fills \o filled]
            emptied == [recorded EXCEPT !["pending"] = {}]
            done == [emptied EXCEPT !["fillDay"] = NoDay]
<1>1. AtOpen(f, c, e, d) = IF e.fillDay # d THEN e
                           ELSE IF applied.refusals # {} THEN failed ELSE done
  BY DEF AtOpen, FillsAt, OpensAt
<1>2. /\ "trace" \in Accumulators /\ "book" \in Accumulators /\ "fills" \in Accumulators
      /\ "pending" \in Accumulators /\ "fillDay" \in Accumulators /\ "failure" \in Accumulators
  BY DEF Accumulators
<1>3. IsEngine(failed) /\ Keeps(e, failed, {"failure"}) /\ failed.failure # "none"
  BY <1>2, ExceptTouches
<1>4. /\ IsEngine(once) /\ Keeps(e, once, {"trace"})
      /\ once.trace = Append(e.trace, Event("orders_filled", d))
  BY TracedIs
<1>. HIDE DEF once, applied, filled
<1>5. /\ IsEngine(traced) /\ Keeps(once, traced, {"trace"})
      /\ traced.trace = Append(once.trace, Event("state_transition", d))
  BY <1>4, TracedIs
<1>. HIDE DEF traced
<1>6. IsEngine(booked) /\ Keeps(traced, booked, {"book"}) /\ booked.book = applied.book
  BY <1>2, <1>5, ExceptTouches
<1>. HIDE DEF booked
<1>7. /\ IsEngine(recorded) /\ Keeps(booked, recorded, {"fills"})
      /\ recorded.fills = traced.fills \o filled
  BY <1>2, <1>6, ExceptTouches
<1>. HIDE DEF recorded
<1>8. IsEngine(emptied) /\ Keeps(recorded, emptied, {"pending"}) /\ emptied.pending = {}
  BY <1>2, <1>7, ExceptTouches
<1>. HIDE DEF emptied
<1>9. IsEngine(done) /\ Keeps(emptied, done, {"fillDay"}) /\ done.fillDay = NoDay
  BY <1>2, <1>8, ExceptTouches
<1>. HIDE DEF done, failed
<1>10. /\ Keeps(e, done, {"book", "fills", "pending", "fillDay", "trace"})
       /\ done.book = applied.book /\ done.fills = e.fills \o filled /\ done.pending = {}
       /\ done.trace = Append(Append(e.trace, Event("orders_filled", d)),
                              Event("state_transition", d))
  <2>1. Keeps(e, traced, {"trace"}) /\ traced.trace = Append(Append(e.trace, Event("orders_filled", d)),
                                                             Event("state_transition", d))
    BY <1>2, <1>4, <1>5 DEF Keeps
  <2>2. /\ Keeps(traced, recorded, {"book", "fills"})
        /\ recorded.book = applied.book /\ recorded.fills = traced.fills \o filled
    BY <1>2, <1>6, <1>7 DEF Keeps
  <2>3. Keeps(recorded, done, {"pending", "fillDay"}) /\ done.pending = {}
    BY <1>2, <1>8, <1>9 DEF Keeps
  <2>4. /\ Keeps(e, recorded, {"book", "fills", "trace"})
        /\ recorded.book = applied.book /\ recorded.fills = e.fills \o filled
        /\ recorded.trace = traced.trace
    BY <1>2, <2>1, <2>2 DEF Keeps
  <2>. QED BY <1>2, <2>1, <2>3, <2>4 DEF Keeps
<1>. DEFINE opened == AtOpen(f, c, e, d)
<1>11. CASE e.fillDay # d
  <2>1. opened = e
    BY <1>1, <1>11
  <2>. QED BY <2>1, <1>11 DEF OpeningOf
<1>12. CASE e.fillDay = d /\ applied.refusals # {}
  <2>1. opened = failed
    BY <1>1, <1>12
  <2>. QED BY <2>1, <1>3 DEF OpeningOf
<1>13. CASE e.fillDay = d /\ applied.refusals = {}
  <2>1. opened = done
    BY <1>1, <1>13
  <2>. HIDE DEF opened
  <2>2. OpeningOf(f, c, e, opened, d)
    <3>1. /\ e.fillDay = d /\ applied.refusals = {}
          /\ Keeps(e, opened, {"book", "fills", "pending", "fillDay", "trace"})
          /\ opened.book = applied.book /\ opened.fills = e.fills \o filled
          /\ opened.pending = {} /\ opened.fillDay = NoDay
          /\ opened.trace = Append(Append(e.trace, Event("orders_filled", d)),
                                   Event("state_transition", d))
      BY <1>9, <1>10, <1>13, <2>1 DEF Keeps
    <3>. QED BY <3>1 DEF OpeningOf, applied, filled
  <2>. QED BY <2>1, <2>2, <1>9 DEF opened
<1>. QED BY <1>11, <1>12, <1>13

\* CLOSE, valuation: one more valuation, or the failure.
LEMMA AtCloseIs ==
    ASSUME NEW f, NEW e, IsEngine(e), NEW d
    PROVE  LET valued == AtClose(f, e, d)
           IN  /\ IsEngine(valued)
               /\ \/ valued.failure # "none" /\ Keeps(e, valued, {"failure"})
                  \/ /\ Keeps(e, valued, {"valuations", "stale"})
                     /\ \E entry : /\ entry.day = d
                                   /\ valued.valuations = Append(e.valuations, entry)
<1>1. /\ "valuations" \in Accumulators /\ "stale" \in Accumulators /\ "failure" \in Accumulators
  BY DEF Accumulators
<1>. DEFINE failed == [e EXCEPT !["failure"] = "missing_valuation_price"]
            logged(entry) == [e EXCEPT !["valuations"] = Append(e.valuations, entry)]
            marked(entry, stale) == [logged(entry) EXCEPT !["stale"] = stale]
<1>2. \/ AtClose(f, e, d) = failed
      \/ \E entry, stale : entry.day = d /\ AtClose(f, e, d) = marked(entry, stale)
  <2>. DEFINE held == Held(e.book)
              mark == [a \in held |-> AsOfLatestClose(f.closeAvail, a, CloseAt(d))]
              entry == [day |-> d, value |-> ValueOf(e.book, [a \in held |-> f.close[a][mark[a]]])]
              stale == e.stale \o StaleMarks(mark, {a \in held : mark[a] # d}, d)
  <2>1. e.stale = logged(entry).stale
    BY <1>1, ExceptTouches DEF Keeps
  <2>2. AtClose(f, e, d) = IF \E a \in held : mark[a] = NoDay THEN failed
                           ELSE [logged(entry) EXCEPT !["stale"] = logged(entry).stale
                                   \o StaleMarks(mark, {a \in held : mark[a] # d}, d)]
    BY DEF AtClose
  <2>3. entry.day = d
    OBVIOUS
  <2>. HIDE DEF entry, mark, held, failed
  <2>. QED BY <2>1, <2>2, <2>3
<1>3. IsEngine(failed) /\ Keeps(e, failed, {"failure"}) /\ failed.failure # "none"
  BY FailedIs
<1>4. \A entry : /\ IsEngine(logged(entry)) /\ Keeps(e, logged(entry), {"valuations"})
                 /\ logged(entry).valuations = Append(e.valuations, entry)
  BY <1>1, ExceptTouches
<1>. HIDE DEF failed, logged
<1>5. \A entry, stale : /\ IsEngine(marked(entry, stale))
                        /\ Keeps(logged(entry), marked(entry, stale), {"stale"})
  BY <1>1, <1>4, ExceptTouches
<1>. HIDE DEF marked
<1>6. \A entry, stale : /\ Keeps(e, marked(entry, stale), {"valuations", "stale"})
                        /\ marked(entry, stale).valuations = Append(e.valuations, entry)
  BY <1>1, <1>4, <1>5 DEF Keeps
<1>. QED BY <1>2, <1>3, <1>5, <1>6

\* CLOSE, evaluation: the graph fails, the plan fails, or its orders wait.
EvaluationOf(f, c, e, after, d) ==
    LET plan == PlanAt(f, c, e, d)
        record == [day |-> d, ok |-> plan.ok, orders |-> plan.orders,
                   fillDay |-> NextSessionAfter(d)]
        graphed == Append(e.trace, Event("graph", d))
    IN  \/ /\ after.failure # "none" /\ Keeps(e, after, {"failure", "trace"})
           /\ after.trace = graphed
        \/ /\ after.failure # "none" /\ ~plan.ok /\ c.graph[d] # EvaluationFails
           /\ Keeps(e, after, {"failure", "trace", "evaluations"})
           /\ after.trace = graphed /\ after.evaluations = Append(e.evaluations, record)
        \/ /\ plan.ok /\ after.failure = e.failure /\ c.graph[d] # EvaluationFails
           /\ Keeps(e, after, {"pending", "fillDay", "trace", "evaluations"})
           /\ after.trace = Append(graphed, Event("orders_proposed", d))
           /\ after.evaluations = Append(e.evaluations, record)
           /\ IF plan.orders = {} THEN after.pending = e.pending /\ after.fillDay = e.fillDay
              ELSE after.pending = plan.orders /\ after.fillDay = NextSessionAfter(d)

LEMMA EvaluatedIs ==
    ASSUME NEW f, NEW c, NEW e, IsEngine(e), NEW d
    PROVE  /\ IsEngine(Evaluated(f, c, e, d))
           /\ EvaluationOf(f, c, e, Evaluated(f, c, e, d), d)
<1>. DEFINE plan == PlanAt(f, c, e, d)
            record == [day |-> d, ok |-> plan.ok, orders |-> plan.orders,
                       fillDay |-> NextSessionAfter(d)]
            graphed == Traced(e, "graph", d)
            logged == [graphed EXCEPT !["evaluations"] = Append(graphed.evaluations, record)]
            waiting == [logged EXCEPT !["pending"] = plan.orders]
            dated == [waiting EXCEPT !["fillDay"] = NextSessionAfter(d)]
            queued == IF plan.orders = {} THEN logged ELSE dated
            proposed == Traced(queued, "orders_proposed", d)
            failed == [graphed EXCEPT !["failure"] = "evaluation_failed"]
            unplanned == [logged EXCEPT !["failure"] = "reconciliation_failed"]
<1>1. Evaluated(f, c, e, d) = IF c.graph[d] = EvaluationFails THEN failed
                              ELSE IF ~plan.ok THEN unplanned ELSE proposed
  BY DEF Evaluated, PlanAt, ClosesAt
<1>2. /\ "trace" \in Accumulators /\ "evaluations" \in Accumulators /\ "pending" \in Accumulators
      /\ "fillDay" \in Accumulators /\ "failure" \in Accumulators
  BY DEF Accumulators
<1>3. /\ IsEngine(graphed) /\ Keeps(e, graphed, {"trace"})
      /\ graphed.trace = Append(e.trace, Event("graph", d))
  BY TracedIs
<1>. HIDE DEF plan, graphed, record
<1>4. /\ IsEngine(logged) /\ Keeps(graphed, logged, {"evaluations"})
      /\ logged.evaluations = Append(graphed.evaluations, record)
  BY <1>2, <1>3, ExceptTouches
<1>5. IsEngine(failed) /\ Keeps(graphed, failed, {"failure"}) /\ failed.failure # "none"
  BY <1>3, FailedIs
<1>. HIDE DEF logged, failed
<1>6. IsEngine(waiting) /\ Keeps(logged, waiting, {"pending"}) /\ waiting.pending = plan.orders
  BY <1>2, <1>4, ExceptTouches
<1>7. IsEngine(unplanned) /\ Keeps(logged, unplanned, {"failure"}) /\ unplanned.failure # "none"
  BY <1>4, FailedIs
<1>. HIDE DEF waiting, unplanned
<1>8. /\ IsEngine(dated) /\ Keeps(waiting, dated, {"fillDay"})
      /\ dated.fillDay = NextSessionAfter(d)
  BY <1>2, <1>6, ExceptTouches
<1>. HIDE DEF dated
<1>9. /\ IsEngine(queued) /\ Keeps(logged, queued, {"pending", "fillDay"})
      /\ IF plan.orders = {} THEN queued.pending = logged.pending /\ queued.fillDay = logged.fillDay
         ELSE queued.pending = plan.orders /\ queued.fillDay = NextSessionAfter(d)
  BY <1>2, <1>4, <1>6, <1>8 DEF Keeps
<1>. HIDE DEF queued
<1>10. /\ IsEngine(proposed) /\ Keeps(queued, proposed, {"trace"})
       /\ proposed.trace = Append(queued.trace, Event("orders_proposed", d))
  BY <1>9, TracedIs
<1>. HIDE DEF proposed
<1>11. Keeps(e, failed, {"failure", "trace"}) /\ failed.trace = graphed.trace
  BY <1>2, <1>3, <1>5 DEF Keeps
<1>12. /\ Keeps(e, unplanned, {"failure", "trace", "evaluations"})
       /\ unplanned.trace = graphed.trace
       /\ unplanned.evaluations = Append(e.evaluations, record)
  BY <1>2, <1>3, <1>4, <1>7 DEF Keeps
<1>13. /\ Keeps(e, proposed, {"pending", "fillDay", "trace", "evaluations"})
       /\ proposed.failure = e.failure
       /\ proposed.trace = Append(graphed.trace, Event("orders_proposed", d))
       /\ proposed.evaluations = Append(e.evaluations, record)
       /\ IF plan.orders = {} THEN proposed.pending = e.pending /\ proposed.fillDay = e.fillDay
          ELSE proposed.pending = plan.orders /\ proposed.fillDay = NextSessionAfter(d)
  BY <1>2, <1>3, <1>4, <1>9, <1>10 DEF Keeps
<1>. QED BY <1>1, <1>3, <1>5, <1>7, <1>10, <1>11, <1>12, <1>13 DEF plan, record, EvaluationOf

-----------------------------------------------------------------------------
(* The records of a run are complete.                                      *)

Listed(s) == Len(s) \in Nat /\ IsList(s, Len(s))

LEMMA AppendListed ==
    ASSUME NEW s, Listed(s), NEW v
    PROVE  /\ Listed(Append(s, v)) /\ Len(Append(s, v)) = Len(s) + 1
           /\ DOMAIN s = 1 .. Len(s) /\ DOMAIN Append(s, v) = 1 .. Len(s) + 1
           /\ Append(s, v)[Len(s) + 1] = v
           /\ \A i \in 1 .. Len(s) : Append(s, v)[i] = s[i]
<1>. DEFINE n == Len(s)
            t == Append(s, v)
<1>1. n \in Nat /\ IsList(s, n)
  BY DEF Listed
<1>2. /\ IsList(t, n + 1) /\ Len(t) = n + 1 /\ t[n + 1] = v /\ \A i \in 1 .. n : t[i] = s[i]
  <2>. HIDE DEF n
  <2>. QED BY <1>1, AppendToList
<1>. HIDE DEF t
<1>3. DOMAIN s = 1 .. n /\ DOMAIN t = 1 .. n + 1
  BY <1>1, <1>2 DEF IsList
<1>. QED BY <1>1, <1>2, <1>3 DEF Listed, t

\* One record more is one more on its day, and on no other.
LEMMA OneRecordMore ==
    ASSUME NEW s, Listed(s), NEW v, NEW d
    PROVE  /\ IsFiniteSet(On(d, s)) /\ Cardinality(On(d, s)) \in Nat
           /\ Cardinality(On(d, Append(s, v)))
                = IF v.day = d THEN Cardinality(On(d, s)) + 1 ELSE Cardinality(On(d, s))
<1>. DEFINE n == Len(s)
            t == Append(s, v)
<1>1. /\ n \in Nat /\ DOMAIN s = 1 .. n /\ DOMAIN t = 1 .. n + 1 /\ t[n + 1] = v
      /\ \A i \in 1 .. n : t[i] = s[i]
  BY AppendListed DEF Listed
<1>. HIDE DEF n, t
<1>2. On(d, s) \subseteq 1 .. n /\ n + 1 \notin On(d, s)
  BY <1>1 DEF On
<1>3. IsFiniteSet(On(d, s)) /\ Cardinality(On(d, s)) \in Nat
  <2>1. IsFiniteSet(1 .. n)
    BY <1>1, FS_Interval
  <2>2. IsFiniteSet(On(d, s))
    BY <1>2, <2>1, FS_Subset
  <2>. QED BY <2>2, FS_CardinalityType
<1>4. On(d, t) = IF v.day = d THEN On(d, s) \cup {n + 1} ELSE On(d, s)
  BY <1>1 DEF On
<1>. QED BY <1>2, <1>3, <1>4, FS_AddElement DEF t

LEMMA NoRecord ==
    ASSUME NEW s, NEW d, \A i \in DOMAIN s : s[i].day # d
    PROVE  Cardinality(On(d, s)) = 0
<1>1. On(d, s) = {}
  BY DEF On
<1>. QED BY <1>1, FS_EmptySet

\* What a step adds to the records of values, evaluations and notes.
StepRecords(c, e, s, d) ==
    \/ /\ s.failure # "none"
       /\ Keeps(e, s, Accumulators \ {"valuations", "evaluations", "notes"})
    \/ /\ \E entry : entry.day = d /\ s.valuations = Append(e.valuations, entry)
       /\ \/ d \notin Fires(c) /\ s.evaluations = e.evaluations /\ s.notes = e.notes
          \/ /\ d \in Fires(c) /\ s.evaluations = e.evaluations
             /\ \E note : note.day = d /\ s.notes = Append(e.notes, note)
          \/ /\ d \in Fires(c) /\ s.notes = e.notes
             /\ \E ev : ev.day = d /\ s.evaluations = Append(e.evaluations, ev)
          \/ s.failure # "none" /\ s.evaluations = e.evaluations /\ s.notes = e.notes

LEMMA StepHasRecords ==
    ASSUME NEW f, NEW c, NEW e, IsEngine(e), NEW d
    PROVE  StepRecords(c, e, StepOf(f, c, e, d), d)
<1>. DEFINE opened == AtOpen(f, c, e, d)
            valued == AtClose(f, opened, d)
            after == AtEvaluation(f, c, valued, d)
            step == StepOf(f, c, e, d)
<1>1. step = IF opened.failure # "none" THEN opened
             ELSE IF valued.failure # "none" THEN valued ELSE after
  BY DEF StepOf
<1>2. {"valuations", "evaluations", "notes"} \subseteq Accumulators
  BY DEF Accumulators
<1>3. IsEngine(opened) /\ Keeps(e, opened, Accumulators \ {"valuations", "evaluations", "notes"})
  <2>1. /\ IsEngine(opened)
        /\ \/ opened = e
           \/ Keeps(e, opened, {"failure"})
           \/ Keeps(e, opened, {"book", "fills", "pending", "fillDay", "trace"})
    BY AtOpenIs DEF OpeningOf
  <2>. HIDE DEF opened
  <2>. QED BY <1>2, <2>1 DEF Keeps
<1>. HIDE DEF opened
<1>4. /\ IsEngine(valued)
      /\ \/ valued.failure # "none" /\ Keeps(opened, valued, {"failure"})
         \/ /\ Keeps(opened, valued, {"valuations", "stale"})
            /\ \E entry : entry.day = d /\ valued.valuations = Append(opened.valuations, entry)
  BY <1>3, AtCloseIs
<1>. HIDE DEF valued
<1>5. CASE opened.failure # "none"
  BY <1>1, <1>3, <1>5 DEF StepRecords
<1>6. CASE valued.failure # "none" /\ Keeps(opened, valued, {"failure"})
  BY <1>1, <1>2, <1>3, <1>5, <1>6 DEF StepRecords, Keeps
<1>7. CASE /\ opened.failure = "none" /\ Keeps(opened, valued, {"valuations", "stale"})
           /\ \E entry : entry.day = d /\ valued.valuations = Append(opened.valuations, entry)
  <2>1. /\ valued.evaluations = e.evaluations /\ valued.notes = e.notes
        /\ \E entry : entry.day = d /\ valued.valuations = Append(e.valuations, entry)
    BY <1>2, <1>3, <1>7 DEF Keeps
  <2>2. CASE valued.failure # "none"
    BY <1>1, <1>7, <2>1, <2>2 DEF StepRecords
  <2>3. CASE valued.failure = "none" /\ d \notin Fires(c)
    <3>1. step = valued
      BY <1>1, <1>7, <2>3 DEF AtEvaluation
    <3>. QED BY <2>1, <2>3, <3>1 DEF StepRecords
  <2>4. ASSUME valued.failure = "none", d \in Fires(c), NEW code, step = Noted(valued, d, code)
        PROVE  StepRecords(c, e, step, d)
    <3>1. /\ Keeps(valued, step, {"notes", "trace"})
          /\ step.notes = Append(valued.notes, [day |-> d, code |-> code])
      BY <1>4, <2>4, NotedIs
    <3>2. \E note : note.day = d /\ step.notes = Append(e.notes, note)
      BY <2>1, <3>1
    <3>3. step.valuations = valued.valuations /\ step.evaluations = valued.evaluations
      BY <1>2, <3>1 DEF Keeps
    <3>. HIDE DEF step
    <3>. QED BY <2>1, <2>4, <3>2, <3>3 DEF StepRecords
  <2>5. ASSUME valued.failure = "none", d \in Fires(c), step = Evaluated(f, c, valued, d)
        PROVE  StepRecords(c, e, step, d)
    <3>1. /\ Keeps(valued, step, {"failure", "trace", "evaluations", "pending", "fillDay"})
          /\ \/ \E ev : ev.day = d /\ step.evaluations = Append(valued.evaluations, ev)
             \/ step.failure # "none" /\ step.evaluations = valued.evaluations
      <4>. DEFINE plan == PlanAt(f, c, valued, d)
                  record == [day |-> d, ok |-> plan.ok, orders |-> plan.orders,
                             fillDay |-> NextSessionAfter(d)]
      <4>1. /\ Keeps(valued, step, {"failure", "trace", "evaluations", "pending", "fillDay"})
            /\ \/ step.evaluations = Append(valued.evaluations, record)
               \/ step.failure # "none" /\ step.evaluations = valued.evaluations
        <5>1. \/ /\ step.failure # "none" /\ Keeps(valued, step, {"failure", "trace"})
              \/ /\ Keeps(valued, step, {"failure", "trace", "evaluations"})
                 /\ step.evaluations = Append(valued.evaluations, record)
              \/ /\ Keeps(valued, step, {"pending", "fillDay", "trace", "evaluations"})
                 /\ step.evaluations = Append(valued.evaluations, record)
          <6>1. step = Evaluated(f, c, valued, d)
            BY <2>5
          <6>. HIDE DEF step
          <6>2. EvaluationOf(f, c, valued, step, d)
            BY <1>4, <6>1, EvaluatedIs
          <6>. QED BY <6>2 DEF EvaluationOf
        <5>. HIDE DEF step, record
        <5>. QED BY <1>2, <5>1 DEF Keeps
      <4>2. record.day = d
        OBVIOUS
      <4>. HIDE DEF record, step
      <4>. QED BY <4>1, <4>2
    <3>2. step.valuations = valued.valuations /\ step.notes = valued.notes
      BY <1>2, <3>1 DEF Keeps
    <3>. HIDE DEF step
    <3>. QED BY <2>1, <2>5, <3>1, <3>2 DEF StepRecords
  <2>6. CASE valued.failure = "none" /\ d \in Fires(c)
    <3>1. step = Evaluated(f, c, valued, d) \/ \E code : step = Noted(valued, d, code)
      BY <1>1, <1>7, <2>6 DEF AtEvaluation
    <3>. QED BY <2>4, <2>5, <2>6, <3>1
  <2>. HIDE DEF step
  <2>. QED BY <2>2, <2>3, <2>6 DEF step
<1>. QED BY <1>4, <1>5, <1>6, <1>7

\* The records so far are of the sessions fed.
AccountInv ==
    /\ cfg \in Configs /\ cursor \in 0 .. WindowSize(cfg)
    /\ IsEngine(eng)
    /\ stage = "preflight" => eng = Fresh(cfg) /\ cursor = 0
    /\ stage = "running" => eng.failure = "none"
    /\ Listed(eng.valuations) /\ Listed(eng.evaluations) /\ Listed(eng.notes)
    /\ \A i \in DOMAIN eng.evaluations : eng.evaluations[i].day \in SessionsFed
    /\ \A i \in DOMAIN eng.notes : eng.notes[i].day \in SessionsFed
    /\ ValuedWithoutGaps /\ EveryFiringAccounted

LEMMA EmptyRecord ==
    Listed(<<>>) /\ Len(<<>>) = 0 /\ DOMAIN <<>> = {} /\ \A d : On(d, <<>>) = {}
BY DEF Listed, IsList, On

LEMMA NothingAccountedYet ==
    ASSUME cfg \in Configs, cursor = 0, IsEngine(eng),
           eng.valuations = <<>>, eng.evaluations = <<>>, eng.notes = <<>>,
           stage = "preflight" => eng = Fresh(cfg),
           stage = "running" => eng.failure = "none"
    PROVE  AccountInv
<1>1. SessionsFed = {} /\ Completed = {} /\ cursor \in 0 .. WindowSize(cfg)
  BY WindowFacts DEF SessionsFed, Completed
<1>2. ValuedWithoutGaps /\ EveryFiringAccounted
  BY <1>1, EmptyRecord DEF ValuedWithoutGaps, EveryFiringAccounted
<1>. QED BY <1>1, <1>2, EmptyRecord DEF AccountInv

\* The sessions after one more has been fed.
LEMMA OneSessionMore ==
    ASSUME cfg \in Configs, cfg' = cfg, cursor \in 0 .. WindowSize(cfg),
           cursor < WindowSize(cfg), cursor' = cursor + 1
    PROVE  LET d == Window(cfg)[cursor + 1]
           IN  /\ SessionsFed' = SessionsFed \cup {d} /\ d \notin SessionsFed
               /\ Window(cfg')[cursor'] = d /\ d \in Days
               /\ cursor' \in 0 .. WindowSize(cfg')
<1>1. /\ WindowSize(cfg) \in Nat
      /\ \A i \in 1 .. WindowSize(cfg) : Window(cfg)[i] = FirstDay(cfg) + i - 1 /\ Window(cfg)[i] \in Days
  BY WindowFacts
<1>2. 1 .. cursor' = (1 .. cursor) \cup {cursor + 1} /\ FirstDay(cfg) \in Int
  BY WindowFacts
<1>3. SessionsFed' = SessionsFed \cup {Window(cfg)[cursor + 1]}
  BY <1>2 DEF SessionsFed
<1>4. Window(cfg)[cursor + 1] \notin SessionsFed
  BY <1>1, <1>2 DEF SessionsFed
<1>. QED BY <1>1, <1>3, <1>4

LEMMA FeedKeepsAccounts ==
    ASSUME AccountInv, FeedSession
    PROVE  AccountInv'
<1>. DEFINE d == Window(cfg)[cursor + 1]
<1>1. /\ stage = "running" /\ cursor < WindowSize(cfg) /\ cfg' = cfg /\ cursor' = cursor + 1
      /\ eng' = StepOf(feed, cfg, eng, d)
      /\ stage' = IF eng'.failure = "none" THEN "running" ELSE "finished"
  BY DEF FeedSession
<1>2. /\ SessionsFed' = SessionsFed \cup {d} /\ d \notin SessionsFed
      /\ Window(cfg')[cursor'] = d /\ cursor' \in 0 .. WindowSize(cfg')
  BY <1>1, OneSessionMore DEF AccountInv
<1>3. IsEngine(eng') /\ StepRecords(cfg, eng, eng', d)
  BY <1>1, StepIsEngine, StepHasRecords DEF AccountInv
<1>4. Len(eng.valuations) = cursor /\ cursor \in Nat /\ eng.failure = "none"
  BY <1>1 DEF AccountInv, ValuedWithoutGaps
<1>5. \A day \in SessionsFed : /\ day \in Completed
                               /\ day # d /\ day \in Completed'
  BY <1>1, <1>2, <1>4 DEF Completed
<1>6. d \in Completed' => eng'.failure = "none"
  BY <1>2 DEF Completed
<1>7. Completed' \subseteq SessionsFed \cup {d}
  BY <1>2 DEF Completed
<1>. HIDE DEF d
<1>8. /\ \A i \in DOMAIN eng.evaluations : eng.evaluations[i].day # d
      /\ \A i \in DOMAIN eng.notes : eng.notes[i].day # d
  BY <1>2 DEF AccountInv
<1>9. CASE /\ eng'.failure # "none"
           /\ Keeps(eng, eng', Accumulators \ {"valuations", "evaluations", "notes"})
  <2>1. /\ eng'.valuations = eng.valuations /\ eng'.evaluations = eng.evaluations
        /\ eng'.notes = eng.notes
    BY <1>9 DEF Keeps, Accumulators
  <2>2. ValuedWithoutGaps'
    BY <1>1, <1>4, <1>9, <2>1 DEF AccountInv, ValuedWithoutGaps
  <2>3. EveryFiringAccounted'
    BY <1>1, <1>5, <1>6, <1>7, <1>9, <2>1 DEF AccountInv, EveryFiringAccounted
  <2>. QED BY <1>1, <1>2, <1>3, <1>9, <2>1, <2>2, <2>3 DEF AccountInv
<1>10. CASE ~(/\ eng'.failure # "none"
              /\ Keeps(eng, eng', Accumulators \ {"valuations", "evaluations", "notes"}))
  <2>1. PICK entry : entry.day = d /\ eng'.valuations = Append(eng.valuations, entry)
    BY <1>3, <1>10 DEF StepRecords
  <2>2. \/ d \notin Fires(cfg) /\ eng'.evaluations = eng.evaluations /\ eng'.notes = eng.notes
        \/ /\ d \in Fires(cfg) /\ eng'.evaluations = eng.evaluations
           /\ \E note : note.day = d /\ eng'.notes = Append(eng.notes, note)
        \/ /\ d \in Fires(cfg) /\ eng'.notes = eng.notes
           /\ \E ev : ev.day = d /\ eng'.evaluations = Append(eng.evaluations, ev)
        \/ eng'.failure # "none" /\ eng'.evaluations = eng.evaluations /\ eng'.notes = eng.notes
    BY <1>3, <1>10 DEF StepRecords
  <2>3. Listed(eng'.valuations) /\ ValuedWithoutGaps'
    <3>1. /\ Listed(eng'.valuations) /\ Len(eng'.valuations) = cursor'
          /\ DOMAIN eng.valuations = 1 .. cursor /\ DOMAIN eng'.valuations = 1 .. cursor'
          /\ eng'.valuations[cursor'] = entry
          /\ \A i \in 1 .. cursor : eng'.valuations[i] = eng.valuations[i]
      BY <1>1, <1>4, <2>1, AppendListed DEF AccountInv
    <3>2. \A i \in 1 .. cursor : eng.valuations[i].day = Window(cfg)[i]
      BY <3>1 DEF AccountInv, ValuedWithoutGaps
    <3>3. \A i \in DOMAIN eng'.valuations : eng'.valuations[i].day = Window(cfg')[i]
      <4>1. 1 .. cursor' = (1 .. cursor) \cup {cursor'}
        BY <1>1, <1>4
      <4>. QED BY <1>1, <1>2, <2>1, <3>1, <3>2, <4>1
    <3>. QED BY <3>1, <3>3 DEF ValuedWithoutGaps
  <2>4. /\ Listed(eng'.evaluations) /\ Listed(eng'.notes)
        /\ \A i \in DOMAIN eng'.evaluations : eng'.evaluations[i].day \in SessionsFed'
        /\ \A i \in DOMAIN eng'.notes : eng'.notes[i].day \in SessionsFed'
    <3>1. ASSUME NEW s, Listed(s), \A i \in DOMAIN s : s[i].day \in SessionsFed,
                 NEW v, v.day = d, NEW t, t = s \/ t = Append(s, v)
          PROVE  Listed(t) /\ \A i \in DOMAIN t : t[i].day \in SessionsFed'
      <4>1. CASE t = s
        BY <1>2, <3>1, <4>1
      <4>2. CASE t = Append(s, v)
        <5>1. /\ Listed(t) /\ DOMAIN t = (DOMAIN s) \cup {Len(s) + 1} /\ t[Len(s) + 1] = v
              /\ \A i \in DOMAIN s : t[i] = s[i]
          BY <3>1, <4>2, AppendListed DEF Listed
        <5>. QED BY <1>2, <3>1, <5>1
      <4>. QED BY <3>1, <4>1, <4>2
    <3>2. /\ \E v : v.day = d /\ (eng'.evaluations = eng.evaluations \/ eng'.evaluations = Append(eng.evaluations, v))
          /\ \E v : v.day = d /\ (eng'.notes = eng.notes \/ eng'.notes = Append(eng.notes, v))
      BY <2>1, <2>2
    <3>. QED BY <3>1, <3>2 DEF AccountInv
  <2>5. ASSUME NEW day \in Completed'
        PROVE  Cardinality(On(day, eng'.evaluations)) + Cardinality(On(day, eng'.notes))
                 = IF day \in Fires(cfg) THEN 1 ELSE 0
    <3>1. CASE day \in SessionsFed
      <4>1. /\ day # d
            /\ Cardinality(On(day, eng.evaluations)) + Cardinality(On(day, eng.notes))
                 = IF day \in Fires(cfg) THEN 1 ELSE 0
        BY <1>5, <3>1 DEF AccountInv, EveryFiringAccounted
      <4>2. /\ Cardinality(On(day, eng'.evaluations)) = Cardinality(On(day, eng.evaluations))
            /\ Cardinality(On(day, eng'.notes)) = Cardinality(On(day, eng.notes))
        <5>1. \A v : v.day = d =>
                /\ Cardinality(On(day, Append(eng.evaluations, v)))
                     = Cardinality(On(day, eng.evaluations))
                /\ Cardinality(On(day, Append(eng.notes, v))) = Cardinality(On(day, eng.notes))
          BY <4>1, OneRecordMore DEF AccountInv
        <5>2. /\ \/ eng'.evaluations = eng.evaluations
                 \/ \E v : v.day = d /\ eng'.evaluations = Append(eng.evaluations, v)
              /\ \/ eng'.notes = eng.notes
                 \/ \E v : v.day = d /\ eng'.notes = Append(eng.notes, v)
          BY <2>2
        <5>3. Cardinality(On(day, eng'.evaluations)) = Cardinality(On(day, eng.evaluations))
          BY <5>1, <5>2
        <5>4. Cardinality(On(day, eng'.notes)) = Cardinality(On(day, eng.notes))
          <6>1. CASE eng'.notes = eng.notes
            BY <6>1
          <6>2. CASE \E v : v.day = d /\ eng'.notes = Append(eng.notes, v)
            <7>1. PICK v : v.day = d /\ eng'.notes = Append(eng.notes, v)
              BY <6>2
            <7>2. Cardinality(On(day, Append(eng.notes, v))) = Cardinality(On(day, eng.notes))
              BY <5>1, <7>1
            <7>. QED BY <7>1, <7>2
          <6>. QED BY <5>2, <6>1, <6>2
        <5>. QED BY <5>3, <5>4
      <4>. QED BY <4>1, <4>2
    <3>2. CASE day = d
      <4>1. eng'.failure = "none"
        BY <1>6, <2>5, <3>2
      <4>2. Cardinality(On(d, eng.evaluations)) = 0 /\ Cardinality(On(d, eng.notes)) = 0
        BY <1>8, NoRecord
      <4>3. \A v : v.day = d => /\ Cardinality(On(d, Append(eng.evaluations, v))) = 1
                                /\ Cardinality(On(d, Append(eng.notes, v))) = 1
        BY <4>2, OneRecordMore DEF AccountInv
      <4>4. CASE d \notin Fires(cfg) /\ eng'.evaluations = eng.evaluations /\ eng'.notes = eng.notes
        BY <3>2, <4>2, <4>4
      <4>5. CASE /\ d \in Fires(cfg) /\ eng'.evaluations = eng.evaluations
                 /\ \E note : note.day = d /\ eng'.notes = Append(eng.notes, note)
        BY <3>2, <4>2, <4>3, <4>5
      <4>6. CASE /\ d \in Fires(cfg) /\ eng'.notes = eng.notes
                 /\ \E ev : ev.day = d /\ eng'.evaluations = Append(eng.evaluations, ev)
        BY <3>2, <4>2, <4>3, <4>6
      <4>. QED BY <2>2, <4>1, <4>4, <4>5, <4>6
    <3>. QED BY <1>7, <2>5, <3>1, <3>2
  <2>6. EveryFiringAccounted'
    BY <1>1, <2>5 DEF EveryFiringAccounted
  <2>. QED BY <1>1, <1>2, <1>3, <2>3, <2>4, <2>6 DEF AccountInv
<1>. QED BY <1>9, <1>10

LEMMA AccountsAreKept == AccountInv /\ [BothNext]_bothVars => AccountInv'
<1>. SUFFICES ASSUME AccountInv, [BothNext]_bothVars PROVE AccountInv'
  OBVIOUS
<1>1. CASE UNCHANGED bothVars
  BY <1>1 DEF bothVars, vars, AccountInv, ValuedWithoutGaps, EveryFiringAccounted, SessionsFed,
     Completed
<1>2. CASE BothPreflight
  <2>1. /\ cfg' = cfg /\ cursor' = cursor /\ eng = Fresh(cfg) /\ cursor = 0
        /\ eng' = [eng EXCEPT !["failure"] = PreflightFailure(cfg)]
        /\ stage' = IF eng'.failure = "none" THEN "running" ELSE "finished"
    BY <1>2 DEF BothPreflight, Preflight, AccountInv
  <2>2. IsEngine(eng') /\ Keeps(eng, eng', {"failure"})
    <3>1. "failure" \in Accumulators
      BY DEF Accumulators
    <3>. HIDE DEF PreflightFailure
    <3>. QED BY <2>1, <3>1, ExceptTouches DEF AccountInv
  <2>3. eng'.valuations = <<>> /\ eng'.evaluations = <<>> /\ eng'.notes = <<>>
    BY <2>1, <2>2 DEF Keeps, Accumulators, Fresh
  <2>4. SessionsFed' = {} /\ Completed' = {} /\ cursor' \in 0 .. WindowSize(cfg')
    BY <2>1, WindowFacts DEF SessionsFed, Completed, AccountInv
  <2>5. ValuedWithoutGaps' /\ EveryFiringAccounted'
    BY <2>1, <2>3, <2>4, EmptyRecord DEF ValuedWithoutGaps, EveryFiringAccounted
  <2>. QED BY <2>1, <2>2, <2>3, <2>4, <2>5, EmptyRecord DEF AccountInv
<1>3. CASE BothFeedSession
  BY <1>3, FeedKeepsAccounts DEF BothFeedSession
<1>4. CASE BothFinish
  BY <1>4 DEF BothFinish, Finish, AccountInv, ValuedWithoutGaps, EveryFiringAccounted,
     SessionsFed, Completed
<1>. QED BY <1>1, <1>2, <1>3, <1>4 DEF BothNext

LEMMA ReplayStepsTheRun == [ReplayNext]_allVars => [BothNext]_bothVars
BY DEF ReplayNext, allVars, bothVars, Backtest, BacktestDone, BothNext, Construct, Advance,
       Snapshot, Abandon, Resume, SaveResult

\* backtest.py, SessionEngine.step: of every session the run has been through, its
\* records are what its phases owe, in session order, also in a failed run.
THEOREM RunsAreAccounted == ReplaySpec => []AccountInv
<1>1. ReplayInit => AccountInv
  <2>. SUFFICES ASSUME ReplayInit PROVE AccountInv
    OBVIOUS
  <2>1. cfg \in Configs /\ cursor = 0 /\ eng = Fresh(cfg) /\ stage = "preflight"
    BY DEF ReplayInit, BothInit, Init
  <2>2. /\ IsEngine(eng) /\ eng.valuations = <<>> /\ eng.evaluations = <<>> /\ eng.notes = <<>>
    BY <2>1, FreshIsEngine DEF Fresh
  <2>. QED BY <2>1, <2>2, NothingAccountedYet
<1>. QED BY <1>1, ReplayStepsTheRun, AccountsAreKept, PTL DEF ReplaySpec

\* One valuation per session in session order: all of the window, or an unbroken
\* prefix of it that ends at the failing session or just before (backtest.py).
THEOREM RunsAreValuedWithoutGaps == ReplaySpec => []ValuedWithoutGaps
<1>1. AccountInv => ValuedWithoutGaps
  BY DEF AccountInv
<1>. QED BY <1>1, RunsAreAccounted, PTL

\* Every session that fires has exactly one evaluation or one note saying why it
\* has none (backtest.py), on every calendar, dataset and configuration.
THEOREM EveryFiringIsAccounted == ReplaySpec => []EveryFiringAccounted
<1>1. AccountInv => EveryFiringAccounted
  BY DEF AccountInv
<1>. QED BY <1>1, RunsAreAccounted, PTL

-----------------------------------------------------------------------------
(* The facts of a run: its fills, its orders and its trace.                *)

\* A note, and why the session was not evaluated.
NotingOf(e, after, d) ==
    /\ Keeps(e, after, {"notes", "trace"})
    /\ \E note : note.day = d /\ after.notes = Append(e.notes, note)
    /\ after.trace = Append(e.trace, Event("note", d))

\* A step phase by phase: what was opened, what was valued, what was evaluated.
StepPhases(f, c, e, opened, valued, s, d) ==
    /\ IsEngine(opened) /\ OpeningOf(f, c, e, opened, d)
    /\ Keeps(opened, valued, {"valuations", "stale", "failure"})
    /\ valued.failure = "none" => opened.failure = "none"
    /\ \/ s = valued
       \/ opened.failure = "none" /\ valued.failure = "none" /\ NotingOf(valued, s, d)
       \/ /\ opened.failure = "none" /\ valued.failure = "none"
          /\ NextSessionAfter(d) # NoDay /\ EvaluationOf(f, c, valued, s, d)

LEMMA StepHasPhases ==
    ASSUME NEW f, NEW c, NEW e, IsEngine(e), NEW d
    PROVE  \E opened, valued : StepPhases(f, c, e, opened, valued, StepOf(f, c, e, d), d)
<1>. DEFINE opened == AtOpen(f, c, e, d)
            valued == AtClose(f, opened, d)
            after == AtEvaluation(f, c, valued, d)
            step == StepOf(f, c, e, d)
<1>1. step = IF opened.failure # "none" THEN opened
             ELSE IF valued.failure # "none" THEN valued ELSE after
  BY DEF StepOf
<1>2. IsEngine(opened) /\ OpeningOf(f, c, e, opened, d)
  BY AtOpenIs
<1>3. Keeps(opened, opened, {"valuations", "stale", "failure"})
  BY DEF Keeps
<1>. HIDE DEF opened
<1>4. IsEngine(valued) /\ Keeps(opened, valued, {"valuations", "stale", "failure"})
  BY <1>2, AtCloseIs DEF Keeps
<1>5. after \in {valued, Evaluated(f, c, valued, d)} \/ \E code : after = Noted(valued, d, code)
  BY DEF AtEvaluation
<1>6. NextSessionAfter(d) = NoDay => after # Evaluated(f, c, valued, d)
                                     \/ after = valued \/ \E code : after = Noted(valued, d, code)
  BY DEF AtEvaluation
<1>. HIDE DEF valued, step, after
<1>7. CASE opened.failure # "none"
  <2>1. step = opened
    BY <1>1, <1>7
  <2>. QED BY <1>2, <1>3, <2>1 DEF StepPhases, step
<1>8. CASE opened.failure = "none" /\ valued.failure # "none"
  <2>1. step = valued
    BY <1>1, <1>8
  <2>. QED BY <1>2, <1>4, <1>8, <2>1 DEF StepPhases, step
<1>9. CASE opened.failure = "none" /\ valued.failure = "none"
  <2>1. step = after
    BY <1>1, <1>9
  <2>2. CASE after = valued
    BY <1>2, <1>4, <1>9, <2>1, <2>2 DEF StepPhases, step
  <2>3. CASE \E code : after = Noted(valued, d, code)
    <3>1. PICK code : after = Noted(valued, d, code)
      BY <2>3
    <3>2. /\ Keeps(valued, after, {"notes", "trace"})
          /\ after.notes = Append(valued.notes, [day |-> d, code |-> code])
          /\ after.trace = Append(valued.trace, Event("note", d))
      BY <1>4, <3>1, NotedIs
    <3>3. NotingOf(valued, after, d)
      BY <3>2 DEF NotingOf
    <3>. QED BY <1>2, <1>4, <1>9, <2>1, <3>3 DEF StepPhases, step
  <2>4. CASE after = Evaluated(f, c, valued, d) /\ NextSessionAfter(d) # NoDay
    <3>1. EvaluationOf(f, c, valued, after, d)
      BY <1>4, <2>4, EvaluatedIs
    <3>. QED BY <1>2, <1>4, <1>9, <2>1, <2>4, <3>1 DEF StepPhases, step
  <2>. QED BY <1>5, <1>6, <2>2, <2>3, <2>4
<1>. QED BY <1>7, <1>8, <1>9

LEMMA PricesAreNatural ==
    ASSUME NEW f \in Feeds, NEW d \in Days
    PROVE  OpensAt(f, d) \in [Assets -> Nat] /\ ClosesAt(f, d) \in [Assets -> Nat]
<1>1. \A a \in Assets : f.close[a][d] \in Nat /\ f.open[a][d] \in Nat
  BY EngineAssumption
<1>. QED BY <1>1 DEF OpensAt, ClosesAt, NoPrice

\* The fills of a session, each with its session.
Stamped(list, d) == [i \in DOMAIN list |-> [day |-> d, fill |-> list[i]]]

FillsOf(records) == [i \in DOMAIN records |-> records[i].fill]

DatedFills == [day : Days, fill : FillRecords]

LEMMA StampedIs ==
    ASSUME NEW list \in Seq(FillRecords), NEW d \in Days
    PROVE  /\ Stamped(list, d) \in Seq(DatedFills) /\ Len(Stamped(list, d)) = Len(list)
           /\ FillsOf(Stamped(list, d)) = list
           /\ DOMAIN Stamped(list, d) = 1 .. Len(list)
           /\ \A i \in 1 .. Len(list) : Stamped(list, d)[i] = [day |-> d, fill |-> list[i]]
<1>1. list \in [1 .. Len(list) -> FillRecords] /\ Len(list) \in Nat
  OBVIOUS
<1>2. Stamped(list, d) \in [1 .. Len(list) -> DatedFills]
  BY <1>1 DEF Stamped, DatedFills
<1>3. FillsOf(Stamped(list, d)) \in [1 .. Len(list) -> FillRecords]
  BY <1>1 DEF Stamped, FillsOf
<1>4. \A i \in 1 .. Len(list) : FillsOf(Stamped(list, d))[i] = list[i]
  BY <1>1 DEF Stamped, FillsOf
<1>5. FillsOf(Stamped(list, d)) = list
  BY <1>1, <1>3, <1>4
<1>6. Stamped(list, d) \in Seq(DatedFills) /\ Len(Stamped(list, d)) = Len(list)
  BY <1>1, <1>2
<1>. QED BY <1>1, <1>5, <1>6 DEF Stamped

IsConcat(S, s, t, u) ==
    /\ u \in Seq(S) /\ Len(u) = Len(s) + Len(t) /\ Len(s) \in Nat /\ Len(t) \in Nat
    /\ DOMAIN s = 1 .. Len(s) /\ DOMAIN t = 1 .. Len(t) /\ DOMAIN u = 1 .. Len(s) + Len(t)
    /\ \A i \in 1 .. Len(s) : u[i] = s[i] /\ s[i] \in S
    /\ \A i \in 1 .. Len(t) : u[Len(s) + i] = t[i] /\ t[i] \in S

LEMMA ConcatIs ==
    ASSUME NEW S, NEW s \in Seq(S), NEW t \in Seq(S)
    PROVE  IsConcat(S, s, t, s \o t)
BY DEF IsConcat

\* What is computed of each element of a list.
Each(g, s) == [i \in DOMAIN s |-> g[s[i]]]

EachOfBoth(T, g, s, t) ==
    /\ Each(g, s) \in Seq(T) /\ Each(g, t) \in Seq(T)
    /\ Each(g, s \o t) = Each(g, s) \o Each(g, t)

LEMMA EachOfConcat ==
    ASSUME NEW S, NEW T, NEW g, g \in [S -> T], NEW s \in Seq(S), NEW t \in Seq(S)
    PROVE  EachOfBoth(T, g, s, t)
<1>. DEFINE n == Len(s)
            m == Len(t)
            u == s \o t
            gs == Each(g, s)
            gt == Each(g, t)
            gst == gs \o gt
            gu == Each(g, u)
<1>1. /\ n \in Nat /\ m \in Nat /\ DOMAIN s = 1 .. n /\ DOMAIN t = 1 .. m /\ DOMAIN u = 1 .. n + m
      /\ \A i \in 1 .. n : u[i] = s[i] /\ s[i] \in S
      /\ \A i \in 1 .. m : u[n + i] = t[i] /\ t[i] \in S
  <2>1. IsConcat(S, s, t, u)
    BY ConcatIs
  <2>. QED BY <2>1 DEF IsConcat
<1>. HIDE DEF n, m, u
<1>2. /\ gs \in [1 .. n -> T] /\ \A i \in 1 .. n : gs[i] = g[s[i]]
      /\ gt \in [1 .. m -> T] /\ \A i \in 1 .. m : gt[i] = g[t[i]]
      /\ gu = [i \in 1 .. n + m |-> g[u[i]]]
  BY <1>1 DEF Each
<1>. HIDE DEF gs, gt, gu
<1>3. gs \in Seq(T) /\ gt \in Seq(T) /\ Len(gs) = n /\ Len(gt) = m
  <2>1. \A k \in Nat : \A f \in [1 .. k -> T] : f \in Seq(T) /\ Len(f) = k
    OBVIOUS
  <2>. QED BY <1>1, <1>2, <2>1
<1>4. IsConcat(T, gs, gt, gst)
  BY <1>3, ConcatIs
<1>. HIDE DEF gst
<1>5. /\ gst \in Seq(T) /\ Len(gst) = n + m
      /\ \A i \in 1 .. n : gst[i] = gs[i]
      /\ \A i \in 1 .. m : gst[n + i] = gt[i]
  BY <1>3, <1>4 DEF IsConcat
<1>6. gst = [i \in 1 .. n + m |-> gst[i]]
  BY <1>1, <1>5
<1>7. \A i \in 1 .. n + m : i \in 1 .. n \/ (i - n \in 1 .. m /\ i = n + (i - n))
  BY <1>1
<1>8. /\ \A i \in 1 .. n : gst[i] = g[u[i]]
      /\ \A k \in 1 .. m : gst[n + k] = g[u[n + k]]
  <2>1. ASSUME NEW i \in 1 .. n PROVE gst[i] = g[u[i]]
    BY <1>1, <1>2, <1>5
  <2>2. ASSUME NEW k \in 1 .. m PROVE gst[n + k] = g[u[n + k]]
    <3>1. gst[n + k] = gt[k] /\ gt[k] = g[t[k]] /\ u[n + k] = t[k]
      BY <1>1, <1>2, <1>5
    <3>. QED BY <3>1
  <2>. QED BY <2>1, <2>2
<1>9. \A i \in 1 .. n + m : gst[i] = g[u[i]]
  BY <1>7, <1>8
<1>10. gu = gst
  BY <1>2, <1>6, <1>9
<1>. QED BY <1>3, <1>10 DEF u, gs, gt, gst, gu, EachOfBoth

LEMMA FillsOfConcat ==
    ASSUME NEW s \in Seq(DatedFills), NEW t \in Seq(DatedFills)
    PROVE  /\ FillsOf(s) \in Seq(FillRecords) /\ FillsOf(t) \in Seq(FillRecords)
           /\ FillsOf(s \o t) = FillsOf(s) \o FillsOf(t)
<1>. DEFINE g == [x \in DatedFills |-> x.fill]
<1>1. g \in [DatedFills -> FillRecords]
  BY DEF DatedFills
<1>2. \A x \in DatedFills : g[x] = x.fill
  OBVIOUS
<1>. HIDE DEF g
<1>3. ASSUME NEW r \in Seq(DatedFills)
      PROVE  FillsOf(r) = Each(g, r)
  <2>1. \A i \in DOMAIN r : r[i] \in DatedFills
    OBVIOUS
  <2>. QED BY <1>2, <2>1 DEF FillsOf, Each
<1>4. s \o t \in Seq(DatedFills)
  OBVIOUS
<1>5. Each(g, s) \in Seq(FillRecords) /\ Each(g, t) \in Seq(FillRecords)
      /\ Each(g, s \o t) = Each(g, s) \o Each(g, t)
  <2>1. EachOfBoth(FillRecords, g, s, t)
    BY <1>1, EachOfConcat
  <2>. QED BY <2>1 DEF EachOfBoth
<1>. QED BY <1>3, <1>4, <1>5

LEMMA SumOfEach ==
    ASSUME NEW S, NEW g \in [S -> Int], NEW s \in Seq(S), NEW t \in Seq(S)
    PROVE  /\ SumOf(Each(g, s \o t)) = SumOf(Each(g, s)) + SumOf(Each(g, t))
           /\ SumOf(Each(g, s)) \in Int /\ SumOf(Each(g, t)) \in Int
<1>1. /\ Each(g, s) \in Seq(Int) /\ Each(g, t) \in Seq(Int)
      /\ Each(g, s \o t) = Each(g, s) \o Each(g, t)
  <2>1. EachOfBoth(Int, g, s, t)
    BY EachOfConcat
  <2>. QED BY <2>1 DEF EachOfBoth
<1>. QED BY <1>1, SumOfConcat, SumIsInt

\* Two lists of fills explain what both of them move.
LEMMA ExplainedOn ==
    ASSUME NEW from \in Books, NEW mid \in Books, NEW to,
           NEW s \in Seq(FillRecords), NEW t \in Seq(FillRecords),
           Explained(from, s, mid), Explained(mid, t, to)
    PROVE  Explained(from, s \o t, to)
<1>1. from.cash \in Int /\ \A a \in Assets : from.qty[a] \in Int
  BY DEF Books
<1>. DEFINE Total(list) == SumOf([i \in DOMAIN list |-> list[i].delta])
            Lots(list, a) == SumOf([i \in DOMAIN list |-> LotsMoved(list[i], a)])
<1>2. s \o t \in Seq(FillRecords)
  OBVIOUS
<1>3. Total(s \o t) = Total(s) + Total(t) /\ Total(s) \in Int /\ Total(t) \in Int
  <2>. DEFINE g == [x \in FillRecords |-> x.delta]
  <2>1. g \in [FillRecords -> Int] /\ \A x \in FillRecords : g[x] = x.delta
    BY FillAmounts
  <2>. HIDE DEF g
  <2>2. ASSUME NEW r \in Seq(FillRecords)
        PROVE  Total(r) = SumOf(Each(g, r))
    <3>1. [i \in DOMAIN r |-> r[i].delta] = Each(g, r)
      BY <2>1 DEF Each
    <3>. QED BY <3>1
  <2>3. /\ SumOf(Each(g, s \o t)) = SumOf(Each(g, s)) + SumOf(Each(g, t))
        /\ SumOf(Each(g, s)) \in Int /\ SumOf(Each(g, t)) \in Int
    BY <2>1, SumOfEach
  <2>. HIDE DEF Total
  <2>. QED BY <1>2, <2>2, <2>3
<1>4. ASSUME NEW a \in Assets
      PROVE  Lots(s \o t, a) = Lots(s, a) + Lots(t, a) /\ Lots(s, a) \in Int /\ Lots(t, a) \in Int
  <2>. DEFINE g == [x \in FillRecords |-> LotsMoved(x, a)]
  <2>1. g \in [FillRecords -> Int] /\ \A x \in FillRecords : g[x] = LotsMoved(x, a)
    BY FillAmounts
  <2>. HIDE DEF g
  <2>2. ASSUME NEW r \in Seq(FillRecords)
        PROVE  Lots(r, a) = SumOf(Each(g, r))
    <3>1. [i \in DOMAIN r |-> LotsMoved(r[i], a)] = Each(g, r)
      BY <2>1 DEF Each
    <3>. QED BY <3>1
  <2>3. /\ SumOf(Each(g, s \o t)) = SumOf(Each(g, s)) + SumOf(Each(g, t))
        /\ SumOf(Each(g, s)) \in Int /\ SumOf(Each(g, t)) \in Int
    BY <2>1, SumOfEach
  <2>. HIDE DEF Lots
  <2>. QED BY <1>2, <2>2, <2>3
<1>5. /\ mid.cash = from.cash + Total(s) /\ to.cash = mid.cash + Total(t)
      /\ \A a \in Assets : mid.qty[a] = from.qty[a] + Lots(s, a) /\ to.qty[a] = mid.qty[a] + Lots(t, a)
  BY DEF Explained
<1>. HIDE DEF Total, Lots
<1>6. to.cash = from.cash + Total(s \o t)
  BY <1>1, <1>3, <1>5
<1>7. \A a \in Assets : to.qty[a] = from.qty[a] + Lots(s \o t, a)
  BY <1>1, <1>4, <1>5
<1>. QED BY <1>6, <1>7 DEF Explained, Total, Lots

\* The book is what the fills have made of the starting one.
Booked(c, e) ==
    /\ e.book \in Books /\ e.pending \in SUBSET Orders /\ e.fills \in Seq(DatedFills)
    /\ Explained(c.book, FillsOf(e.fills), e.book)

LEMMA BookedWithin ==
    ASSUME NEW c, NEW e, Booked(c, e), NEW t, NEW touched, Keeps(e, t, touched),
           touched \cap {"book", "pending", "fills"} = {}
    PROVE  Booked(c, t)
<1>1. t.book = e.book /\ t.pending = e.pending /\ t.fills = e.fills
  BY DEF Keeps, Accumulators
<1>. QED BY <1>1 DEF Booked

LEMMA OpeningIsBooked ==
    ASSUME NEW f \in Feeds, NEW c \in Configs, NEW d \in Days, NEW e, Booked(c, e),
           NEW opened, OpeningOf(f, c, e, opened, d)
    PROVE  Booked(c, opened)
<1>. DEFINE applied == FillsAt(f, c, e, d)
<1>1. CASE opened = e
  BY <1>1
<1>2. CASE Keeps(e, opened, {"failure"})
  <2>1. {"failure"} \cap {"book", "pending", "fills"} = {}
    OBVIOUS
  <2>. QED BY <1>2, <2>1, BookedWithin
<1>3. CASE /\ applied.refusals = {} /\ opened.book = applied.book /\ opened.pending = {}
           /\ opened.fills = e.fills \o Stamped(applied.fills, d)
  <2>1. AppliedIs(e.book, e.pending, applied)
    <3>1. c.bps \in Int /\ OpensAt(f, d) \in [Assets -> Nat]
      BY EngineAssumption, PricesAreNatural
    <3>. QED BY <3>1, AppliedIsAccounted DEF FillsAt, Booked
  <2>. HIDE DEF applied
  <2>2. /\ applied.book \in Books /\ applied.fills \in Seq(FillRecords)
        /\ Explained(e.book, applied.fills, applied.book)
    BY <1>3, <2>1 DEF AppliedIs
  <2>. DEFINE more == Stamped(applied.fills, d)
  <2>3. more \in Seq(DatedFills) /\ FillsOf(more) = applied.fills
    BY <2>2, StampedIs
  <2>. HIDE DEF more
  <2>4. /\ e.fills \o more \in Seq(DatedFills) /\ FillsOf(e.fills) \in Seq(FillRecords)
        /\ FillsOf(e.fills \o more) = FillsOf(e.fills) \o applied.fills
    <3>1. e.fills \in Seq(DatedFills)
      BY DEF Booked
    <3>2. e.fills \o more \in Seq(DatedFills)
      BY <2>3, <3>1
    <3>. QED BY <2>3, <3>1, <3>2, FillsOfConcat
  <2>5. Explained(c.book, FillsOf(e.fills) \o applied.fills, applied.book)
    <3>1. c.book \in Books
      BY EngineAssumption
    <3>. QED BY <2>2, <2>4, <3>1, ExplainedOn DEF Booked
  <2>. QED BY <1>3, <2>2, <2>4, <2>5 DEF Booked, more
<1>. QED BY <1>1, <1>2, <1>3 DEF OpeningOf, Stamped

LEMMA PlanIsOrders ==
    ASSUME NEW f \in Feeds, NEW c \in Configs, NEW d \in Days, c.graph[d] # EvaluationFails,
           NEW e, e.book \in Books
    PROVE  PlanAt(f, c, e, d).orders \in SUBSET Orders
<1>1. c.graph[d] \in Targets /\ ClosesAt(f, d) \in [Assets -> Nat]
  BY EngineAssumption, PricesAreNatural
<1>2. c.graph[d] \in [Assets -> Nat]
  BY <1>1, ReconcileAssumption DEF Targets
<1>3. \A o \in PlanAt(f, c, e, d).orders : Proposal(e.book, o, o.asset)
  BY <1>1, <1>2, PlanProposes DEF PlanAt
<1>. QED BY <1>3 DEF Proposal

LEMMA StepIsBooked ==
    ASSUME NEW f \in Feeds, NEW c \in Configs, NEW d \in Days, NEW e, IsEngine(e), Booked(c, e)
    PROVE  Booked(c, StepOf(f, c, e, d))
<1>. DEFINE s == StepOf(f, c, e, d)
<1>1. PICK opened, valued : StepPhases(f, c, e, opened, valued, s, d)
  BY StepHasPhases
<1>. HIDE DEF s
<1>2. Booked(c, opened)
  BY <1>1, OpeningIsBooked DEF StepPhases
<1>3. Booked(c, valued)
  <2>1. {"valuations", "stale", "failure"} \cap {"book", "pending", "fills"} = {}
    OBVIOUS
  <2>. QED BY <1>1, <1>2, <2>1, BookedWithin DEF StepPhases
<1>4. CASE s = valued
  BY <1>3, <1>4 DEF s
<1>5. CASE NotingOf(valued, s, d)
  <2>1. {"notes", "trace"} \cap {"book", "pending", "fills"} = {} /\ Keeps(valued, s, {"notes", "trace"})
    BY <1>5 DEF NotingOf
  <2>. QED BY <1>3, <2>1, BookedWithin DEF s
<1>6. CASE EvaluationOf(f, c, valued, s, d)
  <2>. DEFINE plan == PlanAt(f, c, valued, d)
  <2>1. CASE Keeps(valued, s, {"failure", "trace", "evaluations"})
    <3>1. {"failure", "trace", "evaluations"} \cap {"book", "pending", "fills"} = {}
      OBVIOUS
    <3>. QED BY <1>3, <2>1, <3>1, BookedWithin DEF s
  <2>2. CASE /\ c.graph[d] # EvaluationFails
             /\ Keeps(valued, s, {"pending", "fillDay", "trace", "evaluations"})
             /\ s.pending = valued.pending \/ s.pending = plan.orders
    <3>1. s.book = valued.book /\ s.fills = valued.fills
      BY <2>2 DEF Keeps, Accumulators
    <3>2. plan.orders \in SUBSET Orders
      BY <1>3, <2>2, PlanIsOrders DEF Booked
    <3>. QED BY <1>3, <2>2, <3>1, <3>2 DEF Booked, s
  <2>3. Keeps(valued, s, {"failure", "trace"}) => Keeps(valued, s, {"failure", "trace", "evaluations"})
    BY DEF Keeps
  <2>4. \/ Keeps(valued, s, {"failure", "trace"})
        \/ Keeps(valued, s, {"failure", "trace", "evaluations"})
        \/ /\ c.graph[d] # EvaluationFails
           /\ Keeps(valued, s, {"pending", "fillDay", "trace", "evaluations"})
           /\ s.pending = valued.pending \/ s.pending = plan.orders
    BY <1>6 DEF EvaluationOf
  <2>. HIDE DEF plan
  <2>. QED BY <2>1, <2>2, <2>3, <2>4 DEF plan
<1>. QED BY <1>1, <1>4, <1>5, <1>6 DEF StepPhases

\* The run's books and accounts.
BookInv ==
    /\ AccountInv /\ QueueInv
    /\ feed \in Feeds
    /\ Booked(cfg, eng)

LEMMA FreshIsBooked ==
    ASSUME NEW c \in Configs, NEW e, e.book = c.book, e.pending = {}, e.fills = <<>>
    PROVE  Booked(c, e)
<1>1. c.book \in Books
  BY EngineAssumption
<1>2. <<>> \in Seq(DatedFills) /\ FillsOf(<<>>) = <<>>
  BY DEF FillsOf
<1>. QED BY <1>1, <1>2, NothingExplains DEF Booked

\* The first steps of the run.
LEMMA PreflightIs ==
    ASSUME AccountInv, BothPreflight
    PROVE  /\ eng = Fresh(cfg) /\ cursor = 0 /\ feed' = feed /\ cfg' = cfg /\ cursor' = cursor
           /\ IsEngine(eng') /\ Keeps(eng, eng', {"failure"})
<1>1. /\ cfg' = cfg /\ cursor' = cursor /\ feed' = feed /\ eng = Fresh(cfg) /\ cursor = 0
      /\ eng' = [eng EXCEPT !["failure"] = PreflightFailure(cfg)]
  BY DEF BothPreflight, Preflight, AccountInv
<1>2. "failure" \in Accumulators
  BY DEF Accumulators
<1>. HIDE DEF PreflightFailure
<1>. QED BY <1>1, <1>2, ExceptTouches DEF AccountInv

LEMMA FeedIs ==
    ASSUME AccountInv, BothFeedSession
    PROVE  LET d == Window(cfg)[cursor + 1]
           IN  /\ d \in Days /\ feed' = feed /\ cfg' = cfg /\ cursor' = cursor + 1
               /\ stage = "running" /\ eng.failure = "none" /\ cursor < WindowSize(cfg)
               /\ eng' = StepOf(feed, cfg, eng, d)
<1>1. /\ stage = "running" /\ cursor < WindowSize(cfg) /\ feed' = feed /\ cfg' = cfg
      /\ cursor' = cursor + 1 /\ eng' = StepOf(feed, cfg, eng, Window(cfg)[cursor + 1])
  BY DEF BothFeedSession, FeedSession
<1>2. Window(cfg)[cursor + 1] \in Days
  BY <1>1, WindowFacts DEF AccountInv
<1>. QED BY <1>1, <1>2 DEF AccountInv

LEMMA BooksAreKept == BookInv /\ [BothNext]_bothVars => BookInv'
<1>. SUFFICES ASSUME BookInv, [BothNext]_bothVars PROVE BookInv'
  OBVIOUS
<1>1. AccountInv'
  BY AccountsAreKept DEF BookInv
<1>2. CASE UNCHANGED bothVars
  <2>1. QueueInv'
    BY <1>2 DEF BookInv, bothVars, vars, QueueInv, NothingDangles
  <2>. QED BY <1>1, <1>2, <2>1 DEF BookInv, bothVars, vars
<1>3. CASE BothNext
  <2>1. QueueInv'
    BY <1>3, QueueIsKept DEF BookInv
  <2>2. feed' \in Feeds /\ Booked(cfg', eng')
    <3>1. CASE BothPreflight
      <4>1. /\ feed' = feed /\ cfg' = cfg /\ Keeps(eng, eng', {"failure"})
        BY <3>1, PreflightIs DEF BookInv
      <4>2. {"failure"} \cap {"book", "pending", "fills"} = {}
        OBVIOUS
      <4>. QED BY <4>1, <4>2, BookedWithin DEF BookInv
    <3>2. CASE BothFeedSession
      <4>. DEFINE d == Window(cfg)[cursor + 1]
      <4>1. /\ d \in Days /\ feed' = feed /\ cfg' = cfg /\ eng' = StepOf(feed, cfg, eng, d)
        BY <3>2, FeedIs DEF BookInv
      <4>. HIDE DEF d
      <4>2. cfg \in Configs /\ IsEngine(eng)
        BY DEF BookInv, AccountInv
      <4>. QED BY <4>1, <4>2, StepIsBooked DEF BookInv
    <3>3. CASE BothFinish
      BY <3>3 DEF BothFinish, Finish, BookInv
    <3>. QED BY <1>3, <3>1, <3>2, <3>3 DEF BothNext
  <2>. QED BY <1>1, <2>1, <2>2 DEF BookInv
<1>. QED BY <1>2, <1>3

LEMMA RunStartsBooked == ReplayInit => BookInv
<1>. SUFFICES ASSUME ReplayInit PROVE BookInv
  OBVIOUS
<1>1. cfg \in Configs /\ feed \in Feeds /\ cursor = 0 /\ eng = Fresh(cfg) /\ stage = "preflight"
  BY DEF ReplayInit, BothInit, Init
<1>2. IsEngine(eng) /\ eng.pending = {} /\ eng.fillDay = NoDay
  BY <1>1, FreshIsEngine DEF Fresh
<1>3. cursor \in 0 .. WindowSize(cfg)
  BY <1>1, WindowFacts
<1>4. QueueInv
  BY <1>1, <1>2, <1>3 DEF QueueInv, QueueIsEmpty, NothingDangles
<1>5. /\ eng.valuations = <<>> /\ eng.evaluations = <<>> /\ eng.notes = <<>>
      /\ eng.fills = <<>> /\ eng.book = cfg.book
  BY <1>1 DEF Fresh
<1>6. AccountInv
  BY <1>1, <1>2, <1>5, NothingAccountedYet
<1>7. Booked(cfg, eng)
  BY <1>1, <1>2, <1>5, FreshIsBooked
<1>. QED BY <1>1, <1>4, <1>6, <1>7 DEF BookInv

\* The fills a run has recorded explain its book from the starting one, to the last
\* unit of cash and the last lot, whatever session it fails in (backtest.py step,
\* fills.py), whatever dataset and strategy it is given.
THEOREM FillsExplainTheBook == ReplaySpec => []FactsExplainBook
<1>1. BookInv /\ [ReplayNext]_allVars => BookInv'
  BY ReplayStepsTheRun, BooksAreKept
<1>2. BookInv => FactsExplainBook
  BY DEF BookInv, Booked, Explained, FillsOf, FactsExplainBook
<1>. QED BY RunStartsBooked, <1>1, <1>2, PTL DEF ReplaySpec

-----------------------------------------------------------------------------
(* Every fill was planned.                                                 *)

\* Fills of one session are its own, and of no other.
OneSessionOn(s, list, d, u) ==
    /\ \A day : day # d => On(day, u) = On(day, s)
    /\ On(d, s) = {} => Cardinality(On(d, u)) = Len(list)
    /\ DOMAIN u = 1 .. Len(s) + Len(list)
    /\ \A i \in 1 .. Len(s) : u[i] = s[i]
    /\ \A i \in 1 .. Len(list) : u[Len(s) + i] = [day |-> d, fill |-> list[i]]

LEMMA OnStamped ==
    ASSUME NEW s \in Seq(DatedFills), NEW list \in Seq(FillRecords), NEW d \in Days
    PROVE  OneSessionOn(s, list, d, s \o Stamped(list, d))
<1>. DEFINE more == Stamped(list, d)
            u == s \o more
            n == Len(s)
            m == Len(list)
<1>1. /\ more \in Seq(DatedFills) /\ Len(more) = m
      /\ \A i \in 1 .. m : more[i] = [day |-> d, fill |-> list[i]]
  BY StampedIs
<1>. HIDE DEF more
<1>2. IsConcat(DatedFills, s, more, u)
  BY <1>1, ConcatIs
<1>. HIDE DEF u
<1>3. /\ n \in Nat /\ m \in Nat /\ DOMAIN s = 1 .. n /\ DOMAIN u = 1 .. n + m
      /\ \A i \in 1 .. n : u[i] = s[i]
      /\ \A i \in 1 .. m : u[n + i] = [day |-> d, fill |-> list[i]]
  BY <1>1, <1>2 DEF IsConcat
<1>. HIDE DEF n, m
<1>4. \A i \in 1 .. n + m : i \in 1 .. n \/ (i \in n + 1 .. n + m /\ u[i].day = d)
  <2>1. \A i \in 1 .. n + m : ~(i <= n) => i - n \in 1 .. m /\ i = n + (i - n) /\ i \in n + 1 .. n + m
    BY <1>3
  <2>2. ASSUME NEW k \in 1 .. m PROVE u[n + k].day = d
    <3>1. u[n + k] = [day |-> d, fill |-> list[k]]
      BY <1>3
    <3>. QED BY <3>1
  <2>3. \A i \in 1 .. n + m : i <= n => i \in 1 .. n
    BY <1>3
  <2>. QED BY <1>3, <2>1, <2>2, <2>3
<1>5. 1 .. n \subseteq 1 .. n + m /\ n + 1 .. n + m \subseteq 1 .. n + m
  BY <1>3
<1>6. \A day : day # d => On(day, u) = On(day, s)
  BY <1>3, <1>4, <1>5 DEF On
<1>7. ASSUME On(d, s) = {}
      PROVE  Cardinality(On(d, u)) = m
  <2>1. \A i \in n + 1 .. n + m : i \notin 1 .. n
    BY <1>3
  <2>2. \A i \in 1 .. n : u[i].day # d
    BY <1>3, <1>7 DEF On
  <2>3. On(d, u) = n + 1 .. n + m
    BY <1>3, <1>4, <1>5, <2>1, <2>2 DEF On
  <2>4. Cardinality(n + 1 .. n + m) = m
    BY <1>3, FS_Interval
  <2>. QED BY <2>3, <2>4
<1>. QED BY <1>3, <1>6, <1>7 DEF u, n, m, more, OneSessionOn

\* What the opening of a session does to the fills, the queue and the trace.
OpenedAt(e, opened, d) ==
    /\ \/ opened.fills = e.fills /\ opened.trace = e.trace
          /\ (opened.failure = "none" => e.fillDay # d /\ opened.pending = e.pending
                                         /\ opened.fillDay = e.fillDay)
       \/ \E list \in Seq(FillRecords) :
             /\ opened.fills = e.fills \o Stamped(list, d) /\ e.fillDay = d
             /\ Len(list) = Cardinality(e.pending) /\ FilledFor(e.pending, list)
             /\ IsFiniteSet(e.pending)
             /\ opened.pending = {} /\ opened.fillDay = NoDay
             /\ opened.trace = Append(Append(e.trace, Event("orders_filled", d)),
                                      Event("state_transition", d))
    /\ opened.evaluations = e.evaluations /\ opened.notes = e.notes

LEMMA OpeningFills ==
    ASSUME NEW f \in Feeds, NEW c \in Configs, NEW d \in Days, NEW e, Booked(c, e),
           NEW opened, OpeningOf(f, c, e, opened, d)
    PROVE  OpenedAt(e, opened, d)
<1>. DEFINE applied == FillsAt(f, c, e, d)
<1>1. CASE opened = e /\ e.fillDay # d
  BY <1>1 DEF OpenedAt
<1>2. CASE opened.failure # "none" /\ Keeps(e, opened, {"failure"})
  BY <1>2 DEF OpenedAt, Keeps, Accumulators
<1>3. CASE /\ e.fillDay = d /\ applied.refusals = {}
           /\ Keeps(e, opened, {"book", "fills", "pending", "fillDay", "trace"})
           /\ opened.fills = e.fills \o Stamped(applied.fills, d)
           /\ opened.pending = {} /\ opened.fillDay = NoDay
           /\ opened.trace = Append(Append(e.trace, Event("orders_filled", d)),
                                    Event("state_transition", d))
  <2>1. AppliedIs(e.book, e.pending, applied)
    <3>1. c.bps \in Int /\ OpensAt(f, d) \in [Assets -> Nat]
      BY EngineAssumption, PricesAreNatural
    <3>. QED BY <3>1, AppliedIsAccounted DEF FillsAt, Booked
  <2>. HIDE DEF applied
  <2>2. /\ applied.fills \in Seq(FillRecords) /\ Len(applied.fills) = Cardinality(e.pending)
        /\ FilledFor(e.pending, applied.fills) /\ IsFiniteSet(e.pending)
    BY <1>3, <2>1 DEF AppliedIs
  <2>3. opened.evaluations = e.evaluations /\ opened.notes = e.notes
    BY <1>3 DEF Keeps, Accumulators
  <2>. QED BY <1>3, <2>2, <2>3 DEF OpenedAt
<1>. QED BY <1>1, <1>2, <1>3 DEF OpeningOf, Stamped

\* What the close of a session does to the rest.
ClosedAt(opened, s, d) ==
    /\ s.fills = opened.fills
    /\ s.failure = "none" => opened.failure = "none"
    /\ \/ /\ s.pending = opened.pending /\ s.fillDay = opened.fillDay
          /\ s.evaluations = opened.evaluations /\ s.notes = opened.notes
          /\ s.trace = opened.trace
       \/ /\ s.pending = opened.pending /\ s.fillDay = opened.fillDay
          /\ s.evaluations = opened.evaluations
          /\ \E note : note.day = d /\ s.notes = Append(opened.notes, note)
          /\ s.trace = Append(opened.trace, Event("note", d))
       \/ /\ s.failure # "none" /\ s.notes = opened.notes
          /\ \/ s.evaluations = opened.evaluations
             \/ \E ev : /\ ev.day = d /\ ~ev.ok
                        /\ s.evaluations = Append(opened.evaluations, ev)
          /\ s.trace = Append(opened.trace, Event("graph", d))
       \/ \E ev : /\ ev.day = d /\ ev.ok /\ ev.fillDay = d + 1 /\ d + 1 \in Days
                  /\ s.evaluations = Append(opened.evaluations, ev)
                  /\ s.notes = opened.notes
                  /\ s.trace = Append(Append(opened.trace, Event("graph", d)),
                                      Event("orders_proposed", d))
                  /\ IF ev.orders = {} THEN s.pending = opened.pending /\ s.fillDay = opened.fillDay
                     ELSE s.pending = ev.orders /\ s.fillDay = d + 1

LEMMA ClosingIs ==
    ASSUME NEW f, NEW c, NEW e, NEW d \in Days, NEW opened, NEW valued, NEW s,
           StepPhases(f, c, e, opened, valued, s, d)
    PROVE  ClosedAt(opened, s, d)
<1>1. /\ valued.fills = opened.fills /\ valued.pending = opened.pending
      /\ valued.fillDay = opened.fillDay /\ valued.evaluations = opened.evaluations
      /\ valued.notes = opened.notes /\ valued.trace = opened.trace
      /\ (valued.failure = "none" => opened.failure = "none")
  BY DEF StepPhases, Keeps, Accumulators
<1>2. CASE s = valued
  BY <1>1, <1>2 DEF ClosedAt
<1>3. CASE opened.failure = "none" /\ NotingOf(valued, s, d)
  <2>1. /\ s.fills = valued.fills /\ s.pending = valued.pending /\ s.fillDay = valued.fillDay
        /\ s.evaluations = valued.evaluations
        /\ \E note : note.day = d /\ s.notes = Append(valued.notes, note)
        /\ s.trace = Append(valued.trace, Event("note", d))
    BY <1>3 DEF NotingOf, Keeps, Accumulators
  <2>. QED BY <1>1, <1>3, <2>1 DEF ClosedAt
<1>4. CASE /\ opened.failure = "none" /\ NextSessionAfter(d) # NoDay
           /\ EvaluationOf(f, c, valued, s, d)
  <2>1. NextSessionAfter(d) = d + 1 /\ d + 1 \in Days
    BY <1>4, MarketAssumption DEF NextSessionAfter, Days, NoDay
  <2>. DEFINE plan == PlanAt(f, c, valued, d)
              record == [day |-> d, ok |-> plan.ok, orders |-> plan.orders,
                         fillDay |-> NextSessionAfter(d)]
  <2>2. /\ record.day = d /\ record.ok = plan.ok /\ record.orders = plan.orders
        /\ record.fillDay = d + 1
    BY <2>1
  <2>3. \/ /\ s.failure # "none" /\ Keeps(valued, s, {"failure", "trace"})
           /\ s.trace = Append(valued.trace, Event("graph", d))
        \/ /\ s.failure # "none" /\ ~record.ok
           /\ Keeps(valued, s, {"failure", "trace", "evaluations"})
           /\ s.trace = Append(valued.trace, Event("graph", d))
           /\ s.evaluations = Append(valued.evaluations, record)
        \/ /\ record.ok /\ Keeps(valued, s, {"pending", "fillDay", "trace", "evaluations"})
           /\ s.trace = Append(Append(valued.trace, Event("graph", d)), Event("orders_proposed", d))
           /\ s.evaluations = Append(valued.evaluations, record)
           /\ IF record.orders = {} THEN s.pending = valued.pending /\ s.fillDay = valued.fillDay
              ELSE s.pending = record.orders /\ s.fillDay = d + 1
    BY <1>4, <2>1 DEF EvaluationOf
  <2>. HIDE DEF record, plan
  <2>4. CASE /\ s.failure # "none" /\ Keeps(valued, s, {"failure", "trace"})
             /\ s.trace = Append(valued.trace, Event("graph", d))
    <3>1. s.fills = valued.fills /\ s.evaluations = valued.evaluations /\ s.notes = valued.notes
      BY <2>4 DEF Keeps, Accumulators
    <3>. QED BY <1>1, <2>4, <3>1 DEF ClosedAt
  <2>5. CASE /\ s.failure # "none" /\ ~record.ok
             /\ Keeps(valued, s, {"failure", "trace", "evaluations"})
             /\ s.trace = Append(valued.trace, Event("graph", d))
             /\ s.evaluations = Append(valued.evaluations, record)
    <3>1. s.fills = valued.fills /\ s.notes = valued.notes
      BY <2>5 DEF Keeps, Accumulators
    <3>. QED BY <1>1, <2>2, <2>5, <3>1 DEF ClosedAt
  <2>6. CASE /\ record.ok /\ Keeps(valued, s, {"pending", "fillDay", "trace", "evaluations"})
             /\ s.trace = Append(Append(valued.trace, Event("graph", d)), Event("orders_proposed", d))
             /\ s.evaluations = Append(valued.evaluations, record)
             /\ IF record.orders = {} THEN s.pending = valued.pending /\ s.fillDay = valued.fillDay
                ELSE s.pending = record.orders /\ s.fillDay = d + 1
    <3>1. s.fills = valued.fills /\ s.notes = valued.notes
      BY <2>6 DEF Keeps, Accumulators
    <3>. QED BY <1>1, <1>4, <2>1, <2>2, <2>6, <3>1 DEF ClosedAt
  <2>. QED BY <2>3, <2>4, <2>5, <2>6
<1>. QED BY <1>2, <1>3, <1>4 DEF StepPhases

\* Every plan is for the session after it, where its orders wait until then.
PlannedInv ==
    /\ BookInv
    /\ eng.failure = "none" => (eng.fillDay = NoDay <=> eng.pending = {})
    /\ \A i \in DOMAIN eng.fills : eng.fills[i].day \in SessionsFed
    /\ \A j \in DOMAIN eng.evaluations :
          eng.evaluations[j].ok => eng.evaluations[j].fillDay = eng.evaluations[j].day + 1
    /\ eng.failure = "none" =>
          \A j \in DOMAIN eng.evaluations :
             eng.evaluations[j].ok /\ eng.evaluations[j].fillDay \notin SessionsFed =>
                eng.evaluations[j].orders = eng.pending
    /\ eng.failure = "none" /\ eng.pending # {} =>
          \E j \in DOMAIN eng.evaluations :
             /\ eng.evaluations[j].ok /\ eng.evaluations[j].orders = eng.pending
             /\ eng.evaluations[j].fillDay = eng.fillDay
    /\ FillsWerePlanned

\* The sessions of a window follow each other.
LEMMA SessionsFollow ==
    ASSUME cfg \in Configs, cursor \in 0 .. WindowSize(cfg), cursor < WindowSize(cfg),
           NEW day \in SessionsFed
    PROVE  day \in Nat /\ day + 1 \in SessionsFed \cup {Window(cfg)[cursor + 1]}
<1>1. /\ WindowSize(cfg) \in Nat /\ FirstDay(cfg) \in Nat
      /\ \A i \in 1 .. WindowSize(cfg) : Window(cfg)[i] = FirstDay(cfg) + i - 1
  BY WindowFacts
<1>2. PICK i \in 1 .. cursor : day = Window(cfg)[i]
  BY DEF SessionsFed
<1>3. day = FirstDay(cfg) + i - 1 /\ day + 1 = Window(cfg)[i + 1] /\ day \in Nat
  BY <1>1, <1>2
<1>4. i + 1 \in 1 .. cursor \/ i + 1 = cursor + 1
  BY <1>1, <1>2
<1>. QED BY <1>3, <1>4 DEF SessionsFed

LEMMA FeedKeepsPlans ==
    ASSUME PlannedInv, BothFeedSession
    PROVE  PlannedInv'
<1>. DEFINE d == Window(cfg)[cursor + 1]
<1>1. /\ d \in Days /\ feed' = feed /\ cfg' = cfg /\ cursor' = cursor + 1 /\ cursor < WindowSize(cfg)
      /\ eng' = StepOf(feed, cfg, eng, d) /\ stage = "running" /\ eng.failure = "none"
  BY FeedIs DEF PlannedInv, BookInv
<1>2. /\ cfg \in Configs /\ feed \in Feeds /\ IsEngine(eng) /\ Booked(cfg, eng)
      /\ cursor \in 0 .. WindowSize(cfg) /\ Listed(eng.evaluations) /\ eng.fills \in Seq(DatedFills)
  BY DEF PlannedInv, BookInv, AccountInv, Booked
<1>3. /\ SessionsFed' = SessionsFed \cup {d} /\ d \notin SessionsFed /\ Window(cfg')[cursor'] = d
  BY <1>1, <1>2, OneSessionMore
<1>4. /\ Completed = SessionsFed
      /\ Completed' = IF eng'.failure = "none" THEN SessionsFed \cup {d} ELSE SessionsFed
  BY <1>1, <1>3 DEF Completed
<1>5. \A day \in SessionsFed : day \in Nat /\ day + 1 \in SessionsFed \cup {d}
  BY <1>1, <1>2, SessionsFollow
<1>6. eng.fillDay = NoDay \/ eng.fillDay = d
  BY <1>1 DEF PlannedInv, BookInv, QueueInv, NothingDangles
<1>. HIDE DEF d
<1>7. d # NoDay /\ d \in Nat /\ d + 1 # d /\ d + 1 # NoDay /\ d < d + 1
  BY <1>1, MarketAssumption DEF Days, NoDay
<1>8. PICK opened, valued : StepPhases(feed, cfg, eng, opened, valued, eng', d)
  BY <1>1, <1>2, StepHasPhases
<1>9. OpenedAt(eng, opened, d) /\ ClosedAt(opened, eng', d)
  BY <1>1, <1>2, <1>8, OpeningFills, ClosingIs DEF StepPhases
<1>10. BookInv'
  <2>1. [BothNext]_bothVars
    BY DEF BothNext
  <2>. QED BY <2>1, BooksAreKept DEF PlannedInv
<1>11. \A j \in DOMAIN eng.evaluations :
          /\ eng.evaluations[j].day \in SessionsFed
          /\ eng.evaluations[j].ok => /\ eng.evaluations[j].fillDay = eng.evaluations[j].day + 1
                                      /\ eng.evaluations[j].fillDay \in SessionsFed \cup {d}
                                      /\ eng.evaluations[j].day < eng.evaluations[j].fillDay
  BY <1>5 DEF PlannedInv, BookInv, AccountInv
<1>12. On(d, eng.fills) = {} /\ \A i \in DOMAIN eng.fills : eng.fills[i].day \in SessionsFed
  BY <1>3 DEF On, PlannedInv
<1>13. eng'.failure = "none" => /\ opened.failure = "none" /\ opened.pending = {}
                                /\ opened.fillDay = NoDay
  BY <1>1, <1>6, <1>9 DEF OpenedAt, ClosedAt, PlannedInv
<1>14. /\ \A day : day # d => On(day, eng'.fills) = On(day, eng.fills)
       /\ eng'.failure = "none" => Cardinality(On(d, eng'.fills)) = Cardinality(eng.pending)
       /\ \A i \in DOMAIN eng'.fills :
             \/ i \in DOMAIN eng.fills /\ eng'.fills[i] = eng.fills[i]
             \/ /\ eng'.fills[i].day = d /\ eng.fillDay = d
                /\ \E o \in eng.pending : /\ o.side = eng'.fills[i].fill.side
                                          /\ o.asset = eng'.fills[i].fill.asset
                                          /\ o.qty >= eng'.fills[i].fill.qty
  <2>1. CASE /\ eng'.fills = eng.fills
             /\ opened.failure = "none" => eng.fillDay # d
    <3>1. eng'.failure = "none" => eng.pending = {}
      BY <1>1, <1>6, <1>13, <2>1 DEF PlannedInv
    <3>2. Cardinality({}) = 0
      BY FS_EmptySet
    <3>. QED BY <1>12, <2>1, <3>1, <3>2
  <2>2. CASE \E list \in Seq(FillRecords) :
                /\ eng'.fills = eng.fills \o Stamped(list, d) /\ eng.fillDay = d
                /\ Len(list) = Cardinality(eng.pending) /\ FilledFor(eng.pending, list)
    <3>1. PICK list \in Seq(FillRecords) :
                /\ eng'.fills = eng.fills \o Stamped(list, d) /\ eng.fillDay = d
                /\ Len(list) = Cardinality(eng.pending) /\ FilledFor(eng.pending, list)
      BY <2>2
    <3>. DEFINE n == Len(eng.fills)
                m == Len(list)
    <3>2. /\ \A day : day # d => On(day, eng'.fills) = On(day, eng.fills)
          /\ Cardinality(On(d, eng'.fills)) = m /\ DOMAIN eng'.fills = 1 .. n + m
          /\ \A i \in 1 .. n : eng'.fills[i] = eng.fills[i]
          /\ \A i \in 1 .. m : eng'.fills[n + i] = [day |-> d, fill |-> list[i]]
      <4>1. OneSessionOn(eng.fills, list, d, eng'.fills)
        BY <1>1, <1>2, <3>1, OnStamped
      <4>. QED BY <1>12, <4>1 DEF OneSessionOn
    <3>3. n \in Nat /\ m \in Nat /\ DOMAIN eng.fills = 1 .. n /\ DOMAIN list = 1 .. m
      BY <1>2
    <3>. HIDE DEF n, m
    <3>4. ASSUME NEW i \in DOMAIN eng'.fills, i \notin DOMAIN eng.fills
          PROVE  /\ eng'.fills[i].day = d
                 /\ \E o \in eng.pending : /\ o.side = eng'.fills[i].fill.side
                                           /\ o.asset = eng'.fills[i].fill.asset
                                           /\ o.qty >= eng'.fills[i].fill.qty
      <4>1. i - n \in 1 .. m /\ i = n + (i - n)
        BY <3>2, <3>3, <3>4
      <4>2. eng'.fills[i] = [day |-> d, fill |-> list[i - n]]
        BY <3>2, <4>1
      <4>3. \E o \in eng.pending : /\ o.side = list[i - n].side /\ o.asset = list[i - n].asset
                                   /\ o.qty >= list[i - n].qty
        BY <3>1, <3>3, <4>1 DEF FilledFor
      <4>. QED BY <4>2, <4>3
    <3>. QED BY <3>1, <3>2, <3>3, <3>4 DEF m
  <2>. QED BY <1>9, <2>1, <2>2 DEF OpenedAt, ClosedAt
<1>15. /\ \A j \in DOMAIN eng.evaluations : j \in DOMAIN eng'.evaluations
                                            /\ eng'.evaluations[j] = eng.evaluations[j]
       /\ \A j \in DOMAIN eng'.evaluations :
             \/ j \in DOMAIN eng.evaluations
             \/ /\ eng'.evaluations[j].day = d
                /\ eng'.evaluations[j].ok =>
                      /\ eng'.evaluations[j].fillDay = d + 1
                      /\ eng'.failure = "none" => eng'.evaluations[j].orders = eng'.pending
       /\ eng'.failure = "none" =>
             \/ eng'.pending = {} /\ eng'.fillDay = NoDay
             \/ /\ eng'.pending # {} /\ eng'.fillDay = d + 1
                /\ \E j \in DOMAIN eng'.evaluations :
                      /\ eng'.evaluations[j].ok /\ eng'.evaluations[j].orders = eng'.pending
                      /\ eng'.evaluations[j].fillDay = d + 1
  <2>1. ASSUME NEW ev, eng'.evaluations = Append(eng.evaluations, ev)
        PROVE  /\ \A j \in DOMAIN eng.evaluations : j \in DOMAIN eng'.evaluations
                                                    /\ eng'.evaluations[j] = eng.evaluations[j]
               /\ \A j \in DOMAIN eng'.evaluations :
                     j \in DOMAIN eng.evaluations \/ eng'.evaluations[j] = ev
               /\ \E j \in DOMAIN eng'.evaluations : eng'.evaluations[j] = ev
    <3>. DEFINE n == Len(eng.evaluations)
    <3>1. /\ n \in Nat /\ DOMAIN eng.evaluations = 1 .. n /\ DOMAIN eng'.evaluations = 1 .. n + 1
          /\ eng'.evaluations[n + 1] = ev
          /\ \A i \in 1 .. n : eng'.evaluations[i] = eng.evaluations[i]
      BY <1>2, <2>1, AppendListed DEF Listed
    <3>. HIDE DEF n
    <3>. QED BY <3>1
  <2>2. opened.evaluations = eng.evaluations
    BY <1>9 DEF OpenedAt
  <2>3. CASE /\ eng'.evaluations = eng.evaluations
             /\ \/ eng'.pending = opened.pending /\ eng'.fillDay = opened.fillDay
                \/ eng'.failure # "none"
    BY <1>13, <2>3
  <2>4. CASE eng'.failure # "none" /\ \E ev : /\ ev.day = d /\ ~ev.ok
                                              /\ eng'.evaluations = Append(eng.evaluations, ev)
    <3>1. PICK ev : ev.day = d /\ ~ev.ok /\ eng'.evaluations = Append(eng.evaluations, ev)
      BY <2>4
    <3>. QED BY <2>1, <2>4, <3>1
  <2>5. CASE \E ev : /\ ev.day = d /\ ev.ok /\ ev.fillDay = d + 1
                     /\ eng'.evaluations = Append(eng.evaluations, ev)
                     /\ IF ev.orders = {}
                        THEN eng'.pending = opened.pending /\ eng'.fillDay = opened.fillDay
                        ELSE eng'.pending = ev.orders /\ eng'.fillDay = d + 1
    <3>1. PICK ev : /\ ev.day = d /\ ev.ok /\ ev.fillDay = d + 1
                    /\ eng'.evaluations = Append(eng.evaluations, ev)
                    /\ IF ev.orders = {}
                       THEN eng'.pending = opened.pending /\ eng'.fillDay = opened.fillDay
                       ELSE eng'.pending = ev.orders /\ eng'.fillDay = d + 1
      BY <2>5
    <3>2. eng'.failure = "none" => eng'.pending = ev.orders
      BY <1>13, <3>1
    <3>3. eng'.failure = "none" => \/ eng'.pending = {} /\ eng'.fillDay = NoDay
                                   \/ eng'.pending # {} /\ eng'.fillDay = d + 1
      BY <1>13, <3>1
    <3>. QED BY <2>1, <3>1, <3>2, <3>3
  <2>. QED BY <1>9, <2>2, <2>3, <2>4, <2>5 DEF ClosedAt
<1>16. eng'.failure = "none" => (eng'.fillDay = NoDay <=> eng'.pending = {})
  BY <1>7, <1>15
<1>17. \A i \in DOMAIN eng'.fills : eng'.fills[i].day \in SessionsFed'
  BY <1>3, <1>12, <1>14
<1>18. \A j \in DOMAIN eng'.evaluations :
          eng'.evaluations[j].ok => eng'.evaluations[j].fillDay = eng'.evaluations[j].day + 1
  BY <1>11, <1>15
<1>19. eng'.failure = "none" =>
          \A j \in DOMAIN eng'.evaluations :
             eng'.evaluations[j].ok /\ eng'.evaluations[j].fillDay \notin SessionsFed' =>
                eng'.evaluations[j].orders = eng'.pending
  BY <1>3, <1>11, <1>15
<1>20. eng'.failure = "none" /\ eng'.pending # {} =>
          \E j \in DOMAIN eng'.evaluations :
             /\ eng'.evaluations[j].ok /\ eng'.evaluations[j].orders = eng'.pending
             /\ eng'.evaluations[j].fillDay = eng'.fillDay
  BY <1>15
<1>21. ASSUME NEW i \in DOMAIN eng'.fills
       PROVE  \E j \in DOMAIN eng'.evaluations :
                 /\ eng'.evaluations[j].ok
                 /\ eng'.evaluations[j].day < eng'.fills[i].day
                 /\ eng'.evaluations[j].fillDay = eng'.fills[i].day
                 /\ \E o \in eng'.evaluations[j].orders :
                       /\ o.side = eng'.fills[i].fill.side /\ o.asset = eng'.fills[i].fill.asset
                       /\ o.qty >= eng'.fills[i].fill.qty
  <2>1. CASE i \in DOMAIN eng.fills /\ eng'.fills[i] = eng.fills[i]
    BY <1>15, <2>1 DEF PlannedInv, FillsWerePlanned
  <2>2. CASE /\ eng'.fills[i].day = d /\ eng.fillDay = d
             /\ \E o \in eng.pending : /\ o.side = eng'.fills[i].fill.side
                                       /\ o.asset = eng'.fills[i].fill.asset
                                       /\ o.qty >= eng'.fills[i].fill.qty
    <3>1. PICK j \in DOMAIN eng.evaluations :
             /\ eng.evaluations[j].ok /\ eng.evaluations[j].orders = eng.pending
             /\ eng.evaluations[j].fillDay = d
      BY <1>1, <2>2 DEF PlannedInv
    <3>2. j \in DOMAIN eng'.evaluations /\ eng'.evaluations[j] = eng.evaluations[j]
      BY <1>15
    <3>3. eng.evaluations[j].day < d
      BY <1>11, <3>1
    <3>. QED BY <2>2, <3>1, <3>2, <3>3
  <2>. QED BY <1>14, <2>1, <2>2
<1>22. ASSUME NEW j \in DOMAIN eng'.evaluations,
              eng'.evaluations[j].ok, eng'.evaluations[j].fillDay \in Completed'
       PROVE  Cardinality(On(eng'.evaluations[j].fillDay, eng'.fills))
                = Cardinality(eng'.evaluations[j].orders)
  <2>1. j \in DOMAIN eng.evaluations /\ eng'.evaluations[j] = eng.evaluations[j]
    <3>1. d + 1 \notin SessionsFed
      <4>1. \A day \in SessionsFed : day < d
        <5>1. /\ WindowSize(cfg) \in Nat /\ FirstDay(cfg) \in Nat
              /\ \A i \in 1 .. WindowSize(cfg) : Window(cfg)[i] = FirstDay(cfg) + i - 1
          BY <1>2, WindowFacts
        <5>2. d = FirstDay(cfg) + cursor
          BY <1>1, <1>2, <5>1 DEF d
        <5>3. \A i \in 1 .. cursor : Window(cfg)[i] = FirstDay(cfg) + i - 1
          BY <1>2, <5>1
        <5>. QED BY <1>2, <5>1, <5>2, <5>3 DEF SessionsFed
      <4>. QED BY <1>5, <1>7, <4>1
    <3>2. d + 1 \notin Completed'
      BY <1>4, <1>7, <3>1
    <3>. QED BY <1>15, <1>22, <3>2
  <2>2. CASE eng.evaluations[j].fillDay \in SessionsFed
    BY <1>3, <1>4, <1>14, <1>22, <2>1, <2>2 DEF PlannedInv, FillsWerePlanned
  <2>3. CASE eng.evaluations[j].fillDay = d
    <3>1. eng'.failure = "none"
      BY <1>3, <1>4, <1>22, <2>1, <2>3
    <3>2. eng.evaluations[j].orders = eng.pending
      BY <1>1, <1>3, <1>22, <2>1, <2>3 DEF PlannedInv
    <3>. QED BY <1>14, <2>1, <2>3, <3>1, <3>2
  <2>. QED BY <1>11, <1>22, <2>1, <2>2, <2>3
<1>23. FillsWerePlanned'
  BY <1>21, <1>22 DEF FillsWerePlanned
<1>. QED BY <1>10, <1>16, <1>17, <1>18, <1>19, <1>20, <1>23 DEF PlannedInv

LEMMA NothingPlannedYet ==
    ASSUME BookInv, cursor = 0, eng.fills = <<>>, eng.evaluations = <<>>,
           eng.pending = {}, eng.fillDay = NoDay
    PROVE  PlannedInv
BY DEF PlannedInv, FillsWerePlanned

LEMMA PlansAreKept == PlannedInv /\ [BothNext]_bothVars => PlannedInv'
<1>. SUFFICES ASSUME PlannedInv, [BothNext]_bothVars PROVE PlannedInv'
  OBVIOUS
<1>1. BookInv'
  BY BooksAreKept DEF PlannedInv
<1>2. CASE UNCHANGED bothVars
  BY <1>1, <1>2 DEF bothVars, vars, PlannedInv, FillsWerePlanned, SessionsFed, Completed
<1>3. CASE BothPreflight
  <2>1. eng = Fresh(cfg) /\ cursor' = 0 /\ Keeps(eng, eng', {"failure"})
    BY <1>3, PreflightIs DEF PlannedInv, BookInv
  <2>2. /\ eng'.fills = <<>> /\ eng'.evaluations = <<>> /\ eng'.pending = {}
        /\ eng'.fillDay = NoDay
    BY <2>1 DEF Keeps, Accumulators, Fresh
  <2>. QED BY <1>1, <2>1, <2>2 DEF PlannedInv, FillsWerePlanned
<1>4. CASE BothFeedSession
  BY <1>4, FeedKeepsPlans
<1>5. CASE BothFinish
  BY <1>1, <1>5 DEF BothFinish, Finish, PlannedInv, FillsWerePlanned, SessionsFed, Completed
<1>. QED BY <1>2, <1>3, <1>4, <1>5 DEF BothNext

LEMMA RunStartsPlanned == ReplayInit => PlannedInv
<1>. SUFFICES ASSUME ReplayInit PROVE PlannedInv
  OBVIOUS
<1>1. cursor = 0 /\ eng = Fresh(cfg)
  BY DEF ReplayInit, BothInit, Init
<1>2. /\ eng.fills = <<>> /\ eng.evaluations = <<>> /\ eng.pending = {} /\ eng.fillDay = NoDay
  BY <1>1 DEF Fresh
<1>. QED BY <1>1, <1>2, RunStartsBooked, NothingPlannedYet

\* An order is filled at the session its evaluation announced, once and no other
\* (backtest.py, SessionEngine.step): every fill has the evaluation that proposed it,
\* and every plan whose session came has a fill for each of its orders.
THEOREM EveryFillWasPlanned == ReplaySpec => []FillsWerePlanned
<1>1. PlannedInv /\ [ReplayNext]_allVars => PlannedInv'
  BY ReplayStepsTheRun, PlansAreKept
<1>2. PlannedInv => FillsWerePlanned
  BY DEF PlannedInv
<1>. QED BY RunStartsPlanned, <1>1, <1>2, PTL DEF ReplaySpec

-----------------------------------------------------------------------------
(* The trace is in order and tells the facts.                              *)

InstantOf(ev) == IF ev.type \in {"orders_filled", "state_transition"}
                 THEN OpenAt(ev.day) ELSE CloseAt(ev.day)

\* The sessions of the events of a type, and of the records of a list.
DaysOf(trace, type) ==
    {ev.day : ev \in {trace[i] : i \in {k \in DOMAIN trace : trace[k].type = type}}}

DaysIn(records) == {records[i].day : i \in DOMAIN records}

DaysPlanned(evaluations) ==
    {ev.day : ev \in {evaluations[i] : i \in {k \in DOMAIN evaluations : evaluations[k].ok}}}

\* Events in the order of their instants, none of them after t.
Chronicle(trace, t) ==
    /\ Listed(trace)
    /\ \A i \in DOMAIN trace : InstantOf(trace[i]) \in Int /\ InstantOf(trace[i]) <= t
    /\ \A i, j \in DOMAIN trace : i < j => InstantOf(trace[i]) <= InstantOf(trace[j])

WithEvent(trace, ev, longer) ==
    \A type : DaysOf(longer, type) = DaysOf(trace, type) \cup (IF ev.type = type THEN {ev.day} ELSE {})

LEMMA OneEventMore ==
    ASSUME NEW trace, NEW t \in Int, Chronicle(trace, t), NEW ev, NEW u \in Int,
           InstantOf(ev) = u, t <= u
    PROVE  Chronicle(Append(trace, ev), u) /\ WithEvent(trace, ev, Append(trace, ev))
<1>. DEFINE n == Len(trace)
            longer == Append(trace, ev)
<1>1. /\ n \in Nat /\ Listed(longer) /\ DOMAIN trace = 1 .. n /\ DOMAIN longer = 1 .. n + 1
      /\ longer[n + 1] = ev /\ \A i \in 1 .. n : longer[i] = trace[i]
  BY AppendListed DEF Chronicle, Listed
<1>. HIDE DEF n, longer
<1>2. 1 .. n + 1 = (1 .. n) \cup {n + 1} /\ \A i \in 1 .. n : i < n + 1
  BY <1>1
<1>3. \A i \in 1 .. n : InstantOf(longer[i]) = InstantOf(trace[i])
  BY <1>1
<1>4. \A i \in DOMAIN longer : InstantOf(longer[i]) \in Int /\ InstantOf(longer[i]) <= u
  BY <1>1, <1>2, <1>3 DEF Chronicle
<1>5. ASSUME NEW i \in DOMAIN longer, NEW j \in DOMAIN longer, i < j
      PROVE  InstantOf(longer[i]) <= InstantOf(longer[j])
  <2>1. i \in 1 .. n
    BY <1>1, <1>5
  <2>2. CASE j \in 1 .. n
    BY <1>1, <1>3, <1>5, <2>1, <2>2 DEF Chronicle
  <2>3. CASE j = n + 1
    BY <1>1, <1>4, <1>5, <2>3
  <2>. QED BY <1>1, <1>2, <2>2, <2>3
<1>6. ASSUME NEW type
      PROVE  DaysOf(longer, type) = DaysOf(trace, type) \cup (IF ev.type = type THEN {ev.day} ELSE {})
  BY <1>1, <1>2 DEF DaysOf
<1>. QED BY <1>1, <1>4, <1>5, <1>6 DEF Chronicle, WithEvent, longer

LEMMA LaterChronicle ==
    ASSUME NEW trace, NEW t \in Int, NEW u \in Int, t <= u, Chronicle(trace, t)
    PROVE  Chronicle(trace, u)
BY DEF Chronicle

LEMMA DaysOfAppended ==
    ASSUME NEW s, Listed(s), NEW v
    PROVE  /\ DaysIn(Append(s, v)) = DaysIn(s) \cup {v.day}
           /\ v.ok => DaysPlanned(Append(s, v)) = DaysPlanned(s) \cup {v.day}
           /\ ~v.ok => DaysPlanned(Append(s, v)) = DaysPlanned(s)
<1>. DEFINE n == Len(s)
            t == Append(s, v)
<1>1. /\ n \in Nat /\ DOMAIN s = 1 .. n /\ DOMAIN t = 1 .. n + 1 /\ t[n + 1] = v
      /\ \A i \in 1 .. n : t[i] = s[i]
  BY AppendListed DEF Listed
<1>. HIDE DEF n, t
<1>2. 1 .. n + 1 = (1 .. n) \cup {n + 1} /\ n + 1 \notin 1 .. n
  BY <1>1
<1>. QED BY <1>1, <1>2 DEF DaysIn, DaysPlanned, t

LEMMA DaysOfStamped ==
    ASSUME NEW s \in Seq(DatedFills), NEW list \in Seq(FillRecords), NEW d \in Days, Len(list) > 0
    PROVE  DaysIn(s \o Stamped(list, d)) = DaysIn(s) \cup {d}
<1>. DEFINE u == s \o Stamped(list, d)
            n == Len(s)
            m == Len(list)
<1>1. /\ n \in Nat /\ m \in Nat /\ m > 0 /\ DOMAIN s = 1 .. n /\ DOMAIN u = 1 .. n + m
      /\ \A i \in 1 .. n : u[i] = s[i]
      /\ \A i \in 1 .. m : u[n + i] = [day |-> d, fill |-> list[i]]
  <2>1. OneSessionOn(s, list, d, u)
    BY OnStamped
  <2>. HIDE DEF u
  <2>. QED BY <2>1 DEF OneSessionOn
<1>. HIDE DEF u, n, m
<1>2. \A i \in 1 .. n + m : i \in 1 .. n \/ (i - n \in 1 .. m /\ i = n + (i - n))
  BY <1>1
<1>3. ASSUME NEW k \in 1 .. m PROVE u[n + k].day = d /\ n + k \in 1 .. n + m
  <2>1. u[n + k] = [day |-> d, fill |-> list[k]] /\ n + k \in 1 .. n + m
    BY <1>1
  <2>. QED BY <2>1
<1>4. 1 \in 1 .. m /\ 1 .. n \subseteq 1 .. n + m
  BY <1>1
<1>5. \A i \in 1 .. n + m : i \in 1 .. n \/ u[i].day = d
  BY <1>2, <1>3
<1>6. d \in DaysIn(u)
  BY <1>1, <1>3, <1>4 DEF DaysIn
<1>. QED BY <1>1, <1>4, <1>5, <1>6 DEF DaysIn, u

\* The facts the trace tells, as far as the last session fed.
TraceTells(e) ==
    /\ DaysOf(e.trace, "orders_filled") = DaysIn(e.fills)
    /\ DaysOf(e.trace, "note") = DaysIn(e.notes)
    /\ DaysOf(e.trace, "orders_proposed") = DaysPlanned(e.evaluations)

TraceInv ==
    /\ PlannedInv
    /\ Chronicle(eng.trace, CloseAt(FirstDay(cfg) + cursor - 1))
    /\ TraceTells(eng)

LEMMA NothingTracedYet ==
    ASSUME NEW e, e.fills = <<>>, e.notes = <<>>, e.evaluations = <<>>, e.trace = <<>>, NEW t
    PROVE  Chronicle(e.trace, t) /\ TraceTells(e)
BY EmptyRecord DEF Chronicle, TraceTells, DaysOf, DaysIn, DaysPlanned

LEMMA OpeningIsTold ==
    ASSUME NEW e, NEW opened, NEW d \in Days, OpenedAt(e, opened, d), TraceTells(e),
           NEW t \in Int, t <= OpenAt(d), Chronicle(e.trace, t), e.fills \in Seq(DatedFills),
           e.fillDay = NoDay <=> e.pending = {}
    PROVE  Chronicle(opened.trace, OpenAt(d)) /\ TraceTells(opened)
<1>1. OpenAt(d) \in Int /\ d # NoDay
  BY DEF OpenAt, Days, NoDay
<1>2. CASE opened.fills = e.fills /\ opened.trace = e.trace
  <2>1. Chronicle(opened.trace, OpenAt(d))
    BY <1>1, <1>2, LaterChronicle
  <2>. QED BY <1>2, <2>1 DEF OpenedAt, TraceTells
<1>3. CASE \E list \in Seq(FillRecords) :
             /\ opened.fills = e.fills \o Stamped(list, d) /\ e.fillDay = d
             /\ Len(list) = Cardinality(e.pending) /\ IsFiniteSet(e.pending)
             /\ opened.trace = Append(Append(e.trace, Event("orders_filled", d)),
                                      Event("state_transition", d))
  <2>1. PICK list \in Seq(FillRecords) :
             /\ opened.fills = e.fills \o Stamped(list, d) /\ e.fillDay = d
             /\ Len(list) = Cardinality(e.pending) /\ IsFiniteSet(e.pending)
             /\ opened.trace = Append(Append(e.trace, Event("orders_filled", d)),
                                      Event("state_transition", d))
    BY <1>3
  <2>. DEFINE filled == Event("orders_filled", d)
              moved == Event("state_transition", d)
              once == Append(e.trace, filled)
  <2>2. /\ InstantOf(filled) = OpenAt(d) /\ InstantOf(moved) = OpenAt(d)
        /\ filled.type = "orders_filled" /\ moved.type = "state_transition" /\ filled.day = d
    BY DEF Event, InstantOf
  <2>. HIDE DEF filled, moved
  <2>3. Chronicle(once, OpenAt(d)) /\ WithEvent(e.trace, filled, once)
    BY <1>1, <2>2, OneEventMore
  <2>. HIDE DEF once
  <2>4. opened.trace = Append(once, moved)
    BY <2>1 DEF once, filled, moved
  <2>5. Chronicle(opened.trace, OpenAt(d)) /\ WithEvent(once, moved, opened.trace)
    BY <1>1, <2>2, <2>3, <2>4, OneEventMore
  <2>6. /\ DaysOf(opened.trace, "orders_filled") = DaysOf(e.trace, "orders_filled") \cup {d}
        /\ DaysOf(opened.trace, "note") = DaysOf(e.trace, "note")
        /\ DaysOf(opened.trace, "orders_proposed") = DaysOf(e.trace, "orders_proposed")
    <3>1. \A type : DaysOf(once, type) = DaysOf(e.trace, type)
                        \cup (IF type = "orders_filled" THEN {d} ELSE {})
      BY <2>2, <2>3 DEF WithEvent
    <3>2. \A type : type # "state_transition" => DaysOf(opened.trace, type) = DaysOf(once, type)
      BY <2>2, <2>5 DEF WithEvent
    <3>. QED BY <3>1, <3>2
  <2>7. Len(list) > 0
    <3>1. e.pending # {}
      BY <1>1, <2>1
    <3>2. Len(list) \in Nat /\ Cardinality(e.pending) # 0
      BY <2>1, <3>1, FS_EmptySet
    <3>. QED BY <2>1, <3>2
  <2>8. DaysIn(opened.fills) = DaysIn(e.fills) \cup {d}
    BY <2>1, <2>7, DaysOfStamped
  <2>. QED BY <2>5, <2>6, <2>8 DEF OpenedAt, TraceTells
<1>. QED BY <1>2, <1>3 DEF OpenedAt

LEMMA ClosingIsTold ==
    ASSUME NEW opened, NEW s, NEW d \in Days, ClosedAt(opened, s, d), TraceTells(opened),
           Chronicle(opened.trace, OpenAt(d)), Listed(opened.notes), Listed(opened.evaluations)
    PROVE  Chronicle(s.trace, CloseAt(d)) /\ TraceTells(s)
<1>1. OpenAt(d) \in Int /\ CloseAt(d) \in Int /\ OpenAt(d) <= CloseAt(d)
  BY DEF OpenAt, CloseAt, Days
<1>2. /\ s.fills = opened.fills
      /\ \A type : Event(type, d).type = type /\ Event(type, d).day = d
      /\ \A type \in {"note", "graph", "orders_proposed"} : InstantOf(Event(type, d)) = CloseAt(d)
  BY DEF ClosedAt, Event, InstantOf
<1>3. ASSUME NEW type \in {"note", "graph", "orders_proposed"}, NEW trace, NEW t \in Int,
             t <= CloseAt(d), Chronicle(trace, t)
      PROVE  /\ Chronicle(Append(trace, Event(type, d)), CloseAt(d))
             /\ WithEvent(trace, Event(type, d), Append(trace, Event(type, d)))
  BY <1>1, <1>2, <1>3, OneEventMore
<1>4. CASE s.evaluations = opened.evaluations /\ s.notes = opened.notes /\ s.trace = opened.trace
  BY <1>1, <1>2, <1>4, LaterChronicle DEF TraceTells
<1>5. CASE /\ s.evaluations = opened.evaluations
           /\ \E note : note.day = d /\ s.notes = Append(opened.notes, note)
           /\ s.trace = Append(opened.trace, Event("note", d))
  <2>1. Chronicle(s.trace, CloseAt(d)) /\ WithEvent(opened.trace, Event("note", d), s.trace)
    BY <1>1, <1>3, <1>5
  <2>2. DaysIn(s.notes) = DaysIn(opened.notes) \cup {d}
    BY <1>5, DaysOfAppended
  <2>3. /\ DaysOf(s.trace, "orders_filled") = DaysOf(opened.trace, "orders_filled")
        /\ DaysOf(s.trace, "note") = DaysOf(opened.trace, "note") \cup {d}
        /\ DaysOf(s.trace, "orders_proposed") = DaysOf(opened.trace, "orders_proposed")
    BY <1>2, <2>1 DEF WithEvent
  <2>. QED BY <1>2, <1>5, <2>1, <2>2, <2>3 DEF TraceTells
<1>. DEFINE graphed == Append(opened.trace, Event("graph", d))
<1>6. Chronicle(graphed, CloseAt(d)) /\ WithEvent(opened.trace, Event("graph", d), graphed)
  BY <1>1, <1>3
<1>. HIDE DEF graphed
<1>7. /\ DaysOf(graphed, "orders_filled") = DaysOf(opened.trace, "orders_filled")
      /\ DaysOf(graphed, "note") = DaysOf(opened.trace, "note")
      /\ DaysOf(graphed, "orders_proposed") = DaysOf(opened.trace, "orders_proposed")
  BY <1>2, <1>6 DEF WithEvent
<1>8. CASE /\ s.notes = opened.notes
           /\ \/ s.evaluations = opened.evaluations
              \/ \E ev : /\ ev.day = d /\ ~ev.ok
                         /\ s.evaluations = Append(opened.evaluations, ev)
           /\ s.trace = graphed
  <2>1. ASSUME NEW ev, ~ev.ok, s.evaluations = Append(opened.evaluations, ev)
        PROVE  DaysPlanned(s.evaluations) = DaysPlanned(opened.evaluations)
    BY <2>1, DaysOfAppended
  <2>2. DaysPlanned(s.evaluations) = DaysPlanned(opened.evaluations)
    BY <1>8, <2>1
  <2>. QED BY <1>2, <1>6, <1>7, <1>8, <2>2 DEF TraceTells
<1>9. CASE \E ev : /\ ev.day = d /\ ev.ok
                   /\ s.evaluations = Append(opened.evaluations, ev)
                   /\ s.notes = opened.notes
                   /\ s.trace = Append(graphed, Event("orders_proposed", d))
  <2>1. /\ Chronicle(s.trace, CloseAt(d))
        /\ WithEvent(graphed, Event("orders_proposed", d), s.trace)
    BY <1>1, <1>3, <1>6, <1>9
  <2>2. DaysPlanned(s.evaluations) = DaysPlanned(opened.evaluations) \cup {d}
    BY <1>9, DaysOfAppended
  <2>3. /\ DaysOf(s.trace, "orders_filled") = DaysOf(graphed, "orders_filled")
        /\ DaysOf(s.trace, "note") = DaysOf(graphed, "note")
        /\ DaysOf(s.trace, "orders_proposed") = DaysOf(graphed, "orders_proposed") \cup {d}
    BY <1>2, <2>1 DEF WithEvent
  <2>. QED BY <1>2, <1>7, <1>9, <2>1, <2>2, <2>3 DEF TraceTells
<1>. QED BY <1>4, <1>5, <1>8, <1>9 DEF ClosedAt, graphed

LEMMA FeedKeepsTrace ==
    ASSUME TraceInv, BothFeedSession
    PROVE  TraceInv'
<1>. DEFINE d == Window(cfg)[cursor + 1]
<1>1. /\ d \in Days /\ feed' = feed /\ cfg' = cfg /\ cursor' = cursor + 1 /\ cursor < WindowSize(cfg)
      /\ eng' = StepOf(feed, cfg, eng, d) /\ eng.failure = "none"
  BY FeedIs DEF TraceInv, PlannedInv, BookInv
<1>2. /\ cfg \in Configs /\ feed \in Feeds /\ IsEngine(eng) /\ Booked(cfg, eng)
      /\ cursor \in 0 .. WindowSize(cfg) /\ eng.fills \in Seq(DatedFills)
      /\ Listed(eng.evaluations) /\ Listed(eng.notes)
      /\ (eng.fillDay = NoDay <=> eng.pending = {})
  BY <1>1 DEF TraceInv, PlannedInv, BookInv, AccountInv, Booked
<1>3. /\ FirstDay(cfg) \in Nat /\ cursor \in Nat /\ d = FirstDay(cfg) + cursor
      /\ FirstDay(cfg') + cursor' - 1 = d
  BY <1>1, <1>2, WindowFacts
<1>. HIDE DEF d
<1>4. PICK opened, valued : StepPhases(feed, cfg, eng, opened, valued, eng', d)
  BY <1>1, <1>2, StepHasPhases
<1>5. OpenedAt(eng, opened, d) /\ ClosedAt(opened, eng', d)
  BY <1>1, <1>2, <1>4, OpeningFills, ClosingIs DEF StepPhases
<1>. DEFINE t == CloseAt(FirstDay(cfg) + cursor - 1)
<1>6. t \in Int /\ t <= OpenAt(d)
  BY <1>3 DEF OpenAt, CloseAt
<1>7. Chronicle(eng.trace, t) /\ TraceTells(eng)
  BY DEF TraceInv
<1>. HIDE DEF t
<1>8. Chronicle(opened.trace, OpenAt(d)) /\ TraceTells(opened)
  BY <1>1, <1>2, <1>5, <1>6, <1>7, OpeningIsTold
<1>9. Listed(opened.notes) /\ Listed(opened.evaluations)
  BY <1>2, <1>5 DEF OpenedAt
<1>10. Chronicle(eng'.trace, CloseAt(d)) /\ TraceTells(eng')
  BY <1>1, <1>5, <1>8, <1>9, ClosingIsTold
<1>11. PlannedInv'
  BY FeedKeepsPlans DEF TraceInv
<1>12. CloseAt(FirstDay(cfg') + cursor' - 1) = CloseAt(d)
  BY <1>3
<1>. QED BY <1>10, <1>11, <1>12 DEF TraceInv

LEMMA TraceIsKept == TraceInv /\ [BothNext]_bothVars => TraceInv'
<1>. SUFFICES ASSUME TraceInv, [BothNext]_bothVars PROVE TraceInv'
  OBVIOUS
<1>1. PlannedInv'
  BY PlansAreKept DEF TraceInv
<1>2. CASE UNCHANGED bothVars
  BY <1>1, <1>2 DEF bothVars, vars, TraceInv
<1>3. CASE BothPreflight
  <2>1. eng = Fresh(cfg) /\ Keeps(eng, eng', {"failure"})
    BY <1>3, PreflightIs DEF TraceInv, PlannedInv, BookInv
  <2>2. /\ eng'.fills = <<>> /\ eng'.evaluations = <<>> /\ eng'.notes = <<>> /\ eng'.trace = <<>>
    BY <2>1 DEF Keeps, Accumulators, Fresh
  <2>. QED BY <1>1, <2>2, NothingTracedYet DEF TraceInv
<1>4. CASE BothFeedSession
  BY <1>4, FeedKeepsTrace
<1>5. CASE BothFinish
  BY <1>1, <1>5 DEF BothFinish, Finish, TraceInv
<1>. QED BY <1>2, <1>3, <1>4, <1>5 DEF BothNext

\* The trace is in the order of the instants it is about and tells the recorded
\* facts: fills, notes and proposals at the sessions where the records have them
\* (backtest.py, engine/trace.py), in a finished run and in a failed one.
THEOREM TraceAlwaysTellsFacts == ReplaySpec => []TraceTellsFacts
<1>1. ReplayInit => TraceInv
  <2>. SUFFICES ASSUME ReplayInit PROVE TraceInv
    OBVIOUS
  <2>1. eng = Fresh(cfg)
    BY DEF ReplayInit, BothInit, Init
  <2>2. /\ eng.fills = <<>> /\ eng.evaluations = <<>> /\ eng.notes = <<>> /\ eng.trace = <<>>
    BY <2>1 DEF Fresh
  <2>. QED BY <2>2, RunStartsPlanned, NothingTracedYet DEF TraceInv
<1>2. TraceInv /\ [ReplayNext]_allVars => TraceInv'
  BY ReplayStepsTheRun, TraceIsKept
<1>3. TraceInv => TraceTellsFacts
  <2>. SUFFICES ASSUME TraceInv PROVE TraceTellsFacts
    OBVIOUS
  <2>1. \A i, j \in DOMAIN eng.trace :
           i < j => InstantOf(eng.trace[i]) <= InstantOf(eng.trace[j])
    BY DEF TraceInv, Chronicle
  <2>2. TraceTells(eng)
    BY DEF TraceInv
  <2>. QED BY <2>1, <2>2 DEF TraceTellsFacts, TraceTells, InstantOf, DaysOf, DaysIn, DaysPlanned
<1>. QED BY <1>1, <1>2, <1>3, PTL DEF ReplaySpec
=============================================================================
