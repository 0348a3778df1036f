--------------------------- MODULE ForwardReplay ---------------------------
(***************************************************************************)
(* The forward driver (quantize/engine/forward.py) beside the backtest of  *)
(* the same inputs: sessions advanced one at a time, snapshots taken at    *)
(* any boundary, drivers abandoned and rebuilt from any snapshot, results  *)
(* asked for at any point, and RunRepository.save_run                      *)
(* (quantize/persistence/runs.py) deciding what of that becomes a run.     *)
(*                                                                         *)
(* The backtest runs first; `whole' keeps its engine before each session   *)
(* of the configurations that are replayed.                                *)
(* Snapshots are values the caller holds: nothing stores them durably.     *)
(***************************************************************************)
EXTENDS LookAhead

\* The configurations that are also replayed forward.
CONSTANT ReplayConfigs

\* last_session is required: an open-ended replay is refused.
ASSUME ReplayAssumption ==
    ReplayConfigs \subseteq Configs \ TwinConfigs /\ \A c \in ReplayConfigs : c.last # NoDay

VARIABLES
    whole,        \* history: the backtest's engine after 0, 1, ... sessions
    alive,        \* whether the caller has a driver
    driver,       \* [eng, cursor]: its SessionEngine (with _failure) and _cursor
    checkpoints,  \* the snapshots the caller holds
    saved,        \* the run record persisted under the run's id, if any
    verdict       \* how the last save_run ended

replay   == <<alive, driver, checkpoints, saved, verdict>>
allVars  == <<bothVars, whole, replay>>

NoDriver == [eng |-> Fresh(cfg), cursor |-> 0]

ReplayInit ==
    /\ BothInit
    /\ whole = <<>>
    /\ alive = FALSE /\ driver = NoDriver
    /\ checkpoints = {} /\ saved = {} /\ verdict = "none"

-----------------------------------------------------------------------------
\* run_backtest over the same inputs.
Backtest ==
    /\ BothPreflight \/ BothFeedSession
    /\ whole' = IF cfg \in ReplayConfigs THEN Append(whole, eng') ELSE whole
    /\ UNCHANGED replay

BacktestDone == BothFinish /\ UNCHANGED <<whole, replay>>

-----------------------------------------------------------------------------
Exhausted(d) == d.eng.failure # "none" \/ d.cursor >= WindowSize(cfg)

Construct ==
    /\ cfg \in ReplayConfigs /\ stage = "finished" /\ ~alive
    /\ alive' = TRUE
    /\ driver' = [eng |-> [Fresh(cfg) EXCEPT !.failure = PreflightFailure(cfg)], cursor |-> 0]
    /\ UNCHANGED <<bothVars, whole, checkpoints, saved, verdict>>

\* advance: exactly the next session; a driver that is exhausted does nothing.
Advance ==
    /\ alive /\ ~Exhausted(driver)
    /\ driver' = [eng |-> StepOf(feed, cfg, driver.eng, Window(cfg)[driver.cursor + 1]),
                  cursor |-> driver.cursor + 1]
    /\ UNCHANGED <<bothVars, whole, alive, checkpoints, saved, verdict>>

Snapshot ==
    /\ alive
    /\ checkpoints' = checkpoints \cup {driver}
    /\ UNCHANGED <<bothVars, whole, alive, driver, saved, verdict>>

Abandon ==
    /\ alive
    /\ alive' = FALSE /\ driver' = NoDriver
    /\ UNCHANGED <<bothVars, whole, checkpoints, saved, verdict>>

\* Mutant: the overnight orders are not carried over.
RestoredWithoutPending(ck) ==
    [eng |-> [ck.eng EXCEPT !.pending = {}, !.fillDay = NoDay], cursor |-> ck.cursor]

\* resume: preflight again, then every accumulator of the snapshot; the failure
\* of the snapshot, if it has one, replaces the preflight's.
Restored(ck) ==
    [eng |-> [book |-> ck.eng.book, pending |-> ck.eng.pending, fillDay |-> ck.eng.fillDay,
              valuations |-> ck.eng.valuations, stale |-> ck.eng.stale,
              evaluations |-> ck.eng.evaluations, fills |-> ck.eng.fills,
              notes |-> ck.eng.notes, trace |-> ck.eng.trace,
              failure |-> IF ck.eng.failure # "none" THEN ck.eng.failure
                          ELSE PreflightFailure(cfg)],
     cursor |-> ck.cursor]

Resume ==
    /\ stage = "finished" /\ ~alive
    /\ \E ck \in checkpoints : driver' = Restored(ck)
    /\ alive' = TRUE
    /\ UNCHANGED <<bothVars, whole, checkpoints, saved, verdict>>

-----------------------------------------------------------------------------
\* Mutant: any result is taken for a completed run.
CompletedRunAny(e) == TRUE

\* save_run's guard on a partial result: a run that claims success valued the
\* last session of its window.  A failed run is an honest partial.
CompletedRun(e) ==
    e.failure = "none" /\ WindowSize(cfg) > 0 =>
        /\ e.valuations # <<>>
        /\ e.valuations[Len(e.valuations)].day = FinalDay(cfg)

\* result() at any point, and save_run of what it returns: a first save, an
\* identical save, a conflict, or a refusal.
SaveResult ==
    /\ alive
    /\ IF ~CompletedRun(driver.eng)
       THEN verdict' = "rejected" /\ UNCHANGED saved
       ELSE IF saved = {} THEN verdict' = "saved" /\ saved' = {driver.eng}
       ELSE /\ verdict' = IF saved = {driver.eng} THEN "idempotent" ELSE "conflict"
            /\ UNCHANGED saved
    /\ UNCHANGED <<bothVars, whole, alive, driver, checkpoints>>

ReplayNext ==
    \/ Backtest \/ BacktestDone
    \/ Construct \/ Advance \/ Snapshot \/ Abandon \/ Resume \/ SaveResult

ReplaySpec == ReplayInit /\ [][ReplayNext]_allVars

-----------------------------------------------------------------------------
\* The modes cannot diverge: at every boundary a driver, however often it was
\* abandoned and resumed and from whichever snapshot, has the accumulators the
\* backtest had at that boundary, and an exhausted one equals the finished
\* backtest field for field.
ReplayIsBacktest ==
    alive => /\ driver.eng = whole[driver.cursor + 1]
             /\ Exhausted(driver) => driver.eng = eng

\* What is persisted under the run's id is the completed run, never a prefix of
\* it, and saving the run again from another driver is no conflict.
SavedIsWhole ==
    /\ saved \subseteq {eng}
    /\ verdict # "conflict"

-----------------------------------------------------------------------------
Accumulators == {"book", "pending", "fillDay", "valuations", "stale", "evaluations", "fills",
                 "notes", "trace", "failure"}

IsEngine(e) == e = [field \in Accumulators |-> e[field]]

\* s is a sequence of n elements.
IsList(s, n) == s = [i \in 1 .. n |-> s[i]]

\* Before session i, nothing has been valued at that session or later.
ValuedBefore(valuations, i) ==
    LET n == Len(valuations)
    IN  /\ n \in Nat /\ IsList(valuations, n)
        /\ n > 0 => valuations[n].day \in 0 .. FirstDay(cfg) + i - 2

\* The backtest at the boundaries it has reached.
WholeIsSteps ==
    /\ IsList(whole, cursor + 1)
    /\ whole[1] = [Fresh(cfg) EXCEPT !.failure = PreflightFailure(cfg)]
    /\ whole[cursor + 1] = eng
    /\ \A i \in 1 .. cursor :
          /\ whole[i].failure = "none"
          /\ whole[i + 1] = StepOf(feed, cfg, whole[i], Window(cfg)[i])
    /\ \A i \in 1 .. cursor + 1 : IsEngine(whole[i]) /\ ValuedBefore(whole[i].valuations, i)

\* Where every driver and every snapshot stands.
AtBoundary(d) ==
    /\ d.cursor \in 0 .. cursor
    /\ d = [eng |-> whole[d.cursor + 1], cursor |-> d.cursor]

\* The inductive invariant of the replay.
ReplayInv ==
    /\ cfg \in Configs /\ cursor \in 0 .. WindowSize(cfg)
    /\ CASE stage = "preflight" -> whole = <<>> /\ eng = Fresh(cfg) /\ cursor = 0
         [] stage = "running"   -> eng.failure = "none"
         [] stage = "finished"  -> eng.failure # "none" \/ cursor = WindowSize(cfg)
         [] OTHER -> FALSE
    /\ cfg \in ReplayConfigs /\ stage # "preflight" => WholeIsSteps
    /\ alive \/ checkpoints # {} => cfg \in ReplayConfigs /\ stage = "finished"
    /\ alive => AtBoundary(driver)
    /\ \A ck \in checkpoints : AtBoundary(ck)
    /\ saved # {} => stage = "finished"
    /\ SavedIsWhole
=============================================================================
