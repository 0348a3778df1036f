----------------------------- MODULE DebugLoop -----------------------------
(***************************************************************************)
(* useDebugLoopState of web/src/run/useDebugLoopState.ts: the record of    *)
(* the selected run, the cursor over its sessions, the trace of the one    *)
(* the cursor is at and the cadence of the run's strategy version, each    *)
(* fetched on its own.  A render shows a new selection at once; its        *)
(* effects run after it, so a step may find what belongs to the run before.*)
(* A fetch that an effect gives up is cancelled: its answer is dropped.    *)
(***************************************************************************)
EXTENDS Naturals

CONSTANTS Runs,     \* numbers
          Axis,     \* run -> its session dates, none if it failed before the first
          Default   \* run -> the session its cursor starts at, or 0

NoRun == 0

ASSUME DebugLoopAssumption ==
    /\ NoRun \notin Runs
    /\ \A run \in Runs :
          /\ Axis[run] \subseteq 1 .. 9
          /\ IF Axis[run] = {} THEN Default[run] = 0 ELSE Default[run] \in Axis[run]

VARIABLES
    selectedRun,
    record,         \* the run whose record is held
    recordLoading,
    failed,         \* the run that the error of a record fetch is tagged with
    cursor,         \* a date, or 0
    trace,          \* the <<run, date>> that the last trace to arrive is tagged with
    schedule,       \* the run that the cadence is tagged with
    fetches,        \* <<what, run, date>> in flight, not cancelled
    effects         \* what the effects depend on, as it was when they last ran

loopVars == <<selectedRun, record, recordLoading, failed, cursor, trace, schedule, fetches,
              effects>>

\* matchesRun, sessionAxis, isCursorOnAxis
Matches == selectedRun # NoRun /\ record = selectedRun
SessionDates == IF Matches THEN Axis[selectedRun] ELSE {}
OnAxis == cursor \in SessionDates

Dependencies ==
    [record |-> selectedRun, schedule |-> <<selectedRun, Matches>>,
     trace |-> <<selectedRun, cursor, SessionDates>>]

LoopInit ==
    /\ selectedRun = NoRun /\ record = NoRun /\ recordLoading = FALSE /\ failed = NoRun
    /\ cursor = 0 /\ trace = <<NoRun, 0>> /\ schedule = NoRun /\ fetches = {}
    /\ effects = Dependencies

-----------------------------------------------------------------------------
\* Mutant: the trace is fetched for whatever the cursor says.
TraceWantedUngated == selectedRun # NoRun /\ cursor # 0

TraceWanted == selectedRun # NoRun /\ OnAxis

\* The three effects, of those whose dependencies have changed.
Effects ==
    LET changed == {what \in DOMAIN Dependencies : Dependencies[what] # effects[what]}
        started ==
            {f \in {<<"record", selectedRun, 0>>, <<"schedule", selectedRun, 0>>,
                    <<"trace", selectedRun, cursor>>} :
                /\ f[1] \in changed
                /\ CASE f[1] = "record"   -> selectedRun # NoRun
                     [] f[1] = "schedule" -> Matches
                     [] f[1] = "trace"    -> TraceWanted}
    IN  /\ changed # {}
        /\ fetches' = {f \in fetches : f[1] \notin changed} \cup started
        /\ IF "record" \in changed
           THEN record' = NoRun /\ cursor' = 0 /\ recordLoading' = (selectedRun # NoRun)
           ELSE UNCHANGED <<record, cursor, recordLoading>>
        /\ effects' = Dependencies
        /\ UNCHANGED <<selectedRun, failed, trace, schedule>>

RecordAnswered ==
    \E run \in Runs :
        /\ <<"record", run, 0>> \in fetches
        /\ fetches' = fetches \ {<<"record", run, 0>>}
        /\ recordLoading' = FALSE
        /\ \/ record' = run /\ failed' = NoRun /\ cursor' = Default[run]
           \/ record' = NoRun /\ failed' = run /\ UNCHANGED cursor
        /\ UNCHANGED <<selectedRun, trace, schedule, effects>>

\* A trace or a cadence that could not be fetched is tagged as well.
TraceAnswered ==
    \E f \in fetches :
        /\ f[1] = "trace"
        /\ fetches' = fetches \ {f}
        /\ trace' = <<f[2], f[3]>>
        /\ UNCHANGED <<selectedRun, record, recordLoading, failed, cursor, schedule, effects>>

ScheduleAnswered ==
    \E f \in fetches :
        /\ f[1] = "schedule"
        /\ fetches' = fetches \ {f}
        /\ schedule' = f[2]
        /\ UNCHANGED <<selectedRun, record, recordLoading, failed, cursor, trace, effects>>

\* A date is picked from what is shown.
MoveCursor ==
    /\ \E date \in SessionDates : cursor' = date
    /\ UNCHANGED <<selectedRun, record, recordLoading, failed, trace, schedule, fetches, effects>>

LoopNext == Effects \/ RecordAnswered \/ TraceAnswered \/ ScheduleAnswered \/ MoveCursor

Select(run) ==
    /\ selectedRun' = run
    /\ UNCHANGED <<record, recordLoading, failed, cursor, trace, schedule, fetches, effects>>

-----------------------------------------------------------------------------
\* However runs are selected and answers arrive, no trace is asked of a run for
\* a session that the run does not have, and once nothing is in flight what is
\* shown is whole: nothing still loads, and the selected run has its record or
\* an error, and with the record its own cadence, and a cursor on its own sessions
\* with the trace of just that session, if it has any (useDebugLoopState.ts).
LoopShowsTheRun ==
    /\ \A f \in fetches : f[1] = "trace" => f[3] \in Axis[f[2]]
    /\ fetches = {} /\ effects = Dependencies =>
          /\ ~recordLoading
          /\ selectedRun # NoRun => Matches \/ (record = NoRun /\ failed = selectedRun)
          /\ Matches => /\ schedule = selectedRun
                        /\ IF SessionDates = {} THEN cursor = 0
                           ELSE OnAxis /\ trace = <<selectedRun, cursor>>

\* What the effects saw of the selection, when they last ran.
SeenRun == effects.record
SeenMatch == effects.schedule[2]
SeenCursor == effects.trace[2]
SeenDates == effects.trace[3]

\* The record is that of the run the effects saw, or still on its way, or failed.
RecordIsTracked ==
    /\ recordLoading \in BOOLEAN /\ (recordLoading <=> <<"record", SeenRun, 0>> \in fetches)
    /\ recordLoading => SeenRun # NoRun /\ record = NoRun
    /\ record \in {NoRun, SeenRun}
    /\ SeenRun # NoRun /\ ~recordLoading => record = SeenRun \/ failed = SeenRun
    /\ record # NoRun => IF Axis[record] = {} THEN cursor = 0 ELSE cursor \in Axis[record]

CadenceIsTracked ==
    SeenMatch => /\ SeenRun # NoRun
                 /\ <<"schedule", SeenRun, 0>> \in fetches \/ schedule = SeenRun

TraceIsTracked ==
    LET asked == <<"trace", SeenRun, SeenCursor>>
    IN  /\ SeenDates = {} \/ (SeenRun # NoRun /\ SeenDates = Axis[SeenRun])
        /\ asked \in fetches => SeenCursor \in SeenDates
        /\ SeenCursor \in SeenDates => asked \in fetches \/ trace = <<SeenRun, SeenCursor>>

\* The inductive invariant behind LoopShowsTheRun.
LoopInv ==
    /\ selectedRun \in Runs \cup {NoRun} /\ SeenRun \in Runs \cup {NoRun}
    /\ effects = [record |-> SeenRun, schedule |-> <<SeenRun, SeenMatch>>,
                  trace |-> <<SeenRun, SeenCursor, SeenDates>>]
    /\ fetches \subseteq {<<"record", SeenRun, 0>>, <<"schedule", SeenRun, 0>>,
                          <<"trace", SeenRun, SeenCursor>>}
    /\ RecordIsTracked /\ CadenceIsTracked /\ TraceIsTracked
=============================================================================
