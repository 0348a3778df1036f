--------------------------- MODULE EvaluationMemo ---------------------------
(***************************************************************************)
(* One run's use of its market data: evaluations of a strategy graph at    *)
(* one instant after another with the run's EvaluationMemo                 *)
(* (quantize/runtime/binding.py, nodes/transform.py), and the questions of *)
(* the engine to its cursor.  The two share nothing but the frozen         *)
(* dataset, so the evaluations may come first.                             *)
(*                                                                         *)
(* The graph holds every core node: over the universe's prices,            *)
(*   momentum: smooth average, trailing return, rank, select, allocate     *)
(*   trend:    allocate, masked by price > trend average                   *)
(* either branch capped and delivered to the terminal.                     *)
(***************************************************************************)
EXTENDS MarketCursor, CoreNodes, CoreCatalog

CONSTANTS
    CloseOf,      \* the close of each asset and session
    Window,       \* the window of each moving-average node
    Lookback,     \* of the trailing return
    TopN,         \* of the selection
    Cap,          \* of risk.max_weight, a fraction
    Conviction    \* parts of the whole a registered weighting node gives

Averages == {"smooth", "trend"}

ASSUME GraphAssumption ==
    /\ CloseOf \in [Assets -> [Days -> Nat \ {0}]]
    /\ Window \in [Averages -> Nat \ {0}]
    /\ Lookback \in Nat \ {0}
    /\ Cap \in (Nat \ {0}) \X (Nat \ {0})
    /\ Conviction.whole \in Nat \ {0} /\ Conviction.part \in [Assets -> Nat]

VARIABLES
    evaluating,     \* whether the run still evaluates
    memoHighWater,  \* EvaluationMemo._high_water, 0 for None
    slots           \* EvaluationMemo._slots: node -> asset -> (session -> point)

memoVars == <<vars, evaluating, memoHighWater, slots>>

NoSlots == [node \in Averages |-> [a \in Assets |-> [d \in {} |-> <<0, 1>>]]]

-----------------------------------------------------------------------------
\* The nodes of the graph, given what the memo holds and the instant.
Prices(t) == Price(FixedList(Assets), closeAvail, CloseOf, t)

Averaged(node, memo, t) ==
    MovingAverage(Prices(t), Window[node], SessionsAt(t), memo[node])

Selected(memo, t) ==
    LET momentum == TrailingReturn(Averaged("smooth", memo, t), Lookback, SessionsAt(t))
    IN  SelectTopN(Rank(momentum, TRUE), Assets, TopN)

Signal(memo, t) ==
    GreaterThan(Latest(Prices(t), SessionsAt(t)),
                Latest(Averaged("trend", memo, t), SessionsAt(t)))

Allocations(assets) ==
    {EqualWeight(assets)}
    \cup {FixedWeight(assets, sleeve) :
              sleeve \in {s \in {<<1, 2>>, <<1, 1>>} : ~OverAllocates(assets, s)}}
    \cup {[whole |-> Conviction.whole, part |-> [a \in assets |-> Conviction.part[a]]]}

\* What reaches risk.max_weight, whichever branch and allocation.
Uncapped(memo, t) ==
    Allocations(Selected(memo, t))
    \cup {ApplyMask(targets, Signal(memo, t)) : targets \in Allocations(Assets)}

-----------------------------------------------------------------------------
\* A point is cached once; a session without a point is tried again.
Remembered(node, memo, t) ==
    [a \in Assets |->
        LET points == Averaged(node, memo, t)[a]
            known  == memo[node][a]
        IN  [d \in DOMAIN known \cup DOMAIN points |->
                IF d \in DOMAIN known THEN known[d] ELSE points[d]]]

\* Mutant: any instant is accepted.
AssertMonotonicNever(t) == TRUE

\* assert_monotonic raises otherwise, before anything is evaluated.
AssertMonotonic(t) == memoHighWater # 0 => t >= memoHighWater

\* The memo takes an instant before the first close too, though it fails.
Evaluate(t) ==
    /\ evaluating
    /\ AssertMonotonic(t)
    /\ memoHighWater' = t
    /\ slots' = [node \in Averages |-> Remembered(node, slots, t)]
    /\ UNCHANGED <<vars, evaluating>>

\* The memo dies with its run's evaluations.
EndEvaluations ==
    /\ evaluating
    /\ evaluating' = FALSE
    /\ memoHighWater' = 0
    /\ slots' = NoSlots
    /\ UNCHANGED vars

AskCursor == ~evaluating /\ Next /\ UNCHANGED <<evaluating, memoHighWater, slots>>

MemoInit == Init /\ evaluating = TRUE /\ memoHighWater = 0 /\ slots = NoSlots

MemoNext == (\E t \in Instants : Evaluate(t)) \/ EndEvaluations \/ AskCursor

MemoSpec == MemoInit /\ [][MemoNext]_memoVars

-----------------------------------------------------------------------------
\* The memo never affects what a run produces: at every instant it would still
\* accept, each average is the one computed without it.
MemoIsTransparent ==
    evaluating =>
        \A t \in Instants, node \in Averages :
            t >= memoHighWater => Averaged(node, slots, t) = Averaged(node, NoSlots, t)

\* An evaluation at the high-water mark: before the first close there is none,
\* NO_VISIBLE_SESSION.
Evaluated == evaluating /\ SessionsAt(memoHighWater) # {}

\* The waterfall: no weight above the cap, order kept, nothing created, and
\* weight is left in cash only when every asset held sits at the cap.
CappedFairly(before, after) ==
    LET assets   == DOMAIN before.part
        limit    == Cap[1] * after.whole
        invested(w) == SumOver(w.part, assets)
    IN  /\ \A a \in assets : after.part[a] * Cap[2] <= limit
        /\ \A a, b \in assets : before.part[a] <= before.part[b] => after.part[a] <= after.part[b]
        /\ invested(after) * before.whole <= invested(before) * after.whole
        /\ invested(after) * before.whole < invested(before) * after.whole =>
              \A a \in assets : after.part[a] > 0 => after.part[a] * Cap[2] = limit

CapIsRespected ==
    Evaluated => \A w \in Uncapped(slots, memoHighWater) : CappedFairly(w, MaxWeight(w, Cap))

\* The missing-data rules of the nodes keep the plan priceable: an asset gets
\* weight only if the engine's cursor would have a planning price for it, the
\* close of the session evaluated.
TargetsArePriceable ==
    Evaluated =>
        \A w \in Uncapped(slots, memoHighWater) :
            \A a \in DOMAIN w.part :
                MaxWeight(w, Cap).part[a] > 0 =>
                    AsOfSessionClose(closeAvail, a, LatestSession(SessionsAt(memoHighWater)),
                                     memoHighWater) # NoDay

-----------------------------------------------------------------------------
\* Declared warm-up (resolve_warmup): the largest of any node of the graph.
WarmupTotal ==
    LET declared == {Warmup("moving_average", Window[node]) : node \in Averages}
                    \cup {Warmup("trailing_return", Lookback)}
    IN  CHOOSE w \in declared : \A v \in declared : v <= w

\* WarmupResolution: the first evaluation, at warm-up + 1 visible sessions, is
\* one at which the output of every node is defined, given that no observation
\* is missing.
FirstEvaluationIsDefined ==
    \A d \in Days : \A a \in Assets :
        LET t == CloseAt(d)
        IN  (/\ d = WarmupTotal + 1
             /\ \A e \in 1 .. d : closeAvail[a][e] <= t) =>
                /\ \A node \in Averages : d \in DOMAIN Averaged(node, NoSlots, t)[a]
                /\ a \in Present(TrailingReturn(Averaged("smooth", NoSlots, t), Lookback,
                                                SessionsAt(t)))
=============================================================================
