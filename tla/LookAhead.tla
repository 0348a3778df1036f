----------------------------- MODULE LookAhead -----------------------------
(***************************************************************************)
(* The central promise of the engine (quantize/engine/backtest.py): no     *)
(* fact of a run depends on data that was not available when the fact was  *)
(* established.  It relates two runs, so the engine is composed with       *)
(* itself: a second run of the same configuration over another dataset,    *)
(* fed the same sessions.                                                  *)
(***************************************************************************)
EXTENDS SessionEngine

\* The configurations whose second run may see any other dataset; the rest run
\* beside themselves.
CONSTANT TwinConfigs

ASSUME TwinAssumption == TwinConfigs \subseteq Configs

VARIABLES feed2, eng2  \* the second run

bothVars == <<vars, feed2, eng2>>

BothInit == Init /\ feed2 \in (IF cfg \in TwinConfigs THEN Feeds ELSE {feed}) /\ eng2 = eng

\* A failed run is fed no more.
BothFeedSession ==
    /\ FeedSession
    /\ eng2' = IF eng2.failure # "none" THEN eng2
               ELSE StepOf(feed2, cfg, eng2, Window(cfg)[cursor + 1])
    /\ UNCHANGED feed2

BothPreflight == Preflight /\ eng2' = eng' /\ UNCHANGED feed2

BothFinish == Finish /\ UNCHANGED <<feed2, eng2>>

BothNext == BothPreflight \/ BothFeedSession \/ BothFinish

-----------------------------------------------------------------------------
\* What one dataset shows at an instant, and since when.
Shown(avail, price, t) ==
    {seen \in {<<a, d, avail[a][d], price[a][d]>> : a \in Assets, d \in Days} : seen[3] <= t}

SameUpTo(t) ==
    /\ Shown(feed.closeAvail, feed.close, t) = Shown(feed2.closeAvail, feed2.close, t)
    /\ Shown(feed.openAvail, feed.open, t) = Shown(feed2.openAvail, feed2.open, t)

\* No look-ahead: as long as two datasets have shown the same observations by
\* the close of the last session fed, the runs over them have the same state
\* and the same facts.
NoLookAheadInRun ==
    cursor > 0 /\ SameUpTo(CloseAt(Window(cfg)[cursor])) => eng = eng2

\* The inductive invariant of the two runs.
TwinInv ==
    /\ cfg \in Configs /\ feed \in Feeds /\ feed2 \in Feeds /\ cursor \in 0 .. WindowSize(cfg)
    /\ stage = "running" => eng.failure = "none"
    /\ cursor = 0 => eng = eng2
    /\ NoLookAheadInRun
=============================================================================
