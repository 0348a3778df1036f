---------------------------- MODULE MarketCursor ----------------------------
(***************************************************************************)
(* MarketDataCursor (quantize/market/data.py): incremental visibility over *)
(* one dataset.  Observations are pre-sorted by availability and taken in  *)
(* once, as the cutoff of the questions advances; a question at an earlier *)
(* instant than the high-water mark falls back to a fresh as-of view.      *)
(*                                                                         *)
(* The loops of _advance are modelled one arrival at a time.  A price goes *)
(* with its session, so an answer is a session (NoDay for None).           *)
(***************************************************************************)
EXTENDS MarketData

CONSTANTS CloseLags, OpenLags  \* bound the vendor delays of the datasets explored

ASSUME LagAssumption == CloseLags \subseteq Nat /\ OpenLags \subseteq Nat

VARIABLES
    closeAvail, openAvail,  \* the dataset, fixed for the life of the cursor
    highWater,              \* _high_water, 0 for None
    closesLeft, opensLeft,  \* arrivals past _close_cursor and _open_cursor
    latest,                 \* _latest_close: asset -> session, NoDay if absent
    opens,                  \* _visible_opens: asset -> set of sessions
    pc,                     \* where the current question stands
    question,               \* [kind, asset, day, at]
    answer                  \* the last answer given

dataset == <<closeAvail, openAvail>>
cursor  == <<highWater, closesLeft, opensLeft, latest, opens>>
vars    == <<dataset, cursor, pc, question, answer>>

Kinds == {"latest_close", "session_close", "open_price"}

Questions == [kind : Kinds, asset : Assets, day : Days, at : Instants]

Observations(avail) == {o \in Assets \X Days : avail[o[1]][o[2]] < Never}

Lagged(instant, lags) == {t \in Instants : \E lag \in lags : t = instant + lag}

-----------------------------------------------------------------------------
\* __init__: the arrivals of the dataset, none of them taken in yet.
Init ==
    /\ closeAvail \in CloseAvailability
    /\ openAvail \in OpenAvailability
    /\ \A a \in Assets, d \in Days :
          /\ closeAvail[a][d] \in Lagged(CloseAt(d), CloseLags) \cup {Never}
          /\ openAvail[a][d] \in Lagged(OpenAt(d), OpenLags) \cup {Never}
    /\ highWater = 0
    /\ closesLeft = Observations(closeAvail)
    /\ opensLeft = Observations(openAvail)
    /\ latest = [a \in Assets |-> NoDay]
    /\ opens = [a \in Assets |-> {}]
    /\ pc = "idle"
    /\ question = [kind |-> "latest_close", asset |-> 1, day |-> 1, at |-> 1]
    /\ answer = NoDay

-----------------------------------------------------------------------------
\* What as_of(instant) says: the contract every answer is held to.
AsOfAnswer(q) ==
    CASE q.kind = "latest_close"  -> AsOfLatestClose(closeAvail, q.asset, q.at)
      [] q.kind = "session_close" -> AsOfSessionClose(closeAvail, q.asset, q.day, q.at)
      [] q.kind = "open_price"    -> AsOfOpen(openAvail, q.asset, q.day, q.at)

\* What the cursor's own tables say.
TableAnswer(q) ==
    CASE q.kind = "latest_close"  -> latest[q.asset]
      [] q.kind = "session_close" -> IF latest[q.asset] = q.day THEN q.day ELSE NoDay
      [] q.kind = "open_price"    -> IF q.day \in opens[q.asset] THEN q.day ELSE NoDay

IsBackward(t) == highWater # 0 /\ t < highWater

\* A question at an earlier instant never touches the tables.
AskBackward(q) ==
    /\ pc = "idle"
    /\ IsBackward(q.at)
    /\ question' = q
    /\ answer' = AsOfAnswer(q)
    /\ UNCHANGED <<dataset, cursor, pc>>

Ask(q) ==
    /\ pc = "idle"
    /\ ~IsBackward(q.at)
    /\ question' = q
    /\ highWater' = q.at
    /\ pc' = "closes"
    /\ UNCHANGED <<dataset, closesLeft, opensLeft, latest, opens, answer>>

\* The next arrivals of a sorted list; the order of arrivals that become
\* available at the same instant is left open.
NextArrivals(left, avail) ==
    {o \in left : /\ avail[o[1]][o[2]] <= highWater
                  /\ \A other \in left : avail[o[1]][o[2]] <= avail[other[1]][other[2]]}

\* Mutant: the last arrival wins.
LaterArrivalWins(known, day) == day

\* latest is None or day > latest[0]: a late arrival of an old session does
\* not replace a newer mark.
Later(known, day) == IF known = NoDay \/ day > known THEN day ELSE known

TakeClose ==
    /\ pc = "closes"
    /\ \E o \in NextArrivals(closesLeft, closeAvail) :
          /\ closesLeft' = closesLeft \ {o}
          /\ latest' = [latest EXCEPT ![o[1]] = Later(@, o[2])]
    /\ UNCHANGED <<dataset, highWater, opensLeft, opens, pc, question, answer>>

ClosesTaken ==
    /\ pc = "closes"
    /\ NextArrivals(closesLeft, closeAvail) = {}
    /\ pc' = "opens"
    /\ UNCHANGED <<dataset, cursor, question, answer>>

TakeOpen ==
    /\ pc = "opens"
    /\ \E o \in NextArrivals(opensLeft, openAvail) :
          /\ opensLeft' = opensLeft \ {o}
          /\ opens' = [opens EXCEPT ![o[1]] = @ \cup {o[2]}]
    /\ UNCHANGED <<dataset, highWater, closesLeft, latest, pc, question, answer>>

Answer ==
    /\ pc = "opens"
    /\ NextArrivals(opensLeft, openAvail) = {}
    /\ answer' = TableAnswer(question)
    /\ pc' = "idle"
    /\ UNCHANGED <<dataset, cursor, question>>

Next ==
    \/ \E q \in Questions : AskBackward(q) \/ Ask(q)
    \/ TakeClose \/ ClosesTaken \/ TakeOpen \/ Answer

Spec == Init /\ [][Next]_vars

-----------------------------------------------------------------------------
TypeOK ==
    /\ closeAvail \in CloseAvailability
    /\ openAvail \in OpenAvailability
    /\ highWater \in Instants \cup {0}
    /\ closesLeft \subseteq Observations(closeAvail)
    /\ opensLeft \subseteq Observations(openAvail)
    /\ latest \in [Assets -> Days \cup {NoDay}]
    /\ opens \in [Assets -> SUBSET Days]
    /\ pc \in {"idle", "closes", "opens"}
    /\ question \in Questions
    /\ answer \in Days \cup {NoDay}

\* Exactness contract of the cursor: every answer is what the as-of view at
\* the instant of the question exposes, whatever the order of the questions
\* and of the arrivals.
Exact == pc = "idle" => answer = AsOfAnswer(question)

\* No look-ahead: the price returned was available at the instant asked about.
NoLookAhead ==
    pc = "idle" /\ answer # NoDay =>
        /\ question.kind = "open_price" =>
              openAvail[question.asset][answer] <= question.at
        /\ question.kind # "open_price" =>
              closeAvail[question.asset][answer] <= question.at

-----------------------------------------------------------------------------
\* The arrivals still left are exactly the observations not yet taken in, and
\* the tables say what the taken ones say.
TakenCloses == Observations(closeAvail) \ closesLeft
TakenOpens  == Observations(openAvail) \ opensLeft

LatestIsMax ==
    \A a \in Assets :
        /\ latest[a] = NoDay => \A d \in Days : <<a, d>> \notin TakenCloses
        /\ latest[a] # NoDay => /\ <<a, latest[a]>> \in TakenCloses
                                /\ \A d \in Days : <<a, d>> \in TakenCloses => d <= latest[a]

OpensAreTaken ==
    \A a \in Assets, d \in Days : d \in opens[a] <=> <<a, d>> \in TakenOpens

\* Everything taken in was available at the high-water mark, and outside the
\* loops everything available at it has been taken in.
CutoffRespected ==
    /\ \A o \in TakenCloses : closeAvail[o[1]][o[2]] <= highWater
    /\ \A o \in TakenOpens : openAvail[o[1]][o[2]] <= highWater
    /\ pc \in {"idle", "opens"} =>
          \A o \in closesLeft : closeAvail[o[1]][o[2]] > highWater
    /\ pc = "idle" => \A o \in opensLeft : openAvail[o[1]][o[2]] > highWater
    /\ pc # "idle" => question.at = highWater

IInv == TypeOK /\ LatestIsMax /\ OpensAreTaken /\ CutoffRespected /\ Exact

=============================================================================
