------------------------------ MODULE CoreNodes ------------------------------
(***************************************************************************)
(* The core node implementations of quantize/nodes: what each one computes *)
(* from its inputs.  Their ports and warm-ups are in CoreCatalog.          *)
(*                                                                         *)
(* The values between nodes:                                               *)
(*   AssetSet          a set of assets                                     *)
(*   TimeSeries        asset -> (session -> number), the inner function    *)
(*                     defined on the observed sessions only               *)
(*   CrossSection      [domain, values], values: asset -> number or        *)
(*                     Boolean, defined on the assets that have one        *)
(*   PortfolioTargets  [whole, part]: asset a weighs part[a] / whole       *)
(* Numbers are exact fractions <<n, d>>; the rounding of floats and the    *)
(* tolerance that absorbs it are left out, and so are the trace events,    *)
(* which restate the values.                                               *)
(***************************************************************************)
EXTENDS MarketData, Amounts, FiniteSets

\* The sum over some assets, in canonical order.
SumOver(f, S) == SumOf([a \in Assets |-> IF a \in S THEN f[a] ELSE 0])

Less(x, y) == x[1] * y[2] < y[1] * x[2]

SessionsAt(t) == SessionsClosedBy(t)  \* DataView.session_dates

LatestSession(sessions) == CHOOSE d \in sessions : \A e \in sessions : e <= d

Present(section) == DOMAIN section.values

-----------------------------------------------------------------------------
\* universe.fixed_list and data.price.  An asset the view knows nothing of
\* keeps an empty history.
FixedList(tickers) == tickers

Price(assets, avail, price, t) ==
    [a \in assets |-> [d \in VisibleDays(avail, a, t) |-> <<price[a][d], 1>>]]

-----------------------------------------------------------------------------
\* transform.trailing_return: close(D) / close(D - L) - 1 over calendar
\* sessions; an asset without either close, or whose anchor is zero, has none.
TrailingReturn(series, lookback, sessions) ==
    LET day       == LatestSession(sessions)
        anchor    == day - lookback
        values(a) == /\ Cardinality(sessions) > lookback
                     /\ {day, anchor} \subseteq DOMAIN series[a]
                     /\ series[a][anchor][1] # 0
        return(c, b) == <<c[1] * b[2] - b[1] * c[2], c[2] * b[1]>>
    IN  [domain |-> DOMAIN series,
         values |-> [a \in {a \in DOMAIN series : values(a)} |->
                        return(series[a][day], series[a][anchor])]]

\* transform.moving_average: the mean of the window of sessions that ends at
\* each session.  A session with a gap in its window has no point; a point the
\* memo holds is replayed without looking at the window.  The points of a series
\* share their denominator.
WindowOf(d, window) == (d - window + 1) .. d

Mean(history, d, window) ==
    <<SumOf([i \in 1 .. window |-> history[d - window + i][1]]), history[d][2] * window>>

MovingAverage(series, window, sessions, cached) ==
    [a \in DOMAIN series |->
        [d \in {d \in sessions : /\ d >= window
                                 /\ \/ d \in DOMAIN cached[a]
                                    \/ WindowOf(d, window) \subseteq DOMAIN series[a]} |->
            IF d \in DOMAIN cached[a] THEN cached[a][d] ELSE Mean(series[a], d, window)]]

\* transform.latest: the value at the latest visible session itself, never an
\* older one.
Latest(series, sessions) ==
    [domain |-> DOMAIN series,
     values |-> LET day == LatestSession(sessions)
                IN  [a \in {a \in DOMAIN series : sessions # {} /\ day \in DOMAIN series[a]} |->
                        series[a][day]]]

\* transform.rank: positions 1 .. k among the scored assets, ties by ticker.
Ahead(values, descending, b, a) ==
    \/ IF descending THEN Less(values[a], values[b]) ELSE Less(values[b], values[a])
    \/ ~Less(values[a], values[b]) /\ ~Less(values[b], values[a]) /\ b < a

Rank(scores, descending) ==
    [scores EXCEPT !.values = [a \in Present(scores) |->
        <<1 + Cardinality({b \in Present(scores) : Ahead(scores.values, descending, b, a)}), 1>>]]

-----------------------------------------------------------------------------
\* Mutant: a missing operand passes.
GreaterThanOrMissing(left, right) ==
    LET domain == left.domain \cup right.domain
    IN  [domain |-> domain,
         values |-> [a \in domain |-> a \in Present(left) \cap Present(right)
                                          => Less(right.values[a], left.values[a])]]

\* logic.greater_than: every asset of either operand's domain has a result,
\* FALSE where an operand is missing.
GreaterThan(left, right) ==
    LET domain == left.domain \cup right.domain
    IN  [domain |-> domain,
         values |-> [a \in domain |-> /\ a \in Present(left) \cap Present(right)
                                      /\ Less(right.values[a], left.values[a])]]

-----------------------------------------------------------------------------
\* portfolio.select_top_n: the n smallest scores of the universe.
SelectTopN(scores, universe, n) ==
    LET candidates == universe \cap Present(scores)
    IN  {a \in candidates :
            Cardinality({b \in candidates : Ahead(scores.values, FALSE, b, a)}) < n}

\* portfolio.equal_weight and portfolio.fixed_weight.  A sleeve is a fraction;
\* one that over-allocates raises.
EqualWeight(assets) ==
    [whole |-> IF assets = {} THEN 1 ELSE Cardinality(assets), part |-> [a \in assets |-> 1]]

OverAllocates(assets, sleeve) == sleeve[1] * Cardinality(assets) > sleeve[2]

FixedWeight(assets, sleeve) == [whole |-> sleeve[2], part |-> [a \in assets |-> sleeve[1]]]

\* portfolio.apply_mask: what the mask does not keep becomes cash.
ApplyMask(targets, mask) ==
    [targets EXCEPT !.part = [a \in DOMAIN @ |->
        IF a \in Present(mask) /\ mask.values[a] THEN @[a] ELSE 0]]

-----------------------------------------------------------------------------
\* risk.max_weight: the waterfall.  The fractions of a pass share the
\* denominator whole; a pass that redistributes multiplies it by the weight of
\* those that receive, so that proportional shares stay exact.
\* Mutant: the excess also goes to those that already sit at the cap.
CappedPassEverywhere(w) ==
    LET assets == DOMAIN w.part
        over   == {a \in assets : w.part[a] > w.limit}
        excess == SumOver([a \in over |-> w.part[a] - w.limit], over)
        cut    == [a \in assets |-> IF a \in over THEN w.limit ELSE w.part[a]]
        total  == SumOver(cut, assets)
    IN  IF over = {} THEN w
        ELSE [whole |-> w.whole * total, limit |-> w.limit * total, capped |-> w.capped \cup over,
              part  |-> [a \in assets |-> cut[a] * (total + excess)]]

CappedPass(w) ==
    LET assets   == DOMAIN w.part
        over     == {a \in assets : w.part[a] > w.limit}
        excess   == SumOver([a \in over |-> w.part[a] - w.limit], over)
        cut      == [a \in assets |-> IF a \in over THEN w.limit ELSE w.part[a]]
        capped   == w.capped \cup over
        eligible == {a \in assets \ capped : 0 < cut[a] /\ cut[a] < w.limit}
        total    == SumOver(cut, eligible)
    IN  IF over = {} THEN w
        ELSE IF total = 0 THEN [w EXCEPT !.part = cut, !.capped = capped]
        ELSE [whole  |-> w.whole * total,
              limit  |-> w.limit * total,
              capped |-> capped,
              part   |-> [a \in assets |->
                             cut[a] * (total + (IF a \in eligible THEN excess ELSE 0))]]

\* The loop: every pass but the last caps at least one more asset.
Waterfall(targets, cap) ==
    LET start == [whole  |-> targets.whole * cap[2],
                  limit  |-> targets.whole * cap[1],
                  capped |-> {},
                  part   |-> [a \in DOMAIN targets.part |-> targets.part[a] * cap[2]]]
        after[n \in 0 .. Cardinality(DOMAIN targets.part)] ==
            IF n = 0 THEN start ELSE CappedPass(after[n - 1])
    IN  after[Cardinality(DOMAIN targets.part)]

MaxWeight(targets, cap) ==
    LET w == Waterfall(targets, cap) IN [whole |-> w.whole, part |-> w.part]
=============================================================================
