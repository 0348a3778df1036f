-------------------------- MODULE MCSessionEngine --------------------------
(***************************************************************************)
(* A small market for the engine, alone, beside another dataset and        *)
(* replayed forward: prices that rise and fall, at most one observation    *)
(* late, missing or different, every mix of a few configurations, and for  *)
(* some of them every pair of datasets.                                    *)
(***************************************************************************)
EXTENDS ForwardReplay

BasePrice == [a \in Assets |-> [d \in Days |-> IF (a + d) % 2 = 0 THEN 1 ELSE 3]]
OpenPrice == [a \in Assets |-> [d \in Days |-> IF d = 2 THEN 3 ELSE 1]]

\* The availability of everything at its own close or open, or with one
\* observation later by an instant or two, or never there.
OnTime(Opened(_)) == [a \in Assets |-> [d \in Days |-> Opened(d)]]

Delayed(Opened(_), a, d, lag) == [OnTime(Opened) EXCEPT ![a][d] = Min({@ + lag, Never})]

Repriced(prices, a, d, price) == [prices EXCEPT ![a][d] = price]

MCFeeds ==
    {[closeAvail |-> Delayed(CloseAt, a, d, lag), openAvail |-> OnTime(OpenAt),
      close |-> Repriced(BasePrice, a, d, price), open |-> OpenPrice] :
        a \in Assets, d \in Days, lag \in {0, 2, Never}, price \in {1, 3}}
    \cup
    {[closeAvail |-> OnTime(CloseAt), openAvail |-> Delayed(OpenAt, a, d, lag),
      close |-> BasePrice, open |-> Repriced(OpenPrice, a, d, price)] :
        a \in Assets, d \in Days, lag \in {0, 1, Never}, price \in {1, 3}}

Spread == [a \in Assets |-> 1]
AllInFirst == [a \in Assets |-> IF a = 1 THEN WeightScale ELSE 0]
AllCash == [a \in Assets |-> 0]

Cash    == [cash |-> 40, qty |-> [a \in Assets |-> 0]]
Holding == [cash |-> 3, qty |-> [a \in Assets |-> a]]

Period == [d \in Days |-> (d + 1) \div 2]

\* Every session trades: whatever a run reads too early shows in its facts.
MCTwinConfigs ==
    [first : {NoDay}, last : {NoDay}, daily : {TRUE}, period : {Period},
     warmup : {0}, resolves : {TRUE}, bps : {1}, graph : [Days -> {Spread, AllInFirst}],
     book : {Cash, Holding}]

\* Among them runs that fail in preflight, at a fill, in a valuation and in an
\* evaluation.
MCReplayConfigs ==
    [first : {NoDay, 2}, last : {2, 3}, daily : {TRUE}, period : {[d \in Days |-> d]},
     warmup : {0}, resolves : BOOLEAN, bps : {1},
     graph : {[d \in Days |-> IF d = 2 THEN AllInFirst ELSE Spread],
              [d \in Days |-> IF d = 2 THEN EvaluationFails ELSE AllInFirst]},
     book : {Cash}]

MCConfigs ==
    MCTwinConfigs \cup MCReplayConfigs
    \cup [first : {NoDay, 2}, last : {NoDay, 1, 2}, daily : BOOLEAN, period : {Period},
     warmup : {0, 1}, resolves : {TRUE}, bps : {1},
     graph : [Days -> {Spread, AllInFirst, AllCash, EvaluationFails}], book : {Cash, Holding}]
    \cup [first : {NoDay}, last : {NoDay}, daily : {TRUE}, period : {Period},
     warmup : {0}, resolves : BOOLEAN, bps : {0, CostScale},
     graph : [Days -> {Spread, AllInFirst}], book : {Cash, Holding}]
=============================================================================
