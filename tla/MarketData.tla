----------------------------- MODULE MarketData -----------------------------
(***************************************************************************)
(* The market data contract of quantize/market: an exchange calendar, the  *)
(* observations aligned to it, and the availability-gated as-of view.      *)
(*                                                                         *)
(* A session is its position 1, 2, ... in the calendar; a gap of days      *)
(* between two sessions (a weekend, a holiday) leaves no position, so the  *)
(* next valid session after d is d + 1.  Instants are naturals: session d  *)
(* opens at 2d and closes at 2d + 1, so sessions do not overlap.           *)
(*                                                                         *)
(* A dataset says, for every asset and session, when the open and the      *)
(* close become available and what they are.  An observation the dataset   *)
(* does not hold is one that is available Never.                           *)
(***************************************************************************)
EXTENDS Universe

CONSTANT LastDay  \* sessions are 1 .. LastDay, in calendar order

ASSUME MarketAssumption == LastDay \in Nat \ {0}

Days == 1 .. LastDay

OpenAt(d)  == 2 * d
CloseAt(d) == 2 * d + 1

\* The instants at which anything can be asked, and an instant beyond them.
Instants == 1 .. 2 * LastDay + 2
Never    == 2 * LastDay + 3

NoDay == 0

-----------------------------------------------------------------------------
\* ExchangeCalendar.sessions_closed_by and next_session_after.
SessionsClosedBy(t) == {d \in Days : CloseAt(d) <= t}

NextSessionAfter(d) == IF d < LastDay THEN d + 1 ELSE NoDay

-----------------------------------------------------------------------------
\* What MarketDataSet.__post_init__ accepts: delayed availability is allowed,
\* availability before the session's own open or close is not.
CloseAvailability ==
    {f \in [Assets -> [Days -> Instants \cup {Never}]] :
        \A a \in Assets, d \in Days : f[a][d] >= CloseAt(d)}

OpenAvailability ==
    {f \in [Assets -> [Days -> Instants \cup {Never}]] :
        \A a \in Assets, d \in Days : f[a][d] >= OpenAt(d)}

-----------------------------------------------------------------------------
\* MarketDataSet.as_of: the sessions of an asset whose close (or open) is
\* available at t, and the questions asked of that view.  An answer is the
\* session whose price is returned, NoDay for None.
VisibleDays(avail, a, t) == {d \in Days : avail[a][d] <= t}

AsOfLatestClose(closeAvail, a, t) ==
    LET visible == VisibleDays(closeAvail, a, t)
    IN  IF visible = {} THEN NoDay
        ELSE CHOOSE d \in visible : \A e \in visible : e <= d

AsOfOpen(openAvail, a, d, t) ==
    IF d \in VisibleDays(openAvail, a, t) THEN d ELSE NoDay

\* The planning price of the engine: the latest visible close, provided it is
\* the close of the session asked for and not an earlier one.
AsOfSessionClose(closeAvail, a, d, t) ==
    IF AsOfLatestClose(closeAvail, a, t) = d THEN d ELSE NoDay
=============================================================================
