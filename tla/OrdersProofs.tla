---------------------------- MODULE OrdersProofs ----------------------------
(***************************************************************************)
(* Lemmas about orders for any book: what reconcile proposes, which is     *)
(* what apply_orders accepts, and what apply_orders does with what it      *)
(* accepts: one fill per order, none larger than its order, and a book     *)
(* that the fills explain.  The loops are a recursive function over their  *)
(* turns (Turns), and an amount over a list one over its prefixes (Sums),  *)
(* so both are reasoned about prefix by prefix (InductionTo).              *)
(***************************************************************************)
EXTENDS Reconcile, Fills, FiniteSetTheorems, WellFoundedInduction, TLAPS

-----------------------------------------------------------------------------
(* Induction up to a bound, over the set of the numbers a fact holds of.   *)

LEMMA InductionTo ==
    ASSUME NEW N \in Nat, NEW T, 0 \in T, \A k \in 1 .. N : k - 1 \in T => k \in T
    PROVE  \A k \in 0 .. N : k \in T
<1> SUFFICES ASSUME NEW bad \in 0 .. N, bad \notin T PROVE FALSE
    OBVIOUS
<1> DEFINE S == {k \in 0 .. N : k \notin T}
<1>1. S \subseteq Nat /\ S # {}
    OBVIOUS
<1>2. PICK m \in S : \A n \in S : <<n, m>> \notin OpToRel(<, Nat)
    BY <1>1, NatLessThanWellFounded, WFMin
<1>3. m \in Nat /\ m # 0 /\ m \in 1 .. N /\ m \notin T
    OBVIOUS
<1>4. m - 1 \in S
    BY <1>3
<1>5. m - 1 \in Nat /\ m - 1 < m
    BY <1>3
<1>6. <<m - 1, m>> \in OpToRel(<, Nat)
    BY <1>3, <1>5, <<m - 1, m>> \in Nat \X Nat DEF OpToRel
<1> QED BY <1>2, <1>4, <1>6

-----------------------------------------------------------------------------
(* Sums.                                                                   *)

LEMMA SumsExist ==
    ASSUME NEW s, NEW N \in Nat
    PROVE  \E f : f = [n \in 0 .. N |-> IF n = 0 THEN 0 ELSE f[n - 1] + s[n]]
<1> DEFINE IsSum(f, m) == f = [n \in 0 .. m |-> IF n = 0 THEN 0 ELSE f[n - 1] + s[n]]
           T == {m \in 0 .. N : \E f : IsSum(f, m)}
<1>1. 0 \in T
    <2> DEFINE g == [n \in 0 .. 0 |-> 0]
    <2>1. g = [n \in 0 .. 0 |-> IF n = 0 THEN 0 ELSE g[n - 1] + s[n]]
        OBVIOUS
    <2>2. \E f : IsSum(f, 0)
        <3> HIDE DEF g
        <3> QED BY <2>1
    <2> HIDE DEF IsSum
    <2> QED BY <2>2
<1>2. ASSUME NEW k \in 1 .. N, k - 1 \in T PROVE k \in T
    <2>1. PICK f : IsSum(f, k - 1)
        BY <1>2
    <2> DEFINE g == [n \in 0 .. k |-> IF n = k THEN f[k - 1] + s[k] ELSE f[n]]
    <2>2. \A n \in 0 .. k - 1 : g[n] = f[n]
        OBVIOUS
    <2>3. \A n \in 0 .. k - 1 : f[n] = IF n = 0 THEN 0 ELSE f[n - 1] + s[n]
        BY <2>1
    <2>4. ASSUME NEW n \in 0 .. k PROVE g[n] = IF n = 0 THEN 0 ELSE g[n - 1] + s[n]
        <3>1. CASE n = k
            BY <2>2, <3>1
        <3>2. CASE n # k
            <4>1. n \in 0 .. k - 1 /\ (n # 0 => n - 1 \in 0 .. k - 1)
                BY <3>2
            <4> QED BY <2>2, <2>3, <4>1
        <3> QED BY <3>1, <3>2
    <2>5. g = [n \in 0 .. k |-> IF n = 0 THEN 0 ELSE g[n - 1] + s[n]]
        <3>1. g = [n \in 0 .. k |-> g[n]]
            OBVIOUS
        <3> HIDE DEF g
        <3> QED BY <2>4, <3>1
    <2> HIDE DEF g
    <2>6. IsSum(g, k)
        BY <2>5
    <2> QED BY <2>6
<1>3. N \in T
    <2> HIDE DEF T
    <2>1. \A k \in 0 .. N : k \in T
        BY <1>1, <1>2, InductionTo
    <2> QED BY <2>1
<1> QED BY <1>3

\* What the partial sums of a list are.
LEMMA SumsRecur ==
    ASSUME NEW s \in Seq(Int)
    PROVE  /\ Sums(s) \in [0 .. Len(s) -> Int]
           /\ Sums(s)[0] = 0
           /\ \A n \in 1 .. Len(s) : Sums(s)[n] = Sums(s)[n - 1] + s[n]
<1>0. Len(s) \in Nat /\ \A n \in 1 .. Len(s) : s[n] \in Int
    OBVIOUS
<1> DEFINE f == Sums(s)
<1>1. f = [n \in 0 .. Len(s) |-> IF n = 0 THEN 0 ELSE f[n - 1] + s[n]]
    BY <1>0, SumsExist DEF Sums
<1> HIDE DEF f
<1>2. \A n \in 0 .. Len(s) : f[n] = IF n = 0 THEN 0 ELSE f[n - 1] + s[n]
    BY <1>1
<1>3. f[0] = 0 /\ \A n \in 1 .. Len(s) : f[n] = f[n - 1] + s[n]
    BY <1>0, <1>2
<1> DEFINE T == {n \in 0 .. Len(s) : f[n] \in Int}
<1>4. \A n \in 0 .. Len(s) : n \in T
    <2>1. 0 \in T
        BY <1>0, <1>3
    <2>2. \A k \in 1 .. Len(s) : k - 1 \in T => k \in T
        BY <1>0, <1>3
    <2> HIDE DEF T
    <2> QED BY <1>0, <2>1, <2>2, InductionTo
<1>5. f = [n \in 0 .. Len(s) |-> f[n]]
    BY <1>1
<1>6. f \in [0 .. Len(s) -> Int]
    BY <1>4, <1>5
<1> QED BY <1>3, <1>6 DEF f

LEMMA SumIsInt ==
    ASSUME NEW s \in Seq(Int)
    PROVE  SumOf(s) \in Int
BY SumsRecur, Len(s) \in 0 .. Len(s) DEF SumOf

LEMMA SumOfNothing == SumOf(<<>>) = 0
BY SumsRecur, <<>> \in Seq(Int), Len(<<>>) = 0 DEF SumOf

\* Lists that agree up to a point have the same sums up to there.
LEMMA SumsAgree ==
    ASSUME NEW s \in Seq(Int), NEW t \in Seq(Int), NEW m \in Nat,
           m <= Len(s), m <= Len(t), \A i \in 1 .. m : s[i] = t[i]
    PROVE  \A k \in 0 .. m : Sums(s)[k] = Sums(t)[k]
<1> DEFINE T == {k \in 0 .. m : Sums(s)[k] = Sums(t)[k]}
<1>0. Len(s) \in Nat /\ Len(t) \in Nat
    OBVIOUS
<1>1. 0 \in T
    BY SumsRecur
<1>2. ASSUME NEW k \in 1 .. m, k - 1 \in T PROVE k \in T
    <2>1. k \in 1 .. Len(s) /\ k \in 1 .. Len(t)
        BY <1>0
    <2>2. Sums(s)[k] = Sums(s)[k - 1] + s[k] /\ Sums(t)[k] = Sums(t)[k - 1] + t[k]
        BY <2>1, SumsRecur
    <2> QED BY <1>2, <2>2
<1> HIDE DEF T
<1>3. \A k \in 0 .. m : k \in T
    BY <1>1, <1>2, InductionTo
<1> QED BY <1>3 DEF T

LEMMA SumOfAppend ==
    ASSUME NEW s \in Seq(Int), NEW x \in Int
    PROVE  SumOf(Append(s, x)) = SumOf(s) + x
<1> DEFINE t == Append(s, x)
<1>1. /\ t \in Seq(Int) /\ Len(s) \in Nat /\ Len(t) = Len(s) + 1
      /\ \A i \in 1 .. Len(s) : s[i] = t[i]
      /\ t[Len(t)] = x
    OBVIOUS
<1> HIDE DEF t
<1>2. Sums(s)[Len(s)] = Sums(t)[Len(s)]
    <2>1. Len(s) <= Len(s) /\ Len(s) <= Len(t) /\ Len(s) \in 0 .. Len(s)
        BY <1>1
    <2> QED BY <1>1, <2>1, SumsAgree
<1>3. Sums(t)[Len(t)] = Sums(t)[Len(t) - 1] + t[Len(t)]
    <2>1. Len(t) \in 1 .. Len(t)
        BY <1>1
    <2> QED BY <1>1, <2>1, SumsRecur
<1>4. Len(t) - 1 = Len(s)
    BY <1>1
<1> QED BY <1>1, <1>2, <1>3, <1>4 DEF SumOf, t

LEMMA SumOfConcat ==
    ASSUME NEW s \in Seq(Int), NEW t \in Seq(Int)
    PROVE  SumOf(s \o t) = SumOf(s) + SumOf(t)
<1> DEFINE u == s \o t
           T == {k \in 0 .. Len(t) : Sums(u)[Len(s) + k] = SumOf(s) + Sums(t)[k]}
<1>1. /\ u \in Seq(Int) /\ Len(s) \in Nat /\ Len(t) \in Nat /\ Len(u) = Len(s) + Len(t)
      /\ \A i \in 1 .. Len(s) : s[i] = u[i]
      /\ \A k \in 1 .. Len(t) : u[Len(s) + k] = t[k]
    OBVIOUS
<1> HIDE DEF u
<1>2. 0 \in T
    <2>1. Len(s) <= Len(s) /\ Len(s) <= Len(u) /\ Len(s) \in 0 .. Len(s)
        BY <1>1
    <2>2. Sums(s)[Len(s)] = Sums(u)[Len(s)]
        BY <1>1, <2>1, SumsAgree
    <2>3. Sums(t)[0] = 0 /\ SumOf(s) \in Int
        BY SumsRecur, SumIsInt
    <2> QED BY <1>1, <2>2, <2>3 DEF SumOf
<1>3. ASSUME NEW k \in 1 .. Len(t), k - 1 \in T PROVE k \in T
    <2>1. Len(s) + k \in 1 .. Len(u) /\ (Len(s) + k) - 1 = Len(s) + (k - 1) /\ k \in 0 .. Len(t)
          /\ k - 1 \in 0 .. Len(t)
        BY <1>1
    <2>2. Sums(u)[Len(s) + k] = Sums(u)[Len(s) + (k - 1)] + u[Len(s) + k]
        BY <1>1, <2>1, SumsRecur
    <2>3. Sums(t)[k] = Sums(t)[k - 1] + t[k]
        BY SumsRecur
    <2>4. Sums(t)[k - 1] \in Int /\ SumOf(s) \in Int
        BY <2>1, SumsRecur, SumIsInt
    <2>5. t[k] \in Int
        OBVIOUS
    <2>6. Sums(u)[Len(s) + (k - 1)] = SumOf(s) + Sums(t)[k - 1]
        BY <1>3
    <2>7. u[Len(s) + k] = t[k]
        BY <1>1
    <2>8. Sums(u)[Len(s) + k] = SumOf(s) + Sums(t)[k]
        BY <2>2, <2>3, <2>4, <2>5, <2>6, <2>7
    <2> QED BY <2>1, <2>8
<1> HIDE DEF T
<1>4. \A k \in 0 .. Len(t) : k \in T
    BY <1>1, <1>2, <1>3, InductionTo
<1>5. Len(t) \in 0 .. Len(t)
    BY <1>1
<1> QED BY <1>1, <1>4, <1>5 DEF T, SumOf, u

\* Amounts that are not negative have a sum that is not.
LEMMA SumOfNaturals ==
    ASSUME NEW s \in Seq(Nat)
    PROVE  SumOf(s) \in Nat
<1> DEFINE T == {k \in 0 .. Len(s) : Sums(s)[k] \in Nat}
<1>1. s \in Seq(Int) /\ Len(s) \in Nat /\ \A k \in 1 .. Len(s) : s[k] \in Nat
    OBVIOUS
<1>2. 0 \in T /\ \A k \in 1 .. Len(s) : k - 1 \in T => k \in T
    BY <1>1, SumsRecur
<1> HIDE DEF T
<1>3. \A k \in 0 .. Len(s) : k \in T
    BY <1>1, <1>2, InductionTo
<1>4. Len(s) \in 0 .. Len(s)
    BY <1>1
<1> QED BY <1>3, <1>4 DEF T, SumOf

\* One amount changed changes the sum by as much.
LEMMA SumOfChanged ==
    ASSUME NEW s \in Seq(Int), NEW t \in Seq(Int), Len(t) = Len(s), NEW i \in 1 .. Len(s),
           \A j \in 1 .. Len(s) : j # i => t[j] = s[j]
    PROVE  SumOf(t) = SumOf(s) + (t[i] - s[i])
<1> DEFINE Moved(k) == IF k < i THEN 0 ELSE t[i] - s[i]
           T == {k \in 0 .. Len(s) : Sums(t)[k] = Sums(s)[k] + Moved(k)}
<1>1. Len(s) \in Nat /\ \A j \in 1 .. Len(s) : s[j] \in Int /\ t[j] \in Int
    OBVIOUS
<1>2. 0 \in T
    BY <1>1, SumsRecur
<1>3. ASSUME NEW k \in 1 .. Len(s), k - 1 \in T PROVE k \in T
    <2>1. Sums(s)[k] = Sums(s)[k - 1] + s[k] /\ Sums(t)[k] = Sums(t)[k - 1] + t[k]
        BY SumsRecur
    <2>2. Sums(s)[k - 1] \in Int /\ Sums(t)[k - 1] \in Int
        BY <1>1, SumsRecur, k - 1 \in 0 .. Len(s)
    <2>3. Sums(t)[k - 1] = Sums(s)[k - 1] + Moved(k - 1)
        BY <1>3
    <2>4. CASE k = i
        BY <1>1, <2>1, <2>2, <2>3, <2>4
    <2>5. CASE k # i
        <3>1. t[k] = s[k] /\ Moved(k - 1) = Moved(k)
            BY <1>1, <2>5
        <3>2. Moved(k) \in Int
            BY <1>1
        <3> HIDE DEF Moved
        <3>3. s[k] \in Int /\ Sums(t)[k] = Sums(s)[k - 1] + Moved(k) + s[k]
            BY <1>1, <2>1, <2>3, <3>1
        <3>4. Sums(t)[k] = Sums(s)[k] + Moved(k)
            BY <2>1, <2>2, <3>2, <3>3
        <3>5. k \in 0 .. Len(s)
            BY <1>1
        <3> QED BY <3>4, <3>5
    <2> QED BY <2>4, <2>5
<1> HIDE DEF T
<1>4. \A k \in 0 .. Len(s) : k \in T
    BY <1>1, <1>2, <1>3, InductionTo
<1>5. Len(s) \in 0 .. Len(s)
    BY <1>1
<1> QED BY <1>1, <1>4, <1>5 DEF T, SumOf

\* Larger amounts have no smaller sum.
LEMMA SumOfLarger ==
    ASSUME NEW s \in Seq(Int), NEW t \in Seq(Int), Len(t) = Len(s),
           \A i \in 1 .. Len(s) : s[i] <= t[i]
    PROVE  SumOf(s) <= SumOf(t)
<1> DEFINE T == {k \in 0 .. Len(s) : Sums(s)[k] <= Sums(t)[k]}
<1>1. Len(s) \in Nat /\ \A j \in 1 .. Len(s) : s[j] \in Int /\ t[j] \in Int
    OBVIOUS
<1>2. 0 \in T
    BY <1>1, SumsRecur
<1>3. ASSUME NEW k \in 1 .. Len(s), k - 1 \in T PROVE k \in T
    <2>1. Sums(s)[k] = Sums(s)[k - 1] + s[k] /\ Sums(t)[k] = Sums(t)[k - 1] + t[k]
        BY SumsRecur
    <2>2. Sums(s)[k - 1] \in Int /\ Sums(t)[k - 1] \in Int
        BY <1>1, SumsRecur, k - 1 \in 0 .. Len(s)
    <2>3. Sums(s)[k - 1] <= Sums(t)[k - 1]
        BY <1>3
    <2> QED BY <1>1, <2>1, <2>2, <2>3
<1> HIDE DEF T
<1>4. \A k \in 0 .. Len(s) : k \in T
    BY <1>1, <1>2, <1>3, InductionTo
<1>5. Len(s) \in 0 .. Len(s)
    BY <1>1
<1> QED BY <1>1, <1>4, <1>5 DEF T, SumOf

-----------------------------------------------------------------------------
(* The loops as a recursive function over their turns.                     *)

LEMMA LastTurnIsNatural ==
    /\ NumAssets \in Nat \ {0} /\ LastTurn \in Nat /\ LastTurn = NumAssets + NumAssets
    /\ Assets = 1 .. NumAssets
BY UniverseAssumption DEF LastTurn, Assets

AreTurns(f, book, orders, open, bps) ==
    f = [k \in 0 .. LastTurn |-> IF k = 0 THEN [book |-> book, fills |-> <<>>]
                                 ELSE AtTurn(f[k - 1], orders, open, bps, k)]

LEMMA TurnsExist ==
    ASSUME NEW book, NEW orders, NEW open, NEW bps
    PROVE  \E f : AreTurns(f, book, orders, open, bps)
<1> DEFINE start == [book |-> book, fills |-> <<>>]
           Turn(event, k) == AtTurn(event, orders, open, bps, k)
           UpTo(f, m) == f = [k \in 0 .. m |-> IF k = 0 THEN start ELSE Turn(f[k - 1], k)]
           T == {m \in 0 .. LastTurn : \E f : UpTo(f, m)}
<1> HIDE DEF start, Turn
<1>1. 0 \in T
    <2> DEFINE g == [k \in 0 .. 0 |-> start]
    <2>1. g = [k \in 0 .. 0 |-> IF k = 0 THEN start ELSE Turn(g[k - 1], k)]
        OBVIOUS
    <2>2. \E f : UpTo(f, 0)
        <3> HIDE DEF g
        <3> QED BY <2>1
    <2> HIDE DEF UpTo
    <2> QED BY <2>2, LastTurnIsNatural
<1>2. ASSUME NEW m \in 1 .. LastTurn, m - 1 \in T PROVE m \in T
    <2>1. PICK f : UpTo(f, m - 1)
        BY <1>2
    <2> DEFINE g == [k \in 0 .. m |-> IF k = m THEN Turn(f[m - 1], m) ELSE f[k]]
    <2>2. \A k \in 0 .. m - 1 : g[k] = f[k]
        OBVIOUS
    <2>3. \A k \in 0 .. m - 1 : f[k] = IF k = 0 THEN start ELSE Turn(f[k - 1], k)
        BY <2>1
    <2>4. ASSUME NEW k \in 0 .. m PROVE g[k] = IF k = 0 THEN start ELSE Turn(g[k - 1], k)
        <3>1. CASE k = m
            BY <2>2, <3>1
        <3>2. CASE k # m
            <4>1. k \in 0 .. m - 1 /\ (k # 0 => k - 1 \in 0 .. m - 1)
                BY <3>2
            <4> QED BY <2>2, <2>3, <4>1
        <3> QED BY <3>1, <3>2
    <2>5. g = [k \in 0 .. m |-> IF k = 0 THEN start ELSE Turn(g[k - 1], k)]
        <3>1. g = [k \in 0 .. m |-> g[k]]
            OBVIOUS
        <3> HIDE DEF g
        <3> QED BY <2>4, <3>1
    <2> HIDE DEF g
    <2>6. \E h : UpTo(h, m)
        BY <2>5
    <2> QED BY <2>6
<1>3. LastTurn \in Nat
    BY LastTurnIsNatural
<1>4. LastTurn \in T
    <2> HIDE DEF T
    <2>1. \A m \in 0 .. LastTurn : m \in T
        BY <1>1, <1>2, <1>3, InductionTo
    <2> QED BY <1>3, <2>1
<1> QED BY <1>4 DEF start, Turn, AreTurns

\* What the loops have done after each turn.
TurnByTurn(after, book, orders, open, bps) ==
    /\ after[0] = [book |-> book, fills |-> <<>>]
    /\ \A k \in 1 .. LastTurn : after[k] = AtTurn(after[k - 1], orders, open, bps, k)

LEMMA TurnsRecur ==
    ASSUME NEW book, NEW orders, NEW open, NEW bps
    PROVE  TurnByTurn(Turns(book, orders, open, bps), book, orders, open, bps)
<1> DEFINE f == Turns(book, orders, open, bps)
<1>0. \E g : AreTurns(g, book, orders, open, bps)
    BY TurnsExist
<1>1. f = [k \in 0 .. LastTurn |->
              IF k = 0 THEN [book |-> book, fills |-> <<>>]
              ELSE AtTurn(f[k - 1], orders, open, bps, k)]
    BY <1>0 DEF Turns, AreTurns
<1> HIDE DEF f
<1>2. \A k \in 0 .. LastTurn : f[k] = IF k = 0 THEN [book |-> book, fills |-> <<>>]
                                      ELSE AtTurn(f[k - 1], orders, open, bps, k)
    BY <1>1
<1>3. 0 \in 0 .. LastTurn /\ \A k \in 1 .. LastTurn : k \in 0 .. LastTurn /\ k # 0
    BY LastTurnIsNatural
<1> QED BY <1>2, <1>3 DEF f, TurnByTurn

\* Orders without duplicates have turns of their own.
LEMMA TurnIsItsOwn ==
    ASSUME NEW orders \in SUBSET Orders, Duplicated(orders) = {}
    PROVE  /\ \A o \in orders : TurnOf(o) \in 1 .. LastTurn
           /\ \A o \in orders : TurnOf(o) <= NumAssets <=> o.side = "sell"
           /\ \A o, p \in orders : TurnOf(o) = TurnOf(p) => o = p
<1>1. ASSUME NEW o \in orders
      PROVE  o.side \in {"sell", "buy"} /\ o.asset \in 1 .. NumAssets /\ o.asset \in Nat
    BY LastTurnIsNatural DEF Orders
<1>2. \A o \in orders : TurnOf(o) \in 1 .. LastTurn /\ (TurnOf(o) <= NumAssets <=> o.side = "sell")
    BY <1>1, LastTurnIsNatural DEF TurnOf
<1>3. ASSUME NEW o \in orders, NEW p \in orders, TurnOf(o) = TurnOf(p) PROVE o = p
    <2>1. o.side = p.side
        BY <1>1, <1>2, <1>3
    <2>2. o.asset = p.asset
        BY <1>1, <1>3, <2>1, LastTurnIsNatural DEF TurnOf
    <2> QED BY <2>1, <2>2 DEF Duplicated
<1> QED BY <1>2, <1>3

\* A turn is that of its order, or nobody's.
LEMMA TurnTaken ==
    ASSUME NEW orders \in SUBSET Orders, Duplicated(orders) = {}, NEW e, NEW open, NEW bps,
           NEW o \in orders
    PROVE  AtTurn(e, orders, open, bps, TurnOf(o))
              = IF o.side = "sell" THEN SellOne(e, o, open, bps) ELSE BuyOne(e, o, open, bps)
<1>1. {p \in orders : TurnOf(p) = TurnOf(o)} = {o}
    BY TurnIsItsOwn
<1>2. TurnOf(o) <= NumAssets <=> o.side = "sell"
    BY TurnIsItsOwn
<1> QED BY <1>1, <1>2 DEF AtTurn

LEMMA TurnSkipped ==
    ASSUME NEW orders, NEW e, NEW open, NEW bps, NEW k, \A o \in orders : TurnOf(o) # k
    PROVE  AtTurn(e, orders, open, bps, k) = e
<1>1. {p \in orders : TurnOf(p) = k} = {}
    OBVIOUS
<1> QED BY <1>1 DEF AtTurn
-----------------------------------------------------------------------------
(* One order.                                                              *)

\* A rounded-down quotient never costs more than there is.
LEMMA AffordableLots ==
    ASSUME NEW cash \in Nat, NEW unit \in Nat \ {0}
    PROVE  cash \div unit \in Nat /\ (cash \div unit) * unit <= cash
OBVIOUS

LEMMA NonNegativeProduct ==
    ASSUME NEW m \in Nat, NEW n \in Nat
    PROVE  m * n \in Nat
OBVIOUS

\* With costs below the whole price a unit costs something, and a sale pays.
LEMMA CostsLeaveProceeds ==
    ASSUME NEW qty \in Nat, NEW price \in Nat \ {0}, NEW rate \in Int, CostsSupported(rate)
    PROVE  /\ qty * price * rate \in Nat
           /\ Notional(qty, price) \in Nat
           /\ Notional(qty, price) - qty * price * rate \in Nat
           /\ UnitCost(price, rate) \in Nat \ {0}
<1>1. qty * price \in Nat
    BY NonNegativeProduct
<1>2. CostScale \in Nat \ {0} /\ rate \in Nat /\ rate < CostScale
    BY PortfolioAssumption DEF CostsSupported
<1>3. qty * price * rate \in Nat /\ qty * price * CostScale \in Nat
    BY <1>1, <1>2, NonNegativeProduct
<1>4. qty * price * CostScale - qty * price * rate = (qty * price) * (CostScale - rate)
    BY <1>1, <1>2
<1>5. (qty * price) * (CostScale - rate) \in Nat
    BY <1>1, <1>2, NonNegativeProduct
<1>6. price * (CostScale + rate) \in Nat \ {0}
    BY <1>2
<1> QED BY <1>3, <1>4, <1>5, <1>6 DEF Notional, UnitCost

LEMMA SmallerProduct ==
    ASSUME NEW m \in Nat, NEW n \in Nat, NEW unit \in Nat \ {0}, NEW cash \in Nat,
           m * unit <= cash, ~ (n * unit <= cash)
    PROVE  m <= n
<1> SUFFICES ASSUME n <= m PROVE n * unit <= m * unit
    <2>1. m * unit \in Nat /\ n * unit \in Nat
        BY NonNegativeProduct
    <2> QED BY <2>1
<1>1. m - n \in Nat /\ m * unit = n * unit + (m - n) * unit
    OBVIOUS
<1>2. (m - n) * unit \in Nat /\ n * unit \in Nat
    BY <1>1, NonNegativeProduct
<1> QED BY <1>1, <1>2

Events == [book : Books, fills : Seq(FillRecords)]

\* The fill of an order: no larger than it, as much as is held or paid for, and
\* the cash it moves is its worth less its cost.
FillOf(e, o, open, bps, f) ==
    /\ f.side = o.side /\ f.asset = o.asset /\ f.qty <= o.qty
    /\ f.cost = f.qty * open[o.asset] * bps
    /\ f.delta = (IF o.side = "sell" THEN Notional(f.qty, open[o.asset])
                  ELSE -Notional(f.qty, open[o.asset])) - f.cost
    /\ o.side = "sell" => f.qty = SoldQty(e.book, o)
    /\ o.side = "buy" =>
          /\ f.qty = BoughtQty(e.book, o, open[o.asset], bps)
          /\ f.scaled <=> o.qty * UnitCost(open[o.asset], bps) > e.book.cash

\* One order's effect: one more fill, and a book that has changed by what it says.
OneMoreFill(e, o, open, bps, r) ==
    /\ r \in Events
    /\ \E f \in FillRecords :
          /\ FillOf(e, o, open, bps, f)
          /\ r.fills = Append(e.fills, f)
          /\ r.book.cash = e.book.cash + f.delta
          /\ \A a \in Assets : r.book.qty[a] = e.book.qty[a] + LotsMoved(f, a)

\* One sell keeps the book a book: cash grows and no more is sold than is held.
LEMMA SellBooksOneFill ==
    ASSUME NEW e \in Events, NEW o \in Orders, o.side = "sell",
           NEW open \in [Assets -> Nat], NEW bps \in Int,
           CostsSupported(bps), open[o.asset] # NoPrice
    PROVE  OneMoreFill(e, o, open, bps, SellOne(e, o, open, bps))
<1> DEFINE price == open[o.asset]
           qty   == SoldQty(e.book, o)
           delta == Notional(qty, price) - qty * price * bps
           f     == [side |-> "sell", asset |-> o.asset, qty |-> qty, price |-> price,
                     cost |-> qty * price * bps, delta |-> delta, scaled |-> FALSE]
           b     == [cash |-> e.book.cash + delta,
                     qty  |-> [e.book.qty EXCEPT ![o.asset] = @ - qty]]
<1>1. o.asset \in Assets /\ o.qty \in Nat /\ e.book.cash \in Nat
      /\ e.book.qty \in [Assets -> Nat] /\ e.fills \in Seq(FillRecords)
    BY DEF Orders, Events, Books
<1>2. qty \in Nat /\ qty <= e.book.qty[o.asset] /\ qty <= o.qty
    BY <1>1 DEF SoldQty
<1>3. price \in Nat \ {0}
    BY <1>1 DEF NoPrice
<1>4. delta \in Nat /\ qty * price * bps \in Nat
    BY <1>2, <1>3, CostsLeaveProceeds
<1>5. f \in FillRecords
    BY <1>1, <1>2, <1>3, <1>4 DEF FillRecords, NoPrice
<1>6. b \in Books
    <2>1. e.book.qty[o.asset] - qty \in Nat
        BY <1>1, <1>2
    <2>2. [e.book.qty EXCEPT ![o.asset] = @ - qty] \in [Assets -> Nat]
        BY <1>1, <2>1
    <2>3. e.book.cash + delta \in Nat
        BY <1>1, <1>4
    <2> QED BY <2>2, <2>3 DEF Books
<1>7. SellOne(e, o, open, bps) = [book |-> b, fills |-> Append(e.fills, f)]
    BY DEF SellOne
<1>8. Append(e.fills, f) \in Seq(FillRecords)
    BY <1>1, <1>5
<1>9. b.cash = e.book.cash + f.delta
    OBVIOUS
<1>10. ASSUME NEW a \in Assets PROVE b.qty[a] = e.book.qty[a] + LotsMoved(f, a)
    <2> HIDE DEF qty
    <2>1. CASE a = o.asset
        BY <1>1, <1>2, <2>1 DEF LotsMoved
    <2>2. CASE a # o.asset
        BY <1>1, <1>2, <2>2 DEF LotsMoved
    <2> QED BY <2>1, <2>2
<1>11. FillOf(e, o, open, bps, f)
    BY <1>2 DEF FillOf
<1> HIDE DEF f, b
<1> QED BY <1>5, <1>6, <1>7, <1>8, <1>9, <1>10, <1>11 DEF Events, OneMoreFill

\* One buy keeps the book a book: no more is bought than the cash left pays for.
LEMMA BuyBooksOneFill ==
    ASSUME NEW e \in Events, NEW o \in Orders, o.side = "buy",
           NEW open \in [Assets -> Nat], NEW bps \in Int,
           CostsSupported(bps), open[o.asset] # NoPrice
    PROVE  OneMoreFill(e, o, open, bps, BuyOne(e, o, open, bps))
<1> DEFINE price == open[o.asset]
           unit  == UnitCost(price, bps)
           qty   == BoughtQty(e.book, o, price, bps)
           spend == qty * unit
           f     == [side |-> "buy", asset |-> o.asset, qty |-> qty, price |-> price,
                     cost |-> qty * price * bps, delta |-> -spend,
                     scaled |-> o.qty * unit > e.book.cash]
           b     == [cash |-> e.book.cash - spend,
                     qty  |-> [e.book.qty EXCEPT ![o.asset] = @ + qty]]
<1>1. o.asset \in Assets /\ o.qty \in Nat /\ e.book.cash \in Nat
      /\ e.book.qty \in [Assets -> Nat] /\ e.fills \in Seq(FillRecords)
    BY DEF Orders, Events, Books
<1>2. price \in Nat \ {0}
    BY <1>1 DEF NoPrice
<1>3. unit \in Nat \ {0}
    BY <1>2, CostsLeaveProceeds, 0 \in Nat
<1>4. qty \in Nat /\ spend <= e.book.cash /\ qty <= o.qty
    <2> HIDE DEF unit
    <2>1. qty = IF o.qty * unit <= e.book.cash THEN o.qty ELSE e.book.cash \div unit
        BY DEF BoughtQty, unit
    <2> HIDE DEF qty
    <2>2. CASE o.qty * unit <= e.book.cash
        BY <1>1, <2>1, <2>2
    <2>3. CASE ~ (o.qty * unit <= e.book.cash)
        <3>1. qty = e.book.cash \div unit
            BY <2>1, <2>3
        <3>2. qty \in Nat /\ qty * unit <= e.book.cash
            BY <1>1, <1>3, <3>1, AffordableLots
        <3>3. qty <= o.qty
            BY <1>1, <1>3, <2>3, <3>2, SmallerProduct
        <3> QED BY <3>2, <3>3
    <2> QED BY <2>2, <2>3
<1>5. spend \in Nat /\ qty * price * bps \in Nat
    BY <1>2, <1>3, <1>4, NonNegativeProduct, CostsLeaveProceeds
<1>6. f \in FillRecords
    <2> HIDE DEF qty, unit, price, spend
    <2> QED BY <1>1, <1>2, <1>4, <1>5 DEF FillRecords, NoPrice
<1>7. b \in Books
    <2> HIDE DEF qty, unit, price, spend
    <2>1. e.book.qty[o.asset] + qty \in Nat
        BY <1>1, <1>4
    <2>2. [e.book.qty EXCEPT ![o.asset] = @ + qty] \in [Assets -> Nat]
        BY <1>1, <2>1
    <2>3. e.book.cash - spend \in Nat
        BY <1>1, <1>4, <1>5
    <2> QED BY <2>2, <2>3 DEF Books
<1>8. BuyOne(e, o, open, bps) = [book |-> b, fills |-> Append(e.fills, f)]
    BY DEF BuyOne
<1>9. Append(e.fills, f) \in Seq(FillRecords)
    BY <1>1, <1>6
<1>10. b.cash = e.book.cash + f.delta
    <2> HIDE DEF spend
    <2> QED BY <1>1, <1>5
<1>11. ASSUME NEW a \in Assets PROVE b.qty[a] = e.book.qty[a] + LotsMoved(f, a)
    <2> HIDE DEF qty, spend
    <2>1. CASE a = o.asset
        BY <1>1, <1>4, <2>1 DEF LotsMoved
    <2>2. CASE a # o.asset
        BY <1>1, <1>4, <2>2 DEF LotsMoved
    <2> QED BY <2>1, <2>2
<1>12. f.delta = -Notional(f.qty, price) - f.cost
    <2>1. spend = Notional(qty, price) + qty * price * bps
        <3> HIDE DEF qty, price
        <3>1. CostScale \in Int /\ bps \in Int /\ price \in Int /\ qty \in Int
            BY <1>2, <1>4, PortfolioAssumption
        <3> QED BY <3>1 DEF UnitCost, Notional
    <2>2. Notional(qty, price) \in Int
        <3> HIDE DEF qty, price
        <3> QED BY <1>2, <1>4, PortfolioAssumption DEF Notional
    <2> HIDE DEF qty, price, spend
    <2> QED BY <1>5, <2>1, <2>2
<1>13. FillOf(e, o, open, bps, f)
    BY <1>4, <1>12 DEF FillOf
<1> HIDE DEF f, b
<1> QED BY <1>6, <1>7, <1>8, <1>9, <1>10, <1>11, <1>13 DEF Events, OneMoreFill

-----------------------------------------------------------------------------
(* All of them.                                                            *)

\* The fills explain how one book came from another.
Explained(from, fills, to) ==
    /\ to.cash = from.cash + SumOf([i \in DOMAIN fills |-> fills[i].delta])
    /\ \A a \in Assets :
          to.qty[a] = from.qty[a] + SumOf([i \in DOMAIN fills |-> LotsMoved(fills[i], a)])

\* Of each fill there is a delta and a movement of every asset.
LEMMA FillAmounts ==
    ASSUME NEW f \in FillRecords
    PROVE  f.delta \in Int /\ f.cost \in Int /\ \A a : LotsMoved(f, a) \in Int
BY DEF FillRecords, LotsMoved

LEMMA NothingExplains ==
    ASSUME NEW b \in Books
    PROVE  Explained(b, <<>>, b)
<1>1. [i \in DOMAIN <<>> |-> <<>>[i].delta] = <<>>
    OBVIOUS
<1>2. \A a : [i \in DOMAIN <<>> |-> LotsMoved(<<>>[i], a)] = <<>>
    OBVIOUS
<1>3. b.cash \in Nat /\ \A a \in Assets : b.qty[a] \in Nat
    BY DEF Books
<1> QED BY <1>1, <1>2, <1>3, SumOfNothing DEF Explained

LEMMA OneFillExplains ==
    ASSUME NEW from \in Books, NEW fills \in Seq(FillRecords), NEW b \in Books,
           Explained(from, fills, b), NEW f \in FillRecords, NEW to,
           to.cash = b.cash + f.delta,
           \A a \in Assets : to.qty[a] = b.qty[a] + LotsMoved(f, a)
    PROVE  Explained(from, Append(fills, f), to)
<1> DEFINE g == Append(fills, f)
<1>1. /\ Len(fills) \in Nat /\ DOMAIN fills = 1 .. Len(fills) /\ DOMAIN g = 1 .. Len(fills) + 1
      /\ \A i \in 1 .. Len(fills) : g[i] = fills[i] /\ fills[i] \in FillRecords
      /\ g[Len(fills) + 1] = f
    OBVIOUS
<1> HIDE DEF g
<1>2. to.cash = from.cash + SumOf([i \in DOMAIN g |-> g[i].delta])
    <2> DEFINE s == [i \in DOMAIN fills |-> fills[i].delta]
               t == [i \in DOMAIN g |-> g[i].delta]
    <2>1. s \in Seq(Int) /\ Len(s) = Len(fills) /\ f.delta \in Int
        BY <1>1, FillAmounts
    <2>2. t = Append(s, f.delta)
        BY <1>1, <2>1
    <2>3. b.cash = from.cash + SumOf(s)
        BY DEF Explained
    <2> HIDE DEF s, t
    <2>4. SumOf(t) = SumOf(s) + f.delta /\ SumOf(s) \in Int
        BY <2>1, <2>2, SumOfAppend, SumIsInt
    <2>5. from.cash \in Int
        BY DEF Books
    <2> QED BY <2>1, <2>3, <2>4, <2>5 DEF t
<1>3. ASSUME NEW a \in Assets
      PROVE  to.qty[a] = from.qty[a] + SumOf([i \in DOMAIN g |-> LotsMoved(g[i], a)])
    <2> DEFINE s == [i \in DOMAIN fills |-> LotsMoved(fills[i], a)]
               t == [i \in DOMAIN g |-> LotsMoved(g[i], a)]
    <2>1. s \in Seq(Int) /\ Len(s) = Len(fills) /\ LotsMoved(f, a) \in Int
        BY <1>1, FillAmounts
    <2>2. t = Append(s, LotsMoved(f, a))
        BY <1>1, <2>1
    <2>3. b.qty[a] = from.qty[a] + SumOf(s)
        BY DEF Explained
    <2> HIDE DEF s, t
    <2>4. SumOf(t) = SumOf(s) + LotsMoved(f, a) /\ SumOf(s) \in Int
        BY <2>1, <2>2, SumOfAppend, SumIsInt
    <2>5. from.qty[a] \in Int
        BY DEF Books
    <2> QED BY <2>1, <2>3, <2>4, <2>5 DEF t
<1> QED BY <1>2, <1>3 DEF Explained, g

\* The orders that have had their turn, and what is true after a turn: one fill
\* for each of them, none of another order or larger than its order, and fills
\* that explain the book.
Had(orders, k) == {o \in orders : TurnOf(o) <= k}

EachFilled(orders, fills) ==
    \A o \in orders : \E i \in DOMAIN fills : fills[i].side = o.side /\ fills[i].asset = o.asset

FilledFor(orders, fills) ==
    \A i \in DOMAIN fills :
        \E o \in orders : o.side = fills[i].side /\ o.asset = fills[i].asset /\ o.qty >= fills[i].qty

Accounted(book, orders, e, k) ==
    /\ e \in Events
    /\ IsFiniteSet(Had(orders, k)) /\ Len(e.fills) = Cardinality(Had(orders, k))
    /\ EachFilled(Had(orders, k), e.fills) /\ FilledFor(Had(orders, k), e.fills)
    /\ Explained(book, e.fills, e.book)

LEMMA OneMoreIsAccounted ==
    ASSUME NEW book \in Books, NEW orders, NEW e, NEW k \in Nat, Accounted(book, orders, e, k),
           NEW o \in orders, o.qty \in Nat, NEW m \in Nat, NEW open, NEW bps, NEW r,
           o \notin Had(orders, k), Had(orders, m) = Had(orders, k) \cup {o},
           OneMoreFill(e, o, open, bps, r)
    PROVE  Accounted(book, orders, r, m)
<1>1. PICK f \in FillRecords :
          /\ f.side = o.side /\ f.asset = o.asset /\ f.qty <= o.qty
          /\ r.fills = Append(e.fills, f)
          /\ r.book.cash = e.book.cash + f.delta
          /\ \A a \in Assets : r.book.qty[a] = e.book.qty[a] + LotsMoved(f, a)
    BY DEF OneMoreFill, FillOf
<1>2. e.fills \in Seq(FillRecords) /\ e.book \in Books /\ r \in Events
    BY DEF Accounted, Events, OneMoreFill
<1>3. IsFiniteSet(Had(orders, m)) /\ Len(r.fills) = Cardinality(Had(orders, m))
    <2>1. Cardinality(Had(orders, k) \cup {o}) = Cardinality(Had(orders, k)) + 1
          /\ IsFiniteSet(Had(orders, k) \cup {o})
        BY FS_AddElement DEF Accounted
    <2>2. Len(r.fills) = Len(e.fills) + 1
        BY <1>1, <1>2
    <2> QED BY <2>1, <2>2 DEF Accounted
<1>4. /\ Len(e.fills) \in Nat /\ DOMAIN e.fills = 1 .. Len(e.fills)
      /\ DOMAIN r.fills = 1 .. Len(e.fills) + 1 /\ r.fills[Len(e.fills) + 1] = f
      /\ \A i \in DOMAIN e.fills : i \in DOMAIN r.fills /\ r.fills[i] = e.fills[i]
    BY <1>1, <1>2
<1>5. EachFilled(Had(orders, m), r.fills)
    <2> SUFFICES ASSUME NEW p \in Had(orders, m)
                 PROVE  \E i \in DOMAIN r.fills :
                            r.fills[i].side = p.side /\ r.fills[i].asset = p.asset
        BY DEF EachFilled
    <2>1. CASE p = o
        <3>1. Len(e.fills) + 1 \in DOMAIN r.fills
            BY <1>4
        <3> QED BY <1>1, <1>4, <2>1, <3>1
    <2>2. CASE p # o
        <3>1. p \in Had(orders, k)
            BY <2>2
        <3>2. PICK i \in DOMAIN e.fills : e.fills[i].side = p.side /\ e.fills[i].asset = p.asset
            BY <3>1 DEF Accounted, EachFilled
        <3> QED BY <1>4, <3>2
    <2> QED BY <2>1, <2>2
<1>6. FilledFor(Had(orders, m), r.fills)
    <2> SUFFICES ASSUME NEW i \in DOMAIN r.fills
                 PROVE  \E p \in Had(orders, m) :
                            /\ p.side = r.fills[i].side /\ p.asset = r.fills[i].asset
                            /\ p.qty >= r.fills[i].qty
        BY DEF FilledFor
    <2>1. CASE i \in DOMAIN e.fills
        BY <1>4, <2>1 DEF Accounted, FilledFor
    <2>2. CASE i \notin DOMAIN e.fills
        <3>1. r.fills[i] = f
            BY <1>4, <2>2
        <3>2. o.qty >= f.qty
            BY <1>1 DEF FillRecords
        <3> QED BY <1>1, <3>1, <3>2
    <2> QED BY <2>1, <2>2
<1>7. Explained(book, r.fills, r.book)
    BY <1>1, <1>2, OneFillExplains DEF Accounted
<1> QED BY <1>2, <1>3, <1>5, <1>6, <1>7 DEF Accounted

\* What an accepted event may rely on.
LEMMA NotRefused ==
    ASSUME NEW book, NEW orders \in SUBSET Orders, NEW open, NEW bps,
           Refusals(book, orders, open, bps) = {}
    PROVE  /\ CostsSupported(bps) /\ Duplicated(orders) = {}
           /\ \A o \in orders : open[o.asset] # NoPrice
BY DEF Refusals

\* A turn fills one more order, if it is the turn of any.
TurnFills(orders, e, open, bps, k, r) ==
    \/ r = e /\ Had(orders, k) = Had(orders, k - 1)
    \/ \E o \in orders :
          /\ TurnOf(o) = k /\ o \notin Had(orders, k - 1)
          /\ Had(orders, k) = Had(orders, k - 1) \cup {o}
          /\ OneMoreFill(e, o, open, bps, r)

LEMMA TurnFillsOne ==
    ASSUME NEW book, NEW orders \in SUBSET Orders, NEW open \in [Assets -> Nat],
           NEW bps \in Int, Refusals(book, orders, open, bps) = {},
           NEW k \in 1 .. LastTurn, NEW e \in Events
    PROVE  TurnFills(orders, e, open, bps, k, AtTurn(e, orders, open, bps, k))
<1>1. /\ CostsSupported(bps) /\ Duplicated(orders) = {}
      /\ \A o \in orders : open[o.asset] # NoPrice
    BY NotRefused
<1>2. /\ \A o \in orders : TurnOf(o) \in 1 .. LastTurn
      /\ \A o \in orders : TurnOf(o) <= NumAssets <=> o.side = "sell"
      /\ \A o, p \in orders : TurnOf(o) = TurnOf(p) => o = p
    BY <1>1, TurnIsItsOwn
<1>3. LastTurn \in Nat
    BY LastTurnIsNatural
<1> DEFINE r == AtTurn(e, orders, open, bps, k)
<1> HIDE DEF r
<1>4. CASE \A o \in orders : TurnOf(o) # k
    <2>1. r = e
        BY <1>4, TurnSkipped DEF r
    <2>2. Had(orders, k) = Had(orders, k - 1)
        BY <1>2, <1>3, <1>4 DEF Had
    <2> QED BY <2>1, <2>2 DEF TurnFills, r
<1>5. ASSUME NEW o \in orders, TurnOf(o) = k PROVE TurnFills(orders, e, open, bps, k, r)
    <2>1. Had(orders, k) = Had(orders, k - 1) \cup {o} /\ o \notin Had(orders, k - 1)
        BY <1>2, <1>3, <1>5 DEF Had
    <2>2. r = IF o.side = "sell" THEN SellOne(e, o, open, bps) ELSE BuyOne(e, o, open, bps)
        BY <1>1, <1>5, TurnTaken DEF r
    <2>3. o \in Orders /\ o.side \in {"sell", "buy"}
        BY DEF Orders
    <2>4. OneMoreFill(e, o, open, bps, r)
        <3>1. CASE o.side = "sell"
            BY <1>1, <2>2, <2>3, <3>1, SellBooksOneFill
        <3>2. CASE o.side = "buy"
            BY <1>1, <2>2, <2>3, <3>2, BuyBooksOneFill
        <3> QED BY <2>3, <3>1, <3>2
    <2> QED BY <1>5, <2>1, <2>4 DEF TurnFills
<1> QED BY <1>4, <1>5 DEF r

LEMMA EveryTurnIsAccounted ==
    ASSUME NEW book \in Books, NEW orders \in SUBSET Orders, NEW open \in [Assets -> Nat],
           NEW bps \in Int, Refusals(book, orders, open, bps) = {}
    PROVE  \A k \in 0 .. LastTurn : Accounted(book, orders, Turns(book, orders, open, bps)[k], k)
<1> DEFINE after == Turns(book, orders, open, bps)
           T == {k \in 0 .. LastTurn : Accounted(book, orders, after[k], k)}
<1>1. /\ after[0] = [book |-> book, fills |-> <<>>]
      /\ \A k \in 1 .. LastTurn : after[k] = AtTurn(after[k - 1], orders, open, bps, k)
    BY TurnsRecur DEF TurnByTurn
<1> HIDE DEF after
<1>2. LastTurn \in Nat
    BY LastTurnIsNatural
<1>4. \A o \in orders : TurnOf(o) \in 1 .. LastTurn
    BY NotRefused, TurnIsItsOwn
<1>5. 0 \in T
    <2>1. Had(orders, 0) = {}
        BY <1>2, <1>4 DEF Had
    <2>2. [book |-> book, fills |-> <<>>] \in Events /\ <<>> \in Seq(FillRecords)
        BY DEF Events
    <2>3. Accounted(book, orders, [book |-> book, fills |-> <<>>], 0)
        <3>1. IsFiniteSet({}) /\ Len(<<>>) = Cardinality({})
            BY FS_EmptySet
        <3>2. FilledFor({}, <<>>) /\ EachFilled({}, <<>>)
            BY DEF FilledFor, EachFilled
        <3>3. Explained(book, <<>>, book)
            BY NothingExplains
        <3> QED BY <2>1, <2>2, <3>1, <3>2, <3>3 DEF Accounted
    <2> QED BY <1>1, <1>2, <2>3
<1>6. ASSUME NEW k \in 1 .. LastTurn, k - 1 \in T PROVE k \in T
    <2>1. /\ k \in Nat /\ k - 1 \in Nat /\ k \in 0 .. LastTurn
          /\ Accounted(book, orders, after[k - 1], k - 1)
          /\ after[k] = AtTurn(after[k - 1], orders, open, bps, k)
        BY <1>1, <1>2, <1>6
    <2>2. after[k - 1] \in Events
        BY <2>1 DEF Accounted
    <2>3. TurnFills(orders, after[k - 1], open, bps, k, after[k])
        BY <2>1, <2>2, TurnFillsOne
    <2>4. CASE after[k] = after[k - 1] /\ Had(orders, k) = Had(orders, k - 1)
        BY <2>1, <2>4 DEF Accounted
    <2>5. ASSUME NEW o \in orders, o \notin Had(orders, k - 1),
                 Had(orders, k) = Had(orders, k - 1) \cup {o},
                 OneMoreFill(after[k - 1], o, open, bps, after[k])
          PROVE  k \in T
        <3>1. o.qty \in Nat
            BY DEF Orders
        <3>2. Accounted(book, orders, after[k], k)
            BY <2>1, <2>5, <3>1, OneMoreIsAccounted
        <3> QED BY <2>1, <3>2
    <2> QED BY <2>3, <2>4, <2>5 DEF TurnFills
<1> HIDE DEF T
<1>7. \A k \in 0 .. LastTurn : k \in T
    BY <1>2, <1>5, <1>6, InductionTo
<1> QED BY <1>7 DEF T, after

\* What apply_orders returns: refused, what it was given; accepted, a book with
\* one fill per order, none larger than its order, that the fills explain.
AppliedIs(book, orders, r) ==
    IF r.refusals # {} THEN r.book = book /\ r.fills = <<>>
    ELSE /\ r.book \in Books /\ r.fills \in Seq(FillRecords)
         /\ IsFiniteSet(orders) /\ Len(r.fills) = Cardinality(orders)
         /\ FilledFor(orders, r.fills)
         /\ Explained(book, r.fills, r.book)

LEMMA AppliedIsAccounted ==
    ASSUME NEW book \in Books, NEW orders \in SUBSET Orders, NEW open \in [Assets -> Nat],
           NEW bps \in Int
    PROVE  AppliedIs(book, orders, Applied(book, orders, open, bps))
<1> DEFINE event == Turns(book, orders, open, bps)[LastTurn]
<1>1. CASE Refusals(book, orders, open, bps) # {}
    BY <1>1 DEF Applied, AppliedIs
<1>2. CASE Refusals(book, orders, open, bps) = {}
    <2>1. LastTurn \in 0 .. LastTurn /\ LastTurn \in Nat
        BY LastTurnIsNatural
    <2>2. Accounted(book, orders, event, LastTurn)
        BY <1>2, <2>1, EveryTurnIsAccounted
    <2>3. \A o \in orders : TurnOf(o) \in 1 .. LastTurn
        BY <1>2, NotRefused, TurnIsItsOwn
    <2>4. Had(orders, LastTurn) = orders
        BY <2>1, <2>3 DEF Had
    <2>5. Applied(book, orders, open, bps)
             = [book |-> event.book, fills |-> event.fills, refusals |-> {}]
        BY <1>2 DEF Applied
    <2> HIDE DEF event
    <2> QED BY <2>2, <2>4, <2>5 DEF Accounted, AppliedIs, Events
<1> QED BY <1>1, <1>2

-----------------------------------------------------------------------------
(* What reconcile proposes.                                                *)

\* Orders without duplicates are finitely many: each has a turn of its own.
LEMMA OrdersAreFinite ==
    ASSUME NEW orders \in SUBSET Orders, Duplicated(orders) = {}
    PROVE  IsFiniteSet(orders)
<1> DEFINE turn == [o \in orders |-> TurnOf(o)]
<1>1. turn \in Injection(orders, 1 .. LastTurn)
    BY TurnIsItsOwn DEF Injection, IsInjective
<1>2. IsFiniteSet(1 .. LastTurn)
    BY LastTurnIsNatural, FS_Interval
<1> QED BY <1>1, <1>2, FS_Injection

\* Worth of positions and value of a book.
LEMMA ValueIsNatural ==
    ASSUME NEW book \in Books, NEW price,
           \A a \in Assets : book.qty[a] > 0 => price[a] \in Nat
    PROVE  ValueOf(book, price) \in Nat
<1> DEFINE worth == [a \in Assets |->
                        IF book.qty[a] > 0 THEN Notional(book.qty[a], price[a]) ELSE 0]
<1>1. book.cash \in Nat /\ \A a \in Assets : book.qty[a] \in Nat
    BY DEF Books
<1>2. \A a \in Assets : worth[a] \in Nat
    <2> SUFFICES ASSUME NEW a \in Assets, book.qty[a] > 0
                 PROVE  Notional(book.qty[a], price[a]) \in Nat
        OBVIOUS
    <2>1. book.qty[a] * price[a] \in Nat /\ CostScale \in Nat
        BY <1>1, NonNegativeProduct, PortfolioAssumption
    <2> QED BY <2>1, NonNegativeProduct DEF Notional
<1>3. worth \in Seq(Nat)
    BY <1>2, LastTurnIsNatural
<1> HIDE DEF worth
<1>4. SumOf(worth) \in Nat
    BY <1>3, SumOfNaturals
<1> QED BY <1>1, <1>4 DEF ValueOf, worth

\* A target is some number of lots.
LEMMA TargetQtyIsNatural ==
    ASSUME NEW w \in Nat, NEW p \in Nat \ {0}, NEW value \in Nat
    PROVE  TargetQty(w, p, value) \in Nat
<1>1. WeightScale * p * CostScale \in Nat \ {0}
    <2>1. WeightScale * p \in Nat \ {0}
        BY ReconcileAssumption
    <2> QED BY <2>1, PortfolioAssumption
<1>2. w * value \in Nat
    BY NonNegativeProduct
<1>3. \A m \in Nat, n \in Nat \ {0} : m \div n \in Nat
    OBVIOUS
<1>4. (w * value) \div (WeightScale * p * CostScale) \in Nat
    BY <1>1, <1>2, <1>3
<1> QED BY <1>4 DEF TargetQty

\* Of one asset reconcile proposes one order at most, for something, and never
\* a sell of more than is held.
Proposal(book, o, a) ==
    o \in Orders /\ o.asset = a /\ (o.side = "sell" => o.qty <= book.qty[a])

LEMMA PlanForProposes ==
    ASSUME NEW book \in Books, NEW weight \in [Assets -> Nat], NEW price,
           NEW value \in Nat, NEW a \in Assets, price[a] \in Nat \ {0}
    PROVE  LET plan == PlanFor(book, weight, price, value, a)
           IN  \/ plan.orders = {}
               \/ \E o : plan.orders = {o} /\ Proposal(book, o, a)
<1> DEFINE current == book.qty[a]
           target  == TargetQty(weight[a], price[a], value)
           delta   == target - current
           o       == OrderFor(a, current, delta)
           emit    == delta # 0 /\ Emits(current, weight[a], delta, price[a], value)
<1>1. current \in Nat
    BY DEF Books
<1>2. target \in Nat
    BY TargetQtyIsNatural
<1> HIDE DEF target, current
<1>3. ASSUME delta # 0 PROVE Proposal(book, o, a)
    <2>1. CASE delta > 0
        <3>1. o = [side |-> "buy", asset |-> a, qty |-> delta] /\ delta \in Nat \ {0}
            BY <1>1, <1>2, <2>1 DEF OrderFor
        <3> HIDE DEF o, delta
        <3> QED BY <3>1 DEF Proposal, Orders
    <2>2. CASE ~ (delta > 0)
        <3> DEFINE lots == IF -delta < current THEN -delta ELSE current
        <3>1. lots \in Nat \ {0} /\ lots <= current
            BY <1>1, <1>2, <1>3, <2>2
        <3>2. o = [side |-> "sell", asset |-> a, qty |-> lots]
            BY <2>2 DEF OrderFor
        <3> HIDE DEF o, delta, lots
        <3> QED BY <3>1, <3>2 DEF Proposal, Orders, current
    <2> QED BY <2>1, <2>2
<1>4. PlanFor(book, weight, price, value, a).orders = IF emit THEN {o} ELSE {}
    BY DEF PlanFor, target, current
<1>5. CASE emit
    <2>1. PlanFor(book, weight, price, value, a).orders = {o} /\ Proposal(book, o, a)
        BY <1>3, <1>4, <1>5
    <2> HIDE DEF o
    <2> QED BY <2>1
<1>6. CASE ~emit
    BY <1>4, <1>6
<1> QED BY <1>5, <1>6

\* A plan is made of such orders, one per asset, of assets that it has a price for.
LEMMA PlanProposes ==
    ASSUME NEW book \in Books, NEW weight \in [Assets -> Nat], NEW price \in [Assets -> Nat]
    PROVE  LET plan == Reconciled(book, weight, price)
           IN  /\ \A o \in plan.orders : Proposal(book, o, o.asset) /\ price[o.asset] # NoPrice
               /\ \A o, p \in plan.orders : o.asset = p.asset => o = p
               /\ plan.ok \in BOOLEAN /\ (~plan.ok => plan.orders = {})
<1> DEFINE assets == PlannedAssets(book, weight)
           value  == ValueOf(book, price)
           plans  == [a \in assets |-> PlanFor(book, weight, price, value, a)]
           plan   == Reconciled(book, weight, price)
<1>1. CASE Unpriced(book, weight, price) # {}
    <2>1. plan.orders = {} /\ plan.ok = FALSE
        BY <1>1 DEF Reconciled
    <2> HIDE DEF plan
    <2> QED BY <2>1 DEF plan
<1>2. CASE Unpriced(book, weight, price) = {}
    <2>1. plan.orders = UNION {plans[a].orders : a \in assets} /\ plan.ok = TRUE
        BY <1>2 DEF Reconciled
    <2>2. assets \subseteq Assets /\ \A a \in assets : price[a] \in Nat \ {0} /\ price[a] # NoPrice
        BY <1>2 DEF Unpriced, PlannedAssets, Held, NoPrice
    <2>3. value \in Nat
        BY ValueIsNatural
    <2>4. ASSUME NEW a \in assets
          PROVE  \/ plans[a].orders = {}
                 \/ \E o : plans[a].orders = {o} /\ Proposal(book, o, a)
        <3>1. plans[a] = PlanFor(book, weight, price, value, a)
            OBVIOUS
        <3> HIDE DEF plans, value, assets
        <3> QED BY <2>2, <2>3, <3>1, PlanForProposes
    <2> HIDE DEF plans, plan, value, assets
    <2>5. ASSUME NEW o \in plan.orders
          PROVE  \E a \in assets : plans[a].orders = {o} /\ Proposal(book, o, a)
        <3>1. PICK a \in assets : o \in plans[a].orders
            BY <2>1
        <3> QED BY <2>4, <3>1
    <2>6. ASSUME NEW o \in plan.orders
          PROVE  /\ o.asset \in assets /\ plans[o.asset].orders = {o}
                 /\ Proposal(book, o, o.asset)
        BY <2>5 DEF Proposal
    <2>7. \A o, p \in plan.orders : o.asset = p.asset => o = p
        BY <2>6
    <2> QED BY <2>1, <2>2, <2>6, <2>7 DEF plan
<1> QED BY <1>1, <1>2

\* So apply_orders has nothing to object to but an open that is missing.
LEMMA PlanIsFillable ==
    ASSUME NEW book \in Books, NEW orders,
           \A o \in orders : Proposal(book, o, o.asset),
           \A o, p \in orders : o.asset = p.asset => o = p
    PROVE  /\ orders \in SUBSET Orders /\ IsFiniteSet(orders)
           /\ Duplicated(orders) = {} /\ Oversold(book, orders) = {}
<1>1. orders \in SUBSET Orders
    BY DEF Proposal
<1>2. Duplicated(orders) = {}
    BY DEF Duplicated
<1>3. Oversold(book, orders) = {}
    <2> SUFFICES ASSUME NEW o \in orders, o.side = "sell",
                        o.qty > book.qty[o.asset] + OversellTolerance
                 PROVE  FALSE
        BY DEF Oversold
    <2>1. o.qty <= book.qty[o.asset] /\ o \in Orders /\ o.asset \in Assets
        BY DEF Proposal, Orders
    <2>2. o.qty \in Nat /\ book.qty[o.asset] \in Nat /\ OversellTolerance \in Nat
        BY <2>1, FillsAssumption DEF Orders, Books
    <2> QED BY <2>1, <2>2
<1> QED BY <1>1, <1>2, <1>3, OrdersAreFinite
=============================================================================
