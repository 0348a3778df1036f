------------------------- MODULE PersistenceProofs -------------------------
(***************************************************************************)
(* Module Persistence, for every set of handles, readers, keys and         *)
(* contents and every number of calls and events: what is committed is     *)
(* whole, a trace is never read torn, and every save is one atomic step of *)
(* module ArtifactStore or none.                                           *)
(*                                                                         *)
(* A transaction's rows are followed from the plan to the COMMIT: what it  *)
(* has written and what it has left are the rows of its request, each once *)
(* and after the rows its foreign keys name.  The lock keeps what it has   *)
(* written free of keys another one takes meanwhile.                       *)
(***************************************************************************)
EXTENDS Persistence, SequenceTheorems, FiniteSetTheorems, TLAPS

\* The rows a save must insert itself, and those it leaves stored: the strategy
\* of a run may be there already.
OwnRows(q) == IF q.kind = "run" THEN {q.row} \cup Range(TraceRows(q.row)) ELSE {q.row}

RowsOf(q) == OwnRows(q) \cup PartsOf(q)

KeysAreUnique(rows) == \A row, other \in rows : SameKey(row, other) => row = other

StoredRows ==
    \A row \in committed :
        /\ row.content # Absent
        /\ row.table = "datasets" => row.content = row.key

\* The rows before the i-th of a plan.
Earlier(s, i) == {s[j] : j \in 1 .. (i - 1)}

\* A plan: every row once, after what it refers to.
Ordered(s, q, known) ==
    \A i \in 1 .. Len(s) :
        /\ \A j \in 1 .. Len(s) : i # j => s[i] # s[j]
        /\ s[i].table = "runs" => q.document \in known \cup Earlier(s, i)
        /\ s[i].table = "trace_events" => q.row \in known \cup Earlier(s, i)

\* The open transaction of h, or the one it is about to begin.
Planned(h) ==
    LET q == request[h]
        left == Range(todo[h])
    IN  pc[h] \in {"begin", "insert"} =>
            /\ todo[h] \in Seq(RowsOf(q))
            /\ written[h] \subseteq RowsOf(q)
            /\ written[h] \cap left = {}
            /\ OwnRows(q) \subseteq left \cup written[h]
            /\ PartsOf(q) \subseteq left \cup written[h] \cup committed
            /\ Ordered(todo[h], q, committed \cup written[h])

Saving(h) ==
    /\ pc[h] \in {"idle", "check", "check_document", "begin", "insert", "return"}
    /\ pc[h] # "idle" => request[h] \in Requests
    /\ pc[h] = "idle" => reply[h] \in {"idle", "ok", "conflict", "locked", "failed", "crashed"}
    /\ pc[h] = "check_document" => request[h].kind = "run" /\ todo[h] = <<request[h].row>>
    /\ pc[h] = "insert" <=> writer = h
    /\ pc[h] # "insert" => written[h] = {}
    /\ pc[h] = "return" => request[h].row \in committed
    /\ \A row \in written[h] : ~Taken(row, committed)

Reading(r) ==
    /\ reader[r] = [pc |-> reader[r].pc, row |-> reader[r].row, answer |-> reader[r].answer]
    /\ reader[r].pc = "stream" => reader[r].row \in committed /\ reader[r].row.table = "runs"

Typed ==
    /\ DOMAIN pc = Handles /\ DOMAIN request = Handles /\ DOMAIN todo = Handles
    /\ DOMAIN written = Handles /\ DOMAIN reply = Handles /\ DOMAIN reader = Readers

HandlesInv == \A h \in Handles : Saving(h) /\ Planned(h)

ReadersInv == \A r \in Readers : Reading(r)

PersistenceInv ==
    /\ Typed /\ StoredRows /\ KeysAreUnique(committed)
    /\ HandlesInv /\ ReadersInv /\ RunsAreWhole /\ NoTornTrace

-----------------------------------------------------------------------------
\* What a request is.
LEMMA RequestShape ==
    ASSUME NEW q \in Requests
    PROVE  /\ q.kind \in {"document", "dataset", "run"}
           /\ q.row \in [table : {"strategies", "components", "datasets", "runs"},
                         key : Strategies \cup Components \cup Datasets \cup Runs,
                         content : Contents \cup Datasets]
           /\ KeyOf(q.row) \in Keys
           /\ q.kind = "run" <=> q.row.table = "runs"
           /\ q.kind = "dataset" <=> q.row.table = "datasets"
           /\ q.row.table = "datasets" => q.row.content = q.row.key
           /\ q.kind = "run" =>
                 /\ q.document.table = "strategies" /\ KeyOf(q.document) \in Keys
                 /\ q.document.content \in Contents
<1>1. CASE q \in DocumentRequests
  BY <1>1 DEF DocumentRequests, Row, KeyOf, Keys
<1>2. CASE q \in ComponentRequests
  BY <1>2 DEF ComponentRequests, Row, KeyOf, Keys
<1>3. CASE q \in DatasetRequests
  BY <1>3 DEF DatasetRequests, Row, KeyOf, Keys
<1>4. CASE q \in RunRequests
  BY <1>4 DEF RunRequests, Row, KeyOf, Keys
<1> QED
  BY <1>1, <1>2, <1>3, <1>4 DEF Requests

LEMMA TraceShape ==
    ASSUME NEW row
    PROVE  /\ TraceRows(row) \in Seq(Range(TraceRows(row)))
           /\ Len(TraceRows(row)) = Events
           /\ \A i \in 1 .. Events :
                 /\ TraceRows(row)[i] = TraceRow(row, i)
                 /\ TraceRow(row, i) \in Range(TraceRows(row))
           /\ \A other \in Range(TraceRows(row)) :
                 /\ \E i \in 1 .. Events : other = TraceRow(row, i)
                 /\ other.table = "trace_events" /\ other.key[1] = row.key
                 /\ other.content = row.content
<1>1. Events \in Nat
  BY PersistenceAssumption
<1>2. DOMAIN TraceRows(row) = 1 .. Events /\ \A i \in 1 .. Events : TraceRows(row)[i] = TraceRow(row, i)
  BY DEF TraceRows
<1>3. /\ \A i \in 1 .. Events : TraceRow(row, i) \in Range(TraceRows(row))
      /\ \A other \in Range(TraceRows(row)) : \E i \in 1 .. Events : other = TraceRow(row, i)
  BY <1>2 DEF Range
<1>4. TraceRows(row) \in [1 .. Events -> Range(TraceRows(row))]
  BY <1>3 DEF TraceRows
<1>5. TraceRows(row) \in Seq(Range(TraceRows(row))) /\ Len(TraceRows(row)) = Events
  BY <1>1, <1>2, <1>4, IsASeq, LenProperties
<1>6. \A i \in 1 .. Events :
        /\ TraceRow(row, i).table = "trace_events" /\ TraceRow(row, i).key[1] = row.key
        /\ TraceRow(row, i).content = row.content
  BY DEF TraceRow, Row
<1> QED
  BY <1>2, <1>3, <1>5, <1>6

\* The keys of the rows of one save are different.
LEMMA RowsShape ==
    ASSUME NEW q \in Requests, NEW row \in RowsOf(q)
    PROVE  /\ row \in OwnRows(q) => row = q.row \/ (q.kind = "run" /\ row \in Range(TraceRows(q.row)))
           /\ row.table = "runs" => row = q.row /\ q.kind = "run"
           /\ row.table = "trace_events" => q.kind = "run" /\ row \in Range(TraceRows(q.row))
           /\ row.table # "trace_events" => row \in PartsOf(q)
           /\ row.content # Absent
           /\ row.table = "datasets" => row.content = row.key
           /\ \A other \in RowsOf(q) : SameKey(row, other) => row = other
<1>1. Absent \notin Contents \cup Datasets
  BY PersistenceAssumption
<1>2. CASE q.kind # "run"
  BY <1>1, <1>2, RequestShape DEF RowsOf, OwnRows, PartsOf
<1>3. CASE q.kind = "run"
  <2>1. \A r \in RowsOf(q) : r = q.row \/ r = q.document \/ r \in Range(TraceRows(q.row))
    BY <1>3 DEF RowsOf, OwnRows, PartsOf
  <2>2. \A r, t \in Range(TraceRows(q.row)) : SameKey(r, t) => r = t
    <3> SUFFICES ASSUME NEW r \in Range(TraceRows(q.row)), NEW t \in Range(TraceRows(q.row)),
                        SameKey(r, t)
                 PROVE  r = t
      OBVIOUS
    <3>1. PICK i \in 1 .. Events, j \in 1 .. Events :
            r = TraceRow(q.row, i) /\ t = TraceRow(q.row, j)
      BY TraceShape
    <3>2. r.key = <<q.row.key, i>> /\ t.key = <<q.row.key, j>>
      BY <3>1 DEF TraceRow, Row
    <3> QED
      BY <3>1, <3>2 DEF SameKey
  <2>3. \A r \in Range(TraceRows(q.row)) :
          r.table = "trace_events" /\ r.content = q.row.content
    BY TraceShape
  <2>4. q.row.table = "runs" /\ q.document.table = "strategies"
    BY <1>3, RequestShape
  <2> QED
    BY <1>1, <1>3, <2>1, <2>2, <2>3, <2>4, RequestShape DEF SameKey, PartsOf, OwnRows
<1> QED
  BY <1>2, <1>3

\* s is what is in a, then e, then what is in c.
IsJoin(s, a, e, c) ==
    /\ Len(s) = Len(a) + 1 + Len(c)
    /\ \A i \in 1 .. Len(a) + 1 + Len(c) :
          s[i] = IF i <= Len(a) THEN a[i] ELSE IF i = Len(a) + 1 THEN e ELSE c[i - Len(a) - 1]

LEMMA JoinThree ==
    ASSUME NEW S, NEW a \in Seq(S), NEW e \in S, NEW c \in Seq(S)
    PROVE  a \o <<e>> \o c \in Seq(S) /\ IsJoin(a \o <<e>> \o c, a, e, c)
<1> DEFINE b == <<e>>
<1>0. b \in Seq(S) /\ Len(b) = 1 /\ b[1] = e
  OBVIOUS
<1> HIDE DEF b
<1>1. Len(a) \in Nat /\ Len(c) \in Nat
  BY LenProperties
<1>2. /\ a \o b \in Seq(S)
      /\ Len(a \o b) = Len(a) + Len(b)
      /\ \A i \in 1 .. Len(a) + Len(b) :
            (a \o b)[i] = IF i <= Len(a) THEN a[i] ELSE b[i - Len(a)]
  BY <1>0, ConcatProperties, Zenon
<1> DEFINE ab == a \o b
<1>3. ab \in Seq(S)
  BY <1>2
<1> HIDE DEF ab
<1>4. /\ ab \o c \in Seq(S)
      /\ Len(ab \o c) = Len(ab) + Len(c)
      /\ \A i \in 1 .. Len(ab) + Len(c) :
            (ab \o c)[i] = IF i <= Len(ab) THEN ab[i] ELSE c[i - Len(ab)]
  BY <1>3, ConcatProperties, Zenon
<1> DEFINE abc == ab \o c
<1> HIDE DEF abc
<1>5. Len(ab) = Len(a) + 1 /\ (\A i \in 1 .. Len(a) + 1: ab[i] = IF i <= Len(a) THEN a[i] ELSE b[i - Len(a)])
  BY <1>0, <1>1, <1>2, Zenon DEF ab
<1>6. \A i \in 1 .. Len(a) + 1: ab[i] = IF i <= Len(a) THEN a[i] ELSE e
  BY <1>0, <1>1, <1>5
<1>7. /\ abc \in Seq(S)
      /\ Len(abc) = Len(a) + 1 + Len(c)
      /\ \A i \in 1 .. Len(a) + 1 + Len(c) :
                 abc[i] = IF i <= Len(a) + 1 THEN ab[i] ELSE c[i - (Len(a) + 1)]
  BY <1>4, <1>5, Zenon DEF abc
<1>8.  \A i \in 1 .. Len(a) + 1 + Len(c) :
                 abc[i] = IF i <= Len(a) THEN a[i]
                                    ELSE IF i = Len(a) + 1 THEN e ELSE c[i - Len(a) - 1]
  <2> SUFFICES ASSUME NEW i \in 1 .. Len(a) + 1 + Len(c)
               PROVE  abc[i] = IF i <= Len(a) THEN a[i]
                               ELSE IF i = Len(a) + 1 THEN e ELSE c[i - Len(a) - 1]
    OBVIOUS
  <2>1. i - (Len(a) + 1) = i - Len(a) - 1
    BY <1>1
  <2>2. i <= Len(a) + 1 => i \in 1 .. Len(a) + 1
    BY <1>1
  <2>3. i <= Len(a) + 1 <=> (i <= Len(a) \/ i = Len(a) + 1)
    BY <1>1
  <2> QED
    BY <1>6, <1>7, <2>1, <2>2, <2>3
<1>9. abc \in Seq(S) /\ IsJoin(abc, a, e, c)
  BY <1>7, <1>8, Zenon DEF IsJoin
<1> QED
  BY <1>9, Zenon DEF abc, ab, b

\* The plan of a run, with or without the INSERT of its strategy.
PlanOf(q, known) ==
    (IF q.document \in known THEN <<>> ELSE <<q.document>>) \o <<q.row>> \o TraceRows(q.row)

LEMMA RunPlan ==
    ASSUME NEW q \in Requests, q.kind = "run", NEW known
    PROVE  LET plan == PlanOf(q, known)
           IN  /\ plan \in Seq(RowsOf(q))
               /\ OwnRows(q) \subseteq Range(plan)
               /\ PartsOf(q) \subseteq Range(plan) \cup known
               /\ Ordered(plan, q, known)
<1> DEFINE plan == PlanOf(q, known)
           R == RowsOf(q)
           first == IF q.document \in known THEN <<>> ELSE <<q.document>>
           second == <<q.row>>
           stream == TraceRows(q.row)
           n == Len(first)
<1>1. q.document \in R /\ q.row \in R /\ Range(stream) \subseteq R /\ Events \in Nat
  BY PersistenceAssumption DEF RowsOf, PartsOf, OwnRows
<1>2. first \in Seq(R) /\ stream \in Seq(R)
  BY <1>1, TraceShape, SeqMonotonic
<1>3. /\ n = (IF q.document \in known THEN 0 ELSE 1)
      /\ \A i \in 1 .. n : first[i] = q.document
  OBVIOUS
<1>4. Len(stream) = Events /\ \A i \in 1 .. Events : stream[i] = TraceRow(q.row, i)
  BY TraceShape
<1>5. n \in Nat
  BY <1>3
<1>6. plan = first \o second \o stream
  BY DEF PlanOf
<1> HIDE DEF plan, R, first, second, stream
<1>7. /\ plan \in Seq(R)
      /\ Len(plan) = n + 1 + Events
      /\ \A i \in 1 .. n + 1 + Events :
            plan[i] = IF i <= n THEN q.document
                      ELSE IF i = n + 1 THEN q.row ELSE TraceRow(q.row, i - n - 1)
  <2>1. plan \in Seq(R) /\ IsJoin(plan, first, q.row, stream)
    BY <1>1, <1>2, <1>6, JoinThree, Zenon DEF second
  <2>2. /\ plan \in Seq(R)
        /\ Len(plan) = n + 1 + Events
        /\ \A i \in 1 .. n + 1 + Events :
              plan[i] = IF i <= n THEN first[i] ELSE IF i = n + 1 THEN q.row ELSE stream[i - n - 1]
    BY <1>4, <2>1, Zenon DEF IsJoin
  <2> HIDE DEF n
  <2>3. \A i \in 1 .. n + 1 + Events :
          (i <= n => i \in 1 .. n) /\ (i > n + 1 => i - n - 1 \in 1 .. Events)
    BY <1>1, <1>5
  <2>4. \A i \in 1 .. n + 1 + Events :
          plan[i] = IF i <= n THEN q.document
                    ELSE IF i = n + 1 THEN q.row ELSE TraceRow(q.row, i - n - 1)
    <3>1. SUFFICES ASSUME NEW i \in 1 .. n + 1 + Events
                   PROVE plan[i] = IF i <= n THEN q.document
                                   ELSE IF i = n + 1 THEN q.row ELSE TraceRow(q.row, i - n - 1)
      OBVIOUS
    <3>2. i > n /\ i # n + 1 => i > n + 1
      BY <1>1, <1>5
    <3>3. plan[i] = IF i <= n THEN first[i] ELSE IF i = n + 1 THEN q.row ELSE stream[i - n - 1]
      BY <2>2
    <3>4. CASE i <= n
      BY <1>3, <2>3, <3>3, <3>4
    <3>5. CASE i = n + 1
      BY <1>5, <3>3, <3>5
    <3>6. CASE i > n + 1
      BY <1>4, <1>5, <2>3, <3>3, <3>6
    <3> QED
      BY <1>1, <1>5, <3>4, <3>5, <3>6
  <2> QED
    BY <2>2, <2>4
<1> HIDE DEF n
<1>8. DOMAIN plan = 1 .. (n + 1 + Events)
  BY <1>7, LenProperties
<1>9. q.row \in Range(plan)
  <2>1. n + 1 \in DOMAIN plan /\ plan[n + 1] = q.row
    BY <1>1, <1>5, <1>7, <1>8
  <2> QED
    BY <2>1 DEF Range
<1>10. Range(stream) \subseteq Range(plan)
  <2> SUFFICES ASSUME NEW i \in 1 .. Events PROVE TraceRow(q.row, i) \in Range(plan)
    BY TraceShape DEF stream
  <2>1. i + n + 1 \in DOMAIN plan /\ plan[i + n + 1] = TraceRow(q.row, i)
    BY <1>1, <1>5, <1>7, <1>8
  <2> QED
    BY <2>1 DEF Range
<1>11. q.document \in Range(plan) \cup known
  <2>1. CASE q.document \notin known
    <3>1. 1 \in DOMAIN plan /\ plan[1] = q.document
      BY <1>1, <1>3, <1>7, <1>8, <2>1
    <3> QED
      BY <3>1 DEF Range
  <2> QED
    BY <2>1
<1>12. Ordered(plan, q, known)
  <2> SUFFICES ASSUME NEW i \in 1 .. Len(plan)
               PROVE  /\ \A j \in 1 .. Len(plan) : i # j => plan[i] # plan[j]
                      /\ plan[i].table = "runs" => q.document \in known \cup Earlier(plan, i)
                      /\ plan[i].table = "trace_events" => q.row \in known \cup Earlier(plan, i)
    BY DEF Ordered
  <2>1. /\ q.row.table = "runs" /\ q.document.table = "strategies"
        /\ \A j \in 1 .. Events : TraceRow(q.row, j).table = "trace_events"
                                  /\ TraceRow(q.row, j).key = <<q.row.key, j>>
    BY RequestShape DEF TraceRow, Row
  <2>2. ASSUME NEW j \in 1 .. Len(plan), i # j PROVE plan[i] # plan[j]
    <3>1. \A a \in 1 .. Events, b \in 1 .. Events :
             a # b => TraceRow(q.row, a) # TraceRow(q.row, b)
      <4> SUFFICES ASSUME NEW a \in 1 .. Events, NEW b \in 1 .. Events, a # b
                   PROVE TraceRow(q.row, a) # TraceRow(q.row, b)
        OBVIOUS
      <4>1. <<q.row.key, a>> # <<q.row.key, b>>
        OBVIOUS
      <4> QED
        BY <2>1, <4>1
    <3>2. \A k \in 1 .. Len(plan) :
             \/ k <= n /\ plan[k] = q.document /\ k = 1
             \/ k = n + 1 /\ plan[k] = q.row
             \/ k > n + 1 /\ k - n - 1 \in 1 .. Events /\ plan[k] = TraceRow(q.row, k - n - 1)
      BY <1>1, <1>3, <1>5, <1>7
    <3> QED
      BY <1>1, <1>3, <1>5, <1>7, <2>1, <2>2, <3>1, <3>2
  <2>3. ASSUME plan[i].table = "runs" PROVE q.document \in known \cup Earlier(plan, i)
    <3>1. i = n + 1
      BY <1>1, <1>5, <1>7, <2>1, <2>3
    <3> QED
      BY <1>1, <1>3, <1>5, <1>7, <3>1 DEF Earlier
  <2>4. ASSUME plan[i].table = "trace_events" PROVE q.row \in known \cup Earlier(plan, i)
    <3>1. i > n + 1
      BY <1>1, <1>5, <1>7, <2>1, <2>4
    <3>2. n + 1 \in 1 .. (i - 1) /\ plan[n + 1] = q.row
      BY <1>1, <1>5, <1>7, <3>1
    <3> QED
      BY <3>2 DEF Earlier
  <2> QED
    BY <2>2, <2>3, <2>4
<1> QED
  BY <1>7, <1>9, <1>10, <1>11, <1>12 DEF OwnRows, PartsOf, stream, R, plan

\* One INSERT further in a plan.
LEMMA TailPlan ==
    ASSUME NEW R, NEW s \in Seq(R), s # <<>>, NEW q, NEW known, Ordered(s, q, known)
    PROVE  /\ Head(s) \in R /\ Tail(s) \in Seq(R)
           /\ Range(s) = {Head(s)} \cup Range(Tail(s)) /\ Head(s) \notin Range(Tail(s))
           /\ Head(s).table = "runs" => q.document \in known
           /\ Head(s).table = "trace_events" => q.row \in known
           /\ Ordered(Tail(s), q, known \cup {Head(s)})
<1> DEFINE t == Tail(s)
<1>1. /\ Head(s) \in R /\ t \in Seq(R) /\ Len(t) = Len(s) - 1
      /\ \A i \in 1 .. Len(t) : t[i] = s[i + 1]
  BY HeadTailProperties
<1>2. Len(s) \in Nat \ {0} /\ DOMAIN s = 1 .. Len(s) /\ Head(s) = s[1]
  BY LenProperties, EmptySeq
<1> HIDE DEF t
<1>3. DOMAIN t = 1 .. Len(t) /\ Len(t) \in Nat
  BY <1>1, LenProperties
<1>4. \A i \in 1 .. Len(t) : i + 1 \in 1 .. Len(s) /\ i + 1 # 1
  BY <1>1, <1>2, <1>3
<1>5. \A i \in 1 .. Len(s) : i = 1 \/ (i - 1 \in 1 .. Len(t) /\ t[i - 1] = s[i])
  <2> SUFFICES ASSUME NEW i \in 1 .. Len(s), i # 1
               PROVE  i - 1 \in 1 .. Len(t) /\ t[i - 1] = s[i]
    OBVIOUS
  <2>1. i - 1 \in 1 .. Len(t) /\ (i - 1) + 1 = i
    BY <1>1, <1>2
  <2> QED
    BY <1>1, <2>1
<1>6. Range(s) = {Head(s)} \cup Range(t)
  <2>1. \A x \in Range(s) : x = s[1] \/ x \in Range(t)
    BY <1>2, <1>3, <1>5 DEF Range
  <2>2. \A x \in Range(t) : x \in Range(s)
    BY <1>1, <1>2, <1>3, <1>4 DEF Range
  <2>3. s[1] \in Range(s)
    BY <1>2 DEF Range
  <2> QED
    BY <1>2, <2>1, <2>2, <2>3
<1>7. Head(s) \notin Range(t)
  <2>1. \A i \in 1 .. Len(t) : t[i] # s[1]
    BY <1>1, <1>2, <1>4 DEF Ordered
  <2> QED
    BY <1>2, <1>3, <2>1 DEF Range
<1>8. Earlier(s, 1) = {}
  BY DEF Earlier
<1>9. \A i \in 1 .. Len(t) : Earlier(s, i + 1) \subseteq {Head(s)} \cup Earlier(t, i)
  <2> SUFFICES ASSUME NEW i \in 1 .. Len(t), NEW j \in 1 .. ((i + 1) - 1)
               PROVE  s[j] \in {Head(s)} \cup Earlier(t, i)
    BY DEF Earlier
  <2>1. j \in 1 .. Len(s) /\ (j # 1 => j - 1 \in 1 .. (i - 1))
    BY <1>1, <1>2, <1>3
  <2> QED
    BY <1>2, <1>5, <2>1 DEF Earlier
<1>10. Ordered(t, q, known \cup {Head(s)})
  <2> SUFFICES ASSUME NEW i \in 1 .. Len(t)
               PROVE  /\ \A j \in 1 .. Len(t) : i # j => t[i] # t[j]
                      /\ t[i].table = "runs" =>
                            q.document \in (known \cup {Head(s)}) \cup Earlier(t, i)
                      /\ t[i].table = "trace_events" =>
                            q.row \in (known \cup {Head(s)}) \cup Earlier(t, i)
    BY DEF Ordered
  <2>1. t[i] = s[i + 1] /\ i + 1 \in 1 .. Len(s)
    BY <1>1, <1>4
  <2>2. ASSUME NEW j \in 1 .. Len(t), i # j PROVE t[i] # t[j]
    <3>1. i + 1 # j + 1 /\ t[j] = s[j + 1] /\ j + 1 \in 1 .. Len(s)
      BY <1>1, <1>4, <2>2
    <3> QED
      BY <2>1, <3>1 DEF Ordered
  <2>3. /\ s[i + 1].table = "runs" => q.document \in known \cup Earlier(s, i + 1)
        /\ s[i + 1].table = "trace_events" => q.row \in known \cup Earlier(s, i + 1)
    BY <2>1 DEF Ordered
  <2> QED
    BY <1>9, <2>1, <2>2, <2>3
<1>11. /\ Head(s).table = "runs" => q.document \in known
       /\ Head(s).table = "trace_events" => q.row \in known
  BY <1>2, <1>8 DEF Ordered
<1> QED
  BY <1>1, <1>6, <1>7, <1>10, <1>11 DEF t

-----------------------------------------------------------------------------
LEMMA Initially == Init => PersistenceInv
<1> SUFFICES ASSUME Init PROVE PersistenceInv
  OBVIOUS
<1>1. Typed
  BY DEF Init, Typed
<1>2. StoredRows /\ KeysAreUnique(committed) /\ RunsAreWhole /\ NoTornTrace
  BY DEF Init, StoredRows, KeysAreUnique, RunsAreWhole, NoTornTrace
<1>3. HandlesInv
  BY PersistenceAssumption DEF Init, HandlesInv, Saving, Planned
<1>4. ReadersInv
  BY DEF Init, ReadersInv, Reading
<1> QED
  BY <1>1, <1>2, <1>3, <1>4 DEF PersistenceInv

\* More committed rows leave what a plan may refer to.
LEMMA OrderedGrows ==
    ASSUME NEW s, NEW q, NEW known, NEW more, known \subseteq more, Ordered(s, q, known)
    PROVE  Ordered(s, q, more)
  BY DEF Ordered

\* What a step of one handle leaves of another, which may be planning while
\* the first one commits.
LEMMA OtherHandle ==
    ASSUME HandlesInv, NEW p \in Handles,
           pc'[p] = pc[p], request'[p] = request[p], todo'[p] = todo[p],
           written'[p] = written[p], reply'[p] = reply[p],
           writer' = p <=> writer = p,
           committed \subseteq committed', writer = p => committed' = committed
    PROVE  Saving(p)' /\ Planned(p)'
<1>1. Saving(p)'
  BY DEF HandlesInv, Saving, Taken
<1>2. Planned(p)'
  <2> SUFFICES ASSUME pc[p] \in {"begin", "insert"} PROVE Planned(p)'
    BY DEF Planned
  <2>1. committed \cup written[p] \subseteq committed' \cup written'[p]
    OBVIOUS
  <2>2. Ordered(todo[p], request[p], committed' \cup written'[p])
    BY <2>1, OrderedGrows DEF HandlesInv, Planned
  <2> QED
    BY <2>2 DEF HandlesInv, Planned
<1> QED
  BY <1>1, <1>2

\* A step of a handle that commits nothing.
LEMMA HandleStep ==
    ASSUME PersistenceInv, NEW h \in Handles, Typed', UNCHANGED <<committed, reader>>,
           \A p \in Handles \ {h} :
               /\ pc'[p] = pc[p] /\ request'[p] = request[p] /\ todo'[p] = todo[p]
               /\ written'[p] = written[p] /\ reply'[p] = reply[p],
           \/ UNCHANGED writer
           \/ writer \in {h, Nobody} /\ writer' \in {h, Nobody},
           Saving(h)' /\ Planned(h)'
    PROVE  PersistenceInv'
<1>1. ASSUME NEW p \in Handles \ {h} PROVE writer' = p <=> writer = p
  BY PersistenceAssumption
<1>2. HandlesInv'
  BY <1>1, OtherHandle DEF PersistenceInv, HandlesInv
<1>3. StoredRows' /\ KeysAreUnique(committed)' /\ RunsAreWhole'
  BY DEF PersistenceInv, StoredRows, KeysAreUnique, RunsAreWhole, Stream
<1>4. ReadersInv' /\ NoTornTrace'
  BY DEF PersistenceInv, ReadersInv, Reading, NoTornTrace
<1> QED
  BY <1>2, <1>3, <1>4 DEF PersistenceInv

LEMMA CallStep ==
    ASSUME PersistenceInv, NEW h \in Handles, NEW q \in Requests, Call(h, q)
    PROVE  PersistenceInv'
<1>1. Typed'
  BY DEF Call, PersistenceInv, Typed
<1>2. Saving(h)' /\ Planned(h)'
  BY DEF Call, PersistenceInv, HandlesInv, Typed, Saving, Planned, database, Taken
<1> QED
  BY <1>1, <1>2, HandleStep DEF Call, PersistenceInv, Typed, database

LEMMA CheckStep ==
    ASSUME PersistenceInv, NEW h \in Handles, Check(h)
    PROVE  PersistenceInv'
<1> DEFINE q == request[h]
<1>1. CASE Duplicate(h, q.row)
  <2>1. Typed'
    BY <1>1 DEF Duplicate, Finished, PersistenceInv, Typed
  <2>2. Saving(h)' /\ Planned(h)'
    BY <1>1 DEF Check, Duplicate, Finished, PersistenceInv, HandlesInv, Typed, Saving, Planned, database, Taken
  <2> QED
    BY <1>1, <2>1, <2>2, HandleStep DEF Duplicate, Finished, PersistenceInv, Typed, database
<1>2. CASE /\ pc' = [pc EXCEPT ![h] = IF q.kind = "run" THEN "check_document" ELSE "begin"]
           /\ todo' = [todo EXCEPT ![h] = <<q.row>>]
           /\ UNCHANGED <<database, request, calls, written, reply, reader>>
  <2>1. Typed'
    BY <1>2 DEF PersistenceInv, Typed
  <2>2. pc[h] = "check" /\ q \in Requests /\ written[h] = {} /\ writer # h
    BY DEF Check, PersistenceInv, HandlesInv, Saving
  <2>3. Saving(h)'
    BY <1>2, <2>2 DEF PersistenceInv, HandlesInv, Typed, Saving, database, Taken
  <2>4. Planned(h)'
    <3> SUFFICES ASSUME q.kind # "run" PROVE Planned(h)'
      BY <1>2, <2>2 DEF PersistenceInv, Typed, Planned
    <3>1. RowsOf(q) = {q.row} /\ OwnRows(q) = {q.row} /\ PartsOf(q) = {q.row}
      BY DEF RowsOf, OwnRows, PartsOf
    <3>2. <<q.row>> \in Seq(RowsOf(q)) /\ Range(<<q.row>>) = {q.row}
      BY <3>1 DEF Range
    <3>3. q.row.table \notin {"runs", "trace_events"}
      BY <2>2, RequestShape
    <3>4. Ordered(<<q.row>>, q, committed \cup written[h])
      BY <3>3 DEF Ordered
    <3>5. todo'[h] = <<q.row>> /\ written'[h] = {} /\ request'[h] = q /\ committed' = committed
      BY <1>2, <2>2 DEF PersistenceInv, Typed, database
    <3> HIDE DEF q
    <3> QED
      BY <2>2, <3>1, <3>2, <3>4, <3>5 DEF Planned
  <2> QED
    BY <1>2, <2>1, <2>3, <2>4, HandleStep DEF PersistenceInv, Typed, database
<1> QED
  BY <1>1, <1>2 DEF Check

LEMMA CheckDocumentStep ==
    ASSUME PersistenceInv, NEW h \in Handles, CheckDocument(h)
    PROVE  PersistenceInv'
<1> DEFINE q == request[h]
<1>1. CASE Duplicate(h, q.document)
  <2>1. Typed'
    BY <1>1 DEF Duplicate, Finished, PersistenceInv, Typed
  <2>2. Saving(h)' /\ Planned(h)'
    BY <1>1 DEF CheckDocument, Duplicate, Finished, PersistenceInv, HandlesInv, Typed, Saving,
                Planned, database, Taken
  <2> QED
    BY <1>1, <2>1, <2>2, HandleStep DEF Duplicate, Finished, PersistenceInv, Typed, database
<1>2. CASE /\ pc' = [pc EXCEPT ![h] = "begin"]
           /\ todo' = [todo EXCEPT ![h] =
                 (IF q.document \in committed THEN <<>> ELSE <<q.document>>)
                 \o @ \o TraceRows(q.row)]
           /\ UNCHANGED <<database, request, calls, written, reply, reader>>
  <2>1. Typed'
    BY <1>2 DEF PersistenceInv, Typed
  <2>2. /\ pc[h] = "check_document" /\ q \in Requests /\ written[h] = {} /\ writer # h
        /\ q.kind = "run" /\ todo[h] = <<q.row>>
    BY DEF CheckDocument, PersistenceInv, HandlesInv, Saving
  <2>3. Saving(h)'
    BY <1>2, <2>2 DEF PersistenceInv, HandlesInv, Typed, Saving, database, Taken
  <2>4. Planned(h)'
    <3>1. todo'[h] = PlanOf(q, committed)
      BY <1>2, <2>2 DEF PersistenceInv, Typed, PlanOf
    <3>2. written'[h] = {} /\ request'[h] = q /\ committed' = committed
      BY <1>2, <2>2 DEF PersistenceInv, Typed, database
    <3> DEFINE plan == PlanOf(q, committed)
    <3>3. /\ plan \in Seq(RowsOf(q))
          /\ OwnRows(q) \subseteq Range(plan)
          /\ PartsOf(q) \subseteq Range(plan) \cup committed
          /\ Ordered(plan, q, committed)
      BY <2>2, RunPlan
    <3> HIDE DEF q, plan
    <3>4. Ordered(plan, q, committed' \cup written'[h])
      BY <3>2, <3>3, OrderedGrows
    <3> QED
      BY <3>1, <3>2, <3>3, <3>4 DEF Planned, plan
  <2> QED
    BY <1>2, <2>1, <2>3, <2>4, HandleStep DEF PersistenceInv, Typed, database
<1> QED
  BY <1>1, <1>2 DEF CheckDocument

LEMMA BeginStep ==
    ASSUME PersistenceInv, NEW h \in Handles, Begin(h)
    PROVE  PersistenceInv'
<1>1. Typed'
  BY DEF Begin, PersistenceInv, Typed
<1>2. Saving(h)' /\ Planned(h)'
  BY PersistenceAssumption DEF Begin, PersistenceInv, HandlesInv, Typed, Saving, Planned, database, local
<1> QED
  BY <1>1, <1>2, HandleStep DEF Begin, PersistenceInv, HandlesInv, Typed, Saving, Planned, database

LEMMA BeginTimesOutStep ==
    ASSUME PersistenceInv, NEW h \in Handles, BeginTimesOut(h)
    PROVE  PersistenceInv'
<1>1. Typed'
  BY DEF BeginTimesOut, PersistenceInv, Typed, Finished, Taken
<1>2. Saving(h)' /\ Planned(h)'
  BY DEF BeginTimesOut, PersistenceInv, HandlesInv, Typed, Saving, Planned, database, local, Finished, Taken
<1> QED
  BY <1>1, <1>2, HandleStep DEF BeginTimesOut, PersistenceInv, HandlesInv, Typed, Saving, Planned, database, Finished, Taken

LEMMA InsertStep ==
    ASSUME PersistenceInv, NEW h \in Handles, Insert(h)
    PROVE  PersistenceInv'
<1> DEFINE q == request[h]
           s == todo[h]
           row == Head(s)
           known == committed \cup written[h]
<1>1. Typed'
  BY DEF Insert, PersistenceInv, Typed
<1>2. /\ pc[h] = "insert" /\ s # <<>> /\ ~Violates(row, q, known)
      /\ pc'[h] = "insert" /\ request'[h] = q /\ committed' = committed
      /\ todo'[h] = Tail(s) /\ written'[h] = written[h] \cup {row}
      /\ writer' = writer /\ reply'[h] = reply[h]
  BY DEF Insert, PersistenceInv, Typed, database
<1>3. /\ s \in Seq(RowsOf(q)) /\ written[h] \subseteq RowsOf(q) /\ written[h] \cap Range(s) = {}
      /\ OwnRows(q) \subseteq Range(s) \cup written[h]
      /\ PartsOf(q) \subseteq Range(s) \cup known
      /\ Ordered(s, q, known)
  BY <1>2 DEF PersistenceInv, HandlesInv, Planned
<1>4. /\ row \in RowsOf(q) /\ Tail(s) \in Seq(RowsOf(q))
      /\ Range(s) = {row} \cup Range(Tail(s)) /\ row \notin Range(Tail(s))
      /\ Ordered(Tail(s), q, known \cup {row})
  <2> HIDE DEF q, s, known
  <2> QED
    BY <1>2, <1>3, TailPlan
<1>5. ~Taken(row, known)
  BY <1>2 DEF Violates
<1>6. Saving(h) /\ h \in Handles
  BY DEF PersistenceInv, HandlesInv
<1> HIDE DEF q, s, row, known
<1>7. Saving(h)'
  BY <1>2, <1>5, <1>6 DEF Saving, Taken, known, q
<1>8. Planned(h)'
  <2>1. committed' \cup written'[h] = known \cup {row}
    BY <1>2 DEF known
  <2> QED
    BY <1>2, <1>3, <1>4, <2>1 DEF Planned, known
<1> QED
  BY <1>1, <1>7, <1>8, HandleStep DEF Insert, PersistenceInv, Typed, database

\* Whatever ends a transaction without a COMMIT.
LEMMA RollbackStep ==
    ASSUME PersistenceInv, NEW h \in Handles, pc[h] = "insert", Rollback(h), NEW answer,
           answer \in {"ok", "conflict", "locked", "failed", "crashed"}, Finished(h, answer),
           UNCHANGED <<request, reader>>
    PROVE  PersistenceInv'
<1>1. Typed'
  BY DEF Rollback, Finished, PersistenceInv, Typed
<1>2. writer = h
  BY DEF PersistenceInv, HandlesInv, Saving
<1>3. Saving(h)' /\ Planned(h)'
  BY PersistenceAssumption DEF Rollback, Finished, PersistenceInv, HandlesInv, Typed, Saving, Planned, Taken
<1> QED
  BY <1>1, <1>2, <1>3, HandleStep DEF Rollback, Finished, PersistenceInv, Typed

LEMMA CrashStep ==
    ASSUME PersistenceInv, NEW h \in Handles, Crash(h)
    PROVE  PersistenceInv'
<1>1. CASE writer = h
  <2>1. pc[h] = "insert"
    BY <1>1 DEF PersistenceInv, HandlesInv, Saving
  <2> QED
    BY <1>1, <2>1, RollbackStep DEF Crash
<1>2. CASE writer # h
  <2>1. Typed'
    BY <1>2 DEF Crash, Finished, PersistenceInv, Typed
  <2>2. Saving(h)' /\ Planned(h)'
    BY <1>2 DEF Crash, Finished, PersistenceInv, HandlesInv, Typed, Saving, Planned, database, Taken
  <2> QED
    BY <1>2, <2>1, <2>2, HandleStep DEF Crash, Finished, PersistenceInv, Typed, database
<1> QED
  BY <1>1, <1>2

LEMMA ReturnStep ==
    ASSUME PersistenceInv, NEW h \in Handles, Return(h)
    PROVE  PersistenceInv'
<1>1. Typed'
  BY DEF Return, PersistenceInv, Typed, Finished, Taken
<1>2. Saving(h)' /\ Planned(h)'
  BY DEF Return, PersistenceInv, HandlesInv, Typed, Saving, Planned, database, local, Finished, Taken
<1> QED
  BY <1>1, <1>2, HandleStep DEF Return, PersistenceInv, HandlesInv, Typed, Saving, Planned, database, Finished, Taken

LEMMA CommitStep ==
    ASSUME PersistenceInv, NEW h \in Handles, Commit(h)
    PROVE  PersistenceInv'
<1> DEFINE q == request[h]
           new == written[h]
<1>1. /\ pc[h] = "insert" /\ writer = h /\ todo[h] = <<>> /\ q \in Requests
      /\ new \subseteq RowsOf(q) /\ \A row \in new : ~Taken(row, committed)
      /\ OwnRows(q) \subseteq Range(todo[h]) \cup new
      /\ PartsOf(q) \subseteq Range(todo[h]) \cup new \cup committed
  BY DEF Commit, PersistenceInv, HandlesInv, Saving, Planned
<1>2. /\ committed' = committed \cup new /\ writer' = Nobody /\ UNCHANGED reader
      /\ pc'[h] = "return" /\ request'[h] = q /\ written'[h] = {}
      /\ \A p \in Handles \ {h} : /\ pc'[p] = pc[p] /\ request'[p] = request[p]
                                /\ todo'[p] = todo[p] /\ written'[p] = written[p]
                                /\ reply'[p] = reply[p]
  BY DEF Commit, PersistenceInv, Typed
<1>3. Range(todo[h]) = {}
  BY <1>1 DEF Range
<1>4. OwnRows(q) \subseteq new /\ PartsOf(q) \subseteq new \cup committed
  BY <1>1, <1>3
<1>5. q.row \in new
  BY <1>4 DEF OwnRows
<1>6. Typed'
  BY DEF Commit, PersistenceInv, Typed
<1>7. HandlesInv'
  <2>1. Saving(h)' /\ Planned(h)'
    BY <1>1, <1>2, <1>5, PersistenceAssumption DEF PersistenceInv, HandlesInv, Saving, Planned
  <2>2. ASSUME NEW p \in Handles \ {h} PROVE Saving(p)' /\ Planned(p)'
    <3>1. writer # p /\ writer' # p
      BY <1>1, <1>2, PersistenceAssumption
    <3> QED
      BY <1>2, <3>1, OtherHandle DEF PersistenceInv
  <2> QED
    BY <2>1, <2>2 DEF HandlesInv
<1> HIDE DEF q, new
<1>8. StoredRows'
  BY <1>1, <1>2, RowsShape DEF PersistenceInv, StoredRows
<1>9. KeysAreUnique(committed)'
  <2> SUFFICES ASSUME NEW row \in committed \cup new, NEW other \in committed \cup new,
                      SameKey(row, other)
               PROVE  row = other
    BY <1>2 DEF KeysAreUnique
  <2>1. SameKey(other, row)
    BY DEF SameKey
  <2>2. CASE row \in committed /\ other \in committed
    BY <2>2 DEF PersistenceInv, KeysAreUnique
  <2>3. CASE row \in new /\ other \in new
    BY <1>1, <2>3, RowsShape
  <2>4. CASE row \in new /\ other \in committed
    BY <1>1, <2>4 DEF Taken
  <2>5. CASE row \in committed /\ other \in new
    BY <1>1, <2>1, <2>5 DEF Taken
  <2> QED
    BY <2>2, <2>3, <2>4, <2>5
<1>10. RunsAreWhole'
  \* The new trace rows are those of a run whose key nothing had.
  <2>1. ASSUME NEW row \in new, row.table = "trace_events"
        PROVE  /\ q.kind = "run" /\ row \in Range(TraceRows(q.row))
               /\ q.row.table = "runs" /\ row.key[1] = q.row.key
    <3>1. q.kind = "run" /\ row \in Range(TraceRows(q.row))
      BY <1>1, <2>1, RowsShape
    <3> QED
      BY <1>1, <3>1, RequestShape, TraceShape
  <2>2. ASSUME NEW row \in committed, row.table = "runs", q.row.table = "runs"
        PROVE  row.key # q.row.key
    BY <1>1, <1>5, <2>2 DEF Taken, SameKey
  <2>3. ASSUME NEW row \in committed, row.table = "runs"
        PROVE  Stream(row)' = Range(TraceRows(row))
    <3>1. Stream(row)' = Stream(row)
      BY <1>2, <2>1, <2>2, <2>3 DEF Stream
    <3> QED
      BY <2>3, <3>1 DEF PersistenceInv, RunsAreWhole
  <2>4. ASSUME NEW row \in new, row.table = "runs"
        PROVE  /\ Stream(row)' = Range(TraceRows(row))
               /\ \E other \in committed' : other.table = "strategies"
    <3>1. row = q.row /\ q.kind = "run"
      BY <1>1, <2>4, RowsShape
    <3>2. \A other \in committed : other.table = "trace_events" => other.key[1] # q.row.key
      BY <2>2, <2>4, <3>1 DEF PersistenceInv, RunsAreWhole
    <3>3. Range(TraceRows(q.row)) \subseteq new
      BY <1>4, <3>1 DEF OwnRows
    <3>4. \A other \in Range(TraceRows(q.row)) :
             other.table = "trace_events" /\ other.key[1] = q.row.key
      BY TraceShape
    <3>5. Stream(row)' = Range(TraceRows(row))
      BY <1>2, <2>1, <3>1, <3>2, <3>3, <3>4 DEF Stream
    <3>6. q.document \in committed' /\ q.document.table = "strategies"
      BY <1>1, <1>2, <1>4, <3>1, RequestShape DEF PartsOf
    <3> QED
      BY <3>5, <3>6
  <2>5. ASSUME NEW row \in committed', row.table = "trace_events"
        PROVE  \E run \in committed' : run.table = "runs" /\ run.key = row.key[1]
    <3>1. CASE row \in new
      BY <1>2, <1>5, <2>1, <2>5, <3>1
    <3>2. CASE row \in committed
      BY <1>2, <2>5, <3>2 DEF PersistenceInv, RunsAreWhole
    <3> QED
      BY <1>2, <3>1, <3>2
  <2>6. \A row \in committed : row.table = "runs" =>
           \E other \in committed' : other.table = "strategies"
    BY <1>2 DEF PersistenceInv, RunsAreWhole
  <2> QED
    BY <1>2, <2>3, <2>4, <2>5, <2>6 DEF RunsAreWhole
<1>11. ReadersInv' /\ NoTornTrace'
  BY <1>2 DEF PersistenceInv, ReadersInv, Reading, NoTornTrace
<1> QED
  BY <1>6, <1>7, <1>8, <1>9, <1>10, <1>11 DEF PersistenceInv

LEMMA ReadStep ==
    ASSUME PersistenceInv, NEW r \in Readers,
           \/ \E run \in Runs : ReadRun(r, run)
           \/ ReadStream(r)
    PROVE  PersistenceInv'
<1>1. UNCHANGED <<database, local>> /\ Typed'
  BY DEF ReadRun, ReadStream, PersistenceInv, Typed, database, local
<1>2. \A p \in Readers \ {r} : reader'[p] = reader[p]
  BY DEF ReadRun, ReadStream, PersistenceInv, Typed
<1>3. Reading(r) /\ reader[r].answer # "corrupt" /\ RunsAreWhole /\ DOMAIN reader = Readers
  BY DEF PersistenceInv, ReadersInv, NoTornTrace, Typed
<1>4. Reading(r)' /\ reader'[r].answer # "corrupt"
  <2>1. CASE ReadStream(r)
    <3>1. Stream(reader[r].row) = Range(TraceRows(reader[r].row))
      BY <1>3, <2>1 DEF ReadStream, Reading, RunsAreWhole
    <3> QED
      BY <1>1, <1>3, <2>1, <3>1 DEF ReadStream, Reading, database
  <2>2. ASSUME NEW run \in Runs, ReadRun(r, run) PROVE Reading(r)' /\ reader'[r].answer # "corrupt"
    <3> DEFINE found == {row \in committed : row.table = "runs" /\ row.key = run}
    <3>1. CASE reader' = [reader EXCEPT ![r] = [@ EXCEPT !.answer = "not_found"]]
      <4>1. reader'[r] = [pc |-> reader[r].pc, row |-> reader[r].row, answer |-> "not_found"]
        BY <1>3, <3>1 DEF Reading
      <4> QED
        BY <1>1, <1>3, <4>1 DEF Reading, database
    <3>2. ASSUME NEW row \in found,
                 reader' = [reader EXCEPT ![r] = [pc |-> "stream", row |-> row, answer |-> "none"]]
          PROVE  Reading(r)' /\ reader'[r].answer # "corrupt"
      BY <1>1, <1>3, <3>2 DEF Reading, database
    <3> QED
      BY <2>2, <3>1, <3>2 DEF ReadRun
  <2> QED
    BY <2>1, <2>2
<1>5. ReadersInv' /\ NoTornTrace'
  <2>1. \A p \in Readers \ {r} : Reading(p)' /\ reader'[p].answer # "corrupt"
    BY <1>1, <1>2 DEF PersistenceInv, ReadersInv, NoTornTrace, Reading, database
  <2> QED
    BY <1>4, <2>1 DEF ReadersInv, NoTornTrace
<1>6. HandlesInv'
  BY <1>1, OtherHandle DEF PersistenceInv, HandlesInv, database, local
<1>7. StoredRows' /\ KeysAreUnique(committed)' /\ RunsAreWhole'
  BY <1>1 DEF PersistenceInv, StoredRows, KeysAreUnique, RunsAreWhole, Stream, database
<1> QED
  BY <1>1, <1>5, <1>6, <1>7 DEF PersistenceInv

LEMMA Inductive == PersistenceInv /\ [Next]_vars => PersistenceInv'
<1> SUFFICES ASSUME PersistenceInv, [Next]_vars PROVE PersistenceInv'
  OBVIOUS
<1>1. ASSUME NEW h \in Handles, Step(h) PROVE PersistenceInv'
  <2>1. InsertRefused(h) => PersistenceInv'
    BY RollbackStep DEF InsertRefused
  <2> QED
    BY <1>1, <2>1, CheckStep, CheckDocumentStep, BeginStep, BeginTimesOutStep, InsertStep,
       CommitStep, ReturnStep DEF Step
<1>2. ASSUME NEW h \in Handles, Abort(h) PROVE PersistenceInv'
  BY <1>2, RollbackStep DEF Abort
<1>3. CASE UNCHANGED vars
  <2>1. UNCHANGED <<committed, writer, pc, request, todo, written, reply, reader>>
    BY <1>3 DEF vars, database, local
  <2>2. HandlesInv'
    BY <2>1, OtherHandle DEF PersistenceInv, HandlesInv
  <2> QED
    BY <2>1, <2>2 DEF PersistenceInv, Typed, StoredRows, KeysAreUnique, ReadersInv, Reading,
                      RunsAreWhole, Stream, NoTornTrace
<1> QED
  BY <1>1, <1>2, <1>3, CallStep, CrashStep, ReadStep DEF Next

-----------------------------------------------------------------------------
\* The strengthening holds of every behaviour of the handles and the readers.
THEOREM SpecKeepsPersistenceInv == Spec => []PersistenceInv
<1>1. Init => PersistenceInv
  BY Initially
<1>2. PersistenceInv /\ [Next]_vars => PersistenceInv'
  BY Inductive
<1> QED
  BY <1>1, <1>2, PTL DEF Spec

\* runs.py, save_run: whatever saves, failures and crashes there are, a run is
\* stored with every event of its trace and a strategy, and no event without it.
THEOREM SpecKeepsRunsWhole == Spec => []RunsAreWhole
<1>1. PersistenceInv => RunsAreWhole
  BY DEF PersistenceInv
<1> QED
  BY <1>1, SpecKeepsPersistenceInv, PTL

\* runs.py, load_trace: the two queries of a load never disagree, however many
\* saves commit between them.
THEOREM SpecKeepsTracesUntorn == Spec => []NoTornTrace
<1>1. PersistenceInv => NoTornTrace
  BY DEF PersistenceInv
<1> QED
  BY <1>1, SpecKeepsPersistenceInv, PTL

-----------------------------------------------------------------------------
\* The refinement.  What a sound file has under a key of the store.
SoundFile(file) ==
    /\ KeysAreUnique(file)
    /\ \A row \in file : row.table = "runs" =>
          {other \in file : other.table = "trace_events" /\ other.key[1] = row.key}
             = Range(TraceRows(row))
    /\ \A row \in file : row.table = "trace_events" =>
          \E run \in file : run.table = "runs" /\ run.key = row.key[1]

LEMMA FilesAreSound ==
    /\ PersistenceInv => SoundFile(committed)
    /\ PersistenceInv' => SoundFile(committed')
<1>1. PersistenceInv => SoundFile(committed)
  BY DEF PersistenceInv, RunsAreWhole, Stream, SoundFile
<1>2. PersistenceInv' => SoundFile(committed')
  BY DEF PersistenceInv, RunsAreWhole, Stream, SoundFile
<1> QED
  BY <1>1, <1>2

LEMMA StoredUnderKey ==
    ASSUME NEW file, SoundFile(file), NEW row \in file
    PROVE  StoredIn(file, KeyOf(row)) = row.content
<1> DEFINE k == KeyOf(row)
           rows == {other \in file : other.table = k[1] /\ other.key = k[2]}
           stream == {other \in file : other.table = "trace_events" /\ other.key[1] = k[2]}
           whole == UNION {Range(TraceRows(other)) : other \in rows}
<1>1. k[1] = row.table /\ k[2] = row.key
  BY DEF KeyOf
<1>2. rows = {row}
  BY <1>1 DEF SoundFile, KeysAreUnique, SameKey
<1>3. ~(Cardinality(rows) > 1)
  <2>1. Cardinality({row}) = 1
    BY FS_Singleton
  <2> QED
    BY <1>2, <2>1
<1>4. whole = Range(TraceRows(row))
  BY <1>2
<1>5. k[1] = "runs" => stream = whole
  BY <1>1, <1>4 DEF SoundFile
<1>6. (CHOOSE other \in rows : TRUE) = row
  BY <1>2
<1>7. rows # {}
  BY <1>2
<1>8. StoredIn(file, k) = IF Cardinality(rows) > 1 \/ (k[1] = "runs" /\ stream # whole) THEN "torn"
                          ELSE IF rows = {} THEN Absent ELSE (CHOOSE other \in rows : TRUE).content
  BY DEF StoredIn
<1> HIDE DEF k, rows, stream, whole
<1>9. StoredIn(file, k) = row.content
  BY <1>3, <1>5, <1>6, <1>7, <1>8
<1> QED
  BY <1>9 DEF k

LEMMA NothingUnderKey ==
    ASSUME NEW file, SoundFile(file), NEW k, \A row \in file : ~(row.table = k[1] /\ row.key = k[2])
    PROVE  StoredIn(file, k) = Absent
<1> DEFINE rows == {row \in file : row.table = k[1] /\ row.key = k[2]}
           stream == {row \in file : row.table = "trace_events" /\ row.key[1] = k[2]}
           whole == UNION {Range(TraceRows(row)) : row \in rows}
<1>1. rows = {}
  OBVIOUS
<1>2. ~(Cardinality(rows) > 1)
  BY <1>1, FS_EmptySet
<1>3. whole = {}
  BY <1>1
<1>4. k[1] = "runs" => stream = {}
  BY DEF SoundFile
<1>5. StoredIn(file, k) = IF Cardinality(rows) > 1 \/ (k[1] = "runs" /\ stream # whole) THEN "torn"
                          ELSE IF rows = {} THEN Absent ELSE (CHOOSE row \in rows : TRUE).content
  BY DEF StoredIn
<1> HIDE DEF rows, stream, whole
<1> QED
  BY <1>1, <1>2, <1>3, <1>4, <1>5

\* The unit of a request has its artifacts under their own keys.
LEMMA UnitShape ==
    ASSUME NEW q \in Requests
    PROVE  /\ UnitOf(q).key = KeyOf(q.row) /\ q.row \in PartsOf(q)
           /\ DOMAIN UnitOf(q).parts = {KeyOf(row) : row \in PartsOf(q)}
           /\ \A row \in PartsOf(q) : UnitOf(q).parts[KeyOf(row)] = row.content /\ KeyOf(row) \in Keys
<1>1. q.kind # "none"
  BY RequestShape
<1>2. /\ UnitOf(q).key = KeyOf(q.row)
      /\ UnitOf(q).parts = [k \in {KeyOf(row) : row \in PartsOf(q)} |->
                               (CHOOSE row \in PartsOf(q) : KeyOf(row) = k).content]
  BY <1>1 DEF UnitOf
<1>3. ASSUME NEW row \in PartsOf(q)
      PROVE  (CHOOSE other \in PartsOf(q) : KeyOf(other) = KeyOf(row)) = row
  <2>1. \A other \in PartsOf(q) : KeyOf(other) = KeyOf(row) => other = row
    BY RowsShape DEF RowsOf, KeyOf, SameKey
  <2> QED
    BY <2>1
<1>4. q.row \in PartsOf(q) /\ \A row \in PartsOf(q) : KeyOf(row) \in Keys
  BY RequestShape DEF PartsOf
<1>5. ASSUME NEW row \in PartsOf(q) PROVE UnitOf(q).parts[KeyOf(row)] = row.content
  <2>1. KeyOf(row) \in {KeyOf(other) : other \in PartsOf(q)}
    OBVIOUS
  <2> QED
    BY <1>2, <1>3, <2>1
<1> QED
  BY <1>2, <1>4, <1>5

LEMMA InitRefines == Init => Store!Init
<1> SUFFICES ASSUME Init PROVE Store!Init
  OBVIOUS
<1>1. SoundFile(committed) /\ committed = {}
  BY DEF Init, SoundFile, KeysAreUnique
<1>2. \A k \in Keys : StoredIn(committed, k) = Absent
  BY <1>1, NothingUnderKey
<1>3. \A h \in Handles : UnitOf(request[h]) = [key |-> Absent, parts |-> <<>>]
  BY DEF Init, UnitOf, NoRequest
<1>4. \A h \in Handles : StatusOf(h) = "idle"
  BY DEF Init, StatusOf
<1> QED
  BY <1>2, <1>3, <1>4 DEF Store!Init, Store!NoUnit

\* A step that commits nothing leaves the table; one that leaves the statuses
\* and the requests too is a stutter.
LEMMA Stutters ==
    ASSUME committed' = committed, \A h \in Handles : request'[h] = request[h],
           \A h \in Handles : StatusOf(h)' = StatusOf(h)
    PROVE  UNCHANGED Store!vars
<1>1. [k \in Keys |-> StoredIn(committed', k)] = [k \in Keys |-> StoredIn(committed, k)]
  OBVIOUS
<1>2. [h \in Handles |-> UnitOf(request'[h])] = [h \in Handles |-> UnitOf(request[h])]
  OBVIOUS
<1>3. [h \in Handles |-> StatusOf(h)'] = [h \in Handles |-> StatusOf(h)]
  OBVIOUS
<1> QED
  BY <1>1, <1>2, <1>3 DEF Store!vars

\* A save that ends with an answer the abstract store allows.
LEMMA Answers ==
    ASSUME NEW h \in Handles, committed' = committed, UNCHANGED request, NEW answer,
           answer \in {"ok", "conflict", "crashed", "locked", "failed"},
           StatusOf(h)' = answer, \A p \in Handles \ {h} : StatusOf(p)' = StatusOf(p),
           LET unit == UnitOf(request[h])
           IN  \/ /\ answer = "ok" /\ StatusOf(h) \in {"asked", "stored"}
                  /\ unit.key \in Keys
                  /\ StoredIn(committed, unit.key) = unit.parts[unit.key]
               \/ /\ answer = "conflict" /\ StatusOf(h) = "asked"
                  /\ \E k \in DOMAIN unit.parts : k \in Keys /\ StoredIn(committed, k) # Absent
               \/ answer \in {"locked", "failed"} /\ StatusOf(h) = "asked"
               \/ answer = "crashed" /\ StatusOf(h) \in {"asked", "stored"}
    PROVE  Store!Next
<1> DEFINE table == [k \in Keys |-> StoredIn(committed, k)]
           asked == [p \in Handles |-> UnitOf(request[p])]
           status == [p \in Handles |-> StatusOf(p)]
<1>1. table' = table /\ asked' = asked
  OBVIOUS
<1>2. status' = [status EXCEPT ![h] = answer]
  OBVIOUS
<1>3. asked[h] = UnitOf(request[h]) /\ status[h] = StatusOf(h)
      /\ \A k \in Keys : table[k] = StoredIn(committed, k)
  OBVIOUS
<1> HIDE DEF table, asked, status
<1>4. Store!Answer(h, answer)
  BY <1>1, <1>2, <1>3 DEF Store!Answer, Store!Failures, table, asked, status
<1> QED
  BY <1>4 DEF Store!Next, Store!Failures

LEMMA CallAsks ==
    ASSUME PersistenceInv, NEW h \in Handles, NEW q \in Requests, Call(h, q)
    PROVE  Store!Next
<1> DEFINE asked == [p \in Handles |-> UnitOf(request[p])]
           status == [p \in Handles |-> StatusOf(p)]
           table == [k \in Keys |-> StoredIn(committed, k)]
<1>1. /\ pc[h] = "idle" /\ pc' = [pc EXCEPT ![h] = "check"] /\ request' = [request EXCEPT ![h] = q]
      /\ reply' = [reply EXCEPT ![h] = "pending"] /\ committed' = committed
      /\ DOMAIN pc = Handles /\ DOMAIN request = Handles /\ DOMAIN reply = Handles
  BY DEF Call, PersistenceInv, Typed, database
<1>2. reply[h] \notin {"asked", "stored"}
  BY <1>1 DEF PersistenceInv, HandlesInv, Saving
<1>3. status[h] \notin {"asked", "stored"}
  BY <1>1, <1>2 DEF StatusOf
<1>4. status' = [status EXCEPT ![h] = "asked"]
  BY <1>1 DEF StatusOf
<1>5. asked' = [asked EXCEPT ![h] = UnitOf(q)]
  BY <1>1
<1>6. table' = table
  BY <1>1
<1> HIDE DEF asked, status, table
<1>7. Store!Ask(h, UnitOf(q))
  BY <1>3, <1>4, <1>5, <1>6 DEF Store!Ask, asked, status, table
<1> QED
  BY <1>7 DEF Store!Next

LEMMA CommitStores ==
    ASSUME PersistenceInv, PersistenceInv', NEW h \in Handles, Commit(h)
    PROVE  Store!Next
<1> DEFINE asked == [p \in Handles |-> UnitOf(request[p])]
           status == [p \in Handles |-> StatusOf(p)]
           table == [k \in Keys |-> StoredIn(committed, k)]
           q == request[h]
           new == written[h]
           parts == UnitOf(q).parts
<1>1. /\ pc[h] = "insert" /\ q \in Requests /\ todo[h] = <<>>
      /\ new \subseteq RowsOf(q) /\ \A row \in new : ~Taken(row, committed)
      /\ OwnRows(q) \subseteq Range(todo[h]) \cup new
      /\ PartsOf(q) \subseteq Range(todo[h]) \cup new \cup committed
  BY DEF Commit, PersistenceInv, HandlesInv, Saving, Planned
<1>2. OwnRows(q) \subseteq new /\ PartsOf(q) \subseteq new \cup committed /\ q.row \in new
  <2>1. Range(todo[h]) = {}
    BY <1>1 DEF Range
  <2> QED
    BY <1>1, <2>1 DEF OwnRows
<1>3. committed' = committed \cup new /\ SoundFile(committed) /\ SoundFile(committed')
  BY FilesAreSound DEF Commit
<1>4. /\ DOMAIN parts = {KeyOf(row) : row \in PartsOf(q)}
      /\ \A row \in PartsOf(q) : parts[KeyOf(row)] = row.content /\ KeyOf(row) \in Keys
      /\ UnitOf(q).key = KeyOf(q.row) /\ q.row \in PartsOf(q)
  BY <1>1, UnitShape
<1>5. /\ status' = [status EXCEPT ![h] = "stored"] /\ status[h] = "asked"
      /\ asked' = asked /\ asked[h] = UnitOf(q)
  BY DEF Commit, PersistenceInv, Typed, StatusOf
<1> HIDE DEF q, new, parts
<1>6. ASSUME NEW row \in new PROVE StoredIn(committed, KeyOf(row)) = Absent
  <2>1. \A other \in committed : ~(other.table = KeyOf(row)[1] /\ other.key = KeyOf(row)[2])
    BY <1>1 DEF Taken, SameKey, KeyOf
  <2> QED
    BY <1>3, <2>1, NothingUnderKey
<1>7. \A row \in committed' : StoredIn(committed', KeyOf(row)) = row.content
  BY <1>3, StoredUnderKey
<1>8. \A row \in committed : StoredIn(committed, KeyOf(row)) = row.content
  BY <1>3, StoredUnderKey
<1>9. ASSUME NEW k \in Keys
      PROVE  StoredIn(committed', k) = IF k \in DOMAIN parts THEN parts[k] ELSE StoredIn(committed, k)
  <2>1. CASE k \in DOMAIN parts
    <3>1. PICK row \in PartsOf(q) : k = KeyOf(row)
      BY <1>4, <2>1
    <3> QED
      BY <1>2, <1>3, <1>4, <1>7, <2>1, <3>1
  <2>2. CASE k \notin DOMAIN parts
    <3>1. k[1] # "trace_events"
      BY DEF Keys
    <3>2. ASSUME NEW row \in new PROVE ~(row.table = k[1] /\ row.key = k[2])
      <4> SUFFICES ASSUME row.table = k[1], row.key = k[2] PROVE FALSE
        OBVIOUS
      <4>1. row \in PartsOf(q)
        BY <1>1, <3>1, RowsShape
      <4>2. KeyOf(row) = k
        BY DEF Keys, KeyOf
      <4> QED
        BY <1>4, <2>2, <4>1, <4>2
    <3>3. CASE \E row \in committed : row.table = k[1] /\ row.key = k[2]
      <4>1. PICK row \in committed : row.table = k[1] /\ row.key = k[2]
        BY <3>3
      <4>2. KeyOf(row) = k
        BY <4>1 DEF Keys, KeyOf
      <4> QED
        BY <1>3, <1>7, <1>8, <2>2, <4>2
    <3>4. CASE \A row \in committed : ~(row.table = k[1] /\ row.key = k[2])
      <4>1. \A row \in committed' : ~(row.table = k[1] /\ row.key = k[2])
        BY <1>3, <3>2, <3>4
      <4>2. StoredIn(committed, k) = Absent /\ StoredIn(committed', k) = Absent
        BY <1>3, <3>4, <4>1, NothingUnderKey
      <4> QED
        BY <2>2, <4>2
    <3> QED
      BY <3>3, <3>4
  <2> QED
    BY <2>1, <2>2
<1>10. table' = [k \in Keys |-> IF k \in DOMAIN parts THEN parts[k] ELSE table[k]]
  BY <1>9
<1>11. \A k \in Keys : table[k] = StoredIn(committed, k)
  OBVIOUS
<1>12. table[KeyOf(q.row)] = Absent
  BY <1>2, <1>4, <1>6, <1>11
<1>13. \A k \in DOMAIN parts : table[k] \in {Absent, parts[k]}
  BY <1>2, <1>4, <1>6, <1>8, <1>11
<1> HIDE DEF asked, status, table
<1>14. Store!Store(h)
  BY <1>4, <1>5, <1>10, <1>12, <1>13 DEF Store!Store, asked, status, table, parts
<1> QED
  BY <1>14 DEF Store!Next

\* A save ends without storing anything: h finishes and every other handle is
\* where it was.
LEMMA Finishes ==
    ASSUME PersistenceInv, NEW h \in Handles, NEW answer, Finished(h, answer)
    PROVE  /\ StatusOf(h)' = answer
           /\ \A p \in Handles \ {h} : StatusOf(p)' = StatusOf(p)
           /\ pc[h] \in {"check", "check_document", "begin", "insert"} => StatusOf(h) = "asked"
           /\ pc[h] = "return" => StatusOf(h) = "stored"
  BY DEF Finished, PersistenceInv, Typed, StatusOf

\* A row that is stored, and a key that is taken, in terms of the table.
LEMMA StoredPart ==
    ASSUME PersistenceInv, NEW q \in Requests, NEW row \in PartsOf(q)
    PROVE  LET unit == UnitOf(q)
           IN  /\ KeyOf(row) \in DOMAIN unit.parts /\ KeyOf(row) \in Keys
               /\ row \in committed =>
                     StoredIn(committed, KeyOf(row)) = unit.parts[KeyOf(row)]
               /\ Taken(row, committed) => StoredIn(committed, KeyOf(row)) # Absent
<1>1. /\ KeyOf(row) \in DOMAIN UnitOf(q).parts /\ KeyOf(row) \in Keys
      /\ UnitOf(q).parts[KeyOf(row)] = row.content
  BY UnitShape
<1>2. row \in committed => StoredIn(committed, KeyOf(row)) = row.content
  BY FilesAreSound, StoredUnderKey
<1>3. ASSUME Taken(row, committed) PROVE StoredIn(committed, KeyOf(row)) # Absent
  <2>1. PICK other \in committed : SameKey(row, other)
    BY <1>3 DEF Taken
  <2>2. KeyOf(other) = KeyOf(row)
    BY <2>1 DEF SameKey, KeyOf
  <2>3. StoredIn(committed, KeyOf(other)) = other.content /\ other.content # Absent
    BY FilesAreSound, StoredUnderKey DEF PersistenceInv, StoredRows
  <2> QED
    BY <2>2, <2>3
<1> QED
  BY <1>1, <1>2, <1>3

LEMMA CheckRefines ==
    ASSUME PersistenceInv, NEW h \in Handles, NEW row, row \in PartsOf(request[h]),
           pc[h] \in {"check", "check_document"}, row = request[h].row \/ row \notin committed,
           Duplicate(h, row)
    PROVE  Store!Next
<1> DEFINE q == request[h]
           answer == IF row \in committed THEN "ok" ELSE "conflict"
<1>1. /\ q \in Requests /\ Taken(row, committed) /\ Finished(h, answer)
      /\ committed' = committed /\ UNCHANGED request
  BY DEF Duplicate, PersistenceInv, HandlesInv, Saving, database
<1>2. /\ StatusOf(h)' = answer /\ StatusOf(h) = "asked"
      /\ \A p \in Handles \ {h} : StatusOf(p)' = StatusOf(p)
  BY <1>1, Finishes
<1>3. UnitOf(q).key = KeyOf(q.row)
  BY <1>1, UnitShape
<1>4. CASE row \in committed
  <2>1. /\ UnitOf(q).key \in Keys
        /\ StoredIn(committed, UnitOf(q).key) = UnitOf(q).parts[UnitOf(q).key]
    BY <1>1, <1>3, <1>4, StoredPart
  <2> QED
    BY <1>1, <1>2, <1>4, <2>1, Answers
<1>5. CASE row \notin committed
  <2>1. /\ KeyOf(row) \in DOMAIN UnitOf(q).parts /\ KeyOf(row) \in Keys
        /\ StoredIn(committed, KeyOf(row)) # Absent
    BY <1>1, StoredPart
  <2> QED
    BY <1>1, <1>2, <1>5, <2>1, Answers
<1> QED
  BY <1>4, <1>5

\* A refused INSERT names a key that is taken in the file: the plan has every
\* row after those it refers to, and none twice.
LEMMA RefusedRefines ==
    ASSUME PersistenceInv, NEW h \in Handles, InsertRefused(h)
    PROVE  Store!Next
<1> DEFINE q == request[h]
           s == todo[h]
           row == Head(s)
           known == committed \cup written[h]
           answer == IF q.kind = "dataset" THEN "ok" ELSE "conflict"
<1>1. /\ pc[h] = "insert" /\ s # <<>> /\ Violates(row, q, known) /\ Finished(h, answer)
      /\ committed' = committed /\ UNCHANGED request /\ q \in Requests
  BY DEF InsertRefused, Rollback, PersistenceInv, HandlesInv, Saving
<1>2. /\ s \in Seq(RowsOf(q)) /\ written[h] \subseteq RowsOf(q) /\ written[h] \cap Range(s) = {}
      /\ Ordered(s, q, known)
  BY <1>1 DEF PersistenceInv, HandlesInv, Planned
<1>3. /\ StatusOf(h)' = answer /\ StatusOf(h) = "asked"
      /\ \A p \in Handles \ {h} : StatusOf(p)' = StatusOf(p)
  BY <1>1, Finishes
<1>4. /\ row \in RowsOf(q) /\ row \in Range(s)
      /\ row.table = "runs" => q.document \in known
      /\ row.table = "trace_events" => q.row \in known
  <2> HIDE DEF q, s, known
  <2>1. /\ Head(s) \in RowsOf(q) /\ Range(s) = {Head(s)} \cup Range(Tail(s))
        /\ Head(s).table = "runs" => q.document \in known
        /\ Head(s).table = "trace_events" => q.row \in known
    BY <1>1, <1>2, TailPlan
  <2> QED
    BY <2>1
<1> HIDE DEF q, s, row, known
<1>5. Taken(row, known)
  BY <1>1, <1>4 DEF Violates, Taken, SameKey
<1>6. PICK other \in committed : SameKey(row, other)
  <2>1. \A r \in written[h] : ~SameKey(row, r)
    BY <1>1, <1>2, <1>4, RowsShape
  <2> QED
    BY <1>5, <2>1 DEF Taken, known
<1>7. UnitOf(q).key = KeyOf(q.row) /\ q.row \in PartsOf(q)
  BY <1>1, UnitShape
<1>8. ASSUME q.kind = "dataset"
      PROVE  /\ UnitOf(q).key \in Keys
             /\ StoredIn(committed, UnitOf(q).key) = UnitOf(q).parts[UnitOf(q).key]
  <2>1. row = q.row /\ row.table = "datasets" /\ row.content = row.key
    BY <1>1, <1>4, <1>8, RequestShape DEF RowsOf, OwnRows, PartsOf
  <2>2. other.table = "datasets" /\ other.content = row.content /\ KeyOf(other) = KeyOf(row)
    BY <1>6, <2>1 DEF PersistenceInv, StoredRows, SameKey, KeyOf
  <2>3. StoredIn(committed, KeyOf(other)) = other.content
    BY FilesAreSound, StoredUnderKey
  <2>4. UnitOf(q).parts[KeyOf(q.row)] = q.row.content /\ KeyOf(q.row) \in Keys
    BY <1>1, <1>7, UnitShape
  <2> QED
    BY <1>7, <2>1, <2>2, <2>3, <2>4
<1>9. \E k \in DOMAIN UnitOf(q).parts : k \in Keys /\ StoredIn(committed, k) # Absent
  <2>1. CASE row.table # "trace_events"
    <3>1. row \in PartsOf(q) /\ Taken(row, committed)
      BY <1>1, <1>4, <1>6, <2>1, RowsShape DEF Taken
    <3> QED
      BY <1>1, <3>1, StoredPart
  <2>2. CASE row.table = "trace_events"
    <3>1. q.kind = "run" /\ row.key[1] = q.row.key /\ q.row.table = "runs"
      BY <1>1, <1>4, <2>2, RowsShape, TraceShape, RequestShape
    <3>2. \E run \in committed : run.table = "runs" /\ run.key = other.key[1]
      BY <1>6, <2>2 DEF PersistenceInv, RunsAreWhole, SameKey
    <3>3. Taken(q.row, committed)
      BY <1>6, <3>1, <3>2 DEF Taken, SameKey
    <3> QED
      BY <1>1, <1>7, <3>3, StoredPart
  <2> QED
    BY <2>1, <2>2
<1>10. CASE q.kind = "dataset"
  BY <1>1, <1>3, <1>8, <1>10, Answers DEF q
<1>11. CASE q.kind # "dataset"
  BY <1>1, <1>3, <1>9, <1>11, Answers DEF q
<1> QED
  BY <1>10, <1>11

LEMMA StepRefines ==
    ASSUME PersistenceInv, PersistenceInv', NEW h \in Handles, Step(h) \/ Abort(h) \/ Crash(h)
    PROVE  [Store!Next]_Store!vars
<1>0. /\ DOMAIN pc = Handles /\ DOMAIN reply = Handles
      /\ pc[h] # "idle" => request[h] \in Requests
      /\ pc[h] \in {"idle", "check", "check_document", "begin", "insert", "return"}
      /\ pc[h] = "return" => request[h].row \in committed
      /\ pc[h] = "check_document" => request[h].kind = "run"
  BY DEF PersistenceInv, Typed, HandlesInv, Saving
<1>1. CASE Check(h)
  <2>1. CASE Duplicate(h, request[h].row)
    BY <1>0, <1>1, <2>1, CheckRefines DEF Check, PartsOf
  <2>2. CASE ~Duplicate(h, request[h].row)
    <3>1. /\ committed' = committed /\ request' = request /\ reply' = reply
          /\ \E to \in {"check_document", "begin"} : pc' = [pc EXCEPT ![h] = to]
      BY <1>1, <2>2 DEF Check, database
    <3> QED
      BY <1>0, <1>1, <3>1, Stutters DEF Check, StatusOf
  <2> QED
    BY <2>1, <2>2
<1>2. CASE CheckDocument(h)
  <2>1. CASE Duplicate(h, request[h].document) /\ request[h].document \notin committed
    BY <1>0, <1>2, <2>1, CheckRefines DEF CheckDocument, PartsOf
  <2>2. CASE ~(Duplicate(h, request[h].document) /\ request[h].document \notin committed)
    <3>1. /\ committed' = committed /\ request' = request /\ reply' = reply
          /\ pc' = [pc EXCEPT ![h] = "begin"]
      BY <1>2, <2>2 DEF CheckDocument, database
    <3> QED
      BY <1>0, <1>2, <3>1, Stutters DEF CheckDocument, StatusOf
  <2> QED
    BY <2>1, <2>2
<1>3. CASE Begin(h)
  BY <1>0, <1>3, Stutters DEF Begin, StatusOf
<1>4. CASE Insert(h)
  BY <1>0, <1>4, Stutters DEF Insert, StatusOf, database
<1>5. CASE BeginTimesOut(h)
  <2>1. StatusOf(h)' = "locked" /\ StatusOf(h) = "asked"
        /\ \A p \in Handles \ {h} : StatusOf(p)' = StatusOf(p)
    BY <1>5, Finishes DEF BeginTimesOut
  <2> QED
    BY <1>5, <2>1, Answers DEF BeginTimesOut, database
<1>6. CASE InsertRefused(h)
  BY <1>6, RefusedRefines
<1>7. CASE Commit(h)
  BY <1>7, CommitStores
<1>8. CASE Return(h)
  <2>1. StatusOf(h)' = "ok" /\ StatusOf(h) = "stored"
        /\ \A p \in Handles \ {h} : StatusOf(p)' = StatusOf(p)
    BY <1>8, Finishes DEF Return
  <2>2. LET unit == UnitOf(request[h])
        IN  unit.key \in Keys /\ StoredIn(committed, unit.key) = unit.parts[unit.key]
    <3>1. request[h] \in Requests /\ request[h].row \in committed
      BY <1>0, <1>8 DEF Return
    <3> QED
      BY <3>1, StoredPart, UnitShape
  <2> QED
    BY <1>8, <2>1, <2>2, Answers DEF Return, database
<1>9. CASE Abort(h)
  <2>1. PICK answer \in {"locked", "failed"} : Finished(h, answer)
    BY <1>9 DEF Abort
  <2>2. StatusOf(h)' = answer /\ StatusOf(h) = "asked"
        /\ \A p \in Handles \ {h} : StatusOf(p)' = StatusOf(p)
    BY <1>9, <2>1, Finishes DEF Abort
  <2> QED
    BY <1>9, <2>2, Answers DEF Abort, Rollback
<1>10. CASE Crash(h)
  <2>1. StatusOf(h)' = "crashed" /\ StatusOf(h) \in {"asked", "stored"}
        /\ \A p \in Handles \ {h} : StatusOf(p)' = StatusOf(p)
    BY <1>0, <1>10, Finishes DEF Crash
  <2>2. committed' = committed /\ UNCHANGED request
    BY <1>10 DEF Crash, Rollback, database
  <2> QED
    BY <2>1, <2>2, Answers
<1> QED
  BY <1>1, <1>2, <1>3, <1>4, <1>5, <1>6, <1>7, <1>8, <1>9, <1>10 DEF Step

LEMMA NextRefines ==
    PersistenceInv /\ PersistenceInv' /\ [Next]_vars => [Store!Next]_Store!vars
<1> SUFFICES ASSUME PersistenceInv, PersistenceInv', [Next]_vars
             PROVE  [Store!Next]_Store!vars
  OBVIOUS
<1>1. ASSUME NEW r \in Readers, (\E run \in Runs : ReadRun(r, run)) \/ ReadStream(r)
      PROVE  UNCHANGED Store!vars
  BY <1>1, Stutters DEF ReadRun, ReadStream, database, local, StatusOf
<1>2. CASE UNCHANGED vars
  BY <1>2, Stutters DEF vars, database, local, StatusOf
<1> QED
  BY <1>1, <1>2, CallAsks, StepRefines DEF Next

\* Whatever the connections share, whatever is refused, times out or crashes:
\* every save of documents.py, datasets.py and runs.py is one atomic step of the
\* abstract store or none, and its answer says which.
THEOREM SpecImplementsStore == Spec => SavesAreAtomic
<1>1. Init => Store!Init
  BY InitRefines
<1>2. PersistenceInv /\ PersistenceInv' /\ [Next]_vars => [Store!Next]_Store!vars
  BY NextRefines
<1> QED
  BY <1>1, <1>2, SpecKeepsPersistenceInv, PTL DEF Spec, SavesAreAtomic, Store!Spec
=============================================================================
