-------------------------- MODULE MigrationsProofs --------------------------
(***************************************************************************)
(* Module Migrations, for every set of openers, every set of first         *)
(* versions and every number of opens: the file is always at a version,    *)
(* and who opened it works on the code's own.                              *)
(*                                                                         *)
(* A version number read once is stale as soon as it is read.  What makes  *)
(* the loop sound nevertheless is that a transaction whose CREATE TABLEs   *)
(* all succeeded found none of the tables: the migration had not been      *)
(* applied, and every one before it had, or its own loop had applied it.   *)
(***************************************************************************)
EXTENDS Migrations, FiniteSetTheorems, TLAPS

AppliedInOrder == \E n \in Nat : applied = 1 .. n

TablesAreOfApplied == tables = UNION {TablesOf(m) : m \in applied \cap Supported}

\* The tables a transaction has created so far were not in the file.
Migrating(o) ==
    pc[o] = "migrating" =>
        /\ writer = o
        /\ next[o] \in Supported
        /\ created[o] \in 0 .. Len(DATABASE_MIGRATIONS[next[o]])
        /\ \A i \in 1 .. created[o] : DATABASE_MIGRATIONS[next[o]][i] \notin tables

\* The versions a loop has passed are applied, by itself or by another.
Looping(o) ==
    pc[o] \in {"loop", "migrating"} =>
        /\ version[o] \in Nat /\ next[o] \in Nat \ {0}
        /\ 1 .. version[o] \subseteq applied
        /\ \A m \in Nat \ {0} : m < next[o] => m \in applied
        /\ applied \subseteq Supported

Opened(o) ==
    outcome[o] = "opened" => pc[o] = "ready" /\ applied = Supported

Typed ==
    /\ DOMAIN pc = Openers /\ DOMAIN version = Openers /\ DOMAIN next = Openers
    /\ DOMAIN created = Openers /\ DOMAIN outcome = Openers
    /\ \A o \in Openers : pc[o] # "migrating" => created[o] = 0

MigrationsInv ==
    /\ Typed /\ AppliedInOrder /\ TablesAreOfApplied
    /\ \A o \in Openers : Migrating(o) /\ Looping(o) /\ Opened(o)

-----------------------------------------------------------------------------
LEMMA Catalog ==
    /\ Supported = {1, 2} /\ CURRENT_DATABASE_VERSION = 2
    /\ \A m \in Supported :
          /\ Len(DATABASE_MIGRATIONS[m]) \in Nat \ {0}
          /\ TablesOf(m) = {DATABASE_MIGRATIONS[m][i] : i \in 1 .. Len(DATABASE_MIGRATIONS[m])}
<1>1. CURRENT_DATABASE_VERSION = 2
  BY DEF CURRENT_DATABASE_VERSION, DATABASE_MIGRATIONS
<1>2. Supported = {1, 2}
  BY <1>1 DEF Supported
<1>3. Len(DATABASE_MIGRATIONS[1]) = 5 /\ Len(DATABASE_MIGRATIONS[2]) = 1
  BY DEF DATABASE_MIGRATIONS
<1>4. /\ DOMAIN DATABASE_MIGRATIONS[1] = 1 .. Len(DATABASE_MIGRATIONS[1])
      /\ DOMAIN DATABASE_MIGRATIONS[2] = 1 .. Len(DATABASE_MIGRATIONS[2])
  BY DEF DATABASE_MIGRATIONS
<1>5. \A m \in {1, 2} :
        TablesOf(m) = {DATABASE_MIGRATIONS[m][i] : i \in 1 .. Len(DATABASE_MIGRATIONS[m])}
  BY <1>4 DEF TablesOf, Range
<1> QED
  BY <1>1, <1>2, <1>3, <1>5

LEMMA MaxOfPrefix == ASSUME NEW n \in Nat \ {0} PROVE Max(1 .. n) = n
  BY DEF Max

LEMMA Initially == Init => MigrationsInv
<1> SUFFICES ASSUME Init PROVE MigrationsInv
  OBVIOUS
<1>1. PICK v \in FirstVersions :
        /\ applied = 1 .. v
        /\ tables = UNION {TablesOf(m) : m \in (1 .. v) \cap Supported}
  BY DEF Init
<1>2. v \in Nat
  BY MigrationsAssumption
<1>3. AppliedInOrder /\ TablesAreOfApplied
  BY <1>1, <1>2 DEF AppliedInOrder, TablesAreOfApplied
<1>4. Typed
  BY DEF Init, Typed
<1>5. \A o \in Openers : Migrating(o) /\ Looping(o) /\ Opened(o)
  BY DEF Init, Migrating, Looping, Opened
<1> QED
  BY <1>3, <1>4, <1>5 DEF MigrationsInv

\* What a step leaves alone of an opener keeps that opener's part.
LEMMA Others ==
    ASSUME MigrationsInv, NEW p \in Openers,
           UNCHANGED file,
           pc[p] = "migrating" => UNCHANGED writer,
           pc'[p] = pc[p], version'[p] = version[p], next'[p] = next[p],
           created'[p] = created[p], outcome'[p] = outcome[p]
    PROVE  Migrating(p)' /\ Looping(p)' /\ Opened(p)'
  BY DEF MigrationsInv, Migrating, Looping, Opened, file

\* A step of one opener that leaves the file alone.
LEMMA FileKept ==
    ASSUME MigrationsInv, NEW o \in Openers, UNCHANGED file, Typed',
           \A p \in Openers \ {o} :
               /\ pc'[p] = pc[p] /\ version'[p] = version[p] /\ next'[p] = next[p]
               /\ created'[p] = created[p] /\ outcome'[p] = outcome[p],
           writer' = writer \/ writer = Nobody \/ writer = o,
           Migrating(o)' /\ Looping(o)' /\ Opened(o)'
    PROVE  MigrationsInv'
<1>1. ASSUME NEW p \in Openers \ {o}, pc[p] = "migrating" PROVE UNCHANGED writer
  BY <1>1, MigrationsAssumption DEF MigrationsInv, Migrating
<1>2. \A p \in Openers \ {o} : Migrating(p)' /\ Looping(p)' /\ Opened(p)'
  BY <1>1, Others
<1>3. AppliedInOrder' /\ TablesAreOfApplied'
  BY DEF MigrationsInv, AppliedInOrder, TablesAreOfApplied, file
<1> QED
  BY <1>2, <1>3 DEF MigrationsInv

\* Each step but Commit keeps the file; what it does to its own opener is in
\* the guard of the action.
LEMMA Inductive == MigrationsInv /\ [Next]_vars => MigrationsInv'
<1> SUFFICES ASSUME MigrationsInv, [Next]_vars PROVE MigrationsInv'
  OBVIOUS
<1> USE DEF Ended, Leave
<1>1. ASSUME NEW o \in Openers, Open(o) PROVE MigrationsInv'
  <2>1. Typed'
    BY <1>1 DEF Open, MigrationsInv, Typed
  <2>2. Migrating(o)' /\ Looping(o)' /\ Opened(o)'
    BY <1>1 DEF Open, MigrationsInv, Typed, Migrating, Looping, Opened
  <2> QED
    BY <1>1, <2>1, <2>2, FileKept DEF Open, file, MigrationsInv, Typed
<1>2. ASSUME NEW o \in Openers, SetJournal(o) PROVE MigrationsInv'
  <2>1. Typed'
    BY <1>2 DEF SetJournal, MigrationsInv, Typed
  <2>2. Migrating(o)' /\ Looping(o)' /\ Opened(o)'
    BY <1>2 DEF SetJournal, MigrationsInv, Typed, Migrating, Looping, Opened
  <2> QED
    BY <1>2, <2>1, <2>2, FileKept DEF SetJournal, file, MigrationsInv, Typed
<1>3. ASSUME NEW o \in Openers, ReadVersion(o) PROVE MigrationsInv'
  <2> DEFINE found == IF "schema_migrations" \notin tables THEN 0 ELSE Max(applied)
  <2>1. Typed'
    BY <1>3 DEF ReadVersion, MigrationsInv, Typed
  <2>2. found \in Nat /\ 1 .. found \subseteq applied
        /\ (found <= CURRENT_DATABASE_VERSION => applied \subseteq Supported)
    <3>1. PICK n \in Nat : applied = 1 .. n
      BY DEF MigrationsInv, AppliedInOrder
    <3>2. CASE n = 0
      <4>1. applied = {} /\ tables = {}
        BY <3>1, <3>2 DEF MigrationsInv, TablesAreOfApplied
      <4>2. found = 0
        BY <4>1
      <4> QED
        BY <4>1, <4>2
    <3>3. CASE n # 0 /\ "schema_migrations" \in tables
      <4>1. found = n
        BY <3>1, <3>3, MaxOfPrefix
      <4> HIDE DEF found
      <4>2. found <= CURRENT_DATABASE_VERSION => applied \subseteq Supported
        BY <3>1, <4>1, Catalog
      <4> QED
        BY <3>1, <4>1, <4>2
    <3>4. CASE n # 0 /\ "schema_migrations" \notin tables
      <4>1. 1 \in applied \cap Supported
        BY <3>1, <3>4, Catalog
      <4>2. DATABASE_MIGRATIONS[1][1] = "schema_migrations"
        BY DEF DATABASE_MIGRATIONS
      <4>3. "schema_migrations" \in TablesOf(1)
        BY <4>1, <4>2, Catalog
      <4> QED
        BY <3>4, <4>1, <4>3 DEF MigrationsInv, TablesAreOfApplied
    <3> QED
      BY <3>2, <3>3, <3>4
  <2>3. /\ UNCHANGED file
        /\ version'[o] = found /\ next'[o] = 1
        /\ \/ pc'[o] = "closed" /\ outcome'[o] = "unsupported_database_version"
           \/ /\ found <= CURRENT_DATABASE_VERSION /\ pc'[o] = "loop"
              /\ outcome'[o] = outcome[o] /\ pc[o] = "version"
    <3> HIDE DEF found
    <3>1. /\ pc[o] = "version" /\ UNCHANGED file
          /\ version' = [version EXCEPT ![o] = found]
          /\ next' = [next EXCEPT ![o] = 1]
          /\ IF found > CURRENT_DATABASE_VERSION
             THEN Ended(o, "unsupported_database_version")
             ELSE pc' = [pc EXCEPT ![o] = "loop"] /\ UNCHANGED outcome
      BY <1>3 DEF ReadVersion, found
    <3> QED
      BY <2>2, <3>1, Catalog DEF MigrationsInv, Typed
  <2> HIDE DEF found
  <2>4. Migrating(o)' /\ Looping(o)' /\ Opened(o)'
    BY <2>2, <2>3 DEF MigrationsInv, Migrating, Looping, Opened, file
  <2> QED
    BY <1>3, <2>1, <2>4, FileKept DEF ReadVersion, file, MigrationsInv, Typed
<1>4. ASSUME NEW o \in Openers, Skip(o) PROVE MigrationsInv'
  <2>1. Typed'
    BY <1>4 DEF Skip, MigrationsInv, Typed
  <2>2. Migrating(o)' /\ Opened(o)'
    BY <1>4 DEF Skip, MigrationsInv, Typed, Migrating, Opened, file
  <2>3. Looping(o)'
    BY <1>4 DEF Skip, MigrationsInv, Typed, Looping, file
  <2> QED
    BY <1>4, <2>1, <2>2, <2>3, FileKept DEF Skip, file, MigrationsInv, Typed
<1>5. ASSUME NEW o \in Openers, Begin(o) PROVE MigrationsInv'
  <2>1. Typed'
    BY <1>5 DEF Begin, MigrationsInv, Typed
  <2>2. Migrating(o)' /\ Looping(o)' /\ Opened(o)'
    BY <1>5, Catalog DEF Begin, MigrationsInv, Typed, Migrating, Looping, Opened, file
  <2> QED
    BY <1>5, <2>1, <2>2, FileKept DEF Begin, file, MigrationsInv, Typed
<1>6. ASSUME NEW o \in Openers, BeginTimesOut(o) PROVE MigrationsInv'
  <2>1. Typed'
    BY <1>6 DEF BeginTimesOut, MigrationsInv, Typed
  <2>2. Migrating(o)' /\ Looping(o)' /\ Opened(o)'
    BY <1>6 DEF BeginTimesOut, MigrationsInv, Typed, Migrating, Looping, Opened
  <2> QED
    BY <1>6, <2>1, <2>2, FileKept DEF BeginTimesOut, file, MigrationsInv, Typed
<1>7. ASSUME NEW o \in Openers, Ready(o) PROVE MigrationsInv'
  <2>1. Typed'
    BY <1>7 DEF Ready, MigrationsInv, Typed
  <2>2. applied = Supported
    BY <1>7, Catalog DEF Ready, MigrationsInv, Looping
  <2>3. Migrating(o)' /\ Looping(o)' /\ Opened(o)'
    BY <1>7, <2>2 DEF Ready, MigrationsInv, Typed, Migrating, Looping, Opened, file
  <2> QED
    BY <1>7, <2>1, <2>3, FileKept DEF Ready, file, MigrationsInv, Typed
<1>8. ASSUME NEW o \in Openers, CreateTable(o) PROVE MigrationsInv'
  <2>1. Typed'
    BY <1>8 DEF CreateTable, MigrationsInv, Typed
  <2>2. Migrating(o)'
    BY <1>8 DEF CreateTable, MigrationsInv, Typed, Migrating, file
  <2>3. Looping(o)' /\ Opened(o)'
    BY <1>8 DEF CreateTable, MigrationsInv, Looping, Opened, file
  <2> QED
    BY <1>8, <2>1, <2>2, <2>3, FileKept DEF CreateTable, file, MigrationsInv, Typed
<1>9. ASSUME NEW o \in Openers, TableExists(o) PROVE MigrationsInv'
  <2>1. Typed'
    BY <1>9 DEF TableExists, MigrationsInv, Typed
  <2>2. Migrating(o)' /\ Looping(o)' /\ Opened(o)'
    BY <1>9 DEF TableExists, MigrationsInv, Typed, Migrating, Looping, Opened
  <2> QED
    BY <1>9, <2>1, <2>2, FileKept DEF TableExists, file, MigrationsInv, Typed, Migrating
<1>10. ASSUME NEW o \in Openers, Aborted(o) PROVE MigrationsInv'
  <2>1. Typed'
    BY <1>10 DEF Aborted, MigrationsInv, Typed
  <2>2. Migrating(o)' /\ Looping(o)' /\ Opened(o)'
    BY <1>10 DEF Aborted, MigrationsInv, Typed, Migrating, Looping, Opened
  <2> QED
    BY <1>10, <2>1, <2>2, FileKept DEF Aborted, file, MigrationsInv, Typed, Migrating
<1>11. ASSUME NEW o \in Openers, Crash(o) PROVE MigrationsInv'
  <2>1. Typed'
    BY <1>11 DEF Crash, MigrationsInv, Typed
  <2>2. Migrating(o)' /\ Looping(o)' /\ Opened(o)'
    BY <1>11 DEF Crash, MigrationsInv, Typed, Migrating, Looping, Opened
  <2> QED
    BY <1>11, <2>1, <2>2, FileKept DEF Crash, file, MigrationsInv, Typed
<1>12. ASSUME NEW o \in Openers, Commit(o) PROVE MigrationsInv'
  <2> DEFINE k == next[o]
  <2>1. PICK n \in Nat : applied = 1 .. n
    BY DEF MigrationsInv, AppliedInOrder
  <2>2. /\ pc[o] = "migrating" /\ writer = o /\ k \in Supported /\ applied \subseteq Supported
        /\ created[o] = Len(DATABASE_MIGRATIONS[k])
        /\ \A i \in 1 .. created[o] : DATABASE_MIGRATIONS[k][i] \notin tables
        /\ \A m \in Nat \ {0} : m < k => m \in applied
    BY <1>12 DEF Commit, MigrationsInv, Migrating, Looping
  <2>3. applied' = applied \cup {k} /\ tables' = tables \cup TablesOf(k)
    BY <1>12 DEF Commit
  \* None of its tables were there, so the migration had not been applied.
  <2>4. k \notin applied
    <3>1. 1 \in 1 .. created[o] /\ DATABASE_MIGRATIONS[k][1] \in TablesOf(k)
      BY <2>2, Catalog
    <3>2. DATABASE_MIGRATIONS[k][1] \notin tables
      BY <2>2, <3>1
    <3> QED
      BY <2>2, <3>1, <3>2 DEF MigrationsInv, TablesAreOfApplied
  <2>5. k = n + 1
    BY <2>1, <2>2, <2>4, Catalog
  <2>6. applied' = 1 .. (n + 1) /\ applied' \subseteq Supported
    BY <2>1, <2>2, <2>3, <2>5
  <2>7. AppliedInOrder'
    BY <2>6 DEF AppliedInOrder
  <2>8. TablesAreOfApplied'
    <3>1. applied' \cap Supported = (applied \cap Supported) \cup {k}
      BY <2>2, <2>3
    <3> QED
      BY <2>3, <3>1 DEF MigrationsInv, TablesAreOfApplied
  <2>9. Typed'
    BY <1>12 DEF Commit, MigrationsInv, Typed
  <2>10. Migrating(o)' /\ Looping(o)' /\ Opened(o)'
    <3>1. pc'[o] = "loop" /\ outcome'[o] = outcome[o] /\ version'[o] = version[o]
          /\ next'[o] = k + 1
      BY <1>12 DEF Commit, MigrationsInv, Typed
    <3>2. version[o] \in Nat /\ 1 .. version[o] \subseteq applied /\ k \in Nat
      BY <2>2, Catalog DEF MigrationsInv, Looping
    <3>3. \A m \in Nat \ {0} : m < k + 1 => m \in applied'
      BY <2>2, <2>3, <3>2
    <3>4. outcome[o] # "opened"
      BY <2>2 DEF MigrationsInv, Opened
    <3> HIDE DEF k
    <3> QED
      BY <2>3, <2>6, <3>1, <3>2, <3>3, <3>4 DEF Migrating, Looping, Opened
  <2>11. ASSUME NEW p \in Openers \ {o} PROVE Migrating(p)' /\ Looping(p)' /\ Opened(p)'
    <3>1. /\ pc'[p] = pc[p] /\ version'[p] = version[p] /\ next'[p] = next[p]
          /\ outcome'[p] = outcome[p]
      BY <1>12 DEF Commit, MigrationsInv, Typed
    <3>2. pc[p] # "migrating"
      BY <2>2, <2>11 DEF MigrationsInv, Migrating
    <3>3. applied \subseteq applied' /\ (applied = Supported => applied' = Supported)
      BY <2>2, <2>3
    <3> QED
      BY <2>6, <3>1, <3>2, <3>3 DEF MigrationsInv, Migrating, Looping, Opened
  <2> QED
    BY <2>7, <2>8, <2>9, <2>10, <2>11 DEF MigrationsInv
<1>13. CASE UNCHANGED vars
  BY <1>13 DEF vars, file, own, MigrationsInv, Typed, AppliedInOrder, TablesAreOfApplied,
               Migrating, Looping, Opened
<1> QED
  BY <1>1, <1>2, <1>3, <1>4, <1>5, <1>6, <1>7, <1>8, <1>9, <1>10, <1>11, <1>12, <1>13
  DEF Next, Step

-----------------------------------------------------------------------------
\* The strengthening holds of every behaviour of the openers.
THEOREM SpecKeepsMigrationsInv == Spec => []MigrationsInv
<1>1. Init => MigrationsInv
  BY Initially
<1>2. MigrationsInv /\ [Next]_vars => MigrationsInv'
  BY Inductive
<1> QED
  BY <1>1, <1>2, PTL DEF Spec

\* database.py, _apply_migrations: whatever opens, aborts and crashes there are,
\* the committed file has the tables of the versions it records, all of them
\* and no others, and no version without those before it.
THEOREM SpecKeepsFileAtAVersion == Spec => []FileIsAtAVersion
<1>1. MigrationsInv => FileIsAtAVersion
  <2> SUFFICES ASSUME MigrationsInv PROVE FileIsAtAVersion
    OBVIOUS
  <2>1. PICK n \in Nat : applied = 1 .. n
    BY DEF MigrationsInv, AppliedInOrder
  <2>2. Cardinality(applied) = n
    BY <2>1, FS_Interval
  <2> QED
    BY <2>1, <2>2 DEF FileIsAtAVersion, MigrationsInv, TablesAreOfApplied
<1> QED
  BY <1>1, SpecKeepsMigrationsInv, PTL

\* Database.__init__: an open that returned a handle returned it on a file of
\* the code's own version, for as long as the handle is the opener's last.
THEOREM SpecKeepsOpenedCurrent == Spec => []OpenedIsCurrent
<1>1. MigrationsInv => OpenedIsCurrent
  <2>1. Max(Supported) = CURRENT_DATABASE_VERSION
    <3>1. CURRENT_DATABASE_VERSION \in Nat \ {0}
      BY Catalog
    <3> QED
      BY <3>1, MaxOfPrefix DEF Supported
  <2> QED
    BY <2>1 DEF MigrationsInv, Opened, OpenedIsCurrent
<1> QED
  BY <1>1, SpecKeepsMigrationsInv, PTL
=============================================================================
