---------------------------- MODULE Persistence ----------------------------
(***************************************************************************)
(* Saves and loads over one SQLite file (quantize/persistence/database.py, *)
(* documents.py, datasets.py and runs.py), by several handles at once:     *)
(* every API request opens a Database of its own.                          *)
(*                                                                         *)
(* A save looks for a duplicate outside any transaction, then inserts its  *)
(* rows one statement at a time in a BEGIN IMMEDIATE transaction.  SQLite  *)
(* (in WAL mode) is modelled by what the wrapper relies on: a query sees   *)
(* the committed rows, one connection at a time is the writer, COMMIT      *)
(* makes all rows of a transaction visible, and whatever ends a            *)
(* transaction otherwise leaves none of them.                              *)
(***************************************************************************)
EXTENDS Integers, FiniteSets, Sequences, Functions

CONSTANTS Handles,               \* the connections that save
          Readers,               \* the connections that read a trace
          Strategies, Components, Datasets, Runs,  \* the keys of the tables
          Contents,              \* the digests of what is saved
          Events,                \* the trace events of a run
          MaxCalls,              \* bound: the saves asked for in all
          Nobody, Absent

ASSUME PersistenceAssumption ==
    /\ Events \in Nat /\ MaxCalls \in Nat
    /\ Nobody \notin Handles /\ Absent \notin Contents \cup Datasets

Row(table, key, content) == [table |-> table, key |-> key, content |-> content]

\* save and save_run are called with a document or a definition, a dataset, or
\* a run with its document; a dataset's key is the digest of its content.
DocumentRequests ==
    [kind : {"document"}, row : {Row("strategies", k, c) : k \in Strategies, c \in Contents}]

ComponentRequests ==
    [kind : {"document"}, row : {Row("components", k, c) : k \in Components, c \in Contents}]

DatasetRequests == [kind : {"dataset"}, row : {Row("datasets", k, k) : k \in Datasets}]

RunRequests ==
    [kind : {"run"}, row : {Row("runs", r, c) : r \in Runs, c \in Contents},
     document : {Row("strategies", k, c) : k \in Strategies, c \in Contents}]

Requests == DocumentRequests \cup ComponentRequests \cup DatasetRequests \cup RunRequests

TraceRow(row, seq) == Row("trace_events", <<row.key, seq>>, row.content)

TraceRows(row) == [seq \in 1 .. Events |-> TraceRow(row, seq)]

VARIABLES
    committed,  \* the rows of the database file
    writer,     \* the handle that holds the write lock, or Nobody
    pc, request, calls,
    todo,       \* handle -> the INSERTs its transaction has left
    written,    \* handle -> the rows of its open transaction
    reply,      \* handle -> how its last save ended
    reader      \* reader -> [pc, row, answer] of load_trace

database == <<committed, writer>>
local    == <<pc, request, calls, todo, written, reply>>
vars     == <<database, local, reader>>

NoRequest == [kind |-> "none", row |-> Row("none", Nobody, Absent)]

Init ==
    /\ committed = {} /\ writer = Nobody
    /\ pc = [h \in Handles |-> "idle"]
    /\ request = [h \in Handles |-> NoRequest]
    /\ calls = 0
    /\ todo = [h \in Handles |-> <<>>]
    /\ written = [h \in Handles |-> {}]
    /\ reply = [h \in Handles |-> "idle"]
    /\ reader = [r \in Readers |-> [pc |-> "idle", row |-> NoRequest.row, answer |-> "none"]]

-----------------------------------------------------------------------------
SameKey(row, other) == row.table = other.table /\ row.key = other.key

Taken(row, rows) == \E other \in rows : SameKey(row, other)

\* PRIMARY KEY and FOREIGN KEY constraints, over what the connection sees.
Violates(row, q, rows) ==
    \/ Taken(row, rows)
    \/ row.table = "runs" /\ ~Taken(q.document, rows)
    \/ row.table = "trace_events" /\ ~Taken(q.row, rows)

Finished(h, answer) ==
    /\ pc' = [pc EXCEPT ![h] = "idle"]
    /\ reply' = [reply EXCEPT ![h] = answer]

Call(h, q) ==
    /\ pc[h] = "idle" /\ calls < MaxCalls
    /\ request' = [request EXCEPT ![h] = q]
    /\ calls' = calls + 1
    /\ pc' = [pc EXCEPT ![h] = "check"]
    /\ reply' = [reply EXCEPT ![h] = "pending"]
    /\ UNCHANGED <<database, todo, written, reader>>

\* The duplicate check: an identical artifact ends the save, another one under
\* the same key is a conflict.
Duplicate(h, row) ==
    /\ Taken(row, committed)
    /\ Finished(h, IF row \in committed THEN "ok" ELSE "conflict")
    /\ UNCHANGED <<database, request, calls, todo, written, reader>>

Check(h) ==
    LET q == request[h]
    IN  /\ pc[h] = "check"
        /\ \/ Duplicate(h, q.row)
           \/ /\ ~Taken(q.row, committed)
              /\ pc' = [pc EXCEPT ![h] = IF q.kind = "run" THEN "check_document" ELSE "begin"]
              /\ todo' = [todo EXCEPT ![h] = <<q.row>>]
              /\ UNCHANGED <<database, request, calls, written, reply, reader>>

\* Mutant: the strategy of a new run is expected to be stored already.
CheckDocumentAssumesStored(h) ==
    /\ pc[h] = "check_document"
    /\ pc' = [pc EXCEPT ![h] = "begin"]
    /\ todo' = [todo EXCEPT ![h] = @ \o TraceRows(request[h].row)]
    /\ UNCHANGED <<database, request, calls, written, reply, reader>>

\* save_run, prepare_save of its strategy: a new strategy joins the transaction,
\* an identical one needs no INSERT, a different one is a conflict.
CheckDocument(h) ==
    LET q == request[h]
    IN  /\ pc[h] = "check_document"
        /\ \/ /\ Taken(q.document, committed) /\ q.document \notin committed
              /\ Duplicate(h, q.document)
           \/ /\ Taken(q.document, committed) => q.document \in committed
              /\ pc' = [pc EXCEPT ![h] = "begin"]
              /\ todo' = [todo EXCEPT ![h] =
                    (IF q.document \in committed THEN <<>> ELSE <<q.document>>)
                    \o @ \o TraceRows(q.row)]
              /\ UNCHANGED <<database, request, calls, written, reply, reader>>

-----------------------------------------------------------------------------
\* Database.transaction.
Begin(h) ==
    /\ pc[h] = "begin" /\ writer = Nobody
    /\ writer' = h
    /\ pc' = [pc EXCEPT ![h] = "insert"]
    /\ UNCHANGED <<committed, request, calls, todo, written, reply, reader>>

\* The busy timeout runs out while another connection is the writer.
BeginTimesOut(h) ==
    /\ pc[h] = "begin" /\ writer \notin {h, Nobody}
    /\ Finished(h, "locked")
    /\ todo' = [todo EXCEPT ![h] = <<>>]
    /\ UNCHANGED <<database, request, calls, written, reader>>

\* Mutant: an exception in the body leaves the connection in its transaction.
RollbackForgotten(h) ==
    /\ todo' = [todo EXCEPT ![h] = <<>>]
    /\ written' = [written EXCEPT ![h] = {}]
    /\ UNCHANGED database

\* Every failure path leaves the handle out of a transaction.
Rollback(h) ==
    /\ writer' = Nobody
    /\ todo' = [todo EXCEPT ![h] = <<>>]
    /\ written' = [written EXCEPT ![h] = {}]
    /\ UNCHANGED committed

\* Mutant: every statement is its own transaction.
InsertAutocommits(h) ==
    LET row == Head(todo[h])
    IN  /\ pc[h] = "insert" /\ todo[h] # <<>>
        /\ ~Violates(row, request[h], committed)
        /\ committed' = committed \cup {row}
        /\ todo' = [todo EXCEPT ![h] = Tail(@)]
        /\ UNCHANGED <<writer, pc, request, calls, written, reply, reader>>

Insert(h) ==
    LET row == Head(todo[h])
    IN  /\ pc[h] = "insert" /\ todo[h] # <<>>
        /\ ~Violates(row, request[h], committed \cup written[h])
        /\ written' = [written EXCEPT ![h] = @ \cup {row}]
        /\ todo' = [todo EXCEPT ![h] = Tail(@)]
        /\ UNCHANGED <<database, pc, request, calls, reply, reader>>

\* IntegrityViolationError: another handle got there after the duplicate check.
\* For a dataset that is the same content; a document or a run is refused.
InsertRefused(h) ==
    /\ pc[h] = "insert" /\ todo[h] # <<>>
    /\ Violates(Head(todo[h]), request[h], committed \cup written[h])
    /\ Rollback(h)
    /\ Finished(h, IF request[h].kind = "dataset" THEN "ok" ELSE "conflict")
    /\ UNCHANGED <<request, calls, reader>>

\* A statement or the COMMIT fails: busy, the disk, or an exception in the body.
Abort(h) ==
    /\ pc[h] = "insert"
    /\ Rollback(h)
    /\ \E answer \in {"locked", "failed"} : Finished(h, answer)
    /\ UNCHANGED <<request, calls, reader>>

Commit(h) ==
    /\ pc[h] = "insert" /\ todo[h] = <<>>
    /\ committed' = committed \cup written[h]
    /\ writer' = Nobody
    /\ written' = [written EXCEPT ![h] = {}]
    /\ pc' = [pc EXCEPT ![h] = "return"]
    /\ UNCHANGED <<request, calls, todo, reply, reader>>

Return(h) ==
    /\ pc[h] = "return"
    /\ Finished(h, "ok")
    /\ UNCHANGED <<database, request, calls, todo, written, reader>>

\* The process of the handle dies: what it had not committed is gone, and so is
\* its lock.
Crash(h) ==
    /\ pc[h] # "idle"
    /\ IF writer = h THEN Rollback(h)
       ELSE /\ todo' = [todo EXCEPT ![h] = <<>>]
            /\ UNCHANGED <<database, written>>
    /\ Finished(h, "crashed")
    /\ UNCHANGED <<request, calls, reader>>

-----------------------------------------------------------------------------
\* load_trace: the run row first, the stream afterwards, in two queries.
Stream(row) ==
    {other \in committed : other.table = "trace_events" /\ other.key[1] = row.key}

ReadRun(r, run) ==
    LET found == {row \in committed : row.table = "runs" /\ row.key = run}
    IN  /\ reader[r].pc = "idle"
        /\ \/ /\ found = {}
              /\ reader' = [reader EXCEPT ![r] = [@ EXCEPT !.answer = "not_found"]]
           \/ /\ \E row \in found :
                    reader' = [reader EXCEPT ![r] = [pc |-> "stream", row |-> row,
                                                     answer |-> "none"]]
        /\ UNCHANGED <<database, local>>

ReadStream(r) ==
    LET row == reader[r].row
        whole == Stream(row) = Range(TraceRows(row))
    IN  /\ reader[r].pc = "stream"
        /\ reader' = [reader EXCEPT ![r] = [pc |-> "idle", row |-> row,
                                            answer |-> IF whole THEN "ok" ELSE "corrupt"]]
        /\ UNCHANGED <<database, local>>

-----------------------------------------------------------------------------
Step(h) ==
    \/ Check(h) \/ CheckDocument(h) \/ Begin(h) \/ BeginTimesOut(h)
    \/ Insert(h) \/ InsertRefused(h) \/ Commit(h) \/ Return(h)

Next ==
    \/ \E h \in Handles : (\E q \in Requests : Call(h, q)) \/ Step(h) \/ Abort(h) \/ Crash(h)
    \/ \E r \in Readers : (\E run \in Runs : ReadRun(r, run)) \/ ReadStream(r)

\* A thread that has started a save goes on with it.
Spec == Init /\ [][Next]_vars /\ \A h \in Handles : WF_vars(Step(h))

-----------------------------------------------------------------------------
\* A crash yields nothing or everything: a run is stored with every event of
\* its trace and with a strategy, and no trace without its run.
RunsAreWhole ==
    /\ \A row \in committed : row.table = "runs" =>
          /\ Stream(row) = Range(TraceRows(row))
          /\ \E other \in committed : other.table = "strategies"
    /\ \A row \in committed : row.table = "trace_events" =>
          \E run \in committed : run.table = "runs" /\ run.key = row.key[1]

\* A trace read in two queries beside any number of saves is complete or not
\* there: what the loader calls corruption never comes from a save.
NoTornTrace == \A r \in Readers : reader[r].answer # "corrupt"

\* Every save is answered: no failure leaves a handle in a transaction, which
\* would keep itself and every other writer out for good.
SavesReturn == \A h \in Handles : pc[h] # "idle" ~> pc[h] = "idle"

-----------------------------------------------------------------------------
\* The store the handles implement together.  A run is stored once its row and
\* its whole stream are; a stream without one, or a part of it, is torn.
\* A key of the store is a table with a key of it.
Keys == ({"strategies"} \X Strategies) \cup ({"components"} \X Components)
        \cup ({"datasets"} \X Datasets) \cup ({"runs"} \X Runs)

KeyOf(row) == <<row.table, row.key>>

\* A file without that row has the key absent; a run needs its whole stream.
StoredIn(file, k) ==
    LET rows   == {row \in file : row.table = k[1] /\ row.key = k[2]}
        stream == {row \in file : row.table = "trace_events" /\ row.key[1] = k[2]}
        whole  == UNION {Range(TraceRows(row)) : row \in rows}
    IN  IF Cardinality(rows) > 1 \/ (k[1] = "runs" /\ stream # whole) THEN "torn"
        ELSE IF rows = {} THEN Absent ELSE (CHOOSE row \in rows : TRUE).content

PartsOf(q) == IF q.kind = "run" THEN {q.row, q.document} ELSE {q.row}

UnitOf(q) ==
    IF q.kind = "none" THEN [key |-> Absent, parts |-> <<>>]
    ELSE [key   |-> KeyOf(q.row),
          parts |-> [k \in {KeyOf(row) : row \in PartsOf(q)} |->
                       (CHOOSE row \in PartsOf(q) : KeyOf(row) = k).content]]

StatusOf(h) ==
    IF pc[h] = "idle" THEN reply[h] ELSE IF pc[h] = "return" THEN "stored" ELSE "asked"

Store == INSTANCE ArtifactStore WITH
    Clients <- Handles,
    Units <- {UnitOf(q) : q \in Requests},
    table <- [k \in Keys |-> StoredIn(committed, k)],
    asked <- [h \in Handles |-> UnitOf(request[h])],
    status <- [h \in Handles |-> StatusOf(h)]

\* Refinement: every save is one atomic step of the store, or none.
SavesAreAtomic == Store!Spec

-----------------------------------------------------------------------------
\* documents.py:4-6, "Saves are idempotent for byte-identical content and a
\* structured artifact_conflict for divergent content under an existing key".
ConflictsAreDivergent ==
    \A h \in Handles : reply[h] = "conflict" =>
        \E row \in committed : /\ SameKey(row, request[h].row) /\ row # request[h].row
                               \/ /\ request[h].kind = "run"
                                  /\ SameKey(row, request[h].document) /\ row # request[h].document

=============================================================================
