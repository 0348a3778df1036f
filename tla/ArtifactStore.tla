--------------------------- MODULE ArtifactStore ---------------------------
(***************************************************************************)
(* What the store of quantize/persistence promises its callers, whatever   *)
(* connections they share and whatever fails: artifacts are immutable, a   *)
(* save takes effect at one point or not at all, with everything that      *)
(* belongs to it, and the answer does not lie about that.                  *)
(*                                                                         *)
(* A unit is what one save is about: the parts it stores together, as a    *)
(* function from keys to contents (never Absent), and the key of the       *)
(* artifact saved, which is one of them.                                   *)
(***************************************************************************)
EXTENDS Functions

CONSTANTS Clients, Keys, Units,
          Absent  \* the content of a key nothing is stored under

NoUnit == [key |-> Absent, parts |-> <<>>]

VARIABLES table,   \* what is stored
          asked,   \* client -> the unit of its last save
          status   \* client -> asked, stored, or the answer to its last save

vars == <<table, asked, status>>

Failures == {"locked", "failed"}  \* the answers that promise nothing was stored

Init ==
    /\ table = [k \in Keys |-> Absent]
    /\ asked = [c \in Clients |-> NoUnit]
    /\ status = [c \in Clients |-> "idle"]

Ask(c, u) ==
    /\ status[c] \notin {"asked", "stored"}
    /\ asked' = [asked EXCEPT ![c] = u]
    /\ status' = [status EXCEPT ![c] = "asked"]
    /\ UNCHANGED table

\* The unit appears as a whole, over nothing but what is absent or the same.
Store(c) ==
    LET parts == asked[c].parts
    IN  /\ status[c] = "asked"
        /\ table[asked[c].key] = Absent
        /\ \A k \in DOMAIN parts : table[k] \in {Absent, parts[k]}
        /\ table' = [k \in Keys |-> IF k \in DOMAIN parts THEN parts[k] ELSE table[k]]
        /\ status' = [status EXCEPT ![c] = "stored"]
        /\ UNCHANGED asked

\* An acknowledged artifact is stored as it was given; a conflict names a key
\* that is taken; a failure stored nothing; a client that dies may not know.
Answer(c, answer) ==
    LET unit == asked[c]
    IN  /\ status[c] \in {"asked", "stored"}
        /\ \/ answer = "ok" /\ table[unit.key] = unit.parts[unit.key]
           \/ answer = "conflict" /\ status[c] = "asked"
                 /\ \E k \in DOMAIN unit.parts : table[k] # Absent
           \/ answer \in Failures /\ status[c] = "asked"
           \/ answer = "crashed"
        /\ status' = [status EXCEPT ![c] = answer]
        /\ UNCHANGED <<table, asked>>

Next ==
    \E c \in Clients :
        \/ \E u \in Units : Ask(c, u)
        \/ Store(c)
        \/ \E answer \in {"ok", "conflict", "crashed"} \cup Failures : Answer(c, answer)

Spec == Init /\ [][Next]_vars
=============================================================================
