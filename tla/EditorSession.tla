--------------------------- MODULE EditorSession ---------------------------
(***************************************************************************)
(* The shell of the web editor (web/src/App.tsx) with its document         *)
(* (document/store.ts) and the panels that ask the server: opens, saves,   *)
(* validations, extractions and runs are answered in any order, after the  *)
(* user has edited, left or opened another document.                       *)
(*                                                                         *)
(* A document object is the opening it belongs to, its version and the     *)
(* edits that it has: two are equal when they are the same object.  React  *)
(* renders and runs the effects of an edit before the next answer.         *)
(***************************************************************************)
EXTENDS DebugLoop, FiniteSets, Sequences

CONSTANTS Limits   \* how much a session does: opens, edits, versions, mounts, checks, runs

VARIABLES
    view, tab,
    doc, savedDoc,
    saving,
    openTicket,
    opens,       \* the tickets of the opens in flight
    saves,       \* the saves in flight: [generation, captured, retry]
    stored,      \* what the server has confirmed of the document that is open
    extraction,  \* the document captured by the extraction in flight, if any
    panels,      \* per mount of the Problems panel, its refs: [key, ticket]
    checks,      \* the validations in flight: [mount, key, ticket]
    validation,  \* the verdict held: the key it is of, and the key it is stamped with
    submits,     \* runs in flight
    made,        \* the edits made since the document was opened
    limits

editorVars == <<view, tab, doc, savedDoc, saving, openTicket, opens, saves, stored, extraction,
                panels, checks, validation, submits, made, limits>>
sessionVars == <<editorVars, loopVars>>

Nothing == [state |-> "nothing"]

Opened(ticket) == [opened |-> ticket, version |-> 1, edits |-> {}]

\* semanticKey: the document without its moves.
KeyOf(document) ==
    [document EXCEPT !.edits = {edit \in document.edits : edit.kind = "semantic"}]

Mounted == view = "editor" /\ tab = "problems"
Mount == Len(panels)
NewPanel == [key |-> KeyOf(doc), ticket |-> 0]

SessionInit ==
    /\ view = "home" /\ tab = "problems" /\ doc = Opened(0) /\ savedDoc = Nothing
    /\ saving = FALSE /\ openTicket = 0 /\ opens = {} /\ saves = {} /\ stored = {}
    /\ extraction = Nothing /\ panels = <<>> /\ checks = {} /\ validation = Nothing
    /\ submits = 0 /\ made = {} /\ limits \in Limits
    /\ LoopInit

\* What a change of the document entails: the effects on its key run in the
\* mounted panel and in the shell.
Becomes(document) ==
    /\ doc' = document
    /\ panels' = IF Mounted THEN [panels EXCEPT ![Mount].key = KeyOf(document)] ELSE panels
    /\ validation' = IF KeyOf(document) = KeyOf(doc) THEN validation ELSE Nothing

-----------------------------------------------------------------------------
(* Opening.                                                                *)

\* enterEditorWith, after the document has been replaced.
Enter(document) ==
    /\ doc' = document /\ savedDoc' = document /\ made' = {} /\ stored' = {}
    /\ saving' = FALSE /\ view' = "editor" /\ tab' = "problems"
    /\ panels' = Append(panels, [key |-> KeyOf(document), ticket |-> 0])
    /\ validation' = Nothing
    /\ Select(NoRun)

New ==
    /\ view = "home" /\ openTicket < limits.opens
    /\ openTicket' = openTicket + 1
    /\ Enter(Opened(openTicket'))
    /\ UNCHANGED <<opens, saves, extraction, checks, submits, limits>>

Open ==
    /\ view = "home" /\ openTicket < limits.opens
    /\ openTicket' = openTicket + 1 /\ opens' = opens \cup {openTicket'}
    /\ UNCHANGED <<view, tab, doc, savedDoc, saving, saves, stored, extraction, panels, checks,
                   validation, submits, made, limits, loopVars>>

\* Mutant: the answer of an open is applied whatever was opened since.
OpenedAlways ==
    \E ticket \in opens :
        /\ opens' = opens \ {ticket}
        /\ Enter(Opened(ticket))
        /\ UNCHANGED <<openTicket, saves, extraction, checks, submits, limits>>

\* A superseded open is dropped; one that fails leaves the user where he is.
OpenAnswered ==
    \E ticket \in opens :
        /\ opens' = opens \ {ticket}
        /\ \/ ticket = openTicket /\ Enter(Opened(ticket))
           \/ UNCHANGED <<view, tab, doc, savedDoc, saving, stored, panels, validation, made,
                          loopVars>>
        /\ UNCHANGED <<openTicket, saves, extraction, checks, submits, limits>>

\* The panels and the dialog are unmounted; what they have in flight is not.
Home ==
    /\ view = "editor" /\ view' = "home" /\ extraction' = Nothing
    /\ UNCHANGED <<tab, doc, savedDoc, saving, openTicket, opens, saves, stored, panels, checks,
                   validation, submits, made, limits, loopVars>>

-----------------------------------------------------------------------------
(* Editing and saving.                                                     *)

Edit ==
    /\ view = "editor" /\ Cardinality(made) < limits.edits
    /\ \E kind \in {"semantic", "move"} :
          LET edit == [number |-> Cardinality(made) + 1, kind |-> kind]
          IN  Becomes([doc EXCEPT !.edits = @ \cup {edit}]) /\ made' = made \cup {edit}
    /\ UNCHANGED <<view, tab, savedDoc, saving, openTicket, opens, saves, stored, extraction,
                   checks, submits, limits, loopVars>>

Save ==
    /\ view = "editor" /\ ~saving /\ doc.version <= limits.versions
    /\ saving' = TRUE
    /\ saves' = saves \cup {[generation |-> openTicket, captured |-> doc, retry |-> FALSE]}
    /\ UNCHANGED <<view, tab, doc, savedDoc, openTicket, opens, stored, extraction, panels, checks,
                   validation, submits, made, limits, loopVars>>

Bumped(document) == [document EXCEPT !.version = @ + 1]

\* The answer "stored", "conflict", or an error, which leaves the fate of the
\* save open.  Of a document that is gone only the server's part is left.
SaveAnswered ==
    \E save \in saves, answer \in {"stored", "conflict", "error"} :
        /\ LET current == save.generation = openTicket
               retries == answer = "conflict" /\ ~save.retry /\ doc = save.captured
               next == [save EXCEPT !.captured = Bumped(@), !.retry = TRUE]
           IN  \/ /\ ~current
                  /\ saves' = saves \ {save}
                  /\ UNCHANGED <<doc, savedDoc, saving, stored, panels, validation>>
               \/ /\ current /\ retries
                  /\ saves' = (saves \ {save}) \cup {next}
                  /\ Becomes(next.captured)
                  /\ UNCHANGED <<savedDoc, saving, stored>>
               \/ /\ current /\ ~retries
                  /\ saves' = saves \ {save}
                  /\ IF answer = "stored"
                     THEN stored' = stored \cup {save.captured} /\ savedDoc' = save.captured
                     ELSE UNCHANGED <<stored, savedDoc>>
                  /\ saving' = FALSE
                  /\ UNCHANGED <<doc, panels, validation>>
        /\ UNCHANGED <<view, tab, openTicket, opens, extraction, checks, submits, made, limits,
                       loopVars>>

\* onConfirm of the dialog, which is busy until both of its requests are answered.
Extract ==
    /\ view = "editor" /\ extraction = Nothing /\ Cardinality(made) < limits.edits
    /\ extraction' = doc
    /\ UNCHANGED <<view, tab, doc, savedDoc, saving, openTicket, opens, saves, stored, panels,
                   checks, validation, submits, made, limits, loopVars>>

\* commitExtraction, if the document is still the one captured; or a refusal, or
\* the dialog is cancelled.
ExtractAnswered ==
    /\ extraction # Nothing
    /\ extraction' = Nothing
    /\ \/ /\ doc = extraction
          /\ LET edit == [number |-> Cardinality(made) + 1, kind |-> "semantic"]
             IN  /\ Becomes([extraction EXCEPT !.edits = @ \cup {edit}])
                 /\ made' = made \cup {edit}
       \/ UNCHANGED <<doc, panels, validation, made>>
    /\ UNCHANGED <<view, tab, savedDoc, saving, openTicket, opens, saves, stored, checks, submits,
                   limits, loopVars>>

-----------------------------------------------------------------------------
(* The Problems panel.                                                     *)

\* The dock mounts the panel of the tab only.
SwitchTab ==
    /\ view = "editor" /\ Len(panels) < limits.mounts
    /\ \/ tab # "runs" /\ tab' = "runs" /\ UNCHANGED panels
       \/ tab # "problems" /\ tab' = "problems" /\ panels' = Append(panels, NewPanel)
    /\ UNCHANGED <<view, doc, savedDoc, saving, openTicket, opens, saves, stored, extraction,
                   checks, validation, submits, made, limits, loopVars>>

Validate ==
    /\ Mounted /\ panels[Mount].ticket < limits.checks
    /\ LET ticket == panels[Mount].ticket + 1
       IN  /\ panels' = [panels EXCEPT ![Mount].ticket = ticket]
           /\ checks' = checks \cup {[mount |-> Mount, key |-> KeyOf(doc), ticket |-> ticket]}
    /\ UNCHANGED <<view, tab, doc, savedDoc, saving, openTicket, opens, saves, stored, extraction,
                   validation, submits, made, limits, loopVars>>

\* isCurrent: by the refs of the panel that asked, mounted or not.
IsCurrent(check) ==
    panels[check.mount].key = check.key /\ panels[check.mount].ticket = check.ticket

\* onValidationResult stamps the verdict with the key of the live document.
ValidateAnswered ==
    \E check \in checks :
        /\ checks' = checks \ {check}
        /\ validation' \in
              IF IsCurrent(check)
              THEN {Nothing, [state |-> "verdict", of |-> check.key, stamp |-> KeyOf(doc)]}
              ELSE {validation}
        /\ UNCHANGED <<view, tab, doc, savedDoc, saving, openTicket, opens, saves, stored,
                       extraction, panels, submits, made, limits, loopVars>>

-----------------------------------------------------------------------------
(* The Runs panel.                                                         *)

Submit ==
    /\ view = "editor" /\ tab = "runs" /\ submits < limits.runs
    /\ submits' = submits + 1
    /\ UNCHANGED <<view, tab, doc, savedDoc, saving, openTicket, opens, saves, stored, extraction,
                   panels, checks, validation, made, limits, loopVars>>

\* onSelectRun, of a row in the panel or of the answer to a submission: whoever
\* asked, and whatever is open by then.
SelectRun ==
    /\ \/ submits > 0 /\ submits' = submits - 1
       \/ view = "editor" /\ tab = "runs" /\ limits.runs > 0 /\ UNCHANGED submits
    /\ \E run \in Runs : Select(run)
    /\ tab' = "results"
    /\ UNCHANGED <<view, doc, savedDoc, saving, openTicket, opens, saves, stored, extraction,
                   panels, checks, validation, made, limits>>

SessionNext ==
    \/ New \/ Open \/ OpenAnswered \/ Home
    \/ Edit \/ Save \/ SaveAnswered \/ Extract \/ ExtractAnswered
    \/ SwitchTab \/ Validate \/ ValidateAnswered
    \/ Submit \/ SelectRun
    \/ LoopNext /\ UNCHANGED editorVars

SessionSpec == SessionInit /\ [][SessionNext]_sessionVars

-----------------------------------------------------------------------------
\* The editor holds one document: the one that was asked for last.  No edit of
\* it is ever lost to an answer, its baseline and its Save button are its own,
\* and it counts as clean only as it was opened or as the server has it
\* (App.tsx handleOpen, handleSave, commitExtraction; store.ts replaceIf).
EditorIsItsOwn ==
    /\ view = "editor" => doc.opened = openTicket /\ savedDoc.opened = openTicket
    /\ view = "editor" => (saving <=> \E save \in saves : save.generation = openTicket)
    /\ doc.edits = made
    /\ doc = savedDoc => doc \in stored \/ doc = Opened(doc.opened)

Edits == [number : Nat, kind : {"semantic", "move"}]
Documents == [opened : Nat, version : Nat, edits : SUBSET Edits]

\* Each opening has at most one save in flight, of a document of that opening,
\* and none while it is not answered itself.
SavesAreOfOpenings ==
    /\ \A save \in saves : save.generation <= openTicket /\ save.captured.opened = save.generation
    /\ \A s, t \in saves : s.generation = t.generation => s = t
    /\ openTicket \in opens => view = "home" /\ \A save \in saves : save.generation # openTicket

\* The baseline is the document as opened or as stored, once there is one.
BaselineIsKnown ==
    \/ savedDoc \in stored \/ savedDoc = Opened(doc.opened)
    \/ view = "home" /\ doc = Opened(0) /\ saves = {} /\ extraction = Nothing

\* The inductive invariant behind EditorIsItsOwn.
SessionInv ==
    /\ openTicket \in Nat /\ opens \in SUBSET Nat /\ \A ticket \in opens : ticket <= openTicket
    /\ doc \in Documents /\ made \in SUBSET Edits /\ IsFiniteSet(made)
    /\ saves \subseteq [generation : Nat, captured : Documents, retry : BOOLEAN]
    /\ saving \in BOOLEAN
    /\ SavesAreOfOpenings /\ BaselineIsKnown /\ EditorIsItsOwn

\* A verdict that badges the document is a verdict of that document: validity.ts
\* and ValidatePanel.tsx say that a superseded one never does.
BadgesAreCurrent ==
    validation # Nothing => (validation.stamp = KeyOf(doc) => validation.of = KeyOf(doc))
=============================================================================
