------------------------- MODULE EditorSessionProofs -------------------------
(***************************************************************************)
(* The editor holds the one document that was asked for last, for every    *)
(* number of opens, edits, saves and panels and every order in which the   *)
(* server answers.  The argument is SavesAreOfOpenings: an opening has at  *)
(* most one save in flight, so a save whose generation is the current one  *)
(* is the save that the button is busy with, and of this document.         *)
(* And its debug loop shows one run, whole, once nothing is in flight.     *)
(***************************************************************************)
EXTENDS EditorSession, FiniteSetTheorems, TLAPS

\* What the invariant is about; the panels and the debug loop are not.
core == <<view, doc, savedDoc, saving, openTicket, opens, saves, stored, extraction, made>>

LEMMA OpenedIsADocument ==
    ASSUME NEW ticket \in Nat
    PROVE  /\ Opened(ticket) \in Documents
           /\ Opened(ticket).opened = ticket /\ Opened(ticket).edits = {}
BY DEF Opened, Documents

LEMMA InitEstablishesSessionInv == SessionInit => SessionInv
<1>. SUFFICES ASSUME SessionInit PROVE SessionInv
  OBVIOUS
<1>1. /\ view = "home" /\ doc = Opened(0) /\ savedDoc = Nothing /\ saving = FALSE
      /\ openTicket = 0 /\ opens = {} /\ saves = {} /\ stored = {} /\ extraction = Nothing
      /\ made = {}
  BY DEF SessionInit
<1>2. doc \in Documents /\ doc = Opened(doc.opened) /\ doc.edits = made
  BY <1>1, OpenedIsADocument
<1>3. EditorIsItsOwn
  BY <1>1, <1>2 DEF EditorIsItsOwn
<1>4. SavesAreOfOpenings /\ BaselineIsKnown
  BY <1>1 DEF SavesAreOfOpenings, BaselineIsKnown
<1>. QED BY <1>1, <1>2, <1>3, <1>4, FS_EmptySet DEF SessionInv

LEMMA CoreDecidesSessionInv == SessionInv /\ UNCHANGED core => SessionInv'
<1>. SUFFICES ASSUME SessionInv, UNCHANGED core PROVE SessionInv'
  OBVIOUS
<1>1. UNCHANGED <<view, doc, savedDoc, saving, openTicket, opens, saves, stored, extraction, made>>
  BY DEF core
<1>2. SavesAreOfOpenings'
  BY <1>1 DEF SessionInv, SavesAreOfOpenings
<1>3. BaselineIsKnown'
  BY <1>1 DEF SessionInv, BaselineIsKnown
<1>4. EditorIsItsOwn'
  BY <1>1 DEF SessionInv, EditorIsItsOwn
<1>. QED BY <1>1, <1>2, <1>3, <1>4 DEF SessionInv

-----------------------------------------------------------------------------
(* Opening.                                                                *)

\* A document that is entered is clean, and no save of it is in flight.
LEMMA EnterEstablishesSessionInv ==
    ASSUME SessionInv, openTicket' \in Nat, Enter(Opened(openTicket')),
           opens' \in SUBSET Nat, \A ticket \in opens' : ticket < openTicket',
           saves' = saves,
           \A save \in saves : save.generation < openTicket'
    PROVE  SessionInv'
<1>. DEFINE document == Opened(openTicket')
<1>1. document \in Documents /\ document.opened = openTicket' /\ document.edits = {}
  BY OpenedIsADocument
<1>2. /\ doc' = document /\ savedDoc' = document /\ made' = {} /\ stored' = {}
      /\ saving' = FALSE /\ view' = "editor"
  BY DEF Enter
<1>3. \A save \in saves : save.generation \in Nat
  BY DEF SessionInv
<1>4. SavesAreOfOpenings'
  <2>1. \A save \in saves : save.generation <= openTicket' /\ save.captured.opened = save.generation
    BY <1>3 DEF SessionInv, SavesAreOfOpenings
  <2>2. openTicket' \notin opens'
    OBVIOUS
  <2>. QED BY <2>1, <2>2 DEF SessionInv, SavesAreOfOpenings
<1>5. BaselineIsKnown'
  BY <1>1, <1>2 DEF BaselineIsKnown, Opened
<1>6. EditorIsItsOwn'
  <2>1. \A save \in saves : save.generation # openTicket'
    BY <1>3
  <2>. QED BY <2>1, <1>1, <1>2 DEF EditorIsItsOwn
<1>7. \A ticket \in opens' : ticket <= openTicket'
  OBVIOUS
<1>8. UNCHANGED saves /\ saves \subseteq [generation : Nat, captured : Documents, retry : BOOLEAN]
  BY DEF SessionInv
<1>. HIDE DEF document
<1>. QED BY <1>1, <1>2, <1>4, <1>5, <1>6, <1>7, <1>8, FS_EmptySet DEF SessionInv

LEMMA NewPreservesSessionInv == SessionInv /\ New => SessionInv'
<1>. SUFFICES ASSUME SessionInv, New PROVE SessionInv'
  OBVIOUS
<1>1. openTicket' = openTicket + 1 /\ UNCHANGED <<opens, saves>> /\ Enter(Opened(openTicket'))
  BY DEF New
<1>2. openTicket \in Nat /\ opens \in SUBSET Nat /\ \A ticket \in opens : ticket <= openTicket
  BY DEF SessionInv
<1>3. \A save \in saves : save.generation \in Nat /\ save.generation <= openTicket
  BY DEF SessionInv, SavesAreOfOpenings
<1>. QED BY <1>1, <1>2, <1>3, EnterEstablishesSessionInv

LEMMA OpenPreservesSessionInv == SessionInv /\ Open => SessionInv'
<1>. SUFFICES ASSUME SessionInv, Open PROVE SessionInv'
  OBVIOUS
<1>1. /\ openTicket' = openTicket + 1 /\ opens' = opens \cup {openTicket'} /\ view = "home"
      /\ UNCHANGED <<view, doc, savedDoc, saving, saves, stored, extraction, made>>
  BY DEF Open
<1>2. /\ openTicket \in Nat /\ opens \in SUBSET Nat /\ \A ticket \in opens : ticket <= openTicket
      /\ \A save \in saves : save.generation \in Nat /\ save.generation <= openTicket
  BY DEF SessionInv, SavesAreOfOpenings
<1>3. SavesAreOfOpenings'
  <2>1. \A save \in saves : save.generation <= openTicket' /\ save.generation # openTicket'
    BY <1>1, <1>2
  <2>. QED BY <2>1, <1>1 DEF SessionInv, SavesAreOfOpenings
<1>4. BaselineIsKnown'
  BY <1>1 DEF SessionInv, BaselineIsKnown
<1>5. EditorIsItsOwn'
  BY <1>1 DEF SessionInv, EditorIsItsOwn
<1>. QED BY <1>1, <1>2, <1>3, <1>4, <1>5 DEF SessionInv

LEMMA OpenAnsweredPreservesSessionInv == SessionInv /\ OpenAnswered => SessionInv'
<1>. SUFFICES ASSUME SessionInv, OpenAnswered PROVE SessionInv'
  OBVIOUS
<1>1. PICK ticket \in opens :
        /\ opens' = opens \ {ticket}
        /\ \/ ticket = openTicket /\ Enter(Opened(ticket))
           \/ UNCHANGED <<view, tab, doc, savedDoc, saving, stored, panels, validation, made,
                          loopVars>>
        /\ UNCHANGED <<openTicket, saves, extraction, checks, submits, limits>>
  BY DEF OpenAnswered
<1>2. /\ openTicket \in Nat /\ opens \in SUBSET Nat /\ \A other \in opens : other <= openTicket
      /\ \A save \in saves : save.generation \in Nat /\ save.generation <= openTicket
  BY DEF SessionInv, SavesAreOfOpenings
<1>3. CASE ticket = openTicket /\ Enter(Opened(ticket))
  <2>1. \A save \in saves : save.generation < openTicket
    BY <1>2, <1>3 DEF SessionInv, SavesAreOfOpenings
  <2>2. \A other \in opens' : other < openTicket
    BY <1>1, <1>2, <1>3
  <2>. QED BY <2>1, <2>2, <1>1, <1>2, <1>3, EnterEstablishesSessionInv
<1>4. CASE UNCHANGED <<view, tab, doc, savedDoc, saving, stored, panels, validation, made, loopVars>>
  <2>1. SavesAreOfOpenings'
    BY <1>1, <1>4 DEF SessionInv, SavesAreOfOpenings
  <2>2. BaselineIsKnown'
    BY <1>1, <1>4 DEF SessionInv, BaselineIsKnown
  <2>3. EditorIsItsOwn'
    BY <1>1, <1>4 DEF SessionInv, EditorIsItsOwn
  <2>. QED BY <2>1, <2>2, <2>3, <1>1, <1>2, <1>4 DEF SessionInv
<1>. QED BY <1>1, <1>3, <1>4

LEMMA HomePreservesSessionInv == SessionInv /\ Home => SessionInv'
<1>. SUFFICES ASSUME SessionInv, Home PROVE SessionInv'
  OBVIOUS
<1>1. /\ view = "editor" /\ view' = "home"
      /\ UNCHANGED <<doc, savedDoc, saving, openTicket, opens, saves, stored, made>>
  BY DEF Home
<1>2. SavesAreOfOpenings'
  BY <1>1 DEF SessionInv, SavesAreOfOpenings
<1>3. BaselineIsKnown'
  BY <1>1 DEF SessionInv, BaselineIsKnown
<1>4. EditorIsItsOwn'
  BY <1>1 DEF SessionInv, EditorIsItsOwn
<1>. QED BY <1>1, <1>2, <1>3, <1>4 DEF SessionInv

-----------------------------------------------------------------------------
(* Editing and saving.                                                     *)

\* A change of the document that keeps its opening and records its edits.
LEMMA BecomesPreservesSessionInv ==
    ASSUME SessionInv, NEW document \in Documents, Becomes(document),
           document.opened = doc.opened,
           document.edits = made', made' \in SUBSET Edits, IsFiniteSet(made'),
           view = "editor" \/ saves # {} \/ extraction # Nothing,
           UNCHANGED <<view, savedDoc, saving, openTicket, opens, stored>>,
           SavesAreOfOpenings',
           saves' \subseteq [generation : Nat, captured : Documents, retry : BOOLEAN],
           \A n : (\E save \in saves' : save.generation = n) <=>
                  (\E save \in saves : save.generation = n)
    PROVE  SessionInv'
<1>1. doc' = document
  BY DEF Becomes
<1>2. savedDoc \in stored \/ savedDoc = Opened(doc.opened)
  BY DEF SessionInv, BaselineIsKnown
<1>3. BaselineIsKnown'
  BY <1>1, <1>2 DEF BaselineIsKnown, Opened
<1>4. EditorIsItsOwn'
  BY <1>1, <1>2 DEF SessionInv, EditorIsItsOwn, Opened
<1>. QED BY <1>1, <1>3, <1>4 DEF SessionInv

\* An edit more, of the document and of what was made.
LEMMA OneEditMore ==
    ASSUME SessionInv, NEW kind \in {"semantic", "move"},
           NEW edit, edit = [number |-> Cardinality(made) + 1, kind |-> kind]
    PROVE  LET document == [doc EXCEPT !.edits = @ \cup {edit}]
           IN  /\ document \in Documents /\ document.opened = doc.opened
               /\ document.edits = made \cup {edit}
               /\ made \cup {edit} \in SUBSET Edits /\ IsFiniteSet(made \cup {edit})
<1>1. doc \in Documents /\ doc.edits = made /\ made \in SUBSET Edits /\ IsFiniteSet(made)
  BY DEF SessionInv, EditorIsItsOwn
<1>2. edit \in Edits
  BY <1>1, FS_CardinalityType DEF Edits
<1>3. IsFiniteSet(made \cup {edit})
  BY <1>1, FS_AddElement
<1>. QED BY <1>1, <1>2, <1>3 DEF Documents

LEMMA EditPreservesSessionInv == SessionInv /\ Edit => SessionInv'
<1>. SUFFICES ASSUME SessionInv, Edit PROVE SessionInv'
  OBVIOUS
<1>1. PICK kind \in {"semantic", "move"} :
        LET edit == [number |-> Cardinality(made) + 1, kind |-> kind]
        IN  Becomes([doc EXCEPT !.edits = @ \cup {edit}]) /\ made' = made \cup {edit}
  BY DEF Edit
<1>2. view = "editor" /\ UNCHANGED <<view, savedDoc, saving, openTicket, opens, saves, stored>>
  BY DEF Edit
<1>3. SavesAreOfOpenings'
  BY <1>2 DEF SessionInv, SavesAreOfOpenings
<1>4. saves' \subseteq [generation : Nat, captured : Documents, retry : BOOLEAN]
  BY <1>2 DEF SessionInv
<1>. DEFINE edit == [number |-> Cardinality(made) + 1, kind |-> kind]
            document == [doc EXCEPT !.edits = @ \cup {edit}]
<1>5. /\ document \in Documents /\ document.opened = doc.opened /\ document.edits = made'
      /\ made' \in SUBSET Edits /\ IsFiniteSet(made')
  BY <1>1, OneEditMore
<1>6. Becomes(document)
  BY <1>1
<1>. HIDE DEF document
<1>. QED BY <1>2, <1>3, <1>4, <1>5, <1>6, BecomesPreservesSessionInv

LEMMA SavePreservesSessionInv == SessionInv /\ Save => SessionInv'
<1>. SUFFICES ASSUME SessionInv, Save PROVE SessionInv'
  OBVIOUS
<1>. DEFINE new == [generation |-> openTicket, captured |-> doc, retry |-> FALSE]
<1>1. /\ view = "editor" /\ ~saving /\ saving' = TRUE /\ saves' = saves \cup {new}
      /\ UNCHANGED <<view, doc, savedDoc, openTicket, opens, stored, extraction, made>>
  BY DEF Save
<1>2. /\ doc.opened = openTicket /\ openTicket \in Nat /\ openTicket \notin opens
      /\ \A save \in saves : save.generation # openTicket
  BY <1>1 DEF SessionInv, EditorIsItsOwn, SavesAreOfOpenings
<1>3. /\ new.generation = openTicket /\ new.captured = doc
      /\ new \in [generation : Nat, captured : Documents, retry : BOOLEAN]
  BY <1>2 DEF SessionInv
<1>. HIDE DEF new
<1>4. SavesAreOfOpenings'
  <2>1. \A save \in saves' : save.generation <= openTicket /\ save.captured.opened = save.generation
    BY <1>1, <1>2, <1>3 DEF SessionInv, SavesAreOfOpenings
  <2>2. \A s, t \in saves' : s.generation = t.generation => s = t
    BY <1>1, <1>2, <1>3 DEF SessionInv, SavesAreOfOpenings
  <2>. QED BY <1>1, <1>2, <2>1, <2>2 DEF SavesAreOfOpenings
<1>5. BaselineIsKnown'
  BY <1>1 DEF SessionInv, BaselineIsKnown
<1>6. EditorIsItsOwn'
  <2>1. \E save \in saves' : save.generation = openTicket
    BY <1>1, <1>3
  <2>. QED BY <1>1, <2>1 DEF SessionInv, EditorIsItsOwn
<1>7. saves' \subseteq [generation : Nat, captured : Documents, retry : BOOLEAN]
  BY <1>1, <1>3 DEF SessionInv
<1>. QED BY <1>1, <1>4, <1>5, <1>6, <1>7 DEF SessionInv

\* A document with the next version.
LEMMA BumpedIsADocument ==
    ASSUME NEW document \in Documents
    PROVE  /\ Bumped(document) \in Documents
           /\ Bumped(document).opened = document.opened
           /\ Bumped(document).edits = document.edits
BY DEF Bumped, Documents

LEMMA SaveAnsweredPreservesSessionInv == SessionInv /\ SaveAnswered => SessionInv'
<1>. SUFFICES ASSUME SessionInv, SaveAnswered PROVE SessionInv'
  OBVIOUS
<1>1. UNCHANGED <<view, openTicket, opens, extraction, made>>
  BY DEF SaveAnswered
<1>2. PICK save \in saves, answer \in {"stored", "conflict", "error"} :
        LET current == save.generation = openTicket
            retries == answer = "conflict" /\ ~save.retry /\ doc = save.captured
            next == [save EXCEPT !.captured = Bumped(@), !.retry = TRUE]
        IN  \/ /\ ~current
               /\ saves' = saves \ {save}
               /\ UNCHANGED <<doc, savedDoc, saving, stored, panels, validation>>
            \/ /\ current /\ retries
               /\ saves' = (saves \ {save}) \cup {next}
               /\ Becomes(next.captured)
               /\ UNCHANGED <<savedDoc, saving, stored>>
            \/ /\ current /\ ~retries
               /\ saves' = saves \ {save}
               /\ IF answer = "stored"
                  THEN stored' = stored \cup {save.captured} /\ savedDoc' = save.captured
                  ELSE UNCHANGED <<stored, savedDoc>>
               /\ saving' = FALSE
               /\ UNCHANGED <<doc, panels, validation>>
  BY DEF SaveAnswered
<1>3. /\ saves \subseteq [generation : Nat, captured : Documents, retry : BOOLEAN]
      /\ save.captured \in Documents /\ save.captured.opened = save.generation
      /\ \A other \in saves : other.generation = save.generation => other = save
  BY DEF SessionInv, SavesAreOfOpenings
<1>4. CASE /\ save.generation # openTicket /\ saves' = saves \ {save}
           /\ UNCHANGED <<doc, savedDoc, saving, stored>>
  <2>1. SavesAreOfOpenings'
    BY <1>1, <1>4 DEF SessionInv, SavesAreOfOpenings
  <2>2. BaselineIsKnown'
    BY <1>1, <1>4 DEF SessionInv, BaselineIsKnown
  <2>3. EditorIsItsOwn'
    BY <1>1, <1>4 DEF SessionInv, EditorIsItsOwn
  <2>. QED BY <2>1, <2>2, <2>3, <1>1, <1>4 DEF SessionInv
<1>. DEFINE next == [save EXCEPT !.captured = Bumped(@), !.retry = TRUE]
<1>5. CASE /\ save.generation = openTicket /\ doc = save.captured
           /\ saves' = (saves \ {save}) \cup {next} /\ Becomes(next.captured)
           /\ UNCHANGED <<savedDoc, saving, stored>>
  <2>1. next.captured = Bumped(doc) /\ next.generation = save.generation /\ next.retry = TRUE
    BY <1>3, <1>5
  <2>2. /\ Bumped(doc) \in Documents /\ Bumped(doc).opened = doc.opened
        /\ Bumped(doc).edits = made
    BY <1>3, <1>5, BumpedIsADocument DEF SessionInv, EditorIsItsOwn
  <2>3. next \in [generation : Nat, captured : Documents, retry : BOOLEAN]
    BY <1>3, <1>5, <2>1, <2>2
  <2>4. SavesAreOfOpenings'
    <3>. HIDE DEF next
    <3>1. \A other \in saves' : other.generation <= openTicket
      BY <1>5, <2>1 DEF SessionInv, SavesAreOfOpenings
    <3>2. \A other \in saves' : other.captured.opened = other.generation
      BY <1>3, <1>5, <2>1, <2>2 DEF SessionInv, SavesAreOfOpenings
    <3>3. \A s, t \in saves' : s.generation = t.generation => s = t
      BY <1>3, <1>5, <2>1 DEF SessionInv, SavesAreOfOpenings
    <3>4. openTicket \notin opens
      BY <1>5 DEF SessionInv, SavesAreOfOpenings
    <3>. QED BY <3>1, <3>2, <3>3, <3>4, <1>1 DEF SavesAreOfOpenings
  <2>5. \A n : (\E other \in saves' : other.generation = n) <=>
               (\E other \in saves : other.generation = n)
    <3>. HIDE DEF next
    <3>. QED BY <1>5, <2>1
  <2>6. saves' \subseteq [generation : Nat, captured : Documents, retry : BOOLEAN]
    <3>. HIDE DEF next
    <3>. QED BY <1>3, <1>5, <2>3
  <2>7. made' \in SUBSET Edits /\ IsFiniteSet(made') /\ made' = made /\ saves # {}
    BY <1>1 DEF SessionInv
  <2>8. Becomes(Bumped(doc))
    BY <1>5, <2>1
  <2>. QED BY <1>1, <1>5, <2>2, <2>4, <2>5, <2>6, <2>7, <2>8, BecomesPreservesSessionInv
<1>6. CASE /\ save.generation = openTicket /\ saves' = saves \ {save}
           /\ \/ stored' = stored \cup {save.captured} /\ savedDoc' = save.captured
              \/ UNCHANGED <<stored, savedDoc>>
           /\ saving' = FALSE /\ UNCHANGED doc
  <2>1. SavesAreOfOpenings'
    BY <1>1, <1>6 DEF SessionInv, SavesAreOfOpenings
  <2>2. savedDoc \in stored \/ savedDoc = Opened(doc.opened)
    BY DEF SessionInv, BaselineIsKnown
  <2>3. savedDoc' \in stored' \/ savedDoc' = Opened(doc'.opened)
    BY <1>6, <2>2
  <2>4. \A other \in saves' : other.generation # openTicket
    BY <1>3, <1>6
  <2>5. view = "editor" => savedDoc'.opened = openTicket /\ doc.opened = openTicket
    BY <1>3, <1>6 DEF SessionInv, EditorIsItsOwn
  <2>6. doc'.edits = made'
    BY <1>1, <1>6 DEF SessionInv, EditorIsItsOwn
  <2>7. EditorIsItsOwn'
    BY <2>3, <2>4, <2>5, <2>6, <1>1, <1>6 DEF EditorIsItsOwn
  <2>. QED BY <2>1, <2>3, <2>7, <1>1, <1>6 DEF SessionInv, BaselineIsKnown
<1>. QED BY <1>2, <1>4, <1>5, <1>6

LEMMA ExtractPreservesSessionInv == SessionInv /\ Extract => SessionInv'
<1>. SUFFICES ASSUME SessionInv, Extract PROVE SessionInv'
  OBVIOUS
<1>1. /\ view = "editor"
      /\ UNCHANGED <<view, doc, savedDoc, saving, openTicket, opens, saves, stored, made>>
  BY DEF Extract
<1>2. SavesAreOfOpenings'
  BY <1>1 DEF SessionInv, SavesAreOfOpenings
<1>3. BaselineIsKnown'
  BY <1>1 DEF SessionInv, BaselineIsKnown
<1>4. EditorIsItsOwn'
  BY <1>1 DEF SessionInv, EditorIsItsOwn
<1>. QED BY <1>1, <1>2, <1>3, <1>4 DEF SessionInv

LEMMA ExtractAnsweredPreservesSessionInv == SessionInv /\ ExtractAnswered => SessionInv'
<1>. SUFFICES ASSUME SessionInv, ExtractAnswered PROVE SessionInv'
  OBVIOUS
<1>1. /\ extraction # Nothing /\ extraction' = Nothing
      /\ UNCHANGED <<view, savedDoc, saving, openTicket, opens, saves, stored>>
  BY DEF ExtractAnswered
<1>2. SavesAreOfOpenings'
  BY <1>1 DEF SessionInv, SavesAreOfOpenings
<1>3. saves' \subseteq [generation : Nat, captured : Documents, retry : BOOLEAN]
  BY <1>1 DEF SessionInv
<1>. DEFINE edit == [number |-> Cardinality(made) + 1, kind |-> "semantic"]
            document == [doc EXCEPT !.edits = @ \cup {edit}]
<1>4. CASE Becomes(document) /\ made' = made \cup {edit}
  <2>1. /\ document \in Documents /\ document.opened = doc.opened /\ document.edits = made'
        /\ made' \in SUBSET Edits /\ IsFiniteSet(made')
    BY <1>4, OneEditMore
  <2>. HIDE DEF document
  <2>. QED BY <2>1, <1>1, <1>2, <1>3, <1>4, BecomesPreservesSessionInv
<1>5. CASE UNCHANGED <<doc, made>>
  <2>1. BaselineIsKnown'
    BY <1>1, <1>5 DEF SessionInv, BaselineIsKnown
  <2>2. EditorIsItsOwn'
    BY <1>1, <1>5 DEF SessionInv, EditorIsItsOwn
  <2>. QED BY <2>1, <2>2, <1>1, <1>2, <1>5 DEF SessionInv
<1>. QED BY <1>4, <1>5 DEF ExtractAnswered

-----------------------------------------------------------------------------
\* No answer, in whatever order it arrives, costs an edit, crosses to another
\* document, frees or blocks the wrong Save button, or calls a document clean
\* that the server does not have (App.tsx, store.ts).
THEOREM EditorIsAlwaysItsOwn == SessionSpec => []EditorIsItsOwn
<1>1. SessionInit => SessionInv
  BY InitEstablishesSessionInv
<1>2. SessionInv /\ [SessionNext]_sessionVars => SessionInv'
  <2>. SUFFICES ASSUME SessionInv, [SessionNext]_sessionVars PROVE SessionInv'
    OBVIOUS
  <2>1. CASE UNCHANGED sessionVars
    BY <2>1, CoreDecidesSessionInv DEF sessionVars, editorVars, core
  <2>2. CASE LoopNext /\ UNCHANGED editorVars
    BY <2>2, CoreDecidesSessionInv DEF editorVars, core
  <2>3. CASE SwitchTab \/ Validate \/ Submit
    BY <2>3, CoreDecidesSessionInv DEF SwitchTab, Validate, Submit, core
  <2>4. CASE ValidateAnswered
    BY <2>4, CoreDecidesSessionInv DEF ValidateAnswered, core
  <2>5. CASE SelectRun
    BY <2>5, CoreDecidesSessionInv DEF SelectRun, core
  <2>. QED BY <2>1, <2>2, <2>3, <2>4, <2>5, NewPreservesSessionInv, OpenPreservesSessionInv,
           OpenAnsweredPreservesSessionInv, HomePreservesSessionInv, EditPreservesSessionInv,
           SavePreservesSessionInv, SaveAnsweredPreservesSessionInv, ExtractPreservesSessionInv,
           ExtractAnsweredPreservesSessionInv DEF SessionNext
<1>3. SessionInv => EditorIsItsOwn
  BY DEF SessionInv
<1>. QED BY <1>1, <1>2, <1>3, PTL DEF SessionSpec

-----------------------------------------------------------------------------
(* The debug loop.  The argument is LoopInv: whatever the effects saw when *)
(* they last ran is either still being fetched or held.                    *)

LEMMA InitEstablishesLoopInv == LoopInit => LoopInv
<1>. SUFFICES ASSUME LoopInit PROVE LoopInv
  OBVIOUS
<1>1. /\ selectedRun = NoRun /\ record = NoRun /\ recordLoading = FALSE /\ cursor = 0
      /\ fetches = {} /\ effects = Dependencies
  BY DEF LoopInit
<1>2. ~Matches /\ SessionDates = {} /\ Matches \in BOOLEAN
  BY <1>1 DEF Matches, SessionDates
<1>3. Dependencies = [record |-> NoRun, schedule |-> <<NoRun, FALSE>>, trace |-> <<NoRun, 0, {}>>]
  BY <1>1, <1>2 DEF Dependencies
<1>4. SeenRun = NoRun /\ SeenMatch = FALSE /\ SeenCursor = 0 /\ SeenDates = {}
  BY <1>1, <1>3 DEF SeenRun, SeenMatch, SeenCursor, SeenDates
<1>5. RecordIsTracked /\ CadenceIsTracked /\ TraceIsTracked
  BY <1>1, <1>4 DEF RecordIsTracked, CadenceIsTracked, TraceIsTracked
<1>. QED BY <1>1, <1>3, <1>4, <1>5 DEF LoopInv

LEMMA SelectPreservesLoopInv ==
    ASSUME LoopInv, NEW run \in Runs \cup {NoRun}, Select(run)
    PROVE  LoopInv'
BY DEF LoopInv, Select, SeenRun, SeenMatch, SeenCursor, SeenDates, RecordIsTracked,
       CadenceIsTracked, TraceIsTracked

\* What the effects leave, whichever of them ran.
LEMMA EffectsSeeTheSelection ==
    ASSUME LoopInv, Effects
    PROVE  /\ effects' = Dependencies /\ UNCHANGED <<selectedRun, failed, trace, schedule>>
           /\ SeenRun' = selectedRun /\ SeenMatch' = Matches
           /\ SeenCursor' = cursor /\ SeenDates' = SessionDates
           /\ Matches <=> selectedRun # NoRun /\ record = selectedRun
           /\ SessionDates = IF Matches THEN Axis[selectedRun] ELSE {}
<1>1. effects' = Dependencies /\ UNCHANGED <<selectedRun, failed, trace, schedule>>
  BY Zenon DEF Effects
<1>2. /\ Dependencies.record = selectedRun /\ Dependencies.schedule = <<selectedRun, Matches>>
      /\ Dependencies.trace = <<selectedRun, cursor, SessionDates>>
  BY DEF Dependencies
<1>. QED BY <1>1, <1>2 DEF SeenRun, SeenMatch, SeenCursor, SeenDates, Matches, SessionDates

\* A selection that the effects had not seen: everything is asked anew.
LEMMA EffectsOfASelection ==
    ASSUME LoopInv, Effects, selectedRun # SeenRun
    PROVE  /\ ~Matches /\ SessionDates = {}
           /\ record' = NoRun /\ cursor' = 0 /\ recordLoading' = (selectedRun # NoRun)
           /\ fetches' = IF selectedRun = NoRun THEN {} ELSE {<<"record", selectedRun, 0>>}
<1>1. ~Matches /\ SessionDates = {} /\ ~TraceWanted
  BY DEF LoopInv, RecordIsTracked, Matches, SessionDates, TraceWanted, OnAxis
<1>. DEFINE changed == {what \in DOMAIN Dependencies : Dependencies[what] # effects[what]}
            started ==
                {f \in {<<"record", selectedRun, 0>>, <<"schedule", selectedRun, 0>>,
                        <<"trace", selectedRun, cursor>>} :
                    /\ f[1] \in changed
                    /\ CASE f[1] = "record"   -> selectedRun # NoRun
                         [] f[1] = "schedule" -> Matches
                         [] f[1] = "trace"    -> TraceWanted}
<1>2. changed = {"record", "schedule", "trace"}
  BY DEF LoopInv, Dependencies
<1>3. /\ fetches' = {f \in fetches : f[1] \notin changed} \cup started
      /\ record' = NoRun /\ cursor' = 0 /\ recordLoading' = (selectedRun # NoRun)
  BY <1>2 DEF Effects
<1>. HIDE DEF changed
<1>4. {f \in fetches : f[1] \notin changed} = {}
  BY <1>2 DEF LoopInv
<1>5. started = IF selectedRun = NoRun THEN {} ELSE {<<"record", selectedRun, 0>>}
  <2>1. <<"record", selectedRun, 0>> \in started <=> selectedRun # NoRun
    BY <1>2
  <2>2. <<"schedule", selectedRun, 0>> \notin started
    BY <1>1
  <2>3. <<"trace", selectedRun, cursor>> \notin started
    BY <1>1
  <2>. QED BY <2>1, <2>2, <2>3
<1>. QED BY <1>1, <1>3, <1>4, <1>5

\* The selection is as the effects saw it: its record is left alone.
LEMMA EffectsOfAnAnswer ==
    ASSUME LoopInv, Effects, selectedRun = SeenRun
    PROVE  /\ UNCHANGED <<record, cursor, recordLoading>>
           /\ fetches' \subseteq {<<"record", selectedRun, 0>>, <<"schedule", selectedRun, 0>>,
                                  <<"trace", selectedRun, cursor>>}
           /\ <<"record", selectedRun, 0>> \in fetches' <=> <<"record", selectedRun, 0>> \in fetches
           /\ Matches => \/ <<"schedule", selectedRun, 0>> \in fetches'
                         \/ schedule = selectedRun
           /\ <<"trace", selectedRun, cursor>> \in fetches' => cursor \in SessionDates
           /\ cursor \in SessionDates => \/ <<"trace", selectedRun, cursor>> \in fetches'
                                         \/ trace = <<selectedRun, cursor>>
<1>. DEFINE changed == {what \in DOMAIN Dependencies : Dependencies[what] # effects[what]}
            started ==
                {f \in {<<"record", selectedRun, 0>>, <<"schedule", selectedRun, 0>>,
                        <<"trace", selectedRun, cursor>>} :
                    /\ f[1] \in changed
                    /\ CASE f[1] = "record"   -> selectedRun # NoRun
                         [] f[1] = "schedule" -> Matches
                         [] f[1] = "trace"    -> TraceWanted}
<1>1. /\ "record" \notin changed
      /\ "schedule" \in changed <=> Matches # SeenMatch
      /\ "trace" \in changed <=> <<cursor, SessionDates>> # <<SeenCursor, SeenDates>>
  BY DEF LoopInv, Dependencies
<1>2. fetches' = {f \in fetches : f[1] \notin changed} \cup started
  BY DEF Effects
<1>3. UNCHANGED <<record, cursor, recordLoading>>
  BY <1>1 DEF Effects
<1>4. /\ TraceWanted <=> selectedRun # NoRun /\ cursor \in SessionDates
      /\ cursor \in SessionDates => selectedRun # NoRun
  BY DEF Matches, TraceWanted, OnAxis, SessionDates
<1>5. fetches \subseteq {<<"record", selectedRun, 0>>, <<"schedule", selectedRun, 0>>,
                         <<"trace", selectedRun, SeenCursor>>}
  BY DEF LoopInv
<1>. HIDE DEF changed
<1>6. /\ <<"record", selectedRun, 0>> \notin started
      /\ <<"schedule", selectedRun, 0>> \in started <=> "schedule" \in changed /\ Matches
      /\ <<"trace", selectedRun, cursor>> \in started <=> "trace" \in changed /\ TraceWanted
      /\ started \subseteq {<<"schedule", selectedRun, 0>>, <<"trace", selectedRun, cursor>>}
  <2>1. <<"record", selectedRun, 0>> \notin started
    BY <1>1
  <2>2. <<"schedule", selectedRun, 0>> \in started <=> "schedule" \in changed /\ Matches
    OBVIOUS
  <2>3. <<"trace", selectedRun, cursor>> \in started <=> "trace" \in changed /\ TraceWanted
    OBVIOUS
  <2>. QED BY <2>1, <2>2, <2>3
<1>. HIDE DEF started
<1>7. fetches' \subseteq {<<"record", selectedRun, 0>>, <<"schedule", selectedRun, 0>>,
                          <<"trace", selectedRun, cursor>>}
  BY <1>1, <1>2, <1>5, <1>6
<1>8. <<"record", selectedRun, 0>> \in fetches' <=> <<"record", selectedRun, 0>> \in fetches
  BY <1>1, <1>2, <1>6
<1>9. Matches => <<"schedule", selectedRun, 0>> \in fetches' \/ schedule = selectedRun
  <2>1. CASE "schedule" \in changed
    BY <2>1, <1>2, <1>6
  <2>2. CASE "schedule" \notin changed
    BY <2>2, <1>1, <1>2 DEF LoopInv, CadenceIsTracked
  <2>. QED BY <2>1, <2>2
<1>10. /\ <<"trace", selectedRun, cursor>> \in fetches' => cursor \in SessionDates
       /\ cursor \in SessionDates => \/ <<"trace", selectedRun, cursor>> \in fetches'
                                     \/ trace = <<selectedRun, cursor>>
  <2>1. CASE "trace" \in changed
    <3>1. <<"trace", selectedRun, cursor>> \in fetches' <=> TraceWanted
      BY <2>1, <1>2, <1>6
    <3>. QED BY <3>1, <1>4
  <2>2. CASE "trace" \notin changed
    <3>1. cursor = SeenCursor /\ SessionDates = SeenDates
      BY <2>2, <1>1
    <3>2. <<"trace", selectedRun, cursor>> \in fetches' <=> <<"trace", selectedRun, cursor>> \in fetches
      BY <2>2, <1>2, <1>6
    <3>. QED BY <3>1, <3>2 DEF LoopInv, TraceIsTracked
  <2>. QED BY <2>1, <2>2
<1>. QED BY <1>3, <1>7, <1>8, <1>9, <1>10

LEMMA EffectsPreserveLoopInv == LoopInv /\ Effects => LoopInv'
<1>. SUFFICES ASSUME LoopInv, Effects PROVE LoopInv'
  OBVIOUS
<1>1. /\ effects' = Dependencies /\ UNCHANGED <<selectedRun, failed, trace, schedule>>
      /\ SeenRun' = selectedRun /\ SeenMatch' = Matches
      /\ SeenCursor' = cursor /\ SeenDates' = SessionDates
      /\ Matches <=> selectedRun # NoRun /\ record = selectedRun
      /\ SessionDates = IF Matches THEN Axis[selectedRun] ELSE {}
  BY EffectsSeeTheSelection
<1>2. /\ selectedRun' \in Runs \cup {NoRun} /\ SeenRun' \in Runs \cup {NoRun}
      /\ effects' = [record |-> SeenRun', schedule |-> <<SeenRun', SeenMatch'>>,
                     trace |-> <<SeenRun', SeenCursor', SeenDates'>>]
  BY <1>1 DEF LoopInv, Dependencies
<1>3. CASE selectedRun # SeenRun
  <2>1. /\ ~Matches /\ SessionDates = {}
        /\ record' = NoRun /\ cursor' = 0 /\ recordLoading' = (selectedRun # NoRun)
        /\ fetches' = IF selectedRun = NoRun THEN {} ELSE {<<"record", selectedRun, 0>>}
    BY <1>3, EffectsOfASelection
  <2>2. RecordIsTracked'
    BY <1>1, <2>1 DEF RecordIsTracked, NoRun
  <2>3. CadenceIsTracked' /\ TraceIsTracked'
    BY <1>1, <2>1 DEF CadenceIsTracked, TraceIsTracked
  <2>. QED BY <1>1, <1>2, <2>1, <2>2, <2>3 DEF LoopInv
<1>4. CASE selectedRun = SeenRun
  <2>1. /\ UNCHANGED <<record, cursor, recordLoading>>
        /\ fetches' \subseteq {<<"record", selectedRun, 0>>, <<"schedule", selectedRun, 0>>,
                               <<"trace", selectedRun, cursor>>}
        /\ <<"record", selectedRun, 0>> \in fetches' <=> <<"record", selectedRun, 0>> \in fetches
        /\ Matches => \/ <<"schedule", selectedRun, 0>> \in fetches'
                      \/ schedule = selectedRun
        /\ <<"trace", selectedRun, cursor>> \in fetches' => cursor \in SessionDates
        /\ cursor \in SessionDates => \/ <<"trace", selectedRun, cursor>> \in fetches'
                                      \/ trace = <<selectedRun, cursor>>
    BY <1>4, EffectsOfAnAnswer
  <2>2. RecordIsTracked'
    BY <1>1, <1>4, <2>1 DEF LoopInv, RecordIsTracked
  <2>3. CadenceIsTracked' /\ TraceIsTracked'
    BY <1>1, <2>1 DEF CadenceIsTracked, TraceIsTracked
  <2>. QED BY <1>1, <1>2, <2>1, <2>2, <2>3 DEF LoopInv
<1>. QED BY <1>3, <1>4

LEMMA RecordAnsweredPreservesLoopInv == LoopInv /\ RecordAnswered => LoopInv'
<1>. SUFFICES ASSUME LoopInv, RecordAnswered PROVE LoopInv'
  OBVIOUS
<1>1. PICK run \in Runs :
        /\ <<"record", run, 0>> \in fetches
        /\ fetches' = fetches \ {<<"record", run, 0>>}
        /\ recordLoading' = FALSE
        /\ \/ record' = run /\ failed' = NoRun /\ cursor' = Default[run]
           \/ record' = NoRun /\ failed' = run /\ UNCHANGED cursor
        /\ UNCHANGED <<selectedRun, trace, schedule, effects>>
  BY DEF RecordAnswered
<1>2. run = SeenRun /\ run # NoRun
  BY <1>1, DebugLoopAssumption DEF LoopInv
<1>3. /\ SeenRun' = SeenRun /\ SeenMatch' = SeenMatch /\ SeenCursor' = SeenCursor
      /\ SeenDates' = SeenDates
  BY <1>1 DEF SeenRun, SeenMatch, SeenCursor, SeenDates
<1>4. RecordIsTracked'
  BY <1>1, <1>2, <1>3, DebugLoopAssumption DEF RecordIsTracked
<1>5. CadenceIsTracked'
  BY <1>1, <1>3 DEF LoopInv, CadenceIsTracked
<1>6. TraceIsTracked'
  BY <1>1, <1>3 DEF LoopInv, TraceIsTracked
<1>. QED BY <1>1, <1>3, <1>4, <1>5, <1>6 DEF LoopInv

LEMMA OtherAnswersPreserveLoopInv == LoopInv /\ (TraceAnswered \/ ScheduleAnswered) => LoopInv'
<1>. SUFFICES ASSUME LoopInv, TraceAnswered \/ ScheduleAnswered PROVE LoopInv'
  OBVIOUS
<1>1. PICK f \in fetches :
        /\ fetches' = fetches \ {f}
        /\ \/ f[1] = "trace" /\ trace' = <<f[2], f[3]>> /\ UNCHANGED schedule
           \/ f[1] = "schedule" /\ schedule' = f[2] /\ UNCHANGED trace
        /\ UNCHANGED <<selectedRun, record, recordLoading, failed, cursor, effects>>
  BY DEF TraceAnswered, ScheduleAnswered
<1>2. /\ f[1] = "trace" => f = <<"trace", SeenRun, SeenCursor>>
      /\ f[1] = "schedule" => f = <<"schedule", SeenRun, 0>>
  BY <1>1 DEF LoopInv
<1>3. /\ SeenRun' = SeenRun /\ SeenMatch' = SeenMatch /\ SeenCursor' = SeenCursor
      /\ SeenDates' = SeenDates
  BY <1>1 DEF SeenRun, SeenMatch, SeenCursor, SeenDates
<1>4. RecordIsTracked'
  BY <1>1, <1>2, <1>3 DEF LoopInv, RecordIsTracked
<1>5. CadenceIsTracked'
  BY <1>1, <1>2, <1>3 DEF LoopInv, CadenceIsTracked
<1>6. TraceIsTracked'
  BY <1>1, <1>2, <1>3 DEF LoopInv, TraceIsTracked
<1>. QED BY <1>1, <1>3, <1>4, <1>5, <1>6 DEF LoopInv

LEMMA MoveCursorPreservesLoopInv == LoopInv /\ MoveCursor => LoopInv'
<1>. SUFFICES ASSUME LoopInv, MoveCursor PROVE LoopInv'
  OBVIOUS
<1>1. /\ cursor' \in SessionDates
      /\ UNCHANGED <<selectedRun, record, recordLoading, failed, trace, schedule, fetches, effects>>
  BY DEF MoveCursor
<1>2. record # NoRun /\ cursor' \in Axis[record]
  BY <1>1 DEF SessionDates, Matches
<1>3. /\ SeenRun' = SeenRun /\ SeenMatch' = SeenMatch /\ SeenCursor' = SeenCursor
      /\ SeenDates' = SeenDates
  BY <1>1 DEF SeenRun, SeenMatch, SeenCursor, SeenDates
<1>. QED BY <1>1, <1>2, <1>3 DEF LoopInv, RecordIsTracked, CadenceIsTracked, TraceIsTracked

LEMMA LoopInvShowsTheRun == LoopInv => LoopShowsTheRun
<1>. SUFFICES ASSUME LoopInv PROVE LoopShowsTheRun
  OBVIOUS
<1>1. ASSUME NEW f \in fetches, f[1] = "trace" PROVE f[3] \in Axis[f[2]]
  <2>1. f = <<"trace", SeenRun, SeenCursor>>
    BY <1>1 DEF LoopInv
  <2>. QED BY <1>1, <2>1 DEF LoopInv, TraceIsTracked
<1>2. ASSUME fetches = {}, effects = Dependencies
      PROVE  /\ ~recordLoading
             /\ selectedRun # NoRun => Matches \/ (record = NoRun /\ failed = selectedRun)
             /\ Matches => /\ schedule = selectedRun
                           /\ IF SessionDates = {} THEN cursor = 0
                              ELSE OnAxis /\ trace = <<selectedRun, cursor>>
  <2>1. /\ SeenRun = selectedRun /\ SeenMatch = Matches /\ SeenCursor = cursor
        /\ SeenDates = SessionDates
    BY <1>2 DEF SeenRun, SeenMatch, SeenCursor, SeenDates, Dependencies
  <2>2. ~recordLoading
    BY <1>2 DEF LoopInv, RecordIsTracked
  <2>3. selectedRun # NoRun => Matches \/ (record = NoRun /\ failed = selectedRun)
    BY <2>1, <2>2 DEF LoopInv, RecordIsTracked, Matches
  <2>4. Matches => schedule = selectedRun
    BY <1>2, <2>1 DEF LoopInv, CadenceIsTracked
  <2>5. Matches => IF SessionDates = {} THEN cursor = 0
                   ELSE OnAxis /\ trace = <<selectedRun, cursor>>
    BY <1>2, <2>1 DEF LoopInv, RecordIsTracked, TraceIsTracked, Matches, SessionDates, OnAxis
  <2>. QED BY <2>2, <2>3, <2>4, <2>5
<1>. QED BY <1>1, <1>2 DEF LoopShowsTheRun

\* Whatever runs are selected, by the user or by an answer that comes late, and
\* in whatever order records, traces and cadences arrive: a trace is only asked
\* for a session of its run, and at rest the panes show one run, whole
\* (useDebugLoopState.ts).
THEOREM LoopAlwaysShowsTheRun == SessionSpec => []LoopShowsTheRun
<1>1. SessionInit => LoopInv
  BY InitEstablishesLoopInv DEF SessionInit
<1>2. LoopInv /\ [SessionNext]_sessionVars => LoopInv'
  <2>. SUFFICES ASSUME LoopInv, [SessionNext]_sessionVars PROVE LoopInv'
    OBVIOUS
  <2>1. ASSUME NEW document, Enter(document) PROVE LoopInv'
    BY <2>1, SelectPreservesLoopInv DEF Enter
  <2>2. CASE SelectRun
    BY <2>2, SelectPreservesLoopInv DEF SelectRun
  <2>3. CASE LoopNext
    BY <2>3, EffectsPreserveLoopInv, RecordAnsweredPreservesLoopInv,
       OtherAnswersPreserveLoopInv, MoveCursorPreservesLoopInv DEF LoopNext
  <2>4. CASE UNCHANGED loopVars
    BY <2>4 DEF loopVars, LoopInv, SeenRun, SeenMatch, SeenCursor, SeenDates, RecordIsTracked,
       CadenceIsTracked, TraceIsTracked
  <2>5. CASE New \/ OpenAnswered
    BY <2>1, <2>4, <2>5 DEF New, OpenAnswered
  <2>6. CASE Open \/ Home \/ Edit \/ Save \/ SaveAnswered \/ Extract \/ ExtractAnswered
    BY <2>4, <2>6 DEF Open, Home, Edit, Save, SaveAnswered, Extract, ExtractAnswered
  <2>7. CASE SwitchTab \/ Validate \/ ValidateAnswered \/ Submit
    BY <2>4, <2>7 DEF SwitchTab, Validate, ValidateAnswered, Submit
  <2>8. CASE UNCHANGED sessionVars
    BY <2>4, <2>8 DEF sessionVars
  <2>. QED BY <2>2, <2>3, <2>5, <2>6, <2>7, <2>8 DEF SessionNext
<1>. QED BY <1>1, <1>2, LoopInvShowsTheRun, PTL DEF SessionSpec
=============================================================================
