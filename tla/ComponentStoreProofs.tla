------------------------ MODULE ComponentStoreProofs ------------------------
(***************************************************************************)
(* The stored components stay sound, for any number of clients, keys and   *)
(* definitions: however the walks and saves of concurrent requests         *)
(* interleave, every stored definition would pass its own diagnosis.  The  *)
(* store only grows and keys are unique, so the closure that a save was    *)
(* diagnosed with is the closure it keeps (SoundSetsSuffice).              *)
(***************************************************************************)
EXTENDS ComponentStore, SequenceTheorems, TLAPS

\* Nothing is unavailable when every pin is the key of a definition at hand.
LEMMA AvailablePins ==
    ASSUME NEW D
    PROVE  Unavailable(D) = {} <=> \A d \in D : \A key \in PinnedBy(d) : \E e \in D : e.key = key
<1>1. \A key : key \in Unavailable(D) <=>
        (\E d \in D : key \in PinnedBy(d)) /\ key \notin KeysOf(D)
  BY DEF Unavailable
<1>2. \A key : key \in KeysOf(D) <=> \E e \in D : e.key = key
  BY DEF KeysOf
<1>. QED BY <1>1, <1>2

\* A diagnosis within U passes if some sound set of U's definitions holds the
\* root: what the root reaches lies in that set.
LEMMA SoundSetsSuffice ==
    ASSUME NEW U, NEW D \in SUBSET U, NEW root \in D,
           \A d, e \in U : d.key = e.key => d = e,
           Sound(D)
    PROVE  Diagnosed(root, U)
<1>. DEFINE others == {d \in U : d.key # root.key}
            reached == Closure(root, {root} \cup others)
            PinnedIn(d, S) == \A e \in U : e.key \in PinnedBy(d) => e \in S
            IsClosed(S) == PinnedIn(root, S) /\ \A d \in S : PinnedIn(d, S)
<1>1. {root} \cup others = U
  OBVIOUS
<1>2. reached = {d \in U : \A S \in SUBSET U : IsClosed(S) => d \in S}
  BY <1>1 DEF Closure
<1>3. ASSUME NEW d \in D, NEW e \in U, e.key \in PinnedBy(d)
      PROVE  e \in D
  <2>1. \E other \in D : other.key = e.key
    BY <1>3, AvailablePins DEF Sound
  <2>. QED BY <2>1
<1>4. IsClosed(D)
  BY <1>3
<1>5. reached \subseteq D
  BY <1>2, <1>4
<1>. DEFINE closure == {root} \cup reached
<1>6. closure \subseteq D
  BY <1>5
<1>7. Unavailable(closure) = {}
  <2>. SUFFICES ASSUME NEW d \in closure, NEW key \in PinnedBy(d)
                PROVE  \E e \in closure : e.key = key
    BY AvailablePins
  <2>1. PICK e \in D : e.key = key
    BY <1>6, AvailablePins DEF Sound
  <2>2. e \in reached
    <3>1. ASSUME NEW S \in SUBSET U, IsClosed(S)
          PROVE  e \in S
      <4>1. d = root \/ d \in S
        BY <1>2, <3>1
      <4>. QED BY <2>1, <3>1, <4>1
    <3>. QED BY <1>2, <3>1
  <2>. QED BY <2>1, <2>2
<1>8. Acyclic(closure)
  BY <1>6 DEF Sound, Acyclic
<1>9. /\ \A d \in closure : d.flaw # "structural"
      /\ \A d \in closure : WellWired(d, closure)
  BY <1>6 DEF Sound, WellWired
<1>10. Sound(closure)
  BY <1>7, <1>8, <1>9 DEF Sound
<1>. QED BY <1>10 DEF Diagnosed

\* Soundness survives the growth of the store.
LEMMA DiagnosisIsStable ==
    ASSUME NEW U, NEW V \in SUBSET U, NEW root \in U, Diagnosed(root, V),
           \A d, e \in U : d.key = e.key => d = e
    PROVE  Diagnosed(root, U)
<1>. DEFINE others == {d \in V : d.key # root.key}
            D == {root} \cup Closure(root, {root} \cup others)
<1>1. Sound(D)
  BY DEF Diagnosed
<1>2. D \subseteq U
  BY DEF Closure
<1>. QED BY <1>1, <1>2, SoundSetsSuffice

-----------------------------------------------------------------------------
LEMMA InitEstablishesSaveInv == Init => SaveInv
<1>. SUFFICES ASSUME Init PROVE SaveInv
  OBVIOUS
<1>1. TypeOK
  BY ComponentStoreAssumption DEF Init, TypeOK
<1>2. KeysAreUnique /\ StoredStaySound /\ SavesAreDiagnosed
  BY DEF Init, KeysAreUnique, StoredStaySound, SavesAreDiagnosed
<1>3. WalksBringStored
  BY DEF Init, WalksBringStored, ToSet
<1>. QED BY <1>1, <1>2, <1>3 DEF SaveInv

\* What a request pins are keys.
LEMMA RefKeysType ==
    ASSUME NEW r \in Definitions \cup Documents
    PROVE  RefKeys(r) \in Seq(Keys)
<1>1. r.component_refs \in Seq([key : Keys, accepts : SUBSET Interfaces])
  BY ComponentStoreAssumption DEF Refs
<1>2. RefKeys(r) = [i \in 1 .. Len(r.component_refs) |-> r.component_refs[i].key]
  BY <1>1 DEF RefKeys
<1>3. ASSUME NEW i \in 1 .. Len(r.component_refs)
      PROVE  r.component_refs[i].key \in Keys
  <2>1. r.component_refs[i] \in [key : Keys, accepts : SUBSET Interfaces]
    BY <1>1, ElementOfSeq
  <2>. QED BY <2>1
<1>. QED BY <1>1, <1>2, <1>3

LEMMA TypePreserved == SaveInv /\ [Next]_vars => TypeOK'
<1>. SUFFICES ASSUME SaveInv, [Next]_vars PROVE TypeOK'
  OBVIOUS
<1>. USE DEF SaveInv, TypeOK
<1>1. ASSUME NEW c \in Clients, NEW r \in Definitions \cup Documents, Ask(c, r)
      PROVE  TypeOK'
  BY <1>1, RefKeysType, ComponentStoreAssumption DEF Ask
<1>2. ASSUME NEW c \in Clients, Drop(c)
      PROVE  TypeOK'
  BY <1>2 DEF Drop
<1>3. ASSUME NEW c \in Clients, Fetch(c)
      PROVE  TypeOK'
  <2>1. PICK d \in Found(Head(queue[c])) :
          /\ catalog' = [catalog EXCEPT ![c] = Append(@, d)]
          /\ queue' = [queue EXCEPT ![c] = Tail(@) \o RefKeys(d)]
    BY <1>3 DEF Fetch
  <2>2. d \in Definitions /\ RefKeys(d) \in Seq(Keys)
    BY RefKeysType DEF Found
  <2>. QED BY <1>3, <2>1, <2>2 DEF Fetch
<1>4. ASSUME NEW c \in Clients, Resolve(c)
      PROVE  TypeOK'
  <2>1. ToSet(catalog[c]) \subseteq Definitions
    BY DEF ToSet
  <2>2. request[c] \in Documents /\ UNCHANGED <<stored, requests, request, walk, existed>>
    BY <1>4 DEF Resolve
  <2>3. \E a \in {"resolved", "unresolved"} : Answered(c, a)
    BY <1>4 DEF Resolve
  <2>4. \A r \in resolved' : r.document \in Documents /\ r.to \subseteq Definitions
    BY <1>4, <2>1, <2>2 DEF Resolve
  <2>. QED BY <2>2, <2>3, <2>4 DEF Answered, walk
<1>5. ASSUME NEW c \in Clients, Diagnose(c)
      PROVE  TypeOK'
  BY <1>5 DEF Diagnose, Answered, walk
<1>6. ASSUME NEW c \in Clients, LooksWhetherItExists(c)
      PROVE  TypeOK'
  BY <1>6 DEF LooksWhetherItExists, walk
<1>7. ASSUME NEW c \in Clients, Save(c)
      PROVE  TypeOK'
  BY <1>7 DEF Save, Answered, Acknowledgement, walk
<1>8. ASSUME NEW c \in Clients, Insert(c)
      PROVE  TypeOK'
  BY <1>8 DEF SavesAreDiagnosed, Insert, Answered, Acknowledgement, walk
<1>9. CASE UNCHANGED vars
  BY <1>9 DEF vars, walk
<1>. QED BY <1>1, <1>2, <1>3, <1>4, <1>5, <1>6, <1>7, <1>8, <1>9 DEF Next, Step

\* Steps that neither store, fetch nor move a save forward keep the invariant.
LEMMA OthersPreserveSaveInv ==
    ASSUME SaveInv, TypeOK', NEW c \in Clients,
           UNCHANGED <<stored, catalog>>,
           \A other \in Clients : other # c =>
              pc'[other] = pc[other] /\ request'[other] = request[other],
           \/ pc'[c] \notin {"exists", "save", "insert"}
           \/ pc[c] \in {"exists", "save", "insert"} /\ request'[c] = request[c]
    PROVE  SaveInv'
<1>1. KeysAreUnique' /\ WalksBringStored' /\ StoredStaySound'
  BY DEF SaveInv, KeysAreUnique, WalksBringStored, StoredStaySound
<1>2. SavesAreDiagnosed'
  BY DEF SaveInv, SavesAreDiagnosed
<1>. QED BY <1>1, <1>2 DEF SaveInv

\* A walk of another definition changes what one client has fetched.
LEMMA FetchPreservesSaveInv ==
    ASSUME SaveInv, TypeOK', NEW c \in Clients, Fetch(c)
    PROVE  SaveInv'
<1>1. PICK d \in stored : catalog' = [catalog EXCEPT ![c] = Append(@, d)]
  BY DEF Fetch, Found
<1>2. UNCHANGED <<stored, pc, request>> /\ pc[c] = "walk"
  BY DEF Fetch
<1>3. KeysAreUnique' /\ StoredStaySound'
  BY <1>2 DEF SaveInv, KeysAreUnique, StoredStaySound
<1>4. WalksBringStored'
  <2>. SUFFICES ASSUME NEW other \in Clients
                PROVE  ToSet(catalog'[other]) \subseteq stored
    BY <1>2 DEF WalksBringStored
  <2>1. CASE other = c
    <3>1. catalog[c] \in Seq(Definitions) /\ d \in Definitions
      BY DEF SaveInv, TypeOK
    <3>2. catalog'[c] = Append(catalog[c], d)
      BY <1>1 DEF SaveInv, TypeOK
    <3>3. \A i \in 1 .. Len(catalog[c]) : catalog[c][i] \in stored
      BY <3>1 DEF SaveInv, WalksBringStored, ToSet
    <3>4. \A i \in 1 .. Len(catalog'[c]) : catalog'[c][i] \in stored
      BY <3>1, <3>2, <3>3
    <3>5. DOMAIN catalog'[c] = 1 .. Len(catalog'[c])
      BY <3>1, <3>2
    <3>. QED BY <2>1, <3>4, <3>5 DEF ToSet
  <2>2. CASE other # c
    BY <2>2, <1>1 DEF SaveInv, TypeOK, WalksBringStored
  <2>. QED BY <2>1, <2>2
<1>5. SavesAreDiagnosed'
  BY <1>1, <1>2 DEF SaveInv, SavesAreDiagnosed, TypeOK
<1>. QED BY <1>3, <1>4, <1>5 DEF SaveInv

\* A definition that passes moves on with its diagnosis.
LEMMA DiagnosePreservesSaveInv ==
    ASSUME SaveInv, TypeOK', NEW c \in Clients, Diagnose(c)
    PROVE  SaveInv'
<1>1. UNCHANGED <<stored, catalog, request>> /\ request[c] \in Definitions
  BY DEF Diagnose, walk
<1>2. \A other \in Clients : other # c => pc'[other] = pc[other]
  BY DEF Diagnose, Answered, SaveInv, TypeOK
<1>3. pc'[c] \in {"exists", "save", "insert"} => Diagnosed(request[c], ToSet(catalog[c]))
  BY DEF Diagnose, Answered, SaveInv, TypeOK
<1>4. KeysAreUnique' /\ WalksBringStored' /\ StoredStaySound'
  BY <1>1 DEF SaveInv, KeysAreUnique, WalksBringStored, StoredStaySound
<1>5. SavesAreDiagnosed'
  BY <1>1, <1>2, <1>3 DEF SaveInv, SavesAreDiagnosed
<1>. QED BY <1>4, <1>5 DEF SaveInv

\* The heart of the matter: the closure a definition was diagnosed with is
\* still its closure when it is inserted, and it enters no other closure.
LEMMA InsertPreservesSaveInv ==
    ASSUME SaveInv, TypeOK', NEW c \in Clients, Insert(c)
    PROVE  SaveInv'
<1>. DEFINE r == request[c]
<1>1. pc[c] = "insert" /\ pc'[c] = "idle" /\ UNCHANGED <<request, catalog>>
  BY DEF Insert, Answered, SaveInv, TypeOK, walk
<1>2. \A other \in Clients : other # c => pc'[other] = pc[other]
  BY DEF Insert, Answered, SaveInv, TypeOK
<1>3. CASE stored' = stored
  BY <1>1, <1>2, <1>3, OthersPreserveSaveInv
<1>4. CASE r.key \notin KeysOf(stored) /\ stored' = stored \cup {r}
  <2>1. KeysAreUnique'
    BY <1>4 DEF SaveInv, KeysAreUnique, KeysOf
  <2>2. WalksBringStored'
    BY <1>1, <1>4 DEF SaveInv, WalksBringStored
  <2>3. SavesAreDiagnosed'
    BY <1>1, <1>2 DEF SaveInv, SavesAreDiagnosed
  <2>4. Diagnosed(r, ToSet(catalog[c])) /\ ToSet(catalog[c]) \subseteq stored
    BY <1>1 DEF SaveInv, SavesAreDiagnosed, WalksBringStored
  <2>5. Diagnosed(r, stored')
    BY <1>4, <2>1, <2>4, DiagnosisIsStable DEF KeysAreUnique
  <2>6. ASSUME NEW d \in stored
        PROVE  Diagnosed(d, stored')
    <3>1. Diagnosed(d, stored)
      BY DEF SaveInv, StoredStaySound
    <3>. QED BY <1>4, <2>1, <3>1, DiagnosisIsStable DEF KeysAreUnique
  <2>7. StoredStaySound'
    BY <1>4, <2>5, <2>6 DEF StoredStaySound
  <2>. QED BY <2>1, <2>2, <2>3, <2>7 DEF SaveInv
<1>. QED BY <1>3, <1>4 DEF Insert

LEMMA NextPreservesSaveInv == SaveInv /\ [Next]_vars => SaveInv'
<1>. SUFFICES ASSUME SaveInv, [Next]_vars PROVE SaveInv'
  OBVIOUS
<1>. TypeOK'
  BY TypePreserved
<1>1. ASSUME NEW c \in Clients, NEW r \in Definitions \cup Documents, Ask(c, r)
      PROVE  SaveInv'
  <2>1. KeysAreUnique' /\ StoredStaySound'
    BY <1>1 DEF Ask, SaveInv, KeysAreUnique, StoredStaySound
  <2>2. \A other \in Clients : catalog'[other] = catalog[other] \/ catalog'[other] = <<>>
    BY <1>1 DEF Ask, SaveInv, TypeOK
  <2>3. ToSet(<<>>) = {}
    BY DEF ToSet
  <2>4. WalksBringStored'
    BY <1>1, <2>2, <2>3 DEF Ask, SaveInv, WalksBringStored
  <2>5. SavesAreDiagnosed'
    <3>. SUFFICES ASSUME NEW other \in Clients, pc'[other] \in {"exists", "save", "insert"}
                  PROVE  /\ request'[other] \in Definitions
                         /\ Diagnosed(request'[other], ToSet(catalog'[other]))
      BY DEF SavesAreDiagnosed
    <3>1. other # c
      BY <1>1 DEF Ask, SaveInv, TypeOK
    <3>2. /\ pc'[other] = pc[other] /\ request'[other] = request[other]
          /\ catalog'[other] = catalog[other]
      BY <1>1, <3>1 DEF Ask, SaveInv, TypeOK
    <3>. QED BY <3>2 DEF SaveInv, SavesAreDiagnosed
  <2>. QED BY <2>1, <2>4, <2>5 DEF SaveInv
<1>2. ASSUME NEW c \in Clients, Drop(c)
      PROVE  SaveInv'
  BY <1>2, OthersPreserveSaveInv DEF Drop
<1>3. ASSUME NEW c \in Clients, Fetch(c)
      PROVE  SaveInv'
  BY <1>3, FetchPreservesSaveInv
<1>4. ASSUME NEW c \in Clients, Resolve(c)
      PROVE  SaveInv'
  <2>1. UNCHANGED <<stored, catalog, request>>
    BY <1>4 DEF Resolve, walk
  <2>2. pc' = [pc EXCEPT ![c] = "idle"]
    BY <1>4 DEF Resolve, Answered
  <2>. QED BY <2>1, <2>2, OthersPreserveSaveInv DEF SaveInv, TypeOK
<1>5. ASSUME NEW c \in Clients, Diagnose(c)
      PROVE  SaveInv'
  BY <1>5, DiagnosePreservesSaveInv
<1>6. ASSUME NEW c \in Clients, LooksWhetherItExists(c)
      PROVE  SaveInv'
  <2>1. UNCHANGED <<stored, catalog, request>> /\ pc[c] = "exists"
    BY <1>6 DEF LooksWhetherItExists, walk
  <2>2. pc' = [pc EXCEPT ![c] = "save"]
    BY <1>6 DEF LooksWhetherItExists
  <2>. QED BY <2>1, <2>2, OthersPreserveSaveInv DEF SaveInv, TypeOK
<1>7. ASSUME NEW c \in Clients, Save(c)
      PROVE  SaveInv'
  <2>1. UNCHANGED <<stored, catalog, request>> /\ pc[c] = "save"
    BY <1>7 DEF Save, walk
  <2>2. \E step \in {"idle", "insert"} : pc' = [pc EXCEPT ![c] = step]
    BY <1>7 DEF Save, Answered
  <2>. QED BY <2>1, <2>2, OthersPreserveSaveInv DEF SaveInv, TypeOK
<1>8. ASSUME NEW c \in Clients, Insert(c)
      PROVE  SaveInv'
  BY <1>8, InsertPreservesSaveInv
<1>9. CASE UNCHANGED vars
  BY <1>9 DEF vars, walk, SaveInv, KeysAreUnique, WalksBringStored, StoredStaySound,
              SavesAreDiagnosed
<1>. QED BY <1>1, <1>2, <1>3, <1>4, <1>5, <1>6, <1>7, <1>8, <1>9 DEF Next, Step

\* The invariant of the saves holds in every state.
THEOREM SavesInvariant == Spec => []SaveInv
<1>1. Init => SaveInv
  BY InitEstablishesSaveInv
<1>2. SaveInv /\ [Next]_vars => SaveInv'
  BY NextPreservesSaveInv
<1>. QED BY <1>1, <1>2, PTL DEF Spec

\* Whatever is saved concurrently, the stored components are closed, acyclic
\* and fit each other, so no stored component can fail to resolve: the
\* diagnose-before-save of routes/components.py does what it is for.
THEOREM StoreStaysSound == Spec => []StoredStaySound
<1>1. SaveInv => StoredStaySound
  BY DEF SaveInv
<1>. QED BY <1>1, SavesInvariant, PTL

LEMMA NextPreservesAcknowledged ==
    SaveInv /\ AcknowledgedIsStored /\ [Next]_vars => AcknowledgedIsStored'
<1>. SUFFICES ASSUME SaveInv, AcknowledgedIsStored, [Next]_vars,
                     NEW client \in Clients, answer'[client] \in {"ok", "created"}
              PROVE  request'[client] \in stored'
  BY DEF AcknowledgedIsStored
<1>. USE DEF SaveInv, TypeOK
<1>1. stored \subseteq stored'
  BY DEF Next, Step, Ask, Drop, Fetch, Resolve, Diagnose, LooksWhetherItExists, Save, Insert,
         vars
<1>2. CASE answer'[client] = answer[client] /\ request'[client] = request[client]
  BY <1>1, <1>2 DEF AcknowledgedIsStored
<1>3. ASSUME NEW c \in Clients, NEW r \in Definitions \cup Documents, Ask(c, r)
      PROVE  request'[client] \in stored'
  BY <1>1, <1>2, <1>3 DEF Ask
<1>4. ASSUME NEW c \in Clients, Drop(c) \/ Fetch(c) \/ LooksWhetherItExists(c)
      PROVE  request'[client] \in stored'
  BY <1>2, <1>4 DEF Drop, Fetch, LooksWhetherItExists
<1>5. ASSUME NEW c \in Clients, Resolve(c) \/ Diagnose(c)
      PROVE  request'[client] \in stored'
  BY <1>2, <1>5 DEF Resolve, Diagnose, Answered
<1>6. ASSUME NEW c \in Clients, Save(c)
      PROVE  request'[client] \in stored'
  BY <1>2, <1>6 DEF Save, Answered
<1>7. ASSUME NEW c \in Clients, Insert(c)
      PROVE  request'[client] \in stored'
  BY <1>2, <1>7 DEF Insert, Answered
<1>8. CASE UNCHANGED vars
  BY <1>2, <1>8 DEF vars
<1>. QED BY <1>3, <1>4, <1>5, <1>6, <1>7, <1>8 DEF Next, Step

\* An acknowledged definition is stored, with the content that was sent.
THEOREM AcknowledgedStaysStored == Spec => []AcknowledgedIsStored
<1>1. Init => AcknowledgedIsStored
  BY DEF Init, AcknowledgedIsStored
<1>2. SaveInv /\ AcknowledgedIsStored /\ [Next]_vars => AcknowledgedIsStored'
  BY NextPreservesAcknowledged
<1>. QED BY <1>1, <1>2, SavesInvariant, PTL DEF Spec

-----------------------------------------------------------------------------
\* The walks.  Until a walk ends, what it has fetched is what the request
\* reaches by it, and what is still to be met is queued.
PinnedByAny(definitions) == UNION {PinnedBy(d) : d \in definitions}

Walking(c) ==
    LET fetched == ToSet(catalog[c])
        pinned  == PinnedBy(request[c]) \cup PinnedByAny(fetched)
    IN  pc[c] = "walk" =>
            /\ request[c] \in Definitions \cup Documents
            /\ IsInjective(catalog[c])
            /\ KeysOf(fetched) \subseteq visited[c]
            /\ fetched \subseteq Closure(request[c], fetched)
            /\ ToSet(queue[c]) \subseteq pinned
            /\ pinned \subseteq visited[c] \cup ToSet(queue[c])

WalksInv == \A c \in Clients : Walking(c)

\* What a document was resolved to is stored, closed and reached from it.
ResolutionsInv ==
    \A r \in resolved :
        /\ r.to \subseteq stored /\ r.to \subseteq Closure(r.document, r.to)
        /\ PinnedBy(r.document) \cup PinnedByAny(r.to) \subseteq KeysOf(r.to)

\* S lacks nothing of `definitions` that root or a member of S pins.
ClosedIn(S, root, definitions) ==
    \A e \in definitions : e.key \in PinnedBy(root) \cup PinnedByAny(S) => e \in S

LEMMA ClosureIs ==
    ASSUME NEW root, NEW U
    PROVE  Closure(root, U) = {d \in U : \A S \in SUBSET U : ClosedIn(S, root, U) => d \in S}
<1>. DEFINE PinnedIn(d, S) == \A e \in U : e.key \in PinnedBy(d) => e \in S
            IsClosed(S) == PinnedIn(root, S) /\ \A d \in S : PinnedIn(d, S)
<1>1. \A S : ClosedIn(S, root, U) <=> IsClosed(S)
  BY DEF ClosedIn, PinnedByAny
<1>2. Closure(root, U) = {d \in U : \A S \in SUBSET U : IsClosed(S) => d \in S}
  BY DEF Closure
<1>. QED BY <1>1, <1>2

\* What is reached among fewer definitions is reached among more.
LEMMA ClosureGrows ==
    ASSUME NEW root, NEW U, NEW C \in SUBSET U
    PROVE  Closure(root, C) \subseteq Closure(root, U)
<1>. SUFFICES ASSUME NEW d \in Closure(root, C), NEW S \in SUBSET U, ClosedIn(S, root, U)
              PROVE  d \in S
  BY ClosureIs
<1>1. ClosedIn(S \cap C, root, C)
  BY DEF ClosedIn, PinnedByAny
<1>. QED BY <1>1, ClosureIs

\* What a member pins is a member.
LEMMA ClosureTakesIn ==
    ASSUME NEW root, NEW U, NEW e \in U,
           e.key \in PinnedBy(root) \cup PinnedByAny(Closure(root, U))
    PROVE  e \in Closure(root, U)
<1>. SUFFICES ASSUME NEW S \in SUBSET U, ClosedIn(S, root, U)
              PROVE  e \in S
  BY ClosureIs
<1>1. Closure(root, U) \subseteq S
  BY ClosureIs
<1>. QED BY <1>1 DEF ClosedIn, PinnedByAny

\* A set that reaches all of itself and lacks nothing it pins is the closure.
LEMMA ClosureIsFetched ==
    ASSUME NEW root, NEW U, NEW C \in SUBSET U, C \subseteq Closure(root, C), ClosedIn(C, root, U)
    PROVE  Closure(root, U) = C
  BY ClosureGrows, ClosureIs

LEMMA SequencesAsSets ==
    ASSUME NEW S, NEW s \in Seq(S)
    PROVE  /\ ToSet(s) = Range(s)
           /\ DOMAIN s = 1 .. Len(s) /\ Len(s) \in Nat
  BY LenProperties DEF ToSet, Range

LEMMA ToSetOfTail ==
    ASSUME NEW S, NEW s \in Seq(S), s # <<>>
    PROVE  ToSet(s) = {Head(s)} \cup ToSet(Tail(s)) /\ Tail(s) \in Seq(S)
<1>. DEFINE t == Tail(s)
<1>1. t \in Seq(S) /\ Len(t) = Len(s) - 1 /\ \A i \in 1 .. Len(t) : t[i] = s[i + 1]
  BY HeadTailProperties
<1>2. Len(s) \in Nat \ {0} /\ DOMAIN s = 1 .. Len(s) /\ Head(s) = s[1]
  BY LenProperties, EmptySeq
<1>. HIDE DEF t
<1>3. DOMAIN t = 1 .. Len(t) /\ Len(t) \in Nat
  BY <1>1, LenProperties
<1>4. \A i \in 1 .. Len(t) : i + 1 \in 1 .. Len(s)
  BY <1>1, <1>2, <1>3
<1>5. ASSUME NEW i \in 1 .. Len(s), i # 1
      PROVE  i - 1 \in 1 .. Len(t) /\ t[i - 1] = s[i]
  <2>1. i - 1 \in 1 .. Len(t) /\ (i - 1) + 1 = i
    BY <1>1, <1>2, <1>5
  <2>. QED BY <1>1, <2>1
<1>6. \A x \in ToSet(s) : x = s[1] \/ x \in ToSet(t)
  BY <1>2, <1>3, <1>5 DEF ToSet
<1>7. ToSet(t) \subseteq ToSet(s)
  BY <1>1, <1>2, <1>3, <1>4 DEF ToSet
<1>8. s[1] \in ToSet(s)
  BY <1>2 DEF ToSet
<1>. QED BY <1>1, <1>2, <1>6, <1>7, <1>8 DEF t

LEMMA ToSetOfConcat ==
    ASSUME NEW S, NEW s \in Seq(S), NEW t \in Seq(S)
    PROVE  ToSet(s \o t) = ToSet(s) \cup ToSet(t)
<1>1. Range(s \o t) = Range(s) \cup Range(t)
  BY RangeConcatenation
<1>. QED BY <1>1 DEF ToSet, Range

LEMMA ToSetOfAppend ==
    ASSUME NEW S, NEW s \in Seq(S), NEW e \in S
    PROVE  /\ ToSet(Append(s, e)) = ToSet(s) \cup {e}
           /\ IsInjective(s) /\ e \notin ToSet(s) => IsInjective(Append(s, e))
<1>. DEFINE t == Append(s, e)
<1>1. /\ t \in Seq(S) /\ Len(t) = Len(s) + 1
      /\ \A i \in 1 .. Len(s) : t[i] = s[i]
      /\ t[Len(s) + 1] = e
  BY AppendProperties
<1>. HIDE DEF t
<1>2. DOMAIN t = 1 .. Len(t) /\ DOMAIN s = 1 .. Len(s) /\ Len(s) \in Nat
  BY <1>1, LenProperties
<1>3. \A i \in 1 .. Len(t) : i = Len(s) + 1 \/ i \in 1 .. Len(s)
  BY <1>1, <1>2
<1>4. \A i \in 1 .. Len(s) : i \in 1 .. Len(t)
  BY <1>1, <1>2
<1>5. Len(s) + 1 \in 1 .. Len(t)
  BY <1>1, <1>2
<1>6. ToSet(t) = ToSet(s) \cup {e}
  BY <1>1, <1>2, <1>3, <1>4, <1>5 DEF ToSet
<1>7. IsInjective(s) /\ e \notin ToSet(s) => IsInjective(t)
  BY <1>1, <1>2, <1>3, <1>4 DEF ToSet, IsInjective
<1>. QED BY <1>6, <1>7 DEF t

\* The queue of a request starts with what it pins.
LEMMA RefKeysArePins ==
    ASSUME NEW r \in Definitions \cup Documents
    PROVE  ToSet(RefKeys(r)) = PinnedBy(r)
<1>1. r.component_refs \in Seq([key : Keys, accepts : SUBSET Interfaces])
  BY ComponentStoreAssumption DEF Refs
<1>2. DOMAIN RefKeys(r) = DOMAIN r.component_refs
  BY DEF RefKeys
<1>. QED BY <1>2 DEF RefKeys, PinnedBy, ToSet

\* Another client's walk, and a client that does not walk.
LEMMA WalkOfAnother ==
    ASSUME WalksInv, NEW c \in Clients,
           \/ pc'[c] # "walk"
           \/ /\ pc'[c] = pc[c] /\ request'[c] = request[c] /\ queue'[c] = queue[c]
              /\ visited'[c] = visited[c] /\ catalog'[c] = catalog[c]
    PROVE  Walking(c)'
  BY DEF WalksInv, Walking

LEMMA AskStartsWalk ==
    ASSUME TypeOK, NEW c \in Clients, NEW r \in Definitions \cup Documents, Ask(c, r)
    PROVE  Walking(c)'
<1>1. /\ request'[c] = r /\ catalog'[c] = <<>> /\ visited'[c] = {} /\ queue'[c] = RefKeys(r)
  BY DEF Ask, TypeOK
<1>2. ToSet(<<>>) = {} /\ IsInjective(<<>>) /\ KeysOf({}) = {} /\ PinnedByAny({}) = {}
  BY DEF ToSet, IsInjective, KeysOf, PinnedByAny
<1>3. ToSet(RefKeys(r)) = PinnedBy(r)
  BY RefKeysArePins
<1>. QED BY <1>1, <1>2, <1>3 DEF Walking

LEMMA DropKeepsWalk ==
    ASSUME TypeOK, WalksInv, NEW c \in Clients, Drop(c)
    PROVE  Walking(c)'
<1>. DEFINE key == Head(queue[c])
<1>1. /\ pc[c] = "walk" /\ queue[c] # <<>> /\ queue[c] \in Seq(Keys)
      /\ request'[c] = request[c] /\ catalog'[c] = catalog[c]
      /\ visited'[c] = visited[c] \cup {key} /\ queue'[c] = Tail(queue[c])
  BY DEF Drop, TypeOK
<1>2. ToSet(queue[c]) = {key} \cup ToSet(Tail(queue[c]))
  BY <1>1, ToSetOfTail
<1>. HIDE DEF key
<1>. QED BY <1>1, <1>2 DEF WalksInv, Walking

LEMMA FetchKeepsWalk ==
    ASSUME TypeOK, WalksInv, NEW c \in Clients, Fetch(c)
    PROVE  Walking(c)'
<1>. DEFINE key == Head(queue[c])
            fetched == ToSet(catalog[c])
            root == request[c]
<1>1. PICK d \in Found(key) :
        /\ catalog' = [catalog EXCEPT ![c] = Append(@, d)]
        /\ queue' = [queue EXCEPT ![c] = Tail(@) \o RefKeys(d)]
  BY DEF Fetch
<1>2. /\ pc[c] = "walk" /\ queue[c] # <<>> /\ key \notin visited[c]
      /\ queue[c] \in Seq(Keys) /\ catalog[c] \in Seq(Definitions)
      /\ request'[c] = root /\ catalog'[c] = Append(catalog[c], d)
      /\ visited'[c] = visited[c] \cup {key} /\ queue'[c] = Tail(queue[c]) \o RefKeys(d)
  BY <1>1 DEF Fetch, TypeOK
<1>3. d \in Definitions /\ d.key = key
  BY DEF Found, TypeOK
<1>4. /\ root \in Definitions \cup Documents /\ IsInjective(catalog[c])
      /\ KeysOf(fetched) \subseteq visited[c] /\ fetched \subseteq Closure(root, fetched)
      /\ ToSet(queue[c]) \subseteq PinnedBy(root) \cup PinnedByAny(fetched)
      /\ PinnedBy(root) \cup PinnedByAny(fetched) \subseteq visited[c] \cup ToSet(queue[c])
  BY <1>2 DEF WalksInv, Walking
<1>5. ToSet(queue[c]) = {key} \cup ToSet(Tail(queue[c])) /\ Tail(queue[c]) \in Seq(Keys)
  BY <1>2, ToSetOfTail
<1>6. ToSet(RefKeys(d)) = PinnedBy(d) /\ RefKeys(d) \in Seq(Keys)
  BY <1>3, RefKeysArePins, RefKeysType
<1>7. ToSet(queue'[c]) = ToSet(Tail(queue[c])) \cup PinnedBy(d)
  <2>. DEFINE tail == Tail(queue[c])
              refs == RefKeys(d)
  <2>1. tail \in Seq(Keys) /\ refs \in Seq(Keys) /\ queue'[c] = tail \o refs
    BY <1>2, <1>5, <1>6
  <2>. HIDE DEF tail, refs
  <2>2. ToSet(tail \o refs) = ToSet(tail) \cup ToSet(refs)
    BY <2>1, ToSetOfConcat
  <2>3. ToSet(queue'[c]) = ToSet(tail) \cup ToSet(refs)
    BY <2>1, <2>2
  <2>. QED BY <1>6, <2>3 DEF tail, refs
<1>8. d \notin fetched
  BY <1>2, <1>3, <1>4 DEF KeysOf
<1>9. ToSet(catalog'[c]) = fetched \cup {d} /\ IsInjective(catalog'[c])
  BY <1>2, <1>3, <1>4, <1>8, ToSetOfAppend
<1>. HIDE DEF key, fetched, root
<1>10. fetched \cup {d} \subseteq Closure(root, fetched \cup {d})
  <2>1. fetched \subseteq Closure(root, fetched \cup {d})
    BY <1>4, ClosureGrows
  <2>2. d.key \in PinnedBy(root) \cup PinnedByAny(Closure(root, fetched \cup {d}))
    BY <1>3, <1>4, <1>5, <2>1 DEF PinnedByAny
  <2>3. d \in Closure(root, fetched \cup {d})
    BY <2>2, ClosureTakesIn
  <2>. QED BY <2>1, <2>3
<1>11. KeysOf(fetched \cup {d}) \subseteq visited'[c]
  BY <1>2, <1>3, <1>4 DEF KeysOf
<1>12. PinnedByAny(fetched \cup {d}) = PinnedByAny(fetched) \cup PinnedBy(d)
  BY DEF PinnedByAny
<1>13. /\ ToSet(queue'[c]) \subseteq PinnedBy(root) \cup PinnedByAny(fetched \cup {d})
       /\ PinnedBy(root) \cup PinnedByAny(fetched \cup {d}) \subseteq visited'[c] \cup ToSet(queue'[c])
  BY <1>2, <1>4, <1>5, <1>7, <1>12
<1>. QED BY <1>2, <1>4, <1>9, <1>10, <1>11, <1>13 DEF Walking

LEMMA NextPreservesWalks == TypeOK /\ WalksInv /\ [Next]_vars => WalksInv'
<1>. SUFFICES ASSUME TypeOK, WalksInv, [Next]_vars, NEW client \in Clients
              PROVE  Walking(client)'
  BY DEF WalksInv
<1>1. ASSUME NEW c \in Clients, NEW r \in Definitions \cup Documents, Ask(c, r)
      PROVE  Walking(client)'
  BY <1>1, AskStartsWalk, WalkOfAnother DEF Ask, TypeOK
<1>2. ASSUME NEW c \in Clients, Drop(c)
      PROVE  Walking(client)'
  BY <1>2, DropKeepsWalk, WalkOfAnother DEF Drop, TypeOK
<1>3. ASSUME NEW c \in Clients, Fetch(c)
      PROVE  Walking(client)'
  BY <1>3, FetchKeepsWalk, WalkOfAnother DEF Fetch, TypeOK
<1>4. ASSUME NEW c \in Clients,
             Resolve(c) \/ Diagnose(c) \/ LooksWhetherItExists(c) \/ Save(c) \/ Insert(c)
      PROVE  Walking(client)'
  <2>1. /\ UNCHANGED <<request, walk>>
        /\ \E to \in {"idle", "exists", "save", "insert"} : pc' = [pc EXCEPT ![c] = to]
    BY <1>4 DEF Resolve, Diagnose, LooksWhetherItExists, Save, Insert, Answered
  <2>. QED BY <2>1, WalkOfAnother DEF TypeOK, walk
<1>5. CASE UNCHANGED vars
  BY <1>5, WalkOfAnother DEF vars, walk
<1>. QED BY <1>1, <1>2, <1>3, <1>4, <1>5 DEF Next, Step

LEMMA InitWalks == Init => WalksInv /\ ResolutionsInv
  BY DEF Init, WalksInv, Walking, ResolutionsInv

\* A walk that ended lacks nothing but what was not stored when it looked.
LEMMA EndedWalk ==
    ASSUME SaveInv, WalksInv, NEW c \in Clients, Walked(c)
    PROVE  LET fetched == ToSet(catalog[c])
               missed == visited[c] \ KeysOf(fetched)
           IN  /\ IsInjective(catalog[c])
               /\ fetched \subseteq stored /\ fetched \subseteq Closure(request[c], fetched)
               /\ fetched = Closure(request[c], {d \in stored : d.key \notin missed})
<1>. DEFINE fetched == ToSet(catalog[c])
            missed == visited[c] \ KeysOf(fetched)
            U == {d \in stored : d.key \notin missed}
            root == request[c]
<1>1. /\ IsInjective(catalog[c]) /\ fetched \subseteq Closure(root, fetched)
      /\ PinnedBy(root) \cup PinnedByAny(fetched) \subseteq visited[c]
  <2>1. ToSet(<<>>) = {}
    BY DEF ToSet
  <2>. QED BY <2>1 DEF WalksInv, Walking, Walked
<1>2. fetched \subseteq stored
  BY DEF SaveInv, WalksBringStored
<1>3. \A d \in fetched : d.key \in KeysOf(fetched)
  BY DEF KeysOf
<1>4. fetched \subseteq U
  BY <1>2, <1>3
<1>5. ClosedIn(fetched, root, U)
  <2>. SUFFICES ASSUME NEW e \in U, e.key \in PinnedBy(root) \cup PinnedByAny(fetched)
                PROVE  e \in fetched
    BY DEF ClosedIn
  <2>1. e.key \in KeysOf(fetched)
    BY <1>1
  <2>2. PICK d \in fetched : d.key = e.key
    BY <2>1 DEF KeysOf
  <2>. QED BY <1>2, <2>2 DEF SaveInv, KeysAreUnique
<1>. HIDE DEF fetched, U, root
<1>6. Closure(root, U) = fetched
  BY <1>1, <1>4, <1>5, ClosureIsFetched
<1>. QED BY <1>1, <1>2, <1>6 DEF fetched, U, root

\* closure.py, load_component_catalog: whatever is saved behind the walk's back,
\* it ends with exactly what the request reaches in the store, each definition
\* once, but for the pins that were not stored when the walk asked for them.
THEOREM CatalogStaysTheClosure == Spec => []CatalogIsTheClosure
<1>1. SaveInv /\ WalksInv => CatalogIsTheClosure
  BY EndedWalk DEF CatalogIsTheClosure
<1>2. Init => WalksInv
  BY InitWalks
<1>3. SaveInv /\ WalksInv /\ [Next]_vars => WalksInv'
  BY NextPreservesWalks DEF SaveInv
<1>. QED BY <1>1, <1>2, <1>3, SavesInvariant, PTL DEF Spec

-----------------------------------------------------------------------------
\* What a document was resolved to stays its closure while the store grows.
LEMMA ResolutionsStay ==
    ASSUME ResolutionsInv, stored \subseteq stored', UNCHANGED resolved
    PROVE  ResolutionsInv'
  BY DEF ResolutionsInv

LEMMA ResolvePreservesResolutions ==
    ASSUME SaveInv, WalksInv, ResolutionsInv, NEW c \in Clients, Resolve(c)
    PROVE  ResolutionsInv'
<1>. DEFINE fetched == ToSet(catalog[c])
            document == request[c]
<1>1. CASE UNCHANGED resolved
  BY <1>1, ResolutionsStay DEF Resolve
<1>2. CASE /\ Resolves(document, fetched)
           /\ resolved' = resolved \cup {[document |-> document, to |-> fetched]}
  <2>1. /\ fetched \subseteq stored /\ fetched \subseteq Closure(document, fetched)
    BY EndedWalk DEF Resolve
  <2>2. Closure(document, fetched) = fetched
    BY <2>1, ClosureIs
  <2>3. PinnedBy(document) \subseteq KeysOf(fetched) /\ Unavailable(fetched) = {}
    BY <1>2, <2>2 DEF Resolves, Sound
  <2>4. PinnedByAny(fetched) \subseteq KeysOf(fetched)
    BY <2>3 DEF Unavailable, PinnedByAny
  <2>5. UNCHANGED stored
    BY DEF Resolve
  <2>. HIDE DEF fetched, document
  <2>. QED BY <1>2, <2>1, <2>3, <2>4, <2>5 DEF ResolutionsInv
<1>. QED BY <1>1, <1>2 DEF Resolve

LEMMA NextPreservesResolutions ==
    SaveInv /\ WalksInv /\ ResolutionsInv /\ [Next]_vars => ResolutionsInv'
<1>. SUFFICES ASSUME SaveInv, WalksInv, ResolutionsInv, [Next]_vars
              PROVE  ResolutionsInv'
  OBVIOUS
<1>1. ASSUME NEW c \in Clients, Resolve(c)
      PROVE  ResolutionsInv'
  BY <1>1, ResolvePreservesResolutions
<1>2. ASSUME NEW c \in Clients,
             \/ \E r \in Definitions \cup Documents : Ask(c, r)
             \/ Drop(c) \/ Fetch(c) \/ Diagnose(c) \/ LooksWhetherItExists(c)
             \/ Save(c) \/ Insert(c)
      PROVE  ResolutionsInv'
  BY <1>2, ResolutionsStay DEF Ask, Drop, Fetch, Diagnose, LooksWhetherItExists, Save, Insert
<1>3. CASE UNCHANGED vars
  BY <1>3, ResolutionsStay DEF vars
<1>. QED BY <1>1, <1>2, <1>3 DEF Next, Step

\* service.py, execute_backtest_run and execute_forward_run: a document that was
\* resolved once resolves to the same definitions for ever, since what it was
\* resolved to lacks nothing it pins and no stored definition is replaced.
THEOREM ResolutionStaysReproducible == Spec => []ResolvedIsReproducible
<1>1. SaveInv /\ ResolutionsInv => ResolvedIsReproducible
  <2>. SUFFICES ASSUME SaveInv, ResolutionsInv, NEW r \in resolved
                PROVE  Closure(r.document, stored) = r.to
    BY DEF ResolvedIsReproducible
  <2>1. /\ r.to \subseteq stored /\ r.to \subseteq Closure(r.document, r.to)
        /\ PinnedBy(r.document) \cup PinnedByAny(r.to) \subseteq KeysOf(r.to)
    BY DEF ResolutionsInv
  <2>2. ClosedIn(r.to, r.document, stored)
    <3>. SUFFICES ASSUME NEW e \in stored, e.key \in PinnedBy(r.document) \cup PinnedByAny(r.to)
                  PROVE  e \in r.to
      BY DEF ClosedIn
    <3>1. PICK d \in r.to : d.key = e.key
      BY <2>1 DEF KeysOf
    <3>. QED BY <2>1, <3>1 DEF SaveInv, KeysAreUnique
  <2>. QED BY <2>1, <2>2, ClosureIsFetched
<1>2. Init => WalksInv /\ ResolutionsInv
  BY InitWalks
<1>3. SaveInv /\ WalksInv /\ [Next]_vars => WalksInv'
  BY NextPreservesWalks DEF SaveInv
<1>4. SaveInv /\ WalksInv /\ ResolutionsInv /\ [Next]_vars => ResolutionsInv'
  BY NextPreservesResolutions
<1>. QED BY <1>1, <1>2, <1>3, <1>4, SavesInvariant, PTL DEF Spec
=============================================================================
