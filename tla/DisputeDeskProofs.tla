------------------------- MODULE DisputeDeskProofs -------------------------
(***************************************************************************)
(* Proofs about the Dispute Center, for every book of cases: its types, a  *)
(* case closes only at its last stage, and the screens implement the       *)
(* workflow of CaseWorkflow.  For the mock cases and every day: the strip  *)
(* counts what the queue shows, and what decides a case is on one screen.  *)
(***************************************************************************)
EXTENDS CaseScreens, FiniteSetTheorems, TLAPS

\* A case the store has no entry for is as the book filed it.
AsFiled(c) ==
    /\ stage[c] = Book[c].currentStage
    /\ resolved[c] = Book[c].resolved
    /\ signoffs[c] = Book[c].signoffs
    /\ outcome[c] = "none"
    /\ acknowledged[c] = {}

StagesExist == \A c \in Case : stage[c] <= LastStep(c)

UnseededAsFiled == \A c \in Case : c \notin seeded => AsFiled(c)

IInv ==
    /\ TypeOK
    /\ StagesExist
    /\ UnseededAsFiled
    /\ ResolvedAtTheEnd

\* What the book is assumed to say of one case.
LEMMA BookFacts ==
    ASSUME NEW c \in Case
    PROVE  /\ Book[c] \in Entry
           /\ Book[c].kind \in {"FRAUD", "DATA_ACCURACY"}
           /\ Book[c].currentStage \in StageIndex
           /\ Book[c].resolved \in BOOLEAN
           /\ Book[c].signoffs \in [StageIndex -> Signoff]
           /\ Book[c].files \in SUBSET File
           /\ Book[c].response \in Responses
           /\ Book[c].currentStage <= LastStep(c)
           /\ Book[c].resolved => Book[c].currentStage = LastStep(c)
           /\ c # "queue"
           /\ LastStep(c) \in StageIndex
    <1>1. Book[c] \in Entry
        BY BookAssumption
    <1>2. /\ Book[c].currentStage <= LastStep(c)
          /\ Book[c].resolved => Book[c].currentStage = LastStep(c)
          /\ c # "queue"
        BY BookAssumption
    <1>3. LastStep(c) \in StageIndex
        BY DEF LastStep, LastIndex, StageIndex
    <1> QED
        BY <1>1, <1>2, <1>3 DEF Entry

LEMMA OutcomeTyped ==
    ASSUME NEW c \in Case
    PROVE  outcomeOf(c) \in Outcomes
    BY DEF outcomeOf, fraudOutcome, daOutcome, responseOutcome, Outcomes

LEMMA InitIInv == Init => IInv
    <1> SUFFICES ASSUME Init PROVE IInv
        OBVIOUS
    <1>1. TypeOK
        BY BookFacts, BookAssumption DEF Init, TypeOK, Outcomes, StageIndex
    <1>2. StagesExist /\ UnseededAsFiled /\ ResolvedAtTheEnd
        BY BookFacts DEF Init, StagesExist, UnseededAsFiled, AsFiled, ResolvedAtTheEnd
    <1> QED
        BY <1>1, <1>2 DEF IInv

\* Seeding leaves every value of the store as it was: what it writes is what
\* an absent entry stands for.
LEMMA SeedKeeps ==
    ASSUME NEW c \in Case, IInv, Seed(c)
    PROVE  /\ seeded' = seeded \cup {c}
           /\ stage' = stage
           /\ resolved' = resolved
           /\ signoffs' = signoffs
           /\ outcome' = outcome
           /\ acknowledged' = acknowledged
    <1>1. CASE c \in seeded
        BY <1>1 DEF Seed, store
    <1>2. CASE c \notin seeded
        <2>1. /\ stage[c] = Book[c].currentStage
              /\ resolved[c] = Book[c].resolved
              /\ signoffs[c] = Book[c].signoffs
              /\ outcome[c] = "none"
              /\ acknowledged[c] = {}
            BY <1>2 DEF IInv, UnseededAsFiled, AsFiled
        <2>2. /\ stage \in [Case -> StageIndex]
              /\ resolved \in [Case -> BOOLEAN]
              /\ signoffs \in [Case -> [StageIndex -> Signoff]]
              /\ outcome \in [Case -> Outcomes]
              /\ acknowledged \in [Case -> SUBSET File]
            BY DEF IInv, TypeOK
        <2>3. seeded' = seeded \cup {c}
            BY <1>2 DEF Seed
        <2>4. stage' = stage
            <3>1. stage' = [stage EXCEPT ![c] = stage[c]]
                BY <1>2, <2>1 DEF Seed
            <3> QED
                BY <3>1, <2>2
        <2>5. resolved' = resolved
            <3>1. resolved' = [resolved EXCEPT ![c] = resolved[c]]
                BY <1>2, <2>1 DEF Seed
            <3> QED
                BY <3>1, <2>2
        <2>6. signoffs' = signoffs
            <3>1. signoffs' = [signoffs EXCEPT ![c] = signoffs[c]]
                BY <1>2, <2>1 DEF Seed
            <3> QED
                BY <3>1, <2>2
        <2>7. outcome' = outcome
            <3>1. outcome' = [outcome EXCEPT ![c] = outcome[c]]
                BY <1>2, <2>1 DEF Seed
            <3> QED
                BY <3>1, <2>2
        <2>8. acknowledged' = acknowledged
            <3>1. acknowledged' = [acknowledged EXCEPT ![c] = acknowledged[c]]
                BY <1>2, <2>1 DEF Seed
            <3> QED
                BY <3>1, <2>2
        <2> QED
            BY <2>3, <2>4, <2>5, <2>6, <2>7, <2>8
    <1> QED
        BY <1>1, <1>2

\* The store part of the invariant survives a seed.
LEMMA SeedIInv ==
    ASSUME NEW c \in Case, IInv, Seed(c)
    PROVE  /\ StagesExist' /\ UnseededAsFiled' /\ ResolvedAtTheEnd'
           /\ seeded' \subseteq Case
           /\ stage' \in [Case -> StageIndex]
           /\ resolved' \in [Case -> BOOLEAN]
           /\ signoffs' \in [Case -> [StageIndex -> Signoff]]
           /\ outcome' \in [Case -> Outcomes]
           /\ acknowledged' \in [Case -> SUBSET File]
    <1>1. /\ seeded' = seeded \cup {c}
          /\ stage' = stage
          /\ resolved' = resolved
          /\ signoffs' = signoffs
          /\ outcome' = outcome
          /\ acknowledged' = acknowledged
        BY SeedKeeps
    <1> QED
        BY <1>1 DEF IInv, TypeOK, StagesExist, UnseededAsFiled, AsFiled, ResolvedAtTheEnd

LEMMA OpenCaseIInv == ASSUME NEW c \in Case, IInv, OpenCase(c) PROVE IInv'
    <1>1. /\ StagesExist' /\ UnseededAsFiled' /\ ResolvedAtTheEnd'
          /\ seeded' \subseteq Case
          /\ stage' \in [Case -> StageIndex]
          /\ resolved' \in [Case -> BOOLEAN]
          /\ signoffs' \in [Case -> [StageIndex -> Signoff]]
          /\ outcome' \in [Case -> Outcomes]
          /\ acknowledged' \in [Case -> SUBSET File]
        BY SeedIInv DEF OpenCase
    <1>2. seeded' = seeded \cup {c}
        BY SeedKeeps DEF OpenCase
    <1>3. page' = c /\ selected' = stage'[c] /\ viewer' = "none"
          /\ visited' = visited \cup {c}
        BY DEF OpenCase
    <1>4. selected' <= LastStep(c)
        BY <1>1, <1>3 DEF StagesExist
    <1>5. TypeOK'
        BY <1>1, <1>2, <1>3, <1>4 DEF TypeOK, IInv, LastStep
    <1> QED
        BY <1>1, <1>5 DEF IInv

LEMMA JumpIInv == ASSUME NEW c \in Case, IInv, JumpToCase(c) PROVE IInv'
    <1>1. /\ StagesExist' /\ UnseededAsFiled' /\ ResolvedAtTheEnd'
          /\ seeded' \subseteq Case
          /\ stage' \in [Case -> StageIndex]
          /\ resolved' \in [Case -> BOOLEAN]
          /\ signoffs' \in [Case -> [StageIndex -> Signoff]]
          /\ outcome' \in [Case -> Outcomes]
          /\ acknowledged' \in [Case -> SUBSET File]
        BY SeedIInv DEF JumpToCase
    <1>2. seeded' = seeded \cup {c}
        BY SeedKeeps DEF JumpToCase
    <1>3. page \in Case /\ page # "queue" /\ page' = c /\ visited' = visited
        BY BookFacts DEF JumpToCase
    <1>4. selected \in StageIndex /\ selected <= LastStep(page)
        BY <1>3 DEF IInv, TypeOK
    <1>5. selected' \in StageIndex /\ selected' <= LastStep(c)
        <2>1. CASE Book[page].kind = Book[c].kind
            BY <2>1, <1>4 DEF JumpToCase, LastStep
        <2>2. CASE Book[page].kind # Book[c].kind
            BY <2>2, <1>1 DEF JumpToCase, StagesExist
        <2> QED
            BY <2>1, <2>2
    <1>6. viewer' \in File \cup {"none"} /\ (viewer' # "none" => viewer' \in Book[c].files)
        <2>1. CASE viewer = "none" \/ Book[c].files = {}
            BY <2>1 DEF JumpToCase
        <2>2. CASE ~(viewer = "none" \/ Book[c].files = {})
            BY <2>2, BookFacts DEF JumpToCase
        <2> QED
            BY <2>1, <2>2
    <1>7. c # "queue"
        BY BookFacts
    <1>8. visited \subseteq Case
        BY DEF IInv, TypeOK
    <1>9. TypeOK'
        BY <1>1, <1>2, <1>3, <1>5, <1>6, <1>7, <1>8 DEF TypeOK, LastStep
    <1> QED
        BY <1>1, <1>9 DEF IInv

LEMMA ReloadIInv == ASSUME IInv, Reload PROVE IInv'
    <1>1. StagesExist' /\ UnseededAsFiled' /\ ResolvedAtTheEnd'
        BY BookFacts DEF Reload, StagesExist, UnseededAsFiled, AsFiled,
                         ResolvedAtTheEnd, LastStep
    <1>2. /\ stage' \in [Case -> StageIndex]
          /\ resolved' \in [Case -> BOOLEAN]
          /\ signoffs' \in [Case -> [StageIndex -> Signoff]]
          /\ outcome' \in [Case -> Outcomes]
          /\ acknowledged' \in [Case -> SUBSET File]
        BY BookFacts DEF Reload, Outcomes
    <1>3. page' = page /\ visited' = visited /\ viewer' = "none"
        BY DEF Reload
    <1>4. page \in Case \cup {"queue"} /\ visited \subseteq Case
        BY DEF IInv, TypeOK
    <1>5. CASE page = "queue"
        <2>1. seeded' = {} /\ selected' = 0
            BY <1>5 DEF Reload
        <2> QED
            BY <1>1, <1>2, <1>3, <1>4, <1>5, <2>1 DEF IInv, TypeOK, StageIndex
    <1>6. CASE page \in Case
        <2>1. page # "queue"
            BY <1>6, BookFacts
        <2>2. seeded' = {page} /\ selected' = Book[page].currentStage
            BY <2>1 DEF Reload
        <2>3. selected' \in StageIndex /\ selected' <= LastStep(page)
            BY <2>2, <1>6, BookFacts
        <2> QED
            BY <1>1, <1>2, <1>3, <1>4, <1>6, <2>1, <2>2, <2>3 DEF IInv, TypeOK, LastStep
    <1> QED
        BY <1>4, <1>5, <1>6

\* Steps of the screen that leave the store alone.
LEMMA ScreenIInv ==
    ASSUME IInv, UNCHANGED store,
           page' \in Case \cup {"queue"}, selected' \in StageIndex,
           viewer' \in File \cup {"none"}, visited' = visited,
           page' # "queue" => page' = page /\ selected' <= LastStep(page),
           viewer' # "none" => page' = page /\ viewer' = viewer
    PROVE  IInv'
    <1>1. StagesExist' /\ UnseededAsFiled' /\ ResolvedAtTheEnd'
        BY DEF IInv, store, StagesExist, UnseededAsFiled, AsFiled, ResolvedAtTheEnd, LastStep
    <1>2. TypeOK'
        BY DEF IInv, store, TypeOK, LastStep
    <1> QED
        BY <1>1, <1>2 DEF IInv

LEMMA BackToQueueIInv == ASSUME IInv, BackToQueue PROVE IInv'
    <1>1. /\ UNCHANGED store
          /\ page' \in Case \cup {"queue"} /\ selected' \in StageIndex
          /\ viewer' \in File \cup {"none"} /\ visited' = visited
          /\ page' # "queue" => page' = page /\ selected' <= LastStep(page)
          /\ viewer' # "none" => page' = page /\ viewer' = viewer
        BY DEF BackToQueue, StageIndex
    <1> QED
        BY <1>1, ScreenIInv

LEMMA SelectIInv == ASSUME NEW i \in StageIndex, IInv, Select(i) PROVE IInv'
    <1>1. /\ UNCHANGED store
          /\ page' \in Case \cup {"queue"} /\ selected' \in StageIndex
          /\ viewer' \in File \cup {"none"} /\ visited' = visited
          /\ page' # "queue" => page' = page /\ selected' <= LastStep(page)
          /\ viewer' # "none" => page' = page /\ viewer' = viewer
        BY DEF Select, IInv, TypeOK
    <1> QED
        BY <1>1, ScreenIInv

LEMMA BackIInv == ASSUME IInv, Back PROVE IInv'
    <1>1. page \in Case /\ selected \in 1..4 /\ selected <= LastStep(page)
        BY DEF Back, IInv, TypeOK, StageIndex
    <1>2. LastStep(page) \in 0..4
        BY <1>1, BookFacts DEF StageIndex
    <1>3. selected' \in StageIndex /\ selected' <= LastStep(page)
        BY <1>1, <1>2 DEF Back, StageIndex
    <1>4. /\ UNCHANGED store /\ page' = page /\ viewer' = viewer /\ visited' = visited
          /\ viewer \in File \cup {"none"} /\ page \in Case \cup {"queue"}
        BY DEF Back, IInv, TypeOK
    <1> QED
        BY <1>3, <1>4, ScreenIInv

LEMMA CloseViewerIInv == ASSUME IInv, CloseViewer PROVE IInv'
    <1>1. /\ UNCHANGED store
          /\ page' \in Case \cup {"queue"} /\ selected' \in StageIndex
          /\ viewer' \in File \cup {"none"} /\ visited' = visited
          /\ page' # "queue" => page' = page /\ selected' <= LastStep(page)
          /\ viewer' # "none" => page' = page /\ viewer' = viewer
        BY DEF CloseViewer, IInv, TypeOK
    <1> QED
        BY <1>1, ScreenIInv

\* Steps that write the entry of the case on screen: the screen may move on,
\* the other entries stay, and the case on screen is seeded.
LEMMA EntryIInv ==
    ASSUME NEW c \in Case, IInv, page = c, c # "queue",
           seeded' = seeded, page' = page, visited' = visited,
           stage' \in [Case -> StageIndex],
           resolved' \in [Case -> BOOLEAN],
           signoffs' \in [Case -> [StageIndex -> Signoff]],
           outcome' \in [Case -> Outcomes],
           acknowledged' \in [Case -> SUBSET File],
           selected' \in StageIndex, selected' <= LastStep(c),
           viewer' = viewer \/ viewer' \in Book[c].files,
           stage'[c] <= LastStep(c),
           resolved'[c] => stage'[c] = LastStep(c),
           \A d \in Case \ {c} :
               /\ stage'[d] = stage[d]
               /\ resolved'[d] = resolved[d]
               /\ signoffs'[d] = signoffs[d]
               /\ outcome'[d] = outcome[d]
               /\ acknowledged'[d] = acknowledged[d]
    PROVE  IInv'
    <1>1. StagesExist' /\ ResolvedAtTheEnd'
        BY DEF IInv, StagesExist, ResolvedAtTheEnd, LastStep
    <1>2. UnseededAsFiled'
        <2>1. c \in seeded
            BY DEF IInv, TypeOK
        <2>2. ASSUME NEW d \in Case, d \notin seeded PROVE AsFiled(d)'
            BY <2>1, <2>2 DEF IInv, UnseededAsFiled, AsFiled
        <2> QED
            BY <2>2 DEF UnseededAsFiled
    <1>3. viewer' \in File \cup {"none"} /\ (viewer' # "none" => viewer' \in Book[c].files)
        BY BookFacts DEF IInv, TypeOK
    <1>4. TypeOK'
        BY <1>3 DEF IInv, TypeOK, LastStep
    <1> QED
        BY <1>1, <1>2, <1>4 DEF IInv

LEMMA ContinueFacts ==
    ASSUME NEW c \in Case, IInv, Continue(c)
    PROVE  /\ page = c /\ c # "queue" /\ ~resolved[c]
           /\ stage[c] \in 0..3 /\ stage[c] < LastStep(c)
           /\ selected = stage[c]
           /\ canAdvance(c, stage[c])
           /\ stage' = [stage EXCEPT ![c] = stage[c] + 1]
           /\ selected' = stage[c] + 1
           /\ UNCHANGED <<seeded, resolved, signoffs, outcome, acknowledged,
                          page, viewer, visited>>
    <1>1. page = c /\ ~resolved[c] /\ selected = stage[c] /\ canAdvance(c, stage[c])
        BY DEF Continue, FooterActive, isActive
    <1>2. stage[c] \in 0..4 /\ LastStep(c) \in 0..4 /\ stage[c] < LastStep(c)
        BY <1>1, BookFacts DEF Continue, IInv, TypeOK, StageIndex
    <1>3. selected + 1 > stage[c]
        BY <1>1, <1>2
    <1>4. stage' = [stage EXCEPT ![c] = stage[c] + 1]
        BY <1>1, <1>3 DEF Continue
    <1>5. selected' = stage[c] + 1
        BY <1>1 DEF Continue
    <1>6. UNCHANGED <<seeded, resolved, signoffs, outcome, acknowledged,
                      page, viewer, visited>>
        BY DEF Continue
    <1> QED
        BY <1>1, <1>2, <1>4, <1>5, <1>6, BookFacts

LEMMA ContinueIInv == ASSUME NEW c \in Case, IInv, Continue(c) PROVE IInv'
    <1>1. /\ page = c /\ c # "queue" /\ ~resolved[c]
          /\ stage[c] \in 0..3 /\ stage[c] < LastStep(c)
          /\ stage' = [stage EXCEPT ![c] = stage[c] + 1]
          /\ selected' = stage[c] + 1
          /\ UNCHANGED <<seeded, resolved, signoffs, outcome, acknowledged,
                         page, viewer, visited>>
        BY ContinueFacts
    <1>2. LastStep(c) \in 0..4
        BY BookFacts DEF StageIndex
    <1>3. stage[c] + 1 \in StageIndex /\ stage[c] + 1 <= LastStep(c)
        BY <1>1, <1>2 DEF StageIndex
    <1>4. /\ stage \in [Case -> StageIndex]
          /\ resolved \in [Case -> BOOLEAN]
          /\ signoffs \in [Case -> [StageIndex -> Signoff]]
          /\ outcome \in [Case -> Outcomes]
          /\ acknowledged \in [Case -> SUBSET File]
        BY DEF IInv, TypeOK
    <1>5. stage' \in [Case -> StageIndex] /\ stage'[c] = stage[c] + 1
          /\ \A d \in Case \ {c} : stage'[d] = stage[d]
        BY <1>1, <1>3, <1>4
    <1> QED
        BY <1>1, <1>3, <1>4, <1>5, EntryIInv

LEMMA ResolveFacts ==
    ASSUME NEW c \in Case, IInv, Resolve(c)
    PROVE  /\ page = c /\ c # "queue" /\ ~resolved[c]
           /\ stage[c] = LastStep(c)
           /\ canAdvance(c, stage[c])
           /\ resolved' = [resolved EXCEPT ![c] = TRUE]
           /\ outcome' = [outcome EXCEPT ![c] = outcomeOf(c)]
           /\ UNCHANGED <<seeded, stage, signoffs, acknowledged,
                          page, selected, viewer, visited>>
    BY BookFacts DEF Resolve, FooterActive, isActive, screen

LEMMA ResolveIInv == ASSUME NEW c \in Case, IInv, Resolve(c) PROVE IInv'
    <1>1. /\ page = c /\ c # "queue"
          /\ stage[c] = LastStep(c)
          /\ resolved' = [resolved EXCEPT ![c] = TRUE]
          /\ outcome' = [outcome EXCEPT ![c] = outcomeOf(c)]
          /\ UNCHANGED <<seeded, stage, signoffs, acknowledged,
                         page, selected, viewer, visited>>
        BY ResolveFacts
    <1>2. /\ stage \in [Case -> StageIndex]
          /\ resolved \in [Case -> BOOLEAN]
          /\ signoffs \in [Case -> [StageIndex -> Signoff]]
          /\ outcome \in [Case -> Outcomes]
          /\ acknowledged \in [Case -> SUBSET File]
          /\ selected \in StageIndex /\ selected <= LastStep(c)
          /\ stage[c] <= LastStep(c)
        BY <1>1 DEF IInv, TypeOK, StagesExist
    <1>3. outcomeOf(c) \in Outcomes
        BY OutcomeTyped
    <1>4. /\ outcome' \in [Case -> Outcomes]
          /\ \A d \in Case \ {c} : outcome'[d] = outcome[d]
        BY <1>1, <1>2, <1>3
    <1>5. /\ resolved' \in [Case -> BOOLEAN]
          /\ \A d \in Case \ {c} : resolved'[d] = resolved[d]
        BY <1>1, <1>2
    <1> QED
        BY <1>1, <1>2, <1>4, <1>5, EntryIInv

LEMMA EditIInv ==
    ASSUME NEW c \in Case, NEW s \in Signoff, IInv, EditSignoff(c, s)
    PROVE  IInv'
    <1>1. /\ page = c /\ c # "queue"
          /\ signoffs' = [signoffs EXCEPT ![c][selected] = s]
          /\ UNCHANGED <<seeded, stage, resolved, outcome, acknowledged,
                         page, selected, viewer, visited>>
        BY BookFacts DEF EditSignoff, screen
    <1>2. /\ stage \in [Case -> StageIndex]
          /\ resolved \in [Case -> BOOLEAN]
          /\ signoffs \in [Case -> [StageIndex -> Signoff]]
          /\ outcome \in [Case -> Outcomes]
          /\ acknowledged \in [Case -> SUBSET File]
          /\ selected \in StageIndex /\ selected <= LastStep(c)
          /\ stage[c] <= LastStep(c)
          /\ resolved[c] => stage[c] = LastStep(c)
        BY <1>1 DEF IInv, TypeOK, StagesExist, ResolvedAtTheEnd
    <1>3. /\ signoffs' \in [Case -> [StageIndex -> Signoff]]
          /\ \A d \in Case \ {c} : signoffs'[d] = signoffs[d]
        BY <1>1, <1>2
    <1> QED
        BY <1>1, <1>2, <1>3, EntryIInv

LEMMA ViewIInv ==
    ASSUME NEW c \in Case, NEW f \in File, IInv, ViewAttachment(c, f)
    PROVE  IInv'
    <1>1. /\ page = c /\ c # "queue" /\ viewer' = f /\ f \in Book[c].files
          /\ acknowledged' = [acknowledged EXCEPT ![c] = acknowledged[c] \cup {f}]
          /\ UNCHANGED <<seeded, stage, resolved, signoffs, outcome,
                         page, selected, visited>>
        BY BookFacts DEF ViewAttachment
    <1>2. /\ stage \in [Case -> StageIndex]
          /\ resolved \in [Case -> BOOLEAN]
          /\ signoffs \in [Case -> [StageIndex -> Signoff]]
          /\ outcome \in [Case -> Outcomes]
          /\ acknowledged \in [Case -> SUBSET File]
          /\ selected \in StageIndex /\ selected <= LastStep(c)
          /\ stage[c] <= LastStep(c)
          /\ resolved[c] => stage[c] = LastStep(c)
        BY <1>1 DEF IInv, TypeOK, StagesExist, ResolvedAtTheEnd
    <1>3. /\ acknowledged' \in [Case -> SUBSET File]
          /\ \A d \in Case \ {c} : acknowledged'[d] = acknowledged[d]
        BY <1>1, <1>2
    <1> QED
        BY <1>1, <1>2, <1>3, EntryIInv

LEMMA StepIInv == IInv /\ [Next]_vars => IInv'
    <1> SUFFICES ASSUME IInv, [Next]_vars PROVE IInv'
        OBVIOUS
    <1>1. ASSUME NEW c \in Case, OpenCase(c) PROVE IInv'
        BY <1>1, OpenCaseIInv
    <1>2. ASSUME NEW c \in Case, JumpToCase(c) PROVE IInv'
        BY <1>2, JumpIInv
    <1>3. ASSUME NEW c \in Case, Continue(c) PROVE IInv'
        BY <1>3, ContinueIInv
    <1>4. ASSUME NEW c \in Case, Resolve(c) PROVE IInv'
        BY <1>4, ResolveIInv
    <1>5. ASSUME NEW c \in Case, NEW s \in Signoff, EditSignoff(c, s) PROVE IInv'
        BY <1>5, EditIInv
    <1>6. ASSUME NEW c \in Case, NEW f \in File, ViewAttachment(c, f) PROVE IInv'
        BY <1>6, ViewIInv
    <1>7. ASSUME NEW i \in StageIndex, Select(i) PROVE IInv'
        BY <1>7, SelectIInv
    <1>8. CASE Back \/ BackToQueue \/ CloseViewer \/ Reload
        BY <1>8, BackIInv, BackToQueueIInv, CloseViewerIInv, ReloadIInv
    <1>9. CASE UNCHANGED vars
        BY <1>9 DEF vars, IInv, TypeOK, StagesExist, UnseededAsFiled, AsFiled,
                    ResolvedAtTheEnd, LastStep
    <1> QED
        BY <1>1, <1>2, <1>3, <1>4, <1>5, <1>6, <1>7, <1>8, <1>9 DEF Next

LEMMA Inductive == Spec => []IInv
    BY InitIInv, StepIInv, PTL DEF Spec

\* Every value of the Dispute Center has its type, in every book: in
\* particular the selected step is always a step of the case on screen.
THEOREM TypeCorrect == Spec => []TypeOK
    <1>1. IInv => TypeOK
        BY DEF IInv
    <1> QED
        BY <1>1, Inductive, PTL

\* No case is closed before its last stage, in every book.
THEOREM ClosedAtTheEnd == Spec => []ResolvedAtTheEnd
    <1>1. IInv => ResolvedAtTheEnd
        BY DEF IInv
    <1> QED
        BY <1>1, Inductive, PTL

\* Whether a case may leave a stage depends on the book and on two parts of
\* its entry in the store.
LEMMA ClearedSame ==
    ASSUME stage' = stage, resolved' = resolved, signoffs' = signoffs,
           acknowledged' = acknowledged
    PROVE  UNCHANGED Workflow!vars
    BY DEF Workflow!vars, Cleared, OpenCases, canAdvance, signoffOk, attachmentsOk, pending

LEMMA SeedStutters ==
    ASSUME NEW c \in Case, IInv, Seed(c)
    PROVE  UNCHANGED Workflow!vars
    BY SeedKeeps, ClearedSame

LEMMA ReloadStartsOver == Reload => Workflow!StartOver
    <1> SUFFICES ASSUME Reload PROVE Workflow!StartOver
        OBVIOUS
    <1>1. /\ stage' = [c \in Case |-> Book[c].currentStage]
          /\ resolved' = [c \in Case |-> Book[c].resolved]
          /\ signoffs' = [c \in Case |-> Book[c].signoffs]
          /\ acknowledged' = [c \in Case |-> {}]
        BY DEF Reload
    <1>2. OpenCases' = {c \in Case : ~Book[c].resolved}
        BY <1>1 DEF OpenCases
    <1>3. Cleared' = {c \in Case :
                        LET i == Book[c].currentStage
                        IN  /\ requiresSignoff(c, i)
                                 => signoffComplete(Book[c].signoffs[i])
                            /\ Book[c].kind = "DATA_ACCURACY" /\ i = 2
                                 => Book[c].files = {}}
        <2>1. ASSUME NEW c \in Case
              PROVE  canAdvance(c, stage[c])' <=>
                        /\ requiresSignoff(c, Book[c].currentStage)
                             => signoffComplete(Book[c].signoffs[Book[c].currentStage])
                        /\ Book[c].kind = "DATA_ACCURACY" /\ Book[c].currentStage = 2
                             => Book[c].files = {}
            BY <1>1 DEF canAdvance, signoffOk, attachmentsOk, pending, requiresSignoff,
                        signoffComplete
        <2> QED
            BY <2>1 DEF Cleared
    <1> QED
        BY <1>1, <1>2, <1>3 DEF Workflow!StartOver

LEMMA ContinueAdvances ==
    ASSUME NEW c \in Case, IInv, Continue(c)
    PROVE  Workflow!Advance(c)
    <1>1. /\ ~resolved[c]
          /\ stage[c] < LastStep(c)
          /\ canAdvance(c, stage[c])
          /\ stage' = [stage EXCEPT ![c] = stage[c] + 1]
          /\ resolved' = resolved /\ signoffs' = signoffs /\ acknowledged' = acknowledged
        BY ContinueFacts
    <1>2. c \in OpenCases /\ OpenCases' = OpenCases /\ c \in Cleared
        BY <1>1 DEF OpenCases, Cleared
    <1>3. Cleared' \ {c} = Cleared \ {c}
        <2>1. ASSUME NEW d \in Case \ {c}
              PROVE  canAdvance(d, stage[d])' <=> canAdvance(d, stage[d])
            <3>1. stage'[d] = stage[d]
                BY <1>1 DEF IInv, TypeOK
            <3> QED
                BY <1>1, <3>1 DEF canAdvance, signoffOk, attachmentsOk, pending,
                                  requiresSignoff, signoffComplete
        <2> QED
            BY <2>1 DEF Cleared
    <1> QED
        BY <1>1, <1>2, <1>3 DEF Workflow!Advance

LEMMA ResolveCloses ==
    ASSUME NEW c \in Case, IInv, Resolve(c)
    PROVE  Workflow!Close(c)
    <1>1. /\ ~resolved[c]
          /\ stage[c] = LastStep(c)
          /\ canAdvance(c, stage[c])
          /\ resolved' = [resolved EXCEPT ![c] = TRUE]
          /\ stage' = stage /\ signoffs' = signoffs /\ acknowledged' = acknowledged
        BY ResolveFacts
    <1>2. c \in OpenCases /\ c \in Cleared
        BY <1>1 DEF OpenCases, Cleared
    <1>3. OpenCases' = OpenCases \ {c}
        BY <1>1 DEF OpenCases, IInv, TypeOK
    <1>4. Cleared' = Cleared
        BY <1>1 DEF Cleared, canAdvance, signoffOk, attachmentsOk, pending,
                    requiresSignoff, signoffComplete
    <1> QED
        BY <1>1, <1>2, <1>3, <1>4 DEF Workflow!Close

\* A sign-off or a viewed attachment moves no case and closes none.
LEMMA ReviewOnly ==
    ASSUME stage' = stage, resolved' = resolved
    PROVE  Workflow!Review \/ UNCHANGED Workflow!vars
    <1>1. OpenCases' = OpenCases
        BY DEF OpenCases
    <1> QED
        BY <1>1 DEF Workflow!Review, Workflow!vars

LEMMA StepMaps == IInv /\ [Next]_vars => [Workflow!Next]_(Workflow!vars)
    <1> SUFFICES ASSUME IInv, [Next]_vars
                 PROVE  Workflow!Next \/ UNCHANGED Workflow!vars
        OBVIOUS
    <1>1. ASSUME NEW c \in Case, OpenCase(c) \/ JumpToCase(c)
          PROVE  UNCHANGED Workflow!vars
        BY <1>1, SeedStutters DEF OpenCase, JumpToCase
    <1>2. ASSUME NEW c \in Case, Continue(c) PROVE Workflow!Next
        BY <1>2, ContinueAdvances DEF Workflow!Next
    <1>3. ASSUME NEW c \in Case, Resolve(c) PROVE Workflow!Next
        BY <1>3, ResolveCloses DEF Workflow!Next
    <1>4. ASSUME NEW c \in Case, NEW s \in Signoff, EditSignoff(c, s)
          PROVE  Workflow!Next \/ UNCHANGED Workflow!vars
        BY <1>4, ReviewOnly DEF EditSignoff, Workflow!Next
    <1>5. ASSUME NEW c \in Case, NEW f \in File, ViewAttachment(c, f)
          PROVE  Workflow!Next \/ UNCHANGED Workflow!vars
        BY <1>5, ReviewOnly DEF ViewAttachment, Workflow!Next
    <1>6. ASSUME NEW i \in StageIndex, Select(i) PROVE UNCHANGED Workflow!vars
        BY <1>6, ClearedSame DEF Select, store
    <1>7. CASE Back \/ BackToQueue \/ CloseViewer
        BY <1>7, ClearedSame DEF Back, BackToQueue, CloseViewer, store
    <1>8. CASE Reload
        BY <1>8, ReloadStartsOver DEF Workflow!Next
    <1>9. CASE UNCHANGED vars
        BY <1>9, ClearedSame DEF vars
    <1> QED
        BY <1>1, <1>2, <1>3, <1>4, <1>5, <1>6, <1>7, <1>8, <1>9 DEF Next

LEMMA InitMaps == Init => Workflow!Init
    <1> SUFFICES ASSUME Init PROVE Workflow!Init
        OBVIOUS
    <1>1. /\ stage = [c \in Case |-> Book[c].currentStage]
          /\ resolved = [c \in Case |-> Book[c].resolved]
          /\ signoffs = [c \in Case |-> Book[c].signoffs]
          /\ acknowledged = [c \in Case |-> {}]
        BY DEF Init
    <1>2. OpenCases = {c \in Case : ~Book[c].resolved}
        BY <1>1 DEF OpenCases
    <1>3. Cleared = {c \in Case :
                        LET i == Book[c].currentStage
                        IN  /\ requiresSignoff(c, i)
                                 => signoffComplete(Book[c].signoffs[i])
                            /\ Book[c].kind = "DATA_ACCURACY" /\ i = 2
                                 => Book[c].files = {}}
        <2>1. ASSUME NEW c \in Case
              PROVE  canAdvance(c, stage[c]) <=>
                        /\ requiresSignoff(c, Book[c].currentStage)
                             => signoffComplete(Book[c].signoffs[Book[c].currentStage])
                        /\ Book[c].kind = "DATA_ACCURACY" /\ Book[c].currentStage = 2
                             => Book[c].files = {}
            BY <1>1 DEF canAdvance, signoffOk, attachmentsOk, pending
        <2> QED
            BY <2>1 DEF Cleared
    <1> QED
        BY <1>1, <1>2, <1>3 DEF Workflow!Init

\* Whoever is held back sees why and what to do about it, whatever the book.
THEOREM HintsAreTrue == Spec => []BlockedIsExplained
    <1>1. TypeOK => BlockedIsExplained
        <2> SUFFICES ASSUME TypeOK, NEW c \in Case, page = c, isActive(c),
                            ~canAdvance(c, selected)
                     PROVE  /\ StepState(c, selected) = "current"
                            /\ \/ /\ blockedHint(c, selected) = "view the image"
                                  /\ \E f \in Book[c].files : f \notin acknowledged[c]
                               \/ /\ blockedHint(c, selected) = "sign off"
                                  /\ gateShown(c, selected)
                                  /\ ~signoffComplete(signoffs[c][selected])
            BY DEF BlockedIsExplained
        <2>1. StepState(c, selected) = "current"
            <3>1. selected \in 0..4 /\ selected = stage[c]
                BY DEF isActive, TypeOK, StageIndex
            <3>2. ~(selected < stage[c])
                BY <3>1
            <3> QED
                BY <3>1, <3>2 DEF StepState
        <2>2. CASE ~attachmentsOk(c, selected)
            <3>1. Book[c].kind = "DATA_ACCURACY" /\ selected = 2 /\ pending(c) # {}
                BY <2>2 DEF attachmentsOk
            <3>2. blockedHint(c, selected) = "view the image"
                BY <2>2 DEF blockedHint
            <3>3. \E f \in Book[c].files : f \notin acknowledged[c]
                BY <3>1 DEF pending
            <3> QED
                BY <2>1, <3>2, <3>3
        <2>3. CASE attachmentsOk(c, selected)
            <3>1. requiresSignoff(c, selected) /\ ~signoffComplete(signoffs[c][selected])
                BY <2>3 DEF canAdvance, signoffOk
            <3>2. gateShown(c, selected)
                BY <3>1 DEF requiresSignoff, gateShown
            <3>3. blockedHint(c, selected) = "sign off"
                BY <2>3, <3>1 DEF requiresSignoff, attachmentsOk, blockedHint
            <3> QED
                BY <2>1, <3>1, <3>2, <3>3
        <2> QED
            BY <2>2, <2>3
    <1> QED
        BY <1>1, TypeCorrect, PTL

\* The screens implement the workflow, in every book and for every way through
\* the screens: selections, revisits, jumps between cases and reloads.
THEOREM ScreensImplementWorkflow == Spec => ImplementsWorkflow
    <1>1. Spec => Workflow!Init /\ [][Workflow!Next]_(Workflow!vars)
        BY InitMaps, StepMaps, Inductive, PTL DEF Spec
    <1> QED
        BY <1>1 DEF ImplementsWorkflow, Workflow!Spec

(* ----------------------------------------------------- what is drawn --- *)

\* A case of the book stays closed.
FiledClosed == \A c \in Case : Book[c].resolved => resolved[c]

LEMMA SeededClosed ==
    ASSUME NEW c \in Case, IInv, FiledClosed, Seed(c)
    PROVE  FiledClosed'
    BY SeedKeeps DEF FiledClosed

LEMMA StepFiledClosed == IInv /\ FiledClosed /\ [Next]_vars => FiledClosed'
    <1> SUFFICES ASSUME IInv, FiledClosed, [Next]_vars PROVE FiledClosed'
        OBVIOUS
    <1>1. ASSUME NEW c \in Case, OpenCase(c) \/ JumpToCase(c) PROVE FiledClosed'
        BY <1>1, SeededClosed DEF OpenCase, JumpToCase
    <1>2. ASSUME NEW c \in Case, Resolve(c) PROVE FiledClosed'
        <2>1. resolved' = [resolved EXCEPT ![c] = TRUE] /\ resolved \in [Case -> BOOLEAN]
            BY <1>2 DEF Resolve, IInv, TypeOK
        <2> QED
            BY <2>1 DEF FiledClosed
    <1>3. ASSUME Reload PROVE FiledClosed'
        BY <1>3 DEF Reload, FiledClosed
    <1>4. ASSUME resolved' = resolved PROVE FiledClosed'
        BY <1>4 DEF FiledClosed
    <1> QED
        BY <1>1, <1>2, <1>3, <1>4
           DEF Next, vars, store, screen, Continue, EditSignoff, ViewAttachment, Select,
               Back, BackToQueue, CloseViewer

LEMMA AlwaysFiledClosed == Spec => []FiledClosed
    <1>1. Init => FiledClosed
        BY DEF Init, FiledClosed
    <1> QED
        BY <1>1, Inductive, StepFiledClosed, PTL DEF Spec

\* How the entry the store reads relates to the case of the book.
LEMMA FiledFacts ==
    ASSUME NEW c \in Case
    PROVE  /\ c \in CaseId
           /\ Book[c].kind = CASES[c].kind
           /\ Book[c].resolved <=> CASES[c].status = "Resolved"
           /\ Book[c].files = CASES[c].files
           /\ Book[c].draft <=> /\ CASES[c].kind = "DATA_ACCURACY"
                                /\ CASES[c].autonomyMode = "draft_for_human"
           /\ Book[c].intake = CASE_AI[c].intake
    BY ScreensAssumption DEF FiledEntry

LEMMA CaseIsFinite == IsFiniteSet(Case)
    <1> DEFINE Four == (({"CBD-5101"} \cup {"CBD-5102"}) \cup {"CBD-5103"}) \cup {"CBD-5104"}
    <1> DEFINE Eight == (((Four \cup {"CBD-5105"}) \cup {"CBD-5106"}) \cup {"CBD-5107"})
                          \cup {"CBD-5108"}
    <1> DEFINE All == ((Eight \cup {"CBD-4822"}) \cup {"CBD-4835"}) \cup {"CBD-4818"}
    <1>1. ASSUME NEW S, IsFiniteSet(S), NEW x PROVE IsFiniteSet(S \cup {x})
        BY <1>1, FS_AddElement
    <1>2. IsFiniteSet({"CBD-5101"})
        BY FS_Singleton
    <1>3. IsFiniteSet(Four)
        BY <1>1, <1>2
    <1> HIDE DEF Four
    <1>4. IsFiniteSet(Eight)
        BY <1>1, <1>3
    <1> HIDE DEF Eight
    <1>5. IsFiniteSet(All)
        BY <1>1, <1>4
    <1>6. CaseId = All
        BY DEF CaseId, Four, Eight
    <1> QED
        BY <1>5, <1>6, ScreensAssumption, FS_Subset

LEMMA DueDates == \A c \in CaseId : CASES[c].slaDueDate \in Int
    BY DEF CaseId, CASES, CBD_5101, CBD_5102, CBD_5103, CBD_5104, CBD_5105, CBD_5106,
           CBD_5107, CBD_5108, CBD_4822, CBD_4835, CBD_4818, DataAccuracy, Fraud

\* A due date is red exactly where the strip sees a risk.
LEMMA RedIsRisk ==
    ASSUME NEW days \in Int
    PROVE  /\ slaVariant(days) = "danger" <=> days <= 2
           /\ slaVariant(days) # "none"
    <1>1. CASE days <= 2
        BY <1>1 DEF slaVariant
    <1>2. CASE days \in 3..5
        BY <1>2 DEF slaVariant
    <1>3. CASE ~(days <= 2) /\ days \notin 3..5
        BY <1>3 DEF slaVariant
    <1> QED
        BY <1>1, <1>2, <1>3

\* A row of the queue shows a case as closed exactly where the store or the
\* book has closed it.
LEMMA RowFacts ==
    ASSUME TypeOK, FiledClosed, NEW today \in Today, NEW c \in Case
    PROVE  /\ CaseRow(c, today).sla # "none" <=> c \in OpenCases
           /\ CaseRow(c, today).sla = "danger" <=>
                c \in OpenCases /\ daysUntil(c, today) <= 2
           /\ CaseRow(c, today).mode = "furnished" <=> c \notin OpenCases
    <1>1. resolved[c] \in BOOLEAN
        BY DEF TypeOK
    <1>2. effectiveStatus(c) # "Resolved" <=> c \in OpenCases
        BY <1>1, FiledFacts DEF effectiveStatus, FiledClosed, OpenCases
    <1>3. daysUntil(c, today) \in Int
        BY FiledFacts, DueDates, ScreensAssumption DEF daysUntil
    <1>4. responseMode(c) # "furnished"
        BY DEF responseMode
    <1>5. CASE c \in OpenCases
        <2>1. /\ CaseRow(c, today).sla = slaVariant(daysUntil(c, today))
              /\ CaseRow(c, today).mode = responseMode(c)
            BY <1>2, <1>5 DEF CaseRow
        <2> QED
            BY <1>3, <1>4, <1>5, <2>1, RedIsRisk
    <1>6. CASE c \notin OpenCases
        BY <1>2, <1>6 DEF CaseRow
    <1> QED
        BY <1>5, <1>6

\* The compliance strip counts what the rows show, for every choice of cases of
\* the book, every day and after every resolution.
THEOREM StripAgreesWithRows == Spec => []StripCountsRows
    <1>1. TypeOK /\ FiledClosed => StripCountsRows
        <2> SUFFICES ASSUME TypeOK, FiledClosed, NEW today \in Today
                     PROVE  LET rows == [c \in Case |-> CaseRow(c, today)]
                                strip == KpiStrip(today)
                            IN  /\ strip.open = Cardinality({c \in Case : rows[c].sla # "none"})
                                /\ strip.open = strip.dataAccuracy + strip.fraud
                                /\ strip.slaRisk =
                                     Cardinality({c \in Case : rows[c].sla = "danger"})
                                /\ strip.pendingBlocks <= strip.fraud
                                /\ \A c \in Case : rows[c].mode = "furnished"
                                                    <=> c \notin OpenCases
            BY DEF StripCountsRows
        <2> DEFINE rows == [c \in Case |-> CaseRow(c, today)]
        <2> DEFINE strip == KpiStrip(today)
        <2> DEFINE DA == {c \in OpenCases : CASES[c].kind = "DATA_ACCURACY"}
        <2> DEFINE FR == {c \in OpenCases : CASES[c].kind = "FRAUD"}
        <2> DEFINE Blocks == {c \in OpenCases : CASES[c].kind = "FRAUD"
                                                /\ ~CASES[c].blockApplied}
        <2> DEFINE Risk == {c \in OpenCases : daysUntil(c, today) <= 2}
        <2>1. /\ strip.open = Cardinality(OpenCases)
              /\ strip.dataAccuracy = Cardinality(DA)
              /\ strip.fraud = Cardinality(FR)
              /\ strip.slaRisk = Cardinality(Risk)
              /\ strip.pendingBlocks = Cardinality(Blocks)
            BY DEF KpiStrip
        <2>2. IsFiniteSet(OpenCases)
            BY CaseIsFinite, FS_Subset DEF OpenCases
        <2>3. /\ IsFiniteSet(DA) /\ IsFiniteSet(FR)
              /\ Cardinality(DA) \in Nat /\ Cardinality(FR) \in Nat
            BY <2>2, FS_Subset, FS_CardinalityType
        <2>4. Cardinality(OpenCases) = Cardinality(DA) + Cardinality(FR)
            <3>1. DA \cup FR = OpenCases
                BY FiledFacts, BookFacts DEF OpenCases
            <3>2. DA \cap FR = {}
                OBVIOUS
            <3>3. Cardinality(DA \cup FR)
                    = Cardinality(DA) + Cardinality(FR) - Cardinality(DA \cap FR)
                BY <2>3, FS_Union
            <3> HIDE DEF DA, FR
            <3> QED
                BY <2>3, <3>1, <3>2, <3>3, FS_EmptySet
        <2>5. Cardinality(Blocks) <= Cardinality(FR)
            <3>1. Blocks \in SUBSET FR
                OBVIOUS
            <3> HIDE DEF Blocks, FR
            <3> QED
                BY <2>3, <3>1, FS_Subset
        <2>6. {c \in Case : rows[c].sla # "none"} = OpenCases
            BY RowFacts DEF OpenCases
        <2>7. {c \in Case : rows[c].sla = "danger"} = Risk
            BY RowFacts DEF OpenCases
        <2>8. \A c \in Case : rows[c].mode = "furnished" <=> c \notin OpenCases
            BY RowFacts
        <2> HIDE DEF rows, strip, DA, FR, Risk, Blocks
        <2>9. /\ strip.open = Cardinality({c \in Case : rows[c].sla # "none"})
              /\ strip.open = strip.dataAccuracy + strip.fraud
              /\ strip.slaRisk = Cardinality({c \in Case : rows[c].sla = "danger"})
              /\ strip.pendingBlocks <= strip.fraud
              /\ \A c \in Case : rows[c].mode = "furnished" <=> c \notin OpenCases
            BY <2>1, <2>4, <2>5, <2>6, <2>7, <2>8
        <2> QED
            BY <2>9 DEF rows, strip
    <1> QED
        BY <1>1, TypeCorrect, AlwaysFiledClosed, PTL

\* What the book says of its drafted cases and of its blocks, case by case.
LEMMA DraftsAreTripped ==
    ASSUME NEW c \in CaseId, CASES[c].kind = "DATA_ACCURACY"
    PROVE  /\ CASES[c].autonomyMode \in {"autonomous", "draft_for_human"}
           /\ CASES[c].autonomyMode = "draft_for_human" => Contains(CASE_AI[c].checks, "fail")
           /\ CASES[c].gates.imageAttached => CASES[c].files # {}
           /\ CASES[c].gates.freeTextConflict => CASES[c].freeText
    <1>1. CASES[c].autonomyMode \in {"autonomous", "draft_for_human"}
        BY DEF CaseId, CASES, CBD_5101, CBD_5102, CBD_5103, CBD_5104, CBD_5105, CBD_5106,
               CBD_5107, CBD_5108, CBD_4822, CBD_4835, CBD_4818, DataAccuracy, Fraud
    <1>2. /\ CASES[c].autonomyMode = "draft_for_human" => "fail" \in ToSet(CASE_AI[c].checks)
          /\ CASES[c].gates.imageAttached <=> CASES[c].files # {}
          /\ CASES[c].gates.freeTextConflict <=> CASES[c].freeText
        <2>1. /\ CASES[c].kind = "DATA_ACCURACY" =>
                  (CASES[c].autonomyMode = "draft_for_human" => "fail" \in ToSet(CASE_AI[c].checks))
              /\ CASES[c].kind = "DATA_ACCURACY" =>
                  (CASES[c].gates.imageAttached <=> CASES[c].files # {})
              /\ CASES[c].kind = "DATA_ACCURACY" =>
                  (CASES[c].gates.freeTextConflict <=> CASES[c].freeText)
            BY Zenon, BookIsConsistent
        <2> QED
            BY Zenon, <2>1
    <1>3. \/ CASE_AI[c].checks = <<"pass", "pass", "pass">>
          \/ CASE_AI[c].checks = <<"pass", "pass", "fail">>
          \/ CASE_AI[c].checks = <<"pass", "fail", "pass">>
          \/ CASE_AI[c].checks = <<"fail", "pass", "pass">>
          \/ CASE_AI[c].checks = <<"fail", "n_a">>
          \/ CASE_AI[c].checks = <<"pass", "pass">>
        BY DEF CaseId, CASE_AI, AI_5101, AI_5102, AI_5103, AI_5104, AI_5105, AI_5106,
               AI_5107, AI_5108, AI_4822, AI_4835, AI_4818, Ai
    <1>4. DOMAIN CASE_AI[c].checks = 1..Len(CASE_AI[c].checks)
        BY <1>3
    <1>5. "fail" \in ToSet(CASE_AI[c].checks) => Contains(CASE_AI[c].checks, "fail")
        BY <1>4 DEF ToSet, Contains
    <1> QED
        BY <1>1, <1>2, <1>5

LEMMA BlocksHaveEvidence ==
    ASSUME NEW c \in CaseId, CASES[c].kind = "FRAUD", CASE_AI[c].recommendation = "block_605b"
    PROVE  /\ Head(CASE_AI[c].checks) = "pass"
           /\ \E i \in DOMAIN CASES[c].triangulation :
                  CASES[c].triangulation[i].stance = "supports"
    <1>1. c = "CBD-4822" \/ c = "CBD-4818"
        BY DEF CaseId, CASES, CBD_5101, CBD_5102, CBD_5103, CBD_5104, CBD_5105, CBD_5106,
               CBD_5107, CBD_5108, CBD_4822, CBD_4835, CBD_4818, DataAccuracy, Fraud,
               CASE_AI, AI_5101, AI_5102, AI_5103, AI_5104, AI_5105, AI_5106,
               AI_5107, AI_5108, AI_4822, AI_4835, AI_4818, Ai
    <1>2. CASES[c].triangulation = TRIANGULATION_MISMATCH
        BY <1>1 DEF CaseId, CASES, CBD_4822, CBD_4818, Fraud
    <1>3. Head(CASE_AI[c].checks) = "pass"
        <2>1. \/ CASE_AI[c].checks = <<"pass", "pass", "pass">>
              \/ CASE_AI[c].checks = <<"pass", "pass">>
            BY <1>1 DEF CaseId, CASE_AI, AI_4822, AI_4818, Ai
        <2> QED
            BY <2>1
    <1>4. 1 \in DOMAIN TRIANGULATION_MISMATCH /\ TRIANGULATION_MISMATCH[1].stance = "supports"
        BY DEF TRIANGULATION_MISMATCH, Signal
    <1> QED
        BY <1>2, <1>3, <1>4

LEMMA ReceivedIntake ==
    ASSUME NEW c \in CaseId, CASE_AI[c].intake
    PROVE  "received note" \in IntakeExtractionPanel(c)
    BY BookIsConsistent DEF IntakeExtractionPanel

\* The gate is drawn exactly where the store takes its sign-off, and what a
\* drafted or a fraud case shows with it.
LEMMA GatePanels ==
    ASSUME NEW c \in Case, NEW i \in 0..4, i <= LastStep(c)
    PROVE  /\ "approval gate" \in StagePanels(c, i) <=> gateShown(c, i)
           /\ "resolved banner" \notin StagePanels(c, i)
           /\ "attachments" \notin StagePanels(c, i)
           /\ gateShown(c, i) /\ Book[c].kind = "DATA_ACCURACY" =>
                 /\ CASES[c].autonomyMode = "draft_for_human"
                 /\ ComparePanels(c) \subseteq StagePanels(c, i)
           /\ gateShown(c, i) /\ "intake extraction" \in StagePanels(c, i) => Book[c].intake
           /\ Book[c].kind = "FRAUD" /\ i = 1 => {"verdict", "evidence"} \subseteq StagePanels(c, i)
    <1>1. CASE Book[c].kind = "DATA_ACCURACY"
        <2>1. CASES[c].kind = "DATA_ACCURACY" /\ StagePanels(c, i) = DataAccuracyPanels(c, i)
            BY <1>1, FiledFacts DEF StagePanels
        <2>2. gateShown(c, i) <=> i = 2 /\ CASES[c].autonomyMode = "draft_for_human"
            BY <1>1, <2>1, FiledFacts DEF gateShown
        <2>3. autonomous(c) <=> CASES[c].autonomyMode # "draft_for_human"
            BY <2>1, FiledFacts, DraftsAreTripped DEF autonomous
        <2>4. i = 0 \/ i = 1 \/ i = 2 \/ i = 3 \/ i = 4
            OBVIOUS
        <2>5. CASE i = 2
            <3>1. StagePanels(c, i) = DecidePanels(c)
                BY <2>1, <2>5 DEF DataAccuracyPanels
            <3> QED
                BY <1>1, <2>2, <2>3, <2>5, <3>1 DEF DecidePanels, ComparePanels, If
        <2>6. CASE i # 2
            <3>1. \/ StagePanels(c, i) = {"channel"} \cup If(CASE_AI[c].intake, "intake extraction")
                  \/ StagePanels(c, i) = ComparePanels(c)
                  \/ StagePanels(c, i) = {"metro 2 report"}
                  \/ StagePanels(c, i) = {"response and outcome"}
                BY <2>1, <2>4, <2>6 DEF DataAccuracyPanels
            <3> QED
                BY <1>1, <2>2, <2>6, <3>1 DEF ComparePanels, If
        <2> QED
            BY <2>5, <2>6
    <1>2. CASE Book[c].kind = "FRAUD"
        <2>1. StagePanels(c, i) = FraudPanels(c, i)
            BY <1>2, FiledFacts DEF StagePanels
        <2>2. Book[c].investigation = TRUE
            BY ScreensAssumption DEF FiledEntry
        <2>3. gateShown(c, i) <=> (i = 0 /\ Book[c].intake) \/ i = 1
            BY <1>2, <2>2 DEF gateShown
        <2>4. i = 0 \/ i = 1 \/ i = 2 \/ i = 3
            BY <1>2 DEF LastStep, LastIndex
        <2>5. Book[c].intake = CASE_AI[c].intake
            BY FiledFacts
        <2>6. CASE i = 0
            <3>1. StagePanels(c, i) = {"channel"} \cup If(CASE_AI[c].intake, "intake extraction")
                                                  \cup If(CASE_AI[c].intake, "approval gate")
                <4>1. i # 1 /\ i # 2
                    BY <2>6
                <4> QED
                    BY Zenon, <2>1, <2>6, <4>1 DEF FraudPanels
            <3> QED
                <4>1. CASE CASE_AI[c].intake
                    <5>1. StagePanels(c, i) = {"channel", "intake extraction", "approval gate"}
                        BY <3>1, <4>1 DEF If
                    <5>2. gateShown(c, i) /\ Book[c].intake
                        BY <2>3, <2>5, <2>6, <4>1
                    <5>3. i # 1 /\ Book[c].kind # "DATA_ACCURACY"
                        BY <1>2, <2>6
                    <5> QED
                        BY <5>1, <5>2, <5>3
                <4>2. CASE ~CASE_AI[c].intake
                    <5>1. StagePanels(c, i) = {"channel"}
                        BY <3>1, <4>2 DEF If
                    <5>2. ~gateShown(c, i) /\ i # 1
                        BY <2>3, <2>5, <2>6, <4>2
                    <5> QED
                        BY <5>1, <5>2
                <4> QED
                    BY <4>1, <4>2
        <2>7. CASE i = 1
            <3>1. StagePanels(c, i) = {"verdict", "reasoning", "evidence"} \cup {"approval gate"}
                <4>1. i # 0 /\ i # 2
                    BY <2>7
                <4> QED
                    BY Zenon, <2>1, <2>7, <4>1 DEF FraudPanels, InvestigationReview
            <3> QED
                BY <1>2, <2>3, <2>7, <3>1
        <2>8. CASE i = 2 \/ i = 3
            <3>1. \/ StagePanels(c, i) = {"suppression", "metro 2 report"}
                  \/ StagePanels(c, i) = {"outcome"}
                <4>1. i # 0 /\ i # 1
                    BY <2>8
                <4> QED
                    BY Zenon, <2>1, <2>8, <4>1 DEF FraudPanels
            <3>2. ~gateShown(c, i) /\ i # 1
                BY <2>3, <2>8
            <3> QED
                BY <3>1, <3>2
        <2> QED
            BY <2>4, <2>6, <2>7, <2>8
    <1> QED
        BY <1>1, <1>2, BookFacts

\* Wherever a sign-off is asked for, the screen holds what it is about, for
\* every choice of cases of the book and every way through the screens.
THEOREM DecisionsAreInformed == Spec => []DecisionOnOneScreen
    <1>1. TypeOK => DecisionOnOneScreen
        <2> SUFFICES ASSUME TypeOK, page # "queue"
                     PROVE  DecisionOnOneScreen
            BY DEF DecisionOnOneScreen
        <2> DEFINE c == page
        <2> DEFINE shown == CaseFile(c)
        <2> DEFINE asked == "approval gate" \in shown
        <2>1. /\ c \in Case /\ selected \in 0..4 /\ selected <= LastStep(c)
              /\ c \in CaseId /\ Book[c].kind = CASES[c].kind
              /\ Book[c].intake = CASE_AI[c].intake
            BY FiledFacts DEF TypeOK, StageIndex
        <2>2. resolved[c] \in BOOLEAN
            BY <2>1 DEF TypeOK
        <2>3. /\ asked <=> gateShown(c, selected)
              /\ "resolved banner" \in shown <=> c \notin OpenCases
              /\ StagePanels(c, selected) \subseteq shown
              /\ CASES[c].files # {} => "attachments" \in shown
              /\ "intake extraction" \in shown
                    => "intake extraction" \in StagePanels(c, selected)
            BY <2>1, <2>2, GatePanels DEF CaseFile, If, OpenCases
        <2>4. ASSUME asked, CASES[c].kind = "DATA_ACCURACY"
              PROVE  /\ AutonomyGatePanel(c).label = "Gate tripped"
                     /\ Contains(AutonomyGatePanel(c).marks, "fail")
                     /\ CASES[c].gates.imageAttached => "attachments" \in shown
                     /\ CASES[c].gates.freeTextConflict => "free text" \in shown
                     /\ FieldComparisonPanel(c) => "field comparison" \in shown
            <3>1. CASES[c].autonomyMode = "draft_for_human" /\ ComparePanels(c) \subseteq shown
                BY <2>1, <2>3, <2>4, GatePanels
            <3>2. /\ AutonomyGatePanel(c).label = "Gate tripped"
                  /\ AutonomyGatePanel(c).marks = CASE_AI[c].checks
                BY <3>1 DEF AutonomyGatePanel, autonomous
            <3>3. "field comparison" \in shown
                BY <3>1 DEF ComparePanels
            <3>4. CASES[c].freeText => "free text" \in shown
                BY <3>1 DEF ComparePanels, If
            <3> HIDE DEF shown
            <3> QED
                BY <2>1, <2>3, <2>4, <3>1, <3>2, <3>3, <3>4, DraftsAreTripped
        <2>5. asked /\ "intake extraction" \in shown => "received note" \in IntakeExtractionPanel(c)
            <3> HIDE DEF shown
            <3> QED
                BY <2>1, <2>3, GatePanels, ReceivedIntake
        <2>6. ASSUME asked, CASES[c].kind = "FRAUD", selected = DecideIndex(c)
              PROVE  /\ {"verdict", "evidence"} \subseteq shown
                     /\ VerdictPanel(c).recommends = "block_605b" =>
                          /\ Head(VerdictPanel(c).gates) = "pass"
                          /\ \E i \in DOMAIN CASES[c].triangulation :
                                 SignalRow(CASES[c].triangulation[i]).stance = "supports"
            <3>1. selected = 1
                BY <2>1, <2>6 DEF DecideIndex
            <3>2. {"verdict", "evidence"} \subseteq shown
                BY <2>1, <2>3, <2>6, <3>1, GatePanels
            <3>3. /\ VerdictPanel(c).recommends = CASE_AI[c].recommendation
                  /\ VerdictPanel(c).gates = CASE_AI[c].checks
                BY DEF VerdictPanel
            <3>4. \A row : SignalRow(row).stance = row.stance
                BY DEF SignalRow
            <3> HIDE DEF shown
            <3> QED
                BY <2>1, <2>6, <3>2, <3>3, <3>4, BlocksHaveEvidence
        <2> HIDE DEF shown
        <2>7. DecisionOnOneScreen <=>
                /\ selected <= LastStep(c)
                /\ viewer # "none" => viewer \in Book[c].files
                /\ asked <=> gateShown(c, selected)
                /\ "resolved banner" \in shown <=> c \notin OpenCases
                /\ asked /\ CASES[c].kind = "DATA_ACCURACY" =>
                    /\ AutonomyGatePanel(c).label = "Gate tripped"
                    /\ Contains(AutonomyGatePanel(c).marks, "fail")
                    /\ CASES[c].gates.imageAttached => "attachments" \in shown
                    /\ CASES[c].gates.freeTextConflict => "free text" \in shown
                    /\ FieldComparisonPanel(c) => "field comparison" \in shown
                /\ asked /\ "intake extraction" \in shown =>
                    "received note" \in IntakeExtractionPanel(c)
                /\ asked /\ CASES[c].kind = "FRAUD" /\ selected = DecideIndex(c) =>
                    /\ {"verdict", "evidence"} \subseteq shown
                    /\ VerdictPanel(c).recommends = "block_605b" =>
                        /\ Head(VerdictPanel(c).gates) = "pass"
                        /\ \E i \in DOMAIN CASES[c].triangulation :
                               SignalRow(CASES[c].triangulation[i]).stance = "supports"
            BY DEF DecisionOnOneScreen, shown
        <2>8. viewer # "none" => viewer \in Book[c].files
            BY DEF TypeOK
        <2> QED
            BY <2>1, <2>3, <2>4, <2>5, <2>6, <2>7, <2>8
    <1> QED
        BY <1>1, TypeCorrect, PTL
=============================================================================
