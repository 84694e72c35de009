----------------------------- MODULE DisputeDesk -----------------------------
(***************************************************************************)
(* The Dispute Center of one browser tab: the session store of case        *)
(* progress (data/caseProgressStore.ts), the case queue, and the case file *)
(* with its stepper, its approval gates and its attachments panel.  The    *)
(* store outlives the screens; the selected step and the open viewer are   *)
(* component state, which React keeps when the next screen renders the     *)
(* same component at the same place.                                       *)
(***************************************************************************)
EXTENDS Naturals, FiniteSets

CONSTANTS
    Case,       \* case ids
    File,       \* names of ACDV attachments
    Book        \* Book[c]: what the mock data says of case c

(* -------------------------------------------------------- vocabulary ---- *)

\* FRAUD_STAGES and DATA_ACCURACY_STAGES, by index.
LastIndex(kind) == IF kind = "FRAUD" THEN 3 ELSE 4

StageIndex == 0..4

Options == {"", "confirm", "flag", "approve", "override", "more_info"}

\* `noted`: comments.trim() is not empty.
Signoff == [option: Options, noted: BOOLEAN]

EMPTY == [option |-> "", noted |-> FALSE]

signoffComplete(s) == s.option # "" /\ s.noted

Responses == {"01", "03", "04", "07", "21", "22", "23", "24"}

Outcomes == {"Verified as reported", "Corrected & refurnished", "Field deleted",
             "Verified (non-specific)", "Denied", "Blocked & suppressed",
             "Pending", "none"}

responseOutcome(code) ==
    CASE code \in {"21", "22"} -> "Corrected & refurnished"
      [] code \in {"03", "07"} -> "Field deleted"
      [] code = "24"           -> "Verified (non-specific)"
      [] OTHER                 -> "Verified as reported"

daOutcome(recommended, option) ==
    CASE option = "more_info" -> "Pending"
      [] option = "override"  -> "Field deleted"
      [] OTHER                -> responseOutcome(recommended)

fraudOutcome(option) ==
    CASE option = "override"  -> "Denied"
      [] option = "more_info" -> "Pending"
      [] OTHER                -> "Blocked & suppressed"

Entry == [kind: {"FRAUD", "DATA_ACCURACY"},
          currentStage: StageIndex,
          resolved: BOOLEAN,                 \* status = "Resolved"
          signoffs: [StageIndex -> Signoff], \* caseSignoffs.ts
          files: SUBSET File,                \* attachments not yet acknowledged
          draft: BOOLEAN,                    \* autonomyMode = "draft_for_human"
          intake: BOOLEAN,                   \* the AI filed an intake extraction
          investigation: BOOLEAN,            \* the AI filed an investigation
          response: Responses]               \* recommendedResponse

LastStep(c) == LastIndex(Book[c].kind)

\* A book files a case under one of its own stages, and a resolved case under
\* the last of them.  No case carries more than one attachment, so the index
\* the attachments panel keeps always names the one file of its case.
ASSUME BookAssumption ==
    /\ Book \in [Case -> Entry]
    /\ \A c \in Case :
        /\ Book[c].currentStage <= LastStep(c)
        /\ Book[c].resolved => Book[c].currentStage = LastStep(c)
        /\ \A f, g \in Book[c].files : f = g
    /\ "queue" \notin Case
    /\ "none" \notin File

(* ------------------------------------------------------------- state ---- *)

VARIABLES
    seeded,         \* ids the store has an entry for
    stage,          \* CaseProgress.stage
    resolved,       \* CaseProgress.resolved, and status = "Resolved" with it
    signoffs,       \* CaseProgress.signoffs
    outcome,        \* CaseProgress.outcome
    acknowledged,   \* CaseProgress.acknowledged
    page,           \* "queue", or the case whose file is on screen
    selected,       \* the stepper's selected stage
    viewer,         \* the attachment open in the viewer, or "none"
    visited         \* cases in the tab's history

store == <<seeded, stage, resolved, signoffs, outcome, acknowledged>>

screen == <<page, selected, viewer, visited>>

vars == <<seeded, stage, resolved, signoffs, outcome, acknowledged,
          page, selected, viewer, visited>>

Init ==
    /\ seeded = {}
    /\ stage = [c \in Case |-> Book[c].currentStage]
    /\ resolved = [c \in Case |-> Book[c].resolved]
    /\ signoffs = [c \in Case |-> Book[c].signoffs]
    /\ outcome = [c \in Case |-> "none"]
    /\ acknowledged = [c \in Case |-> {}]
    /\ page = "queue"
    /\ selected = 0
    /\ viewer = "none"
    /\ visited = {}

(* -------------------------------------------------------- the stepper --- *)

\* requiresSignoff of the two steppers.
requiresSignoff(c, i) ==
    \/ Book[c].kind = "DATA_ACCURACY" /\ i = 2 /\ Book[c].draft
    \/ Book[c].kind = "FRAUD" /\ i = 0 /\ Book[c].intake
    \/ Book[c].kind = "FRAUD" /\ i = 1 /\ Book[c].investigation

\* The attachments the reviewer has opened neither here nor before.
pending(c) == Book[c].files \ acknowledged[c]

\* The index whose sign-off decides the outcome.
DecideIndex(c) == IF Book[c].kind = "FRAUD" THEN 1 ELSE 2

signoffOk(c, i) == requiresSignoff(c, i) => signoffComplete(signoffs[c][i])

attachmentsOk(c, i) ==
    Book[c].kind = "DATA_ACCURACY" /\ i = 2 => pending(c) = {}

canAdvance(c, i) == signoffOk(c, i) /\ attachmentsOk(c, i)

isActive(c) == selected = stage[c]

\* A case file is on screen and its footer shows a forward button.
FooterAhead(c) ==  \* variant: steps ahead of the case show the button too
    page = c /\ ~resolved[c] /\ canAdvance(c, selected)
FooterActive(c) ==
    /\ page = c
    /\ ~resolved[c]
    /\ isActive(c)
    /\ canAdvance(c, selected)

\* The approval gate is drawn by the body of a stage: the Decide stage of a
\* drafted case, the Intake and the Triangulate stage of a fraud case.
GateBeforeDecide(c, i) ==  \* variant: the index of the stage before
    IF Book[c].kind = "DATA_ACCURACY"
    THEN i = 1 /\ Book[c].draft
    ELSE (i = 0 /\ Book[c].intake) \/ (i = 1 /\ Book[c].investigation)
gateShown(c, i) ==
    IF Book[c].kind = "DATA_ACCURACY"
    THEN i = 2 /\ Book[c].draft
    ELSE (i = 0 /\ Book[c].intake) \/ (i = 1 /\ Book[c].investigation)

\* The mark of a step on the rail; "current" reads "You are here".
StepState(c, i) ==
    CASE i < stage[c] -> "done"
      [] i = stage[c] -> "current"
      [] OTHER        -> "todo"

\* What the footer tells the reviewer whom it holds back.
blockedHint(c, i) ==
    CASE ~attachmentsOk(c, i) -> "view the image"
      [] attachmentsOk(c, i) /\ (Book[c].kind = "FRAUD" \/ Book[c].draft) -> "sign off"
      [] OTHER -> "none"

outcomeOf(c) ==
    LET option == signoffs[c][DecideIndex(c)].option
    IN  IF Book[c].kind = "FRAUD" THEN fraudOutcome(option)
                                  ELSE daOutcome(Book[c].response, option)

(* ------------------------------------------------------------ actions --- *)

\* useCaseProgress seeds the store on first use and keeps what is there.
SeedAgain(c) ==  \* variant: each visit seeds the case
    /\ seeded' = seeded \cup {c}
    /\ stage' = [stage EXCEPT ![c] = Book[c].currentStage]
    /\ resolved' = [resolved EXCEPT ![c] = Book[c].resolved]
    /\ signoffs' = [signoffs EXCEPT ![c] = Book[c].signoffs]
    /\ outcome' = [outcome EXCEPT ![c] = "none"]
    /\ acknowledged' = [acknowledged EXCEPT ![c] = {}]
Seed(c) ==
    IF c \in seeded
    THEN UNCHANGED store
    ELSE /\ seeded' = seeded \cup {c}
         /\ stage' = [stage EXCEPT ![c] = Book[c].currentStage]
         /\ resolved' = [resolved EXCEPT ![c] = Book[c].resolved]
         /\ signoffs' = [signoffs EXCEPT ![c] = Book[c].signoffs]
         /\ outcome' = [outcome EXCEPT ![c] = "none"]
         /\ acknowledged' = [acknowledged EXCEPT ![c] = {}]

\* A row of the queue: the case file mounts afresh.
OpenCase(c) ==
    /\ page = "queue"
    /\ Seed(c)
    /\ page' = c
    /\ selected' = stage'[c]
    /\ viewer' = "none"
    /\ visited' = visited \cup {c}

\* The tab's history goes from one case file straight to another.  Both are
\* the route /disputes/:caseId, so CaseFile stays mounted: the stepper keeps
\* its selection if the new case is of the same kind, and the attachments
\* panel keeps its viewer if both cases have a panel.  The viewer then shows
\* the attachment of the new case.
JumpToCase(c) ==
    /\ page \in Case \ {c}
    /\ c \in visited
    /\ Seed(c)
    /\ page' = c
    /\ selected' = IF Book[page].kind = Book[c].kind THEN selected ELSE stage'[c]
    /\ viewer' \in IF viewer = "none" \/ Book[c].files = {} THEN {"none"}
                                                            ELSE Book[c].files
    /\ UNCHANGED visited

BackToQueue ==
    /\ page # "queue"
    /\ page' = "queue"
    /\ viewer' = "none"
    /\ selected' = 0
    /\ UNCHANGED <<store, visited>>

\* The store is module state: a reload empties it and mounts the page again.
Reload ==
    /\ seeded' = IF page = "queue" THEN {} ELSE {page}
    /\ stage' = [c \in Case |-> Book[c].currentStage]
    /\ resolved' = [c \in Case |-> Book[c].resolved]
    /\ signoffs' = [c \in Case |-> Book[c].signoffs]
    /\ outcome' = [c \in Case |-> "none"]
    /\ acknowledged' = [c \in Case |-> {}]
    /\ selected' = IF page = "queue" THEN 0 ELSE Book[page].currentStage
    /\ viewer' = "none"
    /\ UNCHANGED <<page, visited>>

\* Every step of the rail is a button, the steps ahead too.
Select(i) ==
    /\ page # "queue"
    /\ i <= LastStep(page)
    /\ selected' = i
    /\ UNCHANGED <<store, page, viewer, visited>>

Back ==
    /\ page # "queue"
    /\ selected > 0
    /\ selected' = selected - 1
    /\ UNCHANGED <<store, page, viewer, visited>>

\* "Complete step & continue".
Continue(c) ==
    /\ FooterActive(c)
    /\ selected < LastStep(c)
    /\ stage' = IF selected + 1 > stage[c] THEN [stage EXCEPT ![c] = selected + 1]
                                          ELSE stage
    /\ selected' = selected + 1
    /\ UNCHANGED <<seeded, resolved, signoffs, outcome, acknowledged,
                   page, viewer, visited>>

\* "Resolve case": resolveCase with the outcome of the sign-off on record.
Resolve(c) ==
    /\ FooterActive(c)
    /\ selected = LastStep(c)
    /\ resolved' = [resolved EXCEPT ![c] = TRUE]
    /\ outcome' = [outcome EXCEPT ![c] = outcomeOf(c)]
    /\ UNCHANGED <<seeded, stage, signoffs, acknowledged, screen>>

\* The approval gate of the selected stage: an option, or the notes.  It stays
\* open when the stage is done, and when the case is.
EditSignoff(c, s) ==
    /\ page = c
    /\ gateShown(c, selected)
    /\ s # signoffs[c][selected]
    /\ \/ s.option = signoffs[c][selected].option
       \/ s.noted = signoffs[c][selected].noted
    /\ s.option \in IF Book[c].kind = "FRAUD" /\ selected = 0
                    THEN {"", "confirm", "flag"}
                    ELSE {"", "approve", "override", "more_info"}
    /\ s.option = "" => signoffs[c][selected].option = ""
    /\ signoffs' = [signoffs EXCEPT ![c][selected] = s]
    /\ UNCHANGED <<seeded, stage, resolved, outcome, acknowledged, screen>>

\* The attachments panel: opening a file records it as viewed.
ViewAttachment(c, f) ==
    /\ page = c
    /\ f \in Book[c].files
    /\ viewer = "none"
    /\ acknowledged' = [acknowledged EXCEPT ![c] = @ \cup {f}]
    /\ viewer' = f
    /\ UNCHANGED <<seeded, stage, resolved, signoffs, outcome, page, selected,
                   visited>>

CloseViewer ==
    /\ viewer # "none"
    /\ viewer' = "none"
    /\ UNCHANGED <<store, page, selected, visited>>

Next ==
    \/ \E c \in Case : OpenCase(c) \/ JumpToCase(c) \/ Continue(c) \/ Resolve(c)
    \/ \E c \in Case, s \in Signoff : EditSignoff(c, s)
    \/ \E c \in Case, f \in File : ViewAttachment(c, f)
    \/ \E i \in StageIndex : Select(i)
    \/ Back \/ BackToQueue \/ CloseViewer \/ Reload

Spec == Init /\ [][Next]_vars

(* ------------------------------------------------------- what it shows -- *)

\* isOpen of KpiStrip.tsx, and the status column of the queue.
OpenCases == {c \in Case : ~resolved[c]}

(* --------------------------------------------------------- properties --- *)

\* Types, and two facts a screen relies on: the selected step is a step of the
\* case on screen (STAGE_COMPONENTS and the title are indexed by it), also
\* after a jump between cases, and the open viewer shows a file of that case.
TypeOK ==
    /\ seeded \subseteq Case
    /\ stage \in [Case -> StageIndex]
    /\ resolved \in [Case -> BOOLEAN]
    /\ signoffs \in [Case -> [StageIndex -> Signoff]]
    /\ outcome \in [Case -> Outcomes]
    /\ acknowledged \in [Case -> SUBSET File]
    /\ page \in Case \cup {"queue"}
    /\ selected \in StageIndex
    /\ viewer \in File \cup {"none"}
    /\ visited \subseteq Case
    /\ page # "queue" => selected <= LastStep(page) /\ page \in seeded
    /\ viewer # "none" => page # "queue" /\ viewer \in Book[page].files

\* A case that shows as resolved has gone through to its last stage: no
\* selection left over from another case, no step clicked ahead on the rail
\* and no reload closes a case early (StageFooter.tsx, the two steppers).
ResolvedAtTheEnd == \A c \in Case : resolved[c] => stage[c] = LastStep(c)

\* The cases whose present stage the gates of the steppers let a reviewer leave.
Cleared == {c \in Case : canAdvance(c, stage[c])}

Workflow == INSTANCE CaseWorkflow WITH
    FirstStage <- [c \in Case |-> Book[c].currentStage],
    LastStage <- [c \in Case |-> LastStep(c)],
    FirstOpen <- {c \in Case : ~Book[c].resolved},
    FirstCleared <- {c \in Case :
                        LET i == Book[c].currentStage
                        IN  /\ requiresSignoff(c, i)
                                 => signoffComplete(Book[c].signoffs[i])
                            /\ Book[c].kind = "DATA_ACCURACY" /\ i = 2
                                 => Book[c].files = {}},
    open <- OpenCases,
    cleared <- Cleared

\* The screens implement the workflow: whatever the reviewer selects, revisits
\* or jumps to, a case moves one stage at a time, past a gate only while its
\* sign-off is complete and its attachments are viewed, closes at its last
\* stage, and leaves the open count of the KPI strip exactly then.
ImplementsWorkflow == Workflow!Spec

\* A reviewer who is held back can always see why and do something about it:
\* the footer's hint (written in the steppers) names what is missing, and what
\* clears it (drawn by the stage bodies and the attachments panel) is on the
\* same screen, under the step the rail marks "You are here".
BlockedIsExplained ==
    \A c \in Case :
        page = c /\ ~resolved[c] /\ isActive(c) /\ ~canAdvance(c, selected) =>
            /\ StepState(c, selected) = "current"
            /\ \/ /\ blockedHint(c, selected) = "view the image"
                  /\ \E f \in Book[c].files : f \notin acknowledged[c]
               \/ /\ blockedHint(c, selected) = "sign off"
                  /\ gateShown(c, selected)
                  /\ ~signoffComplete(signoffs[c][selected])
=============================================================================
