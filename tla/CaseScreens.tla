---------------------------- MODULE CaseScreens ----------------------------
(***************************************************************************)
(* What the Dispute Center draws: the queue with its compliance strip, and *)
(* the panels of a case file, stage by stage, computed from the book and   *)
(* from the session store.  The screens are written apart from the store   *)
(* and from each other; the properties relate them.                        *)
(***************************************************************************)
EXTENDS DisputeDesk, CaseBook

(* -------------------------------------------------------------- queue --- *)

CONSTANT Today      \* the days of July the desk may be opened on

\* What the store and the steppers read of a case of the book, of its AI
\* artifacts and of its recorded sign-offs.
FiledEntry(c) ==
    LET e == CASES[c]
        s == getInitialSignoffs(c)
    IN  [kind |-> e.kind,
         currentStage |-> e.currentStage,
         resolved |-> e.status = "Resolved",
         signoffs |-> [i \in StageIndex |-> IF i \in DOMAIN s THEN s[i] ELSE EMPTY],
         files |-> e.files,
         draft |-> e.kind = "DATA_ACCURACY" /\ e.autonomyMode = "draft_for_human",
         intake |-> CASE_AI[c].intake,
         investigation |-> TRUE,
         response |-> e.recommendedResponse]

\* The desk works on cases of the book, and the store is seeded from them.
ASSUME ScreensAssumption ==
    /\ Case \subseteq CaseId
    /\ Book = [c \in Case |-> FiledEntry(c)]
    /\ Today \subseteq Int

caseCategory == [c \in CaseId |-> categoryForReason(CASES[c].reasonCode)]

\* getOverride(c.id)?.status ?? c.status
FiledStatus(c) == CASES[c].status  \* variant: the session is not asked
effectiveStatus(c) == IF resolved[c] THEN "Resolved" ELSE CASES[c].status

daysUntil(c, today) == CASES[c].slaDueDate - today

slaLabel(days) == IF days <= 0 THEN 0 ELSE days     \* 0 reads "Due today"

slaVariant(days) ==
    CASE days <= 2 -> "danger" [] days \in 3..5 -> "warning" [] OTHER -> "success"

responseMode(c) ==
    IF CASES[c].kind = "DATA_ACCURACY" /\ CASES[c].autonomyMode = "autonomous"
    THEN "Auto" ELSE "Review"

CaseRow(c, today) ==
    LET open == effectiveStatus(c) # "Resolved"
    IN  [type |-> caseCategory[c],
         status |-> effectiveStatus(c),
         sla |-> IF open THEN slaVariant(daysUntil(c, today)) ELSE "none",
         response |-> CASES[c].recommendedResponse,
         mode |-> IF open THEN responseMode(c) ELSE "furnished"]

\* KpiStrip, over the cases the store and the book leave open.
KpiStrip(today) ==
    LET open == OpenCases
        count(P(_)) == Cardinality({c \in open : P(c)})
    IN  [open |-> Cardinality(open),
         dataAccuracy |-> count(LAMBDA c : CASES[c].kind = "DATA_ACCURACY"),
         fraud |-> count(LAMBDA c : CASES[c].kind = "FRAUD"),
         slaRisk |-> count(LAMBDA c : daysUntil(c, today) <= 2),
         unclearedXb |-> count(LAMBDA c : CASES[c].ccc = "XB"),
         pendingBlocks |-> count(LAMBDA c : CASES[c].kind = "FRAUD"
                                            /\ ~CASES[c].blockApplied)]

(* ---------------------------------------------------------- case file --- *)

If(condition, panel) == IF condition THEN {panel} ELSE {}

autonomous(c) == CASES[c].autonomyMode = "autonomous"

\* FieldComparisonPanel with its free-text callout.
ComparePanels(c) == {"field comparison"} \cup If(CASES[c].freeText, "free text")

\* The data-accuracy Decide stage: "everything the reviewer needs to decide, in
\* one screen".  The reminder of the images reads the book, not the store.
DecideGateOnly(c) ==  \* variant: the comparison stays on its own stage
    {"autonomy gates", "reasoning"} \cup
    (IF autonomous(c) THEN {"auto-resolved"} ELSE {"approval gate"})
DecidePanels(c) ==
    {"autonomy gates", "reasoning"}
    \cup IF autonomous(c)
         THEN {"auto-resolved"}
         ELSE ComparePanels(c) \cup If(CASES[c].files # {}, "image reminder")
                               \cup {"approval gate"}

DataAccuracyPanels(c, i) ==
    CASE i = 0 -> {"channel"} \cup If(CASE_AI[c].intake, "intake extraction")
      [] i = 1 -> ComparePanels(c)
      [] i = 2 -> DecidePanels(c)
      [] i = 3 -> {"metro 2 report"}
      [] OTHER -> {"response and outcome"}

\* InvestigationReview is the verdict with its checks beside the evidence.
InvestigationReview == {"verdict", "reasoning", "evidence"}

FraudPanels(c, i) ==
    CASE i = 0 -> {"channel"} \cup If(CASE_AI[c].intake, "intake extraction")
                              \cup If(CASE_AI[c].intake, "approval gate")
      [] i = 1 -> InvestigationReview \cup {"approval gate"}
      [] i = 2 -> {"suppression", "metro 2 report"}
      [] OTHER -> {"outcome"}

\* STAGE_COMPONENTS of the stepper the case is of.
StagePanels(c, i) ==
    IF CASES[c].kind = "FRAUD" THEN FraudPanels(c, i) ELSE DataAccuracyPanels(c, i)

\* CaseFile: banner, header, summaries, attachments, and the stepper's stage.
CaseFile(c) ==
    {"header", "member", "account"}
    \cup If(resolved[c], "resolved banner")
    \cup If(CASES[c].files # {}, "attachments")
    \cup StagePanels(c, selected)

\* What the panels read from the AI artifacts, which are filed apart from the
\* case: the label of the autonomy gates comes from the case, the marks do not.
AutonomyGatePanel(c) ==
    [label |-> IF autonomous(c) THEN "All gates passed" ELSE "Gate tripped",
     marks |-> CASE_AI[c].checks]

FieldComparisonPanel(c) == Contains(CASES[c].disputedFields, "mismatch")

VerdictPanel(c) == [recommends |-> CASE_AI[c].recommendation, gates |-> CASE_AI[c].checks]

\* The document behind the extraction, opened from its chip.
IntakeExtractionPanel(c) == EvidenceReferenceChip(CASE_AI[c].source)

\* The signals a reviewer can open from the evidence panel, with their sources.
SignalRow(row) == [stance |-> row.stance, opens |-> EvidenceReferenceChip(row.cites)]

(* --------------------------------------------------------- properties --- *)

\* The strip counts what the rows show, on every day and after every
\* resolution: its open cases are the rows with a due date, its SLA risk the
\* rows with a red one, and "furnished" is what closed rows read, and no other
\* (KpiStrip.tsx, DisputeQueue.tsx and
\* caseProgressStore.ts each decide alone what is open).
StripCountsRows ==
    page = "queue" =>
        \A today \in Today :
            LET rows == [c \in Case |-> CaseRow(c, today)]
                strip == KpiStrip(today)
            IN  /\ strip.open = Cardinality({c \in Case : rows[c].sla # "none"})
                /\ strip.open = strip.dataAccuracy + strip.fraud
                /\ strip.slaRisk = Cardinality({c \in Case : rows[c].sla = "danger"})
                /\ strip.pendingBlocks <= strip.fraud
                /\ \A c \in Case : rows[c].mode = "furnished" <=> c \notin OpenCases

\* Component state outlives a jump from case to case, and still the step and
\* the open document are those of the case on screen.  Wherever a reviewer is
\* asked to sign, the screen holds what the decision is about: the image, the free text or the field that tripped an autonomy gate
\* whose mark says so, the received document at a fraud intake, and at the
\* triangulation a verdict that blocks only where its first gate, the identity
\* theft report, passed and some signal speaks for fraud.  A gate is drawn
\* exactly where the store takes its sign-off, and the banner of a closed case
\* exactly where the desk has closed it.
DecisionOnOneScreen ==
    page # "queue" =>
        LET c == page
            e == CASES[c]
            shown == CaseFile(c)
            asked == "approval gate" \in shown
        IN  /\ selected <= LastStep(c)
            /\ viewer # "none" => viewer \in Book[c].files
            /\ asked <=> gateShown(c, selected)
            /\ "resolved banner" \in shown <=> c \notin OpenCases
            /\ asked /\ e.kind = "DATA_ACCURACY" =>
                /\ AutonomyGatePanel(c).label = "Gate tripped"
                /\ Contains(AutonomyGatePanel(c).marks, "fail")
                /\ e.gates.imageAttached => "attachments" \in shown
                /\ e.gates.freeTextConflict => "free text" \in shown
                /\ FieldComparisonPanel(c) => "field comparison" \in shown
            /\ asked /\ "intake extraction" \in shown =>
                "received note" \in IntakeExtractionPanel(c)
            /\ asked /\ e.kind = "FRAUD" /\ selected = DecideIndex(c) =>
                /\ {"verdict", "evidence"} \subseteq shown
                /\ VerdictPanel(c).recommends = "block_605b" =>
                    /\ Head(VerdictPanel(c).gates) = "pass"
                    /\ \E i \in DOMAIN e.triangulation :
                           SignalRow(e.triangulation[i]).stance = "supports"
=============================================================================
