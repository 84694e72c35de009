------------------------------ MODULE CaseBook ------------------------------
(***************************************************************************)
(* The book of dispute cases the Dispute Center ships with: the cases, the *)
(* AI artifacts filed with them, the sign-offs already on record, and the  *)
(* tables they are read with.  A case keeps what the screens and the       *)
(* workflow tell apart; names, addresses, amounts and wording are left out.*)
(* Dates are days of July 2026.                                            *)
(***************************************************************************)
EXTENDS Integers, Sequences, FiniteSets, SequencesExt

(* ------------------------------------------------------------- tables --- *)

\* DISPUTE_CATEGORY, for the reason codes the demo carries.
DISPUTE_CATEGORY ==
    [Ownership      |-> {"001", "002", "101"},
     ClosedAccount  |-> {"023", "024"},
     Specific       |-> {"015", "100", "108", "118", "119"},
     Comments       |-> {"010", "116", "117"},
     Dates          |-> {"114", "115"},
     Derogatory     |-> {"039", "106"},
     Collection     |-> {"006", "012"},
     Bankruptcy     |-> {"019", "037", "102"},
     Fraud          |-> {"103", "104"},
     NotSpecific    |-> {"031", "038", "040", "041", "110", "111", "112", "120"}]

categoryForReason(code) ==
    IF \E k \in DOMAIN DISPUTE_CATEGORY : code \in DISPUTE_CATEGORY[k]
    THEN CHOOSE k \in DOMAIN DISPUTE_CATEGORY : code \in DISPUTE_CATEGORY[k]
    ELSE "NotSpecific"

gatesPass(g) == ~g.imageAttached /\ ~g.freeTextConflict /\ g.fieldPopulatedConsistent

Gates(image, conflict, consistent) ==
    [imageAttached |-> image, freeTextConflict |-> conflict,
     fieldPopulatedConsistent |-> consistent]

DataAccuracy(reason, ccc, due, stage, status, files, gates, fields, text, response, mode) ==
    [kind |-> "DATA_ACCURACY", reasonCode |-> reason, ccc |-> ccc, slaDueDate |-> due,
     currentStage |-> stage, status |-> status, files |-> files, gates |-> gates,
     disputedFields |-> fields, freeText |-> text,
     recommendedResponse |-> response, autonomyMode |-> mode]

Fraud(reason, ccc, due, stage, status, response, itr, evidence, blockApplied) ==
    [kind |-> "FRAUD", reasonCode |-> reason, ccc |-> ccc, slaDueDate |-> due,
     currentStage |-> stage, status |-> status, files |-> {},
     recommendedResponse |-> response, itrOnFile |-> itr,
     triangulation |-> evidence, blockApplied |-> blockApplied]

(* ---------------------------------------------------------- evidence ---- *)

\* A signal: who reported it, the result, what it argues, what it cites.
Signal(source, result, stance, cites) ==
    [source |-> source, result |-> result, stance |-> stance, cites |-> cites]

TRIANGULATION_MISMATCH ==
    <<Signal("Prove", "Mismatch", "supports", "link"),
      Signal("Registered phone/email", "Mismatch", "supports", "none"),
      Signal("LexisNexis Phone Finder", "Mismatch", "supports", "link"),
      Signal("Twilio Lookup", "Elevated", "supports", "link"),
      Signal("SentiLink", "Elevated", "supports", "link"),
      Signal("Core CIP", "Match", "against", "none"),
      Signal("Pindrop (IVR)", "Match", "inconclusive", "call_transcript"),
      Signal("LexisNexis InstantID", "Match", "inconclusive", "link"),
      Signal("LexisNexis FraudPoint", "Elevated", "inconclusive", "link")>>

TRIANGULATION_FIRST_PARTY ==
    <<Signal("Core CIP", "Match", "against", "none"),
      Signal("Registered phone/email", "Match", "against", "none"),
      Signal("Pindrop (IVR)", "Match", "against", "none"),
      Signal("LexisNexis InstantID", "Match", "against", "link"),
      Signal("LexisNexis FraudPoint", "Match", "against", "none"),
      Signal("Prove", "Match", "against", "none"),
      Signal("Twilio Lookup", "Match", "against", "none"),
      Signal("Core CIP", "Mismatch", "inconclusive", "none")>>

\* The sources signalLibrary.ts can explain in an info hover.
SIGNAL_EXPLAINER ==
    {"Core CIP", "Registered phone/email", "Pindrop (IVR)", "LexisNexis InstantID",
     "LexisNexis FraudPoint", "LexisNexis Phone Finder", "Prove", "Twilio Lookup",
     "SentiLink"}

\* EvidencePanel: the rows of one stance, under one heading of the panel.
StanceGroup(rows, stance) == {i \in DOMAIN rows : rows[i].stance = stance}

EvidenceGroups(rows) ==
    [s \in {"supports", "against", "inconclusive"} |-> StanceGroup(rows, s)]

\* The mocked documents others sent in: they carry a "Received" note.
Inbound == {"dispute_letter", "ftc_id_theft_report", "acdv", "bank_statement",
            "consumer_image", "cfpb_complaint"}

\* The layout of a mocked document, by the kind of the asset it stands for.
buildAssetContent(kind) ==
    CASE kind = "call_transcript"              -> "transcript"
      [] kind \in {"dispute_letter", "letter"} -> "letter"
      [] OTHER                                 -> "form"

\* The blocks of a scanned page.
ScannedDocument(kind) ==
    (IF kind \in Inbound THEN {"received note"} ELSE {})
    \cup IF buildAssetContent(kind) = "letter"
         THEN {"addresses", "salutation", "body", "signature"}
         ELSE {"header", "meta", "body"}

\* A recording is shown as a transcript, anything else as a scanned page.
AssetViewer(kind) ==
    IF buildAssetContent(kind) = "transcript" THEN {"header", "lines"}
                                              ELSE ScannedDocument(kind)

\* A cited source opens its document, follows a link, or shows a hover preview.
EvidenceReferenceChip(cites) ==
    CASE cites = "link" -> {"link"}
      [] cites \in {"pointer", "none"} -> {"preview"}
      [] OTHER -> AssetViewer(cites)

(* -------------------------------------------------------------- cases --- *)

Fields(n, wrong) == [i \in 1..n |-> IF i \in wrong THEN "mismatch" ELSE "match"]

CBD_5101 == DataAccuracy("118", "XB", 20, 0, "Intake", {}, Gates(FALSE, FALSE, TRUE),
                         Fields(2, {1}), FALSE, "21", "autonomous")
CBD_5102 == DataAccuracy("106", "XB", 19, 0, "Intake", {"consumer_statement.tiff"},
                         Gates(TRUE, TRUE, TRUE), Fields(2, {1, 2}), TRUE, "22",
                         "draft_for_human")
CBD_5103 == DataAccuracy("115", "XH", 25, 4, "Resolved", {}, Gates(FALSE, FALSE, TRUE),
                         Fields(1, {1}), FALSE, "21", "autonomous")
CBD_5104 == DataAccuracy("112", "XB", 24, 2, "Decide response", {},
                         Gates(FALSE, TRUE, TRUE), Fields(3, {}), TRUE, "24",
                         "draft_for_human")
CBD_5105 == DataAccuracy("001", "XB", 22, 2, "Decide response",
                         {"non_ownership_affidavit.tiff"}, Gates(TRUE, FALSE, TRUE),
                         Fields(1, {}), FALSE, "23", "draft_for_human")
CBD_5106 == DataAccuracy("015", "XB", 21, 1, "Compare fields", {},
                         Gates(FALSE, FALSE, TRUE), Fields(1, {1}), FALSE, "21",
                         "autonomous")
CBD_5107 == DataAccuracy("114", "XB", 23, 1, "Compare fields", {},
                         Gates(FALSE, FALSE, TRUE), Fields(1, {1}), FALSE, "21",
                         "autonomous")
CBD_5108 == DataAccuracy("119", "XB", 18, 2, "Decide response", {},
                         Gates(FALSE, FALSE, FALSE), Fields(1, {1}), FALSE, "22",
                         "draft_for_human")
CBD_4822 == Fraud("103", "none", 13, 0, "Intake", "07", TRUE,
                  TRIANGULATION_MISMATCH, FALSE)
CBD_4835 == Fraud("104", "XB", 14, 1, "Triangulate & decide", "01", FALSE,
                  TRIANGULATION_FIRST_PARTY, FALSE)
CBD_4818 == Fraud("103", "XH", -19, 3, "Resolved", "07", TRUE,
                  TRIANGULATION_MISMATCH, TRUE)

CaseId == {"CBD-5101", "CBD-5102", "CBD-5103", "CBD-5104", "CBD-5105", "CBD-5106",
           "CBD-5107", "CBD-5108", "CBD-4822", "CBD-4835", "CBD-4818"}

CASES ==
    [c \in CaseId |->
        CASE c = "CBD-5101" -> CBD_5101
          [] c = "CBD-5102" -> CBD_5102
          [] c = "CBD-5103" -> CBD_5103
          [] c = "CBD-5104" -> CBD_5104
          [] c = "CBD-5105" -> CBD_5105
          [] c = "CBD-5106" -> CBD_5106
          [] c = "CBD-5107" -> CBD_5107
          [] c = "CBD-5108" -> CBD_5108
          [] c = "CBD-4822" -> CBD_4822
          [] c = "CBD-4835" -> CBD_4835
          [] c = "CBD-4818" -> CBD_4818]

DEMO_ORDER == <<"CBD-5101", "CBD-5102", "CBD-4822">>

\* The queue: the demo cases, then the rest by due date.
DISPUTE_CASES ==
    LET rest == CaseId \ ToSet(DEMO_ORDER)
        due(c) == CASES[c].slaDueDate
    IN  DEMO_ORDER \o [i \in 1..Cardinality(rest) |->
            CHOOSE c \in rest : Cardinality({d \in rest : due(d) < due(c)}) = i - 1]

\* The rows of one filter tab, and the tabs that have rows.
RowsOf(filter) ==
    SelectSeq(DISPUTE_CASES,
              LAMBDA c : filter = "All"
                         \/ categoryForReason(CASES[c].reasonCode) = filter)

PRESENT_CATEGORIES == {categoryForReason(CASES[c].reasonCode) : c \in CaseId}

(* ------------------------------------------------------- AI artifacts --- *)

\* The document the intake was read from ("none": no extraction filed), the
\* recommendation, and the status of each deterministic check.
Ai(source, recommendation, checks) ==
    [intake |-> source # "none", source |-> source,
     recommendation |-> recommendation, checks |-> checks]

AI_5101 == Ai("acdv", "modify", <<"pass", "pass", "pass">>)
AI_5102 == Ai("acdv", "modify", <<"pass", "pass", "fail">>)
AI_5103 == Ai("acdv", "modify", <<"pass", "pass", "pass">>)
AI_5104 == Ai("acdv", "verify", <<"pass", "fail", "pass">>)
AI_5105 == Ai("acdv", "verify", <<"fail", "pass", "pass">>)
AI_5106 == Ai("acdv", "modify", <<"pass", "pass", "pass">>)
AI_5107 == Ai("acdv", "modify", <<"pass", "pass", "pass">>)
AI_5108 == Ai("acdv", "modify", <<"pass", "pass", "fail">>)
AI_4822 == Ai("ftc_id_theft_report", "block_605b", <<"pass", "pass", "pass">>)
AI_4835 == Ai("acdv", "needs_more_info", <<"fail", "n_a">>)
AI_4818 == Ai("none", "block_605b", <<"pass", "pass">>)

CASE_AI ==
    [c \in CaseId |->
        CASE c = "CBD-5101" -> AI_5101
          [] c = "CBD-5102" -> AI_5102
          [] c = "CBD-5103" -> AI_5103
          [] c = "CBD-5104" -> AI_5104
          [] c = "CBD-5105" -> AI_5105
          [] c = "CBD-5106" -> AI_5106
          [] c = "CBD-5107" -> AI_5107
          [] c = "CBD-5108" -> AI_5108
          [] c = "CBD-4822" -> AI_4822
          [] c = "CBD-4835" -> AI_4835
          [] c = "CBD-4818" -> AI_4818]

(* ----------------------------------------------------------- sign-offs -- *)

Recorded(option) == [option |-> option, noted |-> TRUE]

\* getInitialSignoffs: the sign-offs on record, by stage.
getInitialSignoffs(c) ==
    CASE c = "CBD-4822" -> 0 :> Recorded("confirm")
      [] c = "CBD-4835" -> 0 :> Recorded("flag")
      [] c = "CBD-4818" -> 1 :> Recorded("approve")
      [] OTHER          -> <<>>

(* --------------------------------------------- what the book must obey -- *)

\* The parts of the book were written in seven files and agree with each other:
\* an agent is autonomous only where all gates pass and no check failed, a
\* consumer image is attached exactly where its gate says so, a correction is
\* recommended exactly where a field disagrees with the system of record and is
\* furnished with a response code that corrects, a block is recommended exactly
\* where the evidence is mostly for fraud and the identity theft report is on
\* file, a signal that matches the records never argues for fraud, every
\* source of a signal is explained, the document an intake was read from opens
\* as one that was received, every case is under exactly one tab besides
\* "All", and the queue lists every case once.
ASSUME BookIsConsistent ==
    /\ \A c \in CaseId :
        LET e == CASES[c]
            ai == CASE_AI[c]
        IN  /\ ai.intake => "received note" \in EvidenceReferenceChip(ai.source)
            /\ e.kind = "DATA_ACCURACY" =>
                /\ e.autonomyMode = "autonomous" =>
                       gatesPass(e.gates) /\ ToSet(ai.checks) = {"pass"}
                /\ e.autonomyMode = "draft_for_human" => "fail" \in ToSet(ai.checks)
                /\ e.gates.imageAttached <=> e.files # {}
                /\ e.gates.freeTextConflict <=> e.freeText
                /\ ai.recommendation = "modify" <=> Contains(e.disputedFields, "mismatch")
                /\ ai.recommendation = "modify" <=> e.recommendedResponse \in {"21", "22"}
            /\ e.kind = "FRAUD" =>
                LET rows == e.triangulation
                    groups == EvidenceGroups(rows)
                IN  /\ UNION {groups[s] : s \in DOMAIN groups} = DOMAIN rows
                    /\ \A i \in DOMAIN rows : rows[i].source \in SIGNAL_EXPLAINER
                    /\ \A i \in groups["supports"] : rows[i].result # "Match"
                    /\ (ai.recommendation = "block_605b") <=>
                           (Cardinality(groups["supports"]) > Cardinality(groups["against"]))
                    /\ e.itrOnFile <=> Head(ai.checks) = "pass"
    /\ \A c \in CaseId :
        Cardinality({k \in PRESENT_CATEGORIES : Contains(RowsOf(k), c)}) = 1
    /\ ToSet(DISPUTE_CASES) = CaseId
    /\ Len(DISPUTE_CASES) = Cardinality(CaseId)
=============================================================================
