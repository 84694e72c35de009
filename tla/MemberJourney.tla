----------------------------- MODULE MemberJourney -----------------------------
(***************************************************************************)
(* The timeline of a member (features/dispute-cases/member): recorded      *)
(* events and generated filler, newest first, under a search field, two    *)
(* dates and a row of category chips.  A date is yyyymmdd in the tables    *)
(* and a day number in a timeline.  Of the text that is searched an event  *)
(* keeps the words of Word it contains; filler amounts are left out.       *)
(***************************************************************************)
EXTENDS Integers, Sequences, SequencesExt, FiniteSetsExt, StableSort

CONSTANTS
    Offset,   \* [member number -> its seed modulo the number of patterns]
    Today     \* the dates a user may pick, yyyymmdd

ASSUME OffsetAssumption == \A m \in DOMAIN Offset : Offset[m] \in Nat

Word == {"card", "statement", "dispute"}

(* Date.parse in days, from a calendar whose year begins in March.         *)
Day(ymd) ==
    LET m == (ymd \div 100) % 100
        late == (14 - m) \div 12
        y == ymd \div 10000 - late
    IN  (ymd % 100) + (153 * (m + 12 * late - 3) + 2) \div 5
        + 365 * y + y \div 4 - y \div 100 + y \div 400

Event(date, type, words) == [date |-> Day(date), type |-> type, words |-> words]
Plain(date, type) == Event(date, type, {})
Opened(date) == Event(date, "dispute", {"dispute"})

(* What is recorded of a member begins with the day the member joined.     *)
M100558 == <<
    Plain(20190416, "membership"), Plain(20190416, "kyc"),
    Plain(20210809, "application"), Event(20260428, "kyc", {"card"}),
    Event(20260502, "card", {"card", "dispute"}), Event(20260609, "complaint", {"card"}),
    Plain(20260610, "call"), Plain(20260611, "complaint"),
    Event(20260612, "complaint", {"card"}), Opened(20260612)>>

M100620 == <<
    Plain(20170203, "membership"), Event(20260421, "application", {"dispute"}),
    Plain(20260615, "fraud"), Opened(20260617)>>

M100410 == <<
    Plain(20151120, "membership"), Plain(20260330, "application"),
    Plain(20260605, "complaint"), Event(20260608, "fraud", {"card"}),
    Plain(20260610, "furnishing"), Opened(20260611)>>

M100482 == <<
    Plain(20180611, "membership"), Plain(20220902, "application"),
    Plain(20251201, "delinquency"), Plain(20260215, "delinquency"),
    Plain(20260402, "call"), Plain(20260331, "delinquency"), Opened(20260614)>>

M100731 == <<
    Plain(20160927, "membership"), Plain(20240118, "application"),
    Plain(20260201, "delinquency"), Opened(20260601), Plain(20260609, "letter")>>

M100904 == <<
    Event(20200305, "membership", {"card"}), Event(20230511, "card", {"card"}),
    Event(20260315, "delinquency", {"card"}), Event(20260618, "complaint", {"card"}),
    Opened(20260618)>>

M100827 == <<
    Plain(20170814, "membership"), Plain(20220210, "application"),
    Plain(20260105, "payment"), Plain(20260204, "payment"),
    Event(20260228, "letter", {"statement"}), Plain(20260303, "payment"),
    Plain(20260415, "furnishing"), Event(20260705, "dispute", {"dispute", "statement"})>>

FALLBACK == <<Plain(20190101, "membership")>>

SIGNATURES(m) ==
    CASE m = 100558 -> M100558 [] m = 100620 -> M100620 [] m = 100410 -> M100410
      [] m = 100482 -> M100482 [] m = 100731 -> M100731 [] m = 100904 -> M100904
      [] m = 100827 -> M100827
      [] OTHER -> FALLBACK

FILLER_PATTERNS == <<
    <<"letter", {"statement"}>>, <<"transaction", {}>>, <<"card", {"card"}>>,
    <<"payment", {}>>, <<"fee", {}>>, <<"call", {}>>, <<"message", {}>>,
    <<"card", {"card"}>>, <<"email", {"statement"}>>, <<"transaction", {}>> >>

FILLER_COUNT == 22
TIMELINE_END == Day(20260531)

generateFiller(m, joined) ==
    LET span == Max({TIMELINE_END - joined, 0})
        pattern(i) == FILLER_PATTERNS[((i + Offset[m]) % Len(FILLER_PATTERNS)) + 1]
    IN  [n \in 1..FILLER_COUNT |->
           [date |-> joined + ((2 * n - 1) * span) \div (2 * FILLER_COUNT),
            type |-> pattern(n - 1)[1], words |-> pattern(n - 1)[2]]]

(* Newest first.                                                           *)
buildJourney(m) ==
    LET sig == SIGNATURES(m)
    IN  LargestFirst(sig \o generateFiller(m, sig[1].date), "date")

TimelineOf == [m \in DOMAIN Offset |-> buildJourney(m)]

Category == {"complaint", "contact", "money", "lifecycle"}

(* Variant: letters are a family of their own, without a chip.             *)
LETTERS_APART(type) ==
    CASE type = "complaint" -> "complaint"
      [] type = "letter" -> "letter"
      [] type \in {"call", "message", "email", "branch"} -> "contact"
      [] type \in {"transaction", "card", "fee", "payment"} -> "money"
      [] OTHER -> "lifecycle"

TYPE_CATEGORY(type) ==
    CASE type \in {"complaint", "letter"} -> "complaint"
      [] type \in {"call", "message", "email", "branch"} -> "contact"
      [] type \in {"transaction", "card", "fee", "payment"} -> "money"
      [] OTHER -> "lifecycle"

VARIABLES
    member,   \* the number in the URL
    filter    \* JourneyFilterState; "" and 0 where nothing is entered

journeyVars == <<member, filter>>

INITIAL_FILTER == [query |-> "", category |-> "all", start |-> 0, end |-> 0]

inCategory(t, category) == category = "all" \/ TYPE_CATEGORY(t.type) = category
inRange(t, f) == /\ f.start # 0 => t.date >= Day(f.start)
                 /\ f.end # 0 => t.date <= Day(f.end)
matchesQuery(t, f) == f.query # "" => f.query \in t.words

Passes(t, f) == inCategory(t, f.category) /\ inRange(t, f) /\ matchesQuery(t, f)

filterTouchpoints(list, f) ==
    LET upTo[i \in 0..Len(list)] ==
          IF i = 0 THEN <<>>
          ELSE IF Passes(list[i], f) THEN Append(upTo[i - 1], list[i])
          ELSE upTo[i - 1]
    IN  upTo[Len(list)]

Rows == filterTouchpoints(TimelineOf[member], filter)

JourneyInit ==
    /\ member \in DOMAIN Offset
    /\ filter = INITIAL_FILTER

MountJourney(m) == member' = m /\ filter' = INITIAL_FILTER

Enter(field, value) ==
    /\ filter' = [filter EXCEPT ![field] = value]
    /\ filter' # filter
    /\ UNCHANGED member

TypeQuery == \E q \in Word \cup {""} : Enter("query", q)
PickCategory == \E c \in Category \cup {"all"} : Enter("category", c)
PickDate == \E field \in {"start", "end"} : \E day \in Today \cup {0} : Enter(field, day)

(* Clear is there when a date is, and leaves query and category alone.     *)
ClearDates ==
    /\ filter.start # 0 \/ filter.end # 0
    /\ filter' = [filter EXCEPT !.start = 0, !.end = 0]
    /\ UNCHANGED member

-----------------------------------------------------------------------------
(* Under one query and one pair of dates the four chips share out what All *)
(* shows: every touchpoint is behind exactly one of them, none is behind   *)
(* two, and each list runs from the newest down.                           *)
TimelineIsWhole ==
    LET Behind(c) == filterTouchpoints(TimelineOf[member], [filter EXCEPT !.category = c])
    IN  /\ Len(Behind("all")) = Len(Behind("complaint")) + Len(Behind("contact"))
                                + Len(Behind("money")) + Len(Behind("lifecycle"))
        /\ \A t \in ToSet(Behind("all")) : \E c \in Category : t \in ToSet(Behind(c))
        /\ \A i \in 1..(Len(Rows) - 1) : Rows[i].date >= Rows[i + 1].date
=============================================================================
