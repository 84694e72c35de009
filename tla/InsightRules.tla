----------------------------- MODULE InsightRules -----------------------------
(***************************************************************************)
(* The deterministic readers of a dashboard: shared/insights/headlines.ts  *)
(* (the strip on top), shared/insights/rules.ts (the card under a chart)   *)
(* and features/executive-summary/tiles.ts.  Sentences are left out: a     *)
(* callout is its label and tone, a card its tone and the kinds of its     *)
(* bullets.  Amounts are integers, ratios and shares basis points (1.5% is *)
(* 150), and shares are compared by cross-multiplying, so a value on a     *)
(* threshold is exact where the code's floating point may fall either way. *)
(***************************************************************************)
EXTENDS Integers, Sequences, SequencesExt, FiniteSetsExt, StableSort

CONSTANTS
    Name,      \* names of products and officers
    Payload    \* [surface -> the bodies its route may answer]

(* The bodies the API answers.  No balance is negative.  The header of the *)
(* executive summary and the last row of its trend are one row of          *)
(* fct_executive_kpis; for a month without a row the header is zeros and   *)
(* the trend ends with an older month.                                     *)
Balances(xs) == xs \in Seq([product : Name, balance : Nat])
Shares(rows) == rows \in Seq([share : Int])
OneMonth(d) == d.trend # <<>> => Last(d.trend) = [ratio |-> d.ratio, spread |-> d.spread]

Body(surface, d) ==
    /\ surface = "executive" =>
         /\ d.ratio \in Nat /\ d.spread \in Int
         /\ d.trend \in Seq([ratio : Nat, spread : Int])
         /\ OneMonth(d) \/ (d.ratio = 0 /\ d.spread = 0)
    /\ surface = "deposits" =>
         /\ d.opened \in Nat /\ d.closed \in Nat
         /\ Balances(d.mix) /\ Shares(d.top25)
    /\ surface = "past-due" =>
         /\ Balances(d.officers)
         /\ d.buckets \in Seq([d30 : Nat, d60 : Nat, d90 : Nat])
         /\ d.watchDelta \in Int
    /\ surface = "officer-branch" =>
         /\ Balances(d.mix) /\ d.watch \in Seq(Int) /\ Shares(d.borrowers)

ASSUME PayloadAssumption ==
    /\ DOMAIN Payload \subseteq {"executive", "deposits", "past-due", "officer-branch"}
    /\ \A surface \in DOMAIN Payload : \A d \in Payload[surface] : Body(surface, d)

Sum(xs, field) ==
    LET upTo[i \in 0..Len(xs)] == IF i = 0 THEN 0 ELSE upTo[i - 1] + xs[i][field]
    IN  upTo[Len(xs)]

(* [...xs].sort((a, b) => b.f - a.f)[0]: the first of the largest.         *)
Top(xs, field) ==
    xs[Min({i \in 1..Len(xs) : \A j \in 1..Len(xs) : xs[j][field] <= xs[i][field]})]

ShareAbove(part, whole, percent) == part * 100 > percent * whole

Callout(tone, label) == [tone |-> tone, label |-> label]
Card(tone, bullets) == [tone |-> tone, bullets |-> bullets]
NEUTRAL == Card("neutral", <<>>)

overallTone(callouts) ==
    IF \E i \in 1..Len(callouts) : callouts[i].tone = "warn" THEN "warn" ELSE "info"

Headline(callouts) ==
    [callouts |-> SubSeq(callouts, 1, Min({3, Len(callouts)})), tone |-> overallTone(callouts)]

Optional(condition, callout) == IF condition THEN <<callout>> ELSE <<>>

-----------------------------------------------------------------------------
(* The headline of each surface.                                           *)

executiveHeadline(d) ==
    LET n == Len(d.trend)
        prior == IF n >= 2 THEN d.trend[n - 1].ratio ELSE d.ratio
        grew == d.loanGrowth > 0 \/ d.depositGrowth > 0
        worse == d.ratio > 150 \/ d.ratio - prior > 10
    IN  Headline(<<
          IF grew THEN Callout("success", "Strength") ELSE Callout("info", "Steady"),
          IF worse THEN Callout("warn", "Watch") ELSE Callout("success", "Risk"),
          Callout(IF d.spread < 200 THEN "warn" ELSE "info", "Margin")>>)

Concentration(xs, percent, spread) ==
    LET total == Sum(xs, "balance")
        heavy == ShareAbove(Top(xs, "balance").balance, total, percent)
    IN  Optional(total > 0,
          IF heavy THEN Callout("warn", "Concentration") ELSE Callout("info", spread))

Largest(rows, label) ==
    Optional(rows # <<>>, Callout(IF rows[1].share > 500 THEN "warn" ELSE "info", label))

depositsHeadline(d) ==
    LET net == d.opened - d.closed
    IN  Headline(
          Optional(net > 0, Callout("success", "Growth"))
          \o Optional(net < 0, Callout("warn", "Watch"))
          \o Concentration(d.mix, 50, "Mix")
          \o Largest(d.top25, "Top relationship"))

BucketTotal(b) == b.d30 + b.d60 + b.d90
NinetyHeavy(b) == BucketTotal(b) # 0 /\ ShareAbove(b.d90, BucketTotal(b), 35)

pastDueHeadline(d) ==
    Headline(
      Concentration(d.officers, 40, "Spread")
      \o Optional(d.buckets # <<>>,
           Callout(IF NinetyHeavy(Last(d.buckets)) THEN "warn" ELSE "info", "Late-stage"))
      \o Optional(d.watchDelta # 0,
           Callout(IF d.watchDelta > 0 THEN "warn" ELSE "success", "Watchlist")))

Drift(counts) == Last(counts) - Head(counts)
DriftTone(delta) ==
    IF delta > 0 THEN "warn" ELSE IF delta < 0 THEN "success" ELSE "info"

officerBranchHeadline(d) ==
    Headline(
      Concentration(d.mix, 50, "Mix")
      \o Optional(Len(d.watch) >= 2, Callout(DriftTone(Drift(d.watch)), "Watchlist"))
      \o Largest(d.borrowers, "Top exposure"))

-----------------------------------------------------------------------------
(* The card under each chart.                                              *)

pastDueTrendInsight(buckets) ==
    LET n == Len(buckets)
        last == BucketTotal(buckets[n])
        prev == BucketTotal(buckets[n - 1])
        rose == (last - prev) * 100 > 5 * prev
        fell == (prev - last) * 100 > 5 * prev
        moved == IF rose THEN "rose" ELSE IF fell THEN "fell" ELSE "flat"
        ninety == NinetyHeavy(buckets[n])
    IN  IF n < 2 THEN NEUTRAL
        ELSE IF prev = 0 THEN NEUTRAL
        ELSE Card(IF rose \/ ninety THEN "warn" ELSE IF fell THEN "success" ELSE "info",
                  <<moved>> \o Optional(ninety, "90+ dominates"))

ratioTrendInsight(ratios) ==
    LET last == Last(ratios)
        moved == last - Head(ratios)
    IN  IF Len(ratios) < 2 THEN NEUTRAL
        ELSE Card(IF last < 150 THEN "success" ELSE IF last < 250 THEN "info" ELSE "warn",
                  <<"latest">> \o Optional(moved >= 10 \/ moved <= -10, "trending"))

depositMixInsight(slices) ==
    LET total == Sum(slices, "balance")
        heavy == ShareAbove(Top(slices, "balance").balance, total, 50)
    IN  IF slices = <<>> THEN NEUTRAL
        ELSE IF total = 0 THEN NEUTRAL
        ELSE Card(IF heavy THEN "warn" ELSE "info",
                  <<"largest">> \o Optional(heavy, "concentration risk")
                  \o Optional(~heavy /\ Len(slices) >= 3, "top 3"))

(* Variant: the card has the threshold of the deposit mix.                 *)
officerLoadOfHalf(officers) ==
    LET total == Sum(officers, "balance")
        top == Top(officers, "balance").balance
    IN  IF officers = <<>> THEN NEUTRAL
        ELSE IF total = 0 THEN NEUTRAL
        ELSE Card(IF ShareAbove(top, total, 50) THEN "warn" ELSE "info", <<"carries">>)

officerLoadInsight(officers) ==
    LET total == Sum(officers, "balance")
        top == Top(officers, "balance").balance
    IN  IF officers = <<>> THEN NEUTRAL
        ELSE IF total = 0 THEN NEUTRAL
        ELSE Card(IF ShareAbove(top, total, 40) THEN "warn"
                  ELSE IF ShareAbove(top, total, 25) THEN "info" ELSE "neutral",
                  <<"carries">> \o Optional(ShareAbove(top, total, 40), "concentration"))

(* Against the average of up to three points before the last one.          *)
loanRateSpreadInsight(trend) ==
    LET n == Len(trend)
        before == SubSeq(trend, Max({1, n - 3}), n - 1)
        off == trend[n].spread * Len(before) - Sum(before, "spread")
    IN  IF n < 3 THEN NEUTRAL
        ELSE Card(IF trend[n].spread < 200 THEN "warn"
                  ELSE IF off > 5 * Len(before) THEN "success" ELSE "info",
                  <<"margin">> \o Optional(trend[n].spread < 200, "thin"))

watchlistTrendInsight(counts) ==
    IF Len(counts) < 2 THEN NEUTRAL
    ELSE Card(DriftTone(Drift(counts)),
              <<"under watch">> \o Optional(Drift(counts) # 0, "drift"))

(* Values in tenths of a million: beyond one million is a mover.           *)
changeByProductInsight(deltas) ==
    LET top == Max(ToSet(deltas))
        bottom == Min(ToSet(deltas))
        movers == Optional(top > 0, "biggest gainer")
                  \o Optional(bottom < 0 /\ Len(deltas) > 1, "biggest drag")
    IN  IF deltas = <<>> THEN NEUTRAL
        ELSE Card(IF bottom < -10 THEN "warn" ELSE IF top > 10 THEN "success" ELSE "info",
                  IF movers = <<>> THEN <<"no movers">> ELSE movers)

-----------------------------------------------------------------------------
(* What each page puts together from one body.                             *)

(* formatAxisPercent: one decimal of a percent.                            *)
OneDecimal(ratio) == ((ratio + 5) \div 10) * 10

(* The three largest products and a slice for all others.                  *)
topWithOther(mix) ==
    LET sorted == LargestFirst(mix, "balance")
        rest == Sum(SubSeq(sorted, 4, Len(sorted)), "balance")
    IN  SubSeq(sorted, 1, Min({3, Len(sorted)}))
        \o Optional(rest > 0, [product |-> "Other", balance |-> rest])

riskTiles(d) ==
    [pastDue |-> IF d.ratio < 150 THEN "within" ELSE IF d.ratio < 250 THEN "above" ELSE "elevated",
     loanToDeposit |-> IF d.loanToDeposit > 9000 THEN "high"
                       ELSE IF d.loanToDeposit < 6000 THEN "low" ELSE "typical"]

growthTile(delta) ==
    [arrow |-> IF delta = 0 THEN "none" ELSE IF delta > 0 THEN "up" ELSE "down",
     positive |-> delta >= 0]

efficiencyTiles(d) == [positive |-> d.core >= 5000]

(* The past-due tiles know no flat: a delta of zero points down.           *)
pastDueTile(delta) ==
    [arrow |-> IF delta > 0 THEN "up" ELSE "down", positive |-> delta <= 0]

ExecutivePage(d) ==
    [headline |-> executiveHeadline(d),
     tiles |-> [risk |-> riskTiles(d), core |-> efficiencyTiles(d),
                loans |-> growthTile(d.loanGrowth), deposits |-> growthTile(d.depositGrowth)],
     margin |-> loanRateSpreadInsight(d.trend),
     ratio |-> ratioTrendInsight([i \in 1..Len(d.trend) |-> OneDecimal(d.trend[i].ratio)])]

DepositsPage(d) ==
    [headline |-> depositsHeadline(d),
     mix |-> depositMixInsight(topWithOther(d.mix)),
     largest |-> IF d.mix = <<>> THEN "none" ELSE Top(topWithOther(d.mix), "balance").product,
     change |-> changeByProductInsight(d.change)]

PastDuePage(d) ==
    [headline |-> pastDueHeadline(d),
     tile |-> pastDueTile(d.pastDueDelta),
     officers |-> officerLoadInsight(d.officers),
     lateness |-> pastDueTrendInsight(d.buckets),
     ratio |-> ratioTrendInsight(d.ratios)]

OfficerBranchPage(d) ==
    [headline |-> officerBranchHeadline(d),
     movement |-> changeByProductInsight(d.change),
     watchlist |-> IF d.watch = <<>> THEN NEUTRAL ELSE watchlistTrendInsight(d.watch)]

-----------------------------------------------------------------------------
Shows(page, label, tone) == Callout(tone, label) \in ToSet(page.headline.callouts)

(* The strip, the cards and the tiles read the same body through separate  *)
(* rules, with their own thresholds, roundings and slices, and they do     *)
(* contradict each other.  These are all the ways.                         *)

(* The past-due ratio.  The strip warns of one that the tile or the card   *)
(* praises: it rose, though below the band.  The strip praises one that    *)
(* they do not: it is on the threshold, or the card speaks of an older     *)
(* month; so it is when only the card warns, or when strip and card differ *)
(* about the margin.                                                       *)
Rose(d) == Len(d.trend) >= 2 /\ d.ratio - d.trend[Len(d.trend) - 1].ratio > 10

ExecutiveAccounted(d) ==
    LET page == ExecutivePage(d)
        watch == Shows(page, "Watch", "warn")
        tile == page.tiles.risk.pastDue
    IN  /\ watch /\ (tile = "within" \/ page.ratio.tone = "success") => Rose(d) /\ d.ratio < 150
        /\ ~watch /\ tile # "within" => d.ratio = 150
        /\ ~watch /\ page.ratio.tone = "info" => d.ratio \in 145..150 \/ ~OneMonth(d)
        /\ ~watch /\ page.ratio.tone = "warn" => ~OneMonth(d)
        /\ Len(d.trend) >= 3 /\ ~(page.margin.tone = "warn" <=> Shows(page, "Margin", "warn"))
             => ~OneMonth(d)

(* The card is given the three largest products and a slice of the others: *)
(* only of that slice it warns alone.                                      *)
DepositsAccounted(d) ==
    LET page == DepositsPage(d)
    IN  /\ Shows(page, "Concentration", "warn") => page.mix.tone = "warn"
        /\ page.mix.tone = "warn" /\ ~Shows(page, "Concentration", "warn")
             => page.largest = "Other"

(* Officers and lateness are read alike.                                   *)
PastDueAccounted(d) ==
    LET page == PastDuePage(d)
    IN  /\ Shows(page, "Concentration", "warn") <=> page.officers.tone = "warn"
        /\ Shows(page, "Late-stage", "warn") /\ page.lateness.bullets # <<>>
             => page.lateness.tone = "warn"

(* So is the watchlist.                                                    *)
OfficerBranchAccounted(d) ==
    LET page == OfficerBranchPage(d)
    IN  Len(d.watch) >= 2 => Shows(page, "Watchlist", page.watchlist.tone)

(* A strip that warns shows the callout it warns about: none falls behind  *)
(* the cut to three.                                                       *)
WarningIsShown(page) ==
    page.headline.tone = "warn"
      <=> \E i \in 1..Len(page.headline.callouts) : page.headline.callouts[i].tone = "warn"

Accounted(surface, d) ==
    /\ surface = "executive" => ExecutiveAccounted(d) /\ WarningIsShown(ExecutivePage(d))
    /\ surface = "deposits" => DepositsAccounted(d) /\ WarningIsShown(DepositsPage(d))
    /\ surface = "past-due" => PastDueAccounted(d) /\ WarningIsShown(PastDuePage(d))
    /\ surface = "officer-branch" =>
         OfficerBranchAccounted(d) /\ WarningIsShown(OfficerBranchPage(d))

AccountedOn ==
    [surface \in DOMAIN Payload |-> \A d \in Payload[surface] : Accounted(surface, d)]
=============================================================================
