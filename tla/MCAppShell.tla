------------------------------ MODULE MCAppShell ------------------------------
EXTENDS AppShell

CONSTANTS src, core, mart, dash1, dash2

MCNode == {src, core, mart, dash1, dash2}
MCEdge == {<<src, core>>, <<core, mart>>, <<mart, dash1>>, <<src, dash2>>}
MCLAYERS == {"Sources", "Core", "Marts", "Dashboards"}
MCLayer == [n \in MCNode |->
    CASE n = src -> "Sources" [] n = core -> "Core" [] n = mart -> "Marts"
      [] OTHER -> "Dashboards"]

MCDashboards == {"executive", "officer-branch"}
MCAvailable == [p \in MCDashboards |-> IF p = "executive" THEN {1} ELSE {1, 2}]

\* The seeds of two recorded members and of one without a signature.
MCOffset == [m \in {100558, 100827, 100001} |->
    CASE m = 100558 -> 4 [] m = 100827 -> 9 [] OTHER -> 7]
MCToday == {20190416, 20260301}

Mix(balances) == [i \in 1..Len(balances) |->
    [product |-> IF i = 1 THEN "loan" ELSE "share", balance |-> balances[i]]]
Share(shares) == [i \in 1..Len(shares) |-> [share |-> shares[i]]]
Point == [ratio : {120, 140, 144, 145, 149, 150, 151, 161, 260}, spread : {190, 199, 200, 210}]
Trends == {<<a, b, c>> : a \in {[ratio |-> 150, spread |-> 205]}, b \in Point, c \in Point}

Summary(g, ratio, spread, trend) ==
    [loanGrowth |-> g, depositGrowth |-> 0, ratio |-> ratio, spread |-> spread, trend |-> trend,
     loanToDeposit |-> 6000, core |-> 5000]
Executive == {Summary(g, t[3].ratio, t[3].spread, t) : g \in {-1, 0, 1}, t \in Trends}
             \cup {Summary(0, 0, 0, t) : t \in Trends \cup {<<>>}}
Mixes == {Mix(b) : b \in {<<>>, <<0>>, <<50, 50>>, <<51, 49>>, <<30, 25, 25, 20>>,
                          <<20, 20, 20, 40>>, <<16, 16, 16, 26, 26>>, <<60, 10, 30>>}}
Deposits == {[opened |-> o, closed |-> 2, mix |-> m, top25 |-> t, change |-> c] :
              o \in 1..3, m \in Mixes, t \in {<<>>, Share(<<501>>), Share(<<500>>)},
              c \in {<<>>, <<11, -11>>, <<0>>}}
Buckets == [d30 : {10, 13}, d60 : {5}, d90 : {0, 8, 9}]
PastDue == {[officers |-> o, buckets |-> b, ratios |-> r, watchDelta |-> w, pastDueDelta |-> -w] :
             o \in {Mix(x) : x \in {<<>>, <<40, 60>>, <<41, 39, 20>>, <<25, 25, 25, 25>>}},
             b \in {<<x, y>> : x \in Buckets, y \in Buckets} \cup {<<>>},
             r \in {<<>>, <<150, 149>>, <<100, 250>>}, w \in {-1, 0, 1}}
OfficerBranch == {[mix |-> m, watch |-> w, borrowers |-> b, change |-> c] :
             m \in Mixes, w \in {<<>>, <<4>>, <<4, 5>>, <<5, 9, 5>>, <<5, 4>>},
             b \in {<<>>, Share(<<501>>)}, c \in {<<>>, <<11, -11>>}}

MCPayload == [s \in {"executive", "deposits", "past-due", "officer-branch"} |->
    CASE s = "executive" -> Executive [] s = "deposits" -> Deposits
      [] s = "past-due" -> PastDue [] OTHER -> OfficerBranch]
=============================================================================
