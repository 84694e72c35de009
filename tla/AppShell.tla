------------------------------- MODULE AppShell -------------------------------
(***************************************************************************)
(* One tab of the frontend outside the chat and the case desk: the URL     *)
(* (router.tsx, DashboardContext, MonthSelector, SideNav, launchpad,       *)
(* command palette), the query cache behind the pages, and the telemetry   *)
(* every request emits.  A month in the URL belongs to no page: the side   *)
(* nav carries it to pages that do not have it, and the month selector of  *)
(* a page settles it.  RTK Query is a library: of its cache an entry keeps *)
(* the status of its last request.  Back past a reload is a reload and is  *)
(* left out, and so is the hop to the case queue.                          *)
(***************************************************************************)
EXTENDS TelemetryClient, InsightRules, DataModelScreen, MemberJourney

CONSTANTS
    Dashboards,     \* the dashboard routes, named as their surfaces
    Month,          \* months, as numbers
    Available,      \* [Dashboards -> the months its mart has]
    NoMonth, Bad,   \* no as_of_date in the URL; one the API refuses
    Filter,         \* values of tab and branch_id together
    NoFilter,       \* neither in the URL
    MaxClicks       \* bound: moves of the user

ASSUME ShellAssumption ==
    /\ Dashboards \subseteq {"executive", "deposits", "past-due", "officer-branch"}
    /\ Month \subseteq Nat
    /\ Available \in [Dashboards -> SUBSET Month]
    /\ \A p \in Dashboards : Available[p] # {} =>      \* a newest month
         \E m \in Available[p] : \A n \in Available[p] : m >= n
    /\ NoMonth \notin Month /\ Bad \notin Month /\ NoMonth # Bad
    /\ NoFilter \in Filter
    /\ MaxClicks \in Nat

VARIABLES
    route,      \* the page
    asOfDate,   \* as_of_date of the URL
    params,     \* tab and branch_id of the URL
    visits,     \* the URLs behind the back button
    booted,     \* has the page mounted since the document was loaded?
    query,      \* [Key -> status] of the dashboards' bodies
    months,     \* [Dashboards -> status] of the lists of months
    trust,      \* status of the trust signals
    shown,      \* the key whose body the page draws
    clicks      \* moves of the user so far

url == <<route, asOfDate, params>>
cache == <<query, months, trust>>
pageVars == <<url, visits, booted, cache, shown>>
vars == <<pageVars, clicks, clientVars, modelVars, journeyVars>>

Lending == Dashboards \cup {"sources", "models"}
Page == Lending \cup {"home", "journey"}

(* The argument of a page's query: only one page reads tab and branch.     *)
KeyOf(u) == <<u[1], u[2], IF u[1] = "officer-branch" THEN u[3] ELSE NoFilter>>
Key == {KeyOf(u) : u \in Dashboards \X (Month \cup {Bad, NoMonth}) \X Filter}
NoKey == <<>>

CurrentKey == KeyOf(url)
OnDashboard == booted /\ route \in Dashboards
isError == OnDashboard /\ query[CurrentKey] = "failed"

(* A page returns early on an error, and its header then has no selector.  *)
SelectorMounted == OnDashboard /\ ~isError
TableMounted == booted /\ route = "sources" /\ trust = "ok"

(* The middleware emits an event for every request action it sees, be it   *)
(* pending, fulfilled or rejected.                                         *)
routeByStatus(actions) == Emit(actions)

(* A hook asks for an entry that is missing or failed.  The middleware     *)
(* sees an action either way: for an entry that is there the library       *)
(* rejects the request by its own condition.                               *)
AskFor(f, keys) == [k \in DOMAIN f |-> IF k \in keys THEN Asked(f[k]) ELSE f[k]]

(* Leaving the lineage screen unmounts it, and its answers stay.           *)
LeaveModels == initialState /\ UNCHANGED <<graph, detail>>

MountDashboard(u) ==
    /\ query' = AskFor(query, {KeyOf(u)})
    /\ months' = AskFor(months, {u[1]})
    /\ shown' = IF query[KeyOf(u)] = "ok" THEN KeyOf(u) ELSE NoKey
    /\ routeByStatus(2)
    /\ LeaveModels
    /\ UNCHANGED <<trust, journeyVars>>

MountSources ==
    /\ trust' = Asked(trust)
    /\ months' = IF trust = "ok" THEN AskFor(months, Dashboards) ELSE months
    /\ shown' = NoKey
    /\ routeByStatus(IF trust = "ok" THEN 1 + Cardinality(Dashboards) ELSE 1)
    /\ LeaveModels
    /\ UNCHANGED <<query, journeyVars>>

MountLineage ==
    /\ MountModels
    /\ shown' = NoKey
    /\ routeByStatus(1)
    /\ UNCHANGED <<cache, journeyVars>>

MountQuiet ==
    /\ shown' = NoKey
    /\ MountJourney(member)
    /\ LeaveModels
    /\ UNCHANGED <<cache, clientVars>>

Mount(u) ==
    \/ u[1] \in Dashboards /\ MountDashboard(u)
    \/ u[1] = "sources" /\ MountSources
    \/ u[1] = "models" /\ MountLineage
    \/ u[1] \in {"home", "journey"} /\ MountQuiet

(* The URL of a mounted dashboard changes: its hook changes its argument,  *)
(* the page goes on drawing the last body, and a selector that was not     *)
(* there mounts.                                                           *)
ChangeArgument(u, emits) ==
    LET moved == IF KeyOf(u) # CurrentKey THEN 1 ELSE 0
        back == IF isError /\ moved = 1 THEN 1 ELSE 0
    IN  /\ query' = IF moved = 1 THEN AskFor(query, {KeyOf(u)}) ELSE query
        /\ months' = IF back = 1 THEN AskFor(months, {u[1]}) ELSE months
        /\ shown' = IF query[KeyOf(u)] = "ok" THEN KeyOf(u) ELSE shown
        /\ IF moved + back + emits > 0 THEN Emit(moved + back + emits)
           ELSE UNCHANGED clientVars
        /\ UNCHANGED <<trust, modelVars, journeyVars>>

(* What is on screen follows the URL; emits events of the handler's own.   *)
Follow(u, emits) ==
    /\ route' = u[1] /\ asOfDate' = u[2] /\ params' = u[3]
    /\ UNCHANGED booted
    /\ IF u[1] # route THEN Mount(u)
       ELSE IF route \in Dashboards THEN ChangeArgument(u, emits)
       ELSE UNCHANGED <<cache, shown, clientVars, modelVars, journeyVars>>

Navigate(u, emits) == u # url /\ visits' = Append(visits, url) /\ Follow(u, emits)

Init ==
    /\ route \in Page
    /\ asOfDate \in Month \cup {Bad, NoMonth}
    /\ params = NoFilter
    /\ visits = <<>>
    /\ booted = FALSE
    /\ query = [k \in Key |-> "none"]
    /\ months = [p \in Dashboards |-> "none"]
    /\ trust = "none"
    /\ shown = NoKey
    /\ clicks = 0
    /\ ClientInit /\ ModelInit /\ JourneyInit
    /\ route # "journey" => member = Min(DOMAIN Offset)   \* no member in the URL

-----------------------------------------------------------------------------
(* The first render of a document.                                         *)
Boot ==
    /\ ~booted /\ tab # "closed"
    /\ booted' = TRUE
    /\ Mount(url)
    /\ UNCHANGED <<url, visits, clicks>>

Click ==
    /\ booted /\ tab = "visible"
    /\ clicks < MaxClicks
    /\ clicks' = clicks + 1

PickMonth ==
    /\ Click
    /\ SelectorMounted /\ months[route] = "ok"
    /\ \E m \in Available[route] : Navigate(<<route, m, params>>, 0)

(* A tab or a branch; the handler emits an event of its own.               *)
PickFilter ==
    /\ Click
    /\ route = "officer-branch" /\ ~isError
    /\ \E f \in Filter : Navigate(<<route, asOfDate, f>>, 1)

(* The side nav shows one product's pages and "Switch product"; a link     *)
(* takes the month along and nothing else.  An open drawer covers it.      *)
NavItem ==
    /\ Click
    /\ route # "home" /\ selectedId = NoNode
    /\ \E p \in {"home"} \cup (IF route \in Lending THEN Lending ELSE {}) :
         Navigate(<<p, asOfDate, NoFilter>>, 0)

ProductCard ==
    /\ Click
    /\ route = "home" /\ "executive" \in Dashboards
    /\ Navigate(<<"executive", NoMonth, NoFilter>>, 0)

BackButton ==
    /\ Click
    /\ visits # <<>>
    /\ visits' = Front(visits)
    /\ Follow(Last(visits), 0)

(* A new document: module state, cache and component state are new.        *)
Load(u) ==
    /\ Click
    /\ Unload("visible")
    /\ route' = u[1] /\ asOfDate' = u[2] /\ params' = u[3]
    /\ visits' = <<>>
    /\ booted' = FALSE
    /\ query' = [k \in Key |-> "none"]
    /\ months' = [p \in Dashboards |-> "none"]
    /\ trust' = "none"
    /\ shown' = NoKey
    /\ graph' = "none"
    /\ detail' = [n \in Node |-> "none"]
    /\ initialState
    /\ MountJourney(member)

(* The command palette sets window.location, and forgets the month.        *)
PaletteJump == \E p \in Dashboards \cup {"sources"} : Load(<<p, NoMonth, NoFilter>>)
Reload == Load(url)

(* Variant: an effect that takes any month in the URL for an available one. *)
SettleMissing ==
    /\ SelectorMounted /\ months[route] = "ok" /\ Available[route] # {}
    /\ asOfDate = NoMonth
    /\ Navigate(<<route, Max(Available[route]), params>>, 0)
    /\ UNCHANGED clicks

(* MonthSelector's effect: no month in the URL, or one the page does not   *)
(* have, becomes the latest one it has.                                    *)
SettleMonth ==
    /\ SelectorMounted /\ months[route] = "ok" /\ Available[route] # {}
    /\ asOfDate \notin Available[route]
    /\ Navigate(<<route, Max(Available[route]), params>>, 0)
    /\ UNCHANGED clicks

-----------------------------------------------------------------------------
(* Answers.  A month the API cannot parse is answered 422; any request may *)
(* fail.                                                                   *)
BodyAnswers(k, status) ==
    /\ query[k] = "pending"
    /\ k[2] = Bad => status = "failed"
    /\ query' = [query EXCEPT ![k] = status]
    /\ shown' = IF OnDashboard /\ k = CurrentKey /\ status = "ok" THEN k ELSE shown
    /\ routeByStatus(1)
    /\ UNCHANGED <<url, visits, booted, months, trust, clicks, modelVars, journeyVars>>

MonthsAnswer(p, status) ==
    /\ months[p] = "pending"
    /\ months' = [months EXCEPT ![p] = status]
    /\ routeByStatus(1)
    /\ UNCHANGED <<url, visits, booted, query, trust, shown, clicks, modelVars, journeyVars>>

(* The freshness table mounts with the answer and asks for every surface.  *)
TrustAnswers(status) ==
    LET table == booted /\ route = "sources" /\ status = "ok"
    IN  /\ trust = "pending"
        /\ trust' = status
        /\ months' = IF table THEN AskFor(months, Dashboards) ELSE months
        /\ routeByStatus(IF table THEN 1 + Cardinality(Dashboards) ELSE 1)
        /\ UNCHANGED <<url, visits, booted, query, shown, clicks, modelVars, journeyVars>>

LineageAnswers(status) ==
    /\ GraphAnswers(status) \/ \E n \in Node : DetailAnswers(n, status)
    /\ routeByStatus(1)
    /\ UNCHANGED <<pageVars, clicks, journeyVars>>

Answers ==
    \E status \in {"ok", "failed"} :
      \/ \E k \in Key : BodyAnswers(k, status)
      \/ \E p \in Dashboards : MonthsAnswer(p, status)
      \/ TrustAnswers(status)
      \/ LineageAnswers(status)

(* Entries nobody is subscribed to are dropped after sixty seconds, when   *)
(* every request has long been answered.                                   *)
CacheExpires ==
    /\ tab # "closed" /\ clicks < MaxClicks
    /\ "pending" \notin {query[k] : k \in Key} \cup {months[p] : p \in Dashboards}
                        \cup {detail[n] : n \in Node} \cup {trust, graph}
    /\ query' = [k \in Key |-> IF OnDashboard /\ k = CurrentKey THEN query[k] ELSE "none"]
    /\ months' = [p \in Dashboards |->
         IF (SelectorMounted /\ p = route) \/ TableMounted THEN months[p] ELSE "none"]
    /\ trust' = IF booted /\ route = "sources" THEN trust ELSE "none"
    /\ graph' = IF booted /\ route = "models" THEN graph ELSE "none"
    /\ detail' = [n \in Node |-> IF n = selectedId THEN detail[n] ELSE "none"]
    /\ UNCHANGED <<url, visits, booted, shown, clicks, clientVars, screenVars, journeyVars>>

-----------------------------------------------------------------------------
(* The screens below the shell.                                            *)
Filters ==
    \/ \E layer \in LAYERS : toggleLayer(layer)
    \/ graph = "ok" /\ \E id \in Dashboard \cup {NoNode} : setDashboard(id)

(* A node of the canvas, or a chip of the drawer.                          *)
Selectable ==
    IF selectedId = NoNode THEN (IF graph = "ok" THEN visibleIds ELSE {})
    ELSE IF DrawerBody THEN Neighbours ELSE {}

Lineage ==
    /\ Click
    /\ route = "models"
    /\ \/ /\ UNCHANGED clientVars
          /\ \/ selectedId = NoNode /\ Filters
             \/ selectedId # NoNode /\ closeDrawer
       \/ /\ \E id \in Selectable \ {selectedId} : select(id)
          /\ routeByStatus(1)
    /\ UNCHANGED <<pageVars, journeyVars>>

(* A dashboard the drawn node powers.                                      *)
DashboardLink ==
    /\ Click
    /\ route = "models" /\ DrawerBody
    /\ \E p \in Dashboards : Navigate(<<p, NoMonth, NoFilter>>, 0)

Timeline ==
    /\ Click
    /\ route = "journey"
    /\ (TypeQuery \/ PickCategory \/ PickDate \/ ClearDates)
    /\ UNCHANGED <<pageVars, clientVars, modelVars>>

OnTab == UNCHANGED <<pageVars, clicks, modelVars, journeyVars>>

(* Errors, web vitals and clicks on tiles only emit; the tiles of the      *)
(* officer and branch page are no buttons.                                 *)
reportError == Emit(1) /\ OnTab
metricToEvent == Emit(1) /\ OnTab
onTile ==
    /\ OnDashboard /\ route # "officer-branch" /\ shown # NoKey
    /\ tab = "visible"
    /\ Emit(1) /\ OnTab

HideOrShow ==
    /\ clicks < MaxClicks /\ clicks' = clicks + 1
    /\ onVisibility \/ ShowTab
    /\ UNCHANGED <<pageVars, modelVars, journeyVars>>

Next ==
    \/ Boot \/ PickMonth \/ PickFilter \/ NavItem \/ ProductCard \/ BackButton
    \/ PaletteJump \/ Reload \/ SettleMonth \/ Answers \/ CacheExpires
    \/ Lineage \/ DashboardLink \/ Timeline
    \/ reportError \/ metricToEvent \/ onTile
    \/ TimerFires /\ OnTab
    \/ HideOrShow
    \/ Unload("closed") /\ OnTab

(* The network answers or times out, and effects run.                      *)
Fairness == WF_vars(Boot) /\ WF_vars(Answers) /\ WF_vars(SettleMonth)

Spec == Init /\ [][Next]_vars /\ Fairness
-----------------------------------------------------------------------------
Settled ==
    \/ isError \/ months[route] = "failed" \/ Available[route] = {}
    \/ asOfDate \in Available[route] /\ shown = CurrentKey

(* A dashboard comes to rest: on an error, without its list of months, or  *)
(* with the body of the month, tab and branch in its URL, and that month   *)
(* one it has.  It never goes on drawing the body of another month.        *)
PagesSettle == <>[](tab # "closed" /\ OnDashboard => Settled)

(* The screens' own properties, where they are on screen.                  *)
LineageOnScreen == route = "models" => CanvasIsLineage
TimelineOnScreen == route = "journey" => TimelineIsWhole

(* Whatever body the dashboard on screen is answered: where the strip on   *)
(* top, the cards under the charts and the tiles contradict each other, it *)
(* is for one of the few causes that InsightRules names.                   *)
ConflictsAccounted == OnDashboard => \A surface \in DOMAIN Payload : AccountedOn[surface]
=============================================================================
