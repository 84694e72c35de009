---------------------------- MODULE AppShellProofs ----------------------------
(***************************************************************************)
(* Proofs about a tab of the frontend, for every batch size, every set of  *)
(* dashboards, months and filters and any number of clicks: the telemetry  *)
(* client under everything the pages do to it, the lineage canvas of any   *)
(* finite graph, the cards of any body the API may answer, and the         *)
(* timeline of any member.  Loops of the source are recursive functions,   *)
(* and what they compute is proved by induction over a set of numbers.     *)
(***************************************************************************)
EXTENDS AppShell, FiniteSetTheorems, SequenceTheorems, WellFoundedInduction, TLAPS

-----------------------------------------------------------------------------
(* The client by itself.  What the property does not say is what the       *)
(* buffer and the kinds of lost events are made of.                        *)
ClientTyped ==
    /\ buffer \in Seq(Seen)
    /\ flushTimer \in BOOLEAN
    /\ tab \in Seen \cup {"closed"}
    /\ lost \subseteq Seen

ClientInv == ClientTyped /\ TelemetryKept

LEMMA RemainderSmall ==
    ASSUME NEW n \in Nat
    PROVE  n % BATCH_MAX \in Nat /\ n % BATCH_MAX < BATCH_MAX
BY BatchAssumption

(* Emits leave a batch that is not full, of what waited before and of      *)
(* events that look like the tab does now.                                 *)
LEMMA AfterEmitsTyped ==
    ASSUME NEW k \in Nat \ {0}, ClientTyped, tab # "closed"
    PROVE  /\ AfterEmits(k) \in Seq(Seen)
           /\ Len(AfterEmits(k)) < BATCH_MAX
           /\ \A i \in 1..Len(AfterEmits(k)) :
                AfterEmits(k)[i] = tab \/ \E j \in 1..Len(buffer) : AfterEmits(k)[i] = buffer[j]
<1>. DEFINE n == Len(buffer) + k
            first == IF n < BATCH_MAX THEN Len(buffer) ELSE 0
            m == n % BATCH_MAX
<1>1. Len(buffer) \in Nat /\ n \in Nat /\ first \in Nat /\ first <= Len(buffer)
    BY DEF ClientTyped
<1>2. m \in Nat /\ m < BATCH_MAX
    BY <1>1, RemainderSmall
<1>3. AfterEmits(k) = [i \in 1..m |-> IF i <= first THEN buffer[i] ELSE tab]
    BY DEF AfterEmits
<1>. HIDE DEF n, first, m
<1>4. \A i \in 1..m : i <= first => i \in 1..Len(buffer) /\ buffer[i] \in Seen
    BY <1>1, <1>2 DEF ClientTyped
<1>5. tab \in Seen
    BY DEF ClientTyped
<1>6. AfterEmits(k) \in Seq(Seen) /\ Len(AfterEmits(k)) = m
    BY <1>2, <1>3, <1>4, <1>5
<1> QED
    BY <1>2, <1>3, <1>4, <1>6

LEMMA EmptyBuffer == <<>> \in Seq(Seen) /\ Len(<<>>) = 0 /\ 0 < BATCH_MAX
BY BatchAssumption

LEMMA ClientInitInv == ClientInit => ClientInv
<1> SUFFICES ASSUME ClientInit PROVE ClientInv
    OBVIOUS
<1>1. ClientTyped
    BY EmptyBuffer DEF ClientInit, ClientTyped, Seen
<1>2. WaitingIsScheduled
    BY EmptyBuffer DEF ClientInit, WaitingIsScheduled
<1>3. SeenEventsLeave
    BY EmptyBuffer DEF ClientInit, SeenEventsLeave
<1> QED
    BY <1>1, <1>2, <1>3 DEF ClientInv, TelemetryKept

LEMMA EmitInv ==
    ASSUME ClientInv, NEW k \in Nat \ {0}, Emit(k)
    PROVE  ClientInv'
<1>1. /\ AfterEmits(k) \in Seq(Seen)
      /\ Len(AfterEmits(k)) < BATCH_MAX
      /\ \A i \in 1..Len(AfterEmits(k)) :
           AfterEmits(k)[i] = tab \/ \E j \in 1..Len(buffer) : AfterEmits(k)[i] = buffer[j]
    BY AfterEmitsTyped DEF ClientInv, Emit
<1>2. buffer' = AfterEmits(k) /\ flushTimer' = (buffer' # <<>>) /\ tab' = tab /\ lost' = lost
    BY DEF Emit
<1>3. ClientTyped'
    BY <1>1, <1>2 DEF ClientInv, ClientTyped
<1>4. WaitingIsScheduled'
    BY <1>1, <1>2 DEF WaitingIsScheduled
<1>5. SeenEventsLeave'
    BY <1>1, <1>2 DEF SeenEventsLeave, ClientInv, TelemetryKept
<1> QED
    BY <1>3, <1>4, <1>5 DEF ClientInv, TelemetryKept

LEMMA UnloadInv ==
    ASSUME ClientInv, NEW next \in {"visible", "closed"}, Unload(next)
    PROVE  ClientInv'
<1>1. /\ lost' = lost \cup {AtUnload[i] : i \in 1..Len(AtUnload)}
      /\ buffer' = <<>> /\ flushTimer' = FALSE /\ tab' = next
    BY DEF Unload
<1>2. \A i \in 1..Len(AtUnload) : AtUnload[i] \in Seen /\ AtUnload[i] # "visible"
    BY DEF AtUnload, ClientInv, ClientTyped, TelemetryKept, SeenEventsLeave
<1>3. ClientTyped'
    <2>1. lost \subseteq Seen
        BY DEF ClientInv, ClientTyped
    <2>2. lost' \subseteq Seen
        BY <1>1, <1>2, <2>1
    <2> QED
        BY <1>1, <2>2, EmptyBuffer DEF ClientTyped, Seen
<1>4. WaitingIsScheduled'
    BY <1>1, EmptyBuffer DEF WaitingIsScheduled
<1>5. SeenEventsLeave'
    <2>1. "visible" \notin lost'
        BY <1>1, <1>2 DEF ClientInv, TelemetryKept, SeenEventsLeave
    <2>2. \A i \in 1..Len(buffer') : FALSE
        BY <1>1, EmptyBuffer
    <2> QED
        BY <2>1, <2>2 DEF SeenEventsLeave
<1> QED
    BY <1>3, <1>4, <1>5 DEF ClientInv, TelemetryKept

LEMMA ClientStepInv ==
    ASSUME ClientInv, [ClientNext]_clientVars
    PROVE  ClientInv'
<1>1. ASSUME NEW k \in Nat \ {0}, Emit(k) PROVE ClientInv'
    BY <1>1, EmitInv
<1>2. CASE TimerFires \/ onVisibility
    <2>1. /\ buffer' = <<>> /\ flushTimer' \in BOOLEAN /\ tab' \in Seen \cup {"closed"}
          /\ lost' = lost
        BY <1>2 DEF TimerFires, onVisibility, ClientInv, ClientTyped, Seen
    <2>2. ClientTyped'
        BY <2>1, EmptyBuffer DEF ClientInv, ClientTyped
    <2>3. WaitingIsScheduled'
        BY <2>1, EmptyBuffer DEF WaitingIsScheduled
    <2>4. SeenEventsLeave'
        BY <2>1, EmptyBuffer DEF ClientInv, TelemetryKept, SeenEventsLeave
    <2> QED
        BY <2>2, <2>3, <2>4 DEF ClientInv, TelemetryKept
<1>3. CASE ShowTab
    BY <1>3 DEF ShowTab, ClientInv, ClientTyped, TelemetryKept, WaitingIsScheduled,
       SeenEventsLeave, Seen
<1>4. ASSUME NEW next \in {"visible", "closed"}, Unload(next) PROVE ClientInv'
    BY <1>4, UnloadInv
<1>5. CASE UNCHANGED clientVars
    BY <1>5 DEF clientVars, ClientInv, ClientTyped, TelemetryKept, WaitingIsScheduled,
       SeenEventsLeave
<1> QED
    BY <1>1, <1>2, <1>3, <1>4, <1>5 DEF ClientNext

-----------------------------------------------------------------------------
(* The pages only ever take steps of the client.                           *)
LEMMA EmitsAreSteps ==
    ASSUME NEW k \in Nat \ {0}, Emit(k)
    PROVE  [ClientNext]_clientVars
BY DEF ClientNext

LEMMA DashboardsFinite == Cardinality(Dashboards) \in Nat
<1>1. IsFiniteSet({"executive", "deposits", "past-due", "officer-branch"})
    <2>1. IsFiniteSet({})
        BY FS_EmptySet
    <2>2. IsFiniteSet({} \cup {"executive"})
        BY <2>1, FS_AddElement
    <2>3. IsFiniteSet(({} \cup {"executive"}) \cup {"deposits"})
        BY <2>2, FS_AddElement
    <2>4. IsFiniteSet((({} \cup {"executive"}) \cup {"deposits"}) \cup {"past-due"})
        BY <2>3, FS_AddElement
    <2>5. IsFiniteSet(((({} \cup {"executive"}) \cup {"deposits"}) \cup {"past-due"})
                        \cup {"officer-branch"})
        BY <2>4, FS_AddElement
    <2>6. {"executive", "deposits", "past-due", "officer-branch"} =
            ((({} \cup {"executive"}) \cup {"deposits"}) \cup {"past-due"}) \cup {"officer-branch"}
        OBVIOUS
    <2> QED
        BY <2>5, <2>6
<1>2. IsFiniteSet(Dashboards)
    BY <1>1, FS_Subset, ShellAssumption
<1> QED
    BY <1>2, FS_CardinalityType

LEMMA MountStep ==
    ASSUME NEW u, Mount(u)
    PROVE  [ClientNext]_clientVars
<1>1. CASE MountDashboard(u)
    BY <1>1, EmitsAreSteps DEF MountDashboard, routeByStatus
<1>2. CASE MountSources
    <2>1. (IF trust = "ok" THEN 1 + Cardinality(Dashboards) ELSE 1) \in Nat \ {0}
        BY DashboardsFinite
    <2> QED
        BY <1>2, <2>1, EmitsAreSteps DEF MountSources, routeByStatus
<1>3. CASE MountLineage
    BY <1>3, EmitsAreSteps DEF MountLineage, routeByStatus
<1>4. CASE MountQuiet
    BY <1>4 DEF MountQuiet
<1> QED
    BY <1>1, <1>2, <1>3, <1>4 DEF Mount

LEMMA FollowStep ==
    ASSUME NEW u, NEW emits \in {0, 1}, Follow(u, emits)
    PROVE  [ClientNext]_clientVars
<1>1. CASE Mount(u)
    BY <1>1, MountStep
<1>2. CASE ChangeArgument(u, emits)
    <2>. DEFINE moved == IF KeyOf(u) # CurrentKey THEN 1 ELSE 0
                back == IF isError /\ moved = 1 THEN 1 ELSE 0
    <2>1. IF moved + back + emits > 0 THEN Emit(moved + back + emits) ELSE UNCHANGED clientVars
        BY <1>2 DEF ChangeArgument
    <2>2. moved + back + emits \in Nat
        OBVIOUS
    <2>. HIDE DEF moved, back
    <2>3. CASE moved + back + emits > 0
        BY <2>1, <2>2, <2>3, EmitsAreSteps
    <2>4. CASE ~(moved + back + emits > 0)
        BY <2>1, <2>4
    <2> QED
        BY <2>3, <2>4
<1>3. CASE UNCHANGED clientVars
    BY <1>3
<1> QED
    BY <1>1, <1>2, <1>3 DEF Follow

LEMMA NavigateStep ==
    ASSUME NEW u, NEW emits \in {0, 1}, Navigate(u, emits)
    PROVE  [ClientNext]_clientVars
BY FollowStep DEF Navigate

LEMMA LoadStep ==
    ASSUME NEW u, Load(u)
    PROVE  [ClientNext]_clientVars
BY DEF Load, ClientNext

LEMMA AnswersStep ==
    ASSUME Answers
    PROVE  [ClientNext]_clientVars
<1>1. PICK status \in {"ok", "failed"} :
        \/ \E k \in Key : BodyAnswers(k, status)
        \/ \E p \in Dashboards : MonthsAnswer(p, status)
        \/ TrustAnswers(status)
        \/ LineageAnswers(status)
    BY DEF Answers
<1>2. ASSUME NEW k \in Key, BodyAnswers(k, status) PROVE [ClientNext]_clientVars
    BY <1>2, EmitsAreSteps DEF BodyAnswers, routeByStatus
<1>3. ASSUME NEW p \in Dashboards, MonthsAnswer(p, status) PROVE [ClientNext]_clientVars
    BY <1>3, EmitsAreSteps DEF MonthsAnswer, routeByStatus
<1>4. CASE TrustAnswers(status)
    <2>. DEFINE table == booted /\ route = "sources" /\ status = "ok"
    <2>1. routeByStatus(IF table THEN 1 + Cardinality(Dashboards) ELSE 1)
        BY <1>4 DEF TrustAnswers
    <2>2. (IF table THEN 1 + Cardinality(Dashboards) ELSE 1) \in Nat \ {0}
        BY DashboardsFinite
    <2> QED
        BY <2>1, <2>2, EmitsAreSteps DEF routeByStatus
<1>5. CASE LineageAnswers(status)
    BY <1>5, EmitsAreSteps DEF LineageAnswers, routeByStatus
<1> QED
    BY <1>1, <1>2, <1>3, <1>4, <1>5

LEMMA LineageStep ==
    ASSUME Lineage
    PROVE  [ClientNext]_clientVars
<1>1. CASE UNCHANGED clientVars
    BY <1>1
<1>2. ASSUME NEW id \in Selectable \ {selectedId}, select(id) /\ routeByStatus(1)
      PROVE [ClientNext]_clientVars
    BY <1>2, EmitsAreSteps DEF routeByStatus
<1> QED
    BY <1>1, <1>2 DEF Lineage

LEMMA ShellStep ==
    ASSUME [Next]_vars
    PROVE  [ClientNext]_clientVars
<1>1. CASE Boot
    BY <1>1, MountStep DEF Boot
<1>2. CASE PickMonth
    BY <1>2, NavigateStep DEF PickMonth
<1>3. CASE PickFilter
    BY <1>3, NavigateStep DEF PickFilter
<1>4. CASE NavItem
    BY <1>4, NavigateStep DEF NavItem
<1>5. CASE ProductCard
    BY <1>5, NavigateStep DEF ProductCard
<1>6. CASE BackButton
    BY <1>6, FollowStep DEF BackButton
<1>7. CASE PaletteJump
    BY <1>7, LoadStep DEF PaletteJump
<1>8. CASE Reload
    BY <1>8, LoadStep DEF Reload
<1>9. CASE SettleMonth
    BY <1>9, NavigateStep DEF SettleMonth
<1>10. CASE Answers
    BY <1>10, AnswersStep
<1>11. CASE CacheExpires
    BY <1>11 DEF CacheExpires
<1>12. CASE Lineage
    BY <1>12, LineageStep
<1>13. CASE DashboardLink
    BY <1>13, NavigateStep DEF DashboardLink
<1>14. CASE Timeline
    BY <1>14 DEF Timeline
<1>15. CASE reportError \/ metricToEvent \/ onTile
    BY <1>15, EmitsAreSteps DEF reportError, metricToEvent, onTile
<1>16. CASE TimerFires /\ OnTab
    BY <1>16 DEF ClientNext
<1>17. CASE HideOrShow
    BY <1>17 DEF HideOrShow, ClientNext
<1>18. CASE Unload("closed") /\ OnTab
    BY <1>18 DEF ClientNext
<1>19. CASE UNCHANGED vars
    BY <1>19 DEF vars
<1> QED
    BY <1>1, <1>2, <1>3, <1>4, <1>5, <1>6, <1>7, <1>8, <1>9, <1>10, <1>11, <1>12, <1>13,
       <1>14, <1>15, <1>16, <1>17, <1>18, <1>19 DEF Next

(* Whatever the pages do, nothing waits in the buffer without a flush on   *)
(* its way, and nothing the user saw happen is lost with a tab: the        *)
(* listener of client.ts empties the buffer before the tab is hidden.      *)
THEOREM TelemetryIsKept == Spec => []TelemetryKept
<1>1. Init => ClientInv
    BY ClientInitInv DEF Init
<1>2. ClientInv /\ [Next]_vars => ClientInv'
    BY ShellStep, ClientStepInv
<1>3. ClientInv => TelemetryKept
    BY DEF ClientInv
<1> QED
    BY <1>1, <1>2, <1>3, PTL DEF Spec

(* The tab's telemetry is the client's own specification, which the pages  *)
(* only feed.                                                              *)
THEOREM ImplementsClient == Spec => ClientSpec
<1>1. Init => ClientInit
    BY DEF Init
<1>2. [Next]_vars => [ClientNext]_clientVars
    BY ShellStep
<1> QED
    BY <1>1, <1>2, PTL DEF Spec, ClientSpec

-----------------------------------------------------------------------------
LEMMA NatLeast ==
    ASSUME NEW T, T \subseteq Nat, T # {}
    PROVE  \E m \in T : \A n \in T : m <= n
<1>. DEFINE R == {ss \in Nat \X Nat : ss[1] < ss[2]}
<1>1. PICK m \in T : \A n \in T : ~(<<n, m>> \in R)
    <2>1. IsWellFoundedOn(R, Nat)
        BY NatLessThanWellFounded DEF OpToRel
    <2>. HIDE DEF R
    <2> QED
        BY <2>1, WFMin
<1>2. ASSUME NEW n \in T PROVE m <= n
    <2>1. ~(<<n, m>> \in {ss \in Nat \X Nat : ss[1] < ss[2]})
        BY <1>1
    <2>2. <<n, m>> \in Nat \X Nat /\ <<n, m>>[1] = n /\ <<n, m>>[2] = m
        OBVIOUS
    <2> QED
        BY <2>1, <2>2
<1> QED
    BY <1>2

LEMMA SetInduction ==
    ASSUME NEW S, 0 \in S, \A n \in Nat : n \in S => n + 1 \in S
    PROVE  Nat \subseteq S
<1>1. SUFFICES ASSUME Nat \ S # {} PROVE FALSE
    OBVIOUS
<1>2. PICK m \in Nat \ S : \A n \in Nat \ S : m <= n
    BY <1>1, NatLeast
<1>3. m # 0 /\ m - 1 \in Nat
    BY <1>2
<1>4. m - 1 \in S
    BY <1>2, <1>3
<1> QED
    BY <1>3, <1>4

(* A recursive function over 0..n exists: what its CHOOSE is of is there.  *)
LEMMA Iterates ==
    ASSUME NEW V, NEW base \in V, NEW n \in Nat, NEW F \in [1..n -> [V -> V]]
    PROVE  \E g \in [0..n -> V] : g[0] = base /\ \A i \in 1..n : g[i] = F[i][g[i - 1]]
<1>. DEFINE Good(g, k) == /\ g \in [0..k -> V]
                          /\ g[0] = base
                          /\ \A i \in 1..k : g[i] = F[i][g[i - 1]]
            S == {k \in Nat : k <= n => \E g : Good(g, k)}
<1>1. 0 \in S
    <2>. DEFINE g == [i \in 0..0 |-> base]
    <2>1. Good(g, 0)
        OBVIOUS
    <2> QED
        BY <2>1
<1>2. ASSUME NEW k \in Nat, k \in S PROVE k + 1 \in S
    <2>1. SUFFICES ASSUME k + 1 <= n PROVE \E g : Good(g, k + 1)
        OBVIOUS
    <2>2. PICK g : Good(g, k)
        BY <1>2, <2>1
    <2>. DEFINE h == [i \in 0..(k + 1) |-> IF i = k + 1 THEN F[k + 1][g[k]] ELSE g[i]]
    <2>3. k + 1 \in 1..n /\ F[k + 1] \in [V -> V] /\ g[k] \in V
        BY <2>1, <2>2
    <2>4. h \in [0..(k + 1) -> V]
        BY <2>2, <2>3
    <2>5. h[0] = base
        BY <2>2
    <2>6. ASSUME NEW i \in 1..(k + 1) PROVE h[i] = F[i][h[i - 1]]
        <3>1. CASE i = k + 1
            <4>1. h[i] = F[k + 1][g[k]] /\ h[i - 1] = g[k]
                BY <3>1
            <4> QED
                BY <3>1, <4>1
        <3>2. CASE i # k + 1
            <4>1. i \in 1..k /\ h[i] = g[i] /\ h[i - 1] = g[i - 1]
                BY <3>2
            <4> QED
                BY <2>2, <4>1
        <3> QED
            BY <3>1, <3>2
    <2>. HIDE DEF h
    <2> QED
        BY <2>4, <2>5, <2>6
<1>. HIDE DEF S
<1>3. n \in S
    BY <1>1, <1>2, SetInduction
<1> QED
    BY <1>3 DEF S

-----------------------------------------------------------------------------
(* Sequences over E whose elements are compared by an integer field.       *)
Comparable(E, field) == \A e \in E : e[field] \in Int

Descends(s, field) ==
    \A i \in 1..Len(s) : \A j \in 1..Len(s) : i < j => s[i][field] >= s[j][field]

LEMMA FieldFacts ==
    ASSUME NEW E, NEW field, Comparable(E, field), NEW s \in Seq(E)
    PROVE  /\ Len(s) \in Nat
           /\ \A i \in 1..Len(s) : s[i] \in E /\ s[i][field] \in Int
<1>1. Len(s) \in Nat
    BY LenProperties
<1>2. \A i \in 1..Len(s) : s[i] \in E
    BY ElementOfSeq
<1> QED
    BY <1>1, <1>2 DEF Comparable

Place(s, x, field) == 1 + Cardinality({i \in 1..Len(s) : s[i][field] >= x[field]})

LEMMA PlacedFacts ==
    ASSUME NEW E, NEW field, Comparable(E, field), NEW s \in Seq(E), NEW x \in E
    PROVE  /\ Placed(s, x, field) \in Seq(E)
           /\ Len(Placed(s, x, field)) = Len(s) + 1
           /\ Place(s, x, field) \in 1..(Len(s) + 1)
           /\ \A j \in 1..(Len(s) + 1) : Placed(s, x, field)[j] =
                IF j < Place(s, x, field) THEN s[j]
                ELSE IF j = Place(s, x, field) THEN x ELSE s[j - 1]
<1>. DEFINE Ahead == {i \in 1..Len(s) : s[i][field] >= x[field]}
            p == 1 + Cardinality(Ahead)
            front == SubSeq(s, 1, p - 1)
            back == SubSeq(s, p, Len(s))
            t == Placed(s, x, field)
<1>1. Len(s) \in Nat
    BY LenProperties
<1>2. /\ IsFiniteSet(Ahead) /\ Cardinality(Ahead) \in Nat /\ Cardinality(Ahead) <= Len(s)
    <2>1. 1 \in Int /\ Len(s) \in Int
        BY <1>1
    <2>2. /\ IsFiniteSet(1..Len(s))
          /\ Cardinality(1..Len(s)) = IF 1 > Len(s) THEN 0 ELSE Len(s) - 1 + 1
        BY <2>1, FS_Interval
    <2>3. Cardinality(1..Len(s)) = Len(s)
        BY <1>1, <2>2
    <2>4. Ahead \in SUBSET (1..Len(s))
        OBVIOUS
    <2>. HIDE DEF Ahead
    <2>5. IsFiniteSet(Ahead) /\ Cardinality(Ahead) <= Len(s)
        BY <2>2, <2>3, <2>4, FS_Subset
    <2>6. Cardinality(Ahead) \in Nat
        BY <2>5, FS_CardinalityType
    <2> QED
        BY <2>5, <2>6
<1>3. t = front \o <<x>> \o back
    BY DEF Placed, InsertAt
<1>. HIDE DEF Ahead, t
<1>6. p \in 1..(Len(s) + 1)
    BY <1>1, <1>2
<1>. HIDE DEF p
<1>7. /\ front \in Seq(E) /\ Len(front) = p - 1
      /\ \A j \in 1..(p - 1) : front[j] = s[j]
    BY <1>1, <1>6
<1>8. /\ back \in Seq(E) /\ Len(back) = Len(s) - p + 1
      /\ \A j \in 1..(Len(s) - p + 1) : back[j] = s[p + j - 1]
    BY <1>1, <1>6
<1>. HIDE DEF front, back
<1>9. /\ <<x>> \in Seq(E) /\ Len(<<x>>) = 1 /\ <<x>>[1] = x
    OBVIOUS
<1>. DEFINE fx == front \o <<x>>
<1>10. /\ fx \in Seq(E) /\ Len(fx) = p
       /\ \A j \in 1..p : fx[j] = IF j < p THEN s[j] ELSE x
    BY <1>1, <1>6, <1>7, <1>9, ConcatProperties
<1>11. t = fx \o back
    BY <1>3
<1>. HIDE DEF fx
<1>12. /\ fx \o back \in Seq(E) /\ Len(fx \o back) = Len(s) + 1
       /\ \A j \in 1..(Len(s) + 1) : (fx \o back)[j] = IF j <= p THEN fx[j] ELSE back[j - p]
    <2>1. Len(fx) + Len(back) = Len(s) + 1
        BY <1>1, <1>6, <1>8, <1>10
    <2>2. /\ fx \o back \in Seq(E) /\ Len(fx \o back) = Len(fx) + Len(back)
          /\ \A j \in 1..(Len(fx) + Len(back)) :
               (fx \o back)[j] = IF j <= Len(fx) THEN fx[j] ELSE back[j - Len(fx)]
        BY <1>8, <1>10, ConcatProperties
    <2> QED
        BY <1>10, <2>1, <2>2
<1>13. ASSUME NEW j \in 1..(Len(s) + 1)
       PROVE  (fx \o back)[j] = IF j < p THEN s[j] ELSE IF j = p THEN x ELSE s[j - 1]
    <2>1. CASE j <= p
        BY <1>6, <1>10, <1>12, <2>1
    <2>2. CASE ~(j <= p)
        <3>1. j - p \in 1..(Len(s) - p + 1) /\ p + (j - p) - 1 = j - 1
            BY <1>1, <1>6, <2>2
        <3>2. (fx \o back)[j] = back[j - p]
            BY <1>12, <2>2
        <3>3. back[j - p] = s[j - 1]
            BY <1>8, <3>1
        <3> QED
            BY <1>6, <2>2, <3>2, <3>3
    <2> QED
        BY <2>1, <2>2
<1>14. t \in Seq(E) /\ Len(t) = Len(s) + 1
    BY <1>11, <1>12
<1>15. \A j \in 1..(Len(s) + 1) : t[j] = IF j < p THEN s[j] ELSE IF j = p THEN x ELSE s[j - 1]
    BY <1>11, <1>13
<1> QED
    BY <1>6, <1>14, <1>15 DEF p, Ahead, t, Place

(* Behind all that are at least as large, before all that are smaller.     *)
LEMMA PlacedDescends ==
    ASSUME NEW E, NEW field, Comparable(E, field), NEW s \in Seq(E), NEW x \in E,
           Descends(s, field)
    PROVE  Descends(Placed(s, x, field), field)
<1>. DEFINE n == Len(s)
            Ahead == {i \in 1..n : s[i][field] >= x[field]}
            t == Placed(s, x, field)
<1>1. /\ n \in Nat /\ x[field] \in Int
      /\ \A i \in 1..n : s[i][field] \in Int
      /\ \A i \in 1..n : \A j \in 1..n : i < j => s[i][field] >= s[j][field]
    BY FieldFacts DEF Comparable, Descends
<1>2. PICK b \in (1..(n + 1)) \ Ahead : \A k \in (1..(n + 1)) \ Ahead : b <= k
    <2>1. n + 1 \in (1..(n + 1)) \ Ahead /\ (1..(n + 1)) \ Ahead \subseteq Nat
        BY <1>1
    <2> QED
        BY <2>1, NatLeast
<1>3. Ahead = 1..(b - 1)
    <2>1. ASSUME NEW i \in 1..(b - 1) PROVE i \in Ahead
        BY <1>1, <1>2
    <2>2. ASSUME NEW i \in Ahead PROVE i \in 1..(b - 1)
        <3>1. CASE i < b
            BY <1>1, <1>2, <3>1
        <3>2. CASE ~(i < b)
            <4>1. b # i /\ b \in 1..n /\ i \in 1..n /\ b < i
                BY <1>1, <1>2, <3>2
            <4>2. s[b][field] >= s[i][field] /\ s[i][field] >= x[field]
                BY <1>1, <4>1
            <4>3. b \in Ahead
                BY <1>1, <4>1, <4>2
            <4> QED
                BY <1>2, <4>3
        <3> QED
            BY <3>1, <3>2
    <2> QED
        BY <2>1, <2>2
<1>4. b \in 1..(n + 1)
    BY <1>2
<1>5. Cardinality(Ahead) = b - 1
    <2>. DEFINE c == b - 1
    <2>1. 1 \in Int /\ c \in Int /\ c >= 0 /\ Ahead = 1..c
        BY <1>1, <1>3, <1>4
    <2>. HIDE DEF c, Ahead
    <2>2. Cardinality(1..c) = IF 1 > c THEN 0 ELSE c - 1 + 1
        BY <2>1, FS_Interval
    <2>3. Cardinality(Ahead) = c
        BY <2>1, <2>2
    <2> QED
        BY <2>3 DEF c
<1>6. /\ Len(t) = n + 1
      /\ \A j \in 1..(n + 1) : t[j] = IF j < b THEN s[j] ELSE IF j = b THEN x ELSE s[j - 1]
    <2>. DEFINE p == Place(s, x, field)
    <2>1. /\ Len(t) = n + 1
          /\ \A j \in 1..(n + 1) : t[j] = IF j < p THEN s[j] ELSE IF j = p THEN x ELSE s[j - 1]
        BY PlacedFacts
    <2>2. p = 1 + Cardinality(Ahead)
        BY DEF Place
    <2>. HIDE DEF n, Ahead, t, p
    <2>3. p = b
        BY <1>1, <1>4, <1>5, <2>2
    <2> QED
        BY <2>1, <2>3
<1>7. /\ \A i \in 1..n : i < b => s[i][field] >= x[field]
      /\ \A i \in 1..n : ~(i < b) => x[field] >= s[i][field]
    BY SMTT(30), <1>1, <1>3, <1>4
<1>. HIDE DEF n, Ahead, t
<1>8. ASSUME NEW i \in 1..(n + 1), NEW j \in 1..(n + 1), i < j
      PROVE  t[i][field] >= t[j][field]
    <2>1. CASE j < b
        <3>1. i \in 1..n /\ j \in 1..n /\ t[i] = s[i] /\ t[j] = s[j]
            BY <1>1, <1>4, <1>6, <1>8, <2>1
        <3> QED
            BY <1>1, <1>8, <3>1
    <2>2. CASE j = b
        <3>1. i \in 1..n /\ i < b /\ t[i] = s[i] /\ t[j] = x
            BY <1>1, <1>4, <1>6, <1>8, <2>2
        <3> QED
            BY <1>7, <3>1
    <2>3. CASE b < j
        <3>1. j - 1 \in 1..n /\ ~(j - 1 < b) /\ t[j] = s[j - 1]
            BY <1>1, <1>4, <1>6, <2>3
        <3>2. CASE i < b
            <4>1. i \in 1..n /\ i < j - 1 /\ t[i] = s[i]
                BY <1>1, <1>4, <1>6, <2>3, <3>2
            <4> QED
                BY <1>1, <3>1, <4>1
        <3>3. CASE i = b
            BY <1>6, <1>7, <3>1, <3>3
        <3>4. CASE b < i
            <4>1. i - 1 \in 1..n /\ i - 1 < j - 1 /\ t[i] = s[i - 1]
                BY <1>1, <1>4, <1>6, <1>8, <3>4
            <4> QED
                BY <1>1, <3>1, <4>1
        <3> QED
            BY <1>4, <3>2, <3>3, <3>4
    <2> QED
        BY <1>4, <2>1, <2>2, <2>3
<1> QED
    BY <1>6, <1>8 DEF Descends, t

(* The steps of the sort.                                                  *)
LEMMA SortSteps ==
    ASSUME NEW E, NEW field, Comparable(E, field), NEW xs \in Seq(E)
    PROVE  \E u : /\ u[0] = <<>>
                  /\ \A i \in 1..Len(xs) : u[i] = Placed(u[i - 1], xs[i], field)
                  /\ LargestFirst(xs, field) = u[Len(xs)]
<1>. DEFINE n == Len(xs)
            Eq(u) == u = [i \in 0..n |-> IF i = 0 THEN <<>> ELSE Placed(u[i - 1], xs[i], field)]
            upTo == CHOOSE u : Eq(u)
            V == Seq(E)
            F == [i \in 1..n |-> [v \in V |-> Placed(v, xs[i], field)]]
<1>1. n \in Nat /\ \A i \in 1..n : xs[i] \in E
    BY FieldFacts
<1>2. LargestFirst(xs, field) = upTo[n]
    BY DEF LargestFirst
<1>3. <<>> \in V /\ F \in [1..n -> [V -> V]]
    <2>1. <<>> \in V
        BY EmptySeq
    <2>2. \A i \in 1..n : \A v \in V : Placed(v, xs[i], field) \in V
        BY <1>1, PlacedFacts
    <2>. HIDE DEF V, n
    <2> QED
        BY <2>1, <2>2
<1>4. PICK u \in [0..n -> V] : u[0] = <<>> /\ \A i \in 1..n : u[i] = F[i][u[i - 1]]
    <2>1. n \in Nat
        BY <1>1
    <2>. HIDE DEF F, n, V
    <2>2. ASSUME NEW b \in V
          PROVE  \E u \in [0..n -> V] : u[0] = b /\ \A i \in 1..n : u[i] = F[i][u[i - 1]]
        <3>1. F \in [1..n -> [V -> V]]
            BY <1>3
        <3> QED
            BY <2>1, <3>1, Iterates
    <2> QED
        BY <1>3, <2>2
<1>. HIDE DEF V
<1>5. \A i \in 1..n : u[i] = Placed(u[i - 1], xs[i], field)
    <2>1. \A i \in 1..n : u[i - 1] \in V
        BY <1>1
    <2> QED
        BY <1>4, <2>1
<1>. HIDE DEF F, n
<1>6. Eq(u)
    <2>1. \A i \in 0..n : i # 0 => i \in 1..n
        BY <1>1
    <2> QED
        BY <1>4, <1>5, <2>1
<1>7. Eq(upTo)
    BY <1>6
<1>. HIDE DEF upTo
<1>8. upTo[0] = <<>> /\ \A i \in 1..n : upTo[i] = Placed(upTo[i - 1], xs[i], field)
    BY <1>1, <1>7
<1> QED
    BY <1>2, <1>8 DEF n

(* Sorting keeps what is there and leaves it from the largest down.        *)
LEMMA LargestFirstSorts ==
    ASSUME NEW E, NEW field, Comparable(E, field), NEW xs \in Seq(E),
           NEW s, s = LargestFirst(xs, field)
    PROVE  /\ s \in Seq(E) /\ Len(s) = Len(xs)
           /\ ToSet(s) = ToSet(xs)
           /\ Descends(s, field)
<1>. DEFINE n == Len(xs)
<1>1. n \in Nat /\ \A i \in 1..n : xs[i] \in E
    BY FieldFacts
<1>2. PICK u : /\ u[0] = <<>>
               /\ \A i \in 1..n : u[i] = Placed(u[i - 1], xs[i], field)
               /\ s = u[n]
    BY SortSteps
<1>. HIDE DEF n
<1>. DEFINE Sorted(w, k) ==
              /\ w \in Seq(E) /\ Len(w) = k
              /\ \A j \in 1..k : \E i \in 1..k : w[j] = xs[i]
              /\ \A i \in 1..k : \E j \in 1..k : w[j] = xs[i]
              /\ Descends(w, field)
            S == {k \in Nat : k <= n => Sorted(u[k], k)}
<1>3. 0 \in S
    <2>1. <<>> \in Seq(E) /\ Len(<<>>) = 0
        BY EmptySeq
    <2>2. \A j \in 1..0 : FALSE
        OBVIOUS
    <2> QED
        BY <1>2, <2>1, <2>2 DEF Descends
<1>4. ASSUME NEW k \in Nat, k \in S PROVE k + 1 \in S
    <2>1. SUFFICES ASSUME k + 1 <= n PROVE Sorted(u[k + 1], k + 1)
        <3>. HIDE DEF Sorted
        <3> QED
            OBVIOUS
    <2>. DEFINE w == u[k]
                x == xs[k + 1]
                t == Placed(w, x, field)
    <2>2. k + 1 \in 1..n /\ (k + 1) - 1 = k
        BY <1>1, <2>1
    <2>3. Sorted(w, k)
        <3>1. k <= n
            BY <1>1, <2>1
        <3>. HIDE DEF Sorted
        <3> QED
            BY <1>4, <3>1
    <2>4. u[k + 1] = t /\ x \in E
        BY <1>1, <1>2, <2>2
    <2>. HIDE DEF x, w
    <2>. DEFINE p == Place(w, x, field)
    <2>5. /\ t \in Seq(E) /\ Len(t) = k + 1 /\ p \in 1..(k + 1)
          /\ \A j \in 1..(k + 1) : t[j] = IF j < p THEN w[j] ELSE IF j = p THEN x ELSE w[j - 1]
        <3>1. w \in Seq(E) /\ Len(w) = k /\ x \in E
            BY <2>3, <2>4
        <3>2. ASSUME NEW v \in Seq(E), NEW y \in E
              PROVE  /\ Placed(v, y, field) \in Seq(E)
                     /\ Len(Placed(v, y, field)) = Len(v) + 1
                     /\ Place(v, y, field) \in 1..(Len(v) + 1)
                     /\ \A j \in 1..(Len(v) + 1) : Placed(v, y, field)[j] =
                          IF j < Place(v, y, field) THEN v[j]
                          ELSE IF j = Place(v, y, field) THEN y ELSE v[j - 1]
            BY PlacedFacts
        <3>3. /\ t \in Seq(E) /\ Len(t) = Len(w) + 1 /\ p \in 1..(Len(w) + 1)
              /\ \A j \in 1..(Len(w) + 1) :
                   t[j] = IF j < p THEN w[j] ELSE IF j = p THEN x ELSE w[j - 1]
            BY <3>1, <3>2
        <3> QED
            BY <3>1, <3>3
    <2>6. Descends(t, field)
        BY <2>3, <2>4, PlacedDescends
    <2>. HIDE DEF t, p
    <2>7. ASSUME NEW j \in 1..(k + 1) PROVE \E i \in 1..(k + 1) : t[j] = xs[i]
        <3>1. CASE j = p
            BY <2>5, <3>1 DEF x
        <3>2. CASE j < p
            <4>1. j \in 1..k /\ t[j] = w[j]
                BY <2>5, <3>2
            <4>2. PICK i \in 1..k : w[j] = xs[i]
                BY <2>3, <4>1
            <4> QED
                BY <4>1, <4>2
        <3>3. CASE j > p
            <4>1. j - 1 \in 1..k /\ t[j] = w[j - 1]
                BY <2>5, <3>3
            <4>2. PICK i \in 1..k : w[j - 1] = xs[i]
                BY <2>3, <4>1
            <4> QED
                BY <4>1, <4>2
        <3> QED
            BY <2>5, <3>1, <3>2, <3>3
    <2>8. ASSUME NEW i \in 1..(k + 1) PROVE \E j \in 1..(k + 1) : t[j] = xs[i]
        <3>1. CASE i = k + 1
            <4>1. t[p] = x /\ xs[i] = x
                BY <2>5, <3>1 DEF x
            <4> QED
                BY <2>5, <4>1
        <3>2. CASE i # k + 1
            <4>1. PICK j \in 1..k : w[j] = xs[i]
                <5>1. i \in 1..k
                    BY <3>2
                <5> QED
                    BY <2>3, <5>1
            <4>2. CASE j < p
                BY <2>5, <4>1, <4>2
            <4>3. CASE ~(j < p)
                <5>1. j + 1 \in 1..(k + 1) /\ ~(j + 1 < p) /\ j + 1 # p /\ (j + 1) - 1 = j
                    BY <2>5, <4>3
                <5> QED
                    BY <2>5, <4>1, <5>1
            <4> QED
                BY <4>2, <4>3
        <3> QED
            BY <3>1, <3>2
    <2> QED
        BY <2>4, <2>5, <2>6, <2>7, <2>8
<1>. HIDE DEF S
<1>5. n \in S
    BY <1>1, <1>3, <1>4, SetInduction
<1>6. Sorted(s, n)
    BY <1>1, <1>2, <1>5 DEF S
<1>7. DOMAIN s = 1..n /\ DOMAIN xs = 1..n
    BY <1>6, LenProperties DEF n
<1>8. ToSet(s) = ToSet(xs)
    <2>1. ASSUME NEW e \in ToSet(s) PROVE e \in ToSet(xs)
        <3>1. PICK j \in 1..n : e = s[j]
            BY <1>7 DEF ToSet
        <3>2. PICK i \in 1..n : s[j] = xs[i]
            BY <1>6
        <3> QED
            BY <1>7, <3>1, <3>2 DEF ToSet
    <2>2. ASSUME NEW e \in ToSet(xs) PROVE e \in ToSet(s)
        <3>1. PICK i \in 1..n : e = xs[i]
            BY <1>7 DEF ToSet
        <3>2. PICK j \in 1..n : s[j] = xs[i]
            BY <1>6
        <3> QED
            BY <1>7, <3>1, <3>2 DEF ToSet
    <2> QED
        BY <2>1, <2>2
<1> QED
    BY <1>6, <1>8 DEF n

-----------------------------------------------------------------------------
(* A way of k edges from n to m.                                           *)
Way(n, m, k) ==
    \E path \in [0..k -> Node] :
       /\ path[0] = n /\ path[k] = m
       /\ \A i \in 1..k : <<path[i - 1], path[i]>> \in Edge

Upstream(root, k) == {n \in Node : \E j \in 0..k : Way(n, root, j)}

LEMMA ParentsOf ==
    ASSUME NEW ids, NEW n
    PROVE  n \in Parents(ids) <=> \E p \in ids : <<n, p>> \in Edge
<1>1. ASSUME n \in Parents(ids) PROVE \E p \in ids : <<n, p>> \in Edge
    <2>1. PICK e \in Edge : e[2] \in ids /\ n = e[1]
        BY <1>1 DEF Parents
    <2>2. e = <<e[1], e[2]>>
        BY GraphAssumption
    <2> QED
        BY <2>1, <2>2
<1>2. ASSUME NEW p \in ids, <<n, p>> \in Edge PROVE n \in Parents(ids)
    <2>1. <<n, p>>[1] = n /\ <<n, p>>[2] = p
        OBVIOUS
    <2> QED
        BY <1>2, <2>1 DEF Parents
<1> QED
    BY <1>1, <1>2

LEMMA NoWay ==
    ASSUME NEW root \in Node, NEW n
    PROVE  Way(n, root, 0) <=> n = root
<1>1. ASSUME Way(n, root, 0) PROVE n = root
    BY <1>1 DEF Way
<1>2. ASSUME n = root PROVE Way(n, root, 0)
    <2>. DEFINE path == [x \in 0..0 |-> root]
    <2>1. path \in [0..0 -> Node] /\ path[0] = root
        OBVIOUS
    <2>2. \A i \in 1..0 : FALSE
        OBVIOUS
    <2> QED
        BY <1>2, <2>1, <2>2 DEF Way
<1> QED
    BY <1>1, <1>2

LEMMA FirstEdge ==
    ASSUME NEW root \in Node, NEW n \in Node, NEW k \in Nat, Way(n, root, k + 1)
    PROVE  \E p \in Node : <<n, p>> \in Edge /\ Way(p, root, k)
<1>1. PICK path \in [0..(k + 1) -> Node] :
        /\ path[0] = n /\ path[k + 1] = root
        /\ \A i \in 1..(k + 1) : <<path[i - 1], path[i]>> \in Edge
    BY DEF Way
<1>. DEFINE rest == [x \in 0..k |-> path[x + 1]]
<1>2. \A x \in 0..k : x + 1 \in 0..(k + 1)
    OBVIOUS
<1>3. rest \in [0..k -> Node] /\ rest[0] = path[1] /\ rest[k] = root
    BY <1>1, <1>2
<1>4. ASSUME NEW i \in 1..k PROVE <<rest[i - 1], rest[i]>> \in Edge
    <2>1. i - 1 \in 0..k /\ i \in 0..k /\ i + 1 \in 1..(k + 1) /\ (i - 1) + 1 = (i + 1) - 1
        OBVIOUS
    <2>2. rest[i - 1] = path[(i + 1) - 1] /\ rest[i] = path[i + 1]
        BY <2>1
    <2> QED
        BY <1>1, <2>1, <2>2
<1>5. <<n, path[1]>> \in Edge /\ path[1] \in Node
    BY <1>1
<1>. HIDE DEF rest
<1>6. Way(path[1], root, k)
    BY <1>3, <1>4 DEF Way
<1> QED
    BY <1>5, <1>6

LEMMA OneMoreEdge ==
    ASSUME NEW root \in Node, NEW n \in Node, NEW p \in Node, NEW k \in Nat,
           <<n, p>> \in Edge, Way(p, root, k)
    PROVE  Way(n, root, k + 1)
<1>1. PICK path \in [0..k -> Node] :
        /\ path[0] = p /\ path[k] = root
        /\ \A i \in 1..k : <<path[i - 1], path[i]>> \in Edge
    BY DEF Way
<1>. DEFINE longer == [x \in 0..(k + 1) |-> IF x = 0 THEN n ELSE path[x - 1]]
<1>2. longer \in [0..(k + 1) -> Node] /\ longer[0] = n /\ longer[k + 1] = root
    BY <1>1
<1>3. ASSUME NEW i \in 1..(k + 1) PROVE <<longer[i - 1], longer[i]>> \in Edge
    <2>1. CASE i = 1
        <3>1. longer[i - 1] = n /\ longer[i] = path[0]
            BY <2>1
        <3> QED
            BY <1>1, <3>1
    <2>2. CASE i # 1
        <3>1. i - 1 \in 1..k /\ i - 1 # 0 /\ i # 0 /\ i - 1 \in 0..(k + 1) /\ i \in 0..(k + 1)
            BY <2>2
        <3>2. longer[i - 1] = path[(i - 1) - 1] /\ longer[i] = path[i - 1]
            BY <3>1
        <3> QED
            BY <1>1, <3>1, <3>2
    <2> QED
        BY <2>1, <2>2
<1>. HIDE DEF longer
<1> QED
    BY <1>2, <1>3 DEF Way

LEMMA UpstreamGrows ==
    ASSUME NEW root \in Node, NEW k \in Nat
    PROVE  Upstream(root, k + 1) = Upstream(root, k) \cup Parents(Upstream(root, k))
<1>1. ASSUME NEW n \in Upstream(root, k + 1)
      PROVE  n \in Upstream(root, k) \cup Parents(Upstream(root, k))
    <2>1. PICK j \in 0..(k + 1) : n \in Node /\ Way(n, root, j)
        BY <1>1 DEF Upstream
    <2>2. CASE j \in 0..k
        BY <2>1, <2>2 DEF Upstream
    <2>3. CASE j = k + 1
        <3>1. PICK p \in Node : <<n, p>> \in Edge /\ Way(p, root, k)
            BY <2>1, <2>3, FirstEdge
        <3>2. p \in Upstream(root, k)
            BY <3>1 DEF Upstream
        <3> QED
            BY <3>1, <3>2, ParentsOf
    <2> QED
        BY <2>2, <2>3
<1>2. ASSUME NEW n \in Upstream(root, k) PROVE n \in Upstream(root, k + 1)
    BY <1>2 DEF Upstream
<1>3. ASSUME NEW n \in Parents(Upstream(root, k)) PROVE n \in Upstream(root, k + 1)
    <2>1. PICK p \in Upstream(root, k) : <<n, p>> \in Edge
        BY ParentsOf
    <2>2. n \in Node /\ p \in Node
        BY <2>1, GraphAssumption DEF Upstream
    <2>3. PICK j \in 0..k : Way(p, root, j)
        BY DEF Upstream
    <2>4. Way(n, root, j + 1) /\ j + 1 \in 0..(k + 1)
        BY <2>1, <2>2, <2>3, OneMoreEdge
    <2> QED
        BY <2>2, <2>4 DEF Upstream
<1> QED
    BY <1>1, <1>2, <1>3

(* The ways do not go on getting longer: as long as they do, each length   *)
(* adds a node, and there are no more nodes than Cardinality(Node).        *)
LEMMA UpstreamEnds ==
    ASSUME NEW root \in Node
    PROVE  /\ Cardinality(Node) \in Nat \ {0}
           /\ Upstream(root, Cardinality(Node)) = Upstream(root, Cardinality(Node) - 1)
<1>. DEFINE A(k) == Upstream(root, k)
            N == Cardinality(Node)
            Slow == {k \in Nat : A(k + 1) = A(k) \/ Cardinality(A(k)) >= k + 1}
<1>1. N \in Nat \ {0}
    BY FS_CardinalityType, FS_EmptySet, GraphAssumption
<1>2. \A k \in Nat : /\ A(k) \subseteq A(k + 1) /\ A(k + 1) = A(k) \cup Parents(A(k))
                     /\ A(k) \in SUBSET Node
                     /\ IsFiniteSet(A(k)) /\ Cardinality(A(k)) \in Nat
    <2>1. ASSUME NEW k \in Nat PROVE A(k) \in SUBSET Node
        BY DEF Upstream
    <2>2. ASSUME NEW k \in Nat PROVE A(k + 1) = A(k) \cup Parents(A(k))
        BY UpstreamGrows
    <2>. HIDE DEF A
    <2>3. ASSUME NEW k \in Nat PROVE IsFiniteSet(A(k)) /\ Cardinality(A(k)) \in Nat
        BY <2>1, FS_Subset, FS_CardinalityType, GraphAssumption
    <2> QED
        BY <2>1, <2>2, <2>3
<1>3. A(0) = {root}
    BY NoWay DEF Upstream
<1>. HIDE DEF A, N
<1>4. 0 \in Slow
    <2>1. Cardinality(A(0)) = 1
        BY <1>3, FS_Singleton
    <2> QED
        BY <2>1
<1>5. ASSUME NEW k \in Nat, k \in Slow PROVE k + 1 \in Slow
    <2>1. CASE A(k + 1) = A(k)
        <3>1. /\ A((k + 1) + 1) = A(k + 1) \cup Parents(A(k + 1))
              /\ A(k + 1) = A(k) \cup Parents(A(k))
            BY <1>2
        <3>2. A((k + 1) + 1) = A(k + 1)
            BY <2>1, <3>1
        <3> QED
            BY <3>2
    <2>2. CASE A(k + 1) # A(k)
        <3>1. Cardinality(A(k)) >= k + 1
            BY <1>5, <2>2
        <3>2. A(k) \in SUBSET A(k + 1) /\ IsFiniteSet(A(k + 1))
            BY <1>2
        <3>3. /\ Cardinality(A(k)) <= Cardinality(A(k + 1))
              /\ Cardinality(A(k)) # Cardinality(A(k + 1))
            BY <2>2, <3>2, FS_Subset
        <3>4. Cardinality(A(k)) \in Nat /\ Cardinality(A(k + 1)) \in Nat
            BY <1>2
        <3>5. Cardinality(A(k + 1)) >= (k + 1) + 1
            BY <3>1, <3>3, <3>4
        <3> QED
            BY <3>5
    <2> QED
        BY <2>1, <2>2
<1>. HIDE DEF Slow
<1>6. N - 1 \in Nat /\ N - 1 \in Slow
    BY <1>1, <1>4, <1>5, SetInduction
<1>7. CASE A((N - 1) + 1) = A(N - 1)
    BY <1>1, <1>7 DEF A, N
<1>8. CASE Cardinality(A(N - 1)) >= (N - 1) + 1
    <2>1. Cardinality(A(N - 1)) <= N /\ (Cardinality(A(N - 1)) = N => A(N - 1) = Node)
        BY <1>2, <1>6, FS_Subset, GraphAssumption DEF N
    <2>2. A(N - 1) = Node
        BY <1>1, <1>2, <1>6, <1>8, <2>1
    <2>3. A((N - 1) + 1) \in SUBSET Node /\ A(N - 1) \subseteq A((N - 1) + 1)
        BY <1>2, <1>6
    <2>4. (N - 1) + 1 = N
        BY <1>1
    <2>5. A(N) = Node
        BY <2>2, <2>3, <2>4
    <2> QED
        BY <1>1, <2>2, <2>5 DEF A, N
<1> QED
    BY <1>6, <1>7, <1>8 DEF Slow

LEMMA FeedsAreUpstream ==
    ASSUME NEW root \in Node, NEW n \in Node
    PROVE  Feeds(n, root) <=> n \in Upstream(root, Cardinality(Node) - 1)
BY DEF Feeds, Upstream, Way

(* The rounds of the loop.                                                 *)
Round(g, root, i) == IF i = 0 THEN {root} ELSE g[i - 1] \cup Parents(g[i - 1])
AreRounds(g, root, m) == g = [i \in 0..m |-> Round(g, root, i)]

LEMMA RoundsExist ==
    ASSUME NEW root \in Node, NEW m \in Nat
    PROVE  \E g : AreRounds(g, root, m)
<1>. DEFINE S == {k \in Nat : \E g : AreRounds(g, root, k)}
<1>1. 0 \in S
    <2>. DEFINE g == [i \in 0..0 |-> {root}]
    <2>1. g = [i \in 0..0 |-> Round(g, root, i)]
        BY DEF Round
    <2> QED
        BY <2>1 DEF AreRounds
<1>2. ASSUME NEW k \in Nat, k \in S PROVE k + 1 \in S
    <2>1. PICK g : AreRounds(g, root, k)
        BY <1>2
    <2>. DEFINE h == [i \in 0..(k + 1) |-> IF i = k + 1 THEN g[k] \cup Parents(g[k]) ELSE g[i]]
    <2>2. \A i \in 0..k : g[i] = Round(g, root, i)
        BY <2>1 DEF AreRounds
    <2>3. ASSUME NEW i \in 0..(k + 1) PROVE h[i] = Round(h, root, i)
        <3>1. CASE i = k + 1
            <4>1. h[i] = g[k] \cup Parents(g[k]) /\ h[i - 1] = g[k] /\ i # 0
                BY <3>1
            <4> QED
                BY <4>1 DEF Round
        <3>2. CASE i # k + 1 /\ i # 0
            <4>1. i \in 0..k /\ i - 1 \in 0..k /\ h[i] = g[i] /\ h[i - 1] = g[i - 1]
                BY <3>2
            <4>. HIDE DEF h
            <4> QED
                BY <2>2, <3>2, <4>1 DEF Round
        <3>3. CASE i = 0
            <4>1. 0 \in 0..k /\ h[0] = g[0]
                OBVIOUS
            <4>. HIDE DEF h
            <4>2. g[0] = Round(g, root, 0)
                BY <2>2, <4>1
            <4> QED
                BY <3>3, <4>1, <4>2 DEF Round
        <3> QED
            BY <3>1, <3>2, <3>3
    <2>4. h = [i \in 0..(k + 1) |-> h[i]]
        OBVIOUS
    <2>. HIDE DEF h
    <2>5. h = [i \in 0..(k + 1) |-> Round(h, root, i)]
        BY <2>3, <2>4
    <2> QED
        BY <2>5 DEF AreRounds
<1>. HIDE DEF S
<1>3. m \in S
    BY <1>1, <1>2, SetInduction
<1> QED
    BY <1>3 DEF S

LEMMA RoundsAreUpstream ==
    ASSUME NEW root \in Node, NEW m \in Nat, NEW g, AreRounds(g, root, m)
    PROVE  g[m] = Upstream(root, m)
<1>. DEFINE S == {k \in Nat : k <= m => g[k] = Upstream(root, k)}
<1>1. \A i \in 0..m : g[i] = Round(g, root, i)
    BY DEF AreRounds
<1>2. 0 \in S
    <2>1. Upstream(root, 0) = {root}
        BY NoWay DEF Upstream
    <2>2. g[0] = Round(g, root, 0)
        BY <1>1
    <2> QED
        BY <2>1, <2>2 DEF Round
<1>3. ASSUME NEW k \in Nat, k \in S PROVE k + 1 \in S
    <2>1. SUFFICES ASSUME k + 1 <= m PROVE g[k + 1] = Upstream(root, k + 1)
        OBVIOUS
    <2>2. g[k] = Upstream(root, k)
        BY <1>3, <2>1
    <2>3. k + 1 \in 0..m /\ k + 1 # 0 /\ (k + 1) - 1 = k
        BY <2>1
    <2>4. g[k + 1] = g[k] \cup Parents(g[k])
        BY <1>1, <2>3 DEF Round
    <2> QED
        BY <2>2, <2>4, UpstreamGrows
<1>. HIDE DEF S
<1>4. m \in S
    BY <1>2, <1>3, SetInduction
<1> QED
    BY <1>4 DEF S

LEMMA ClosureIsUpstream ==
    ASSUME NEW root \in Node
    PROVE  ancestorClosure(root) = Upstream(root, Cardinality(Node))
<1>. DEFINE N == Cardinality(Node)
            visited == CHOOSE g : AreRounds(g, root, N)
<1>1. N \in Nat
    BY UpstreamEnds
<1>2. ancestorClosure(root) = visited[N]
    BY DEF ancestorClosure, AreRounds, Round
<1>. HIDE DEF N
<1>3. AreRounds(visited, root, N)
    BY <1>1, RoundsExist
<1>. HIDE DEF visited
<1>4. visited[N] = Upstream(root, N)
    BY <1>1, <1>3, RoundsAreUpstream
<1> QED
    BY <1>2, <1>4 DEF N

(* The loop over the stack finds exactly the nodes with a way to the root. *)
LEMMA ClosureIsFeeds ==
    ASSUME NEW root \in Node, NEW n \in Node
    PROVE  n \in ancestorClosure(root) <=> Feeds(n, root)
BY ClosureIsUpstream, UpstreamEnds, FeedsAreUpstream

-----------------------------------------------------------------------------
LEMMA ParentsAreNodes == \A ids : Parents(ids) \subseteq Node
BY GraphAssumption DEF Parents

(* The screen's state.  An answer for the selected node and the node the   *)
(* drawer draws arrive in steps of different actors, and they agree.       *)
DrawerFollows ==
    selectedId # NoNode /\ detail[selectedId] = "ok" => drawn = selectedId

ScreenInv ==
    /\ dashboardId \in Node \cup {NoNode}
    /\ selectedId \in Node \cup {NoNode}
    /\ DOMAIN detail = Node
    /\ DrawerFollows

LEMMA SelectableIsNode ==
    ASSUME NEW id \in Selectable
    PROVE  id \in Node
<1>1. CASE id \in visibleIds
    BY <1>1 DEF visibleIds
<1>2. CASE id \in Parents({drawn})
    BY <1>2, ParentsAreNodes
<1>3. CASE id \in {e[2] : e \in {x \in Edge : x[1] = drawn}}
    BY <1>3, GraphAssumption
<1> QED
    BY <1>1, <1>2, <1>3 DEF Selectable, Neighbours

LEMMA InitialScreen ==
    ASSUME initialState, DOMAIN detail' = Node
    PROVE  ScreenInv'
BY DEF initialState, ScreenInv, DrawerFollows

LEMMA SelectKeeps ==
    ASSUME ScreenInv, NEW id \in Node, select(id)
    PROVE  ScreenInv'
<1>1. /\ selectedId' = id
      /\ detail' = [detail EXCEPT ![id] = Asked(detail[id])]
      /\ drawn' = IF detail[id] = "ok" THEN id ELSE drawn
      /\ dashboardId' = dashboardId
    BY DEF select
<1>2. DOMAIN detail = Node
    BY DEF ScreenInv
<1>3. detail'[id] = Asked(detail[id]) /\ DOMAIN detail' = Node
    BY <1>1, <1>2
<1>4. detail'[id] = "ok" => drawn' = id
    BY <1>1, <1>3 DEF Asked
<1> QED
    BY <1>1, <1>3, <1>4 DEF ScreenInv, DrawerFollows

LEMMA DetailKeeps ==
    ASSUME ScreenInv, NEW n \in Node, NEW status, DetailAnswers(n, status)
    PROVE  ScreenInv'
<1>1. /\ detail' = [detail EXCEPT ![n] = status]
      /\ drawn' = IF status = "ok" /\ n = selectedId THEN n ELSE drawn
      /\ dashboardId' = dashboardId /\ selectedId' = selectedId
    BY DEF DetailAnswers
<1>2. DOMAIN detail = Node /\ selectedId \in Node \cup {NoNode}
    BY DEF ScreenInv
<1>3. DOMAIN detail' = Node
    BY <1>1, <1>2
<1>4. CASE n = selectedId
    BY <1>1, <1>2, <1>3, <1>4 DEF ScreenInv, DrawerFollows
<1>5. CASE n # selectedId
    <2>1. selectedId # NoNode => detail'[selectedId] = detail[selectedId]
        BY <1>1, <1>2, <1>5
    <2> QED
        BY <1>1, <1>3, <1>5, <2>1 DEF ScreenInv, DrawerFollows
<1> QED
    BY <1>4, <1>5

LEMMA MountKeeps ==
    ASSUME ScreenInv, NEW u, Mount(u)
    PROVE  ScreenInv'
<1>1. initialState /\ UNCHANGED detail
    BY DEF Mount, MountDashboard, MountSources, MountLineage, MountQuiet, LeaveModels, MountModels
<1>2. DOMAIN detail' = Node
    BY <1>1 DEF ScreenInv
<1> QED
    BY <1>1, <1>2, InitialScreen

LEMMA SameScreen ==
    ASSUME ScreenInv, UNCHANGED modelVars
    PROVE  ScreenInv'
BY DEF ScreenInv, DrawerFollows, modelVars

LEMMA FollowKeeps ==
    ASSUME ScreenInv, NEW u, NEW emits, Follow(u, emits)
    PROVE  ScreenInv'
BY MountKeeps, SameScreen DEF Follow, ChangeArgument

LEMMA NavigateKeeps ==
    ASSUME ScreenInv, NEW u, NEW emits, Navigate(u, emits)
    PROVE  ScreenInv'
BY FollowKeeps DEF Navigate

LEMMA LoadKeeps ==
    ASSUME ScreenInv, NEW u, Load(u)
    PROVE  ScreenInv'
<1>1. initialState /\ detail' = [n \in Node |-> "none"]
    BY DEF Load
<1> QED
    BY <1>1, InitialScreen

LEMMA AnswersKeep ==
    ASSUME ScreenInv, Answers
    PROVE  ScreenInv'
<1>1. PICK status \in {"ok", "failed"} :
        \/ \E k \in Key : BodyAnswers(k, status)
        \/ \E p \in Dashboards : MonthsAnswer(p, status)
        \/ TrustAnswers(status)
        \/ LineageAnswers(status)
    BY DEF Answers
<1>2. CASE UNCHANGED modelVars
    BY <1>2, SameScreen
<1>3. CASE GraphAnswers(status)
    BY <1>3 DEF GraphAnswers, ScreenInv, DrawerFollows
<1>4. CASE \E n \in Node : DetailAnswers(n, status)
    BY <1>4, DetailKeeps
<1> QED
    BY <1>1, <1>2, <1>3, <1>4 DEF BodyAnswers, MonthsAnswer, TrustAnswers, LineageAnswers

LEMMA ExpiryKeeps ==
    ASSUME ScreenInv, CacheExpires
    PROVE  ScreenInv'
<1>1. /\ detail' = [n \in Node |-> IF n = selectedId THEN detail[n] ELSE "none"]
      /\ dashboardId' = dashboardId /\ selectedId' = selectedId /\ drawn' = drawn
    BY DEF CacheExpires, screenVars
<1>2. DOMAIN detail' = Node /\ (selectedId \in Node => detail'[selectedId] = detail[selectedId])
    BY <1>1
<1> QED
    BY <1>1, <1>2 DEF ScreenInv, DrawerFollows

LEMMA LineageKeeps ==
    ASSUME ScreenInv, Lineage
    PROVE  ScreenInv'
<1>1. CASE selectedId = NoNode /\ Filters
    <2>1. UNCHANGED <<selectedId, detail, drawn>>
        BY <1>1 DEF Filters, toggleLayer, setDashboard
    <2>2. dashboardId' \in Node \cup {NoNode}
        BY <1>1 DEF Filters, toggleLayer, setDashboard, Dashboard, ScreenInv
    <2> QED
        BY <2>1, <2>2 DEF ScreenInv, DrawerFollows
<1>2. CASE closeDrawer
    BY <1>2 DEF closeDrawer, ScreenInv, DrawerFollows
<1>3. ASSUME NEW id \in Selectable, select(id) PROVE ScreenInv'
    BY <1>3, SelectableIsNode, SelectKeeps
<1> QED
    BY <1>1, <1>2, <1>3 DEF Lineage

LEMMA ScreenStep ==
    ASSUME ScreenInv, [Next]_vars
    PROVE  ScreenInv'
<1>1. CASE Boot
    BY <1>1, MountKeeps DEF Boot
<1>2. CASE PickMonth \/ PickFilter \/ NavItem \/ ProductCard \/ SettleMonth \/ DashboardLink
    BY <1>2, NavigateKeeps
       DEF PickMonth, PickFilter, NavItem, ProductCard, SettleMonth, DashboardLink
<1>3. CASE BackButton
    BY <1>3, FollowKeeps DEF BackButton
<1>4. CASE PaletteJump \/ Reload
    BY <1>4, LoadKeeps DEF PaletteJump, Reload
<1>5. CASE Answers
    BY <1>5, AnswersKeep
<1>6. CASE CacheExpires
    BY <1>6, ExpiryKeeps
<1>7. CASE Lineage
    BY <1>7, LineageKeeps
<1>8. CASE Timeline \/ reportError \/ metricToEvent \/ onTile \/ HideOrShow
    BY <1>8, SameScreen DEF Timeline, reportError, metricToEvent, onTile, OnTab, HideOrShow
<1>9. CASE (TimerFires /\ OnTab) \/ (Unload("closed") /\ OnTab) \/ UNCHANGED vars
    BY <1>9, SameScreen DEF OnTab, vars
<1> QED
    BY <1>1, <1>2, <1>3, <1>4, <1>5, <1>6, <1>7, <1>8, <1>9 DEF Next

LEMMA CanvasFromScreen ==
    ASSUME ScreenInv
    PROVE  CanvasIsLineage
<1>1. ASSUME NEW n \in Node
      PROVE  n \in visibleIds <=> /\ Layer[n] \in enabledLayers
                                  /\ dashboardId = NoNode \/ n \in FeedsOn[dashboardId]
    <2>1. CASE dashboardId = NoNode
        BY <2>1 DEF visibleIds
    <2>2. CASE dashboardId # NoNode
        <3>1. dashboardId \in Node
            BY <2>2 DEF ScreenInv
        <3>2. n \in FeedsOn[dashboardId] <=> n \in ancestorClosure(dashboardId)
            BY <3>1, ClosureIsFeeds DEF FeedsOn
        <3> QED
            BY <2>2, <3>2 DEF visibleIds
    <2> QED
        BY <2>1, <2>2
<1>2. \A e \in visibleEdges : {e[1], e[2]} \subseteq visibleIds
    BY DEF visibleEdges
<1>3. DrawerBody /\ detail[selectedId] = "ok" => drawn = selectedId
    BY DEF DrawerBody, ScreenInv, DrawerFollows
<1> QED
    BY <1>1, <1>2, <1>3 DEF CanvasIsLineage

(* For every lineage graph: the canvas shows exactly what feeds the chosen *)
(* dashboard (the loop over the stack in ancestorClosure finds every node  *)
(* with a way to it and no other), and the drawer never describes a node   *)
(* other than the selected one once its answer is there, whatever order    *)
(* selections, answers and cache expiry come in.                           *)
THEOREM CanvasShowsLineage == Spec => []LineageOnScreen
<1>1. Init => ScreenInv
    BY DEF Init, ModelInit, ScreenInv, DrawerFollows
<1>2. ScreenInv /\ [Next]_vars => ScreenInv'
    BY ScreenStep
<1>3. ScreenInv => LineageOnScreen
    BY CanvasFromScreen DEF LineageOnScreen
<1> QED
    BY <1>1, <1>2, <1>3, PTL DEF Spec

-----------------------------------------------------------------------------
Slices == [product : Name \cup {"Other"}, balance : Nat]

LEMMA SliceFacts ==
    ASSUME NEW xs \in Seq(Slices)
    PROVE  /\ Len(xs) \in Nat
           /\ \A i \in 1..Len(xs) : xs[i] \in Slices /\ xs[i].balance \in Nat
<1>1. Len(xs) \in Nat
    BY LenProperties
<1>2. \A i \in 1..Len(xs) : xs[i] \in Slices
    BY ElementOfSeq
<1>3. \A x \in Slices : x.balance \in Nat
    BY DEF Slices
<1> QED
    BY <1>1, <1>2, <1>3

(* The running total behind Sum.                                           *)
IsTotal(g, xs) ==
    /\ g \in [0..Len(xs) -> Nat]
    /\ g[0] = 0
    /\ \A i \in 1..Len(xs) : g[i] = g[i - 1] + xs[i].balance

LEMMA SumIsTotal ==
    ASSUME NEW xs \in Seq(Slices)
    PROVE  \E g : IsTotal(g, xs) /\ Sum(xs, "balance") = g[Len(xs)]
<1>. DEFINE n == Len(xs)
            Eq(g) == g = [i \in 0..n |-> IF i = 0 THEN 0 ELSE g[i - 1] + xs[i]["balance"]]
            upTo == CHOOSE g : Eq(g)
            F == [i \in 1..n |-> [v \in Nat |-> v + xs[i]["balance"]]]
<1>1. n \in Nat /\ \A i \in 1..n : xs[i]["balance"] \in Nat /\ xs[i]["balance"] = xs[i].balance
    BY SliceFacts
<1>2. Sum(xs, "balance") = upTo[n]
    BY DEF Sum
<1>3. F \in [1..n -> [Nat -> Nat]]
    BY <1>1
<1>4. PICK g \in [0..n -> Nat] : g[0] = 0 /\ \A i \in 1..n : g[i] = F[i][g[i - 1]]
    <2>. DEFINE V == Nat
    <2>1. 0 \in V /\ n \in Nat /\ F \in [1..n -> [V -> V]]
        BY <1>1, <1>3
    <2>. HIDE DEF F, n, V
    <2>2. \E g \in [0..n -> V] : g[0] = 0 /\ \A i \in 1..n : g[i] = F[i][g[i - 1]]
        BY <2>1, Iterates, SMTT(60)
    <2>. USE DEF V
    <2> QED
        BY <2>2
<1>5. ASSUME NEW i \in 1..n PROVE F[i][g[i - 1]] = g[i - 1] + xs[i]["balance"]
    <2>1. g[i - 1] \in Nat
        BY <1>1
    <2> QED
        BY <1>1, <2>1
<1>. HIDE DEF F, n
<1>6. Eq(g)
    <2>1. \A i \in 0..n : i # 0 => i \in 1..n
        BY <1>1
    <2> QED
        BY <1>4, <1>5, <2>1
<1>7. Eq(upTo)
    BY <1>6
<1>. HIDE DEF upTo
<1>8. upTo[0] = 0 /\ \A i \in 1..n : upTo[i] = upTo[i - 1] + xs[i].balance
    BY <1>1, <1>7
<1>9. \A k \in Nat : k \in {m \in Nat : m <= n => upTo[m] \in Nat}
    <2>. DEFINE S == {m \in Nat : m <= n => upTo[m] \in Nat}
    <2>1. 0 \in S
        BY <1>8
    <2>2. ASSUME NEW m \in Nat, m \in S PROVE m + 1 \in S
        <3>1. SUFFICES ASSUME m + 1 <= n PROVE upTo[m + 1] \in Nat
            OBVIOUS
        <3>2. m + 1 \in 1..n /\ (m + 1) - 1 = m
            BY <1>1, <3>1
        <3>3. upTo[m] \in Nat
            BY <1>1, <2>2, <3>1
        <3>4. upTo[m + 1] = upTo[m] + xs[m + 1].balance
            BY <1>8, <3>2
        <3> QED
            BY <1>1, <3>2, <3>3, <3>4
    <2>. HIDE DEF S
    <2>3. Nat \subseteq S
        BY <2>1, <2>2, SetInduction
    <2> QED
        BY <2>3 DEF S
<1>10. upTo \in [0..n -> Nat]
    <2>1. DOMAIN upTo = 0..n /\ upTo = [i \in 0..n |-> upTo[i]]
        BY <1>7
    <2>2. \A i \in 0..n : upTo[i] \in Nat
        BY <1>1, <1>9
    <2> QED
        BY <2>1, <2>2
<1>11. IsTotal(upTo, xs)
    BY <1>8, <1>10 DEF IsTotal, n
<1> QED
    BY <1>2, <1>11 DEF n

(* Two sequences that run alike have totals that run alike.                *)
LEMMA TotalsOfWindow ==
    ASSUME NEW xs \in Seq(Slices), NEW ys \in Seq(Slices), NEW g, NEW h,
           IsTotal(g, xs), IsTotal(h, ys),
           NEW m \in Nat, NEW k \in Nat, k <= Len(ys), m + k <= Len(xs),
           \A i \in 1..k : ys[i].balance = xs[m + i].balance
    PROVE  h[k] = g[m + k] - g[m]
<1>. DEFINE S == {j \in Nat : j <= k => h[j] = g[m + j] - g[m]}
<1>1. Len(xs) \in Nat /\ Len(ys) \in Nat /\ \A i \in 0..Len(xs) : g[i] \in Nat
    BY SliceFacts DEF IsTotal
<1>2. 0 \in S
    BY <1>1 DEF IsTotal
<1>3. ASSUME NEW j \in Nat, j \in S PROVE j + 1 \in S
    <2>1. SUFFICES ASSUME j + 1 <= k PROVE h[j + 1] = g[m + (j + 1)] - g[m]
        OBVIOUS
    <2>2. h[j] = g[m + j] - g[m]
        BY <1>3, <2>1
    <2>3. /\ j + 1 \in 1..k /\ j + 1 \in 1..Len(ys) /\ m + (j + 1) \in 1..Len(xs)
          /\ (j + 1) - 1 = j /\ (m + (j + 1)) - 1 = m + j
          /\ m + j \in 0..Len(xs) /\ m \in 0..Len(xs)
        BY <1>1, <2>1
    <2>4. h[j + 1] = h[j] + ys[j + 1].balance
        BY <2>3 DEF IsTotal
    <2>5. g[m + (j + 1)] = g[m + j] + xs[m + (j + 1)].balance
        BY <2>3 DEF IsTotal
    <2>6. xs[m + (j + 1)].balance \in Nat /\ ys[j + 1].balance = xs[m + (j + 1)].balance
        BY <2>3, SliceFacts
    <2>7. g[m + j] \in Nat /\ g[m] \in Nat
        BY <1>1, <2>3
    <2>. DEFINE y == ys[j + 1].balance
                now == g[m + j]
                then == g[m + (j + 1)]
    <2>8. h[j + 1] = (now - g[m]) + y /\ then = now + y /\ y \in Nat
        BY <2>2, <2>4, <2>5, <2>6
    <2>. HIDE DEF y, now, then
    <2>9. h[j + 1] = then - g[m]
        BY <2>7, <2>8 DEF now
    <2> QED
        BY <2>9 DEF then
<1>. HIDE DEF S
<1>4. k \in S
    BY <1>2, <1>3, SetInduction
<1> QED
    BY <1>4 DEF S

LEMMA TotalsOfPrefix ==
    ASSUME NEW xs \in Seq(Slices), NEW ys \in Seq(Slices), NEW g, NEW h,
           IsTotal(g, xs), IsTotal(h, ys),
           NEW k \in Nat, k <= Len(ys), k <= Len(xs),
           \A i \in 1..k : ys[i].balance = xs[i].balance
    PROVE  h[k] = g[k]
<1>. DEFINE m == 0
<1>1. m \in Nat /\ \A i \in Nat : m + i = i
    OBVIOUS
<1>2. g[m] = 0 /\ \A i \in 0..Len(xs) : g[i] \in Nat
    BY DEF IsTotal
<1>. HIDE DEF m
<1>3. m + k <= Len(xs) /\ \A i \in 1..k : ys[i].balance = xs[m + i].balance
    BY <1>1
<1>4. h[k] = g[m + k] - g[m]
    BY <1>1, <1>3, TotalsOfWindow
<1>5. m + k = k
    BY <1>1
<1>6. g[k] \in Nat
    <2>1. k \in 0..Len(xs)
        BY SliceFacts
    <2> QED
        BY <1>2, <2>1
<1> QED
    BY <1>2, <1>4, <1>5, <1>6

(* The first of the largest is there and is as large as any.               *)
LEMMA TopIsLargest ==
    ASSUME NEW xs \in Seq(Slices), xs # <<>>
    PROVE  \E t \in 1..Len(xs) : /\ Top(xs, "balance") = xs[t]
                                 /\ \A j \in 1..Len(xs) : xs[j].balance <= xs[t].balance
<1>. DEFINE n == Len(xs)
            S == {k \in Nat : (1 <= k /\ k <= n) =>
                    \E t \in 1..k : \A j \in 1..k : xs[j].balance <= xs[t].balance}
            T == {i \in 1..n : \A j \in 1..n : xs[j]["balance"] <= xs[i]["balance"]}
<1>1. n \in Nat /\ n # 0 /\ \A i \in 1..n : xs[i].balance \in Nat
    BY EmptySeq, SliceFacts
<1>. HIDE DEF n
<1>2. 0 \in S
    OBVIOUS
<1>3. ASSUME NEW k \in Nat, k \in S PROVE k + 1 \in S
    <2>1. SUFFICES ASSUME k + 1 <= n
                   PROVE  \E t \in 1..(k + 1) : \A j \in 1..(k + 1) : xs[j].balance <= xs[t].balance
        OBVIOUS
    <2>2. \A j \in 1..(k + 1) : xs[j].balance \in Nat
        BY <1>1, <2>1
    <2>3. CASE k = 0
        <3>1. \A j \in 1..(k + 1) : j = 1
            BY <2>3
        <3>2. 1 \in 1..(k + 1)
            OBVIOUS
        <3>3. \A j \in 1..(k + 1) : xs[j].balance <= xs[1].balance
            BY <2>2, <3>1, <3>2
        <3> QED
            BY <3>2, <3>3
    <2>4. CASE k # 0
        <3>1. PICK t \in 1..k : \A j \in 1..k : xs[j].balance <= xs[t].balance
            BY <1>1, <1>3, <2>1, <2>4
        <3>2. CASE xs[k + 1].balance <= xs[t].balance
            <4>1. \A j \in 1..(k + 1) : xs[j].balance <= xs[t].balance
                BY <3>1, <3>2
            <4> QED
                BY <4>1
        <3>3. CASE ~(xs[k + 1].balance <= xs[t].balance)
            <4>1. k + 1 \in 1..(k + 1) /\ t \in 1..(k + 1)
                OBVIOUS
            <4>2. ASSUME NEW j \in 1..(k + 1) PROVE xs[j].balance <= xs[k + 1].balance
                <5>1. CASE j = k + 1
                    BY <2>2, <5>1
                <5>2. CASE j # k + 1
                    <6>1. j \in 1..k
                        BY <5>2
                    <6>2. xs[j].balance <= xs[t].balance
                        BY <3>1, <6>1
                    <6> QED
                        BY <2>2, <3>3, <4>1, <6>2
                <5> QED
                    BY <5>1, <5>2
            <4> QED
                BY <4>1, <4>2
        <3> QED
            BY <3>2, <3>3
    <2> QED
        BY <2>3, <2>4
<1>. HIDE DEF S
<1>4. n \in S
    BY <1>1, <1>2, <1>3, SetInduction
<1>5. T # {} /\ T \subseteq Nat
    BY <1>1, <1>4 DEF S
<1>6. Top(xs, "balance") = xs[Min(T)]
    BY DEF Top, n
<1>. HIDE DEF T
<1>7. Min(T) \in T
    BY <1>5, NatLeast DEF Min
<1> QED
    BY <1>6, <1>7 DEF T, n

-----------------------------------------------------------------------------
LEMMA SlicesComparable ==
    /\ Comparable(Slices, "balance")
    /\ \A x \in Slices : x["balance"] = x.balance
BY DEF Comparable, Slices

LEMMA SumOfNone == Sum(<<>>, "balance") = 0
<1>1. <<>> \in Seq(Slices) /\ Len(<<>>) = 0
    BY EmptySeq
<1>2. PICK h : IsTotal(h, <<>>) /\ Sum(<<>>, "balance") = h[0]
    BY <1>1, SumIsTotal
<1> QED
    BY <1>2 DEF IsTotal

LEMMA SumOfPlaced ==
    ASSUME NEW s \in Seq(Slices), NEW x \in Slices
    PROVE  Sum(Placed(s, x, "balance"), "balance") = Sum(s, "balance") + x.balance
<1>. DEFINE t == Placed(s, x, "balance")
            n == Len(s)
            q == Place(s, x, "balance")
<1>0. /\ t \in Seq(Slices) /\ Len(t) = n + 1 /\ q \in 1..(n + 1)
      /\ \A j \in 1..(n + 1) : t[j] = IF j < q THEN s[j] ELSE IF j = q THEN x ELSE s[j - 1]
    <2>. DEFINE E == Slices
                field == "balance"
    <2>1. Comparable(E, field) /\ s \in Seq(E) /\ x \in E
        BY SlicesComparable
    <2>. HIDE DEF E, field
    <2>2. /\ Placed(s, x, field) \in Seq(E)
          /\ Len(Placed(s, x, field)) = Len(s) + 1
          /\ Place(s, x, field) \in 1..(Len(s) + 1)
          /\ \A j \in 1..(Len(s) + 1) : Placed(s, x, field)[j] =
               IF j < Place(s, x, field) THEN s[j]
               ELSE IF j = Place(s, x, field) THEN x ELSE s[j - 1]
        BY <2>1, PlacedFacts
    <2> QED
        BY <2>2 DEF E, field
<1>. HIDE DEF q
<1>1. PICK p \in 1..(n + 1) :
        /\ t \in Seq(Slices) /\ Len(t) = n + 1
        /\ \A j \in 1..(n + 1) : t[j] = IF j < p THEN s[j] ELSE IF j = p THEN x ELSE s[j - 1]
    BY <1>0
<1>. HIDE DEF t
<1>2. PICK g : IsTotal(g, s) /\ Sum(s, "balance") = g[n]
    BY SumIsTotal
<1>3. PICK h : IsTotal(h, t) /\ Sum(t, "balance") = h[n + 1]
    BY <1>1, SumIsTotal
<1>4. /\ n \in Nat /\ x.balance \in Nat
      /\ \A i \in 1..n : s[i].balance \in Nat
      /\ \A i \in 0..n : g[i] \in Nat
      /\ g[0] = 0 /\ \A i \in 1..n : g[i] = g[i - 1] + s[i].balance
      /\ h[0] = 0 /\ \A i \in 1..(n + 1) : h[i] = h[i - 1] + t[i].balance
    BY <1>1, <1>2, <1>3, SliceFacts DEF IsTotal, Slices
<1>. HIDE DEF n
<1>. DEFINE S == {k \in Nat : k <= n + 1 =>
                   h[k] = IF k < p THEN g[k] ELSE g[k - 1] + x.balance}
<1>5. 0 \in S
    BY <1>4
<1>6. ASSUME NEW k \in Nat, k \in S PROVE k + 1 \in S
    <2>1. SUFFICES ASSUME k + 1 <= n + 1
                   PROVE  h[k + 1] = IF k + 1 < p THEN g[k + 1] ELSE g[(k + 1) - 1] + x.balance
        OBVIOUS
    <2>2. h[k] = IF k < p THEN g[k] ELSE g[k - 1] + x.balance
        BY <1>4, <1>6, <2>1
    <2>3. k + 1 \in 1..(n + 1) /\ (k + 1) - 1 = k /\ k \in 0..n
        BY <1>4, <2>1
    <2>4. h[k + 1] = h[k] + t[k + 1].balance
        BY <1>4, <2>3
    <2>5. t[k + 1] = IF k + 1 < p THEN s[k + 1] ELSE IF k + 1 = p THEN x ELSE s[k]
        BY <1>1, <2>3
    <2>6. CASE k + 1 < p
        <3>1. k + 1 \in 1..n
            BY <1>4, <2>6
        <3>2. g[k + 1] = g[k] + s[k + 1].balance
            BY <1>4, <2>3, <3>1
        <3> QED
            BY <2>2, <2>4, <2>5, <2>6, <3>2
    <2>7. CASE k + 1 = p
        BY <2>2, <2>3, <2>4, <2>5, <2>7
    <2>8. CASE k + 1 > p
        <3>1. k \in 1..n /\ k - 1 \in 0..n
            BY <1>4, <2>3, <2>8
        <3>2. g[k] = g[k - 1] + s[k].balance /\ g[k - 1] \in Nat /\ s[k].balance \in Nat
            BY <1>4, <3>1
        <3>3. h[k] = g[k - 1] + x.balance /\ t[k + 1] = s[k]
            BY <1>4, <2>2, <2>5, <2>8
        <3>4. h[k + 1] = g[k] + x.balance
            BY <1>4, <2>4, <3>2, <3>3
        <3> QED
            BY <2>3, <2>8, <3>4
    <2> QED
        BY <2>6, <2>7, <2>8
<1>. HIDE DEF S
<1>7. n + 1 \in S
    BY <1>4, <1>5, <1>6, SetInduction
<1>8. h[n + 1] = g[n] + x.balance
    BY <1>4, <1>7 DEF S
<1> QED
    BY <1>2, <1>3, <1>8 DEF t

LEMMA LargestFirstFacts ==
    ASSUME NEW xs \in Seq(Slices), NEW s, s = LargestFirst(xs, "balance")
    PROVE  /\ s \in Seq(Slices) /\ Len(s) = Len(xs)
           /\ Sum(s, "balance") = Sum(xs, "balance")
           /\ \A j \in 1..Len(s) : \E i \in 1..Len(xs) : s[j] = xs[i]
           /\ \A i \in 1..Len(xs) : xs[i].balance <= s[1].balance
<1>. DEFINE n == Len(xs)
<1>1. n \in Nat /\ \A i \in 1..n : xs[i] \in Slices /\ xs[i].balance \in Nat
    BY SliceFacts
<1>2. /\ s \in Seq(Slices) /\ Len(s) = n
      /\ \A j \in 1..n : \E i \in 1..n : s[j] = xs[i]
      /\ \A i \in 1..n : \E j \in 1..n : s[j] = xs[i]
      /\ Descends(s, "balance")
    <2>1. /\ s \in Seq(Slices) /\ Len(s) = Len(xs)
          /\ ToSet(s) = ToSet(xs)
          /\ Descends(s, "balance")
        BY SlicesComparable, LargestFirstSorts
    <2>2. DOMAIN s = 1..n /\ DOMAIN xs = 1..n
        BY <2>1, LenProperties
    <2> QED
        BY <2>1, <2>2 DEF ToSet
<1>3. ASSUME NEW i \in 1..n PROVE xs[i].balance <= s[1].balance
    <2>1. PICK j \in 1..n : s[j] = xs[i]
        BY <1>2
    <2>2. /\ 1 \in 1..n /\ s[1] \in Slices /\ s[j] \in Slices
          /\ s[1].balance \in Nat /\ s[j].balance \in Nat
        <3>1. 1 \in 1..n
            BY <1>1
        <3>2. \A m \in 1..n : s[m] \in Slices /\ s[m].balance \in Nat
            BY <1>2, SliceFacts
        <3> QED
            BY <3>1, <3>2
    <2>3. j # 1 => s[1]["balance"] >= s[j]["balance"]
        <3>1. 1 \in 1..n /\ j \in 1..n /\ (j # 1 => 1 < j) /\ Len(s) = n
            <4>1. n \in Nat /\ j \in 1..n /\ i \in 1..n /\ Len(s) = n
                BY <1>1, <1>2, <2>1
            <4>. HIDE DEF n
            <4> QED
                BY <4>1
        <3> QED
            BY <1>2, <3>1 DEF Descends
    <2>4. s[1]["balance"] = s[1].balance /\ s[j]["balance"] = s[j].balance
        BY <2>2, SlicesComparable
    <2> QED
        BY <2>1, <2>2, <2>3, <2>4
<1>4. PICK u : /\ u[0] = <<>>
               /\ \A i \in 1..n : u[i] = Placed(u[i - 1], xs[i], "balance")
               /\ s = u[n]
    BY SlicesComparable, SortSteps
<1>5. PICK g : IsTotal(g, xs) /\ Sum(xs, "balance") = g[n]
    BY SumIsTotal
<1>6. g[0] = 0 /\ \A i \in 1..n : g[i] = g[i - 1] + xs[i].balance
    BY <1>5 DEF IsTotal
<1>. HIDE DEF n
<1>. DEFINE S == {k \in Nat : k <= n => u[k] \in Seq(Slices) /\ Sum(u[k], "balance") = g[k]}
<1>7. 0 \in S
    BY <1>4, <1>6, EmptySeq, SumOfNone
<1>8. ASSUME NEW k \in Nat, k \in S PROVE k + 1 \in S
    <2>1. SUFFICES ASSUME k + 1 <= n
                   PROVE  u[k + 1] \in Seq(Slices) /\ Sum(u[k + 1], "balance") = g[k + 1]
        OBVIOUS
    <2>2. k + 1 \in 1..n /\ (k + 1) - 1 = k /\ k <= n
        BY <1>1, <2>1
    <2>3. u[k] \in Seq(Slices) /\ Sum(u[k], "balance") = g[k]
        BY <1>8, <2>2
    <2>4. /\ u[k + 1] = Placed(u[k], xs[k + 1], "balance") /\ xs[k + 1] \in Slices
          /\ g[k + 1] = g[k] + xs[k + 1].balance
        BY <1>1, <1>4, <1>6, <2>2
    <2>5. u[k + 1] \in Seq(Slices)
        <3>1. ASSUME NEW v \in Seq(Slices), NEW y \in Slices
              PROVE  Placed(v, y, "balance") \in Seq(Slices)
            BY SlicesComparable, PlacedFacts
        <3> QED
            BY <2>3, <2>4, <3>1
    <2>6. Sum(u[k + 1], "balance") = g[k + 1]
        BY <2>3, <2>4, SumOfPlaced
    <2> QED
        BY <2>5, <2>6
<1>. HIDE DEF S
<1>9. n \in S
    BY <1>1, <1>7, <1>8, SetInduction
<1>10. Sum(s, "balance") = Sum(xs, "balance")
    BY <1>1, <1>4, <1>5, <1>9 DEF S
<1> QED
    BY <1>2, <1>3, <1>10 DEF n

LEMMA LargestIsTop ==
    ASSUME NEW xs \in Seq(Slices), xs # <<>>, NEW t \in 1..Len(xs),
           \A i \in 1..Len(xs) : xs[i].balance <= xs[t].balance
    PROVE  Top(xs, "balance").balance = xs[t].balance
<1>1. PICK m \in 1..Len(xs) : /\ Top(xs, "balance") = xs[m]
                              /\ \A j \in 1..Len(xs) : xs[j].balance <= xs[m].balance
    BY TopIsLargest
<1>2. xs[m].balance <= xs[t].balance /\ xs[t].balance <= xs[m].balance
    BY <1>1
<1> QED
    BY <1>1, <1>2, SliceFacts

LEMMA SumIsNat ==
    ASSUME NEW xs \in Seq(Slices)
    PROVE  Sum(xs, "balance") \in Nat
<1>1. PICK h : IsTotal(h, xs) /\ Sum(xs, "balance") = h[Len(xs)]
    BY SumIsTotal
<1> QED
    BY <1>1, SliceFacts DEF IsTotal

LEMMA TopWithOtherFacts ==
    ASSUME NEW mix \in Seq(Slices), mix # <<>>, NEW T, T = topWithOther(mix)
    PROVE  /\ T \in Seq(Slices) /\ T # <<>>
           /\ Sum(T, "balance") = Sum(mix, "balance")
           /\ T[1].balance = Top(mix, "balance").balance
           /\ \A i \in 1..Len(T) :
                T[i].product = "Other" \/ T[i].balance <= Top(mix, "balance").balance
<1>. DEFINE s == LargestFirst(mix, "balance")
            n == Len(s)
            tail == SubSeq(s, 4, n)
            rest == Sum(tail, "balance")
            q == Min({3, n})
            first == SubSeq(s, 1, q)
            other == [product |-> "Other", balance |-> rest]
            peak == Top(mix, "balance").balance
<1>1. /\ s \in Seq(Slices) /\ n = Len(mix)
      /\ Sum(s, "balance") = Sum(mix, "balance")
      /\ \A j \in 1..n : \E i \in 1..Len(mix) : s[j] = mix[i]
      /\ \A i \in 1..Len(mix) : mix[i].balance <= s[1].balance
    BY LargestFirstFacts
<1>2. T = first \o Optional(rest > 0, other)
    BY DEF topWithOther
<1>. HIDE DEF s
<1>3. n \in Nat \ {0}
    BY <1>1, EmptySeq
<1>4. q = IF n < 3 THEN n ELSE 3
    <2>1. 3 <= n \/ n <= 3
        BY <1>3
    <2> QED
        BY <1>3, <2>1 DEF Min
<1>5. s[1].balance = peak
    <2>1. PICK i \in 1..Len(mix) : s[1] = mix[i]
        BY <1>1, <1>3
    <2> QED
        BY <1>1, <2>1, LargestIsTop
<1>6. \A j \in 1..n : s[j].balance <= peak
    BY <1>1, <1>5
<1>. HIDE DEF n, q, peak
<1>7. /\ first \in Seq(Slices) /\ Len(first) = q
      /\ \A j \in 1..q : first[j] = s[j]
    BY <1>1, <1>3, <1>4 DEF n
<1>8. PICK g : IsTotal(g, s) /\ Sum(s, "balance") = g[n]
    BY <1>1, SumIsTotal DEF n
<1>9. /\ \A i \in 0..n : g[i] \in Nat
      /\ g[0] = 0
    BY <1>8 DEF IsTotal, n
<1>10. tail \in Seq(Slices) /\ rest = g[n] - g[q]
    <2>1. CASE n <= 3
        <3>1. tail = <<>> /\ q = n
            <4>1. n \in Int /\ 4 \in Int /\ 4 > n
                BY <1>3, <2>1
            <4>2. tail = <<>>
                BY <4>1, SubSeqEmpty
            <4>3. q = n
                BY <1>3, <1>4, <2>1
            <4> QED
                BY <4>2, <4>3
        <3>2. rest = 0
            BY <3>1, SumOfNone
        <3>3. g[n] \in Nat /\ g[q] = g[n]
            BY <1>3, <1>9, <3>1
        <3>4. tail \in Seq(Slices)
            BY <3>1, EmptySeq
        <3>. HIDE DEF rest, tail
        <3> QED
            BY <3>2, <3>3, <3>4
    <2>2. CASE ~(n <= 3)
        <3>1. q = 3 /\ n - 3 \in Nat /\ 3 + (n - 3) <= n
            BY <1>3, <1>4, <2>2
        <3>2. /\ tail \in Seq(Slices) /\ Len(tail) = n - 3
              /\ \A i \in 1..(n - 3) : tail[i] = s[3 + i]
            BY <1>1, <1>3, <2>2 DEF n
        <3>. HIDE DEF tail
        <3>3. PICK h : IsTotal(h, tail) /\ Sum(tail, "balance") = h[n - 3]
            BY <3>2, SumIsTotal
        <3>4. h[n - 3] = g[3 + (n - 3)] - g[3]
            <4>. DEFINE m == 3
                        k == n - 3
            <4>1. /\ m \in Nat /\ k \in Nat /\ m + k <= Len(s) /\ k <= Len(tail)
                  /\ \A i \in 1..k : tail[i].balance = s[m + i].balance
                BY <3>1, <3>2 DEF n
            <4>. HIDE DEF m, k
            <4>2. s \in Seq(Slices) /\ tail \in Seq(Slices) /\ IsTotal(g, s) /\ IsTotal(h, tail)
                BY <1>1, <1>8, <3>2, <3>3
            <4>3. h[k] = g[m + k] - g[m]
                BY <4>1, <4>2, TotalsOfWindow
            <4> QED
                BY <4>3 DEF m, k
        <3>5. 3 + (n - 3) = n
            BY <1>3
        <3> QED
            BY <3>1, <3>2, <3>3, <3>4, <3>5
    <2> QED
        BY <2>1, <2>2
<1>11. rest \in Nat
    BY <1>10, SumIsNat
<1>. HIDE DEF first, rest
<1>12. q \in 1..n /\ q \in Nat
    BY <1>3, <1>4
<1>13. CASE ~(rest > 0)
    <2>1. T = first
        BY <1>2, <1>7, <1>13, ConcatEmptySeq DEF Optional
    <2>2. rest = 0 /\ g[n] = g[q]
        BY <1>3, <1>9, <1>10, <1>11, <1>12, <1>13
    <2>3. PICK h : IsTotal(h, first) /\ Sum(first, "balance") = h[q]
        BY <1>7, SumIsTotal
    <2>4. h[q] = g[q]
        <3>1. q <= Len(first) /\ q <= Len(s) /\ \A i \in 1..q : first[i].balance = s[i].balance
            BY <1>3, <1>7, <1>12 DEF n
        <3> QED
            BY <1>1, <1>7, <1>8, <1>12, <2>3, <3>1, TotalsOfPrefix
    <2>5. Sum(T, "balance") = Sum(mix, "balance")
        BY <1>1, <1>3, <1>8, <1>9, <1>12, <2>1, <2>2, <2>3, <2>4
    <2>6. T[1].balance = peak /\ \A i \in 1..Len(T) : T[i].balance <= peak
        BY <1>3, <1>5, <1>6, <1>7, <1>12, <2>1
    <2>7. T \in Seq(Slices) /\ T # <<>>
        BY <1>7, <1>12, <2>1, EmptySeq
    <2> QED
        BY <2>5, <2>6, <2>7 DEF peak
<1>14. CASE rest > 0
    <2>1. T = first \o <<other>>
        BY <1>2, <1>14 DEF Optional
    <2>2. other \in Slices /\ other.balance = rest /\ other.product = "Other"
        <3>1. "Other" \in Name \cup {"Other"}
            OBVIOUS
        <3>2. other \in Slices
            BY <1>11, <3>1 DEF Slices
        <3> QED
            BY <3>2
    <2>. HIDE DEF other
    <2>3. /\ T \in Seq(Slices) /\ Len(T) = q + 1
          /\ \A j \in 1..(q + 1) : T[j] = IF j <= q THEN first[j] ELSE other
        BY <1>7, <1>12, <2>1, <2>2
    <2>4. PICK h : IsTotal(h, T) /\ Sum(T, "balance") = h[q + 1]
        BY <2>3, SumIsTotal
    <2>5. h[q] = g[q]
        <3>1. q <= Len(T) /\ q <= Len(s)
            BY <1>3, <1>12, <2>3 DEF n
        <3>2. \A i \in 1..q : T[i].balance = s[i].balance
            BY <1>7, <1>12, <2>3
        <3>3. s \in Seq(Slices) /\ T \in Seq(Slices) /\ IsTotal(g, s) /\ IsTotal(h, T)
            BY <1>1, <1>8, <2>3, <2>4
        <3> QED
            BY <1>12, <3>1, <3>2, <3>3, TotalsOfPrefix
    <2>6. h[q + 1] = h[q] + rest
        <3>1. q + 1 \in 1..Len(T) /\ (q + 1) - 1 = q
            BY <1>12, <2>3
        <3>2. T[q + 1] = other
            BY <1>12, <2>3
        <3> QED
            BY <2>2, <2>4, <3>1, <3>2 DEF IsTotal
    <2>7. h[q + 1] = g[n]
        BY <1>3, <1>9, <1>10, <1>12, <2>5, <2>6
    <2>8. T[1].balance = peak
        BY <1>3, <1>5, <1>7, <1>12, <2>3
    <2>9. ASSUME NEW i \in 1..Len(T) PROVE T[i].product = "Other" \/ T[i].balance <= peak
        <3>1. CASE i <= q
            <4>1. i \in 1..q
                BY <1>12, <2>3, <3>1
            <4>2. i \in 1..n /\ i \in 1..(q + 1)
                BY <1>3, <1>12, <4>1
            <4>3. T[i] = s[i]
                BY <1>7, <2>3, <3>1, <4>1, <4>2
            <4> QED
                BY <1>6, <4>2, <4>3
        <3>2. CASE ~(i <= q)
            BY <2>2, <2>3, <3>2
        <3> QED
            BY <3>1, <3>2
    <2>10. T # <<>>
        BY <1>12, <2>3, EmptySeq
    <2> QED
        BY <1>1, <1>8, <2>3, <2>4, <2>7, <2>8, <2>9, <2>10 DEF peak
<1> QED
    BY <1>13, <1>14

LEMMA TopWithOtherOfNone == topWithOther(<<>>) = <<>>
<1>. DEFINE s == LargestFirst(<<>>, "balance")
<1>1. <<>> \in Seq(Slices) /\ Len(<<>>) = 0
    BY EmptySeq
<1>2. s \in Seq(Slices) /\ Len(s) = 0
    BY <1>1, LargestFirstFacts
<1>3. topWithOther(<<>>) = SubSeq(s, 1, Min({3, Len(s)}))
        \o Optional(Sum(SubSeq(s, 4, Len(s)), "balance") > 0,
                    [product |-> "Other", balance |-> Sum(SubSeq(s, 4, Len(s)), "balance")])
    BY DEF topWithOther
<1>. HIDE DEF s
<1>4. Min({3, Len(s)}) = 0
    BY <1>2 DEF Min
<1>5. SubSeq(s, 1, 0) = <<>> /\ SubSeq(s, 4, Len(s)) = <<>>
    BY <1>2, SubSeqEmpty
<1>6. topWithOther(<<>>) = <<>> \o Optional(0 > 0, [product |-> "Other", balance |-> 0])
    BY <1>3, <1>4, <1>5, SumOfNone
<1> QED
    BY <1>1, <1>6, ConcatEmptySeq DEF Optional

-----------------------------------------------------------------------------
Tones == {"success", "info", "warn"}
Labels == {"Strength", "Steady", "Watch", "Risk", "Margin", "Growth", "Concentration", "Mix",
           "Spread", "Top relationship", "Late-stage", "Watchlist", "Top exposure"}
Callouts == [tone : Tones, label : Labels]

LEMMA CalloutFacts ==
    /\ \A t \in Tones, l \in Labels : Callout(t, l) \in Callouts
    /\ \A t, l, t2, l2 : Callout(t, l) = Callout(t2, l2) <=> t = t2 /\ l = l2
<1>1. \A t \in Tones, l \in Labels : Callout(t, l) \in Callouts
    BY DEF Callout, Callouts
<1>2. ASSUME NEW t, NEW l PROVE Callout(t, l).tone = t /\ Callout(t, l).label = l
    BY DEF Callout
<1> QED
    BY <1>1, <1>2

(* A row of callouts, and what it shows.                                   *)
IsRow(row, most, shows) ==
    /\ row \in Seq(Callouts) /\ Len(row) <= most
    /\ \A c : c \in ToSet(row) <=> c \in shows

LEMMA OptionalRow ==
    ASSUME NEW condition, NEW c \in Callouts
    PROVE  IsRow(Optional(condition, c), 1, IF condition THEN {c} ELSE {})
<1>1. CASE condition
    <2>1. /\ <<c>> \in Seq(Callouts) /\ Len(<<c>>) = 1 /\ DOMAIN <<c>> = {1} /\ <<c>>[1] = c
        OBVIOUS
    <2> QED
        BY <1>1, <2>1 DEF IsRow, Optional, ToSet
<1>2. CASE ~condition
    <2>1. <<>> \in Seq(Callouts) /\ Len(<<>>) = 0 /\ DOMAIN <<>> = {}
        OBVIOUS
    <2> QED
        BY <1>2, <2>1 DEF IsRow, Optional, ToSet
<1> QED
    BY <1>1, <1>2

LEMMA JoinRows ==
    ASSUME NEW a, NEW b, NEW m \in Nat, NEW n \in Nat, NEW as, NEW bs,
           IsRow(a, m, as), IsRow(b, n, bs)
    PROVE  IsRow(a \o b, m + n, as \cup bs)
<1>1. /\ a \in Seq(Callouts) /\ b \in Seq(Callouts)
      /\ Len(a) \in Nat /\ Len(b) \in Nat /\ Len(a) <= m /\ Len(b) <= n
      /\ DOMAIN a = 1..Len(a) /\ DOMAIN b = 1..Len(b)
    BY LenProperties DEF IsRow
<1>2. /\ a \o b \in Seq(Callouts) /\ Len(a \o b) = Len(a) + Len(b)
      /\ \A i \in 1..(Len(a) + Len(b)) :
           (a \o b)[i] = IF i <= Len(a) THEN a[i] ELSE b[i - Len(a)]
    BY <1>1, ConcatProperties
<1>3. DOMAIN (a \o b) = 1..(Len(a) + Len(b))
    BY <1>2, LenProperties
<1>4. ASSUME NEW c \in ToSet(a \o b) PROVE c \in as \cup bs
    <2>1. PICK i \in 1..(Len(a) + Len(b)) : c = (a \o b)[i]
        BY <1>3 DEF ToSet
    <2>2. CASE i <= Len(a)
        <3>1. i \in 1..Len(a) /\ c = a[i]
            BY <1>1, <1>2, <2>1, <2>2
        <3>2. c \in ToSet(a)
            BY <1>1, <3>1 DEF ToSet
        <3> QED
            BY <3>2 DEF IsRow
    <2>3. CASE ~(i <= Len(a))
        <3>1. i - Len(a) \in 1..Len(b) /\ c = b[i - Len(a)]
            BY <1>1, <1>2, <2>1, <2>3
        <3>2. c \in ToSet(b)
            BY <1>1, <3>1 DEF ToSet
        <3> QED
            BY <3>2 DEF IsRow
    <2> QED
        BY <2>2, <2>3
<1>5. ASSUME NEW c \in as PROVE c \in ToSet(a \o b)
    <2>1. PICK i \in 1..Len(a) : c = a[i]
        <3>1. c \in ToSet(a)
            BY DEF IsRow
        <3> QED
            BY <1>1, <3>1 DEF ToSet
    <2>2. i \in 1..(Len(a) + Len(b)) /\ (a \o b)[i] = c
        BY <1>1, <1>2, <2>1
    <2> QED
        BY <1>3, <2>2 DEF ToSet
<1>6. ASSUME NEW c \in bs PROVE c \in ToSet(a \o b)
    <2>1. PICK i \in 1..Len(b) : c = b[i]
        <3>1. c \in ToSet(b)
            BY DEF IsRow
        <3> QED
            BY <1>1, <3>1 DEF ToSet
    <2>2. /\ Len(a) + i \in 1..(Len(a) + Len(b)) /\ ~(Len(a) + i <= Len(a))
          /\ (Len(a) + i) - Len(a) = i
        BY <1>1
    <2>3. (a \o b)[Len(a) + i] = c
        BY <1>2, <2>1, <2>2
    <2> QED
        BY <1>3, <2>2, <2>3 DEF ToSet
<1>7. Len(a \o b) <= m + n
    BY <1>1, <1>2
<1> QED
    BY <1>2, <1>4, <1>5, <1>6, <1>7 DEF IsRow

LEMMA NothingIsCut ==
    ASSUME NEW row, NEW shows, IsRow(row, 3, shows),
           NEW page, page.headline = Headline(row)
    PROVE  /\ WarningIsShown(page)
           /\ \A tone, label : Shows(page, label, tone) <=> Callout(tone, label) \in shows
<1>1. row \in Seq(Callouts) /\ Len(row) \in Nat /\ Len(row) <= 3
    BY LenProperties DEF IsRow
<1>2. Min({3, Len(row)}) = Len(row)
    BY <1>1 DEF Min
<1>3. SubSeq(row, 1, Len(row)) = row
    BY <1>1, SubSeqFull
<1>4. page.headline.callouts = row /\ page.headline.tone = overallTone(row)
    BY <1>2, <1>3 DEF Headline
<1>5. WarningIsShown(page)
    BY <1>4 DEF WarningIsShown, overallTone
<1>6. ASSUME NEW tone, NEW label
      PROVE  Shows(page, label, tone) <=> Callout(tone, label) \in shows
    BY <1>4 DEF Shows, IsRow
<1> QED
    BY <1>5, <1>6

Heavy(xs, percent) ==
    /\ Sum(xs, "balance") > 0
    /\ ShareAbove(Top(xs, "balance").balance, Sum(xs, "balance"), percent)

LEMMA ConcentrationRow ==
    ASSUME NEW xs, NEW percent, NEW spread \in Labels \ {"Concentration"}
    PROVE  \E shows : /\ IsRow(Concentration(xs, percent, spread), 1, shows)
                      /\ Callout("warn", "Concentration") \in shows <=> Heavy(xs, percent)
                      /\ \A t \in Tones, l \in Labels \ {"Concentration", spread} :
                            Callout(t, l) \notin shows
<1>. DEFINE total == Sum(xs, "balance")
            heavy == ShareAbove(Top(xs, "balance").balance, total, percent)
            c == IF heavy THEN Callout("warn", "Concentration") ELSE Callout("info", spread)
            shows == IF total > 0 THEN {c} ELSE {}
<1>1. Concentration(xs, percent, spread) = Optional(total > 0, c)
    BY DEF Concentration
<1>2. Heavy(xs, percent) <=> total > 0 /\ heavy
    BY DEF Heavy
<1>. HIDE DEF heavy, total
<1>3. c \in Callouts
    BY CalloutFacts DEF Tones, Labels
<1>. DEFINE more == total > 0
<1>4. IsRow(Optional(more, c), 1, IF more THEN {c} ELSE {})
    <2>. HIDE DEF more, c
    <2> QED
        BY <1>3, OptionalRow
<1>5. Callout("warn", "Concentration") = c <=> heavy
    BY CalloutFacts
<1>6. \A t \in Tones, l \in Labels \ {"Concentration", spread} : Callout(t, l) # c
    BY CalloutFacts
<1>. HIDE DEF c
<1> QED
    BY <1>1, <1>2, <1>4, <1>5, <1>6

Only(condition, tone, label) == IF condition THEN {Callout(tone, label)} ELSE {}

LEMMA LabelRow ==
    ASSUME NEW condition, NEW tone \in Tones, NEW label \in Labels
    PROVE  IsRow(Optional(condition, Callout(tone, label)), 1, Only(condition, tone, label))
<1>1. Callout(tone, label) \in Callouts
    BY CalloutFacts
<1> QED
    BY <1>1, OptionalRow DEF Only

LEMMA OnlyFacts ==
    ASSUME NEW condition, NEW tone, NEW label
    PROVE  \A t, l : Callout(t, l) \in Only(condition, tone, label)
                       <=> (condition /\ t = tone /\ l = label)
BY CalloutFacts DEF Only

LEMMA LargestRow ==
    ASSUME NEW rows, NEW label \in Labels
    PROVE  \E shows : /\ IsRow(Largest(rows, label), 1, shows)
                      /\ \A t, l : Callout(t, l) \in shows => l = label
<1>. DEFINE tone == IF rows[1].share > 500 THEN "warn" ELSE "info"
            some == rows # <<>>
<1>1. Largest(rows, label) = Optional(some, Callout(tone, label))
    BY DEF Largest
<1>2. tone \in Tones
    BY DEF Tones
<1>. DEFINE shows == Only(some, tone, label)
<1>. HIDE DEF tone, some
<1>3. IsRow(Optional(some, Callout(tone, label)), 1, shows)
    BY <1>2, LabelRow
<1>4. \A t, l : Callout(t, l) \in shows => l = label
    BY OnlyFacts
<1>. HIDE DEF shows
<1> QED
    BY <1>1, <1>3, <1>4

LEMMA BalancesAreSlices ==
    ASSUME NEW xs, Balances(xs)
    PROVE  xs \in Seq(Slices)
<1>1. [product : Name, balance : Nat] \subseteq Slices
    BY DEF Slices
<1> QED
    BY <1>1, SeqMonotonic DEF Balances

-----------------------------------------------------------------------------
LEMMA PastDueStrip ==
    ASSUME NEW d, Body("past-due", d)
    PROVE  \E shows :
             /\ \E row : IsRow(row, 3, shows) /\ pastDueHeadline(d) = Headline(row)
             /\ Callout("warn", "Concentration") \in shows <=> Heavy(d.officers, 40)
             /\ Callout("warn", "Late-stage") \in shows
                  => d.buckets # <<>> /\ NinetyHeavy(Last(d.buckets))
<1>. DEFINE load == Concentration(d.officers, 40, "Spread")
            lateTone == IF NinetyHeavy(Last(d.buckets)) THEN "warn" ELSE "info"
            some == d.buckets # <<>>
            late == Optional(some, Callout(lateTone, "Late-stage"))
            watchTone == IF d.watchDelta > 0 THEN "warn" ELSE "success"
            moved == d.watchDelta # 0
            watch == Optional(moved, Callout(watchTone, "Watchlist"))
<1>1. pastDueHeadline(d) = Headline((load \o late) \o watch)
    BY DEF pastDueHeadline
<1>2. /\ lateTone \in Tones /\ watchTone \in Tones
      /\ lateTone = "warn" => NinetyHeavy(Last(d.buckets))
    BY DEF Tones
<1>3. /\ "Late-stage" \in Labels /\ "Watchlist" \in Labels
      /\ "Spread" \in Labels \ {"Concentration"} /\ "warn" \in Tones
      /\ "Late-stage" \notin {"Concentration", "Spread"}
    BY DEF Labels, Tones
<1>4. PICK loads : /\ IsRow(load, 1, loads)
                   /\ Callout("warn", "Concentration") \in loads <=> Heavy(d.officers, 40)
                   /\ \A t \in Tones, l \in Labels \ {"Concentration", "Spread"} :
                         Callout(t, l) \notin loads
    BY <1>3, ConcentrationRow
<1>. HIDE DEF lateTone, watchTone, moved, some
<1>. DEFINE lates == Only(some, lateTone, "Late-stage")
            watches == Only(moved, watchTone, "Watchlist")
<1>5. /\ IsRow(late, 1, lates)
      /\ \A t, l : Callout(t, l) \in lates <=> (some /\ t = lateTone /\ l = "Late-stage")
    <2>1. IsRow(late, 1, lates)
        BY <1>2, <1>3, LabelRow
    <2> QED
        BY <2>1, OnlyFacts
<1>6. /\ IsRow(watch, 1, watches)
      /\ \A t, l : Callout(t, l) \in watches <=> (moved /\ t = watchTone /\ l = "Watchlist")
    <2>1. IsRow(watch, 1, watches)
        BY <1>2, <1>3, LabelRow
    <2> QED
        BY <2>1, OnlyFacts
<1>. HIDE DEF lates, watches
<1>. HIDE DEF load, late, watch
<1>7. IsRow((load \o late) \o watch, 3, (loads \cup lates) \cup watches)
    <2>1. IsRow(load \o late, 1 + 1, loads \cup lates)
        BY <1>4, <1>5, JoinRows
    <2>2. IsRow(load \o late, 2, loads \cup lates)
        BY <2>1
    <2>3. IsRow((load \o late) \o watch, 2 + 1, (loads \cup lates) \cup watches)
        BY <1>6, <2>2, JoinRows
    <2> QED
        BY <2>3
<1>8. Callout("warn", "Concentration") \notin lates \cup watches
    BY <1>5, <1>6
<1>9. Callout("warn", "Late-stage") \notin loads \cup watches
    BY <1>3, <1>4, <1>6
<1>10. Callout("warn", "Late-stage") \in lates => d.buckets # <<>> /\ NinetyHeavy(Last(d.buckets))
    BY <1>2, <1>5 DEF some
<1> QED
    BY <1>1, <1>4, <1>7, <1>8, <1>9, <1>10

LEMMA OfficerLoadWarns ==
    ASSUME NEW xs \in Seq(Slices)
    PROVE  officerLoadInsight(xs).tone = "warn" <=> Heavy(xs, 40)
<1>. DEFINE total == Sum(xs, "balance")
            top == Top(xs, "balance").balance
<1>1. total \in Nat /\ (xs = <<>> => total = 0)
    BY SumIsNat, SumOfNone
<1>2. officerLoadInsight(xs) =
        IF xs = <<>> THEN NEUTRAL
        ELSE IF total = 0 THEN NEUTRAL
        ELSE Card(IF ShareAbove(top, total, 40) THEN "warn"
                  ELSE IF ShareAbove(top, total, 25) THEN "info" ELSE "neutral",
                  <<"carries">> \o Optional(ShareAbove(top, total, 40), "concentration"))
    BY DEF officerLoadInsight
<1>3. NEUTRAL.tone = "neutral" /\ \A tone, bullets : Card(tone, bullets).tone = tone
    BY DEF NEUTRAL, Card
<1>4. Heavy(xs, 40) <=> total > 0 /\ ShareAbove(top, total, 40)
    BY DEF Heavy
<1>. HIDE DEF total, top
<1>5. CASE total = 0
    BY <1>2, <1>3, <1>4, <1>5
<1>6. CASE total # 0
    <2>1. xs # <<>> /\ total > 0
        BY <1>1, <1>6
    <2> QED
        BY <1>2, <1>3, <1>4, <1>6, <2>1
<1> QED
    BY <1>5, <1>6

LEMMA LatenessWarns ==
    ASSUME NEW buckets, NinetyHeavy(Last(buckets)), pastDueTrendInsight(buckets).bullets # <<>>
    PROVE  pastDueTrendInsight(buckets).tone = "warn"
<1>. DEFINE n == Len(buckets)
            last == BucketTotal(buckets[n])
            prev == BucketTotal(buckets[n - 1])
            rose == (last - prev) * 100 > 5 * prev
            fell == (prev - last) * 100 > 5 * prev
            moved == IF rose THEN "rose" ELSE IF fell THEN "fell" ELSE "flat"
            ninety == NinetyHeavy(buckets[n])
<1>1. pastDueTrendInsight(buckets) =
        IF n < 2 THEN NEUTRAL
        ELSE IF prev = 0 THEN NEUTRAL
        ELSE Card(IF rose \/ ninety THEN "warn" ELSE IF fell THEN "success" ELSE "info",
                  <<moved>> \o Optional(ninety, "90+ dominates"))
    BY DEF pastDueTrendInsight
<1>2. NEUTRAL.bullets = <<>> /\ \A tone, bullets : Card(tone, bullets).tone = tone
    BY DEF NEUTRAL, Card
<1>3. ninety
    BY DEF Last
<1>. HIDE DEF last, prev, rose, fell, moved, ninety
<1> QED
    BY <1>1, <1>2, <1>3

LEMMA PastDueHolds ==
    ASSUME NEW d, Body("past-due", d)
    PROVE  PastDueAccounted(d) /\ WarningIsShown(PastDuePage(d))
<1>. DEFINE page == PastDuePage(d)
<1>1. /\ page.headline = pastDueHeadline(d)
      /\ page.officers = officerLoadInsight(d.officers)
      /\ page.lateness = pastDueTrendInsight(d.buckets)
    BY DEF PastDuePage
<1>. HIDE DEF page
<1>2. PICK shows :
        /\ \E row : IsRow(row, 3, shows) /\ pastDueHeadline(d) = Headline(row)
        /\ Callout("warn", "Concentration") \in shows <=> Heavy(d.officers, 40)
        /\ Callout("warn", "Late-stage") \in shows
             => d.buckets # <<>> /\ NinetyHeavy(Last(d.buckets))
    BY PastDueStrip
<1>3. /\ WarningIsShown(page)
      /\ \A tone, label : Shows(page, label, tone) <=> Callout(tone, label) \in shows
    BY <1>1, <1>2, NothingIsCut
<1>4. page.officers.tone = "warn" <=> Heavy(d.officers, 40)
    BY <1>1, BalancesAreSlices, OfficerLoadWarns DEF Body
<1>5. Shows(page, "Concentration", "warn") <=> page.officers.tone = "warn"
    BY <1>2, <1>3, <1>4
<1>6. Shows(page, "Late-stage", "warn") /\ page.lateness.bullets # <<>>
        => page.lateness.tone = "warn"
    BY <1>1, <1>2, <1>3, LatenessWarns
<1> QED
    BY <1>3, <1>5, <1>6 DEF PastDueAccounted, page

-----------------------------------------------------------------------------
LEMMA ThreeRows ==
    ASSUME NEW a, NEW b, NEW c, NEW as, NEW bs, NEW cs,
           IsRow(a, 1, as), IsRow(b, 1, bs), IsRow(c, 1, cs)
    PROVE  IsRow((a \o b) \o c, 3, (as \cup bs) \cup cs)
<1>1. IsRow(a \o b, 1 + 1, as \cup bs)
    BY JoinRows
<1>2. IsRow(a \o b, 2, as \cup bs)
    BY <1>1
<1>3. IsRow((a \o b) \o c, 2 + 1, (as \cup bs) \cup cs)
    BY <1>2, JoinRows
<1> QED
    BY <1>3

LEMMA OfficerBranchHolds ==
    ASSUME NEW d, Body("officer-branch", d)
    PROVE  OfficerBranchAccounted(d) /\ WarningIsShown(OfficerBranchPage(d))
<1>. DEFINE page == OfficerBranchPage(d)
            mix == Concentration(d.mix, 50, "Mix")
            some == Len(d.watch) >= 2
            tone == DriftTone(Drift(d.watch))
            watch == Optional(some, Callout(tone, "Watchlist"))
            watches == Only(some, tone, "Watchlist")
            top == Largest(d.borrowers, "Top exposure")
<1>1. /\ page.headline = Headline((mix \o watch) \o top)
      /\ page.watchlist = IF d.watch = <<>> THEN NEUTRAL ELSE watchlistTrendInsight(d.watch)
    BY DEF OfficerBranchPage, officerBranchHeadline
<1>2. /\ tone \in Tones /\ "Watchlist" \in Labels /\ "Top exposure" \in Labels
      /\ "Mix" \in Labels \ {"Concentration"}
    BY DEF DriftTone, Tones, Labels
<1>3. some => page.watchlist.tone = tone
    <2>1. some => d.watch # <<>> /\ ~(Len(d.watch) < 2)
        BY LenProperties, EmptySeq DEF Body
    <2>. DEFINE bullets == <<"under watch">> \o Optional(Drift(d.watch) # 0, "drift")
    <2>2. watchlistTrendInsight(d.watch) = IF Len(d.watch) < 2 THEN NEUTRAL ELSE Card(tone, bullets)
        BY DEF watchlistTrendInsight
    <2>. HIDE DEF page, some, tone, bullets
    <2>3. some => page.watchlist = Card(tone, bullets)
        BY <1>1, <2>1, <2>2
    <2>4. Card(tone, bullets).tone = tone
        BY DEF Card
    <2> QED
        BY <2>3, <2>4
<1>. HIDE DEF page, some, tone
<1>4. PICK mixes : IsRow(mix, 1, mixes)
    BY <1>2, ConcentrationRow
<1>5. PICK tops : IsRow(top, 1, tops)
    BY <1>2, LargestRow
<1>6. IsRow(watch, 1, watches)
    BY <1>2, LabelRow
<1>7. some => Callout(tone, "Watchlist") \in watches
    BY OnlyFacts
<1>. HIDE DEF mix, watch, watches, top
<1>8. IsRow((mix \o watch) \o top, 3, (mixes \cup watches) \cup tops)
    BY <1>4, <1>5, <1>6, ThreeRows
<1>9. /\ WarningIsShown(page)
      /\ \A t, label : Shows(page, label, t)
                         <=> Callout(t, label) \in (mixes \cup watches) \cup tops
    BY <1>1, <1>8, NothingIsCut
<1>10. some => Shows(page, "Watchlist", page.watchlist.tone)
    BY <1>3, <1>7, <1>9
<1> QED
    BY <1>9, <1>10 DEF OfficerBranchAccounted, page, some

LEMMA MixWarns ==
    ASSUME NEW xs \in Seq(Slices)
    PROVE  depositMixInsight(xs).tone = "warn" <=> Heavy(xs, 50)
<1>. DEFINE total == Sum(xs, "balance")
            heavy == ShareAbove(Top(xs, "balance").balance, total, 50)
            bullets == <<"largest">> \o Optional(heavy, "concentration risk")
                       \o Optional(~heavy /\ Len(xs) >= 3, "top 3")
<1>1. total \in Nat /\ (xs = <<>> => total = 0)
    BY SumIsNat, SumOfNone
<1>2. depositMixInsight(xs) =
        IF xs = <<>> THEN NEUTRAL
        ELSE IF total = 0 THEN NEUTRAL
        ELSE Card(IF heavy THEN "warn" ELSE "info", bullets)
    BY DEF depositMixInsight
<1>3. NEUTRAL.tone = "neutral" /\ \A tone, bs : Card(tone, bs).tone = tone
    BY DEF NEUTRAL, Card
<1>4. Heavy(xs, 50) <=> total > 0 /\ heavy
    BY DEF Heavy
<1>. HIDE DEF total, heavy, bullets
<1>5. CASE total = 0
    BY <1>2, <1>3, <1>4, <1>5
<1>6. CASE total # 0
    <2>1. xs # <<>> /\ total > 0
        BY <1>1, <1>6
    <2> QED
        BY <1>2, <1>3, <1>4, <1>6, <2>1
<1> QED
    BY <1>5, <1>6

LEMMA HeavySurvivesOther ==
    ASSUME NEW mix \in Seq(Slices)
    PROVE  /\ Heavy(mix, 50) => Heavy(topWithOther(mix), 50)
           /\ Heavy(topWithOther(mix), 50) /\ Top(topWithOther(mix), "balance").product # "Other"
                => Heavy(mix, 50)
<1>. DEFINE T == topWithOther(mix)
            total == Sum(mix, "balance")
            peak == Top(mix, "balance").balance
<1>1. CASE mix = <<>>
    <2>1. T = <<>>
        BY <1>1, TopWithOtherOfNone
    <2>. HIDE DEF T
    <2>2. Sum(mix, "balance") = 0 /\ Sum(T, "balance") = 0
        BY <1>1, <2>1, SumOfNone
    <2> QED
        BY <2>2 DEF Heavy, T
<1>2. CASE mix # <<>>
    <2>1. /\ T \in Seq(Slices) /\ T # <<>>
          /\ Sum(T, "balance") = total
          /\ T[1].balance = peak
          /\ \A i \in 1..Len(T) : T[i].product = "Other" \/ T[i].balance <= peak
        BY <1>2, TopWithOtherFacts
    <2>. HIDE DEF T
    <2>2. PICK m \in 1..Len(T) : /\ Top(T, "balance") = T[m]
                                 /\ \A j \in 1..Len(T) : T[j].balance <= T[m].balance
        BY <2>1, TopIsLargest
    <2>3. 1 \in 1..Len(T)
        BY <2>1, EmptySeq
    <2>4. total \in Nat /\ peak \in Nat /\ T[m].balance \in Nat
        <3>1. PICK k \in 1..Len(mix) : Top(mix, "balance") = mix[k]
            BY <1>2, TopIsLargest
        <3> QED
            BY <2>1, <3>1, SumIsNat, SliceFacts
    <2>5. peak <= T[m].balance
        BY <2>1, <2>2, <2>3
    <2>. HIDE DEF total, peak
    <2>6. Heavy(mix, 50) <=> total > 0 /\ peak * 100 > 50 * total
        BY DEF Heavy, ShareAbove, total, peak
    <2>7. Heavy(T, 50) <=> total > 0 /\ T[m].balance * 100 > 50 * total
        BY <2>1, <2>2 DEF Heavy, ShareAbove
    <2>8. Heavy(mix, 50) => Heavy(T, 50)
        BY <2>4, <2>5, <2>6, <2>7
    <2>9. Heavy(T, 50) /\ Top(T, "balance").product # "Other" => Heavy(mix, 50)
        BY <2>1, <2>2, <2>4, <2>6, <2>7
    <2> QED
        BY <2>8, <2>9 DEF T
<1> QED
    BY <1>1, <1>2

LEMMA NetRow ==
    ASSUME NEW net \in Int
    PROVE  \E shows :
             /\ IsRow(Optional(net > 0, Callout("success", "Growth"))
                      \o Optional(net < 0, Callout("warn", "Watch")), 1, shows)
             /\ Callout("warn", "Concentration") \notin shows
<1>. DEFINE up == Callout("success", "Growth")
            down == Callout("warn", "Watch")
<1>1. up \in Callouts /\ down \in Callouts
    BY CalloutFacts DEF Tones, Labels
<1>2. Callout("warn", "Concentration") # up /\ Callout("warn", "Concentration") # down
    BY CalloutFacts
<1>. HIDE DEF up, down
<1>3. <<up>> \in Seq(Callouts) /\ <<down>> \in Seq(Callouts) /\ <<>> \in Seq(Callouts)
    BY <1>1
<1>4. CASE net > 0
    <2>1. Optional(net > 0, up) \o Optional(net < 0, down) = <<up>>
        <3>1. ~(net < 0)
            BY <1>4
        <3>2. Optional(net > 0, up) = <<up>> /\ Optional(net < 0, down) = <<>>
            BY <1>4, <3>1 DEF Optional
        <3> QED
            BY <1>3, <3>2, ConcatEmptySeq
    <2>2. IsRow(Optional(TRUE, up), 1, {up})
        BY <1>1, OptionalRow
    <2>3. Optional(TRUE, up) = <<up>>
        BY DEF Optional
    <2>4. IsRow(<<up>>, 1, {up}) /\ Callout("warn", "Concentration") \notin {up}
        BY <1>2, <2>2, <2>3
    <2>5. IsRow(Optional(net > 0, up) \o Optional(net < 0, down), 1, {up})
        BY <2>1, <2>4
    <2> QED
        BY <2>4, <2>5 DEF up, down
<1>5. CASE ~(net > 0)
    <2>1. Optional(net > 0, up) \o Optional(net < 0, down) = Optional(net < 0, down)
        BY <1>3, <1>5, ConcatEmptySeq DEF Optional
    <2>. DEFINE less == net < 0
    <2>2. IsRow(Optional(less, down), 1, IF less THEN {down} ELSE {})
        <3>. HIDE DEF less
        <3> QED
            BY <1>1, OptionalRow
    <2>3. Callout("warn", "Concentration") \notin (IF less THEN {down} ELSE {})
        BY <1>2
    <2> QED
        BY <2>1, <2>2, <2>3 DEF up, down
<1> QED
    BY <1>4, <1>5

LEMMA DepositsHolds ==
    ASSUME NEW d, Body("deposits", d)
    PROVE  DepositsAccounted(d) /\ WarningIsShown(DepositsPage(d))
<1>. DEFINE page == DepositsPage(d)
            net == d.opened - d.closed
            flow == Optional(net > 0, Callout("success", "Growth"))
                    \o Optional(net < 0, Callout("warn", "Watch"))
            mix == Concentration(d.mix, 50, "Mix")
            top == Largest(d.top25, "Top relationship")
<1>1. /\ page.headline = Headline((flow \o mix) \o top)
      /\ page.mix = depositMixInsight(topWithOther(d.mix))
      /\ page.largest = IF d.mix = <<>> THEN "none"
                        ELSE Top(topWithOther(d.mix), "balance").product
    BY DEF DepositsPage, depositsHeadline
<1>2. net \in Int /\ d.mix \in Seq(Slices)
    BY BalancesAreSlices DEF Body
<1>3. /\ "Top relationship" \in Labels /\ "Mix" \in Labels \ {"Concentration"}
      /\ "Concentration" # "Top relationship"
    BY DEF Labels
<1>. HIDE DEF page, net
<1>4. PICK flows : IsRow(flow, 1, flows) /\ Callout("warn", "Concentration") \notin flows
    BY <1>2, NetRow
<1>5. PICK mixes : /\ IsRow(mix, 1, mixes)
                   /\ Callout("warn", "Concentration") \in mixes <=> Heavy(d.mix, 50)
    BY <1>3, ConcentrationRow
<1>6. PICK tops : /\ IsRow(top, 1, tops)
                  /\ \A t, l : Callout(t, l) \in tops => l = "Top relationship"
    BY <1>3, LargestRow
<1>. HIDE DEF flow, mix, top
<1>7. IsRow((flow \o mix) \o top, 3, (flows \cup mixes) \cup tops)
    BY <1>4, <1>5, <1>6, ThreeRows
<1>8. /\ WarningIsShown(page)
      /\ \A t, label : Shows(page, label, t)
                         <=> Callout(t, label) \in (flows \cup mixes) \cup tops
    BY <1>1, <1>7, NothingIsCut
<1>9. Shows(page, "Concentration", "warn") <=> Heavy(d.mix, 50)
    BY <1>3, <1>4, <1>5, <1>6, <1>8
<1>10. topWithOther(d.mix) \in Seq(Slices)
    <2>1. CASE d.mix = <<>>
        BY <2>1, TopWithOtherOfNone, EmptySeq
    <2>2. CASE d.mix # <<>>
        BY <1>2, <2>2, TopWithOtherFacts
    <2> QED
        BY <2>1, <2>2
<1>11. page.mix.tone = "warn" <=> Heavy(topWithOther(d.mix), 50)
    BY <1>1, <1>10, MixWarns
<1>12. /\ Heavy(d.mix, 50) => Heavy(topWithOther(d.mix), 50)
       /\ Heavy(topWithOther(d.mix), 50)
            /\ Top(topWithOther(d.mix), "balance").product # "Other" => Heavy(d.mix, 50)
    BY <1>2, HeavySurvivesOther
<1>13. Heavy(topWithOther(d.mix), 50) => d.mix # <<>>
    <2>1. d.mix = <<>> => Sum(topWithOther(d.mix), "balance") = 0
        BY TopWithOtherOfNone, SumOfNone
    <2> QED
        BY <2>1 DEF Heavy
<1>14. page.mix.tone = "warn" /\ ~Heavy(d.mix, 50) => page.largest = "Other"
    BY <1>1, <1>11, <1>12, <1>13
<1> QED
    BY <1>8, <1>9, <1>11, <1>12, <1>14 DEF DepositsAccounted, page

LEMMA RowOfThree ==
    ASSUME NEW a \in Callouts, NEW b \in Callouts, NEW c \in Callouts
    PROVE  IsRow(<<a, b, c>>, 3, {a, b, c})
<1>1. /\ <<a, b, c>> \in Seq(Callouts) /\ Len(<<a, b, c>>) = 3
      /\ DOMAIN <<a, b, c>> = 1..3
      /\ <<a, b, c>>[1] = a /\ <<a, b, c>>[2] = b /\ <<a, b, c>>[3] = c
    OBVIOUS
<1>2. 1..3 = {1, 2, 3}
    OBVIOUS
<1> QED
    BY <1>1, <1>2 DEF IsRow, ToSet

LEMMA OneDecimalFacts ==
    ASSUME NEW ratio \in Nat
    PROVE  /\ OneDecimal(ratio) < 150 => ratio < 150
           /\ OneDecimal(ratio) >= 150 => ratio >= 145
           /\ OneDecimal(ratio) >= 250 => ratio > 150
<1>. DEFINE k == (ratio + 5) \div 10
<1>1. k \in Int /\ 10 * k <= ratio + 5 /\ ratio + 5 < 10 * k + 10
    OBVIOUS
<1>2. OneDecimal(ratio) = k * 10
    BY DEF OneDecimal
<1>. HIDE DEF k
<1> QED
    BY <1>1, <1>2

LEMMA ExecutiveStrip ==
    ASSUME NEW d, Body("executive", d)
    PROVE  \E shows :
             /\ \E row : IsRow(row, 3, shows) /\ executiveHeadline(d) = Headline(row)
             /\ Callout("warn", "Watch") \in shows <=> d.ratio > 150 \/ Rose(d)
             /\ Callout("warn", "Margin") \in shows <=> d.spread < 200
<1>. DEFINE n == Len(d.trend)
            prior == IF n >= 2 THEN d.trend[n - 1].ratio ELSE d.ratio
            grew == d.loanGrowth > 0 \/ d.depositGrowth > 0
            worse == d.ratio > 150 \/ d.ratio - prior > 10
            a == IF grew THEN Callout("success", "Strength") ELSE Callout("info", "Steady")
            b == IF worse THEN Callout("warn", "Watch") ELSE Callout("success", "Risk")
            c == Callout(IF d.spread < 200 THEN "warn" ELSE "info", "Margin")
<1>1. executiveHeadline(d) = Headline(<<a, b, c>>)
    BY DEF executiveHeadline
<1>2. worse <=> d.ratio > 150 \/ Rose(d)
    <2>1. d.ratio \in Nat
        BY DEF Body
    <2> QED
        BY <2>1 DEF Rose
<1>. HIDE DEF grew, worse
<1>3. a \in Callouts /\ b \in Callouts /\ c \in Callouts
    BY CalloutFacts DEF Tones, Labels
<1>4. /\ b = Callout("warn", "Watch") <=> d.ratio > 150 \/ Rose(d)
      /\ Callout("warn", "Watch") # a /\ Callout("warn", "Watch") # c
    BY <1>2, CalloutFacts
<1>5. Callout("warn", "Margin") # a /\ Callout("warn", "Margin") # b
    BY CalloutFacts
<1>6. Callout("warn", "Margin") = c <=> d.spread < 200
    BY CalloutFacts
<1>. HIDE DEF a, b, c
<1>7. IsRow(<<a, b, c>>, 3, {a, b, c})
    BY <1>3, RowOfThree
<1> QED
    BY <1>1, <1>4, <1>5, <1>6, <1>7

LEMMA MarginWarns ==
    ASSUME NEW trend, Len(trend) \in Nat, Len(trend) >= 3
    PROVE  loanRateSpreadInsight(trend).tone = "warn" <=> trend[Len(trend)].spread < 200
<1>. DEFINE n == Len(trend)
            before == SubSeq(trend, Max({1, n - 3}), n - 1)
            off == trend[n].spread * Len(before) - Sum(before, "spread")
            above == off > 5 * Len(before)
            thin == trend[n].spread < 200
            bullets == <<"margin">> \o Optional(thin, "thin")
<1>1. loanRateSpreadInsight(trend) =
        IF n < 3 THEN NEUTRAL
        ELSE Card(IF thin THEN "warn" ELSE IF above THEN "success" ELSE "info", bullets)
    BY DEF loanRateSpreadInsight
<1>2. \A tone, bs : Card(tone, bs).tone = tone
    BY DEF Card
<1>3. ~(n < 3)
    OBVIOUS
<1>. HIDE DEF n, above, thin, bullets
<1>4. loanRateSpreadInsight(trend).tone = "warn" <=> thin
    BY <1>1, <1>2, <1>3
<1> QED
    BY <1>4 DEF thin, n

LEMMA RatioTones ==
    ASSUME NEW ratios, Len(ratios) \in Nat, NEW tone, tone = ratioTrendInsight(ratios).tone
    PROVE  /\ tone = "success" => Len(ratios) >= 2 /\ Last(ratios) < 150
           /\ tone = "info" => Len(ratios) >= 2 /\ ~(Last(ratios) < 150)
           /\ tone = "warn" => Len(ratios) >= 2 /\ ~(Last(ratios) < 250)
<1>. DEFINE short == Len(ratios) < 2
            last == Last(ratios)
            low == last < 150
            middling == last < 250
            moved == last - Head(ratios)
            bullets == <<"latest">> \o Optional(moved >= 10 \/ moved <= -10, "trending")
<1>1. ratioTrendInsight(ratios) =
        IF short THEN NEUTRAL
        ELSE Card(IF low THEN "success" ELSE IF middling THEN "info" ELSE "warn", bullets)
    BY DEF ratioTrendInsight
<1>2. NEUTRAL.tone = "neutral" /\ \A t, bs : Card(t, bs).tone = t
    BY DEF NEUTRAL, Card
<1>. HIDE DEF short, low, middling, bullets
<1>3. /\ short => tone = "neutral"
      /\ ~short => tone = IF low THEN "success" ELSE IF middling THEN "info" ELSE "warn"
    BY <1>1, <1>2
<1>4. /\ tone = "success" => ~short /\ low
      /\ tone = "info" => ~short /\ ~low
      /\ tone = "warn" => ~short /\ ~middling
    BY <1>3
<1> QED
    BY <1>4 DEF short, low, middling

LEMMA ExecutiveHolds ==
    ASSUME NEW d, Body("executive", d)
    PROVE  ExecutiveAccounted(d) /\ WarningIsShown(ExecutivePage(d))
<1>. DEFINE page == ExecutivePage(d)
            n == Len(d.trend)
            ratios == [i \in 1..n |-> OneDecimal(d.trend[i].ratio)]
            tone == ratioTrendInsight(ratios).tone
<1>1. /\ page.headline = executiveHeadline(d)
      /\ page.margin = loanRateSpreadInsight(d.trend)
      /\ page.ratio = ratioTrendInsight(ratios)
      /\ page.tiles.risk.pastDue =
           IF d.ratio < 150 THEN "within" ELSE IF d.ratio < 250 THEN "above" ELSE "elevated"
    BY DEF ExecutivePage, riskTiles
<1>. HIDE DEF page
<1>2. PICK shows :
        /\ \E row : IsRow(row, 3, shows) /\ executiveHeadline(d) = Headline(row)
        /\ Callout("warn", "Watch") \in shows <=> d.ratio > 150 \/ Rose(d)
        /\ Callout("warn", "Margin") \in shows <=> d.spread < 200
    BY ExecutiveStrip
<1>3. /\ WarningIsShown(page)
      /\ \A t, label : Shows(page, label, t) <=> Callout(t, label) \in shows
    BY <1>1, <1>2, NothingIsCut
<1>4. d.ratio \in Nat /\ d.spread \in Int /\ n \in Nat /\ Len(ratios) = n
    <2>1. d.ratio \in Nat /\ d.spread \in Int /\ d.trend \in Seq([ratio : Nat, spread : Int])
        BY DEF Body
    <2>2. n \in Nat
        BY <2>1, LenProperties
    <2>3. DOMAIN ratios = 1..n
        OBVIOUS
    <2>. HIDE DEF n, ratios
    <2>4. Len(ratios) = n
        BY <2>2, <2>3
    <2> QED
        BY <2>1, <2>2, <2>4
<1>5. n >= 1 /\ OneMonth(d) => d.trend[n].ratio = d.ratio /\ d.trend[n].spread = d.spread
    <2>1. n >= 1 => d.trend # <<>>
        BY <1>4, EmptySeq
    <2>2. OneMonth(d) /\ d.trend # <<>> => d.trend[n] = [ratio |-> d.ratio, spread |-> d.spread]
        BY DEF OneMonth, Last
    <2>. HIDE DEF n
    <2> QED
        BY <2>1, <2>2
<1>6. n >= 2 /\ OneMonth(d) => Last(ratios) = OneDecimal(d.ratio)
    BY <1>4, <1>5 DEF Last
<1>7. /\ tone = "success" => n >= 2 /\ Last(ratios) < 150
      /\ tone = "info" => n >= 2 /\ ~(Last(ratios) < 150)
      /\ tone = "warn" => n >= 2 /\ ~(Last(ratios) < 250)
    BY <1>4, RatioTones
<1>8. page.ratio.tone = tone
    BY <1>1
<1>9. ~OneMonth(d) => d.ratio = 0 /\ ~Rose(d)
    <2>1. ASSUME ~OneMonth(d), Rose(d) PROVE FALSE
        <3>1. d.ratio = 0 /\ d.trend \in Seq([ratio : Nat, spread : Int])
            BY <2>1 DEF Body
        <3>2. Len(d.trend) >= 2 /\ d.ratio - d.trend[Len(d.trend) - 1].ratio > 10
            BY <2>1 DEF Rose
        <3>3. d.trend[Len(d.trend) - 1].ratio \in Nat
            <4>1. Len(d.trend) - 1 \in 1..Len(d.trend)
                BY <1>4, <3>2 DEF n
            <4>2. d.trend[Len(d.trend) - 1] \in [ratio : Nat, spread : Int]
                BY <3>1, <4>1, ElementOfSeq
            <4> QED
                BY <4>2
        <3>4. \A r \in Nat : ~ (0 - r > 10)
            OBVIOUS
        <3> QED
            BY <3>1, <3>2, <3>3, <3>4
    <2> QED
        BY <2>1 DEF Body
<1>10. OneDecimal(d.ratio) \in Int
    BY <1>4 DEF OneDecimal
<1>. DEFINE watch == Shows(page, "Watch", "warn")
            tile == page.tiles.risk.pastDue
<1>11. watch <=> d.ratio > 150 \/ Rose(d)
    BY <1>2, <1>3
<1>12. /\ tile = "within" => d.ratio < 150
       /\ tile # "within" => ~(d.ratio < 150)
    BY <1>1
<1>13. n >= 3 /\ OneMonth(d) => (page.margin.tone = "warn" <=> d.spread < 200)
    BY <1>1, <1>4, <1>5, MarginWarns DEF n
<1>14. n >= 3 /\ ~(page.margin.tone = "warn" <=> Shows(page, "Margin", "warn")) => ~OneMonth(d)
    BY <1>2, <1>3, <1>13
<1>. HIDE DEF n, ratios, tone, watch, tile
<1>15. watch /\ (tile = "within" \/ tone = "success") => Rose(d) /\ d.ratio < 150
    <2>1. CASE ~OneMonth(d)
        BY <1>9, <1>11, <2>1
    <2>2. CASE OneMonth(d)
        BY <1>4, <1>6, <1>7, <1>10, <1>11, <1>12, <2>2, OneDecimalFacts
    <2> QED
        BY <2>1, <2>2
<1>16. ~watch /\ tile # "within" => d.ratio = 150
    BY <1>4, <1>11, <1>12
<1>17. ~watch /\ tone = "info" => d.ratio \in 145..150 \/ ~OneMonth(d)
    BY <1>4, <1>6, <1>7, <1>10, <1>11, OneDecimalFacts
<1>18. ~watch /\ tone = "warn" => ~OneMonth(d)
    BY <1>4, <1>6, <1>7, <1>10, <1>11, OneDecimalFacts
<1> QED
    BY <1>3, <1>8, <1>14, <1>15, <1>16, <1>17, <1>18
       DEF ExecutiveAccounted, page, n, watch, tile

LEMMA AlwaysAccounted ==
    ASSUME NEW surface \in DOMAIN Payload
    PROVE  AccountedOn[surface]
<1>1. ASSUME NEW d \in Payload[surface] PROVE Accounted(surface, d)
    <2>1. Body(surface, d)
        BY PayloadAssumption
    <2> QED
        BY <2>1, ExecutiveHolds, DepositsHolds, PastDueHolds, OfficerBranchHolds DEF Accounted
<1> QED
    BY <1>1 DEF AccountedOn

(* Whatever the API answers, however many products, officers and months it *)
(* names, and for a month without rows too: where the strip on top, the    *)
(* cards under the charts and the tiles contradict each other, it is for   *)
(* one of the named causes, and no warning falls behind the cut.           *)
THEOREM ConflictsHaveKnownCauses == Spec => []ConflictsAccounted
<1>1. ConflictsAccounted
    BY AlwaysAccounted DEF ConflictsAccounted
<1> QED
    BY <1>1, PTL
-----------------------------------------------------------------------------
Types == {"membership", "kyc", "application", "card", "complaint", "call", "dispute", "fraud",
          "furnishing", "delinquency", "letter", "payment", "transaction", "fee", "message",
          "email"}
Touchpoints == [date : Int, type : Types, words : SUBSET Word]

LEMMA DayIsInt == \A ymd \in Int : Day(ymd) \in Int
<1> SUFFICES ASSUME NEW ymd \in Int PROVE Day(ymd) \in Int
    OBVIOUS
<1>. DEFINE m == (ymd \div 100) % 100
            late == (14 - m) \div 12
            y == ymd \div 10000 - late
<1>1. m \in Int
    OBVIOUS
<1>. HIDE DEF m
<1>2. late \in Int
    BY <1>1
<1>. HIDE DEF late
<1>3. y \in Int
    BY <1>2
<1>. HIDE DEF y
<1>4. ((ymd % 100) + (153 * (m + 12 * late - 3) + 2) \div 5
        + 365 * y + y \div 4 - y \div 100 + y \div 400) \in Int
    BY <1>1, <1>2, <1>3
<1>5. Day(ymd) = (ymd % 100) + (153 * (m + 12 * late - 3) + 2) \div 5
        + 365 * y + y \div 4 - y \div 100 + y \div 400
    BY DEF Day, m, late, y
<1> QED
    BY <1>4, <1>5

LEMMA EventFacts ==
    /\ \A ymd \in Int, type \in Types, words \in SUBSET Word : Event(ymd, type, words) \in Touchpoints
    /\ \A ymd \in Int, type \in Types : Plain(ymd, type) \in Touchpoints
    /\ \A ymd \in Int : Opened(ymd) \in Touchpoints
<1>1. \A ymd \in Int, type \in Types, words \in SUBSET Word : Event(ymd, type, words) \in Touchpoints
    BY DayIsInt DEF Event, Touchpoints
<1>2. "dispute" \in Types /\ {"dispute"} \in SUBSET Word /\ {} \in SUBSET Word
    BY DEF Types, Word
<1> QED
    BY <1>1, <1>2 DEF Plain, Opened

LEMMA TypeFacts ==
    /\ "membership" \in Types /\ "kyc" \in Types /\ "application" \in Types /\ "card" \in Types
    /\ "complaint" \in Types /\ "call" \in Types /\ "dispute" \in Types /\ "fraud" \in Types
    /\ "furnishing" \in Types /\ "delinquency" \in Types /\ "letter" \in Types
    /\ "payment" \in Types /\ "transaction" \in Types /\ "fee" \in Types
    /\ "message" \in Types /\ "email" \in Types
    /\ {} \in SUBSET Word /\ {"card"} \in SUBSET Word /\ {"dispute"} \in SUBSET Word
    /\ {"card", "dispute"} \in SUBSET Word /\ {"statement"} \in SUBSET Word
    /\ {"dispute", "statement"} \in SUBSET Word
BY DEF Types, Word

Recorded(sig) == sig \in Seq(Touchpoints) /\ sig # <<>>

LEMMA AllRecorded == \A m : Recorded(SIGNATURES(m))
<1>1. Recorded(M100558)
    BY SMTT(60), EventFacts, TypeFacts DEF M100558, Recorded
<1>2. Recorded(M100620)
    BY SMTT(60), EventFacts, TypeFacts DEF M100620, Recorded
<1>3. Recorded(M100410)
    BY SMTT(60), EventFacts, TypeFacts DEF M100410, Recorded
<1>4. Recorded(M100482)
    BY SMTT(60), EventFacts, TypeFacts DEF M100482, Recorded
<1>5. Recorded(M100731)
    BY SMTT(60), EventFacts, TypeFacts DEF M100731, Recorded
<1>6. Recorded(M100904)
    BY SMTT(60), EventFacts, TypeFacts DEF M100904, Recorded
<1>7. Recorded(M100827)
    BY SMTT(60), EventFacts, TypeFacts DEF M100827, Recorded
<1>8. Recorded(FALLBACK)
    BY SMTT(60), EventFacts, TypeFacts DEF FALLBACK, Recorded
<1> QED
    BY SMTT(30), <1>1, <1>2, <1>3, <1>4, <1>5, <1>6, <1>7, <1>8 DEF SIGNATURES

LEMMA PatternFacts ==
    /\ Len(FILLER_PATTERNS) = 10
    /\ \A k \in 1..10 : FILLER_PATTERNS[k][1] \in Types /\ FILLER_PATTERNS[k][2] \in SUBSET Word
<1>1. Len(FILLER_PATTERNS) = 10
    BY DEF FILLER_PATTERNS
<1>2. ASSUME NEW k \in 1..10
      PROVE  FILLER_PATTERNS[k][1] \in Types /\ FILLER_PATTERNS[k][2] \in SUBSET Word
    <2>1. k \in {1, 2, 3, 4, 5, 6, 7, 8, 9, 10}
        OBVIOUS
    <2> QED
        BY SMTT(30), <2>1, TypeFacts DEF FILLER_PATTERNS
<1> QED
    BY <1>1, <1>2

LEMMA FillerFacts ==
    ASSUME NEW m \in DOMAIN Offset, NEW joined \in Int
    PROVE  generateFiller(m, joined) \in Seq(Touchpoints)
<1>. DEFINE span == Max({TIMELINE_END - joined, 0})
            pattern(i) == FILLER_PATTERNS[((i + Offset[m]) % Len(FILLER_PATTERNS)) + 1]
            point(n) == [date |-> joined + ((2 * n - 1) * span) \div (2 * FILLER_COUNT),
                         type |-> pattern(n - 1)[1], words |-> pattern(n - 1)[2]]
<1>1. TIMELINE_END \in Int
    BY DayIsInt DEF TIMELINE_END
<1>2. span \in Int
    <2>. DEFINE x == TIMELINE_END - joined
    <2>1. x \in Int
        BY <1>1
    <2>. HIDE DEF x
    <2>2. Max({x, 0}) \in Int
        <3>1. x >= 0 \/ 0 >= x
            BY <2>1
        <3> QED
            BY <2>1, <3>1 DEF Max
    <2> QED
        BY <2>2 DEF x
<1>3. ASSUME NEW n \in 1..FILLER_COUNT PROVE point(n) \in Touchpoints
    <2>. DEFINE p == (2 * n - 1) * span
                k == ((n - 1 + Offset[m]) % Len(FILLER_PATTERNS)) + 1
    <2>1. FILLER_COUNT = 22 /\ n \in Int /\ 2 * n - 1 \in Int
        BY DEF FILLER_COUNT
    <2>. HIDE DEF span
    <2>2. p \in Int
        BY <1>2, <2>1
    <2>3. k \in 1..10
        <3>1. n - 1 + Offset[m] \in Nat
            BY <2>1, OffsetAssumption
        <3>. DEFINE z == n - 1 + Offset[m]
        <3>. HIDE DEF z
        <3>2. (z % 10) + 1 \in 1..10
            BY <3>1 DEF z
        <3> QED
            BY <3>2, PatternFacts DEF z
    <2>. HIDE DEF p, k
    <2>4. joined + p \div (2 * FILLER_COUNT) \in Int
        BY <2>1, <2>2
    <2>5. FILLER_PATTERNS[k][1] \in Types /\ FILLER_PATTERNS[k][2] \in SUBSET Word
        BY <2>3, PatternFacts
    <2>6. point(n) = [date |-> joined + p \div (2 * FILLER_COUNT),
                      type |-> FILLER_PATTERNS[k][1], words |-> FILLER_PATTERNS[k][2]]
        BY DEF p, k
    <2>. HIDE DEF point
    <2> QED
        BY <2>4, <2>5, <2>6 DEF Touchpoints
<1>4. generateFiller(m, joined) = [n \in 1..FILLER_COUNT |-> point(n)]
    BY DEF generateFiller
<1>. HIDE DEF point
<1>5. FILLER_COUNT \in Nat
    BY DEF FILLER_COUNT
<1> QED
    BY <1>3, <1>4, <1>5

LEMMA JourneyRuns ==
    ASSUME NEW m \in DOMAIN Offset
    PROVE  /\ buildJourney(m) \in Seq(Touchpoints)
           /\ Descends(buildJourney(m), "date")
<1>. DEFINE sig == SIGNATURES(m)
            all == sig \o generateFiller(m, sig[1].date)
<1>1. sig \in Seq(Touchpoints) /\ sig # <<>>
    BY AllRecorded DEF Recorded
<1>2. buildJourney(m) = LargestFirst(all, "date")
    BY DEF buildJourney
<1>. HIDE DEF sig
<1>3. sig[1].date \in Int
    <2>1. 1 \in 1..Len(sig)
        BY <1>1, EmptySeq, LenProperties
    <2>2. sig[1] \in Touchpoints
        BY <1>1, <2>1, ElementOfSeq
    <2> QED
        BY <2>2 DEF Touchpoints
<1>4. all \in Seq(Touchpoints)
    BY <1>1, <1>3, FillerFacts, ConcatProperties
<1>5. Comparable(Touchpoints, "date")
    BY DEF Comparable, Touchpoints
<1>. HIDE DEF all
<1> QED
    BY <1>2, <1>4, <1>5, LargestFirstSorts

-----------------------------------------------------------------------------
(* The runs of a filter over a list.                                       *)
Kept(u, list, f) ==
    /\ u[0] = <<>>
    /\ \A i \in 1..Len(list) :
         u[i] = IF Passes(list[i], f) THEN Append(u[i - 1], list[i]) ELSE u[i - 1]

LEMMA FilterSteps ==
    ASSUME NEW E, NEW list \in Seq(E), NEW f
    PROVE  \E u : Kept(u, list, f) /\ filterTouchpoints(list, f) = u[Len(list)]
<1>. DEFINE n == Len(list)
            Step(v, i) == IF Passes(list[i], f) THEN Append(v, list[i]) ELSE v
            Eq(u) == u = [i \in 0..n |-> IF i = 0 THEN <<>>
                                         ELSE IF Passes(list[i], f) THEN Append(u[i - 1], list[i])
                                         ELSE u[i - 1]]
            upTo == CHOOSE u : Eq(u)
            V == Seq(E)
            run == [i \in 1..n |-> [v \in V |-> Step(v, i)]]
<1>1. n \in Nat /\ \A i \in 1..n : list[i] \in E
    BY LenProperties, ElementOfSeq
<1>2. filterTouchpoints(list, f) = upTo[n]
    BY DEF filterTouchpoints
<1>3. <<>> \in V /\ run \in [1..n -> [V -> V]]
    <2>1. <<>> \in V
        BY EmptySeq
    <2>2. \A i \in 1..n : \A v \in V : Step(v, i) \in V
        BY <1>1, AppendProperties
    <2>. HIDE DEF V, n, Step
    <2> QED
        BY <2>1, <2>2
<1>4. PICK u \in [0..n -> V] : u[0] = <<>> /\ \A i \in 1..n : u[i] = run[i][u[i - 1]]
    <2>1. n \in Nat
        BY <1>1
    <2>. HIDE DEF run, n, V, Step, Eq, upTo
    <2>2. ASSUME NEW b \in V
          PROVE  \E u \in [0..n -> V] : u[0] = b /\ \A i \in 1..n : u[i] = run[i][u[i - 1]]
        <3>1. run \in [1..n -> [V -> V]]
            BY <1>3
        <3> QED
            BY SMTT(60), <2>1, <3>1, Iterates
    <2> QED
        BY <1>3, <2>2
<1>. HIDE DEF V
<1>5. \A i \in 1..n : u[i] = IF Passes(list[i], f) THEN Append(u[i - 1], list[i]) ELSE u[i - 1]
    <2>1. \A i \in 1..n : u[i - 1] \in V
        BY <1>1
    <2> QED
        BY <1>4, <2>1
<1>. HIDE DEF run, n
<1>6. Eq(u)
    <2>1. \A i \in 0..n : i # 0 => i \in 1..n
        BY <1>1
    <2> QED
        BY <1>4, <1>5, <2>1
<1>7. Eq(upTo)
    BY <1>6
<1>. HIDE DEF upTo
<1>8. /\ upTo[0] = <<>>
      /\ \A i \in 1..n : upTo[i] = IF Passes(list[i], f) THEN Append(upTo[i - 1], list[i])
                                   ELSE upTo[i - 1]
    <2>1. 0 \in 0..n /\ \A i \in 1..n : i \in 0..n /\ i # 0
        BY <1>1
    <2>2. \A i \in 0..n : upTo[i] = IF i = 0 THEN <<>>
                                   ELSE IF Passes(list[i], f) THEN Append(upTo[i - 1], list[i])
                                   ELSE upTo[i - 1]
        BY <1>7
    <2> QED
        BY <2>1, <2>2
<1> QED
    BY <1>2, <1>8 DEF n, Kept

LEMMA AppendFacts ==
    ASSUME NEW E, NEW field, Comparable(E, field), NEW w \in Seq(E), NEW x \in E
    PROVE  /\ Append(w, x) \in Seq(E) /\ Len(Append(w, x)) = Len(w) + 1
           /\ ToSet(Append(w, x)) = ToSet(w) \cup {x}
           /\ Descends(w, field) /\ (\A e \in ToSet(w) : e[field] >= x[field])
                => Descends(Append(w, x), field)
<1>. DEFINE n == Len(w)
            t == Append(w, x)
<1>1. /\ n \in Nat /\ t \in Seq(E) /\ Len(t) = n + 1
      /\ \A i \in 1..n : t[i] = w[i]
      /\ t[n + 1] = x
      /\ DOMAIN w = 1..n /\ DOMAIN t = 1..(n + 1)
    BY LenProperties, AppendProperties
<1>. HIDE DEF n, t
<1>2. ToSet(t) = ToSet(w) \cup {x}
    <2>1. ASSUME NEW e \in ToSet(t) PROVE e \in ToSet(w) \cup {x}
        <3>1. PICK i \in 1..(n + 1) : e = t[i]
            BY <1>1 DEF ToSet
        <3>2. i \in 1..n \/ i = n + 1
            BY <1>1
        <3> QED
            BY <1>1, <3>1, <3>2 DEF ToSet
    <2>2. ASSUME NEW e \in ToSet(w) PROVE e \in ToSet(t)
        <3>1. PICK i \in 1..n : e = w[i]
            BY <1>1 DEF ToSet
        <3>2. i \in 1..(n + 1) /\ t[i] = e
            BY <1>1, <3>1
        <3> QED
            BY <1>1, <3>2 DEF ToSet
    <2>3. x \in ToSet(t)
        <3>1. n + 1 \in 1..(n + 1)
            BY <1>1
        <3> QED
            BY <1>1, <3>1 DEF ToSet
    <2> QED
        BY <2>1, <2>2, <2>3
<1>3. ASSUME Descends(w, field), \A e \in ToSet(w) : e[field] >= x[field]
      PROVE  Descends(t, field)
    <2>1. SUFFICES ASSUME NEW i \in 1..(n + 1), NEW j \in 1..(n + 1), i < j
                   PROVE  t[i][field] >= t[j][field]
        BY <1>1 DEF Descends
    <2>2. i \in 1..n /\ t[i] = w[i]
        BY <1>1, <2>1
    <2>3. CASE j = n + 1
        <3>1. w[i] \in ToSet(w)
            BY <1>1, <2>2 DEF ToSet
        <3> QED
            BY <1>1, <1>3, <2>2, <2>3, <3>1
    <2>4. CASE j # n + 1
        <3>1. j \in 1..n /\ t[j] = w[j]
            BY <1>1, <2>4
        <3> QED
            BY <1>3, <2>1, <2>2, <3>1 DEF Descends, n
    <2> QED
        BY <2>3, <2>4
<1> QED
    BY <1>1, <1>2, <1>3 DEF n, t

(* A filter keeps just what passes, in the order it had.                   *)
LEMMA FilterKeeps ==
    ASSUME NEW E, Comparable(E, "date"), NEW list \in Seq(E), NEW f,
           NEW s, s = filterTouchpoints(list, f)
    PROVE  /\ s \in Seq(E)
           /\ \A e : e \in ToSet(s) <=> (e \in ToSet(list) /\ Passes(e, f))
           /\ Descends(list, "date") => Descends(s, "date")
<1>. DEFINE n == Len(list)
            field == "date"
<1>1. n \in Nat /\ (\A i \in 1..n : list[i] \in E) /\ DOMAIN list = 1..n
    BY LenProperties, ElementOfSeq
<1>2. PICK u : Kept(u, list, f) /\ s = u[n]
    BY FilterSteps
<1>3. /\ u[0] = <<>>
      /\ \A i \in 1..n : u[i] = IF Passes(list[i], f) THEN Append(u[i - 1], list[i]) ELSE u[i - 1]
    BY <1>2 DEF Kept
<1>4. Comparable(E, field)
    OBVIOUS
<1>5. Descends(list, field) => \A i \in 1..n : \A j \in 1..n : i < j => list[i][field] >= list[j][field]
    BY DEF Descends
<1>. HIDE DEF n, field
<1>. DEFINE Good(w, k) ==
              /\ w \in Seq(E)
              /\ \A e : e \in ToSet(w) <=> \E i \in 1..k : Passes(list[i], f) /\ e = list[i]
              /\ Descends(list, field) => Descends(w, field)
            S == {k \in Nat : k <= n => Good(u[k], k)}
<1>6. 0 \in S
    <2>1. <<>> \in Seq(E) /\ Len(<<>>) = 0 /\ DOMAIN <<>> = {}
        BY EmptySeq
    <2>2. \A i \in 1..0 : FALSE
        OBVIOUS
    <2> QED
        BY <1>3, <2>1, <2>2 DEF Descends, ToSet
<1>7. ASSUME NEW k \in Nat, k \in S PROVE k + 1 \in S
    <2>1. SUFFICES ASSUME k + 1 <= n PROVE Good(u[k + 1], k + 1)
        <3>. HIDE DEF Good
        <3> QED
            OBVIOUS
    <2>. DEFINE w == u[k]
                x == list[k + 1]
                t == u[k + 1]
    <2>2. Good(w, k)
        <3>1. k <= n
            BY <1>1, <2>1
        <3>. HIDE DEF Good
        <3> QED
            BY <1>7, <3>1
    <2>3. /\ x \in E
          /\ t = IF Passes(x, f) THEN Append(w, x) ELSE w
        <3>1. k + 1 \in 1..n /\ (k + 1) - 1 = k
            BY <1>1, <2>1
        <3> QED
            BY <1>1, <1>3, <3>1
    <2>4. \A i \in 1..(k + 1) : i \in 1..k \/ (i = k + 1 /\ list[i] = x)
        OBVIOUS
    <2>5. \A i \in 1..k : i \in 1..(k + 1)
        OBVIOUS
    <2>6. k + 1 \in 1..(k + 1) /\ k + 1 \in 1..n
        BY <1>1, <2>1
    <2>7. w \in Seq(E)
        BY <2>2
    <2>8. Descends(list, field) => \A e \in ToSet(w) : e[field] >= x[field]
        <3>1. ASSUME Descends(list, field), NEW e \in ToSet(w) PROVE e[field] >= x[field]
            <4>1. PICK i \in 1..k : e = list[i]
                BY <2>2
            <4>2. i \in 1..n /\ i < k + 1
                BY <1>1, <2>1
            <4> QED
                BY <1>5, <2>6, <3>1, <4>1, <4>2
        <3> QED
            BY <3>1
    <2>9. CASE Passes(x, f)
        <3>1. t = Append(w, x)
            BY <2>3, <2>9
        <3>. HIDE DEF w, t, x
        <3>2. /\ t \in Seq(E) /\ ToSet(t) = ToSet(w) \cup {x}
              /\ Descends(w, field) /\ (\A e \in ToSet(w) : e[field] >= x[field])
                   => Descends(t, field)
            BY <1>4, <2>3, <2>7, <3>1, AppendFacts
        <3>3. ASSUME NEW e \in ToSet(t)
              PROVE  \E i \in 1..(k + 1) : Passes(list[i], f) /\ e = list[i]
            <4>1. CASE e = x
                BY <2>6, <2>9, <4>1 DEF x
            <4>2. CASE e \in ToSet(w)
                BY <2>2, <2>5, <4>2
            <4> QED
                BY <3>2, <4>1, <4>2
        <3>4. ASSUME NEW i \in 1..(k + 1), Passes(list[i], f) PROVE list[i] \in ToSet(t)
            BY <2>2, <2>4, <3>2, <3>4
        <3>5. Descends(list, field) => Descends(t, field)
            BY <2>2, <2>8, <3>2
        <3> QED
            BY <3>2, <3>3, <3>4, <3>5 DEF t
    <2>10. CASE ~Passes(x, f)
        <3>1. t = w
            BY <2>3, <2>10
        <3>. HIDE DEF w, t
        <3>2. ASSUME NEW e \in ToSet(t)
              PROVE  \E i \in 1..(k + 1) : Passes(list[i], f) /\ e = list[i]
            BY <2>2, <2>5, <3>1
        <3>3. ASSUME NEW i \in 1..(k + 1), Passes(list[i], f) PROVE list[i] \in ToSet(t)
            BY <2>2, <2>4, <2>10, <3>1, <3>3
        <3> QED
            BY <2>2, <3>1, <3>2, <3>3 DEF t
    <2> QED
        BY <2>9, <2>10
<1>. HIDE DEF S
<1>8. n \in S
    BY <1>1, <1>6, <1>7, SetInduction
<1>9. Good(s, n)
    BY <1>1, <1>2, <1>8 DEF S
<1>10. \A e : e \in ToSet(s) <=> (e \in ToSet(list) /\ Passes(e, f))
    BY <1>1, <1>9 DEF ToSet
<1> QED
    BY <1>9, <1>10 DEF field

(* How long the filtered list is, row by row.                              *)
Counts(h, list, f) ==
    /\ h[0] = 0
    /\ \A i \in 0..Len(list) : h[i] \in Nat
    /\ \A i \in 1..Len(list) : h[i] = h[i - 1] + (IF Passes(list[i], f) THEN 1 ELSE 0)

LEMMA FilterCounts ==
    ASSUME NEW E, NEW list \in Seq(E), NEW f
    PROVE  \E h : Counts(h, list, f) /\ Len(filterTouchpoints(list, f)) = h[Len(list)]
<1>. DEFINE n == Len(list)
<1>1. n \in Nat /\ \A i \in 1..n : list[i] \in E
    BY LenProperties, ElementOfSeq
<1>2. PICK u : Kept(u, list, f) /\ filterTouchpoints(list, f) = u[n]
    BY FilterSteps
<1>3. /\ u[0] = <<>>
      /\ \A i \in 1..n : u[i] = IF Passes(list[i], f) THEN Append(u[i - 1], list[i]) ELSE u[i - 1]
    BY <1>2 DEF Kept
<1>. HIDE DEF n
<1>. DEFINE S == {k \in Nat : k <= n => u[k] \in Seq(E)}
<1>4. 0 \in S
    BY <1>3, EmptySeq
<1>5. ASSUME NEW k \in Nat, k \in S PROVE k + 1 \in S
    <2>1. SUFFICES ASSUME k + 1 <= n PROVE u[k + 1] \in Seq(E)
        OBVIOUS
    <2>2. k + 1 \in 1..n /\ (k + 1) - 1 = k /\ k <= n
        BY <1>1, <2>1
    <2>3. u[k] \in Seq(E) /\ list[k + 1] \in E
        BY <1>1, <1>5, <2>2
    <2>4. u[k + 1] = Append(u[k], list[k + 1]) \/ u[k + 1] = u[k]
        BY <1>3, <2>2
    <2> QED
        BY <2>3, <2>4, AppendProperties
<1>. HIDE DEF S
<1>6. Nat \subseteq S
    BY <1>4, <1>5, SetInduction
<1>7. \A k \in 0..n : u[k] \in Seq(E)
    BY <1>1, <1>6 DEF S
<1>. DEFINE h == [k \in 0..n |-> Len(u[k])]
<1>8. h[0] = 0 /\ \A i \in 0..n : h[i] \in Nat
    <2>1. \A i \in 0..n : Len(u[i]) \in Nat
        BY <1>7, LenProperties
    <2>2. 0 \in 0..n /\ Len(u[0]) = 0
        BY <1>1, <1>3, EmptySeq
    <2> QED
        BY <2>1, <2>2
<1>9. ASSUME NEW i \in 1..n
      PROVE  h[i] = h[i - 1] + (IF Passes(list[i], f) THEN 1 ELSE 0)
    <2>1. i \in 0..n /\ i - 1 \in 0..n
        BY <1>1
    <2>2. u[i - 1] \in Seq(E) /\ list[i] \in E
        BY <1>1, <1>7, <2>1
    <2>3. Len(Append(u[i - 1], list[i])) = Len(u[i - 1]) + 1 /\ Len(u[i - 1]) \in Nat
        BY <2>2, AppendProperties, LenProperties
    <2>4. u[i] = IF Passes(list[i], f) THEN Append(u[i - 1], list[i]) ELSE u[i - 1]
        BY <1>3
    <2>5. h[i] = Len(u[i]) /\ h[i - 1] = Len(u[i - 1])
        BY <2>1
    <2>. HIDE DEF h
    <2>6. CASE Passes(list[i], f)
        BY <2>3, <2>4, <2>5, <2>6
    <2>7. CASE ~Passes(list[i], f)
        BY <2>3, <2>4, <2>5, <2>7
    <2> QED
        BY <2>6, <2>7
<1>10. Len(filterTouchpoints(list, f)) = h[n]
    <2>1. n \in 0..n
        BY <1>1
    <2> QED
        BY <1>2, <2>1 DEF n
<1>. HIDE DEF h
<1>11. Counts(h, list, f)
    BY <1>8, <1>9 DEF Counts, n
<1> QED
    BY <1>10, <1>11 DEF n

-----------------------------------------------------------------------------
(* A chip behind which a row is, whatever else is filtered by.             *)
FilterFields == {"query", "category", "start", "end"}
Rest(t, f) == inRange(t, f) /\ matchesQuery(t, f)
With(f, c) == [f EXCEPT !.category = c]

LEMMA PassesWith ==
    ASSUME NEW f, DOMAIN f = FilterFields, NEW t, NEW c
    PROVE  Passes(t, With(f, c)) <=> (c = "all" \/ TYPE_CATEGORY(t.type) = c) /\ Rest(t, f)
<1>1. /\ With(f, c).category = c
      /\ With(f, c).start = f.start
      /\ With(f, c).end = f.end
      /\ With(f, c).query = f.query
    BY DEF With, FilterFields
<1> QED
    BY <1>1 DEF Passes, Rest, inCategory, inRange, matchesQuery

LEMMA EveryTypeHasAChip == \A type : TYPE_CATEGORY(type) \in Category
BY DEF TYPE_CATEGORY, Category

LEMMA ChipsShareOut ==
    ASSUME NEW E, NEW list \in Seq(E), NEW f, DOMAIN f = FilterFields
    PROVE  Len(filterTouchpoints(list, With(f, "all")))
             = Len(filterTouchpoints(list, With(f, "complaint")))
               + Len(filterTouchpoints(list, With(f, "contact")))
               + Len(filterTouchpoints(list, With(f, "money")))
               + Len(filterTouchpoints(list, With(f, "lifecycle")))
<1>. DEFINE n == Len(list)
<1>1. n \in Nat
    BY LenProperties
<1>2. PICK a : Counts(a, list, With(f, "all"))
               /\ Len(filterTouchpoints(list, With(f, "all"))) = a[n]
    BY FilterCounts
<1>3. PICK b : Counts(b, list, With(f, "complaint"))
               /\ Len(filterTouchpoints(list, With(f, "complaint"))) = b[n]
    BY FilterCounts
<1>4. PICK c : Counts(c, list, With(f, "contact"))
               /\ Len(filterTouchpoints(list, With(f, "contact"))) = c[n]
    BY FilterCounts
<1>5. PICK d : Counts(d, list, With(f, "money"))
               /\ Len(filterTouchpoints(list, With(f, "money"))) = d[n]
    BY FilterCounts
<1>6. PICK e : Counts(e, list, With(f, "lifecycle"))
               /\ Len(filterTouchpoints(list, With(f, "lifecycle"))) = e[n]
    BY FilterCounts
<1>7. /\ a[0] = 0 /\ b[0] = 0 /\ c[0] = 0 /\ d[0] = 0 /\ e[0] = 0
      /\ \A i \in 0..n : a[i] \in Nat /\ b[i] \in Nat /\ c[i] \in Nat /\ d[i] \in Nat /\ e[i] \in Nat
    BY <1>2, <1>3, <1>4, <1>5, <1>6 DEF Counts
<1>8. ASSUME NEW i \in 1..n
      PROVE  a[i] - a[i - 1] = (b[i] - b[i - 1]) + (c[i] - c[i - 1])
                                + (d[i] - d[i - 1]) + (e[i] - e[i - 1])
    <2>. DEFINE t == list[i]
                k == TYPE_CATEGORY(t.type)
                r == Rest(t, f)
    <2>1. i \in 0..n /\ i - 1 \in 0..n
        BY <1>1
    <2>2. k \in {"complaint", "contact", "money", "lifecycle"}
        BY EveryTypeHasAChip DEF Category
    <2>3. /\ Passes(t, With(f, "all")) <=> r
          /\ Passes(t, With(f, "complaint")) <=> k = "complaint" /\ r
          /\ Passes(t, With(f, "contact")) <=> k = "contact" /\ r
          /\ Passes(t, With(f, "money")) <=> k = "money" /\ r
          /\ Passes(t, With(f, "lifecycle")) <=> k = "lifecycle" /\ r
        BY PassesWith
    <2>4. /\ a[i] = a[i - 1] + (IF Passes(t, With(f, "all")) THEN 1 ELSE 0)
          /\ b[i] = b[i - 1] + (IF Passes(t, With(f, "complaint")) THEN 1 ELSE 0)
          /\ c[i] = c[i - 1] + (IF Passes(t, With(f, "contact")) THEN 1 ELSE 0)
          /\ d[i] = d[i - 1] + (IF Passes(t, With(f, "money")) THEN 1 ELSE 0)
          /\ e[i] = e[i - 1] + (IF Passes(t, With(f, "lifecycle")) THEN 1 ELSE 0)
        BY <1>2, <1>3, <1>4, <1>5, <1>6 DEF Counts
    <2>5. /\ a[i - 1] \in Nat /\ b[i - 1] \in Nat /\ c[i - 1] \in Nat
          /\ d[i - 1] \in Nat /\ e[i - 1] \in Nat
        BY <1>7, <2>1
    <2>. HIDE DEF t, k, r
    <2>6. CASE ~r
        BY <2>3, <2>4, <2>5, <2>6
    <2>7. CASE r
        BY <2>2, <2>3, <2>4, <2>5, <2>7
    <2> QED
        BY <2>6, <2>7
<1>. HIDE DEF n
<1>. DEFINE S == {k \in Nat : k <= n => a[k] = b[k] + c[k] + d[k] + e[k]}
<1>9. 0 \in S
    BY <1>7
<1>10. ASSUME NEW k \in Nat, k \in S PROVE k + 1 \in S
    <2>1. SUFFICES ASSUME k + 1 <= n
                   PROVE  a[k + 1] = b[k + 1] + c[k + 1] + d[k + 1] + e[k + 1]
        OBVIOUS
    <2>2. /\ k + 1 \in 1..n /\ (k + 1) - 1 = k /\ k \in 0..n /\ k + 1 \in 0..n /\ k <= n
        BY <1>1, <2>1
    <2>. DEFINE a0 == a[k]
                b0 == b[k]
                c0 == c[k]
                d0 == d[k]
                e0 == e[k]
                a1 == a[k + 1]
                b1 == b[k + 1]
                c1 == c[k + 1]
                d1 == d[k + 1]
                e1 == e[k + 1]
    <2>3. a0 = b0 + c0 + d0 + e0
        BY <1>10, <2>2
    <2>4. a1 - a0 = (b1 - b0) + (c1 - c0) + (d1 - d0) + (e1 - e0)
        BY <1>8, <2>2
    <2>5. /\ a0 \in Nat /\ b0 \in Nat /\ c0 \in Nat /\ d0 \in Nat /\ e0 \in Nat
          /\ a1 \in Nat /\ b1 \in Nat /\ c1 \in Nat /\ d1 \in Nat /\ e1 \in Nat
        BY <1>7, <2>2
    <2>. HIDE DEF a0, b0, c0, d0, e0, a1, b1, c1, d1, e1
    <2>6. a1 = b1 + c1 + d1 + e1
        BY <2>3, <2>4, <2>5
    <2> QED
        BY <2>6 DEF a1, b1, c1, d1, e1
<1>. HIDE DEF S
<1>11. n \in S
    BY <1>1, <1>9, <1>10, SetInduction
<1>12. a[n] = b[n] + c[n] + d[n] + e[n]
    BY <1>1, <1>11 DEF S
<1> QED
    BY <1>2, <1>3, <1>4, <1>5, <1>6, <1>12

LEMMA WholeOnScreen ==
    ASSUME member \in DOMAIN Offset, DOMAIN filter = FilterFields
    PROVE  TimelineIsWhole
<1>. DEFINE list == TimelineOf[member]
            Behind(c) == filterTouchpoints(list, [filter EXCEPT !.category = c])
<1>1. list \in Seq(Touchpoints) /\ Descends(list, "date") /\ Comparable(Touchpoints, "date")
    BY JourneyRuns DEF TimelineOf, Comparable, Touchpoints
<1>. HIDE DEF list
<1>2. \A c : Behind(c) = filterTouchpoints(list, With(filter, c))
    BY DEF With
<1>3. Len(Behind("all")) = Len(Behind("complaint")) + Len(Behind("contact"))
                             + Len(Behind("money")) + Len(Behind("lifecycle"))
    <2>1. Len(filterTouchpoints(list, With(filter, "all")))
             = Len(filterTouchpoints(list, With(filter, "complaint")))
               + Len(filterTouchpoints(list, With(filter, "contact")))
               + Len(filterTouchpoints(list, With(filter, "money")))
               + Len(filterTouchpoints(list, With(filter, "lifecycle")))
        BY <1>1, ChipsShareOut
    <2>. HIDE DEF Behind
    <2> QED
        BY <1>2, <2>1
<1>4. ASSUME NEW t \in ToSet(Behind("all"))
      PROVE  \E c \in Category : t \in ToSet(Behind(c))
    <2>. DEFINE k == TYPE_CATEGORY(t.type)
    <2>1. t \in ToSet(list) /\ Rest(t, filter)
        <3>1. t \in ToSet(list) /\ Passes(t, With(filter, "all"))
            BY <1>1, <1>2, FilterKeeps
        <3> QED
            BY <3>1, PassesWith
    <2>2. Passes(t, With(filter, k))
        BY <2>1, PassesWith
    <2>3. t \in ToSet(Behind(k))
        <3>. HIDE DEF k
        <3> QED
            BY <1>1, <1>2, <2>1, <2>2, FilterKeeps
    <2>4. k \in Category
        BY EveryTypeHasAChip
    <2> QED
        BY <2>3, <2>4
<1>5. \A i \in 1..(Len(Rows) - 1) : Rows[i].date >= Rows[i + 1].date
    <2>1. Rows \in Seq(Touchpoints) /\ Descends(Rows, "date")
        BY <1>1, FilterKeeps DEF Rows, list
    <2>2. Len(Rows) \in Nat
        BY <2>1, LenProperties
    <2>3. ASSUME NEW i \in 1..(Len(Rows) - 1) PROVE Rows[i].date >= Rows[i + 1].date
        <3>1. i \in 1..Len(Rows) /\ i + 1 \in 1..Len(Rows) /\ i < i + 1
            BY <2>2
        <3>2. Rows[i]["date"] >= Rows[i + 1]["date"]
            BY <2>1, <3>1 DEF Descends
        <3> QED
            BY <3>2
    <2> QED
        BY <2>3
<1> QED
    BY <1>3, <1>4, <1>5 DEF TimelineIsWhole, list

-----------------------------------------------------------------------------
(* A journey page mounts for a member of the tables, and whatever is typed *)
(* or picked the filter keeps its four fields.                             *)
JourneyInv == member \in DOMAIN Offset /\ DOMAIN filter = FilterFields

LEMMA InitialFilter == DOMAIN INITIAL_FILTER = FilterFields
BY DEF INITIAL_FILTER, FilterFields

LEMMA MountJourneyKeeps ==
    ASSUME JourneyInv, MountJourney(member)
    PROVE  JourneyInv'
BY InitialFilter DEF JourneyInv, MountJourney

LEMMA EnterKeeps ==
    ASSUME JourneyInv, NEW field, NEW value, Enter(field, value)
    PROVE  JourneyInv'
<1>1. DOMAIN [filter EXCEPT ![field] = value] = DOMAIN filter
    OBVIOUS
<1> QED
    BY <1>1 DEF JourneyInv, Enter

LEMMA ClearDatesKeeps ==
    ASSUME JourneyInv, ClearDates
    PROVE  JourneyInv'
<1>1. DOMAIN [filter EXCEPT !.start = 0, !.end = 0] = DOMAIN filter
    OBVIOUS
<1> QED
    BY <1>1 DEF JourneyInv, ClearDates

LEMMA SameJourney ==
    ASSUME JourneyInv, UNCHANGED journeyVars
    PROVE  JourneyInv'
BY DEF JourneyInv, journeyVars

LEMMA MountKeepsJourney ==
    ASSUME JourneyInv, NEW u, Mount(u)
    PROVE  JourneyInv'
<1>1. CASE MountQuiet
    BY <1>1, MountJourneyKeeps DEF MountQuiet
<1>2. CASE UNCHANGED journeyVars
    BY <1>2, SameJourney
<1> QED
    BY <1>1, <1>2 DEF Mount, MountDashboard, MountSources, MountLineage

LEMMA FollowKeepsJourney ==
    ASSUME JourneyInv, NEW u, NEW emits, Follow(u, emits)
    PROVE  JourneyInv'
<1>1. CASE Mount(u)
    BY <1>1, MountKeepsJourney
<1>2. CASE UNCHANGED journeyVars
    BY <1>2, SameJourney
<1> QED
    BY <1>1, <1>2 DEF Follow, ChangeArgument

LEMMA NavigateKeepsJourney ==
    ASSUME JourneyInv, NEW u, NEW emits, Navigate(u, emits)
    PROVE  JourneyInv'
BY FollowKeepsJourney DEF Navigate

LEMMA TimelineKeeps ==
    ASSUME JourneyInv, Timeline
    PROVE  JourneyInv'
BY EnterKeeps, ClearDatesKeeps DEF Timeline, TypeQuery, PickCategory, PickDate

LEMMA JourneyStep ==
    ASSUME JourneyInv, [Next]_vars
    PROVE  JourneyInv'
<1>1. CASE Boot
    BY <1>1, MountKeepsJourney DEF Boot
<1>2. CASE PickMonth \/ PickFilter \/ NavItem \/ ProductCard \/ SettleMonth \/ DashboardLink
    BY <1>2, NavigateKeepsJourney
       DEF PickMonth, PickFilter, NavItem, ProductCard, SettleMonth, DashboardLink
<1>3. CASE BackButton
    BY <1>3, FollowKeepsJourney DEF BackButton
<1>4. CASE PaletteJump \/ Reload
    BY <1>4, MountJourneyKeeps DEF PaletteJump, Reload, Load
<1>5. CASE Timeline
    BY <1>5, TimelineKeeps
<1>6. CASE Answers \/ CacheExpires
    BY <1>6, SameJourney
       DEF Answers, BodyAnswers, MonthsAnswer, TrustAnswers, LineageAnswers, CacheExpires
<1>7. CASE Lineage \/ reportError \/ metricToEvent \/ onTile \/ HideOrShow
    BY <1>7, SameJourney DEF Lineage, reportError, metricToEvent, onTile, OnTab, HideOrShow
<1>8. CASE (TimerFires /\ OnTab) \/ (Unload("closed") /\ OnTab) \/ UNCHANGED vars
    BY <1>8, SameJourney DEF OnTab, vars
<1> QED
    BY <1>1, <1>2, <1>3, <1>4, <1>5, <1>6, <1>7, <1>8 DEF Next

(* For every member, whatever offset its filler starts at, and whatever is *)
(* searched, picked and cleared in whatever order: the four chips share    *)
(* out what All shows, nothing is behind two of them, and what is listed   *)
(* runs from the newest down.                                              *)
THEOREM ChipsShareTheTimeline == Spec => []TimelineOnScreen
<1>1. Init => JourneyInv
    BY InitialFilter DEF Init, JourneyInit, JourneyInv
<1>2. JourneyInv /\ [Next]_vars => JourneyInv'
    BY JourneyStep
<1>3. JourneyInv => TimelineOnScreen
    BY WholeOnScreen DEF JourneyInv, TimelineOnScreen
<1> QED
    BY <1>1, <1>2, <1>3, PTL DEF Spec
=============================================================================
