--------------------------- MODULE DataModelScreen ---------------------------
(***************************************************************************)
(* The lineage graph of /data/models (features/data-models): layer and     *)
(* dashboard filters over the canvas, and the drawer that describes the    *)
(* selected node.  The screen's own state goes when the route is left; the *)
(* answers stay in the query cache of the tab.  Positions, styles and the  *)
(* words of a node's description are left out.                             *)
(***************************************************************************)
EXTENDS Naturals, FiniteSets, FiniteSetsExt

CONSTANTS
    Node,      \* ids of the graph's nodes
    Edge,      \* set of <<source, target>>
    Layer,     \* [Node -> layer]
    LAYERS,    \* LAYER_ORDER
    NoNode     \* null

ASSUME GraphAssumption ==
    /\ IsFiniteSet(Node)
    /\ Edge \subseteq Node \X Node
    /\ Layer \in [Node -> LAYERS]
    /\ NoNode \notin Node

VARIABLES
    enabledLayers, dashboardId, selectedId,  \* UIState of the reducer
    graph,                                   \* the query of the whole graph
    detail,                                  \* [Node -> query of its detail]
    drawn                                    \* the node the drawer's data is of

screenVars == <<enabledLayers, dashboardId, selectedId, drawn>>
modelVars == <<enabledLayers, dashboardId, selectedId, graph, detail, drawn>>

Dashboard == {n \in Node : Layer[n] = "Dashboards"}

Parents(ids) == {e[1] : e \in {x \in Edge : x[2] \in ids}}

(* Variant: the stack is not refilled.                                     *)
parentsOnly(root) == {root} \cup Parents({root})

(* The loop over a stack: every id taken off adds its unvisited parents.   *)
ancestorClosure(root) ==
    LET visited[i \in 0..Cardinality(Node)] ==
          IF i = 0 THEN {root} ELSE visited[i - 1] \cup Parents(visited[i - 1])
    IN  visited[Cardinality(Node)]

visibleIds ==
    {n \in Node : /\ Layer[n] \in enabledLayers
                  /\ dashboardId # NoNode => n \in ancestorClosure(dashboardId)}

visibleEdges == {e \in Edge : e[1] \in visibleIds /\ e[2] \in visibleIds}

initialState ==
    /\ enabledLayers' = LAYERS
    /\ dashboardId' = NoNode
    /\ selectedId' = NoNode
    /\ drawn' = NoNode

ModelInit ==
    /\ enabledLayers = LAYERS
    /\ dashboardId = NoNode
    /\ selectedId = NoNode
    /\ drawn = NoNode
    /\ graph = "none"
    /\ detail = [n \in Node |-> "none"]

Asked(status) == IF status \in {"none", "failed"} THEN "pending" ELSE status

(* Mounting the screen asks for the graph.                                 *)
MountModels == initialState /\ graph' = Asked(graph) /\ UNCHANGED detail

toggleLayer(layer) ==
    /\ enabledLayers' = (enabledLayers \ {layer}) \cup ({layer} \ enabledLayers)
    /\ UNCHANGED <<dashboardId, selectedId, graph, detail, drawn>>

(* A dashboard's button switches it off when it is on; null is "All".      *)
setDashboard(id) ==
    /\ dashboardId' = IF id = dashboardId THEN NoNode ELSE id
    /\ UNCHANGED <<enabledLayers, selectedId, graph, detail, drawn>>

select(id) ==
    /\ selectedId' = id
    /\ detail' = [detail EXCEPT ![id] = Asked(@)]
    /\ drawn' = IF detail[id] = "ok" THEN id ELSE drawn
    /\ UNCHANGED <<enabledLayers, dashboardId, graph>>

closeDrawer ==
    /\ selectedId' = NoNode
    /\ UNCHANGED <<enabledLayers, dashboardId, graph, detail, drawn>>

(* Chips of the drawer name the neighbours of the node it draws.           *)
Neighbours == Parents({drawn}) \cup {e[2] : e \in {x \in Edge : x[1] = drawn}}
DrawerBody == selectedId # NoNode /\ detail[selectedId] # "failed" /\ drawn # NoNode

GraphAnswers(status) ==
    /\ graph = "pending"
    /\ graph' = status
    /\ UNCHANGED <<enabledLayers, dashboardId, selectedId, detail, drawn>>

DetailAnswers(n, status) ==
    /\ detail[n] = "pending"
    /\ detail' = [detail EXCEPT ![n] = status]
    /\ drawn' = IF status = "ok" /\ n = selectedId THEN n ELSE drawn
    /\ UNCHANGED <<enabledLayers, dashboardId, selectedId, graph>>

-----------------------------------------------------------------------------
(* Is there a way from n to m along the edges?                             *)
Feeds(n, m) ==
    \E k \in 0..(Cardinality(Node) - 1) : \E path \in [0..k -> Node] :
       /\ path[0] = n /\ path[k] = m
       /\ \A i \in 1..k : <<path[i - 1], path[i]>> \in Edge

FeedsOn == [m \in Node |-> {n \in Node : Feeds(n, m)}]

(* The canvas shows what feeds the chosen dashboard, in the layers that    *)
(* are on, and nothing else; every line joins two boxes on the canvas; and *)
(* once the answer for the selected node is there, the drawer describes    *)
(* that node and not the one it was opened from.                           *)
CanvasIsLineage ==
    /\ \A n \in Node :
         n \in visibleIds <=> /\ Layer[n] \in enabledLayers
                              /\ dashboardId = NoNode \/ n \in FeedsOn[dashboardId]
    /\ \A e \in visibleEdges : {e[1], e[2]} \subseteq visibleIds
    /\ DrawerBody /\ detail[selectedId] = "ok" => drawn = selectedId
=============================================================================
