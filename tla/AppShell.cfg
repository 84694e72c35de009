SPECIFICATION Spec
CONSTANTS
    BATCH_MAX = 2
    Name = {"loan", "share"}
    Payload <- MCPayload
    src = src
    core = core
    mart = mart
    dash1 = dash1
    dash2 = dash2
    Node <- MCNode
    Edge <- MCEdge
    Layer <- MCLayer
    LAYERS <- MCLAYERS
    NoNode = NoNode
    Offset <- MCOffset
    Today <- MCToday
    Dashboards <- MCDashboards
    Month = {1, 2}
    Available <- MCAvailable
    NoMonth = NoMonth
    Bad = Bad
    Filter = {NoFilter, Renewed}
    NoFilter = NoFilter
    MaxClicks = 2
INVARIANTS
    TelemetryKept
    
    LineageOnScreen
    TimelineOnScreen
PROPERTIES
    PagesSettle
CHECK_DEADLOCK FALSE
