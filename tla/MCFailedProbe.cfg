SPECIFICATION Spec
CONSTANTS
    m1 = m1
    m2 = m2
    m3 = m3
    e1 = e1
    Unset = Unset
    Catalog <- MCCatalog
    DefaultRoutes <- MCDefaultRoutes
    Callers = {c1, c2}
    Models = {m1, m2, m3}
    Roles = {"planner", "drafter", "embedding"}
    Route <- MCRoute
    Capable <- MCCapable
    Answers = {"timeout", "auth"}
    MaxAttempts <- MCMaxAttempts
    PerProvider <- MCPerProvider
    PerModel <- MCPerModel
    FailureThreshold = 1
    Window = 0
    OpenTicks = 1
PROPERTIES
    FailedProbeReopens
