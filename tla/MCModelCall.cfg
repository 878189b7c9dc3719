SPECIFICATION Spec
CONSTANTS
    Callers = {c1, c2}
    Requests <- MCRequests
    Faults <- MCFaults
    Scripts <- MCScripts
    MaxAttempts = 2
INVARIANTS
    TypeOK
    CacheSound
    ResultExplained
PROPERTY
    EveryCallReturns
