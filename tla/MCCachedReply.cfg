SPECIFICATION Spec
CONSTANTS
    Callers = {c1}
    Requests <- MCRequests
    Faults <- MCFaults
    Scripts = {}
    MaxAttempts = 1
INVARIANT
    HitGivesValue
