CONSTANTS
    Sources <- MCSources
    Keyed <- MCKeyed
    Calendar <- MCCalendar
    Requests <- MCRequests
    Admins = {a1, a2}
    Workers = {w1, w2}
    Managed = {"BLS"}
    MaxRequests = 3
    MaxRevisions = 1
    MaxFaults = 1
SPECIFICATION Spec
INVARIANT StoredIsCurrent
INVARIANT SwitchKept
INVARIANT RunsClosed
SYMMETRY Interchangeable
CHECK_DEADLOCK FALSE
