\* Mailing without PATCH: two managers who may change, two messages at a time,
\* two faults and a manual retry.
CONSTANTS
    Session = {s1}
    Task = {t1, t2}
    Managers = {m1, m2}
    FirstManagers <- AnyStaff
    Client = guest
    Requests <- NoRequests
    Reminders <- Off
    MaxNotes = 1
    MaxPatches = 0
    MaxAttempts = 2
    MaxRetries = 1
    BeatLimit = 2
    ClockSkew = TRUE
    LongErrors = FALSE
    MaxFaults = 2
    BeatRows <- AllRows
    MaxReopened = 1
    MaxReassigned = 2
SPECIFICATION Spec
SYMMETRY Interchangeable
INVARIANTS
    DuplicatesAreFaults
    SentIsDelivered
    FailedIffExhausted
CHECK_DEADLOCK FALSE
