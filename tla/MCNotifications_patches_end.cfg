\* Two PATCH requests, of which one may cancel the booking, a worker, the
\* dispatcher and a manual retry, with reminders: each PATCH inserts up to two
\* rows.  The dispatcher only ever claims row 2, the guest's first reminder, which
\* is the row that a retry brings back under a PATCH.
CONSTANTS
    Session = {s1, s2}
    Task = {t1}
    Managers = {m1}
    FirstManagers <- InCharge
    Client = guest
    Requests <- NothingOrCancel
    Reminders <- On
    MaxNotes = 6
    MaxPatches = 2
    MaxAttempts = 1
    MaxRetries = 0
    BeatLimit = 2
    ClockSkew = FALSE
    LongErrors = FALSE
    MaxFaults = 0
    BeatRows = {2}
    MaxReopened = 1
    MaxReassigned = 0
SPECIFICATION RunningSpec
INVARIANTS
    OneLivePerType
PROPERTIES
    SettledRowsStaySilent
    EveryPatchEnds
CHECK_DEADLOCK FALSE
