\* Every notification settles, although a publication is lost or a worker
\* crashes, a PATCH cancels the booking and SMTP errors may be too long.
CONSTANTS
    Session = {s1}
    Task = {t1}
    Managers = {m1}
    FirstManagers <- InCharge
    Client = guest
    Requests <- JustCancel
    Reminders <- On
    MaxNotes = 3
    MaxPatches = 1
    MaxAttempts = 1
    MaxRetries = 0
    BeatLimit = 1
    ClockSkew = FALSE
    LongErrors = TRUE
    MaxFaults = 1
    BeatRows <- AllRows
    MaxReopened = 0
    MaxReassigned = 0
SPECIFICATION FairSpec
INVARIANTS
    IInv
PROPERTIES
    EveryNotificationSettles
CHECK_DEADLOCK FALSE
