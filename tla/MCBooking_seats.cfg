\* PATCHes of tables, guests and status overlap while the staff edit tables
\* and the hours pass; the server is ahead of UTC.
CONSTANTS
    ann = ann  boss = boss  round = round  bar = bar  am = am  noon = noon
    User = {ann, boss}
    RoleOf <- Roles
    Table = {round, bar}
    Slot = {am, noon}
    FirstSlots <- JustNightShift
    Slots <- LaterOrClosed
    HoursPerDay = 3
    Offset = 1
    FirstTables <- ThreeOrNone
    Tables <- ThreeOrBroken
    Session = {s1, s2}
    Orders <- SeatsOrders
    Edits <- SeatsEdits
    FirstHour = 0
    LastHour = 3
    MaxBookings = 1
    MaxRequests = 3
    MaxTableEdits = 1
SPECIFICATION Spec
SYMMETRY Interchangeable
INVARIANTS
    CrowdsAreExcused
PROPERTIES
    FrozenChangesAreLate
    PlacesAreAhead
CHECK_DEADLOCK FALSE
