\* Two requests at a time: any PATCH of any booking, with POSTs.
CONSTANTS
    ann = ann  boss = boss  round = round  bar = bar  am = am  noon = noon
    User = {ann, boss}
    RoleOf <- Roles
    Table = {round, bar}
    Slot = {am, noon}
    FirstSlots <- CrossingOrApart
    Slots <- JustNoon
    HoursPerDay = 3
    Offset = 0
    FirstTables <- Sizes
    Tables <- NoRows
    Session = {s1, s2}
    Orders <- TodaysOrders
    Edits <- AnyEdit
    FirstHour = 0
    LastHour = 0
    MaxBookings = 2
    MaxRequests = 4
    MaxTableEdits = 1
SPECIFICATION Spec
SYMMETRY Interchangeable
INVARIANTS
    TypeOK
    DoublesAreExcused
    CrossingsAreExcused
    PlacesOfOneRequest
CHECK_DEADLOCK FALSE
