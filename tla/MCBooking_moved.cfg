\* A PATCH of the date alone takes a booked table.
CONSTANTS
    ann = ann  boss = boss  round = round  bar = bar  am = am  noon = noon
    User = {ann, boss}
    RoleOf <- Roles
    Table = {round, bar}
    Slot = {am, noon}
    FirstSlots <- Opens
    Slots <- NoRows
    HoursPerDay = 3
    Offset = 0
    FirstTables <- Sizes
    Tables <- Sizes
    Session = {s1}
    Orders <- TodayOrTomorrow
    Edits <- JustTomorrow
    FirstHour = 0
    LastHour = 0
    MaxBookings = 2
    MaxRequests = 3
    MaxTableEdits = 0
SPECIFICATION Spec
INVARIANTS
    PlacesAreExclusive
CHECK_DEADLOCK FALSE
