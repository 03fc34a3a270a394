\* One request at a time implements Reservations.
CONSTANTS
    ann = ann  boss = boss  round = round  bar = bar  am = am  noon = noon
    User = {ann, boss}
    RoleOf <- Roles
    Table = {round, bar}
    Slot = {am, noon}
    FirstSlots <- Opens
    Slots <- NoRows
    HoursPerDay = 3
    Offset = 0
    FirstTables <- Sizes
    Tables <- Sizes
    Session = {s1}
    Orders <- TodaysOrders
    Edits <- CheckedEdits
    FirstHour = 0
    LastHour = 0
    MaxBookings = 3
    MaxRequests = 5
    MaxTableEdits = 0
    Dates = {0, 1}
SPECIFICATION Spec
PROPERTIES
    KeepsThePromise
CHECK_DEADLOCK FALSE
