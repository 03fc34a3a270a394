\* Dishes, their cafes and slots, two requests at a time.
CONSTANTS
    boss = boss  kim = kim  d1 = d1  d2 = d2  x1 = x1  x2 = x2
    c1 = c1  c2 = c2  n1 = n1  n2 = n2
    Dish = {d1, d2}
    Slot = {x1, x2}
    Cafe = {c1, c2}
    Name = {n1, n2}
    Hour = {0, 1, 2, 3}
    Home <- InC1
    Actor = {boss, kim}
    Manages <- AllOrOwn
    Session = {s1, s2}
    FirstDishes <- OneDish
    FirstLinks <- OneOrBoth
    FirstSlots <- OneSlot
    NewDishes <- Dishes
    DishPatches <- AnyDishPatch
    NewSlots <- Slots
    SlotPatches <- AnySlotPatch
    MaxRequests = 3
SPECIFICATION FairSpec
INVARIANTS
    TypeOK
    MenusOfOneRequest
    SlotsHaveLength
PROPERTIES
    ManagersKeepToTheirCafe
    ColumnsTakeEffect
    EveryEditEnds
CHECK_DEADLOCK FALSE
