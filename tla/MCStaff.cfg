\* Cafes change hands while roles change.
CONSTANTS
    here = here  there = there  future = future
    red = red  blue = blue  green = green
    User = {1, 2, 3}
    Cafe = {here, there, future}
    Name = {red, blue, green}
    Session = {s1, s2}
    FirstUsers <- Charts
    FirstCafes <- TwoCafes
    CafePatches <- AnyPatch
    CafePosts <- AnyPost
    RolePatches <- AnyRole
    MaxRequests = 2
SPECIFICATION FairSpec
INVARIANTS
    TypeOK
    ChecksAreEnough
    CirclesAreSwaps
PROPERTIES
    ManagersAreAsAsked
    AdminsAreSafe
    EveryRequestEnds
CHECK_DEADLOCK FALSE
