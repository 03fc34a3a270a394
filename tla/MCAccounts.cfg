\* Registrations, logins and PATCHes, two at a time.
CONSTANTS
    boss = boss  ann = ann  bob = bob
    am = am  bm = bm  ap = ap  bp = bp
    p1 = p1  p2 = p2
    t1 = t1  t2 = t2  t3 = t3
    User = {boss, ann, bob}
    Staff = {boss}
    Email = {am, bm}
    Phone = {ap, bp}
    Password = {p1, p2}
    Token = {t1, t2, t3}
    Session = {s1, s2}
    FirstAccounts <- TwoKnown
    FirstTokens <- LoggedIn
    Registrations <- Newcomers
    Patches <- AnyPatch
    MaxRequests = 3
SPECIFICATION Spec
INVARIANTS
    TypeOK
    ConflictsAreRaces
PROPERTIES
    PatchesTakeEffect
    PasswordsChangeOnPurpose
    TokensAreEarned
CHECK_DEADLOCK FALSE
