------------------------------- MODULE Staff -------------------------------
(***************************************************************************)
(* Who manages which cafe: POST /cafes, PATCH /cafes/{id} and              *)
(* PATCH /users/{id} over the rows of users (role, cafe_id) and cafes.     *)
(*                                                                         *)
(* A request reads rows into the identity map of its session, which keeps  *)
(* each row as first read (plain SELECTs do not refresh it, and            *)
(* expire_on_commit is off), changes them there, and a flush writes only   *)
(* the columns that differ from what was read, row by row in the order of  *)
(* the primary key, holding each row until COMMIT or rollback.  A request  *)
(* on a cafe has two transactions: the first writes the cafe's own         *)
(* columns, the second its managers.                                       *)
(*                                                                         *)
(* A definition marked "mutant" takes no part in the specification: it is  *)
(* a plausible mistake in the definition after it, which a run must catch. *)
(***************************************************************************)
EXTENDS Integers, FiniteSets, FiniteSetsExt

CONSTANTS
    User,           \* primary keys of users, in their order
    Cafe,           \* primary keys of cafes
    Name,           \* names of cafes: their own columns, of which names are unique
    Session,        \* requests in flight at once
    FirstUsers,     \* the staff a run may start with: functions from User to rows
    FirstCafes,     \* Cafe -> its name at the start, or "none" if it is yet to be
    CafePatches,    \* the bodies of PATCH /cafes/{id} under study
    CafePosts,      \* the bodies of POST /cafes
    RolePatches,    \* the roles PATCH /users/{id} asks for
    MaxRequests     \* bound: requests

UserRole == {"ADMIN", "MANAGER", "USER"}
StaffRoles == {"ADMIN", "MANAGER"}

UserRow == [role : UserRole, cafe : Cafe \cup {"none"}]

\* check_user_cafe_only_for_manager
CheckHolds(row) == row.cafe = "none" \/ row.role = "MANAGER"

ASSUME UsersAssumption ==
    /\ User \subseteq Nat \ {0} /\ IsFiniteSet(User)
    /\ FirstUsers \subseteq [User -> UserRow]
    /\ \A chart \in FirstUsers, u \in User : CheckHolds(chart[u])
ASSUME CafesAssumption ==
    /\ "none" \notin Cafe /\ "none" \notin Name
    /\ FirstCafes \in [Cafe -> Name \cup {"none"}]
    /\ \A chart \in FirstUsers, u \in User :
         chart[u].cafe # "none" => FirstCafes[chart[u].cafe] # "none"
ASSUME BodiesAssumption ==
    /\ CafePosts \subseteq [managers : (SUBSET User) \ {{}}, name : Name]
    /\ \A body \in CafePatches :
         /\ DOMAIN body \subseteq {"managers", "name"}
         /\ "managers" \in DOMAIN body => body.managers \in (SUBSET User) \ {{}}
         /\ "name" \in DOMAIN body => body.name \in Name
    /\ RolePatches \subseteq UserRole
ASSUME BoundsAssumption == MaxRequests \in Nat

VARIABLES
    user,       \* User -> committed row
    cafe,       \* Cafe -> committed name, "none" before the cafe exists
    session,    \* Session -> the request in flight
    requests    \* counter

vars == <<user, cafe, session, requests>>

----------------------------------------------------------------------------
\* Requests

Steps == {"cafe", "roles", "name", "insert", "inserted", "reload",
          "remove", "add", "target", "commit"}

\* Of the row of a user: the columns a flush writes.
Columns == [role : UserRole] \cup [cafe : Cafe \cup {"none"}] \cup UserRow
IsRowWrites(f) == DOMAIN f \subseteq User /\ f \in [DOMAIN f -> Columns]

NoWrites == [u \in {} |-> [cafe |-> "none"]]
Unread == [role |-> "USER", cafe |-> "none"]

NoRequest == [kind |-> "none", step |-> "none", actor |-> 0, cafe |-> "none",
              sets |-> {}, managers |-> {}, name |-> "none", renames |-> FALSE,
              target |-> 0, role |-> "none", loaded |-> {},
              seen |-> [u \in User |-> Unread], current |-> {},
              writes |-> NoWrites, flushed |-> NoWrites, blind |-> {}]

IsRequest(r) ==
    /\ DOMAIN r = DOMAIN NoRequest
    /\ r.kind \in {"none", "POST_CAFE", "PATCH_CAFE", "PATCH_USER"}
    /\ r.step \in Steps \cup {"none"}
    /\ r.actor \in User \cup {0}
    /\ r.cafe \in Cafe \cup {"none"}
    /\ r.sets \subseteq {"managers", "name"}   \* what the body names
    /\ r.managers \subseteq User              \* managers_id
    /\ r.name \in Name \cup {"none"}
    /\ r.renames \in BOOLEAN                  \* the loaded name is another
    /\ r.target \in User \cup {0} /\ r.role \in UserRole \cup {"none"}
    /\ r.loaded \subseteq User                \* the identity map: its keys
    /\ r.seen \in [User -> UserRow]           \* and its rows
    /\ r.current \subseteq User               \* cafe.managers as loaded
    /\ IsRowWrites(r.writes)                  \* changed and not flushed
    /\ IsRowWrites(r.flushed)                 \* flushed and not committed
    /\ r.blind \subseteq User                 \* committed by others since

Busy(s) == session[s].kind # "none"
At(s, step) == session[s].step = step /\ session[s].writes = NoWrites

Managers(c) == {u \in User : user[u].cafe = c /\ user[u].role = "MANAGER"}

\* A SELECT of the users us leaves those already in the identity map alone;
\* populate_existing reads them again.
Reading(r, us) == [r EXCEPT
    !.loaded = @ \cup us,
    !.seen = [u \in User |-> IF u \in us \ r.loaded THEN user[u] ELSE @[u]],
    !.blind = @ \ (us \ r.loaded)]
Rereading(r, us) == [r EXCEPT
    !.loaded = @ \cup us,
    !.seen = [u \in User |-> IF u \in us THEN user[u] ELSE @[u]],
    !.blind = @ \ us]

\* A request whose actor has been read is let in: StaffUser, AdminUser.
Arrives(s, a, fields) ==
    /\ ~Busy(s) /\ requests < MaxRequests
    /\ requests' = requests + 1
    /\ session' = [session EXCEPT ![s] = Reading(fields, {a})]
    /\ UNCHANGED <<user, cafe>>

PatchCafe(s, a, c, body) ==
    /\ user[a].role \in StaffRoles /\ cafe[c] # "none"
    /\ Arrives(s, a, [NoRequest EXCEPT
         !.kind = "PATCH_CAFE", !.step = "cafe", !.actor = a, !.cafe = c,
         !.sets = DOMAIN body,
         !.managers = IF "managers" \in DOMAIN body THEN body.managers ELSE {},
         !.name = IF "name" \in DOMAIN body THEN body.name ELSE "none"])

PostCafe(s, a, body) ==
    /\ user[a].role = "ADMIN"
    /\ Arrives(s, a, [NoRequest EXCEPT
         !.kind = "POST_CAFE", !.step = "roles", !.actor = a,
         !.sets = {"managers", "name"},
         !.managers = body.managers, !.name = body.name])

PatchUser(s, a, u, role) ==
    /\ user[a].role \in StaffRoles
    /\ Arrives(s, a, [NoRequest EXCEPT
         !.kind = "PATCH_USER", !.step = "target", !.actor = a,
         !.target = u, !.role = role])

\* The request goes on as r; it ends, and what it flushed is rolled back.
Goes(s, r) == session' = [session EXCEPT ![s] = r]
HeldForEver(s) == Goes(s, session[s])                              \* mutant
Rollback(s) == Goes(s, NoRequest)

----------------------------------------------------------------------------
\* The loads and checks of a request on a cafe

\* ensure_manager_cafe_access
MayManage(r) == r.seen[r.actor].role = "MANAGER" => r.seen[r.actor].cafe = r.cafe

\* get_cafe_or_404: the cafe and its managers, with populate_existing.
WithCafe(r) ==
    [Rereading(r, Managers(r.cafe)) EXCEPT
        !.current = Managers(r.cafe),
        !.renames = r.name \notin {"none", cafe[r.cafe]},
        !.blind = @ \cap r.loaded]

AfterChecks(r) ==
    IF r.kind = "POST_CAFE" THEN "insert"
    ELSE IF "name" \in r.sets THEN "name"
    ELSE IF "managers" \in r.sets THEN "remove"
    ELSE "commit"

LoadCafe(s) ==
    LET r == WithCafe(session[s])
    IN /\ At(s, "cafe") /\ MayManage(r)
       /\ Goes(s, [r EXCEPT !.step = IF "managers" \in r.sets THEN "roles"
                                     ELSE AfterChecks(r)])
       /\ UNCHANGED <<user, cafe, requests>>

\* ensure_managers_exist_and_role
WithManagers(r) == Reading(r, r.managers)
RolesFit(r) == \A u \in r.managers : WithManagers(r).seen[u].role = "MANAGER"

CheckRoles(s) ==
    LET r == session[s]
    IN /\ At(s, "roles") /\ RolesFit(r)
       /\ Goes(s, [WithManagers(r) EXCEPT !.step = AfterChecks(r)])
       /\ UNCHANGED <<user, cafe, requests>>

----------------------------------------------------------------------------
\* The first transaction: the cafe's own columns

\* A name some other request has inserted and not committed is waited for.
NameAwaited(s) ==
    \E t \in Session \ {s} :
        session[t].step = "inserted" /\ session[t].name = session[s].name
NameTaken(r) == \E c \in Cafe \ {r.cafe} : cafe[c] = r.name

\* An UPDATE of a unique column waits for those who have set a foreign key to
\* the row and have not committed.
Referenced(s) ==
    \E t \in Session \ {s} : \E u \in DOMAIN session[t].flushed :
        /\ "cafe" \in DOMAIN session[t].flushed[u]
        /\ session[t].flushed[u].cafe = session[s].cafe

\* cafe_crud.update commits; then the managers' collection is read again (the
\* members, not the columns of those already in the identity map).
Rename(s) ==
    LET r == session[s]
        next == IF "managers" \in r.sets THEN "remove" ELSE "commit"
    IN /\ At(s, "name")
       /\ r.renames => ~NameAwaited(s) /\ ~NameTaken(r) /\ ~Referenced(s)
       /\ cafe' = IF r.renames THEN [cafe EXCEPT ![r.cafe] = r.name] ELSE cafe
       /\ Goes(s, [Reading(r, Managers(r.cafe)) EXCEPT
                     !.current = Managers(r.cafe), !.step = next])
       /\ UNCHANGED <<user, requests>>

\* cafe_crud.create: INSERT the cafe, then the flush of its managers.
Insert(s) ==
    LET r == session[s]
    IN /\ At(s, "insert")
       /\ ~NameAwaited(s) /\ ~NameTaken(r)
       /\ \E c \in Cafe :
            /\ cafe[c] = "none" /\ \A t \in Session : session[t].cafe # c
            /\ Goes(s, [r EXCEPT
                 !.cafe = c, !.step = "inserted",
                 !.seen = [u \in User |-> IF u \in r.managers
                                          THEN [@[u] EXCEPT !.cafe = c] ELSE @[u]],
                 !.writes = [u \in r.managers |-> [cafe |-> c]]])
       /\ UNCHANGED <<user, cafe, requests>>

----------------------------------------------------------------------------
\* The flush, one row after another

\* Who has written the row and not committed.
Holders(u) == {t \in Session : u \in DOMAIN session[t].flushed}

NextRowOfBody(r) ==                                                \* mutant
    IF r.kind = "POST_CAFE" THEN Max(DOMAIN r.writes) ELSE Min(DOMAIN r.writes)
NextRow(r) == Min(DOMAIN r.writes)
Flushing(s) == session[s].writes # NoWrites
Waits(s, t) == /\ Flushing(s) /\ s # t
               /\ t \in Holders(NextRow(session[s]))
HasRow(s) == Flushing(s) /\ \A t \in Session : ~Waits(s, t)

Overlay(row, columns) ==
    [f \in DOMAIN row |-> IF f \in DOMAIN columns THEN columns[f] ELSE row[f]]

\* The row as the request has it: another session holds nothing of it.
FlushedColumns(r, u) ==                                            \* mutant
    IF u \in DOMAIN r.flushed THEN r.flushed[u] ELSE user[u]
Flushed(r, u) == IF u \in DOMAIN r.flushed THEN Overlay(user[u], r.flushed[u]) ELSE user[u]
RowAfter(s) ==
    LET r == session[s] IN Overlay(Flushed(r, NextRow(r)), r.writes[NextRow(r)])

Merge(f, u, columns) ==
    [v \in DOMAIN f \cup {u} |-> IF v = u THEN columns ELSE f[v]]

WriteRow(s) ==
    LET r == session[s]
        u == NextRow(r)
    IN /\ HasRow(s) /\ CheckHolds(RowAfter(s))
       /\ Goes(s, [r EXCEPT
            !.writes = [v \in DOMAIN @ \ {u} |-> @[v]],
            !.flushed = Merge(@, u, r.writes[u])])
       /\ UNCHANGED <<user, cafe, requests>>

\* IntegrityError: a 500 from get_session, a 400 from cafe_crud.create,
\* UserAlreadyExistsError from user_crud.update; a rollback in each of them.
BreaksCheck(s) ==
    /\ HasRow(s) /\ ~CheckHolds(RowAfter(s))
    /\ Rollback(s)
    /\ UNCHANGED <<user, cafe, requests>>

\* PostgreSQL aborts a transaction that waits in a circle.
Circle(ring) == \A s \in ring : \E t \in ring : Waits(s, t)
InCircle(s) == \E ring \in SUBSET Session : s \in ring /\ Circle(ring)
                                            /\ \A t \in ring : \E x \in ring : Waits(x, t)
DeadlockAbort(s) ==
    /\ InCircle(s)
    /\ Rollback(s)
    /\ UNCHANGED <<user, cafe, requests>>

----------------------------------------------------------------------------
\* COMMIT, and what the others have not seen of it

Committed(r) == [u \in User |-> Flushed(r, u)]

AndSeenBy(s, next, r) ==
    [t \in Session |->
        IF t = s THEN next
        ELSE IF Busy(t) THEN [session[t] EXCEPT
            !.blind = @ \cup {u \in User : Committed(r)[u] # user[u]}]
        ELSE session[t]]

CommitCafe(s) ==
    LET r == session[s]
    IN /\ At(s, "inserted")
       /\ cafe' = [cafe EXCEPT ![r.cafe] = r.name]
       /\ user' = Committed(r)
       /\ session' = AndSeenBy(s, [r EXCEPT !.step = "reload", !.flushed = NoWrites], r)
       /\ UNCHANGED requests

\* create_cafe reads its cafe again.
Reload(s) ==
    LET r == session[s]
    IN /\ At(s, "reload")
       /\ Goes(s, [Rereading(r, Managers(r.cafe)) EXCEPT
                     !.current = Managers(r.cafe), !.step = "remove"])
       /\ UNCHANGED <<user, cafe, requests>>

----------------------------------------------------------------------------
\* The second transaction: set_managers

ToRemoveNobody(r) == {}                                            \* mutant
ToRemove(r) == r.current \ r.managers
ToAdd(r) == r.managers \ r.current

\* Each SELECT of set_managers flushes what was changed before it.
Assign(s, r, us, c, step) ==
    Goes(s, [r EXCEPT
        !.step = step,
        !.seen = [u \in User |-> IF u \in us THEN [@[u] EXCEPT !.cafe = c] ELSE @[u]],
        !.writes = [u \in {v \in us : r.seen[v].cafe # c} |-> [cafe |-> c]]])

Remove(s) ==
    /\ At(s, "remove")
    /\ Assign(s, session[s], ToRemove(session[s]), "none", "add")
    /\ UNCHANGED <<user, cafe, requests>>

Add(s) ==
    /\ At(s, "add")
    /\ Assign(s, session[s], ToAdd(session[s]), session[s].cafe, "commit")
    /\ UNCHANGED <<user, cafe, requests>>

\* get_session commits when the endpoint has returned; PATCH /users commits
\* in user_crud.update.
Commit(s) ==
    /\ At(s, "commit")
    /\ user' = Committed(session[s])
    /\ session' = AndSeenBy(s, NoRequest, session[s])
    /\ UNCHANGED <<cafe, requests>>

----------------------------------------------------------------------------
\* PATCH /users/{id}

\* ensure_user_update_allowed
MayGrant(r) ==                                                     \* mutant
    r.seen[r.actor].role = "ADMIN" \/ r.role # "ADMIN"
MayUpdate(r) ==
    r.seen[r.actor].role = "ADMIN"
        \/ (r.seen[r.target].role # "ADMIN" /\ r.role # "ADMIN")

WithTarget(r) == Reading(r, {r.target})

\* A role other than MANAGER takes the cafe away.
RoleAlone(r) == [role |-> r.role, cafe |-> r.seen[r.target].cafe]  \* mutant
NewRow(r) == [role |-> r.role,
              cafe |-> IF r.role = "MANAGER" THEN r.seen[r.target].cafe ELSE "none"]

ColumnsOf(r) ==
    LET changed == {f \in {"role", "cafe"} : NewRow(r)[f] # r.seen[r.target][f]}
    IN IF changed = {} THEN NoWrites
       ELSE [u \in {r.target} |-> [f \in changed |-> NewRow(r)[f]]]

LoadTarget(s) ==
    LET r == WithTarget(session[s])
    IN /\ At(s, "target") /\ MayUpdate(r)
       /\ Goes(s, [r EXCEPT !.step = "commit", !.writes = ColumnsOf(r)])
       /\ UNCHANGED <<user, cafe, requests>>

----------------------------------------------------------------------------
\* Answers of 400 and 403: what this transaction did is rolled back.

Refused(s) ==
    \/ At(s, "cafe") /\ ~MayManage(WithCafe(session[s]))
    \/ At(s, "roles") /\ ~RolesFit(session[s])
    \/ At(s, "name") /\ session[s].renames /\ NameTaken(session[s]) /\ ~NameAwaited(s)
    \/ At(s, "insert") /\ NameTaken(session[s]) /\ ~NameAwaited(s)
    \/ At(s, "target") /\ ~MayUpdate(WithTarget(session[s]))

Refuse(s) ==
    /\ Refused(s)
    /\ Rollback(s)
    /\ UNCHANGED <<user, cafe, requests>>

----------------------------------------------------------------------------

Init ==
    /\ user \in FirstUsers
    /\ cafe = FirstCafes
    /\ session = [s \in Session |-> NoRequest]
    /\ requests = 0

Arrive(s) ==
    \/ \E a \in User, c \in Cafe, body \in CafePatches : PatchCafe(s, a, c, body)
    \/ \E a \in User, body \in CafePosts : PostCafe(s, a, body)
    \/ \E a, u \in User, role \in RolePatches : PatchUser(s, a, u, role)

Proceed(s) ==
    \/ LoadCafe(s) \/ CheckRoles(s) \/ Rename(s) \/ Insert(s) \/ CommitCafe(s)
    \/ Reload(s) \/ Remove(s) \/ Add(s) \/ LoadTarget(s)
    \/ WriteRow(s) \/ BreaksCheck(s) \/ DeadlockAbort(s)
    \/ Commit(s) \/ Refuse(s)

Next == \E s \in Session : Arrive(s) \/ Proceed(s)

Spec == Init /\ [][Next]_vars

\* A request that was let in goes on; nothing forces one to arrive.
FairSpec == Spec /\ \A s \in Session : WF_vars(Proceed(s))

----------------------------------------------------------------------------
\* Properties

\* Rows, requests and what they have read and written keep their shape.
TypeOK ==
    /\ user \in [User -> UserRow]
    /\ cafe \in [Cafe -> Name \cup {"none"}]
    /\ DOMAIN session = Session /\ \A s \in Session : IsRequest(session[s])
    /\ requests \in 0 .. MaxRequests

\* Nobody manages a cafe that is not there, and only a MANAGER has a cafe; and
\* the code's own checks are enough for that: a flush meets the CHECK constraint
\* only for a user whom another request changed after this one had read them
\* (ensure_managers_exist_and_role, and cafe_id = None with the role).
ChecksAreEnough ==
    /\ \A u \in User : user[u].cafe # "none" => cafe[user[u].cafe] # "none"
    /\ \A u \in User : CheckHolds(user[u])
    /\ \A s \in Session : HasRow(s) /\ ~CheckHolds(RowAfter(s))
                            => NextRow(session[s]) \in session[s].blind

\* s commits in this step, and its request ends.
Commits(s) == At(s, "commit") /\ session'[s] = NoRequest

\* Past the first COMMIT of a request on a cafe: only set_managers is left.
Halfway(s) == /\ session[s].kind # "PATCH_USER"
              /\ session[s].step \in {"reload", "remove", "add", "commit"}

\* A request that names managers and succeeds leaves the cafe with exactly
\* them, but for users whom another request changed after this one had read
\* them (set_managers).  And one that has saved the cafe does not stop there
\* without its managers, except over such a user or in a circle: every check the
\* code makes comes before the first COMMIT (services/cafe.py:207-216, 235-249).
ManagersAreAsAsked ==
    [][\A s \in Session :
         /\ Commits(s) /\ "managers" \in session[s].sets =>
              \A u \in User \ session[s].blind :
                 user'[u].cafe = session[s].cafe <=> u \in session[s].managers
         /\ Halfway(s) /\ session'[s] = NoRequest /\ ~Commits(s) =>
              \/ session[s].blind \cap DOMAIN session[s].writes # {}
              \/ InCircle(s)]_vars

\* A request that a MANAGER sends changes an ADMIN, or makes one, only if
\* that user became ADMIN after the request had read them
\* (ensure_user_update_allowed and the CHECK constraint).
AdminsAreSafe ==
    [][\A s \in Session, u \in User :
         /\ Commits(s) /\ session[s].seen[session[s].actor].role = "MANAGER"
         /\ user'[u] # user[u] /\ "ADMIN" \in {user[u].role, user'[u].role}
         => u \in session[s].blind]_vars

\* Requests wait in a circle only if one of them has let a manager go and now
\* wants another whose key is smaller: whatever else the requests do, they
\* take the rows in one order.
CirclesAreSwaps ==
    \A s \in Session : InCircle(s) =>
        \E t \in Session : LET r == session[t] IN
            /\ Flushing(t) /\ r.kind # "PATCH_USER"
            /\ \E u \in DOMAIN r.flushed :
                 r.flushed[u] = [cafe |-> "none"] /\ NextRow(r) < u

\* Every request is answered, whatever it waits for.
EveryRequestEnds == \A s \in Session : Busy(s) ~> ~Busy(s)

=============================================================================
