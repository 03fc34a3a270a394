------------------------------ MODULE Accounts ------------------------------
(***************************************************************************)
(* Accounts: registration, login, and the PATCHes of /users/me and         *)
(* /users/{id} as far as contacts, passwords and is_active go, over the    *)
(* table users and the tokens in Redis.                                    *)
(*                                                                         *)
(* A request reads its rows once and decides on what it has read; it       *)
(* writes the columns that differ from that, and commits.  Two constraints *)
(* of the table back its checks: contacts are unique, and one of e-mail    *)
(* and phone is there.                                                     *)
(*                                                                         *)
(* A definition marked "mutant" takes no part in the specification: it is  *)
(* a plausible mistake in the definition after it, which a run must catch. *)
(***************************************************************************)
EXTENDS Integers, FiniteSets

CONSTANTS
    User,           \* primary keys of users, registered or yet to be
    Staff,          \* administrators; managers and changes of role are in Staff.tla
    Email, Phone,   \* normalized contacts, the unique columns under study
    Password,
    Token,          \* jti of tokens
    Session,        \* requests in flight at once
    FirstAccounts,  \* the tables a run may start with: functions from User to rows
    FirstTokens,    \* whose token each Token is at the start, or "nobody"
    Registrations,  \* the bodies of POST /users
    Patches,        \* the bodies of PATCH
    MaxRequests     \* bound: requests

Row == [known    : BOOLEAN,                 \* there is such a row
        email    : Email \cup {"none"},
        phone    : Phone \cup {"none"},
        password : Password \cup {"none"},  \* what hashed_password is the hash of
        old      : BOOLEAN,                 \* a hash with outdated parameters
        active   : BOOLEAN]

Unknown == [known |-> FALSE, email |-> "none", phone |-> "none",
            password |-> "none", old |-> FALSE, active |-> FALSE]

Contacts(row) == {row.email, row.phone} \ {"none"}

\* check_user_email_or_phone_not_null
ContactHolds(row) == Contacts(row) # {}

\* What a body may name of a row.
Fields == {"email", "phone", "password", "active"}
IsBody(body) ==
    /\ DOMAIN body \subseteq Fields
    /\ "email" \in DOMAIN body => body.email \in Email \cup {"none"}
    /\ "phone" \in DOMAIN body => body.phone \in Phone \cup {"none"}
    /\ "password" \in DOMAIN body => body.password \in Password
    /\ "active" \in DOMAIN body => body.active \in BOOLEAN

ASSUME AccountsAssumption ==
    /\ Staff \subseteq User /\ "nobody" \notin User
    /\ "none" \notin Email \cup Phone \cup Password /\ Email \cap Phone = {}
    /\ FirstAccounts \subseteq [User -> Row]
    /\ FirstTokens \in [Token -> User \cup {"nobody"}]
    /\ \A rows \in FirstAccounts, u, v \in User :
         /\ IF rows[u].known THEN ContactHolds(rows[u]) ELSE rows[u] = Unknown
         /\ u # v => Contacts(rows[u]) \cap Contacts(rows[v]) = {}
ASSUME BodiesAssumption ==
    /\ \A body \in Registrations :
         /\ body \in [email : Email \cup {"none"}, phone : Phone \cup {"none"},
                      password : Password]
         /\ ContactHolds(body)
    /\ \A body \in Patches : IsBody(body)
ASSUME BoundsAssumption == MaxRequests \in Nat

VARIABLES
    account,    \* User -> committed row
    token,      \* Token -> whose it is, "nobody" if it is yet to be issued
    session,    \* Session -> the request in flight
    requests    \* counter

vars == <<account, token, session, requests>>

----------------------------------------------------------------------------
\* Requests

NoRequest == [kind |-> "none", step |-> "none", actor |-> "nobody",
              target |-> "nobody", body |-> [f \in {} |-> FALSE],
              login |-> "none", seen |-> Unknown, blind |-> {}]

IsRequest(r) ==
    /\ DOMAIN r = DOMAIN NoRequest
    /\ r.kind \in {"none", "REGISTER", "LOGIN", "PATCH"}
    /\ r.step \in {"none", "actor", "target", "identity", "write",
                   "lookup", "rehash", "issue"}
    /\ r.actor \in User \cup {"nobody"} /\ r.target \in User \cup {"nobody"}
    /\ IsBody(r.body) /\ r.login \in Email \cup Phone \cup {"none"}
    /\ r.seen \in Row                       \* the target as this request read it
    /\ r.blind \subseteq User               \* committed by others since

Busy(s) == session[s].kind # "none"
At(s, step) == session[s].step = step

Goes(s, r) == session' = [session EXCEPT ![s] = r]
Ends(s) == Goes(s, NoRequest)

Reading(r, u) == [r EXCEPT !.target = u, !.seen = account[u], !.blind = @ \ {u}]

Arrives(s, r) ==
    /\ ~Busy(s) /\ requests < MaxRequests
    /\ requests' = requests + 1
    /\ Goes(s, r)
    /\ UNCHANGED <<account, token>>

Register(s, body) ==
    Arrives(s, [NoRequest EXCEPT !.kind = "REGISTER", !.step = "identity", !.body = body])

Login(s, login, password) ==
    Arrives(s, [NoRequest EXCEPT !.kind = "LOGIN", !.step = "lookup", !.login = login,
                                 !.body = [f \in {"password"} |-> password]])

\* What the endpoint keeps of the body: /users/me drops is_active.
FieldsFor(a, body) == IF a \in Staff THEN DOMAIN body ELSE DOMAIN body \ {"active"}

\* Redis has the token and gives it another lifetime.  A token that expires is
\* one nobody sends any more.
Patch(s, t, u, body) ==
    /\ token[t] # "nobody"
    /\ u = token[t] \/ token[t] \in Staff
    /\ Arrives(s, [NoRequest EXCEPT
         !.kind = "PATCH", !.step = "actor", !.actor = token[t], !.target = u,
         !.body = [f \in FieldsFor(token[t], body) |-> body[f]]])

----------------------------------------------------------------------------
\* PATCH and POST: loads and checks

\* get_current_user
MayAct(a) == account[a].known /\ account[a].active

\* ensure_contact_remains
ContactWasThere(r) == ContactHolds(r.seen)                         \* mutant
ContactRemains(r) ==
    \E f \in {"email", "phone"} :
        IF f \in DOMAIN r.body THEN r.body[f] # "none" ELSE r.seen[f] # "none"

LoadActor(s) ==
    LET r == session[s]
    IN /\ At(s, "actor") /\ MayAct(r.actor)
       /\ IF r.actor # r.target
          THEN Goes(s, [r EXCEPT !.step = "target", !.blind = @ \ {r.actor}])
          ELSE /\ ContactRemains(Reading(r, r.actor))
               /\ Goes(s, [Reading(r, r.actor) EXCEPT !.step = "identity"])
       /\ UNCHANGED <<account, token, requests>>

LoadTarget(s) ==
    LET r == Reading(session[s], session[s].target)
    IN /\ At(s, "target") /\ r.seen.known /\ ContactRemains(r)
       /\ Goes(s, [r EXCEPT !.step = "identity"])
       /\ UNCHANGED <<account, token, requests>>

\* _ensure_unique_identity
Holders(contacts, but) ==
    {u \in User \ {but} : Contacts(account[u]) \cap contacts # {}}
Named(r) == {r.body[f] : f \in {"email", "phone"} \cap DOMAIN r.body} \ {"none"}
IdentityIsFree(r) == Holders(Named(r), r.target) = {}

CheckIdentity(s) ==
    LET r == session[s]
    IN /\ At(s, "identity") /\ IdentityIsFree(r)
       /\ Goes(s, [r EXCEPT !.step = "write", !.blind = @ \cap {r.actor, r.target}])
       /\ UNCHANGED <<account, token, requests>>

----------------------------------------------------------------------------
\* COMMIT

Commits(s, u, row, next) ==
    /\ account' = [account EXCEPT ![u] = row]
    /\ session' = [x \in Session |->
         IF x = s THEN next
         ELSE IF Busy(x) /\ row # account[u] THEN [session[x] EXCEPT !.blind = @ \cup {u}]
         ELSE session[x]]
    /\ UNCHANGED <<token, requests>>

\* The flush writes what differs from the row as read; a password is hashed anew.
Written(r) == {f \in DOMAIN r.body : f = "password" \/ r.body[f] # r.seen[f]}
RegisteredAsNamed(body) == body                                    \* mutant
Registered(body) ==
    [known |-> TRUE, email |-> body.email, phone |-> body.phone,
     password |-> body.password, old |-> FALSE, active |-> TRUE]
PatchedAsRead(row, r) ==                                           \* mutant
    [f \in DOMAIN row |-> IF f \in Written(r) THEN r.body[f] ELSE r.seen[f]]
Patched(row, r) ==
    [f \in DOMAIN row |-> IF f \in Written(r) THEN r.body[f]
                          ELSE IF f = "old" THEN row.old /\ "password" \notin Written(r)
                          ELSE row[f]]

\* The rows a request may leave: a new one, or its target overlaid.
NewRow(r, u) ==
    IF r.kind = "REGISTER" THEN Registered(r.body) ELSE Patched(account[u], r)
TargetOf(r, u) == IF r.kind = "REGISTER" THEN ~account[u].known ELSE u = r.target

Accepted(u, row) == ContactHolds(row) /\ Holders(Contacts(row), u) = {}

Write(s) ==
    /\ At(s, "write")
    /\ \E u \in User :
         /\ TargetOf(session[s], u) /\ Accepted(u, NewRow(session[s], u))
         /\ Commits(s, u, NewRow(session[s], u), NoRequest)

\* Any IntegrityError is answered by UserAlreadyExistsError.
Conflict(s) ==
    /\ At(s, "write")
    /\ \E u \in User : TargetOf(session[s], u) /\ ~Accepted(u, NewRow(session[s], u))
    /\ Ends(s)
    /\ UNCHANGED <<account, token, requests>>

----------------------------------------------------------------------------
\* Login

Matches(u, login) == login \in Contacts(account[u])

VerifiesAlways(u, password) == account[u].active                   \* mutant
VerifiesOnlyPassword(u, password) == account[u].password = password \* mutant
Verifies(u, password) == account[u].password = password /\ account[u].active

LookUp(s) ==
    LET r == session[s]
    IN /\ At(s, "lookup")
       /\ \E u \in User :
            /\ Matches(u, r.login) /\ Verifies(u, r.body.password)
            /\ Goes(s, [Reading(r, u) EXCEPT
                          !.step = IF account[u].old THEN "rehash" ELSE "issue"])
       /\ UNCHANGED <<account, token, requests>>

\* verify_password has made a new hash of the password given: it is stored.
Rehash(s) ==
    LET r == session[s]
    IN /\ At(s, "rehash")
       /\ Commits(s, r.target,
                  [account[r.target] EXCEPT !.password = r.body.password, !.old = FALSE],
                  [r EXCEPT !.step = "issue"])

\* create_access_token, register_access_token
Issue(s) ==
    /\ At(s, "issue")
    /\ \E t \in Token :
         /\ token[t] = "nobody"
         /\ token' = [token EXCEPT ![t] = session[s].target]
    /\ Ends(s)
    /\ UNCHANGED <<account, requests>>

----------------------------------------------------------------------------
\* Answers that change nothing

Refused(s) ==
    LET r == session[s]
    IN \/ At(s, "actor") /\ ~MayAct(r.actor)
       \/ At(s, "actor") /\ r.actor = r.target /\ ~ContactRemains(Reading(r, r.target))
       \/ At(s, "target") /\ ~account[r.target].known
       \/ At(s, "target") /\ ~ContactRemains(Reading(r, r.target))
       \/ At(s, "identity") /\ ~IdentityIsFree(r)
       \/ At(s, "lookup") /\ \A u \in User :
              Matches(u, r.login) => ~Verifies(u, r.body.password)

Refuse(s) ==
    /\ Refused(s)
    /\ Ends(s)
    /\ UNCHANGED <<account, token, requests>>

----------------------------------------------------------------------------

Init ==
    /\ account \in FirstAccounts
    /\ token = FirstTokens
    /\ session = [s \in Session |-> NoRequest]
    /\ requests = 0

Arrive(s) ==
    \/ \E body \in Registrations : Register(s, body)
    \/ \E login \in Email \cup Phone, password \in Password : Login(s, login, password)
    \/ \E t \in Token, u \in User, body \in Patches : Patch(s, t, u, body)

Proceed(s) ==
    \/ LoadActor(s) \/ LoadTarget(s) \/ CheckIdentity(s) \/ Write(s) \/ Conflict(s)
    \/ LookUp(s) \/ Rehash(s) \/ Issue(s) \/ Refuse(s)

Next == \E s \in Session : Arrive(s) \/ Proceed(s)

Spec == Init /\ [][Next]_vars

----------------------------------------------------------------------------
\* Properties

\* Rows, tokens and requests keep their shape.
TypeOK ==
    /\ account \in [User -> Row]
    /\ token \in [Token -> User \cup {"nobody"}]
    /\ DOMAIN session = Session /\ \A s \in Session : IsRequest(session[s])
    /\ requests \in 0 .. MaxRequests

\* A constraint of the table refuses a request ("such a user already exists",
\* crud/user.py:128-130) only if another request has changed the target since
\* it was loaded, or has taken one of its contacts since that was looked up:
\* the checks of the code leave nothing else to the constraints.
ConflictsAreRaces ==
    \A s \in Session, u \in User :
        At(s, "write") /\ TargetOf(session[s], u) /\ ~Accepted(u, NewRow(session[s], u))
          => \/ u \in session[s].blind
             \/ Holders(Contacts(NewRow(session[s], u)), u) \cap session[s].blind # {}

\* s writes and ends in this step.
Writes(s) == At(s, "write") /\ session'[s] = NoRequest /\ account' # account

\* A PATCH that commits leaves each column it names as asked, unless another
\* request changed the row meanwhile, and never touches a column it does not
\* name, whatever it read there (crud/user.py:92-97).  Only staff may name
\* is_active.  And whoever sends it is active, or was deactivated after
\* get_current_user had let him in (core/user.py:121-124).
PatchesTakeEffect ==
    [][\A s \in Session :
         LET r == session[s]
         IN r.kind = "PATCH" /\ Writes(s) =>
              /\ \A f \in Fields :
                   IF f \in DOMAIN r.body
                   THEN account'[r.target][f] = r.body[f] \/ r.target \in r.blind
                   ELSE account'[r.target][f] = account[r.target][f]
              /\ account'[r.target].active # account[r.target].active => r.actor \in Staff
              /\ account[r.actor].active \/ r.actor \in r.blind]_vars

\* A password changes because a PATCH names it; or because a login that read
\* the row before such a PATCH stores its new hash of the password it read
\* (api/endpoints/user.py:64-66): then the old password is back.
PasswordsChangeOnPurpose ==
    [][\A u \in User : account[u].known /\ account'[u].password # account[u].password =>
         \E s \in Session :
            LET r == session[s]
            IN /\ r.target = u /\ session'[s] # r
               /\ \/ r.kind = "PATCH" /\ At(s, "write") /\ "password" \in DOMAIN r.body
                  \/ r.kind = "LOGIN" /\ At(s, "rehash") /\ u \in r.blind]_vars

\* A token is given to an active user for the user's password and contact,
\* unless these changed while the password was being verified; and it stays
\* that user's (api/endpoints/user.py:56-72).
TokensAreEarned ==
    [][\A t \in Token : token'[t] # token[t] =>
         /\ token[t] = "nobody"
         /\ \E s \in Session :
              LET r == session[s]
                  row == account[r.target]
              IN /\ At(s, "issue") /\ session'[s] = NoRequest
                 /\ token'[t] = r.target
                 /\ \/ row.active /\ row.password = r.body.password
                                  /\ r.login \in Contacts(row)
                    \/ r.target \in r.blind]_vars

=============================================================================
