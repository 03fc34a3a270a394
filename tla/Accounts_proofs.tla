--------------------------- MODULE Accounts_proofs ---------------------------
(***************************************************************************)
(* Proofs about Accounts, for every set of users, contacts, passwords and  *)
(* tokens, every body and any number of requests at once.                  *)
(*                                                                         *)
(* A request decides on rows it has read.  The invariant IsSound says, for *)
(* each kind of request and each step it has come to, what of that is      *)
(* still true unless the user concerned is in "blind": the row of the      *)
(* target is as seen, the contacts the body names are free, the password   *)
(* that was verified is still the user's.                                  *)
(***************************************************************************)
EXTENDS Accounts, TLAPS

\* What LookUp has found out about the user who logs in.
Proven(r) ==
    /\ account[r.target].active /\ account[r.target].password = r.body["password"]
    /\ r.login \in Contacts(account[r.target])

\* A login past its lookup.
LoginIsSound(r) ==
    /\ r.step \in {"lookup", "rehash", "issue"}
    /\ DOMAIN r.body = {"password"} /\ r.login # "none"
    /\ r.step # "lookup" => r.target \in User /\ (r.target \in r.blind \/ Proven(r))

\* A registration has no target; its body is whole.
RegistrationIsSound(r) ==
    /\ r.step \in {"identity", "write"}
    /\ r.target = "nobody" /\ r.body \in Registrations

PatchIsSound(r) ==
    /\ r.step \in {"actor", "target", "identity", "write"}
    /\ r.target \in User /\ r.actor \in User
    /\ "active" \in DOMAIN r.body => r.actor \in Staff
    /\ r.step = "target" => r.actor # r.target
    /\ r.step # "actor" => r.actor \in r.blind \/ account[r.actor].active
    /\ r.step \in {"identity", "write"} =>
         /\ ContactRemains(r)
         /\ r.target \in r.blind \/ account[r.target] = r.seen

\* _ensure_unique_identity has looked: nobody else has what the body names.
IdentityStaysFree(r) ==
    \A u \in User \ (r.blind \cup {r.target}) : Contacts(account[u]) \cap Named(r) = {}

IsSound(r) ==
    /\ r.kind = "none" => r.step = "none"
    /\ r.kind = "LOGIN" => LoginIsSound(r)
    /\ r.kind = "REGISTER" => RegistrationIsSound(r)
    /\ r.kind = "PATCH" => PatchIsSound(r)
    /\ r.step = "write" => IdentityStaysFree(r)

RequestsAreSound == \A s \in Session : IsSound(session[s])

\* The constraint unique on contacts, with the rows it compares.
ContactsAreUnique ==
    \A u, v \in User : u # v => Contacts(account[u]) \cap Contacts(account[v]) = {}

Inv == TypeOK /\ RequestsAreSound /\ ContactsAreUnique

----------------------------------------------------------------------------
\* Requests and rows, piece by piece

RequestFields == {"kind", "step", "actor", "target", "body", "login", "seen", "blind"}

LEMMA NoRequestIsSound ==
    /\ IsRequest(NoRequest) /\ DOMAIN NoRequest = RequestFields
    /\ NoRequest.kind = "none" /\ NoRequest.step = "none"
    /\ NoRequest.blind = {} /\ NoRequest.seen = Unknown
    /\ NoRequest.actor = "nobody" /\ NoRequest.target = "nobody" /\ NoRequest.login = "none"
<1>1. DOMAIN [f \in {} |-> FALSE] = {}
  OBVIOUS
<1>2. IsBody(NoRequest.body)
  BY <1>1 DEF NoRequest, IsBody, Fields
<1>3. Unknown \in Row
  BY DEF Unknown, Row
<1> QED BY <1>2, <1>3 DEF IsRequest, NoRequest, RequestFields

LEMMA GoesEffect ==
    ASSUME DOMAIN session = Session, NEW s \in Session, NEW r, Goes(s, r)
    PROVE  /\ DOMAIN session' = Session /\ session'[s] = r
           /\ \A x \in Session \ {s} : session'[x] = session[x]
  BY DEF Goes

\* The same request further on.
LEMMA StepEffect ==
    ASSUME NEW r, IsRequest(r), NEW step, NEW q, q = [r EXCEPT !.step = step]
    PROVE  /\ DOMAIN q = DOMAIN r /\ q.kind = r.kind /\ q.step = step /\ q.actor = r.actor
           /\ q.target = r.target /\ q.body = r.body /\ q.login = r.login
           /\ q.seen = r.seen /\ q.blind = r.blind
  BY NoRequestIsSound DEF IsRequest, RequestFields

LEMMA ReadingEffect ==
    ASSUME NEW r, IsRequest(r), NEW u, NEW q, q = Reading(r, u)
    PROVE  /\ DOMAIN q = DOMAIN r /\ q.kind = r.kind /\ q.step = r.step /\ q.actor = r.actor
           /\ q.target = u /\ q.body = r.body /\ q.login = r.login
           /\ q.seen = account[u] /\ q.blind = r.blind \ {u}
  BY NoRequestIsSound DEF IsRequest, RequestFields, Reading

\* What a request leaves of its target is a row again.
LEMMA PatchedType ==
    ASSUME NEW row \in Row, NEW r, IsRequest(r)
    PROVE  /\ Patched(row, r) \in Row
           /\ \A f \in Fields :
                Patched(row, r)[f] = IF f \in Written(r) THEN r.body[f] ELSE row[f]
<1>1. DOMAIN row = {"known", "email", "phone", "password", "old", "active"}
  BY DEF Row
<1>2. /\ DOMAIN r.body \subseteq Fields
      /\ "email" \in DOMAIN r.body => r.body["email"] \in Email \cup {"none"}
      /\ "phone" \in DOMAIN r.body => r.body["phone"] \in Phone \cup {"none"}
      /\ "password" \in DOMAIN r.body => r.body["password"] \in Password
      /\ "active" \in DOMAIN r.body => r.body["active"] \in BOOLEAN
  BY DEF IsRequest, IsBody
<1>3. Written(r) \subseteq DOMAIN r.body
  BY DEF Written
<1>4. ASSUME NEW f \in Fields
      PROVE  Patched(row, r)[f] = IF f \in Written(r) THEN r.body[f] ELSE row[f]
  BY <1>1 DEF Patched, Fields
<1>5. Patched(row, r) \in Row
  BY <1>1, <1>2, <1>3 DEF Patched, Row, Fields
<1> QED BY <1>4, <1>5

LEMMA RegisteredType ==
    ASSUME NEW body \in Registrations
    PROVE  /\ Registered(body) \in Row /\ IsBody(body) /\ ContactHolds(Registered(body))
           /\ Contacts(Registered(body)) = {body["email"], body["phone"]} \ {"none"}
           /\ DOMAIN body = {"email", "phone", "password"}
  BY BodiesAssumption DEF Registered, Row, IsBody, Fields, ContactHolds, Contacts

----------------------------------------------------------------------------
\* The request of s takes a step that writes nothing: it stays sound.

LEMMA ArrivesSound ==
    ASSUME Inv, NEW s \in Session, Arrive(s)
    PROVE  /\ UNCHANGED <<account, token>>
           /\ \E q : Goes(s, q) /\ IsRequest(q) /\ IsSound(q)
           /\ requests' \in 0 .. MaxRequests
<1>1. ASSUME NEW q, Arrives(s, q)
      PROVE  Goes(s, q) /\ UNCHANGED <<account, token>> /\ requests' \in 0 .. MaxRequests
  BY <1>1, BoundsAssumption DEF Arrives, Inv, TypeOK
<1>2. ASSUME NEW body \in Registrations, Register(s, body)
      PROVE  \E q : Arrives(s, q) /\ IsRequest(q) /\ IsSound(q)
  <2> PICK q : q = [NoRequest EXCEPT !.kind = "REGISTER", !.step = "identity", !.body = body]
    OBVIOUS
  <2>1. DOMAIN q = DOMAIN NoRequest /\ q.kind = "REGISTER" /\ q.step = "identity"
        /\ q.actor = "nobody" /\ q.target = "nobody" /\ q.body = body
        /\ q.login = "none" /\ q.seen = Unknown /\ q.blind = {}
    BY NoRequestIsSound DEF NoRequest
  <2>2. IsRequest(q)
    BY <2>1, NoRequestIsSound, RegisteredType DEF IsRequest
  <2>3. IsSound(q)
    BY <2>1 DEF IsSound, RegistrationIsSound
  <2> QED BY <1>2, <2>2, <2>3 DEF Register
<1>3. ASSUME NEW login \in Email \cup Phone, NEW password \in Password, Login(s, login, password)
      PROVE  \E q : Arrives(s, q) /\ IsRequest(q) /\ IsSound(q)
  <2> PICK body : body = [f \in {"password"} |-> password]
    OBVIOUS
  <2> PICK q : q = [NoRequest EXCEPT !.kind = "LOGIN", !.step = "lookup", !.login = login,
                                     !.body = body]
    OBVIOUS
  <2>1. DOMAIN q = DOMAIN NoRequest /\ q.kind = "LOGIN" /\ q.step = "lookup"
        /\ q.actor = "nobody" /\ q.target = "nobody" /\ q.body = body
        /\ q.login = login /\ q.seen = Unknown /\ q.blind = {}
    BY NoRequestIsSound DEF NoRequest
  <2>2. DOMAIN body = {"password"} /\ IsBody(body)
    BY DEF IsBody, Fields
  <2>3. IsRequest(q)
    BY <2>1, <2>2, NoRequestIsSound DEF IsRequest
  <2>4. IsSound(q)
    BY <2>1, <2>2, AccountsAssumption DEF IsSound, LoginIsSound
  <2> QED BY <1>3, <2>3, <2>4 DEF Login
<1>4. ASSUME NEW t \in Token, NEW u \in User, NEW patch \in Patches, Patch(s, t, u, patch)
      PROVE  \E q : Arrives(s, q) /\ IsRequest(q) /\ IsSound(q)
  <2> DEFINE a == token[t]
  <2> PICK body : body = [f \in FieldsFor(a, patch) |-> patch[f]]
    OBVIOUS
  <2> PICK q : q = [NoRequest EXCEPT !.kind = "PATCH", !.step = "actor", !.actor = a,
                                     !.target = u, !.body = body]
    OBVIOUS
  <2>1. DOMAIN q = DOMAIN NoRequest /\ q.kind = "PATCH" /\ q.step = "actor"
        /\ q.actor = a /\ q.target = u /\ q.body = body
        /\ q.login = "none" /\ q.seen = Unknown /\ q.blind = {}
    BY NoRequestIsSound DEF NoRequest
  <2>2. a \in User
    BY <1>4 DEF Patch, Inv, TypeOK
  <2>3. IsBody(patch)
    BY BodiesAssumption
  <2>4. /\ DOMAIN body = FieldsFor(a, patch) /\ DOMAIN body \subseteq DOMAIN patch
        /\ \A f \in DOMAIN body : body[f] = patch[f]
        /\ "active" \in DOMAIN body => a \in Staff
    BY DEF FieldsFor
  <2>5. IsBody(body)
    BY <2>3, <2>4 DEF IsBody
  <2>6. IsRequest(q)
    BY <2>1, <2>2, <2>5, NoRequestIsSound DEF IsRequest
  <2>7. IsSound(q)
    BY <2>1, <2>2, <2>4 DEF IsSound, PatchIsSound
  <2> QED BY <1>4, <2>6, <2>7 DEF Patch
<1> QED BY <1>1, <1>2, <1>3, <1>4 DEF Arrive

LEMMA ReadsSound ==
    ASSUME Inv, NEW s \in Session,
           LoadActor(s) \/ LoadTarget(s) \/ CheckIdentity(s) \/ LookUp(s)
    PROVE  \E q : Goes(s, q) /\ IsRequest(q) /\ IsSound(q)
<1> PICK r : r = session[s]
  OBVIOUS
<1>0. IsRequest(r) /\ IsSound(r) /\ account \in [User -> Row]
  BY DEF Inv, TypeOK, RequestsAreSound
<1>1. CASE LoadActor(s)
  <2>0. r.step = "actor" /\ r.kind = "PATCH" /\ r.actor \in User /\ r.target \in User
        /\ ("active" \in DOMAIN r.body => r.actor \in Staff)
    BY <1>0, <1>1 DEF LoadActor, At, IsSound, LoginIsSound, RegistrationIsSound, PatchIsSound,
                      IsRequest
  <2>1. CASE r.actor # r.target
    <3> PICK q : q = [r EXCEPT !.step = "target", !.blind = @ \ {r.actor}]
      OBVIOUS
    <3>1. /\ DOMAIN q = DOMAIN r /\ q.kind = r.kind /\ q.step = "target" /\ q.actor = r.actor
          /\ q.target = r.target /\ q.body = r.body /\ q.login = r.login
          /\ q.seen = r.seen /\ q.blind = r.blind \ {r.actor}
      BY <1>0, NoRequestIsSound DEF IsRequest, RequestFields
    <3>2. IsRequest(q)
      BY <1>0, <3>1 DEF IsRequest
    <3>3. IsSound(q)
      BY <1>1, <2>0, <2>1, <3>1 DEF IsSound, PatchIsSound, LoadActor, MayAct
    <3> QED BY <1>1, <2>1, <3>2, <3>3 DEF LoadActor
  <2>2. CASE r.actor = r.target
    <3> PICK p : p = Reading(r, r.actor)
      OBVIOUS
    <3> PICK q : q = [p EXCEPT !.step = "identity"]
      OBVIOUS
    <3>1. /\ DOMAIN p = DOMAIN r /\ p.kind = r.kind /\ p.step = r.step /\ p.actor = r.actor
          /\ p.target = r.actor /\ p.body = r.body /\ p.login = r.login
          /\ p.seen = account[r.actor] /\ p.blind = r.blind \ {r.actor}
      BY <1>0, ReadingEffect
    <3>2. IsRequest(p)
      BY <1>0, <2>0, <3>1 DEF IsRequest
    <3>3. /\ DOMAIN q = DOMAIN p /\ q.kind = p.kind /\ q.step = "identity"
          /\ q.actor = p.actor /\ q.target = p.target /\ q.body = p.body
          /\ q.login = p.login /\ q.seen = p.seen /\ q.blind = p.blind
      BY <3>2, StepEffect
    <3>4. ContactRemains(p) /\ Goes(s, q) /\ account[r.actor].active
      BY <1>1, <2>2 DEF LoadActor, MayAct
    <3>5. IsRequest(q)
      BY <3>2, <3>3 DEF IsRequest
    <3>6. IsSound(q)
      BY <2>0, <3>1, <3>3, <3>4 DEF IsSound, PatchIsSound, ContactRemains
    <3> QED BY <3>4, <3>5, <3>6
  <2> QED BY <2>1, <2>2
<1>2. CASE LoadTarget(s)
  <2>0. r.step = "target" /\ r.kind = "PATCH" /\ r.actor \in User /\ r.target \in User
        /\ ("active" \in DOMAIN r.body => r.actor \in Staff)
        /\ r.actor # r.target /\ (r.actor \in r.blind \/ account[r.actor].active)
    BY <1>0, <1>2 DEF LoadTarget, At, IsSound, LoginIsSound, RegistrationIsSound, PatchIsSound,
                      IsRequest
  <2> PICK p : p = Reading(r, r.target)
    OBVIOUS
  <2> PICK q : q = [p EXCEPT !.step = "identity"]
    OBVIOUS
  <2>1. /\ DOMAIN p = DOMAIN r /\ p.kind = r.kind /\ p.step = r.step /\ p.actor = r.actor
        /\ p.target = r.target /\ p.body = r.body /\ p.login = r.login
        /\ p.seen = account[r.target] /\ p.blind = r.blind \ {r.target}
    BY <1>0, ReadingEffect
  <2>2. IsRequest(p)
    BY <1>0, <2>0, <2>1 DEF IsRequest
  <2>3. /\ DOMAIN q = DOMAIN p /\ q.kind = p.kind /\ q.step = "identity"
        /\ q.actor = p.actor /\ q.target = p.target /\ q.body = p.body
        /\ q.login = p.login /\ q.seen = p.seen /\ q.blind = p.blind
    BY <2>2, StepEffect
  <2>4. ContactRemains(p) /\ Goes(s, q)
    BY <1>2 DEF LoadTarget
  <2>5. IsRequest(q)
    BY <2>2, <2>3 DEF IsRequest
  <2>6. IsSound(q)
    BY <2>0, <2>1, <2>3, <2>4 DEF IsSound, PatchIsSound, ContactRemains
  <2> QED BY <2>4, <2>5, <2>6
<1>3. CASE CheckIdentity(s)
  <2> PICK q : q = [r EXCEPT !.step = "write", !.blind = @ \cap {r.actor, r.target}]
    OBVIOUS
  <2>1. /\ DOMAIN q = DOMAIN r /\ q.kind = r.kind /\ q.step = "write" /\ q.actor = r.actor
        /\ q.target = r.target /\ q.body = r.body /\ q.login = r.login
        /\ q.seen = r.seen /\ q.blind = r.blind \cap {r.actor, r.target}
    BY <1>0, NoRequestIsSound DEF IsRequest, RequestFields
  <2>2. IsRequest(q)
    BY <1>0, <2>1 DEF IsRequest
  <2>3. r.step = "identity" /\ Named(q) = Named(r) /\ Holders(Named(r), r.target) = {}
        /\ Goes(s, q)
    BY <1>3, <2>1 DEF CheckIdentity, At, IdentityIsFree, Named
  <2>4. IdentityStaysFree(q)
    BY <2>1, <2>3 DEF IdentityStaysFree, Holders
  <2>5. IsSound(q)
    BY <1>0, <2>1, <2>3, <2>4
    DEF IsSound, LoginIsSound, RegistrationIsSound, PatchIsSound, ContactRemains
  <2> QED BY <2>2, <2>3, <2>5
<1>4. CASE LookUp(s)
  <2>0. /\ r.step = "lookup" /\ r.kind = "LOGIN" /\ DOMAIN r.body = {"password"}
        /\ r.login # "none"
    BY <1>0, <1>4 DEF LookUp, At, IsSound, LoginIsSound, RegistrationIsSound, PatchIsSound,
                      IsRequest
  <2> PICK u \in User, step \in {"rehash", "issue"} :
          /\ r.login \in Contacts(account[u])
          /\ account[u].password = r.body["password"] /\ account[u].active
          /\ Goes(s, [Reading(r, u) EXCEPT !.step = step])
    BY <1>4 DEF LookUp, Matches, Verifies
  <2> PICK p : p = Reading(r, u)
    OBVIOUS
  <2> PICK q : q = [p EXCEPT !.step = step]
    OBVIOUS
  <2>1. /\ DOMAIN p = DOMAIN r /\ p.kind = r.kind /\ p.step = r.step /\ p.actor = r.actor
        /\ p.target = u /\ p.body = r.body /\ p.login = r.login
        /\ p.seen = account[u] /\ p.blind = r.blind \ {u}
    BY <1>0, ReadingEffect
  <2>2. IsRequest(p)
    BY <1>0, <2>1 DEF IsRequest
  <2>3. /\ DOMAIN q = DOMAIN p /\ q.kind = p.kind /\ q.step = step
        /\ q.actor = p.actor /\ q.target = p.target /\ q.body = p.body
        /\ q.login = p.login /\ q.seen = p.seen /\ q.blind = p.blind
    BY <2>2, StepEffect
  <2>4. IsRequest(q)
    BY <2>2, <2>3 DEF IsRequest
  <2>5. IsSound(q)
    BY <2>0, <2>1, <2>3 DEF IsSound, LoginIsSound, Proven
  <2> QED BY <2>4, <2>5
<1> QED BY <1>1, <1>2, <1>3, <1>4

----------------------------------------------------------------------------
\* COMMIT: one row, and who has not seen it

\* q is the request r was, and may have seen less.
Kept(q, r) ==
    /\ q.kind = r.kind /\ q.step = r.step /\ q.actor = r.actor /\ q.target = r.target
    /\ q.body = r.body /\ q.login = r.login /\ q.seen = r.seen /\ r.blind \subseteq q.blind

LEMMA CommitsEffect ==
    ASSUME TypeOK, NEW s \in Session, NEW u \in User, NEW row, NEW next, Commits(s, u, row, next)
    PROVE  /\ account' = [account EXCEPT ![u] = row] /\ UNCHANGED <<token, requests>>
           /\ DOMAIN session' = Session /\ session'[s] = next
           /\ \A x \in Session \ {s} :
                /\ IsRequest(session'[x]) /\ Kept(session'[x], session[x])
                /\ Busy(x) /\ row # account[u] => u \in session'[x].blind
<1>1. ASSUME NEW x \in Session \ {s}
      PROVE  /\ IsRequest(session'[x]) /\ Kept(session'[x], session[x])
             /\ Busy(x) /\ row # account[u] => u \in session'[x].blind
  <2> PICK r : r = session[x]
    OBVIOUS
  <2> PICK q : q = session'[x]
    OBVIOUS
  <2>1. IsRequest(r)
    BY DEF TypeOK
  <2>2. CASE Busy(x) /\ row # account[u]
    <3>1. q = [r EXCEPT !.blind = @ \cup {u}]
      BY <2>2 DEF Commits
    <3>2. /\ DOMAIN q = DOMAIN r /\ q.kind = r.kind /\ q.step = r.step /\ q.actor = r.actor
          /\ q.target = r.target /\ q.body = r.body /\ q.login = r.login
          /\ q.seen = r.seen /\ q.blind = r.blind \cup {u}
      BY <2>1, <3>1, NoRequestIsSound DEF IsRequest, RequestFields
    <3>3. IsRequest(q)
      BY <2>1, <3>2 DEF IsRequest
    <3> QED BY <3>2, <3>3 DEF Kept
  <2>3. CASE ~(Busy(x) /\ row # account[u])
    <3>1. q = r
      BY <2>3 DEF Commits
    <3> QED BY <2>1, <2>3, <3>1 DEF Kept
  <2> QED BY <2>2, <2>3
<1> QED BY <1>1 DEF Commits

\* What a request knows stays true of the rows it knows to be as they were.
LEMMA SoundStays ==
    ASSUME NEW r, NEW q, IsSound(r), Kept(q, r),
           r.kind # "none" => \A u \in User \ q.blind : account'[u] = account[u]
    PROVE  IsSound(q)'
<1>1. CASE r.kind = "none"
  BY <1>1 DEF IsSound, Kept
<1>2. CASE r.kind # "none"
  <2>1. r.kind = "LOGIN" => LoginIsSound(q)'
    BY <1>2 DEF IsSound, Kept, LoginIsSound, Proven
  <2>2. r.kind = "REGISTER" => RegistrationIsSound(q)'
    BY DEF IsSound, Kept, RegistrationIsSound
  <2>3. r.kind = "PATCH" => PatchIsSound(q)'
    BY <1>2 DEF IsSound, Kept, PatchIsSound, ContactRemains
  <2>4. r.step = "write" => IdentityStaysFree(q)'
    <3>1. Named(q) = Named(r)
      BY DEF Kept, Named
    <3> QED BY <1>2, <3>1 DEF IsSound, Kept, IdentityStaysFree
  <2> QED BY <1>2, <2>1, <2>2, <2>3, <2>4 DEF Kept, IsSound
<1> QED BY <1>1, <1>2

\* The two actions that commit, with the row they leave.
LEMMA WriteEffect ==
    ASSUME Inv, NEW s \in Session, Write(s)
    PROVE  \E u \in User, row \in Row :
             /\ TargetOf(session[s], u) /\ Accepted(u, row)
             /\ row = NewRow(session[s], u)
             /\ Commits(s, u, row, NoRequest)
<1> PICK u \in User : /\ TargetOf(session[s], u) /\ Accepted(u, NewRow(session[s], u))
                      /\ Commits(s, u, NewRow(session[s], u), NoRequest)
  BY DEF Write
<1>1. IsRequest(session[s]) /\ IsSound(session[s]) /\ account[u] \in Row
  BY DEF Inv, TypeOK, RequestsAreSound
<1>2. NewRow(session[s], u) \in Row
  BY <1>1, PatchedType, RegisteredType DEF NewRow, IsSound, RegistrationIsSound
<1> QED BY <1>2

LEMMA RehashEffect ==
    ASSUME Inv, NEW s \in Session, Rehash(s)
    PROVE  LET r == session[s]
               u == r.target
           IN  /\ r.kind = "LOGIN" /\ r.step = "rehash" /\ u \in User
               /\ u \in r.blind \/ Proven(r)
               /\ \E row \in Row : \E q :
                    /\ row = [account[u] EXCEPT !.password = r.body["password"], !.old = FALSE]
                    /\ Contacts(row) = Contacts(account[u]) /\ row.active = account[u].active
                    /\ q = [r EXCEPT !.step = "issue"] /\ IsRequest(q)
                    /\ q.kind = "LOGIN" /\ q.step = "issue" /\ q.target = u
                    /\ q.body = r.body /\ q.login = r.login /\ q.blind = r.blind
                    /\ Commits(s, u, row, q)
<1> PICK r : r = session[s]
  OBVIOUS
<1>1. IsRequest(r) /\ IsSound(r) /\ r.step = "rehash"
  BY DEF Inv, TypeOK, RequestsAreSound, Rehash, At
<1>2. r.kind = "LOGIN"
  BY <1>1 DEF IsRequest, IsSound, RegistrationIsSound, PatchIsSound
<1>3. /\ r.target \in User /\ account[r.target] \in Row
      /\ DOMAIN r.body = {"password"} /\ r.body["password"] \in Password
      /\ r.target \in r.blind \/ Proven(r)
  BY <1>1, <1>2 DEF IsSound, LoginIsSound, IsRequest, IsBody, Inv, TypeOK
<1> PICK old \in Row, password \in Password : old = account[r.target] /\ password = r.body["password"]
  BY <1>3
<1> PICK row : row = [old EXCEPT !.password = password, !.old = FALSE]
  OBVIOUS
<1>4. row \in Row /\ Contacts(row) = Contacts(old) /\ row.active = old.active
  BY DEF Row, Contacts
<1> PICK q : q = [r EXCEPT !.step = "issue"]
  OBVIOUS
<1>5. /\ DOMAIN q = DOMAIN r /\ q.kind = r.kind /\ q.step = "issue" /\ q.actor = r.actor
      /\ q.target = r.target /\ q.body = r.body /\ q.login = r.login
      /\ q.seen = r.seen /\ q.blind = r.blind
  BY <1>1, StepEffect
<1>6. IsRequest(q)
  BY <1>1, <1>5 DEF IsRequest
<1>7. Commits(s, r.target, row, q)
  BY DEF Rehash
<1> QED BY <1>1, <1>2, <1>3, <1>4, <1>5, <1>6, <1>7

----------------------------------------------------------------------------
\* The invariant

LEMMA InitInv == Init => Inv
<1> SUFFICES ASSUME Init PROVE Inv
  OBVIOUS
<1>1. TypeOK
  BY NoRequestIsSound, AccountsAssumption, BoundsAssumption DEF Init, TypeOK
<1>2. RequestsAreSound
  BY NoRequestIsSound DEF Init, RequestsAreSound, IsSound
<1>3. ContactsAreUnique
  BY AccountsAssumption DEF Init, ContactsAreUnique
<1> QED BY <1>1, <1>2, <1>3 DEF Inv

\* A step of s that writes nothing of the table.
LEMMA QuietInv ==
    ASSUME Inv, NEW s \in Session, NEW q, Goes(s, q), IsRequest(q), IsSound(q),
           account' = account, token' \in [Token -> User \cup {"nobody"}],
           requests' \in 0 .. MaxRequests
    PROVE  Inv'
<1>1. DOMAIN session' = Session /\ \A x \in Session : IsRequest(session'[x])
  BY GoesEffect DEF Inv, TypeOK
<1>2. TypeOK'
  BY <1>1 DEF Inv, TypeOK
<1>3. \A r : IsSound(r) => IsSound(r)'
  BY SoundStays DEF Kept
<1>4. ASSUME NEW x \in Session PROVE IsSound(session[x])'
  <2> PICK r : r = session'[x]
    OBVIOUS
  <2>1. IsSound(r)
    BY GoesEffect DEF Inv, TypeOK, RequestsAreSound
  <2>2. IsSound(r)'
    BY <1>3, <2>1
  <2> QED BY <2>2 DEF IsSound, LoginIsSound, RegistrationIsSound, PatchIsSound, Proven,
                      ContactRemains, IdentityStaysFree, Named
<1> QED BY <1>2, <1>4 DEF Inv, RequestsAreSound, ContactsAreUnique

\* A step of s that writes the row of u.
LEMMA CommitInv ==
    ASSUME Inv, NEW s \in Session, NEW u \in User, NEW row \in Row, NEW q,
           Commits(s, u, row, q), IsRequest(q), IsSound(q)',
           \A v \in User \ {u} : Contacts(row) \cap Contacts(account[v]) = {}
    PROVE  Inv'
<1>0. TypeOK
  BY DEF Inv
<1>1. /\ account' = [account EXCEPT ![u] = row] /\ UNCHANGED <<token, requests>>
      /\ DOMAIN session' = Session /\ session'[s] = q
      /\ \A x \in Session \ {s} :
           /\ IsRequest(session'[x]) /\ Kept(session'[x], session[x])
           /\ Busy(x) /\ row # account[u] => u \in session'[x].blind
  BY <1>0, CommitsEffect
<1>2. account' \in [User -> Row] /\ \A v \in User : account'[v] = IF v = u THEN row ELSE account[v]
  BY <1>0, <1>1 DEF TypeOK
<1>3. TypeOK'
  BY <1>0, <1>1, <1>2 DEF TypeOK
<1>4. ASSUME NEW x \in Session \ {s} PROVE IsSound(session[x])'
  <2> PICK r : r = session[x]
    OBVIOUS
  <2> PICK p : p = session'[x]
    OBVIOUS
  <2>1. IsSound(r) /\ Kept(p, r) /\ (Busy(x) <=> r.kind # "none")
    BY <1>1 DEF Inv, RequestsAreSound, Busy
  <2>2. r.kind # "none" => \A v \in User \ p.blind : account'[v] = account[v]
    BY <1>1, <1>2, <2>1
  <2>3. IsSound(p)'
    BY <2>1, <2>2, SoundStays
  <2> QED BY <2>3 DEF IsSound, LoginIsSound, RegistrationIsSound, PatchIsSound, Proven,
                      ContactRemains, IdentityStaysFree, Named
<1>5. IsSound(session[s])'
  BY <1>1 DEF IsSound, LoginIsSound, RegistrationIsSound, PatchIsSound, Proven,
              ContactRemains, IdentityStaysFree, Named
<1>6. ContactsAreUnique'
  BY <1>2 DEF Inv, ContactsAreUnique
<1> QED BY <1>3, <1>4, <1>5, <1>6 DEF Inv, RequestsAreSound

LEMMA NextInv == Inv /\ [Next]_vars => Inv'
<1> SUFFICES ASSUME Inv, [Next]_vars PROVE Inv'
  OBVIOUS
<1>0. IsSound(NoRequest) /\ IsSound(NoRequest)' /\ IsRequest(NoRequest)
  BY NoRequestIsSound DEF IsSound
<1>1. ASSUME NEW s \in Session, Arrive(s) PROVE Inv'
  BY <1>1, ArrivesSound, QuietInv DEF Inv, TypeOK
<1>2. ASSUME NEW s \in Session, LoadActor(s) \/ LoadTarget(s) \/ CheckIdentity(s) \/ LookUp(s)
      PROVE  Inv'
  <2>1. UNCHANGED <<account, token, requests>>
    BY <1>2 DEF LoadActor, LoadTarget, CheckIdentity, LookUp
  <2> QED BY <1>2, <2>1, ReadsSound, QuietInv DEF Inv, TypeOK
<1>3. ASSUME NEW s \in Session, Conflict(s) \/ Refuse(s) PROVE Inv'
  BY <1>0, <1>3, QuietInv DEF Conflict, Refuse, Ends, Inv, TypeOK
<1>4. ASSUME NEW s \in Session, Issue(s) PROVE Inv'
  <2> PICK t \in Token : token' = [token EXCEPT ![t] = session[s].target]
    BY <1>4 DEF Issue
  <2>1. token' \in [Token -> User \cup {"nobody"}]
    BY DEF Inv, TypeOK, IsRequest
  <2> QED BY <1>0, <1>4, <2>1, QuietInv DEF Issue, Ends, Inv, TypeOK
<1>5. ASSUME NEW s \in Session, Write(s) PROVE Inv'
  <2> PICK u \in User, row \in Row :
          /\ Accepted(u, row)
          /\ Commits(s, u, row, NoRequest)
    BY <1>5, WriteEffect
  <2>1. \A v \in User \ {u} : Contacts(row) \cap Contacts(account[v]) = {}
    BY DEF Accepted, Holders
  <2> QED BY <1>0, <2>1, CommitInv
<1>6. ASSUME NEW s \in Session, Rehash(s) PROVE Inv'
  <2> PICK u \in User : u = session[s].target
    BY <1>6, RehashEffect
  <2> PICK r : r = session[s]
    OBVIOUS
  <2> PICK row \in Row : \E q :
          /\ row = [account[u] EXCEPT !.password = r.body["password"], !.old = FALSE]
          /\ Contacts(row) = Contacts(account[u]) /\ row.active = account[u].active
          /\ IsRequest(q) /\ q.kind = "LOGIN" /\ q.step = "issue" /\ q.target = u
          /\ q.body = r.body /\ q.login = r.login /\ q.blind = r.blind
          /\ Commits(s, u, row, q)
    BY <1>6, RehashEffect
  <2> PICK q :
          /\ row = [account[u] EXCEPT !.password = r.body["password"], !.old = FALSE]
          /\ Contacts(row) = Contacts(account[u]) /\ row.active = account[u].active
          /\ IsRequest(q) /\ q.kind = "LOGIN" /\ q.step = "issue" /\ q.target = u
          /\ q.body = r.body /\ q.login = r.login /\ q.blind = r.blind
          /\ Commits(s, u, row, q)
    OBVIOUS
  <2>1. /\ r.kind = "LOGIN" /\ r.step = "rehash"
        /\ u \in r.blind \/ Proven(r)
    BY <1>6, RehashEffect
  <2>2. account[u] \in Row /\ account' = [account EXCEPT ![u] = row]
    BY CommitsEffect DEF Inv, TypeOK
  <2>3. row.password = r.body["password"]
    BY <2>2 DEF Row
  <2>4. account'[u] = row
    BY <2>2 DEF Inv, TypeOK
  <2>5. LoginIsSound(r)
    BY <2>1 DEF Inv, RequestsAreSound, IsSound
  <2>6. IsSound(q)'
    BY <2>1, <2>3, <2>4, <2>5 DEF IsSound, LoginIsSound, Proven
  <2>7. \A v \in User \ {u} : Contacts(row) \cap Contacts(account[v]) = {}
    BY DEF Inv, ContactsAreUnique
  <2> QED BY <2>6, <2>7, CommitInv
<1>7. CASE UNCHANGED vars
  BY <1>7 DEF vars, Inv, TypeOK, RequestsAreSound, ContactsAreUnique, IsSound, LoginIsSound,
              RegistrationIsSound, PatchIsSound, Proven, IdentityStaysFree
<1> QED BY <1>1, <1>2, <1>3, <1>4, <1>5, <1>6, <1>7 DEF Next, Proceed

LEMMA InvHolds == Spec => []Inv
  BY InitInv, NextInv, PTL DEF Spec

\* Rows, tokens and requests keep their shape in every behaviour.
THEOREM TypeCorrect == Spec => []TypeOK
  BY InvHolds, PTL DEF Inv

----------------------------------------------------------------------------
\* What the invariant says of conflicts, PATCHes, passwords and tokens

\* The row a PATCH leaves of an account that is as it was read has the contacts
\* the body names, and otherwise those it had.
LEMMA PatchedContacts ==
    ASSUME NEW r, IsRequest(r), NEW row \in Row, r.seen = row
    PROVE  /\ Contacts(Patched(row, r)) \subseteq Named(r) \cup Contacts(row)
           /\ ContactRemains(r) => ContactHolds(Patched(row, r))
<1> PICK new : new = Patched(row, r)
  OBVIOUS
<1>1. \A f \in Fields : new[f] = IF f \in DOMAIN r.body THEN r.body[f] ELSE row[f]
  BY PatchedType DEF Written
<1>2. /\ new.email = IF "email" \in DOMAIN r.body THEN r.body["email"] ELSE row.email
      /\ new.phone = IF "phone" \in DOMAIN r.body THEN r.body["phone"] ELSE row.phone
  BY <1>1 DEF Fields
<1>3. /\ "email" \in DOMAIN r.body /\ r.body["email"] # "none" => r.body["email"] \in Named(r)
      /\ "phone" \in DOMAIN r.body /\ r.body["phone"] # "none" => r.body["phone"] \in Named(r)
  BY DEF Named
<1>4. Contacts(new) \subseteq Named(r) \cup Contacts(row)
  BY <1>2, <1>3 DEF Contacts
<1>5. ContactRemains(r) => ContactHolds(new)
  BY <1>2 DEF ContactRemains, ContactHolds, Contacts
<1> QED BY <1>4, <1>5

\* UserAlreadyExistsError comes of a race: the checks of services/user.py leave
\* nothing else to the constraints of the table, however many requests there are.
THEOREM ConflictsComeOfRaces == Spec => []ConflictsAreRaces
<1>1. Inv => ConflictsAreRaces
  <2> SUFFICES ASSUME Inv, NEW s \in Session, NEW u \in User, At(s, "write"),
                      TargetOf(session[s], u), ~Accepted(u, NewRow(session[s], u)),
                      u \notin session[s].blind
               PROVE  Holders(Contacts(NewRow(session[s], u)), u) \cap session[s].blind # {}
    BY DEF ConflictsAreRaces
  <2> PICK r : r = session[s]
    OBVIOUS
  <2> PICK row : row = NewRow(r, u)
    OBVIOUS
  <2>1. IsRequest(r) /\ IsSound(r) /\ r.step = "write" /\ account[u] \in Row
    BY DEF Inv, TypeOK, RequestsAreSound, At
  <2>2. r.kind \in {"REGISTER", "PATCH"}
    BY <2>1 DEF IsRequest, IsSound, LoginIsSound
  <2>3. /\ ContactHolds(row)
        /\ \A v \in User \ (r.blind \cup {u}) : Contacts(row) \cap Contacts(account[v]) = {}
    <3>1. CASE r.kind = "REGISTER"
      <4>1. r.target = "nobody" /\ r.body \in Registrations /\ row = Registered(r.body)
        BY <2>1, <3>1 DEF IsSound, RegistrationIsSound, NewRow
      <4>2. ContactHolds(row) /\ Contacts(row) \subseteq Named(r)
        BY <4>1, RegisteredType DEF Named
      <4>3. \A v \in User \ r.blind : Contacts(account[v]) \cap Named(r) = {}
        BY <2>1, <4>1, AccountsAssumption DEF IsSound, IdentityStaysFree
      <4> QED BY <4>2, <4>3
    <3>2. CASE r.kind = "PATCH"
      <4>1. u = r.target /\ row = Patched(account[u], r)
        BY <3>2 DEF TargetOf, NewRow
      <4>2. r.seen = account[u] /\ ContactRemains(r)
        BY <2>1, <3>2, <4>1 DEF IsSound, PatchIsSound
      <4>3. ContactHolds(row) /\ Contacts(row) \subseteq Named(r) \cup Contacts(account[u])
        BY <2>1, <4>1, <4>2, PatchedContacts
      <4>4. \A v \in User \ (r.blind \cup {u}) : Contacts(account[v]) \cap Named(r) = {}
        BY <2>1, <4>1 DEF IsSound, IdentityStaysFree
      <4>5. \A v \in User \ {u} : Contacts(account[v]) \cap Contacts(account[u]) = {}
        BY DEF Inv, ContactsAreUnique
      <4> QED BY <4>3, <4>4, <4>5
    <3> QED BY <2>2, <3>1, <3>2
  <2>4. PICK v \in Holders(Contacts(row), u) : TRUE
    BY <2>3 DEF Accepted
  <2> QED BY <2>3, <2>4 DEF Holders
<1> QED BY <1>1, InvHolds, PTL

\* The steps that change a row, a password among its columns.
LEMMA RowChanges ==
    ASSUME Inv, [Next]_vars, account' # account
    PROVE  \E s \in Session : Write(s) \/ Rehash(s)
<1>1. ASSUME NEW s \in Session, Arrive(s) PROVE account' = account
  BY <1>1, ArrivesSound
<1>2. ASSUME NEW s \in Session,
             LoadActor(s) \/ LoadTarget(s) \/ CheckIdentity(s) \/ Conflict(s)
               \/ LookUp(s) \/ Issue(s) \/ Refuse(s)
      PROVE  account' = account
  BY <1>2 DEF LoadActor, LoadTarget, CheckIdentity, Conflict, LookUp, Issue, Refuse
<1>3. CASE UNCHANGED vars
  BY <1>3 DEF vars
<1> QED BY <1>1, <1>2, <1>3 DEF Next, Proceed

\* user_crud.update: a PATCH leaves what it names as asked, or another request
\* came between; what it does not name, is_active of a guest among it, it leaves
\* as it finds it; and its sender was active when it was let in, in every behaviour.
THEOREM PatchesLeaveWhatTheyName == Spec => PatchesTakeEffect
<1> DEFINE Effect ==
      \A s \in Session :
         LET r == session[s]
         IN r.kind = "PATCH" /\ Writes(s) =>
              /\ \A f \in Fields :
                   IF f \in DOMAIN r.body
                   THEN account'[r.target][f] = r.body[f] \/ r.target \in r.blind
                   ELSE account'[r.target][f] = account[r.target][f]
              /\ account'[r.target].active # account[r.target].active => r.actor \in Staff
              /\ account[r.actor].active \/ r.actor \in r.blind
<1>1. Inv /\ [Next]_vars => Effect
  <2> SUFFICES ASSUME Inv, [Next]_vars, NEW s \in Session, session[s].kind = "PATCH", Writes(s)
               PROVE  LET r == session[s] IN
                      /\ \A f \in Fields :
                           IF f \in DOMAIN r.body
                           THEN account'[r.target][f] = r.body[f] \/ r.target \in r.blind
                           ELSE account'[r.target][f] = account[r.target][f]
                      /\ account'[r.target].active # account[r.target].active
                           => r.actor \in Staff
                      /\ account[r.actor].active \/ r.actor \in r.blind
    OBVIOUS
  <2> PICK r : r = session[s]
    OBVIOUS
  <2>0. IsRequest(r) /\ IsSound(r) /\ r.step = "write" /\ r.kind = "PATCH" /\ TypeOK
    BY DEF Inv, TypeOK, RequestsAreSound, Writes, At
  <2>1. Write(s)
    <3> PICK x \in Session : Write(x) \/ Rehash(x)
      BY RowChanges DEF Writes
    <3>1. x = s
      <4> SUFFICES ASSUME x # s PROVE FALSE
        OBVIOUS
      <4>1. \E u \in User, row \in Row : \E q : Commits(x, u, row, q)
        BY WriteEffect, RehashEffect
      <4>2. session'[s].kind = "PATCH"
        BY <2>0, <4>1, CommitsEffect DEF Kept
      <4> QED BY <4>2, NoRequestIsSound DEF Writes
    <3> QED BY <2>0, <3>1 DEF Rehash, At
  <2> PICK u \in User, row \in Row : /\ TargetOf(r, u) /\ row = NewRow(r, u)
                                     /\ Commits(s, u, row, NoRequest)
    BY <2>1, WriteEffect
  <2>2. u = r.target /\ row = Patched(account[u], r) /\ account[u] \in Row
    BY <2>0 DEF TargetOf, NewRow, TypeOK
  <2>3. account'[u] = row
    BY <2>0, CommitsEffect DEF TypeOK
  <2>4. \A f \in Fields : row[f] = IF f \in Written(r) THEN r.body[f] ELSE account[u][f]
    BY <2>0, <2>2, PatchedType
  <2>5. u \in r.blind \/ account[u] = r.seen
    BY <2>0, <2>2 DEF IsSound, PatchIsSound
  <2>6. ASSUME NEW f \in Fields
        PROVE  IF f \in DOMAIN r.body
               THEN row[f] = r.body[f] \/ u \in r.blind
               ELSE row[f] = account[u][f]
    BY <2>4, <2>5 DEF Written
  <2>7. row.active # account[u].active => r.actor \in Staff
    <3>1. "active" \notin DOMAIN r.body => row["active"] = account[u]["active"]
      BY <2>6 DEF Fields
    <3> QED BY <2>0, <3>1 DEF IsSound, PatchIsSound
  <2>8. account[r.actor].active \/ r.actor \in r.blind
    BY <2>0 DEF IsSound, PatchIsSound
  <2> QED BY <2>2, <2>3, <2>6, <2>7, <2>8
<1> QED BY <1>1, InvHolds, PTL DEF Spec, PatchesTakeEffect

\* verify_and_maybe_rehash and user_crud.update: nothing else changes a password,
\* and the hash a login stores brings an old one back only over a PATCH it has
\* not seen.
THEOREM PasswordsChangeByPatch == Spec => PasswordsChangeOnPurpose
<1> DEFINE OnPurpose ==
      \A u \in User : account[u].known /\ account'[u].password # account[u].password =>
         \E s \in Session :
            LET r == session[s]
            IN /\ r.target = u /\ session'[s] # r
               /\ \/ r.kind = "PATCH" /\ At(s, "write") /\ "password" \in DOMAIN r.body
                  \/ r.kind = "LOGIN" /\ At(s, "rehash") /\ u \in r.blind
<1>1. Inv /\ [Next]_vars => OnPurpose
  <2> SUFFICES ASSUME Inv, [Next]_vars, NEW u \in User, account[u].known,
                      account'[u].password # account[u].password
               PROVE  \E s \in Session :
                        LET r == session[s]
                        IN /\ r.target = u /\ session'[s] # r
                           /\ \/ r.kind = "PATCH" /\ At(s, "write") /\ "password" \in DOMAIN r.body
                              \/ r.kind = "LOGIN" /\ At(s, "rehash") /\ u \in r.blind
    OBVIOUS
  <2> PICK s \in Session : Write(s) \/ Rehash(s)
    BY RowChanges
  <2> PICK r : r = session[s]
    OBVIOUS
  <2>0. IsRequest(r) /\ IsSound(r) /\ TypeOK /\ account \in [User -> Row]
    BY DEF Inv, TypeOK, RequestsAreSound
  <2>1. CASE Write(s)
    <3> PICK v \in User, row \in Row : /\ TargetOf(r, v) /\ row = NewRow(r, v)
                                       /\ Commits(s, v, row, NoRequest)
      BY <2>1, WriteEffect
    <3>1. v = u
      BY <2>0, CommitsEffect
    <3>2. r.kind = "PATCH" /\ r.target = u /\ r.step = "write"
      BY <2>0, <2>1, <3>1 DEF TargetOf, Write, At, IsRequest, IsSound, LoginIsSound
    <3>3. account'[u] = row /\ row = Patched(account[u], r) /\ session'[s] = NoRequest
      BY <2>0, <3>1, <3>2, CommitsEffect DEF NewRow
    <3>4. "password" \in DOMAIN r.body
      BY <2>0, <3>3, PatchedType DEF Fields, Written
    <3> QED BY <3>2, <3>3, <3>4, NoRequestIsSound DEF At
  <2>2. CASE Rehash(s)
    <3> PICK v \in User : v = r.target
      BY <2>2, RehashEffect
    <3>1. r.kind = "LOGIN" /\ r.step = "rehash" /\ (v \in r.blind \/ Proven(r))
      BY <2>2, RehashEffect
    <3> PICK row \in Row : \E q :
            /\ row = [account[v] EXCEPT !.password = r.body["password"], !.old = FALSE]
            /\ q.step = "issue" /\ Commits(s, v, row, q)
      BY <2>2, RehashEffect
    <3> PICK q :
            /\ row = [account[v] EXCEPT !.password = r.body["password"], !.old = FALSE]
            /\ q.step = "issue" /\ Commits(s, v, row, q)
      OBVIOUS
    <3>2. /\ \A w \in User : account'[w] = IF w = v THEN row ELSE account[w]
          /\ session'[s] = q
      BY <2>0, CommitsEffect
    <3>3. v = u
      BY <3>2
    <3>4. row.password = r.body["password"]
      BY <2>0 DEF Row
    <3>5. u \in r.blind
      <4>1. account'[u].password = r.body["password"]
        BY <3>2, <3>3, <3>4
      <4>2. ~Proven(r)
        BY <3>3, <4>1 DEF Proven
      <4> QED BY <3>1, <3>3, <4>2
    <3> QED BY <3>1, <3>2, <3>3, <3>5 DEF At
  <2> QED BY <2>1, <2>2
<1> QED BY <1>1, InvHolds, PTL DEF Spec, PasswordsChangeOnPurpose

\* login: whoever gets a token gave the contact and the password of an active
\* user, or these changed while the password was being verified; and no request
\* gives a token of one user to another.
THEOREM TokensAreOfThoseWhoProved == Spec => TokensAreEarned
<1> DEFINE Earned ==
      \A t \in Token : token'[t] # token[t] =>
         /\ token[t] = "nobody"
         /\ \E s \in Session :
              LET r == session[s]
                  row == account[r.target]
              IN /\ At(s, "issue") /\ session'[s] = NoRequest
                 /\ token'[t] = r.target
                 /\ \/ row.active /\ row.password = r.body.password
                                  /\ r.login \in Contacts(row)
                    \/ r.target \in r.blind
<1>1. Inv /\ [Next]_vars => Earned
  <2> SUFFICES ASSUME Inv, [Next]_vars, NEW t \in Token, token'[t] # token[t]
               PROVE  /\ token[t] = "nobody"
                      /\ \E s \in Session :
                           LET r == session[s]
                               row == account[r.target]
                           IN /\ At(s, "issue") /\ session'[s] = NoRequest
                              /\ token'[t] = r.target
                              /\ \/ row.active /\ row.password = r.body["password"]
                                               /\ r.login \in Contacts(row)
                                 \/ r.target \in r.blind
    OBVIOUS
  <2>1. \E s \in Session : Issue(s)
    <3>1. ASSUME NEW s \in Session, Arrive(s) PROVE token' = token
      BY <3>1, ArrivesSound
    <3>2. ASSUME NEW s \in Session, Write(s) PROVE token' = token
      BY <3>2, WriteEffect, CommitsEffect DEF Inv
    <3>3. ASSUME NEW s \in Session, Rehash(s) PROVE token' = token
      BY <3>3, RehashEffect, CommitsEffect DEF Inv
    <3>4. ASSUME NEW s \in Session,
                 LoadActor(s) \/ LoadTarget(s) \/ CheckIdentity(s) \/ Conflict(s)
                   \/ LookUp(s) \/ Refuse(s)
          PROVE  token' = token
      BY <3>4 DEF LoadActor, LoadTarget, CheckIdentity, Conflict, LookUp, Refuse
    <3>5. CASE UNCHANGED vars
      BY <3>5 DEF vars
    <3> QED BY <3>1, <3>2, <3>3, <3>4, <3>5 DEF Next, Proceed
  <2> PICK s \in Session : Issue(s)
    BY <2>1
  <2> PICK r : r = session[s]
    OBVIOUS
  <2>2. /\ r.step = "issue" /\ token[t] = "nobody" /\ token'[t] = r.target
        /\ session'[s] = NoRequest
    BY GoesEffect DEF Issue, At, Ends, Inv, TypeOK
  <2>3. r.kind = "LOGIN" /\ LoginIsSound(r)
    BY <2>2 DEF Inv, TypeOK, RequestsAreSound, IsRequest, IsSound, RegistrationIsSound,
                PatchIsSound
  <2>4. r.target \in r.blind \/ Proven(r)
    BY <2>2, <2>3 DEF LoginIsSound
  <2> QED BY <2>2, <2>4 DEF At, Proven
<1> QED BY <1>1, InvHolds, PTL DEF Spec, TokensAreEarned
=============================================================================
