---------------------------- MODULE Staff_proofs ----------------------------
(***************************************************************************)
(* Proofs about Staff, for every finite set of users, every staff and any  *)
(* number of requests at once.                                             *)
(*                                                                         *)
(* The invariant says what a request may rely on: a row it has read and    *)
(* nobody has changed since is its own version of the committed row        *)
(* (ReadingIsSound), the managers it checked are MANAGERs and the list it  *)
(* loaded is the list (CafeIsSound), and what it has flushed is a part of  *)
(* set_managers, or of one PATCH of a user, in the order of the keys       *)
(* (FlushIsSound).  Of each two requests only one has written a row.       *)
(***************************************************************************)
EXTENDS Staff, FiniteSetTheorems, WellFoundedInduction, TLAPS

\* The row as the request has it: flushed and not yet flushed columns over it.
Own(r, u) ==
    IF u \in DOMAIN r.writes THEN Overlay(Flushed(r, u), r.writes[u]) ELSE Flushed(r, u)

Edited(r) == DOMAIN r.writes \cup DOMAIN r.flushed

\* Which steps a request of a kind takes, and when it has a cafe.
StepIsSound(r) ==
    /\ r.kind = "PATCH_USER" => r.step \in {"target", "commit"} /\ r.target \in User
                                /\ r.sets = {} /\ r.role \in UserRole
    /\ r.kind = "PATCH_CAFE" => r.step \in {"cafe", "roles", "name", "remove", "add", "commit"}
                                /\ r.cafe \in Cafe
    /\ r.kind = "POST_CAFE" => r.step \in {"roles", "insert", "inserted", "reload", "remove",
                                           "add", "commit"}
                               /\ (r.step \in {"roles", "insert"} \/ r.cafe \in Cafe)
    /\ "managers" \in r.sets \/ r.managers = {}

\* A row read and not changed by others since is the request's own version of
\* it; PATCH /users writes its row from what it has read and keeps that.
ReadingIsSound(r) ==
    /\ \A u \in User : CheckHolds(r.seen[u])
    /\ r.kind # "PATCH_USER" => \A u \in r.loaded \ r.blind : r.seen[u] = Own(r, u)
    /\ r.kind = "PATCH_USER" =>
         /\ \A u \in r.loaded \ r.blind : r.seen[u] = user[u]
         /\ r.step = "commit" =>
              /\ r.target \in r.loaded /\ MayUpdate(r)
              /\ r.target \in r.blind \/ Own(r, r.target) = NewRow(r)

\* The managers asked for have been checked, the present ones loaded.
Checked(r) ==
    r.step \in {"name", "insert", "inserted", "reload", "remove", "add"}
        \/ (r.step = "commit" /\ r.kind # "PATCH_USER")
Listed(r) ==
    \/ r.step \in {"name", "remove", "add"}
    \/ r.step = "roles" /\ r.kind = "PATCH_CAFE"
    \/ r.step = "commit" /\ r.kind # "PATCH_USER"

CafeIsSound(r) ==
    /\ Checked(r) => r.managers \subseteq r.loaded
                     /\ \A u \in r.managers : r.seen[u].role = "MANAGER"
    /\ Listed(r) =>
         /\ r.current \subseteq r.loaded
         /\ \A u \in User \ r.blind :
              /\ u \in r.current => user[u].cafe = r.cafe
              /\ user[u].cafe = r.cafe => u \in r.current \cup r.managers
    /\ r.step = "add" => \A u \in ToRemove(r) : r.seen[u].cafe = "none"
    /\ r.step = "commit" /\ "managers" \in r.sets =>
         /\ \A u \in ToRemove(r) : r.seen[u].cafe = "none"
         /\ \A u \in ToAdd(r) : r.seen[u].cafe = r.cafe

\* What is flushed, and what is yet to be, row by row in the order of the keys.
NewCafe(r, u) == [cafe |-> IF u \in r.managers THEN r.cafe ELSE "none"]

FlushIsSound(r) ==
    /\ DOMAIN r.writes \cap DOMAIN r.flushed = {}
    /\ Edited(r) \subseteq r.loaded
    /\ r.step \notin {"inserted", "add", "commit"} => Edited(r) = {}
    /\ r.kind = "PATCH_USER" => Edited(r) \subseteq {r.target}
    /\ r.kind # "PATCH_USER" =>
         /\ \A u \in DOMAIN r.writes : r.writes[u] = NewCafe(r, u)
         /\ \A u \in DOMAIN r.flushed : r.flushed[u] = NewCafe(r, u)
         /\ r.step = "inserted" => Edited(r) \subseteq r.managers
         /\ r.step = "add" => Edited(r) \subseteq ToRemove(r)
         /\ r.step = "commit" => /\ DOMAIN r.writes \subseteq ToAdd(r)
                                /\ DOMAIN r.flushed \subseteq ToRemove(r) \cup ToAdd(r)
         /\ \A u \in DOMAIN r.flushed, v \in DOMAIN r.writes :
              u < v \/ r.flushed[u] = [cafe |-> "none"]
    /\ \A u \in DOMAIN r.flushed : CheckHolds(Flushed(r, u))

IsSound(r) ==
    IF r.kind = "none" THEN r = NoRequest
    ELSE StepIsSound(r) /\ ReadingIsSound(r) /\ CafeIsSound(r) /\ FlushIsSound(r)

RequestsAreSound == \A s \in Session : IsSound(session[s])

RowsPassCheck == \A u \in User : CheckHolds(user[u])

\* A row is held by one request.
LocksExclude ==
    \A s, t \in Session :
        s # t => DOMAIN session[s].flushed \cap DOMAIN session[t].flushed = {}

Inv == TypeOK /\ RequestsAreSound /\ RowsPassCheck /\ LocksExclude

----------------------------------------------------------------------------
\* Requests, piece by piece

RequestFields == {"kind", "step", "actor", "cafe", "sets", "managers", "name", "renames",
                  "target", "role", "loaded", "seen", "current", "writes", "flushed", "blind"}

\* q is r but for the fields named.
Alike(q, r, fields) ==
    DOMAIN q = DOMAIN r /\ \A f \in RequestFields \ fields : q[f] = r[f]

LEMMA NoRequestIsSound ==
    /\ IsRequest(NoRequest) /\ IsSound(NoRequest)
    /\ DOMAIN NoRequest = RequestFields
    /\ NoRequest.kind = "none" /\ NoRequest.step = "none" /\ NoRequest.loaded = {}
    /\ NoRequest.writes = NoWrites /\ NoRequest.flushed = NoWrites /\ NoRequest.blind = {}
    /\ NoRequest.current = {} /\ DOMAIN NoWrites = {}
<1>1. DOMAIN NoWrites = {} /\ IsRowWrites(NoWrites)
  BY DEF NoWrites, IsRowWrites
<1>2. NoRequest.seen \in [User -> UserRow]
  BY DEF NoRequest, Unread, UserRow, UserRole
<1>3. IsRequest(NoRequest)
  BY <1>1, <1>2 DEF NoRequest, IsRequest, Steps
<1>4. IsSound(NoRequest)
  BY DEF NoRequest, IsSound
<1> QED BY <1>1, <1>3, <1>4 DEF NoRequest, RequestFields

LEMMA RequestHasFields ==
    ASSUME NEW r, IsRequest(r)
    PROVE  DOMAIN r = RequestFields
  BY NoRequestIsSound DEF IsRequest

LEMMA GoesEffect ==
    ASSUME DOMAIN session = Session, NEW s \in Session, NEW r, Goes(s, r)
    PROVE  /\ DOMAIN session' = Session /\ session'[s] = r
           /\ \A t \in Session \ {s} : session'[t] = session[t]
  BY DEF Goes

LEMMA SoundRequest ==
    ASSUME Inv, NEW s \in Session
    PROVE  /\ IsRequest(session[s]) /\ IsSound(session[s])
           /\ session[s].kind # "none" =>
                /\ StepIsSound(session[s]) /\ ReadingIsSound(session[s])
                /\ CafeIsSound(session[s]) /\ FlushIsSound(session[s])
  BY DEF Inv, TypeOK, RequestsAreSound, IsSound

LEMMA EmptyWrites ==
    ASSUME NEW f, IsRowWrites(f)
    PROVE  f = NoWrites <=> DOMAIN f = {}
  BY DEF IsRowWrites, NoWrites

----------------------------------------------------------------------------
\* Rows and their columns

LEMMA OverlayOfRow ==
    ASSUME NEW x \in UserRow, NEW columns \in Columns
    PROVE  Overlay(x, columns) \in UserRow
<1> PICK y : y = Overlay(x, columns)
  OBVIOUS
<1>1. DOMAIN x = {"role", "cafe"}
  BY DEF UserRow
<1>2. /\ DOMAIN y = {"role", "cafe"}
      /\ y.role = IF "role" \in DOMAIN columns THEN columns.role ELSE x.role
      /\ y.cafe = IF "cafe" \in DOMAIN columns THEN columns.cafe ELSE x.cafe
      /\ y = [f \in {"role", "cafe"} |-> y[f]]
  BY <1>1 DEF Overlay
<1>3. y.role \in UserRole
  BY <1>2 DEF UserRow, Columns
<1>4. y.cafe \in Cafe \cup {"none"}
  BY <1>2 DEF UserRow, Columns
<1>5. y = [role |-> y.role, cafe |-> y.cafe]
  BY <1>2
<1> QED BY <1>3, <1>4, <1>5 DEF UserRow

LEMMA OverlayOfCafe ==
    ASSUME NEW x \in UserRow, NEW c
    PROVE  /\ Overlay(x, [cafe |-> c]).role = x.role /\ Overlay(x, [cafe |-> c]).cafe = c
           /\ Overlay(x, [cafe |-> c]) = [x EXCEPT !.cafe = c]
  BY DEF Overlay, UserRow

LEMMA RowsAreEqual ==
    ASSUME NEW x \in UserRow, NEW y \in UserRow, x.role = y.role, x.cafe = y.cafe
    PROVE  x = y
  BY DEF UserRow

LEMMA FlushedIsRow ==
    ASSUME TypeOK, NEW r, IsRequest(r), NEW u \in User
    PROVE  Flushed(r, u) \in UserRow /\ Own(r, u) \in UserRow
<1>1. user[u] \in UserRow
  BY DEF TypeOK
<1>2. /\ u \in DOMAIN r.flushed => r.flushed[u] \in Columns
      /\ u \in DOMAIN r.writes => r.writes[u] \in Columns
  BY DEF IsRequest, IsRowWrites
<1>3. Flushed(r, u) \in UserRow
  BY <1>1, <1>2, OverlayOfRow DEF Flushed
<1> QED BY <1>2, <1>3, OverlayOfRow DEF Own

LEMMA OwnIsCommitted ==
    ASSUME NEW r, NEW u, u \notin Edited(r)
    PROVE  Own(r, u) = user[u] /\ Flushed(r, u) = user[u]
  BY DEF Own, Flushed, Edited

----------------------------------------------------------------------------
\* The least key

\* Every set of natural numbers that is not empty has a least one, and a greatest
\* if it is finite.
LEMMA LeastExists ==
    ASSUME NEW S, S \subseteq Nat, S # {}
    PROVE  Min(S) \in S /\ \A x \in S : Min(S) <= x
<1>1. PICK x \in S : \A y \in S : <<y, x>> \notin OpToRel(<, Nat)
  BY NatLessThanWellFounded, WFMin
<1>2. \A y \in S : ~(y < x)
  BY <1>1 DEF OpToRel
<1>3. \E z \in S : \A y \in S : z =< y
  BY <1>2
<1> QED BY <1>3 DEF Min

LEMMA GreatestExists ==
    ASSUME NEW S, S \subseteq Nat, IsFiniteSet(S), S # {}
    PROVE  \E x \in S : \A y \in S : y <= x
<1> DEFINE Unbounded == {X \in SUBSET S : X # {} /\ ~\E x \in X : \A y \in X : y <= x}
<1> SUFFICES ASSUME S \in Unbounded PROVE FALSE
  OBVIOUS
<1>1. IsWellFoundedOn(StrictSubsetOrdering(S), SUBSET S)
  BY FS_StrictSubsetOrderingWellFounded, FS_FiniteSubsetsOfFinite
<1>2. PICK X \in Unbounded : \A Y \in Unbounded : <<Y, X>> \notin StrictSubsetOrdering(S)
  BY <1>1, WFMin
<1>3. PICK x \in X : TRUE
  OBVIOUS
<1>4. X \ {x} \notin Unbounded
  BY ONLY <1>2, <1>3 DEF StrictSubsetOrdering
<1>5. X \ {x} # {}
  BY <1>3
<1>6. PICK z \in X \ {x} : \A y \in X \ {x} : y <= z
  BY <1>4, <1>5
<1>7. \E w \in X : \A y \in X : y <= w
  <2>1. x \in Nat /\ z \in Nat /\ X \subseteq Nat
    BY <1>3, <1>6
  <2>2. CASE x <= z
    BY <1>3, <1>6, <2>1, <2>2
  <2>3. CASE z <= x
    BY <1>3, <1>6, <2>1, <2>3
  <2> QED BY <2>1, <2>2, <2>3
<1> QED BY <1>2, <1>7

LEMMA NextRowIsLeast ==
    ASSUME NEW r, IsRequest(r), r.writes # NoWrites
    PROVE  /\ NextRow(r) \in DOMAIN r.writes /\ NextRow(r) \in User
           /\ \A u \in DOMAIN r.writes : NextRow(r) <= u
<1>1. DOMAIN r.writes \subseteq User /\ DOMAIN r.writes # {} /\ User \subseteq Nat
  BY EmptyWrites, UsersAssumption DEF IsRequest, IsRowWrites
<1> QED BY <1>1, LeastExists DEF NextRow

----------------------------------------------------------------------------
\* Steps that commit nothing

LEMMA QuietInv ==
    ASSUME Inv, NEW s \in Session, NEW q, Goes(s, q), IsRequest(q), IsSound(q),
           \A t \in Session \ {s} : DOMAIN q.flushed \cap DOMAIN session[t].flushed = {},
           user' = user, cafe' \in [Cafe -> Name \cup {"none"}], requests' \in 0 .. MaxRequests
    PROVE  Inv'
<1>1. /\ DOMAIN session' = Session /\ session'[s] = q
      /\ \A t \in Session \ {s} : session'[t] = session[t]
  BY GoesEffect DEF Inv, TypeOK
<1>2. TypeOK'
  BY <1>1 DEF Inv, TypeOK
<1>3. ASSUME NEW r, IsSound(r) PROVE IsSound(r)'
  BY <1>3 DEF IsSound, StepIsSound, ReadingIsSound, CafeIsSound, FlushIsSound, Own, Flushed
<1>4. ASSUME NEW t \in Session PROVE IsSound(session[t])'
  <2> PICK r : r = session'[t]
    OBVIOUS
  <2>1. IsSound(r)
    BY <1>1 DEF Inv, RequestsAreSound
  <2>2. IsSound(r)'
    BY <1>3, <2>1
  <2> QED BY <2>2 DEF IsSound, StepIsSound, ReadingIsSound, CafeIsSound, FlushIsSound, Own,
                      Flushed
<1>5. LocksExclude'
  BY <1>1 DEF Inv, LocksExclude
<1>6. RowsPassCheck'
  BY DEF Inv, RowsPassCheck
<1> QED BY <1>2, <1>4, <1>5, <1>6 DEF Inv, RequestsAreSound

\* What was flushed is rolled back.
LEMMA RollbackInv ==
    ASSUME Inv, NEW s \in Session, Rollback(s), UNCHANGED <<user, cafe, requests>>
    PROVE  Inv'
<1>1. Goes(s, NoRequest)
  BY DEF Rollback
<1>2. cafe' \in [Cafe -> Name \cup {"none"}] /\ requests' \in 0 .. MaxRequests
  BY DEF Inv, TypeOK
<1> QED BY <1>1, <1>2, NoRequestIsSound, QuietInv

----------------------------------------------------------------------------
\* Steps that read

\* Of the rows in "loaded", those in "anew" are read now.
ReadsAnew(q, r, us, anew) ==
    /\ IsRequest(q) /\ Alike(q, r, {"loaded", "seen", "blind"})
    /\ q.loaded = r.loaded \cup us /\ q.blind = r.blind \ anew
    /\ \A u \in User : q.seen[u] = IF u \in anew THEN user[u] ELSE r.seen[u]

LEMMA ReadingEffect ==
    ASSUME TypeOK, NEW r, IsRequest(r), NEW us, us \subseteq User
    PROVE  /\ ReadsAnew(Reading(r, us), r, us, us \ r.loaded)
           /\ ReadsAnew(Rereading(r, us), r, us, us)
<1>1. ASSUME NEW q, NEW anew, anew \subseteq us,
             q = [r EXCEPT !.loaded = r.loaded \cup us,
                           !.seen = [u \in User |-> IF u \in anew THEN user[u] ELSE r.seen[u]],
                           !.blind = r.blind \ anew]
      PROVE  ReadsAnew(q, r, us, anew)
  <2> PICK seen : seen = [u \in User |-> IF u \in anew THEN user[u] ELSE r.seen[u]]
    OBVIOUS
  <2>1. DOMAIN r = RequestFields
    BY RequestHasFields
  <2>2. Alike(q, r, {"loaded", "seen", "blind"})
    BY <1>1, <2>1 DEF Alike
  <2>3. /\ q.kind = r.kind /\ q.step = r.step /\ q.actor = r.actor /\ q.cafe = r.cafe
        /\ q.sets = r.sets /\ q.managers = r.managers /\ q.name = r.name
        /\ q.renames = r.renames /\ q.target = r.target /\ q.role = r.role
        /\ q.current = r.current /\ q.writes = r.writes /\ q.flushed = r.flushed
    BY <2>2 DEF Alike, RequestFields
  <2>4. q.loaded = r.loaded \cup us /\ q.blind = r.blind \ anew /\ q.seen = seen
    BY <1>1, <2>1 DEF RequestFields
  <2>5. seen \in [User -> UserRow]
    BY DEF TypeOK, IsRequest
  <2>6. DOMAIN q = DOMAIN r
    BY <2>2 DEF Alike
  <2>7. IsRequest(q)
    BY <2>3, <2>4, <2>5, <2>6 DEF IsRequest
  <2> QED BY <2>2, <2>4, <2>7 DEF ReadsAnew
<1>2. Reading(r, us) = [r EXCEPT
        !.loaded = r.loaded \cup us,
        !.seen = [u \in User |-> IF u \in us \ r.loaded THEN user[u] ELSE r.seen[u]],
        !.blind = r.blind \ (us \ r.loaded)]
  BY DEF Reading
<1>3. Rereading(r, us) = [r EXCEPT
        !.loaded = r.loaded \cup us,
        !.seen = [u \in User |-> IF u \in us THEN user[u] ELSE r.seen[u]],
        !.blind = r.blind \ us]
  BY DEF Rereading
<1> QED BY <1>1, <1>2, <1>3

\* A request that has changed nothing and relies on what it read.
Faithful(r) ==
    /\ Edited(r) = {}
    /\ \A u \in User : CheckHolds(r.seen[u])
    /\ \A u \in r.loaded \ r.blind : r.seen[u] = user[u]

LEMMA ReadsFaithfully ==
    ASSUME RowsPassCheck, NEW r, IsRequest(r), Faithful(r), NEW q, NEW us, NEW anew,
           us \subseteq User, us \ r.loaded \subseteq anew, ReadsAnew(q, r, us, anew)
    PROVE  Faithful(q)
<1>1. q.writes = r.writes /\ q.flushed = r.flushed
  BY DEF ReadsAnew, Alike, RequestFields
<1> QED BY <1>1 DEF Faithful, Edited, RowsPassCheck, ReadsAnew, IsRequest

LEMMA LoadingInv ==
    ASSUME Inv, NEW s \in Session, NEW q, Goes(s, q), IsRequest(q), Faithful(q),
           q.kind # "none", q.kind = "PATCH_USER" => q.step # "commit",
           StepIsSound(q), CafeIsSound(q),
           user' = user, cafe' \in [Cafe -> Name \cup {"none"}], requests' \in 0 .. MaxRequests
    PROVE  Inv'
<1>1. DOMAIN q.writes = {} /\ DOMAIN q.flushed = {}
  BY DEF Faithful, Edited
<1>2. \A u : Own(q, u) = user[u]
  BY OwnIsCommitted DEF Faithful
<1>3. ReadingIsSound(q)
  BY <1>2 DEF ReadingIsSound, Faithful
<1>4. FlushIsSound(q)
  BY <1>1 DEF FlushIsSound, Faithful, Edited
<1>5. IsSound(q)
  BY <1>3, <1>4 DEF IsSound
<1> QED BY <1>1, <1>5, QuietInv

\* A request that is let in has read its actor.
LEMMA ArrivesInv ==
    ASSUME Inv, NEW s \in Session, NEW a \in User, NEW n, IsRequest(n), Arrives(s, a, n),
           n.loaded = {}, n.writes = NoWrites, n.flushed = NoWrites,
           \A u \in User : n.seen[u] = Unread,
           n.kind # "none", n.step \in {"cafe", "roles", "target"}, StepIsSound(n),
           n.step = "roles" => n.kind = "POST_CAFE"
    PROVE  Inv'
<1> PICK q : q = Reading(n, {a})
  OBVIOUS
<1>1. TypeOK /\ RowsPassCheck
  BY DEF Inv
<1>2. ReadsAnew(q, n, {a}, {a} \ n.loaded)
  BY <1>1, ReadingEffect
<1>3. Faithful(n)
  BY NoRequestIsSound DEF Faithful, Edited, Unread, CheckHolds
<1>4. Faithful(q) /\ IsRequest(q)
  <2> PICK us, anew : us = {a} /\ anew = us \ n.loaded
    OBVIOUS
  <2>1. us \subseteq User /\ us \ n.loaded \subseteq anew /\ ReadsAnew(q, n, us, anew)
    BY <1>2
  <2>2. Faithful(q)
    BY <1>1, <1>3, <2>1, ReadsFaithfully
  <2> QED BY <2>1, <2>2 DEF ReadsAnew
<1>5. /\ q.kind = n.kind /\ q.step = n.step /\ q.cafe = n.cafe /\ q.sets = n.sets
      /\ q.managers = n.managers /\ q.target = n.target /\ q.role = n.role
  BY <1>2 DEF ReadsAnew, Alike, RequestFields
<1>6. StepIsSound(q)
  BY <1>5 DEF StepIsSound
<1>7. CafeIsSound(q)
  BY <1>5 DEF CafeIsSound, Checked, Listed
<1>8. Goes(s, q) /\ user' = user /\ cafe' = cafe
  BY DEF Arrives, Goes
<1>9. requests' \in 0 .. MaxRequests
  BY <1>1, BoundsAssumption DEF Arrives, TypeOK
<1>10. q.kind = "PATCH_USER" => q.step # "commit"
  BY <1>5
<1>11. q.kind # "none" /\ cafe' \in [Cafe -> Name \cup {"none"}]
  BY <1>1, <1>5, <1>8 DEF TypeOK
<1> QED BY <1>4, <1>6, <1>7, <1>8, <1>9, <1>10, <1>11, LoadingInv

LEMMA ArriveInv ==
    ASSUME Inv, NEW s \in Session, Arrive(s)
    PROVE  Inv'
<1>1. /\ DOMAIN NoRequest = RequestFields /\ IsRequest(NoRequest)
      /\ NoRequest.loaded = {} /\ NoRequest.writes = NoWrites /\ NoRequest.flushed = NoWrites
      /\ \A u \in User : NoRequest.seen[u] = Unread
      /\ NoRequest.managers = {} /\ NoRequest.sets = {}
  BY NoRequestIsSound DEF NoRequest
<1>2. ASSUME NEW a \in User, NEW c \in Cafe, NEW body \in CafePatches,
             PatchCafe(s, a, c, body)
      PROVE  Inv'
  <2> PICK managers : managers = IF "managers" \in DOMAIN body THEN body.managers ELSE {}
    OBVIOUS
  <2> PICK name : name = IF "name" \in DOMAIN body THEN body.name ELSE "none"
    OBVIOUS
  <2> PICK n : n = [NoRequest EXCEPT !.kind = "PATCH_CAFE", !.step = "cafe", !.actor = a,
                                     !.cafe = c, !.sets = DOMAIN body,
                                     !.managers = managers, !.name = name]
    OBVIOUS
  <2>1. /\ DOMAIN body \subseteq {"managers", "name"} /\ managers \subseteq User
        /\ name \in Name \cup {"none"} /\ ("managers" \in DOMAIN body \/ managers = {})
    BY BodiesAssumption
  <2>2. Alike(n, NoRequest, {"kind", "step", "actor", "cafe", "sets", "managers", "name"})
    BY <1>1 DEF Alike
  <2>3. /\ n.renames = NoRequest.renames /\ n.target = NoRequest.target
        /\ n.role = NoRequest.role /\ n.loaded = NoRequest.loaded /\ n.seen = NoRequest.seen
        /\ n.current = NoRequest.current /\ n.writes = NoRequest.writes
        /\ n.flushed = NoRequest.flushed /\ n.blind = NoRequest.blind
        /\ DOMAIN n = DOMAIN NoRequest
    BY <2>2 DEF Alike, RequestFields
  <2>4. /\ n.kind = "PATCH_CAFE" /\ n.step = "cafe" /\ n.actor = a /\ n.cafe = c
        /\ n.sets = DOMAIN body /\ n.managers = managers /\ n.name = name
    BY <1>1 DEF RequestFields
  <2>5. IsRequest(n)
    BY <1>1, <2>1, <2>3, <2>4 DEF IsRequest, Steps
  <2>6. StepIsSound(n)
    BY <2>1, <2>4 DEF StepIsSound
  <2>7. Arrives(s, a, n)
    BY <1>2 DEF PatchCafe
  <2>8. /\ n.loaded = {} /\ n.writes = NoWrites /\ n.flushed = NoWrites
        /\ \A u \in User : n.seen[u] = Unread
    BY <1>1, <2>3
  <2>9. /\ n.kind # "none" /\ n.step \in {"cafe", "roles", "target"}
        /\ n.step = "roles" => n.kind = "POST_CAFE"
    BY <2>4
  <2> QED BY <2>5, <2>6, <2>7, <2>8, <2>9, ArrivesInv
<1>3. ASSUME NEW a \in User, NEW body \in CafePosts, PostCafe(s, a, body)
      PROVE  Inv'
  <2> PICK n : n = [NoRequest EXCEPT !.kind = "POST_CAFE", !.step = "roles", !.actor = a,
                                     !.sets = {"managers", "name"},
                                     !.managers = body.managers, !.name = body.name]
    OBVIOUS
  <2>1. body.managers \subseteq User /\ body.name \in Name
    BY BodiesAssumption
  <2>2. Alike(n, NoRequest, {"kind", "step", "actor", "sets", "managers", "name"})
    BY <1>1 DEF Alike
  <2>3. /\ n.renames = NoRequest.renames /\ n.target = NoRequest.target /\ n.cafe = NoRequest.cafe
        /\ n.role = NoRequest.role /\ n.loaded = NoRequest.loaded /\ n.seen = NoRequest.seen
        /\ n.current = NoRequest.current /\ n.writes = NoRequest.writes
        /\ n.flushed = NoRequest.flushed /\ n.blind = NoRequest.blind
        /\ DOMAIN n = DOMAIN NoRequest
    BY <2>2 DEF Alike, RequestFields
  <2>4. /\ n.kind = "POST_CAFE" /\ n.step = "roles" /\ n.actor = a
        /\ n.sets = {"managers", "name"} /\ n.managers = body.managers /\ n.name = body.name
    BY <1>1 DEF RequestFields
  <2>5. IsRequest(n)
    BY <1>1, <2>1, <2>3, <2>4 DEF IsRequest, Steps
  <2>6. StepIsSound(n)
    BY <2>4 DEF StepIsSound
  <2>7. Arrives(s, a, n)
    BY <1>3 DEF PostCafe
  <2>8. /\ n.loaded = {} /\ n.writes = NoWrites /\ n.flushed = NoWrites
        /\ \A u \in User : n.seen[u] = Unread
    BY <1>1, <2>3
  <2>9. /\ n.kind # "none" /\ n.step \in {"cafe", "roles", "target"}
        /\ n.step = "roles" => n.kind = "POST_CAFE"
    BY <2>4
  <2> QED BY <2>5, <2>6, <2>7, <2>8, <2>9, ArrivesInv
<1>4. ASSUME NEW a \in User, NEW u \in User, NEW role \in RolePatches,
             PatchUser(s, a, u, role)
      PROVE  Inv'
  <2> PICK n : n = [NoRequest EXCEPT !.kind = "PATCH_USER", !.step = "target", !.actor = a,
                                     !.target = u, !.role = role]
    OBVIOUS
  <2>1. role \in UserRole
    BY BodiesAssumption
  <2>2. Alike(n, NoRequest, {"kind", "step", "actor", "target", "role"})
    BY <1>1 DEF Alike
  <2>3. /\ n.renames = NoRequest.renames /\ n.cafe = NoRequest.cafe /\ n.sets = NoRequest.sets
        /\ n.managers = NoRequest.managers /\ n.name = NoRequest.name
        /\ n.loaded = NoRequest.loaded /\ n.seen = NoRequest.seen
        /\ n.current = NoRequest.current /\ n.writes = NoRequest.writes
        /\ n.flushed = NoRequest.flushed /\ n.blind = NoRequest.blind
        /\ DOMAIN n = DOMAIN NoRequest
    BY <2>2 DEF Alike, RequestFields
  <2>4. /\ n.kind = "PATCH_USER" /\ n.step = "target" /\ n.actor = a
        /\ n.target = u /\ n.role = role
    BY <1>1 DEF RequestFields
  <2>5. IsRequest(n)
    BY <1>1, <2>1, <2>3, <2>4 DEF IsRequest, Steps
  <2>6. StepIsSound(n)
    BY <1>1, <2>1, <2>3, <2>4 DEF StepIsSound
  <2>7. Arrives(s, a, n)
    BY <1>4 DEF PatchUser
  <2>8. /\ n.loaded = {} /\ n.writes = NoWrites /\ n.flushed = NoWrites
        /\ \A v \in User : n.seen[v] = Unread
    BY <1>1, <2>3
  <2>9. /\ n.kind # "none" /\ n.step \in {"cafe", "roles", "target"}
        /\ n.step = "roles" => n.kind = "POST_CAFE"
    BY <2>4
  <2> QED BY <2>5, <2>6, <2>7, <2>8, <2>9, ArrivesInv
<1> QED BY <1>2, <1>3, <1>4 DEF Arrive

----------------------------------------------------------------------------
\* Loads and checks

LEMMA UnderWay ==
    ASSUME Inv, NEW s \in Session, NEW r, r = session[s], r.step # "none"
    PROVE  /\ IsRequest(r) /\ r.kind \in {"POST_CAFE", "PATCH_CAFE", "PATCH_USER"}
           /\ StepIsSound(r) /\ ReadingIsSound(r) /\ CafeIsSound(r) /\ FlushIsSound(r)
<1>1. IsRequest(r) /\ r.kind # "none"
  BY SoundRequest, NoRequestIsSound DEF IsSound
<1> QED BY <1>1, SoundRequest DEF IsRequest

LEMMA FaithfulBefore ==
    ASSUME Inv, NEW s \in Session, NEW r, r = session[s],
           r.step \in {"cafe", "roles", "name", "insert", "reload", "remove", "target"}
    PROVE  Faithful(r)
<1>1. IsRequest(r) /\ ReadingIsSound(r) /\ FlushIsSound(r)
  BY UnderWay
<1>2. Edited(r) = {}
  BY <1>1 DEF FlushIsSound
<1>3. \A u : Own(r, u) = user[u]
  BY <1>2, OwnIsCommitted
<1> QED BY <1>1, <1>2, <1>3 DEF Faithful, ReadingIsSound

\* The managers of a cafe are those who have it: only a MANAGER has one.
LEMMA ManagersHaveTheCafe ==
    ASSUME RowsPassCheck, NEW c \in Cafe, NEW u \in User
    PROVE  u \in Managers(c) <=> user[u].cafe = c
  BY CafesAssumption DEF RowsPassCheck, CheckHolds, Managers

LEMMA LoadCafeInv ==
    ASSUME Inv, NEW s \in Session, LoadCafe(s)
    PROVE  Inv'
<1> PICK r : r = session[s]
  OBVIOUS
<1> PICK us : us = Managers(r.cafe)
  OBVIOUS
<1> PICK n : n = Rereading(r, us)
  OBVIOUS
<1> PICK w : w = WithCafe(r)
  OBVIOUS
<1> PICK step : step = IF "managers" \in w.sets THEN "roles" ELSE AfterChecks(w)
  OBVIOUS
<1> PICK q : q = [w EXCEPT !.step = step]
  OBVIOUS
<1>1. Goes(s, q) /\ r.step = "cafe" /\ UNCHANGED <<user, cafe, requests>>
  BY DEF LoadCafe, At
<1>2. TypeOK /\ RowsPassCheck /\ us \subseteq User
  BY DEF Inv, Managers
<1>3. /\ IsRequest(r) /\ StepIsSound(r) /\ r.kind \in {"POST_CAFE", "PATCH_CAFE", "PATCH_USER"}
  BY <1>1, UnderWay
<1>4. r.kind = "PATCH_CAFE" /\ r.cafe \in Cafe
  BY <1>1, <1>3 DEF StepIsSound
<1>5. Faithful(r)
  BY <1>1, FaithfulBefore
<1>6. ReadsAnew(n, r, us, us)
  BY <1>2, <1>3, ReadingEffect
<1>7. Faithful(n)
  BY <1>2, <1>3, <1>5, <1>6, ReadsFaithfully
<1>8. /\ DOMAIN n = RequestFields /\ IsRequest(n)
      /\ n.kind = r.kind /\ n.actor = r.actor /\ n.cafe = r.cafe /\ n.sets = r.sets
      /\ n.managers = r.managers /\ n.name = r.name /\ n.target = r.target /\ n.role = r.role
      /\ n.writes = r.writes /\ n.flushed = r.flushed
      /\ n.loaded = r.loaded \cup us /\ n.blind = r.blind \ us
  BY <1>3, <1>6, RequestHasFields DEF ReadsAnew, Alike, RequestFields
<1>9. w = [n EXCEPT !.current = us, !.renames = r.name \notin {"none", cafe[r.cafe]},
                    !.blind = n.blind \cap r.loaded]
  BY DEF WithCafe
<1>10. /\ DOMAIN q = DOMAIN n /\ q.kind = n.kind /\ q.step = step /\ q.actor = n.actor
       /\ q.cafe = n.cafe /\ q.sets = n.sets /\ q.managers = n.managers /\ q.name = n.name
       /\ q.renames \in BOOLEAN /\ q.target = n.target /\ q.role = n.role
       /\ q.loaded = n.loaded /\ q.seen = n.seen /\ q.current = us
       /\ q.writes = n.writes /\ q.flushed = n.flushed /\ q.blind = n.blind \cap r.loaded
       /\ w.sets = n.sets /\ w.kind = n.kind
  <2>1. DOMAIN n = RequestFields /\ n.blind = r.blind \ us
    BY <1>8
  <2>2. q = [w EXCEPT !.step = step]
    OBVIOUS
  <2> QED BY ONLY <1>9, <2>1, <2>2 DEF RequestFields
<1>11. /\ step \in {"roles", "name", "commit"}
       /\ step # "roles" => "managers" \notin r.sets /\ r.managers = {}
  BY <1>3, <1>4, <1>8, <1>10 DEF AfterChecks, StepIsSound
<1>12. IsRequest(q)
  BY ONLY <1>2, <1>8, <1>10, <1>11 DEF IsRequest, Steps
<1>13. Faithful(q)
  BY ONLY <1>7, <1>8, <1>10 DEF Faithful, Edited
<1>14. StepIsSound(q)
  BY <1>3, <1>4, <1>8, <1>10, <1>11 DEF StepIsSound
<1>15. CafeIsSound(q)
  <2>1. \A u \in User : u \in q.current <=> user[u].cafe = q.cafe
    BY <1>2, <1>4, <1>8, <1>10, ManagersHaveTheCafe
  <2>2. q.current \subseteq q.loaded
    BY <1>8, <1>10
  <2>3. Checked(q) => q.managers = {}
    BY <1>8, <1>10, <1>11 DEF Checked
  <2>4. q.step # "add" /\ (q.step = "commit" => "managers" \notin q.sets)
    BY <1>8, <1>10, <1>11
  <2> QED BY <2>1, <2>2, <2>3, <2>4 DEF CafeIsSound
<1>16. /\ q.kind # "none" /\ q.kind # "PATCH_USER"
       /\ cafe' \in [Cafe -> Name \cup {"none"}] /\ requests' \in 0 .. MaxRequests
  BY <1>1, <1>2, <1>4, <1>8, <1>10 DEF TypeOK
<1> QED BY <1>1, <1>12, <1>13, <1>14, <1>15, <1>16, LoadingInv

LEMMA CheckRolesInv ==
    ASSUME Inv, NEW s \in Session, CheckRoles(s)
    PROVE  Inv'
<1> PICK r : r = session[s]
  OBVIOUS
<1> PICK us : us = r.managers
  OBVIOUS
<1> PICK n : n = Reading(r, us)
  OBVIOUS
<1> PICK anew : anew = us \ r.loaded
  OBVIOUS
<1> PICK step : step = AfterChecks(r)
  OBVIOUS
<1> PICK q : q = [n EXCEPT !.step = step]
  OBVIOUS
<1>1. Goes(s, q) /\ r.step = "roles" /\ UNCHANGED <<user, cafe, requests>>
  BY DEF CheckRoles, At, WithManagers
<1>2. \A u \in r.managers : n.seen[u].role = "MANAGER"
  BY DEF CheckRoles, RolesFit, WithManagers
<1>3. /\ IsRequest(r) /\ StepIsSound(r) /\ r.kind \in {"POST_CAFE", "PATCH_CAFE", "PATCH_USER"}
      /\ CafeIsSound(r)
  BY <1>1, UnderWay
<1>4. r.kind \in {"POST_CAFE", "PATCH_CAFE"} /\ (r.kind = "PATCH_CAFE" => r.cafe \in Cafe)
  BY <1>1, <1>3 DEF StepIsSound
<1>5. TypeOK /\ RowsPassCheck /\ us \subseteq User
  BY <1>3 DEF Inv, IsRequest
<1>6. Faithful(r)
  BY <1>1, FaithfulBefore
<1>7. ReadsAnew(n, r, us, anew)
  BY <1>3, <1>5, ReadingEffect
<1>8. Faithful(n)
  <2>1. us \ r.loaded \subseteq anew
    OBVIOUS
  <2> QED BY <1>3, <1>5, <1>6, <1>7, <2>1, ReadsFaithfully
<1>9. /\ DOMAIN n = RequestFields /\ IsRequest(n)
      /\ n.kind = r.kind /\ n.actor = r.actor /\ n.cafe = r.cafe /\ n.sets = r.sets
      /\ n.managers = r.managers /\ n.name = r.name /\ n.target = r.target /\ n.role = r.role
      /\ n.renames = r.renames /\ n.current = r.current
      /\ n.writes = r.writes /\ n.flushed = r.flushed
      /\ n.loaded = r.loaded \cup us /\ n.blind = r.blind \ anew
  BY <1>3, <1>7, RequestHasFields DEF ReadsAnew, Alike, RequestFields
<1>10. /\ DOMAIN q = DOMAIN n /\ q.kind = n.kind /\ q.step = step /\ q.actor = n.actor
       /\ q.cafe = n.cafe /\ q.sets = n.sets /\ q.managers = n.managers /\ q.name = n.name
       /\ q.renames = n.renames /\ q.target = n.target /\ q.role = n.role
       /\ q.loaded = n.loaded /\ q.seen = n.seen /\ q.current = n.current
       /\ q.writes = n.writes /\ q.flushed = n.flushed /\ q.blind = n.blind
  BY <1>9 DEF RequestFields
<1>11. /\ r.kind = "POST_CAFE" => step = "insert"
       /\ r.kind = "PATCH_CAFE" => step \in {"name", "remove", "commit"}
       /\ step = "commit" => "managers" \notin r.sets
  BY <1>4 DEF AfterChecks
<1>12. IsRequest(q)
  BY ONLY <1>4, <1>9, <1>10, <1>11 DEF IsRequest, Steps
<1>13. Faithful(q)
  BY <1>8, <1>10 DEF Faithful, Edited
<1>14. StepIsSound(q)
  BY ONLY <1>3, <1>4, <1>9, <1>10, <1>11 DEF StepIsSound
<1>15. CafeIsSound(q)
  <2>1. q.managers \subseteq q.loaded /\ \A u \in q.managers : q.seen[u].role = "MANAGER"
    <3>1. q.managers = r.managers /\ q.seen = n.seen /\ q.loaded = r.loaded \cup us
      BY ONLY <1>9, <1>10
    <3>2. us = r.managers
      OBVIOUS
    <3> QED BY ONLY <1>2, <3>1, <3>2
  <2>2. q.step # "add" /\ (q.step = "commit" => "managers" \notin q.sets)
    BY ONLY <1>4, <1>9, <1>10, <1>11
  <2>3. ASSUME Listed(q)
        PROVE  /\ q.current \subseteq q.loaded
               /\ \A u \in User \ q.blind :
                    /\ u \in q.current => user[u].cafe = q.cafe
                    /\ user[u].cafe = q.cafe => u \in q.current \cup q.managers
    <3>1. Listed(r)
      BY <1>1, <1>4, <1>9, <1>10, <1>11, <2>3 DEF Listed
    <3>2. /\ r.current \subseteq r.loaded
          /\ \A u \in User \ r.blind :
               /\ u \in r.current => user[u].cafe = r.cafe
               /\ user[u].cafe = r.cafe => u \in r.current \cup r.managers
      BY <1>3, <3>1 DEF CafeIsSound
    <3>3. \A u \in User \ q.blind : u \notin r.blind \/ (u \in r.managers /\ u \notin r.loaded)
      BY <1>9, <1>10
    <3> QED BY ONLY <1>9, <1>10, <3>2, <3>3
  <2> QED BY <2>1, <2>2, <2>3 DEF CafeIsSound
<1>16. /\ q.kind # "none" /\ q.kind # "PATCH_USER"
       /\ cafe' \in [Cafe -> Name \cup {"none"}] /\ requests' \in 0 .. MaxRequests
  BY <1>1, <1>4, <1>5, <1>9, <1>10 DEF TypeOK
<1> QED BY <1>1, <1>12, <1>13, <1>14, <1>15, <1>16, LoadingInv

LEMMA RenameInv ==
    ASSUME Inv, NEW s \in Session, Rename(s)
    PROVE  Inv'
<1> PICK r : r = session[s]
  OBVIOUS
<1> PICK us : us = Managers(r.cafe)
  OBVIOUS
<1> PICK n : n = Reading(r, us)
  OBVIOUS
<1> PICK anew : anew = us \ r.loaded
  OBVIOUS
<1> PICK step : step = IF "managers" \in r.sets THEN "remove" ELSE "commit"
  OBVIOUS
<1> PICK q : q = [n EXCEPT !.current = us, !.step = step]
  OBVIOUS
<1>1. Goes(s, q) /\ r.step = "name" /\ UNCHANGED <<user, requests>>
  BY DEF Rename, At
<1>2. /\ IsRequest(r) /\ StepIsSound(r) /\ r.kind \in {"POST_CAFE", "PATCH_CAFE", "PATCH_USER"}
      /\ CafeIsSound(r)
  BY <1>1, UnderWay
<1>3. r.kind = "PATCH_CAFE" /\ r.cafe \in Cafe
  BY <1>1, <1>2 DEF StepIsSound
<1>4. TypeOK /\ RowsPassCheck /\ us \subseteq User
  BY DEF Inv, Managers
<1>5. cafe' \in [Cafe -> Name \cup {"none"}] /\ requests' \in 0 .. MaxRequests
  BY <1>2, <1>4 DEF Rename, TypeOK, IsRequest
<1>6. Faithful(r)
  BY <1>1, FaithfulBefore
<1>7. ReadsAnew(n, r, us, anew)
  BY <1>2, <1>4, ReadingEffect
<1>8. Faithful(n)
  <2>1. us \ r.loaded \subseteq anew
    OBVIOUS
  <2> QED BY <1>2, <1>4, <1>6, <1>7, <2>1, ReadsFaithfully
<1>9. /\ DOMAIN n = RequestFields /\ IsRequest(n)
      /\ n.kind = r.kind /\ n.actor = r.actor /\ n.cafe = r.cafe /\ n.sets = r.sets
      /\ n.managers = r.managers /\ n.name = r.name /\ n.target = r.target /\ n.role = r.role
      /\ n.renames = r.renames
      /\ n.writes = r.writes /\ n.flushed = r.flushed
      /\ n.loaded = r.loaded \cup us /\ n.blind = r.blind \ anew
      /\ \A u \in User : n.seen[u] = IF u \in anew THEN user[u] ELSE r.seen[u]
  BY <1>2, <1>7, RequestHasFields DEF ReadsAnew, Alike, RequestFields
<1>10. /\ DOMAIN q = DOMAIN n /\ q.kind = n.kind /\ q.step = step /\ q.actor = n.actor
       /\ q.cafe = n.cafe /\ q.sets = n.sets /\ q.managers = n.managers /\ q.name = n.name
       /\ q.renames = n.renames /\ q.target = n.target /\ q.role = n.role
       /\ q.loaded = n.loaded /\ q.seen = n.seen /\ q.current = us
       /\ q.writes = n.writes /\ q.flushed = n.flushed /\ q.blind = n.blind
  BY <1>9 DEF RequestFields
<1>11. step \in {"remove", "commit"} /\ (step = "commit" => "managers" \notin r.sets)
  OBVIOUS
<1>12. IsRequest(q)
  BY ONLY <1>4, <1>9, <1>10, <1>11 DEF IsRequest, Steps
<1>13. Faithful(q)
  BY <1>8, <1>10 DEF Faithful, Edited
<1>14. StepIsSound(q)
  BY ONLY <1>2, <1>3, <1>9, <1>10, <1>11 DEF StepIsSound
<1>15. CafeIsSound(q)
  <2>1. r.managers \subseteq r.loaded /\ \A u \in r.managers : r.seen[u].role = "MANAGER"
    BY <1>1, <1>2 DEF CafeIsSound, Checked
  <2>2. \A u \in r.managers : n.seen[u] = r.seen[u]
    BY <1>2, <1>9, <2>1 DEF IsRequest
  <2>3. q.managers \subseteq q.loaded /\ \A u \in q.managers : q.seen[u].role = "MANAGER"
    BY ONLY <1>9, <1>10, <2>1, <2>2
  <2>4. \A u \in User : u \in q.current <=> user[u].cafe = q.cafe
    BY <1>3, <1>4, <1>9, <1>10, ManagersHaveTheCafe
  <2>5. q.current \subseteq q.loaded
    BY <1>9, <1>10
  <2>6. q.step # "add" /\ (q.step = "commit" => "managers" \notin q.sets)
    BY <1>9, <1>10, <1>11
  <2> QED BY <2>3, <2>4, <2>5, <2>6 DEF CafeIsSound
<1>16. q.kind # "none" /\ q.kind # "PATCH_USER"
  BY <1>3, <1>9, <1>10
<1> QED BY <1>1, <1>5, <1>12, <1>13, <1>14, <1>15, <1>16, LoadingInv

LEMMA ReloadInv ==
    ASSUME Inv, NEW s \in Session, Reload(s)
    PROVE  Inv'
<1> PICK r : r = session[s]
  OBVIOUS
<1> PICK us : us = Managers(r.cafe)
  OBVIOUS
<1> PICK n : n = Rereading(r, us)
  OBVIOUS
<1> PICK q : q = [n EXCEPT !.current = us, !.step = "remove"]
  OBVIOUS
<1>1. Goes(s, q) /\ r.step = "reload" /\ UNCHANGED <<user, cafe, requests>>
  BY DEF Reload, At
<1>2. /\ IsRequest(r) /\ StepIsSound(r) /\ r.kind \in {"POST_CAFE", "PATCH_CAFE", "PATCH_USER"}
      /\ CafeIsSound(r)
  BY <1>1, UnderWay
<1>3. r.kind = "POST_CAFE" /\ r.cafe \in Cafe
  BY <1>1, <1>2 DEF StepIsSound
<1>4. TypeOK /\ RowsPassCheck /\ us \subseteq User
  BY DEF Inv, Managers
<1>5. Faithful(r)
  BY <1>1, FaithfulBefore
<1>6. ReadsAnew(n, r, us, us)
  BY <1>2, <1>4, ReadingEffect
<1>7. Faithful(n)
  BY <1>2, <1>4, <1>5, <1>6, ReadsFaithfully
<1>8. /\ DOMAIN n = RequestFields /\ IsRequest(n)
      /\ n.kind = r.kind /\ n.actor = r.actor /\ n.cafe = r.cafe /\ n.sets = r.sets
      /\ n.managers = r.managers /\ n.name = r.name /\ n.target = r.target /\ n.role = r.role
      /\ n.renames = r.renames
      /\ n.writes = r.writes /\ n.flushed = r.flushed
      /\ n.loaded = r.loaded \cup us /\ n.blind = r.blind \ us
      /\ \A u \in User : n.seen[u] = IF u \in us THEN user[u] ELSE r.seen[u]
  BY <1>2, <1>6, RequestHasFields DEF ReadsAnew, Alike, RequestFields
<1>9. /\ DOMAIN q = DOMAIN n /\ q.kind = n.kind /\ q.step = "remove" /\ q.actor = n.actor
      /\ q.cafe = n.cafe /\ q.sets = n.sets /\ q.managers = n.managers /\ q.name = n.name
      /\ q.renames = n.renames /\ q.target = n.target /\ q.role = n.role
      /\ q.loaded = n.loaded /\ q.seen = n.seen /\ q.current = us
      /\ q.writes = n.writes /\ q.flushed = n.flushed /\ q.blind = n.blind
  BY <1>8 DEF RequestFields
<1>10. IsRequest(q)
  BY ONLY <1>4, <1>8, <1>9 DEF IsRequest, Steps
<1>11. Faithful(q)
  BY <1>7, <1>9 DEF Faithful, Edited
<1>12. StepIsSound(q)
  BY ONLY <1>2, <1>3, <1>8, <1>9 DEF StepIsSound
<1>13. CafeIsSound(q)
  <2>1. r.managers \subseteq r.loaded /\ \A u \in r.managers : r.seen[u].role = "MANAGER"
    BY <1>1, <1>2 DEF CafeIsSound, Checked
  <2>2. \A u \in us : user[u].role = "MANAGER"
    BY DEF Managers
  <2>3. \A u \in r.managers : n.seen[u].role = "MANAGER"
    BY ONLY <1>2, <1>8, <2>1, <2>2 DEF IsRequest
  <2>4. q.managers \subseteq q.loaded /\ \A u \in q.managers : q.seen[u].role = "MANAGER"
    BY ONLY <1>8, <1>9, <2>1, <2>3
  <2>5. \A u \in User : u \in q.current <=> user[u].cafe = q.cafe
    BY <1>3, <1>4, <1>8, <1>9, ManagersHaveTheCafe
  <2>6. q.current \subseteq q.loaded
    BY <1>8, <1>9
  <2> QED BY <1>9, <2>4, <2>5, <2>6 DEF CafeIsSound
<1>14. /\ q.kind # "none" /\ q.kind # "PATCH_USER"
       /\ cafe' \in [Cafe -> Name \cup {"none"}] /\ requests' \in 0 .. MaxRequests
  BY <1>1, <1>3, <1>4, <1>8, <1>9 DEF TypeOK
<1> QED BY <1>1, <1>10, <1>11, <1>12, <1>13, <1>14, LoadingInv

----------------------------------------------------------------------------
\* Steps that change what was read

\* q is r with the cafe c in the rows us, to be written where it is another.
GivesCafe(q, r, us, c) ==
    /\ q.loaded = r.loaded /\ q.blind = r.blind /\ q.flushed = r.flushed
    /\ r.writes = NoWrites
    /\ \A u \in us : q.seen[u] = [r.seen[u] EXCEPT !.cafe = c]
    /\ \A u \in User \ us : q.seen[u] = r.seen[u]
    /\ DOMAIN q.writes \subseteq us
    /\ \A u \in DOMAIN q.writes : q.writes[u] = [cafe |-> c]
    /\ \A u \in us \ DOMAIN q.writes : r.seen[u].cafe = c

LEMMA GivenCafe ==
    ASSUME TypeOK, NEW r, IsRequest(r), NEW us, us \subseteq User, NEW c, NEW q,
           GivesCafe(q, r, us, c), us \cap DOMAIN r.flushed = {},
           \A u \in r.loaded \ r.blind : r.seen[u] = Own(r, u)
    PROVE  /\ \A u \in q.loaded \ q.blind : q.seen[u] = Own(q, u)
           /\ \A u \in us : q.seen[u].cafe = c /\ q.seen[u].role = r.seen[u].role
<1>1. \A u \in User : r.seen[u] \in UserRow
  BY DEF IsRequest
<1>2. \A u \in us : q.seen[u].cafe = c /\ q.seen[u].role = r.seen[u].role
  BY <1>1 DEF GivesCafe, UserRow
<1>3. ASSUME NEW u \in q.loaded \ q.blind PROVE q.seen[u] = Own(q, u)
  <2>1. u \in User /\ u \in r.loaded \ r.blind
    BY <1>3 DEF IsRequest, GivesCafe
  <2>2. r.seen[u] = Flushed(r, u) /\ Flushed(q, u) = Flushed(r, u)
    <3>1. u \notin DOMAIN r.writes
      BY NoRequestIsSound DEF GivesCafe
    <3>2. r.seen[u] = Flushed(r, u)
      BY <2>1, <3>1 DEF Own
    <3> QED BY <3>2 DEF GivesCafe, Flushed
  <2>3. CASE u \in DOMAIN q.writes
    <3>1. Own(q, u) = Overlay(r.seen[u], [cafe |-> c])
      BY <2>2, <2>3 DEF Own, GivesCafe
    <3>2. Own(q, u) = [r.seen[u] EXCEPT !.cafe = c]
      BY <1>1, <2>1, <3>1, OverlayOfCafe
    <3> QED BY <2>3, <3>2 DEF GivesCafe
  <2>4. CASE u \notin DOMAIN q.writes
    <3>1. Own(q, u) = r.seen[u]
      BY <2>2, <2>4 DEF Own
    <3>2. q.seen[u] = r.seen[u]
      BY <1>1, <2>1, <2>4 DEF GivesCafe, UserRow
    <3> QED BY <3>1, <3>2
  <2> QED BY <2>3, <2>4
<1> QED BY <1>2, <1>3

LEMMA InsertInv ==
    ASSUME Inv, NEW s \in Session, Insert(s)
    PROVE  Inv'
<1> PICK r : r = session[s]
  OBVIOUS
<1> PICK us : us = r.managers
  OBVIOUS
<1>a. PICK c \in Cafe :
      Goes(s, [r EXCEPT
        !.cafe = c, !.step = "inserted",
        !.seen = [u \in User |-> IF u \in us THEN [r.seen[u] EXCEPT !.cafe = c] ELSE r.seen[u]],
        !.writes = [u \in us |-> [cafe |-> c]]])
  BY DEF Insert
<1>b. PICK seen : seen = [u \in User |-> IF u \in us THEN [r.seen[u] EXCEPT !.cafe = c]
                                       ELSE r.seen[u]]
  OBVIOUS
<1>c. PICK writes : writes = [u \in us |-> [cafe |-> c]]
  OBVIOUS
<1>d. PICK q : q = [r EXCEPT !.cafe = c, !.step = "inserted", !.seen = seen, !.writes = writes]
  OBVIOUS
<1>1. Goes(s, q) /\ r.step = "insert" /\ r.writes = NoWrites /\ UNCHANGED <<user, cafe, requests>>
  BY <1>a, <1>b, <1>c, <1>d DEF Insert, At
<1>2. /\ IsRequest(r) /\ StepIsSound(r) /\ r.kind \in {"POST_CAFE", "PATCH_CAFE", "PATCH_USER"}
      /\ CafeIsSound(r) /\ TypeOK
  BY <1>1, UnderWay DEF Inv
<1>3. r.kind = "POST_CAFE" /\ us \subseteq User
  BY <1>1, <1>2 DEF StepIsSound, IsRequest
<1>4. /\ DOMAIN q = DOMAIN r /\ q.kind = r.kind /\ q.step = "inserted" /\ q.actor = r.actor
      /\ q.cafe = c /\ q.sets = r.sets /\ q.managers = us /\ q.name = r.name
      /\ q.renames = r.renames /\ q.target = r.target /\ q.role = r.role
      /\ q.loaded = r.loaded /\ q.seen = seen /\ q.current = r.current
      /\ q.writes = writes /\ q.flushed = r.flushed /\ q.blind = r.blind
  BY <1>2, <1>d, RequestHasFields DEF RequestFields
<1>5. Faithful(r) /\ us \subseteq r.loaded /\ \A u \in us : r.seen[u].role = "MANAGER"
  BY <1>1, <1>2, FaithfulBefore DEF CafeIsSound, Checked
<1>6. DOMAIN r.flushed = {} /\ \A u \in r.loaded \ r.blind : r.seen[u] = Own(r, u)
  BY <1>5, OwnIsCommitted DEF Faithful, Edited
<1>7. GivesCafe(q, r, us, c)
  BY <1>1, <1>3, <1>4, <1>b, <1>c DEF GivesCafe
<1>8. /\ \A u \in q.loaded \ q.blind : q.seen[u] = Own(q, u)
      /\ \A u \in us : q.seen[u].cafe = c /\ q.seen[u].role = r.seen[u].role
  <2>1. us \cap DOMAIN r.flushed = {}
    BY <1>6
  <2>2. TypeOK /\ IsRequest(r) /\ us \subseteq User
    BY <1>2, <1>3
  <2>3. \A u \in r.loaded \ r.blind : r.seen[u] = Own(r, u)
    BY <1>6
  <2> QED BY <1>7, <2>1, <2>2, <2>3, GivenCafe
<1>9. IsRequest(q)
  <2>1. seen \in [User -> UserRow]
    BY <1>2, <1>b DEF IsRequest, UserRow
  <2>2. IsRowWrites(writes)
    BY <1>3, <1>c DEF IsRowWrites, Columns
  <2> QED BY <1>2, <1>4, <2>1, <2>2 DEF IsRequest, Steps
<1>10. StepIsSound(q)
  BY <1>2, <1>3, <1>4 DEF StepIsSound
<1>11. ReadingIsSound(q)
  <2>1. \A u \in User \ us : q.seen[u] = r.seen[u]
    BY <1>4, <1>b
  <2>2. \A u \in User : CheckHolds(q.seen[u])
    BY <1>5, <1>8, <2>1 DEF Faithful, CheckHolds
  <2> QED BY <1>3, <1>4, <1>8, <2>2 DEF ReadingIsSound
<1>12. CafeIsSound(q)
  <2>1. q.managers \subseteq q.loaded /\ \A u \in q.managers : q.seen[u].role = "MANAGER"
    BY <1>4, <1>5, <1>8
  <2> QED BY <1>4, <2>1 DEF CafeIsSound, Listed
<1>13. FlushIsSound(q)
  <2>1. DOMAIN q.writes = us /\ DOMAIN q.flushed = {}
    BY <1>4, <1>6, <1>c
  <2>2. Edited(q) = us /\ us \subseteq q.loaded
    BY <1>4, <1>5, <2>1 DEF Edited
  <2>3. \A u \in DOMAIN q.writes : q.writes[u] = NewCafe(q, u)
    BY <1>4, <1>c, <2>1 DEF NewCafe
  <2> QED BY <1>3, <1>4, <2>1, <2>2, <2>3 DEF FlushIsSound
<1>14. IsSound(q)
  BY <1>3, <1>4, <1>10, <1>11, <1>12, <1>13 DEF IsSound
<1>15. cafe' \in [Cafe -> Name \cup {"none"}] /\ requests' \in 0 .. MaxRequests
  BY <1>1, <1>2 DEF TypeOK
<1>16. \A t \in Session \ {s} : DOMAIN q.flushed \cap DOMAIN session[t].flushed = {}
  BY <1>4, <1>6
<1> QED BY <1>1, <1>9, <1>14, <1>15, <1>16, QuietInv

\* The rows us of set_managers are those that lose, or those that get, the cafe.
LEMMA AssignEffect ==
    ASSUME TypeOK, NEW s \in Session, NEW r, IsRequest(r), r.writes = NoWrites,
           NEW us, us \subseteq User, NEW c \in Cafe \cup {"none"},
           NEW step \in {"add", "commit"}, Assign(s, r, us, c, step)
    PROVE  \E q : /\ Goes(s, q) /\ IsRequest(q) /\ Alike(q, r, {"step", "seen", "writes"})
                  /\ q.step = step /\ GivesCafe(q, r, us, c)
<1> PICK seen : seen = [u \in User |-> IF u \in us THEN [r.seen[u] EXCEPT !.cafe = c]
                                       ELSE r.seen[u]]
  OBVIOUS
<1> PICK writes : writes = [u \in {v \in us : r.seen[v].cafe # c} |-> [cafe |-> c]]
  OBVIOUS
<1> PICK q : q = [r EXCEPT !.step = step, !.seen = seen, !.writes = writes]
  OBVIOUS
<1>1. Goes(s, q)
  BY DEF Assign
<1>2. DOMAIN r = RequestFields
  BY RequestHasFields
<1>3. Alike(q, r, {"step", "seen", "writes"})
  BY <1>2 DEF Alike
<1>4. /\ DOMAIN q = DOMAIN r /\ q.kind = r.kind /\ q.step = step /\ q.actor = r.actor
      /\ q.cafe = r.cafe /\ q.sets = r.sets /\ q.managers = r.managers /\ q.name = r.name
      /\ q.renames = r.renames /\ q.target = r.target /\ q.role = r.role
      /\ q.loaded = r.loaded /\ q.seen = seen /\ q.current = r.current
      /\ q.writes = writes /\ q.flushed = r.flushed /\ q.blind = r.blind
  BY <1>2 DEF RequestFields
<1>5. seen \in [User -> UserRow] /\ IsRowWrites(writes)
  <2>1. \A u \in User : r.seen[u] \in UserRow
    BY DEF IsRequest
  <2>2. \A u \in User : [r.seen[u] EXCEPT !.cafe = c] \in UserRow
    BY <2>1 DEF UserRow
  <2>3. seen \in [User -> UserRow]
    BY <2>1, <2>2
  <2>4. IsRowWrites(writes)
    BY DEF IsRowWrites, Columns
  <2> QED BY <2>3, <2>4
<1>6. IsRequest(q)
  BY <1>4, <1>5 DEF IsRequest, Steps
<1>7. GivesCafe(q, r, us, c)
  <2>1. DOMAIN writes \subseteq us /\ \A u \in us \ DOMAIN writes : r.seen[u].cafe = c
    OBVIOUS
  <2>2. \A u \in DOMAIN writes : writes[u] = [cafe |-> c]
    OBVIOUS
  <2> QED BY <1>4, <2>1, <2>2 DEF GivesCafe
<1> QED BY <1>1, <1>3, <1>4, <1>6, <1>7

LEMMA RemoveInv ==
    ASSUME Inv, NEW s \in Session, Remove(s)
    PROVE  Inv'
<1> PICK r : r = session[s]
  OBVIOUS
<1> PICK us : us = ToRemove(r)
  OBVIOUS
<1>1. /\ Assign(s, r, us, "none", "add") /\ r.step = "remove" /\ r.writes = NoWrites
      /\ UNCHANGED <<user, cafe, requests>>
  BY DEF Remove, At
<1>2. /\ IsRequest(r) /\ StepIsSound(r) /\ r.kind \in {"POST_CAFE", "PATCH_CAFE", "PATCH_USER"}
      /\ CafeIsSound(r) /\ TypeOK
  BY <1>1, UnderWay DEF Inv
<1>3. r.kind \in {"POST_CAFE", "PATCH_CAFE"} /\ r.cafe \in Cafe
  BY <1>1, <1>2 DEF StepIsSound
<1>4. us \subseteq r.current /\ us \cap r.managers = {} /\ us \subseteq User
  BY <1>2 DEF ToRemove, IsRequest
<1> PICK q : /\ Goes(s, q) /\ IsRequest(q) /\ Alike(q, r, {"step", "seen", "writes"})
             /\ q.step = "add" /\ GivesCafe(q, r, us, "none")
  BY <1>1, <1>2, <1>4, AssignEffect
<1>5. /\ q.kind = r.kind /\ q.cafe = r.cafe /\ q.sets = r.sets /\ q.managers = r.managers
      /\ q.target = r.target /\ q.role = r.role /\ q.loaded = r.loaded
      /\ q.current = r.current /\ q.flushed = r.flushed /\ q.blind = r.blind
  BY DEF Alike, RequestFields
<1>6. Faithful(r)
  BY <1>1, FaithfulBefore
<1>7. DOMAIN r.flushed = {} /\ \A u \in r.loaded \ r.blind : r.seen[u] = Own(r, u)
  BY <1>6, OwnIsCommitted DEF Faithful, Edited
<1>8. /\ \A u \in q.loaded \ q.blind : q.seen[u] = Own(q, u)
      /\ \A u \in us : q.seen[u].cafe = "none" /\ q.seen[u].role = r.seen[u].role
  BY <1>2, <1>4, <1>7, GivenCafe
<1>9. /\ \A u \in User \ us : q.seen[u] = r.seen[u]
      /\ DOMAIN q.writes \subseteq us
      /\ \A u \in DOMAIN q.writes : q.writes[u] = [cafe |-> "none"]
  BY DEF GivesCafe
<1>10. /\ r.managers \subseteq r.loaded /\ \A u \in r.managers : r.seen[u].role = "MANAGER"
       /\ r.current \subseteq r.loaded
       /\ \A u \in User \ r.blind :
            /\ u \in r.current => user[u].cafe = r.cafe
            /\ user[u].cafe = r.cafe => u \in r.current \cup r.managers
  BY <1>1, <1>2 DEF CafeIsSound, Checked, Listed
<1>11. StepIsSound(q)
  BY <1>2, <1>3, <1>5 DEF StepIsSound
<1>12. ReadingIsSound(q)
  <2>1. \A u \in User : CheckHolds(q.seen[u])
    BY <1>6, <1>8, <1>9 DEF Faithful, CheckHolds
  <2> QED BY <1>3, <1>5, <1>8, <2>1 DEF ReadingIsSound
<1>13. CafeIsSound(q)
  <2>1. \A u \in r.managers : q.seen[u].role = "MANAGER"
    BY <1>2, <1>4, <1>9, <1>10 DEF IsRequest
  <2>2. ToRemove(q) = us
    BY <1>5 DEF ToRemove
  <2> QED BY <1>5, <1>8, <1>10, <2>1, <2>2 DEF CafeIsSound
<1>14. FlushIsSound(q)
  <2>1. DOMAIN q.flushed = {} /\ Edited(q) \subseteq us /\ us \subseteq q.loaded
    BY <1>4, <1>5, <1>7, <1>9, <1>10 DEF Edited
  <2>2. \A u \in DOMAIN q.writes : q.writes[u] = NewCafe(q, u)
    BY <1>4, <1>5, <1>9 DEF NewCafe
  <2>3. ToRemove(q) = us
    BY <1>5 DEF ToRemove
  <2> QED BY <1>3, <1>5, <2>1, <2>2, <2>3 DEF FlushIsSound
<1>15. IsSound(q)
  BY <1>3, <1>5, <1>11, <1>12, <1>13, <1>14 DEF IsSound
<1>16. cafe' \in [Cafe -> Name \cup {"none"}] /\ requests' \in 0 .. MaxRequests
  BY <1>1, <1>2 DEF TypeOK
<1>17. \A t \in Session \ {s} : DOMAIN q.flushed \cap DOMAIN session[t].flushed = {}
  BY <1>5, <1>7
<1>18. user' = user
  BY <1>1
<1> QED BY <1>15, <1>16, <1>17, <1>18, QuietInv

LEMMA AddInv ==
    ASSUME Inv, NEW s \in Session, Add(s)
    PROVE  Inv'
<1> PICK r : r = session[s]
  OBVIOUS
<1> PICK us : us = ToAdd(r)
  OBVIOUS
<1> PICK c : c = r.cafe
  OBVIOUS
<1>1. /\ Assign(s, r, us, c, "commit") /\ r.step = "add" /\ r.writes = NoWrites
      /\ UNCHANGED <<user, cafe, requests>>
  BY DEF Add, At
<1>2. /\ IsRequest(r) /\ StepIsSound(r) /\ r.kind \in {"POST_CAFE", "PATCH_CAFE", "PATCH_USER"}
      /\ ReadingIsSound(r) /\ CafeIsSound(r) /\ FlushIsSound(r) /\ TypeOK
  BY <1>1, UnderWay DEF Inv
<1>3. r.kind \in {"POST_CAFE", "PATCH_CAFE"} /\ c \in Cafe
  BY <1>1, <1>2 DEF StepIsSound
<1>4. us \subseteq r.managers /\ us \cap r.current = {} /\ us \subseteq User
  BY <1>2 DEF ToAdd, IsRequest
<1> PICK q : /\ Goes(s, q) /\ IsRequest(q) /\ Alike(q, r, {"step", "seen", "writes"})
             /\ q.step = "commit" /\ GivesCafe(q, r, us, c)
  BY <1>1, <1>2, <1>3, <1>4, AssignEffect
<1>5. /\ q.kind = r.kind /\ q.cafe = c /\ q.sets = r.sets /\ q.managers = r.managers
      /\ q.target = r.target /\ q.role = r.role /\ q.loaded = r.loaded
      /\ q.current = r.current /\ q.flushed = r.flushed /\ q.blind = r.blind
  BY DEF Alike, RequestFields
<1>6. /\ DOMAIN r.flushed \subseteq ToRemove(r) /\ Edited(r) \subseteq r.loaded
      /\ \A u \in DOMAIN r.flushed : r.flushed[u] = NewCafe(r, u) /\ CheckHolds(Flushed(r, u))
      /\ us \cap ToRemove(r) = {}
  BY <1>1, <1>2, <1>3 DEF FlushIsSound, Edited, ToAdd, ToRemove
<1>7. \A u \in r.loaded \ r.blind : r.seen[u] = Own(r, u)
  BY <1>2, <1>3 DEF ReadingIsSound
<1>8. /\ \A u \in q.loaded \ q.blind : q.seen[u] = Own(q, u)
      /\ \A u \in us : q.seen[u].cafe = c /\ q.seen[u].role = r.seen[u].role
  <2>1. us \cap DOMAIN r.flushed = {}
    BY <1>6
  <2>2. TypeOK /\ IsRequest(r) /\ us \subseteq User /\ GivesCafe(q, r, us, c)
    BY <1>2, <1>4
  <2> QED BY ONLY <1>7, <2>1, <2>2, GivenCafe
<1>9. /\ \A u \in User \ us : q.seen[u] = r.seen[u]
      /\ DOMAIN q.writes \subseteq us
      /\ \A u \in DOMAIN q.writes : q.writes[u] = [cafe |-> c]
  BY DEF GivesCafe
<1>10. /\ r.managers \subseteq r.loaded /\ \A u \in r.managers : r.seen[u].role = "MANAGER"
       /\ r.current \subseteq r.loaded
       /\ \A u \in User \ r.blind :
            /\ u \in r.current => user[u].cafe = r.cafe
            /\ user[u].cafe = r.cafe => u \in r.current \cup r.managers
       /\ \A u \in ToRemove(r) : r.seen[u].cafe = "none"
  BY <1>1, <1>2 DEF CafeIsSound, Checked, Listed
<1>11. StepIsSound(q)
  BY <1>2, <1>3, <1>5 DEF StepIsSound
<1>12. ToRemove(q) = ToRemove(r) /\ ToAdd(q) = us
  BY <1>5 DEF ToRemove, ToAdd
<1>13. ReadingIsSound(q)
  <2>1. \A u \in User : CheckHolds(q.seen[u])
    BY <1>2, <1>4, <1>8, <1>9, <1>10 DEF ReadingIsSound, CheckHolds
  <2> QED BY <1>3, <1>5, <1>8, <2>1 DEF ReadingIsSound
<1>14. CafeIsSound(q)
  <2>1. \A u \in r.managers : q.seen[u].role = "MANAGER"
    BY <1>2, <1>8, <1>9, <1>10 DEF IsRequest
  <2>2. \A u \in ToRemove(r) : q.seen[u].cafe = "none"
    <3>1. ToRemove(r) \subseteq User \ us
      BY <1>2, <1>6 DEF ToRemove, IsRequest
    <3> QED BY <1>9, <1>10, <3>1
  <2> QED BY <1>5, <1>8, <1>10, <1>12, <2>1, <2>2 DEF CafeIsSound
<1>15. FlushIsSound(q)
  <2>1. /\ DOMAIN q.writes \cap DOMAIN q.flushed = {} /\ Edited(q) \subseteq q.loaded
        /\ DOMAIN q.writes \subseteq us /\ DOMAIN q.flushed \subseteq ToRemove(q)
    BY <1>4, <1>5, <1>6, <1>9, <1>10, <1>12 DEF Edited
  <2>2. /\ \A u \in DOMAIN q.writes : q.writes[u] = NewCafe(q, u)
        /\ \A u \in DOMAIN q.flushed : /\ q.flushed[u] = NewCafe(q, u)
                                        /\ q.flushed[u] = [cafe |-> "none"]
    BY <1>4, <1>5, <1>6, <1>9 DEF NewCafe, ToRemove
  <2>3. \A u \in DOMAIN q.flushed : CheckHolds(Flushed(q, u))
    BY <1>5, <1>6 DEF Flushed
  <2> QED BY <1>3, <1>5, <1>12, <2>1, <2>2, <2>3 DEF FlushIsSound
<1>16. IsSound(q)
  BY <1>3, <1>5, <1>11, <1>13, <1>14, <1>15 DEF IsSound
<1>17. cafe' \in [Cafe -> Name \cup {"none"}] /\ requests' \in 0 .. MaxRequests
  BY <1>1, <1>2 DEF TypeOK
<1>18. \A t \in Session \ {s} : DOMAIN q.flushed \cap DOMAIN session[t].flushed = {}
  BY <1>5 DEF Inv, LocksExclude
<1>19. user' = user
  BY <1>1
<1> QED BY <1>16, <1>17, <1>18, <1>19, QuietInv

LEMMA ColumnsOfTarget ==
    ASSUME NEW r, IsRequest(r), r.target \in User, r.role \in UserRole,
           NEW writes, writes = ColumnsOf(r)
    PROVE  /\ IsRowWrites(writes) /\ DOMAIN writes \subseteq {r.target}
           /\ NewRow(r) \in UserRow /\ CheckHolds(NewRow(r))
           /\ r.target \in DOMAIN writes
                => Overlay(r.seen[r.target], writes[r.target]) = NewRow(r)
           /\ r.target \notin DOMAIN writes => r.seen[r.target] = NewRow(r)
<1> PICK old : old = r.seen[r.target]
  OBVIOUS
<1> PICK new : new = NewRow(r)
  OBVIOUS
<1> PICK changed : changed = {f \in {"role", "cafe"} : new[f] # old[f]}
  OBVIOUS
<1>1. old \in UserRow /\ new \in UserRow /\ CheckHolds(new)
  BY DEF IsRequest, NewRow, UserRow, CheckHolds
<1>2. writes = IF changed = {} THEN NoWrites
               ELSE [u \in {r.target} |-> [f \in changed |-> new[f]]]
  BY DEF ColumnsOf
<1>3. CASE changed = {}
  <2>1. new.role = old.role /\ new.cafe = old.cafe
    BY <1>3
  <2>2. new = old
    BY <1>1, <2>1, RowsAreEqual
  <2> QED BY <1>1, <1>2, <1>3, <2>2, NoRequestIsSound DEF IsRowWrites, NoWrites
<1>4. CASE changed # {}
  <2> PICK columns : columns = [f \in changed |-> new[f]]
    OBVIOUS
  <2>1. DOMAIN writes = {r.target} /\ writes[r.target] = columns
    BY <1>2, <1>4
  <2>2. columns \in Columns
    <3>1. CASE changed = {"role", "cafe"}
      <4>1. columns = [role |-> new.role, cafe |-> new.cafe]
        BY <3>1
      <4> QED BY <1>1, <4>1 DEF UserRow, Columns
    <3>2. CASE changed = {"role"}
      <4>1. columns = [role |-> new.role]
        BY <3>2
      <4> QED BY <1>1, <4>1 DEF UserRow, Columns
    <3>3. CASE changed = {"cafe"}
      <4>1. columns = [cafe |-> new.cafe]
        BY <3>3
      <4> QED BY <1>1, <4>1 DEF UserRow, Columns
    <3> QED BY <1>4, <3>1, <3>2, <3>3
  <2>3. IsRowWrites(writes)
    BY <1>2, <1>4, <2>1, <2>2 DEF IsRowWrites
  <2>4. Overlay(old, columns) = new
    <3> PICK row : row = Overlay(old, columns)
      OBVIOUS
    <3>1. row \in UserRow
      BY <1>1, <2>2, OverlayOfRow
    <3>2. row.role = new.role /\ row.cafe = new.cafe
      BY <1>1 DEF Overlay, UserRow
    <3> QED BY <1>1, <3>1, <3>2, RowsAreEqual
  <2> QED BY <1>1, <2>1, <2>3, <2>4
<1> QED BY <1>3, <1>4

LEMMA LoadTargetInv ==
    ASSUME Inv, NEW s \in Session, LoadTarget(s)
    PROVE  Inv'
<1> PICK r : r = session[s]
  OBVIOUS
<1> PICK us : us = {r.target}
  OBVIOUS
<1> PICK n : n = Reading(r, us)
  OBVIOUS
<1> PICK anew : anew = us \ r.loaded
  OBVIOUS
<1> PICK writes : writes = ColumnsOf(n)
  OBVIOUS
<1> PICK q : q = [n EXCEPT !.step = "commit", !.writes = writes]
  OBVIOUS
<1>1. Goes(s, q) /\ r.step = "target" /\ MayUpdate(n) /\ UNCHANGED <<user, cafe, requests>>
  BY DEF LoadTarget, At, WithTarget
<1>2. /\ IsRequest(r) /\ StepIsSound(r) /\ r.kind \in {"POST_CAFE", "PATCH_CAFE", "PATCH_USER"}
  BY <1>1, UnderWay
<1>3. r.kind = "PATCH_USER" /\ r.target \in User /\ r.role \in UserRole /\ r.sets = {}
  BY <1>1, <1>2 DEF StepIsSound
<1>4. TypeOK /\ RowsPassCheck /\ us \subseteq User
  BY <1>3 DEF Inv
<1>5. Faithful(r)
  BY <1>1, FaithfulBefore
<1>6. ReadsAnew(n, r, us, anew)
  BY <1>2, <1>4, ReadingEffect
<1>7. Faithful(n)
  <2>1. us \ r.loaded \subseteq anew
    OBVIOUS
  <2> QED BY <1>2, <1>4, <1>5, <1>6, <2>1, ReadsFaithfully
<1>8. /\ DOMAIN n = RequestFields /\ IsRequest(n)
      /\ n.kind = r.kind /\ n.sets = r.sets /\ n.managers = r.managers
      /\ n.target = r.target /\ n.role = r.role /\ n.loaded = r.loaded \cup us
  BY <1>2, <1>6, RequestHasFields DEF ReadsAnew, Alike, RequestFields
<1>9. /\ DOMAIN q = DOMAIN n /\ q.kind = n.kind /\ q.step = "commit" /\ q.actor = n.actor
      /\ q.cafe = n.cafe /\ q.sets = n.sets /\ q.managers = n.managers /\ q.name = n.name
      /\ q.renames = n.renames /\ q.target = n.target /\ q.role = n.role
      /\ q.loaded = n.loaded /\ q.seen = n.seen /\ q.current = n.current
      /\ q.writes = writes /\ q.flushed = n.flushed /\ q.blind = n.blind
  BY <1>8 DEF RequestFields
<1>10. /\ IsRowWrites(writes) /\ DOMAIN writes \subseteq {n.target}
       /\ n.target \in DOMAIN writes
             => Overlay(n.seen[n.target], writes[n.target]) = NewRow(n)
       /\ n.target \notin DOMAIN writes => n.seen[n.target] = NewRow(n)
  BY <1>3, <1>8, ColumnsOfTarget
<1>11. IsRequest(q)
  <2>1. IsRowWrites(writes) /\ IsRequest(n)
    BY <1>8, <1>10
  <2>2. /\ DOMAIN q = DOMAIN NoRequest
        /\ q.kind \in {"none", "POST_CAFE", "PATCH_CAFE", "PATCH_USER"}
        /\ q.step \in Steps \cup {"none"}
        /\ q.actor \in User \cup {0} /\ q.cafe \in Cafe \cup {"none"}
        /\ q.sets \subseteq {"managers", "name"} /\ q.managers \subseteq User
    BY ONLY <1>9, <2>1 DEF IsRequest, Steps
  <2>3. /\ q.name \in Name \cup {"none"} /\ q.renames \in BOOLEAN
        /\ q.target \in User \cup {0} /\ q.role \in UserRole \cup {"none"}
    BY <1>9, <2>1 DEF IsRequest
  <2>4. /\ q.loaded \subseteq User /\ q.seen \in [User -> UserRow]
        /\ q.current \subseteq User /\ q.blind \subseteq User
    BY ONLY <1>9, <2>1 DEF IsRequest
  <2>5. IsRowWrites(q.writes) /\ IsRowWrites(q.flushed)
    BY <1>9, <2>1 DEF IsRequest
  <2> QED BY ONLY <2>2, <2>3, <2>4, <2>5 DEF IsRequest
<1>12. NewRow(q) = NewRow(n) /\ MayUpdate(q)
  BY ONLY <1>1, <1>9 DEF NewRow, MayUpdate
<1>13. /\ DOMAIN q.flushed = {} /\ Edited(q) \subseteq {q.target}
       /\ q.target \in q.loaded
  <2>1. DOMAIN n.flushed = {}
    BY <1>7 DEF Faithful, Edited
  <2>2. q.flushed = n.flushed /\ q.writes = writes /\ q.target = n.target
    BY <1>9
  <2>3. q.loaded = r.loaded \cup us /\ q.target = r.target
    BY <1>8, <1>9
  <2>4. q.target \in q.loaded
    BY <2>3
  <2> QED BY ONLY <1>10, <2>1, <2>2, <2>4 DEF Edited
<1>14. StepIsSound(q)
  BY ONLY <1>2, <1>3, <1>8, <1>9 DEF StepIsSound
<1>15. ReadingIsSound(q)
  <2>0. q.loaded = n.loaded /\ q.blind = n.blind /\ q.seen = n.seen
    BY <1>9
  <2>1. q.target \in q.blind \/ q.seen[q.target] = user[q.target]
    BY ONLY <1>7, <1>13, <2>0 DEF Faithful
  <2>2. Flushed(q, q.target) = user[q.target]
    BY <1>13 DEF Flushed
  <2>3. q.target \in DOMAIN q.writes => Overlay(q.seen[q.target], q.writes[q.target]) = NewRow(q)
    BY <1>9, <1>10, <1>12
  <2>4. q.target \notin DOMAIN q.writes => q.seen[q.target] = NewRow(q)
    BY <1>9, <1>10, <1>12
  <2>5. q.target \in q.blind \/ Own(q, q.target) = NewRow(q)
    BY <2>1, <2>2, <2>3, <2>4 DEF Own
  <2>6. q.kind = "PATCH_USER"
    BY <1>3, <1>8, <1>9
  <2>7. /\ \A u \in User : CheckHolds(q.seen[u])
        /\ \A u \in q.loaded \ q.blind : q.seen[u] = user[u]
    BY <1>7, <1>9 DEF Faithful
  <2> QED BY <1>12, <1>13, <2>5, <2>6, <2>7 DEF ReadingIsSound
<1>16. CafeIsSound(q)
  BY ONLY <1>3, <1>8, <1>9 DEF CafeIsSound, Checked, Listed
<1>17. FlushIsSound(q)
  <2>1. Edited(q) \subseteq q.loaded
    BY <1>13
  <2> QED BY <1>3, <1>8, <1>9, <1>13, <2>1 DEF FlushIsSound
<1>18. IsSound(q)
  BY <1>3, <1>8, <1>9, <1>14, <1>15, <1>16, <1>17 DEF IsSound
<1>19. cafe' \in [Cafe -> Name \cup {"none"}] /\ requests' \in 0 .. MaxRequests
  BY <1>1, <1>4 DEF TypeOK
<1>20. \A t \in Session \ {s} : DOMAIN q.flushed \cap DOMAIN session[t].flushed = {}
  BY <1>13
<1>21. user' = user
  BY <1>1
<1> QED BY <1>1, <1>11, <1>18, <1>19, <1>20, <1>21, QuietInv

----------------------------------------------------------------------------
\* The flush

LEMMA WriteRowInv ==
    ASSUME Inv, NEW s \in Session, WriteRow(s)
    PROVE  Inv'
<1> PICK r : r = session[s]
  OBVIOUS
<1> PICK u : u = NextRow(r)
  OBVIOUS
<1> PICK writes : writes = [v \in DOMAIN r.writes \ {u} |-> r.writes[v]]
  OBVIOUS
<1> PICK flushed : flushed = Merge(r.flushed, u, r.writes[u])
  OBVIOUS
<1> PICK q : q = [r EXCEPT !.writes = writes, !.flushed = flushed]
  OBVIOUS
<1>1. /\ Goes(s, q) /\ r.writes # NoWrites /\ CheckHolds(RowAfter(s))
      /\ \A t \in Session : ~Waits(s, t)
      /\ UNCHANGED <<user, cafe, requests>>
  BY DEF WriteRow, HasRow, Flushing
<1>2. IsRequest(r) /\ TypeOK
  BY SoundRequest DEF Inv
<1>3. u \in DOMAIN r.writes /\ u \in User /\ \A v \in DOMAIN r.writes : u <= v
  BY <1>1, <1>2, NextRowIsLeast
<1>4. r.step # "none"
  <2>1. IsSound(r)
    BY SoundRequest
  <2>2. r # NoRequest
    BY <1>3, NoRequestIsSound
  <2>3. r.kind \in {"POST_CAFE", "PATCH_CAFE", "PATCH_USER"} /\ StepIsSound(r)
    BY <1>2, <2>1, <2>2 DEF IsSound, IsRequest
  <2> QED BY <2>3 DEF StepIsSound
<1>5. /\ r.kind \in {"POST_CAFE", "PATCH_CAFE", "PATCH_USER"}
      /\ StepIsSound(r) /\ ReadingIsSound(r) /\ CafeIsSound(r) /\ FlushIsSound(r)
  BY <1>4, UnderWay
<1>6. /\ DOMAIN q = DOMAIN r /\ q.kind = r.kind /\ q.step = r.step /\ q.actor = r.actor
      /\ q.cafe = r.cafe /\ q.sets = r.sets /\ q.managers = r.managers /\ q.name = r.name
      /\ q.renames = r.renames /\ q.target = r.target /\ q.role = r.role
      /\ q.loaded = r.loaded /\ q.seen = r.seen /\ q.current = r.current
      /\ q.writes = writes /\ q.flushed = flushed /\ q.blind = r.blind
  BY <1>2, RequestHasFields DEF RequestFields
<1>7. DOMAIN r.writes \subseteq User /\ DOMAIN r.flushed \subseteq User /\ User \subseteq Nat
  BY <1>2, UsersAssumption DEF IsRequest, IsRowWrites
<1>8. u \notin DOMAIN r.flushed
  BY <1>3, <1>5 DEF FlushIsSound
<1>9. /\ DOMAIN writes = DOMAIN r.writes \ {u}
      /\ \A v \in DOMAIN writes : writes[v] = r.writes[v]
      /\ DOMAIN flushed = DOMAIN r.flushed \cup {u} /\ flushed[u] = r.writes[u]
      /\ \A v \in DOMAIN r.flushed : flushed[v] = r.flushed[v]
  BY <1>8 DEF Merge
<1>10. IsRequest(q)
  <2>1. IsRowWrites(writes)
    BY <1>2, <1>7 DEF IsRequest, IsRowWrites
  <2>2. IsRowWrites(flushed)
    BY <1>2, <1>3, <1>7 DEF IsRequest, IsRowWrites, Merge
  <2> QED BY <1>2, <1>6, <2>1, <2>2 DEF IsRequest
<1>11. \A v : Own(q, v) = Own(r, v)
  BY ONLY <1>3, <1>6, <1>8, <1>9 DEF Own, Flushed
<1>12. Edited(q) = Edited(r)
  BY ONLY <1>3, <1>6, <1>9 DEF Edited
<1>13. StepIsSound(q)
  BY <1>5, <1>6 DEF StepIsSound
<1>14. ReadingIsSound(q)
  <2>1. NewRow(q) = NewRow(r) /\ (MayUpdate(q) <=> MayUpdate(r))
    BY <1>6 DEF NewRow, MayUpdate
  <2>2. /\ q.kind = r.kind /\ q.step = r.step /\ q.loaded = r.loaded /\ q.seen = r.seen
        /\ q.blind = r.blind /\ q.target = r.target
    BY <1>6
  <2>3. ReadingIsSound(r)
    BY <1>5
  <2>4. Own(q, q.target) = NewRow(q) <=> Own(r, r.target) = NewRow(r)
    BY ONLY <1>11, <2>1, <2>2
  <2>5. (\A v \in q.loaded \ q.blind : q.seen[v] = Own(q, v))
          <=> (\A v \in r.loaded \ r.blind : r.seen[v] = Own(r, v))
    BY ONLY <1>11, <2>2
  <2> QED BY ONLY <2>1, <2>2, <2>3, <2>4, <2>5 DEF ReadingIsSound
<1>15. CafeIsSound(q)
  BY ONLY <1>5, <1>6 DEF CafeIsSound, Checked, Listed, ToRemove, ToAdd
<1>16. FlushIsSound(q)
  <2>1. RowAfter(s) = Flushed(q, u)
    BY <1>6, <1>8, <1>9 DEF RowAfter, Flushed
  <2>2. \A v \in DOMAIN q.flushed : CheckHolds(Flushed(q, v))
    BY ONLY <1>1, <1>5, <1>6, <1>9, <2>1 DEF FlushIsSound, Flushed
  <2>3. DOMAIN q.writes \cap DOMAIN q.flushed = {}
    BY <1>5, <1>6, <1>9 DEF FlushIsSound
  <2>4. /\ ToRemove(q) = ToRemove(r) /\ ToAdd(q) = ToAdd(r)
        /\ \A v : NewCafe(q, v) = NewCafe(r, v)
    BY <1>6 DEF ToRemove, ToAdd, NewCafe
  <2>5. r.kind # "PATCH_USER" =>
          \A v \in DOMAIN q.flushed, w \in DOMAIN q.writes :
            v < w \/ q.flushed[v] = [cafe |-> "none"]
    <3> SUFFICES ASSUME r.kind # "PATCH_USER", NEW v \in DOMAIN q.flushed,
                        NEW w \in DOMAIN q.writes
                 PROVE  v < w \/ q.flushed[v] = [cafe |-> "none"]
      OBVIOUS
    <3>1. w \in DOMAIN r.writes /\ w # u /\ w \in Nat /\ u \in Nat /\ u <= w
      BY <1>3, <1>6, <1>7, <1>9
    <3>2. CASE v = u
      BY <3>1, <3>2
    <3>3. CASE v \in DOMAIN r.flushed
      <4>1. v < w \/ r.flushed[v] = [cafe |-> "none"]
        BY <1>5, <3>1, <3>3 DEF FlushIsSound
      <4> QED BY <1>6, <1>9, <3>3, <4>1
    <3> QED BY <1>6, <1>9, <3>2, <3>3
  <2>6. r.kind # "PATCH_USER" =>
          /\ \A v \in DOMAIN q.writes : q.writes[v] = NewCafe(q, v)
          /\ \A v \in DOMAIN q.flushed : q.flushed[v] = NewCafe(q, v)
          /\ r.step = "commit" => /\ DOMAIN q.writes \subseteq ToAdd(q)
                                 /\ DOMAIN q.flushed \subseteq ToRemove(q) \cup ToAdd(q)
    <3> SUFFICES ASSUME r.kind # "PATCH_USER"
                 PROVE  /\ \A v \in DOMAIN q.writes : q.writes[v] = NewCafe(q, v)
                        /\ \A v \in DOMAIN q.flushed : q.flushed[v] = NewCafe(q, v)
                        /\ r.step = "commit" =>
                              /\ DOMAIN q.writes \subseteq ToAdd(q)
                              /\ DOMAIN q.flushed \subseteq ToRemove(q) \cup ToAdd(q)
      OBVIOUS
    <3>0. q.writes = writes /\ q.flushed = flushed
      BY <1>6
    <3>1. /\ \A v \in DOMAIN r.writes : r.writes[v] = NewCafe(r, v)
          /\ \A v \in DOMAIN r.flushed : r.flushed[v] = NewCafe(r, v)
          /\ r.step = "commit" => /\ DOMAIN r.writes \subseteq ToAdd(r)
                                 /\ DOMAIN r.flushed \subseteq ToRemove(r) \cup ToAdd(r)
      BY <1>5 DEF FlushIsSound
    <3>2. \A v \in DOMAIN q.writes : q.writes[v] = NewCafe(q, v)
      BY ONLY <1>9, <2>4, <3>0, <3>1
    <3>3. \A v \in DOMAIN q.flushed : q.flushed[v] = NewCafe(q, v)
      BY ONLY <1>3, <1>9, <2>4, <3>0, <3>1
    <3>4. r.step = "commit" => /\ DOMAIN q.writes \subseteq ToAdd(q)
                              /\ DOMAIN q.flushed \subseteq ToRemove(q) \cup ToAdd(q)
      BY ONLY <1>3, <1>9, <2>4, <3>0, <3>1
    <3> QED BY <3>2, <3>3, <3>4
  <2> QED BY ONLY <1>5, <1>6, <1>12, <2>2, <2>3, <2>4, <2>5, <2>6 DEF FlushIsSound
<1>17. IsSound(q)
  BY <1>5, <1>6, <1>13, <1>14, <1>15, <1>16 DEF IsSound
<1>18. \A t \in Session \ {s} : DOMAIN q.flushed \cap DOMAIN session[t].flushed = {}
  <2>1. \A t \in Session \ {s} : u \notin DOMAIN session[t].flushed
    BY <1>1 DEF Waits, Flushing, Holders
  <2>2. \A t \in Session \ {s} : DOMAIN r.flushed \cap DOMAIN session[t].flushed = {}
    BY DEF Inv, LocksExclude
  <2> QED BY <1>6, <1>9, <2>1, <2>2
<1>19. cafe' \in [Cafe -> Name \cup {"none"}] /\ requests' \in 0 .. MaxRequests
  BY <1>1, <1>2 DEF TypeOK
<1>20. user' = user
  BY <1>1
<1> QED BY <1>1, <1>10, <1>17, <1>18, <1>19, <1>20, QuietInv

----------------------------------------------------------------------------
\* COMMIT: the rows change, and whoever has read them is blind to it

LEMMA CommittedRows ==
    ASSUME Inv, NEW s \in Session, NEW r, r = session[s], r.step # "none",
           user' = Committed(r)
    PROVE  /\ user' \in [User -> UserRow] /\ RowsPassCheck'
           /\ \A u \in User : user'[u] = Flushed(r, u)
           /\ \A u \in User : u \notin DOMAIN r.flushed => user'[u] = user[u]
<1>1. TypeOK /\ RowsPassCheck /\ IsRequest(r) /\ FlushIsSound(r)
  BY UnderWay DEF Inv
<1>2. \A u \in User : user'[u] = Flushed(r, u)
  BY DEF Committed
<1>3. \A u \in User : u \notin DOMAIN r.flushed => Flushed(r, u) = user[u]
  BY DEF Flushed
<1>4. \A u \in User : CheckHolds(Flushed(r, u))
  BY <1>1, <1>3 DEF FlushIsSound, RowsPassCheck
<1>5. user' \in [User -> UserRow]
  BY <1>1, FlushedIsRow DEF Committed
<1>6. RowsPassCheck'
  BY <1>2, <1>4 DEF RowsPassCheck, CheckHolds
<1> QED BY <1>2, <1>3, <1>5, <1>6

\* q is p, in which the users us are blind too.
Blinded(q, p, us) ==
    IsRequest(q) /\ Alike(q, p, {"blind"}) /\ q.blind = p.blind \cup us

LEMMA BlindedIsSound ==
    ASSUME NEW p, IsSound(p), p.kind # "none", NEW q, NEW us, Blinded(q, p, us),
           \A u \in User \ us : user'[u] = user[u],
           \A u \in DOMAIN p.flushed : user'[u] = user[u]
    PROVE  IsSound(q)'
<1>1. /\ q.kind = p.kind /\ q.step = p.step /\ q.actor = p.actor /\ q.cafe = p.cafe
      /\ q.sets = p.sets /\ q.managers = p.managers /\ q.target = p.target
      /\ q.role = p.role /\ q.loaded = p.loaded /\ q.seen = p.seen
      /\ q.current = p.current /\ q.writes = p.writes /\ q.flushed = p.flushed
      /\ q.blind = p.blind \cup us
  BY DEF Blinded, Alike, RequestFields
<1>2. IsRequest(q) /\ q.loaded \subseteq User
  BY DEF Blinded, IsRequest
<1>3. StepIsSound(p) /\ ReadingIsSound(p) /\ CafeIsSound(p) /\ FlushIsSound(p)
  BY DEF IsSound
<1>4. ASSUME NEW u, user'[u] = user[u]
      PROVE  Own(q, u)' = Own(p, u) /\ Flushed(q, u)' = Flushed(p, u)
  BY <1>1, <1>4 DEF Own, Flushed
<1>5. StepIsSound(q)'
  BY <1>1, <1>3 DEF StepIsSound
<1>6. ReadingIsSound(q)'
  <2>1. \A u \in q.loaded \ q.blind : /\ u \in p.loaded \ p.blind /\ user'[u] = user[u]
                                     /\ Own(q, u)' = Own(p, u)
    BY <1>1, <1>2, <1>4
  <2>2. NewRow(q) = NewRow(p) /\ (MayUpdate(q) <=> MayUpdate(p))
    BY <1>1 DEF NewRow, MayUpdate
  <2>3. q.kind = "PATCH_USER" /\ q.step = "commit" =>
          /\ q.target \in q.loaded /\ MayUpdate(q)
          /\ q.target \in q.blind \/ Own(q, q.target)' = NewRow(q)
    BY <1>1, <1>3, <2>1, <2>2 DEF ReadingIsSound
  <2>4. \A u \in User : CheckHolds(q.seen[u])
    BY <1>1, <1>3 DEF ReadingIsSound
  <2>5. /\ q.kind # "PATCH_USER" => \A u \in q.loaded \ q.blind : q.seen[u] = Own(q, u)'
        /\ q.kind = "PATCH_USER" => \A u \in q.loaded \ q.blind : q.seen[u] = user'[u]
    BY <1>1, <1>3, <2>1 DEF ReadingIsSound
  <2> QED BY <2>3, <2>4, <2>5 DEF ReadingIsSound, MayUpdate, NewRow
<1>7. CafeIsSound(q)'
  BY <1>1, <1>3 DEF CafeIsSound, Checked, Listed, ToRemove, ToAdd
<1>8. FlushIsSound(q)'
  <2>1. \A u \in DOMAIN q.flushed : CheckHolds(Flushed(q, u)')
    BY <1>1, <1>3, <1>4 DEF FlushIsSound
  <2>2. /\ Edited(q) = Edited(p) /\ ToRemove(q) = ToRemove(p) /\ ToAdd(q) = ToAdd(p)
        /\ \A u : NewCafe(q, u) = NewCafe(p, u)
    BY <1>1 DEF Edited, ToRemove, ToAdd, NewCafe
  <2> QED BY <1>1, <1>3, <2>1, <2>2 DEF FlushIsSound, CheckHolds
<1> QED BY <1>1, <1>5, <1>6, <1>7, <1>8 DEF IsSound

LEMMA AndSeenByEffect ==
    ASSUME Inv, NEW s \in Session, NEW r, r = session[s], r.step # "none",
           NEW next, IsRequest(next), user' = Committed(r),
           session' = AndSeenBy(s, next, r)
    PROVE  /\ DOMAIN session' = Session /\ session'[s] = next
           /\ \A t \in Session \ {s} :
                IF Busy(t) THEN Blinded(session'[t], session[t], {u \in User : user'[u] # user[u]})
                ELSE session'[t] = session[t]
<1> PICK us : us = {u \in User : user'[u] # user[u]}
  OBVIOUS
<1>1. DOMAIN session' = Session /\ session'[s] = next
  BY DEF AndSeenBy
<1>2. ASSUME NEW t \in Session \ {s}, ~Busy(t) PROVE session'[t] = session[t]
  BY <1>2 DEF AndSeenBy
<1>3. ASSUME NEW t \in Session \ {s}, Busy(t) PROVE Blinded(session'[t], session[t], us)
  <2> PICK p : p = session[t]
    OBVIOUS
  <2> PICK q : q = [p EXCEPT !.blind = p.blind \cup us]
    OBVIOUS
  <2>1. session'[t] = q
    BY <1>3 DEF AndSeenBy
  <2>2. IsRequest(p)
    BY SoundRequest
  <2>3. DOMAIN p = RequestFields
    BY <2>2, RequestHasFields
  <2>4. Alike(q, p, {"blind"}) /\ q.blind = p.blind \cup us
    BY <2>3 DEF Alike, RequestFields
  <2>5. /\ DOMAIN q = DOMAIN p /\ q.kind = p.kind /\ q.step = p.step /\ q.actor = p.actor
        /\ q.cafe = p.cafe /\ q.sets = p.sets /\ q.managers = p.managers /\ q.name = p.name
        /\ q.renames = p.renames /\ q.target = p.target /\ q.role = p.role
        /\ q.loaded = p.loaded /\ q.seen = p.seen /\ q.current = p.current
        /\ q.writes = p.writes /\ q.flushed = p.flushed
    BY <2>4 DEF Alike, RequestFields
  <2>6. q.blind \subseteq User
    BY <2>2, <2>4 DEF IsRequest
  <2>7. IsRequest(q)
    BY <2>2, <2>5, <2>6 DEF IsRequest
  <2> QED BY <2>1, <2>4, <2>7 DEF Blinded
<1> QED BY <1>1, <1>2, <1>3

LEMMA CommitsInv ==
    ASSUME Inv, NEW s \in Session, NEW r, r = session[s], r.step # "none",
           NEW next, IsRequest(next), IsSound(next)', next.flushed = NoWrites,
           user' = Committed(r), session' = AndSeenBy(s, next, r),
           cafe' \in [Cafe -> Name \cup {"none"}], requests' \in 0 .. MaxRequests
    PROVE  Inv'
<1> PICK us : us = {u \in User : user'[u] # user[u]}
  OBVIOUS
<1>1. /\ user' \in [User -> UserRow] /\ RowsPassCheck'
      /\ \A u \in User : u \notin DOMAIN r.flushed => user'[u] = user[u]
  BY CommittedRows
<1>2. /\ DOMAIN session' = Session /\ session'[s] = next
      /\ \A t \in Session \ {s} :
           IF Busy(t) THEN Blinded(session'[t], session[t], us) ELSE session'[t] = session[t]
  BY AndSeenByEffect
<1>3. \A t \in Session \ {s} : /\ IsRequest(session'[t])
                              /\ session'[t].flushed = session[t].flushed
  BY <1>2, SoundRequest DEF Blinded, Alike, RequestFields
<1>4. TypeOK'
  BY <1>1, <1>2, <1>3 DEF TypeOK
<1>5. LocksExclude'
  BY <1>2, <1>3, NoRequestIsSound DEF Inv, LocksExclude
<1>6. ASSUME NEW t \in Session PROVE IsSound(session[t])'
  <2> PICK q : q = session'[t]
    OBVIOUS
  <2> PICK p : p = session[t]
    OBVIOUS
  <2>1. CASE t = s
    <3>1. session'[t] = next /\ IsSound(next)'
      BY <1>2, <2>1
    <3> QED BY ONLY <3>1 DEF IsSound, StepIsSound, ReadingIsSound, CafeIsSound, FlushIsSound,
                             Own, Flushed
  <2>2. CASE t # s /\ ~Busy(t)
    <3>1. p = NoRequest /\ q = p
      BY <1>2, <2>2, SoundRequest DEF IsSound, Busy
    <3> QED BY <3>1, NoRequestIsSound DEF IsSound
  <2>3. CASE t # s /\ Busy(t)
    <3>1. Blinded(q, p, us) /\ IsSound(p) /\ p.kind # "none"
      BY <1>2, <2>3, SoundRequest DEF Busy
    <3>2. \A u \in User \ us : user'[u] = user[u]
      OBVIOUS
    <3>3. \A u \in DOMAIN p.flushed : user'[u] = user[u]
      <4>1. DOMAIN p.flushed \cap DOMAIN r.flushed = {}
        BY <2>3 DEF Inv, LocksExclude
      <4>2. DOMAIN p.flushed \subseteq User
        BY SoundRequest DEF IsRequest, IsRowWrites
      <4> QED BY <1>1, <4>1, <4>2
    <3>4. IsSound(q)'
      BY <3>1, <3>2, <3>3, BlindedIsSound
    <3>5. session'[t] = q
      OBVIOUS
    <3> QED BY ONLY <3>4, <3>5 DEF IsSound, StepIsSound, ReadingIsSound, CafeIsSound,
                                   FlushIsSound, Own, Flushed
  <2> QED BY <2>1, <2>2, <2>3
<1> QED BY <1>1, <1>4, <1>5, <1>6 DEF Inv, RequestsAreSound

LEMMA CommitCafeInv ==
    ASSUME Inv, NEW s \in Session, CommitCafe(s)
    PROVE  Inv'
<1> PICK r : r = session[s]
  OBVIOUS
<1> PICK q : q = [r EXCEPT !.step = "reload", !.flushed = NoWrites]
  OBVIOUS
<1>1. /\ r.step = "inserted" /\ r.writes = NoWrites /\ requests' = requests
      /\ user' = Committed(r) /\ cafe' = [cafe EXCEPT ![r.cafe] = r.name]
      /\ session' = AndSeenBy(s, q, r)
  BY DEF CommitCafe, At
<1>2. /\ IsRequest(r) /\ r.kind \in {"POST_CAFE", "PATCH_CAFE", "PATCH_USER"}
      /\ StepIsSound(r) /\ ReadingIsSound(r) /\ CafeIsSound(r) /\ FlushIsSound(r)
  BY <1>1, UnderWay
<1>3. r.kind = "POST_CAFE" /\ r.cafe \in Cafe
  BY <1>1, <1>2 DEF StepIsSound
<1>4. DOMAIN r = RequestFields
  BY <1>2, RequestHasFields
<1>5. /\ DOMAIN q = DOMAIN r /\ q.kind = r.kind /\ q.step = "reload" /\ q.actor = r.actor
      /\ q.cafe = r.cafe /\ q.sets = r.sets /\ q.managers = r.managers /\ q.name = r.name
      /\ q.renames = r.renames /\ q.target = r.target /\ q.role = r.role
      /\ q.loaded = r.loaded /\ q.seen = r.seen /\ q.current = r.current
      /\ q.writes = r.writes /\ q.flushed = NoWrites /\ q.blind = r.blind
  BY <1>4 DEF RequestFields
<1>6. IsRequest(q)
  BY <1>2, <1>5, NoRequestIsSound DEF IsRequest, Steps
<1>7. \A u \in User : user'[u] = Flushed(r, u)
  BY <1>1, CommittedRows
<1>8. DOMAIN q.writes = {} /\ DOMAIN q.flushed = {}
  BY <1>1, <1>5, NoRequestIsSound
<1>9. StepIsSound(q)'
  BY <1>2, <1>3, <1>5 DEF StepIsSound
<1>10. ReadingIsSound(q)'
  <2>1. \A u \in r.loaded \ r.blind : r.seen[u] = Flushed(r, u)
    BY <1>2, <1>3, <1>5, <1>8 DEF ReadingIsSound, Own
  <2>2. \A u : Own(q, u)' = user'[u]
    BY <1>8 DEF Own, Flushed
  <2>3. \A u \in q.loaded \ q.blind : q.seen[u] = Own(q, u)'
    BY <1>2, <1>5, <1>7, <2>1, <2>2 DEF IsRequest
  <2>4. \A u \in User : CheckHolds(q.seen[u])
    BY <1>2, <1>5 DEF ReadingIsSound
  <2> QED BY <1>3, <1>5, <2>3, <2>4 DEF ReadingIsSound
<1>11. CafeIsSound(q)'
  BY <1>1, <1>2, <1>5 DEF CafeIsSound, Checked, Listed
<1>12. FlushIsSound(q)'
  BY <1>3, <1>5, <1>8 DEF FlushIsSound, Edited
<1>13. IsSound(q)'
  BY <1>3, <1>5, <1>9, <1>10, <1>11, <1>12 DEF IsSound
<1>14. cafe' \in [Cafe -> Name \cup {"none"}] /\ requests' \in 0 .. MaxRequests
  BY <1>1, <1>2, <1>3 DEF Inv, TypeOK, IsRequest
<1>15. r.step # "none" /\ q.flushed = NoWrites
  BY <1>1, <1>5
<1> QED BY <1>1, <1>6, <1>13, <1>14, <1>15, CommitsInv

LEMMA CommitInv ==
    ASSUME Inv, NEW s \in Session, Commit(s)
    PROVE  Inv'
<1> PICK r : r = session[s]
  OBVIOUS
<1>1. /\ r.step = "commit" /\ UNCHANGED <<cafe, requests>>
      /\ user' = Committed(r) /\ session' = AndSeenBy(s, NoRequest, r)
  BY DEF Commit, At
<1>2. IsSound(NoRequest)'
  BY NoRequestIsSound DEF IsSound
<1>3. cafe' \in [Cafe -> Name \cup {"none"}] /\ requests' \in 0 .. MaxRequests
  BY <1>1 DEF Inv, TypeOK
<1> PICK q : q = NoRequest
  OBVIOUS
<1>4. /\ r.step # "none" /\ IsRequest(q) /\ q.flushed = NoWrites
      /\ session' = AndSeenBy(s, q, r)
  BY <1>1, NoRequestIsSound
<1>5. IsSound(q)'
  BY NoRequestIsSound DEF IsSound
<1> QED BY <1>1, <1>3, <1>4, <1>5, CommitsInv

----------------------------------------------------------------------------
\* The invariant holds

LEMMA InitInv == Init => Inv
<1> SUFFICES ASSUME Init PROVE Inv
  OBVIOUS
<1>1. user \in [User -> UserRow] /\ RowsPassCheck
  BY UsersAssumption DEF Init, RowsPassCheck
<1>2. /\ DOMAIN session = Session
      /\ \A s \in Session : IsRequest(session[s]) /\ IsSound(session[s])
  BY NoRequestIsSound DEF Init
<1>3. requests \in 0 .. MaxRequests
  BY BoundsAssumption DEF Init
<1>4. cafe \in [Cafe -> Name \cup {"none"}]
  BY CafesAssumption DEF Init
<1>5. LocksExclude
  BY NoRequestIsSound DEF Init, LocksExclude
<1> QED BY <1>1, <1>2, <1>3, <1>4, <1>5 DEF Inv, TypeOK, RequestsAreSound

LEMMA NextInv == Inv /\ [Next]_vars => Inv'
<1> SUFFICES ASSUME Inv, [Next]_vars PROVE Inv'
  OBVIOUS
<1>1. ASSUME NEW s \in Session, Arrive(s) PROVE Inv'
  BY <1>1, ArriveInv
<1>2. ASSUME NEW s \in Session, LoadCafe(s) \/ CheckRoles(s) \/ Rename(s) \/ Reload(s)
      PROVE  Inv'
  BY <1>2, LoadCafeInv, CheckRolesInv, RenameInv, ReloadInv
<1>3. ASSUME NEW s \in Session, Insert(s) \/ Remove(s) \/ Add(s) \/ LoadTarget(s) PROVE Inv'
  BY <1>3, InsertInv, RemoveInv, AddInv, LoadTargetInv
<1>4. ASSUME NEW s \in Session, WriteRow(s) \/ CommitCafe(s) \/ Commit(s) PROVE Inv'
  BY <1>4, WriteRowInv, CommitCafeInv, CommitInv
<1>5. ASSUME NEW s \in Session, BreaksCheck(s) \/ DeadlockAbort(s) \/ Refuse(s) PROVE Inv'
  BY <1>5, RollbackInv DEF BreaksCheck, DeadlockAbort, Refuse
<1>6. CASE UNCHANGED vars
  BY <1>6 DEF vars, Inv, TypeOK, RequestsAreSound, RowsPassCheck, LocksExclude, IsSound,
              StepIsSound, ReadingIsSound, CafeIsSound, FlushIsSound, Own, Flushed
<1> QED BY <1>1, <1>2, <1>3, <1>4, <1>5, <1>6 DEF Next, Proceed

LEMMA InvHolds == Spec => []Inv
  BY InitInv, NextInv, PTL DEF Spec

\* Rows, requests and what they have read and written keep their shape.
THEOREM TypeCorrect == Spec => []TypeOK
<1>1. Inv => TypeOK
  BY DEF Inv
<1> QED BY <1>1, InvHolds, PTL

----------------------------------------------------------------------------
\* Whoever has a cafe has one that exists

\* A PATCH of a user only ever takes a cafe away.
TakesAway(f) == \A u \in DOMAIN f : "cafe" \in DOMAIN f[u] => f[u].cafe = "none"

\* The cafe of a request exists, unless the request is yet to commit it.
HasItsCafe(r) ==
    /\ \/ r.kind = "PATCH_CAFE"
       \/ r.kind = "POST_CAFE" /\ r.step \in {"reload", "remove", "add", "commit"}
       => r.cafe \in Cafe /\ cafe[r.cafe] # "none"
    /\ r.kind = "POST_CAFE" => r.name \in Name
    /\ r.renames => r.name # "none"
    /\ r.kind = "PATCH_USER" => TakesAway(r.writes) /\ TakesAway(r.flushed)

CafesExist ==
    /\ \A u \in User : user[u].cafe # "none" => cafe[user[u].cafe] # "none"
    /\ \A s \in Session : HasItsCafe(session[s])

\* q and r are requests for the same, with the same writes.
SameRequest(q, r) ==
    /\ q.kind = r.kind /\ q.cafe = r.cafe /\ q.name = r.name /\ q.renames = r.renames
    /\ q.writes = r.writes /\ q.flushed = r.flushed

LEMMA ReadingKeeps ==
    ASSUME NEW r, DOMAIN r = RequestFields, NEW us
    PROVE  /\ SameRequest(Reading(r, us), r) /\ Reading(r, us).step = r.step
           /\ SameRequest(Rereading(r, us), r) /\ Rereading(r, us).step = r.step
           /\ DOMAIN Reading(r, us) = RequestFields /\ DOMAIN Rereading(r, us) = RequestFields
  BY DEF Reading, Rereading, RequestFields, SameRequest

\* A step of one request that commits nothing of users.
LEMMA CafesStay ==
    ASSUME Inv, CafesExist, NEW s \in Session, NEW q, Goes(s, q), user' = user,
           \A c \in Cafe : cafe[c] # "none" => cafe'[c] # "none",
           HasItsCafe(q)'
    PROVE  CafesExist'
<1>1. \A t \in Session : session'[t] = IF t = s THEN q ELSE session[t]
  BY GoesEffect DEF Inv, TypeOK
<1>2. ASSUME NEW t \in Session PROVE HasItsCafe(session[t])'
  <2>1. CASE t = s
    BY <1>1, <2>1 DEF HasItsCafe
  <2>2. CASE t # s
    BY <1>1, <2>2 DEF CafesExist, HasItsCafe
  <2> QED BY <2>1, <2>2
<1>3. \A u \in User : user[u].cafe # "none" => user[u].cafe \in Cafe
  BY DEF Inv, TypeOK, UserRow
<1> QED BY <1>2, <1>3 DEF CafesExist

\* A request that goes on in its transactions keeps its cafe.
LEMMA CafesStayOn ==
    ASSUME Inv, CafesExist, NEW s \in Session, NEW q, Goes(s, q), user' = user,
           \A c \in Cafe : cafe[c] # "none" => cafe'[c] # "none",
           q.kind = session[s].kind, q.cafe = session[s].cafe, q.name = session[s].name,
           q.renames = session[s].renames \/ (q.renames => q.name # "none"),
           \/ q.kind = "PATCH_CAFE"
           \/ q.kind = "POST_CAFE" /\ q.step \notin {"reload", "remove", "add", "commit"}
           \/ session[s].step \in {"reload", "remove", "add", "commit"},
           q.kind # "PATCH_USER" \/ (TakesAway(q.writes) /\ TakesAway(q.flushed))
    PROVE  CafesExist'
<1>1. HasItsCafe(session[s])
  BY DEF CafesExist
<1>2. HasItsCafe(q)'
  BY <1>1 DEF HasItsCafe, TakesAway
<1> QED BY <1>2, CafesStay

LEMMA CafesAfterCommit ==
    ASSUME Inv, CafesExist, NEW s \in Session, NEW r, r = session[s], r.step # "none",
           NEW next, IsRequest(next), user' = Committed(r), session' = AndSeenBy(s, next, r),
           \A c \in Cafe : cafe[c] # "none" => cafe'[c] # "none",
           r.kind # "PATCH_USER" => r.cafe \in Cafe /\ cafe'[r.cafe] # "none",
           HasItsCafe(next)'
    PROVE  CafesExist'
<1>1. FlushIsSound(r) /\ r.kind \in {"POST_CAFE", "PATCH_CAFE", "PATCH_USER"}
  BY UnderWay
<1>2. \A u \in User : user'[u] = Flushed(r, u)
  BY CommittedRows
<1>3. HasItsCafe(r)
  BY DEF CafesExist
<1>4. TypeOK /\ IsRequest(r)
  BY SoundRequest DEF Inv
<1>5. ASSUME NEW u \in User, user'[u].cafe # "none" PROVE cafe'[user'[u].cafe] # "none"
  <2>1. "cafe" \in DOMAIN user[u]
    BY <1>4 DEF TypeOK, UserRow
  <2>2. CASE u \notin DOMAIN r.flushed
    <3>1. user'[u] = user[u]
      BY <1>2, <2>2 DEF Flushed
    <3> QED BY <1>4, <1>5, <3>1 DEF CafesExist, TypeOK, UserRow
  <2>3. CASE u \in DOMAIN r.flushed /\ "cafe" \notin DOMAIN r.flushed[u]
    <3>1. user'[u].cafe = user[u].cafe
      BY <1>2, <2>1, <2>3 DEF Flushed, Overlay
    <3> QED BY <1>4, <1>5, <3>1 DEF CafesExist, TypeOK, UserRow
  <2>4. CASE u \in DOMAIN r.flushed /\ "cafe" \in DOMAIN r.flushed[u]
    <3>1. user'[u].cafe = r.flushed[u].cafe
      BY <1>2, <2>1, <2>4 DEF Flushed, Overlay
    <3>2. r.kind # "PATCH_USER"
      BY <1>3, <1>5, <2>4, <3>1 DEF HasItsCafe, TakesAway
    <3>3. r.flushed[u] = NewCafe(r, u)
      BY <1>1, <2>4, <3>2 DEF FlushIsSound
    <3> QED BY <1>5, <3>1, <3>2, <3>3 DEF NewCafe
  <2> QED BY <2>2, <2>3, <2>4
<1>6. ASSUME NEW t \in Session PROVE HasItsCafe(session[t])'
  <2>0. HasItsCafe(session[t])
    BY DEF CafesExist
  <2>1. CASE t = s
    <3>1. session'[t] = next
      BY <2>1, AndSeenByEffect
    <3> QED BY <3>1 DEF HasItsCafe
  <2>2. CASE t # s /\ ~Busy(t)
    <3>1. session'[t] = session[t]
      BY <2>2, AndSeenByEffect
    <3> QED BY <2>0, <3>1 DEF HasItsCafe
  <2>3. CASE t # s /\ Busy(t)
    <3>1. Blinded(session'[t], session[t], {u \in User : user'[u] # user[u]})
      BY <2>3, AndSeenByEffect
    <3>2. /\ session'[t].kind = session[t].kind /\ session'[t].cafe = session[t].cafe
          /\ session'[t].name = session[t].name /\ session'[t].step = session[t].step
          /\ session'[t].renames = session[t].renames
          /\ session'[t].writes = session[t].writes /\ session'[t].flushed = session[t].flushed
      BY <3>1 DEF Blinded, Alike, RequestFields
    <3> QED BY <2>0, <3>2 DEF HasItsCafe, TakesAway
  <2> QED BY <2>1, <2>2, <2>3
<1> QED BY <1>5, <1>6 DEF CafesExist

LEMMA CafesAtArrival ==
    ASSUME Inv, CafesExist, NEW s \in Session, NEW a, NEW n, Arrives(s, a, n),
           DOMAIN n = RequestFields, n.writes = NoWrites, n.flushed = NoWrites,
           n.renames = FALSE,
           \/ n.kind = "PATCH_CAFE" /\ n.cafe \in Cafe /\ cafe[n.cafe] # "none"
           \/ n.kind = "POST_CAFE" /\ n.step = "roles" /\ n.name \in Name
           \/ n.kind = "PATCH_USER"
    PROVE  CafesExist'
<1> PICK q : q = Reading(n, {a})
  OBVIOUS
<1>1. Goes(s, q) /\ user' = user /\ cafe' = cafe
  BY DEF Arrives, Goes
<1>2. SameRequest(q, n) /\ q.step = n.step
  BY ReadingKeeps
<1>3. TakesAway(NoWrites)
  BY NoRequestIsSound DEF TakesAway
<1>4. HasItsCafe(q)'
  BY <1>1, <1>2, <1>3 DEF HasItsCafe, SameRequest
<1> QED BY <1>1, <1>4, CafesStay

LEMMA CafesOnArrival ==
    ASSUME Inv, CafesExist, NEW s \in Session, Arrive(s)
    PROVE  CafesExist'
<1>0. /\ DOMAIN NoRequest = RequestFields
      /\ NoRequest.writes = NoWrites /\ NoRequest.flushed = NoWrites
      /\ NoRequest.renames = FALSE
  BY NoRequestIsSound DEF NoRequest
<1>1. ASSUME NEW a \in User, NEW c \in Cafe, NEW body \in CafePatches, PatchCafe(s, a, c, body)
      PROVE  CafesExist'
  <2> DEFINE n == [NoRequest EXCEPT
         !.kind = "PATCH_CAFE", !.step = "cafe", !.actor = a, !.cafe = c,
         !.sets = DOMAIN body,
         !.managers = IF "managers" \in DOMAIN body THEN body.managers ELSE {},
         !.name = IF "name" \in DOMAIN body THEN body.name ELSE "none"]
  <2>1. /\ n.kind = "PATCH_CAFE" /\ n.cafe = c /\ DOMAIN n = RequestFields
        /\ n.writes = NoWrites /\ n.flushed = NoWrites /\ n.renames = FALSE
    BY <1>0 DEF RequestFields
  <2>2. cafe[c] # "none" /\ Arrives(s, a, n)
    BY <1>1 DEF PatchCafe
  <2> HIDE DEF n
  <2> QED BY <2>1, <2>2, CafesAtArrival
<1>2. ASSUME NEW a \in User, NEW body \in CafePosts, PostCafe(s, a, body) PROVE CafesExist'
  <2> DEFINE n == [NoRequest EXCEPT
         !.kind = "POST_CAFE", !.step = "roles", !.actor = a,
         !.sets = {"managers", "name"},
         !.managers = body.managers, !.name = body.name]
  <2>1. /\ n.kind = "POST_CAFE" /\ n.step = "roles" /\ n.name = body.name
        /\ DOMAIN n = RequestFields /\ n.writes = NoWrites /\ n.flushed = NoWrites
        /\ n.renames = FALSE
    BY <1>0 DEF RequestFields
  <2>2. Arrives(s, a, n)
    BY <1>2 DEF PostCafe
  <2>3. body.name \in Name
    BY BodiesAssumption
  <2> HIDE DEF n
  <2> QED BY <2>1, <2>2, <2>3, CafesAtArrival
<1>3. ASSUME NEW a \in User, NEW u \in User, NEW role \in RolePatches, PatchUser(s, a, u, role)
      PROVE  CafesExist'
  <2> DEFINE n == [NoRequest EXCEPT
         !.kind = "PATCH_USER", !.step = "target", !.actor = a,
         !.target = u, !.role = role]
  <2>1. /\ n.kind = "PATCH_USER" /\ DOMAIN n = RequestFields
        /\ n.writes = NoWrites /\ n.flushed = NoWrites /\ n.renames = FALSE
    BY <1>0 DEF RequestFields
  <2>2. Arrives(s, a, n)
    BY <1>3 DEF PatchUser
  <2> HIDE DEF n
  <2> QED BY <2>1, <2>2, CafesAtArrival
<1> QED BY <1>1, <1>2, <1>3 DEF Arrive

\* The steps of a request on a cafe, all but its COMMITs.
LEMMA CafesOnTheWay ==
    ASSUME Inv, CafesExist, NEW s \in Session,
           \/ LoadCafe(s) \/ CheckRoles(s) \/ Rename(s)
           \/ Insert(s) \/ Reload(s) \/ Remove(s) \/ Add(s)
    PROVE  CafesExist'
<1> PICK r : r = session[s]
  OBVIOUS
<1>0. r.step # "none"
  BY DEF LoadCafe, CheckRoles, Rename, Insert, Reload, Remove, Add, At
<1>1. /\ DOMAIN r = RequestFields /\ StepIsSound(r) /\ TypeOK
      /\ r.kind \in {"POST_CAFE", "PATCH_CAFE", "PATCH_USER"}
  BY <1>0, UnderWay, RequestHasFields DEF Inv
<1>2. ASSUME NEW us
      PROVE  /\ DOMAIN Reading(r, us) = RequestFields /\ SameRequest(Reading(r, us), r)
             /\ DOMAIN Rereading(r, us) = RequestFields /\ SameRequest(Rereading(r, us), r)
             /\ Reading(r, us).step = r.step /\ Rereading(r, us).step = r.step
  BY <1>1, ReadingKeeps
<1>3. CASE LoadCafe(s)
  <2>1. r.kind = "PATCH_CAFE"
    BY <1>1, <1>3 DEF LoadCafe, At, StepIsSound
  <2>2. PICK step : Goes(s, [WithCafe(r) EXCEPT !.step = step]) /\ UNCHANGED <<user, cafe>>
    BY <1>3 DEF LoadCafe
  <2> PICK q : q = [WithCafe(r) EXCEPT !.step = step]
    OBVIOUS
  <2>3. /\ q.kind = r.kind /\ q.cafe = r.cafe /\ q.name = r.name
        /\ q.renames => q.name # "none"
    <3> PICK p : p = Rereading(r, Managers(r.cafe))
      OBVIOUS
    <3>1. DOMAIN p = RequestFields /\ SameRequest(p, r)
      BY <1>2
    <3>2. q = [[p EXCEPT !.current = Managers(r.cafe),
                         !.renames = r.name \notin {"none", cafe[r.cafe]},
                         !.blind = p.blind \cap r.loaded] EXCEPT !.step = step]
      BY DEF WithCafe
    <3>3. q.kind = p.kind /\ q.cafe = p.cafe /\ q.name = p.name
      BY <3>1, <3>2 DEF RequestFields
    <3>4. q.renames = (r.name \notin {"none", cafe[r.cafe]})
      BY <3>1, <3>2 DEF RequestFields
    <3> QED BY <3>1, <3>3, <3>4 DEF SameRequest
  <2> QED BY <2>1, <2>2, <2>3, CafesStayOn
<1>4. CASE CheckRoles(s)
  <2> PICK q : q = [WithManagers(r) EXCEPT !.step = AfterChecks(r)]
    OBVIOUS
  <2>1. Goes(s, q) /\ UNCHANGED <<user, cafe>> /\ r.step = "roles"
    BY <1>4 DEF CheckRoles, At
  <2>2. /\ q.kind = r.kind /\ q.cafe = r.cafe /\ q.name = r.name
        /\ q.renames = r.renames /\ q.step = AfterChecks(r)
    BY <1>2 DEF WithManagers, RequestFields, SameRequest
  <2>3. /\ r.kind # "PATCH_USER"
        /\ r.kind = "POST_CAFE" => AfterChecks(r) = "insert"
    BY <1>1, <2>1 DEF StepIsSound, AfterChecks
  <2> QED BY <1>1, <2>1, <2>2, <2>3, CafesStayOn
<1>5. CASE Rename(s)
  <2>1. r.kind = "PATCH_CAFE"
    BY <1>1, <1>5 DEF Rename, At, StepIsSound
  <2>2. PICK step : Goes(s, [Reading(r, Managers(r.cafe)) EXCEPT
                               !.current = Managers(r.cafe), !.step = step])
    BY <1>5 DEF Rename
  <2> PICK q : q = [Reading(r, Managers(r.cafe)) EXCEPT
                      !.current = Managers(r.cafe), !.step = step]
    OBVIOUS
  <2>3. q.kind = r.kind /\ q.cafe = r.cafe /\ q.name = r.name /\ q.renames = r.renames
    BY <1>2 DEF RequestFields, SameRequest
  <2>4. user' = user
    BY <1>5 DEF Rename
  <2>5. \A c \in Cafe : cafe[c] # "none" => cafe'[c] # "none"
    <3>1. r.name \in Name \cup {"none"} /\ r.cafe \in Cafe
      BY <1>1, <2>1, SoundRequest DEF IsRequest, StepIsSound
    <3>2. cafe' = cafe \/ (cafe' = [cafe EXCEPT ![r.cafe] = r.name] /\ r.renames)
      BY <1>5 DEF Rename
    <3>3. r.renames => r.name # "none"
      BY DEF CafesExist, HasItsCafe
    <3> QED BY <1>1, <3>1, <3>2, <3>3 DEF TypeOK
  <2> QED BY <2>1, <2>2, <2>3, <2>4, <2>5, CafesStayOn
<1>6. CASE Insert(s)
  <2>1. r.kind = "POST_CAFE" /\ r.name \in Name /\ UNCHANGED <<user, cafe>>
    BY <1>1, <1>6 DEF Insert, At, StepIsSound, CafesExist, HasItsCafe
  <2>2. PICK c, seen, writes :
          Goes(s, [r EXCEPT !.cafe = c, !.step = "inserted", !.seen = seen, !.writes = writes])
    BY <1>6 DEF Insert
  <2> PICK q : q = [r EXCEPT !.cafe = c, !.step = "inserted", !.seen = seen, !.writes = writes]
    OBVIOUS
  <2>3. /\ q.kind = "POST_CAFE" /\ q.step = "inserted"
        /\ q.name = r.name /\ q.renames = r.renames
    BY <1>1, <2>1 DEF RequestFields
  <2>4. HasItsCafe(q)'
    BY <2>1, <2>3 DEF HasItsCafe, CafesExist
  <2> QED BY <2>1, <2>2, <2>4, CafesStay
<1>7. CASE Reload(s)
  <2> PICK q : q = [Rereading(r, Managers(r.cafe)) EXCEPT
                      !.current = Managers(r.cafe), !.step = "remove"]
    OBVIOUS
  <2>1. /\ Goes(s, q) /\ UNCHANGED <<user, cafe>> /\ r.step = "reload" /\ r.kind = "POST_CAFE"
    BY <1>1, <1>7 DEF Reload, At, StepIsSound
  <2>2. q.kind = r.kind /\ q.cafe = r.cafe /\ q.name = r.name /\ q.renames = r.renames
    BY <1>2 DEF RequestFields, SameRequest
  <2> QED BY <2>1, <2>2, CafesStayOn
<1>8. CASE Remove(s) \/ Add(s)
  <2>1. /\ UNCHANGED <<user, cafe>> /\ r.step \in {"remove", "add"} /\ r.kind # "PATCH_USER"
    BY <1>1, <1>8 DEF Remove, Add, At, StepIsSound
  <2>2. PICK step, seen, writes :
          Goes(s, [r EXCEPT !.step = step, !.seen = seen, !.writes = writes])
    BY <1>8 DEF Remove, Add, Assign
  <2> PICK q : q = [r EXCEPT !.step = step, !.seen = seen, !.writes = writes]
    OBVIOUS
  <2>3. q.kind = r.kind /\ q.cafe = r.cafe /\ q.name = r.name /\ q.renames = r.renames
    BY <1>1 DEF RequestFields
  <2> QED BY <2>1, <2>2, <2>3, CafesStayOn
<1> QED BY <1>3, <1>4, <1>5, <1>6, <1>7, <1>8

LEMMA CafesOnFlush ==
    ASSUME Inv, CafesExist, NEW s \in Session, WriteRow(s)
    PROVE  CafesExist'
<1> PICK r : r = session[s]
  OBVIOUS
<1> PICK u : u = NextRow(r)
  OBVIOUS
<1>1. r.writes # NoWrites /\ IsRequest(r) /\ DOMAIN r = RequestFields
  BY SoundRequest, RequestHasFields DEF WriteRow, HasRow, Flushing
<1>2. u \in DOMAIN r.writes
  BY <1>1, NextRowIsLeast
<1> PICK writes, flushed : /\ writes = [v \in DOMAIN r.writes \ {u} |-> r.writes[v]]
                           /\ flushed = Merge(r.flushed, u, r.writes[u])
  OBVIOUS
<1> PICK q : q = [r EXCEPT !.writes = writes, !.flushed = flushed]
  OBVIOUS
<1>3. Goes(s, q) /\ UNCHANGED <<user, cafe>>
  BY DEF WriteRow
<1>4. /\ q.kind = r.kind /\ q.cafe = r.cafe /\ q.name = r.name /\ q.step = r.step
      /\ q.renames = r.renames /\ q.writes = writes /\ q.flushed = flushed
  BY <1>1 DEF RequestFields
<1>5. HasItsCafe(r)
  BY DEF CafesExist
<1>6. r.kind = "PATCH_USER" => TakesAway(writes) /\ TakesAway(flushed)
  BY <1>2, <1>5 DEF HasItsCafe, TakesAway, Merge
<1>7. HasItsCafe(q)'
  BY <1>3, <1>4, <1>5, <1>6 DEF HasItsCafe
<1> QED BY <1>3, <1>7, CafesStay

LEMMA CafesOnLoadTarget ==
    ASSUME Inv, CafesExist, NEW s \in Session, LoadTarget(s)
    PROVE  CafesExist'
<1> PICK r : r = session[s]
  OBVIOUS
<1> PICK n : n = WithTarget(r)
  OBVIOUS
<1> PICK writes : writes = ColumnsOf(n)
  OBVIOUS
<1> PICK q : q = [n EXCEPT !.step = "commit", !.writes = writes]
  OBVIOUS
<1>1. /\ Goes(s, q) /\ UNCHANGED <<user, cafe>> /\ r.step = "target" /\ r.writes = NoWrites
  BY DEF LoadTarget, At
<1>2. r.kind = "PATCH_USER" /\ DOMAIN r = RequestFields /\ HasItsCafe(r)
  BY <1>1, UnderWay, RequestHasFields DEF StepIsSound, CafesExist
<1>3. DOMAIN n = RequestFields /\ SameRequest(n, r)
  BY <1>2, ReadingKeeps DEF WithTarget
<1>4. /\ q.kind = "PATCH_USER" /\ q.writes = writes /\ q.flushed = r.flushed
      /\ q.name = r.name /\ q.renames = r.renames
  BY <1>2, <1>3 DEF RequestFields, SameRequest
<1>5. TakesAway(writes)
  <2> DEFINE changed == {f \in {"role", "cafe"} : NewRow(n)[f] # n.seen[n.target][f]}
  <2>1. writes = IF changed = {} THEN NoWrites
                 ELSE [v \in {n.target} |-> [f \in changed |-> NewRow(n)[f]]]
    BY DEF ColumnsOf
  <2>2. "cafe" \in changed => NewRow(n)["cafe"] = "none"
    BY DEF NewRow
  <2> HIDE DEF changed
  <2>3. CASE changed = {}
    BY <2>1, <2>3, NoRequestIsSound DEF TakesAway
  <2>4. CASE changed # {}
    BY <2>1, <2>2, <2>4 DEF TakesAway
  <2> QED BY <2>3, <2>4
<1>6. HasItsCafe(q)'
  BY <1>2, <1>4, <1>5 DEF HasItsCafe, TakesAway
<1> QED BY <1>1, <1>6, CafesStay

LEMMA CafesOnCommit ==
    ASSUME Inv, CafesExist, NEW s \in Session, CommitCafe(s) \/ Commit(s)
    PROVE  CafesExist'
<1> PICK r : r = session[s]
  OBVIOUS
<1>0. r.step \in {"inserted", "commit"} /\ user' = Committed(r)
  BY DEF CommitCafe, Commit, At
<1>1. /\ IsRequest(r) /\ DOMAIN r = RequestFields /\ StepIsSound(r) /\ HasItsCafe(r) /\ TypeOK
      /\ r.kind \in {"POST_CAFE", "PATCH_CAFE", "PATCH_USER"}
  BY <1>0, UnderWay, RequestHasFields DEF CafesExist, Inv
<1>2. CASE CommitCafe(s)
  <2> PICK q : q = [r EXCEPT !.step = "reload", !.flushed = NoWrites]
    OBVIOUS
  <2>1. /\ r.step = "inserted" /\ session' = AndSeenBy(s, q, r)
        /\ cafe' = [cafe EXCEPT ![r.cafe] = r.name]
    BY <1>2 DEF CommitCafe, At
  <2>2. r.kind = "POST_CAFE" /\ r.cafe \in Cafe /\ r.name \in Name /\ r.name # "none"
    BY <1>1, <2>1, CafesAssumption DEF StepIsSound, HasItsCafe
  <2>3. /\ DOMAIN q = DOMAIN r /\ q.kind = r.kind /\ q.step = "reload" /\ q.actor = r.actor
        /\ q.cafe = r.cafe /\ q.sets = r.sets /\ q.managers = r.managers /\ q.name = r.name
        /\ q.renames = r.renames /\ q.target = r.target /\ q.role = r.role
        /\ q.loaded = r.loaded /\ q.seen = r.seen /\ q.current = r.current
        /\ q.writes = r.writes /\ q.flushed = NoWrites /\ q.blind = r.blind
    BY <1>1 DEF RequestFields
  <2>4. IsRequest(q)
    BY <1>1, <2>3, NoRequestIsSound DEF IsRequest, Steps
  <2>5. /\ r.cafe \in Cafe /\ cafe'[r.cafe] # "none"
        /\ \A c \in Cafe : cafe[c] # "none" => cafe'[c] # "none"
    BY <1>1, <2>1, <2>2 DEF TypeOK
  <2>6. HasItsCafe(q)'
    BY <2>2, <2>3, <2>5 DEF HasItsCafe
  <2> QED BY <1>0, <2>1, <2>4, <2>5, <2>6, CafesAfterCommit
<1>3. CASE Commit(s)
  <2>1. /\ session' = AndSeenBy(s, NoRequest, r) /\ cafe' = cafe /\ r.step = "commit"
    BY <1>3 DEF Commit, At
  <2>2. HasItsCafe(NoRequest)' /\ IsRequest(NoRequest)
    BY NoRequestIsSound DEF NoRequest, HasItsCafe
  <2>3. r.kind # "PATCH_USER" => r.cafe \in Cafe /\ cafe'[r.cafe] # "none"
    BY <1>1, <2>1 DEF HasItsCafe
  <2> QED BY <1>0, <2>1, <2>2, <2>3, CafesAfterCommit
<1> QED BY <1>2, <1>3

LEMMA CafesExistStep == Inv /\ CafesExist /\ [Next]_vars => CafesExist'
<1> SUFFICES ASSUME Inv, CafesExist, [Next]_vars PROVE CafesExist'
  OBVIOUS
<1>1. ASSUME NEW s \in Session, BreaksCheck(s) \/ DeadlockAbort(s) \/ Refuse(s)
      PROVE  CafesExist'
  <2>1. Goes(s, NoRequest) /\ UNCHANGED <<user, cafe>>
    BY <1>1 DEF BreaksCheck, DeadlockAbort, Refuse, Rollback
  <2>2. HasItsCafe(NoRequest)'
    BY NoRequestIsSound DEF NoRequest, HasItsCafe
  <2> QED BY <2>1, <2>2, CafesStay
<1>2. CASE UNCHANGED vars
  BY <1>2 DEF vars, CafesExist, HasItsCafe
<1> QED
  BY <1>1, <1>2, CafesOnArrival, CafesOnTheWay, CafesOnFlush, CafesOnLoadTarget, CafesOnCommit
     DEF Next, Proceed

\* A row that breaks the CHECK constraint is one that another request has changed.
LEMMA BrokenRowIsStale ==
    ASSUME Inv, NEW s \in Session, HasRow(s), ~CheckHolds(RowAfter(s))
    PROVE  NextRow(session[s]) \in session[s].blind \cap DOMAIN session[s].writes
<1> PICK r : r = session[s]
  OBVIOUS
<1> PICK u : u = NextRow(r)
  OBVIOUS
<1>1. r.writes # NoWrites /\ IsRequest(r)
  BY SoundRequest DEF HasRow, Flushing
<1>2. u \in DOMAIN r.writes /\ u \in User
  BY <1>1, NextRowIsLeast
<1>3. StepIsSound(r) /\ ReadingIsSound(r) /\ FlushIsSound(r)
  BY <1>1, SoundRequest, NoRequestIsSound DEF IsSound
<1> SUFFICES ASSUME u \notin r.blind PROVE FALSE
  BY <1>2
<1>4. u \in r.loaded \ r.blind /\ u \in Edited(r)
  BY <1>2, <1>3 DEF FlushIsSound, Edited
<1>5. RowAfter(s) = Own(r, u)
  BY <1>2 DEF RowAfter, Own
<1>6. CASE r.kind # "PATCH_USER"
  BY <1>2, <1>3, <1>4, <1>5, <1>6 DEF ReadingIsSound
<1>7. CASE r.kind = "PATCH_USER"
  <2>1. u = r.target /\ r.step = "commit" /\ r.role \in UserRole
    BY <1>3, <1>4, <1>7 DEF FlushIsSound, StepIsSound
  <2>2. Own(r, u) = NewRow(r)
    BY <1>3, <1>4, <1>7, <2>1 DEF ReadingIsSound
  <2>3. CheckHolds(NewRow(r))
    BY <1>1, <1>2, <2>1, ColumnsOfTarget
  <2> QED BY <1>5, <2>2, <2>3
<1> QED BY <1>6, <1>7

\* ensure_managers_exist_and_role and the "cafe_id = None" of UserUpdate are enough
\* for check_user_cafe_only_for_manager: a flush breaks it only over a user whom
\* another request changed after this one had read them; and whoever has a cafe has
\* one that exists, for it is committed together with its first managers.
THEOREM ChecksSuffice == Spec => []ChecksAreEnough
<1>1. Inv /\ CafesExist => ChecksAreEnough
  BY BrokenRowIsStale DEF ChecksAreEnough, CafesExist, Inv, RowsPassCheck
<1>2. Init => CafesExist
  BY CafesAssumption, NoRequestIsSound DEF NoRequest, Init, CafesExist, HasItsCafe
<1> QED BY <1>1, <1>2, CafesExistStep, InvHolds, PTL DEF Spec

\* A request waits in a circle only if set_managers has let one manager go and wants
\* another with a smaller key: of those in the circle, the one whose next row is the
\* greatest waits for a row of such a request.
THEOREM CirclesComeOfSwaps == Spec => []CirclesAreSwaps
<1>1. Inv => CirclesAreSwaps
  <2> SUFFICES ASSUME Inv, NEW s \in Session, InCircle(s)
               PROVE  \E t \in Session : LET r == session[t] IN
                        /\ Flushing(t) /\ r.kind # "PATCH_USER"
                        /\ \E u \in DOMAIN r.flushed :
                             r.flushed[u] = [cafe |-> "none"] /\ NextRow(r) < u
    BY DEF CirclesAreSwaps
  <2> PICK ring \in SUBSET Session : s \in ring /\ Circle(ring)
    BY DEF InCircle
  <2>1. ASSUME NEW t \in ring
        PROVE  /\ session[t].writes # NoWrites /\ NextRow(session[t]) \in User
               /\ NextRow(session[t]) \in DOMAIN session[t].writes
    <3>1. session[t].writes # NoWrites
      BY DEF Circle, Waits, Flushing
    <3> QED BY <3>1, SoundRequest, NextRowIsLeast
  <2> DEFINE Wanted == {NextRow(session[t]) : t \in ring}
  <2>2. Wanted \subseteq Nat /\ IsFiniteSet(Wanted) /\ Wanted # {}
    <3>1. Wanted \in SUBSET User /\ Wanted # {}
      BY <2>1
    <3> HIDE DEF Wanted
    <3>2. User \subseteq Nat /\ IsFiniteSet(User)
      BY UsersAssumption
    <3>3. IsFiniteSet(Wanted)
      BY <3>1, <3>2, FS_Subset
    <3> QED BY <3>1, <3>2, <3>3
  <2>3. \E x \in Wanted : \A y \in Wanted : y <= x
    <3> HIDE DEF Wanted
    <3> QED BY <2>2, GreatestExists
  <2> PICK t \in ring : \A x \in ring : NextRow(session[x]) <= NextRow(session[t])
    BY <2>3
  <2> PICK u : u = NextRow(session[t])
    OBVIOUS
  <2> PICK x \in ring : x \in Holders(u)
    BY DEF Circle, Waits
  <2> PICK r : r = session[x]
    OBVIOUS
  <2>4. u \in DOMAIN r.flushed /\ NextRow(r) <= u /\ NextRow(r) \in DOMAIN r.writes
    BY <2>1 DEF Holders
  <2>5. FlushIsSound(r)
    BY <2>1, SoundRequest, NoRequestIsSound DEF IsSound
  <2>6. u \in Nat /\ NextRow(r) \in Nat /\ u # NextRow(r)
    BY <2>1, <2>4, <2>5, UsersAssumption DEF FlushIsSound
  <2>7. r.kind # "PATCH_USER"
    BY <2>4, <2>5, <2>6 DEF FlushIsSound, Edited
  <2>8. r.flushed[u] = [cafe |-> "none"]
    BY <2>4, <2>5, <2>6, <2>7 DEF FlushIsSound
  <2>9. Flushing(x)
    BY <2>1 DEF Flushing
  <2> QED BY <2>4, <2>6, <2>7, <2>8, <2>9
<1> QED BY <1>1, InvHolds, PTL

----------------------------------------------------------------------------
\* What a request leaves behind

\* Where one request takes a step, the others stay where they are.
LEMMA OthersStay ==
    ASSUME Inv, NEW t \in Session, Arrive(t) \/ Proceed(t), NEW s \in Session, s # t
    PROVE  session'[s].step = session[s].step
<1>1. ASSUME NEW q, Goes(t, q) PROVE session'[s].step = session[s].step
  BY <1>1 DEF Goes, Inv, TypeOK
<1>2. ASSUME NEW q, NEW r, session' = AndSeenBy(t, q, r)
      PROVE  session'[s].step = session[s].step
  <2>1. "step" \in DOMAIN session[s]
    BY SoundRequest, RequestHasFields DEF RequestFields
  <2> QED BY <1>2, <2>1 DEF AndSeenBy
<1>3. CASE Arrive(t)
  <2>1. ASSUME NEW a, NEW n, Arrives(t, a, n) PROVE session'[s].step = session[s].step
    BY <1>1, <2>1 DEF Arrives, Goes
  <2> QED BY <1>3, <2>1 DEF Arrive, PatchCafe, PostCafe, PatchUser
<1>4. CASE LoadCafe(t) \/ CheckRoles(t) \/ Rename(t) \/ Reload(t)
  BY <1>1, <1>4 DEF LoadCafe, CheckRoles, Rename, Reload
<1>5. CASE Insert(t) \/ LoadTarget(t) \/ WriteRow(t)
  BY <1>1, <1>5 DEF Insert, LoadTarget, WriteRow
<1>6. CASE Remove(t) \/ Add(t)
  BY <1>1, <1>6 DEF Remove, Add, Assign
<1>7. CASE CommitCafe(t) \/ Commit(t)
  BY <1>2, <1>7 DEF CommitCafe, Commit
<1>8. CASE BreaksCheck(t) \/ DeadlockAbort(t) \/ Refuse(t)
  BY <1>1, <1>8 DEF BreaksCheck, DeadlockAbort, Refuse, Rollback
<1> QED BY <1>3, <1>4, <1>5, <1>6, <1>7, <1>8 DEF Proceed

\* A request that is at its COMMIT and then gone has committed.
LEMMA CommitsByCommit ==
    ASSUME Inv, [Next]_vars, NEW s \in Session, Commits(s)
    PROVE  Commit(s)
<1>1. /\ session[s].step = "commit" /\ session[s].writes = NoWrites
      /\ session'[s].step # "commit"
  BY NoRequestIsSound DEF Commits, At
<1>2. PICK t \in Session : Arrive(t) \/ Proceed(t)
  BY <1>1 DEF Next, vars
<1>3. t = s
  BY <1>1, <1>2, OthersStay
<1>4. ~Arrive(s)
  <2>1. Busy(s)
    BY <1>1, SoundRequest, NoRequestIsSound DEF Busy, IsSound
  <2> QED BY <2>1 DEF Arrive, PatchCafe, PostCafe, PatchUser, Arrives
<1>5. ~Flushing(s)
  BY <1>1 DEF Flushing
<1>6. ~(WriteRow(s) \/ BreaksCheck(s) \/ DeadlockAbort(s))
  BY <1>5 DEF WriteRow, BreaksCheck, DeadlockAbort, HasRow, InCircle, Circle, Waits
<1>7. ~(LoadCafe(s) \/ CheckRoles(s) \/ Rename(s) \/ Insert(s) \/ CommitCafe(s))
  BY <1>1 DEF LoadCafe, CheckRoles, Rename, Insert, CommitCafe, At
<1>8. ~(Reload(s) \/ Remove(s) \/ Add(s) \/ LoadTarget(s) \/ Refuse(s))
  BY <1>1 DEF Reload, Remove, Add, LoadTarget, Refuse, Refused, At
<1> QED BY <1>2, <1>3, <1>4, <1>6, <1>7, <1>8 DEF Proceed

LEMMA CommitEffect ==
    ASSUME Inv, [Next]_vars, NEW s \in Session, Commits(s), NEW r, r = session[s]
    PROVE  /\ IsRequest(r) /\ r.step = "commit"
           /\ r.kind \in {"POST_CAFE", "PATCH_CAFE", "PATCH_USER"}
           /\ StepIsSound(r) /\ ReadingIsSound(r) /\ CafeIsSound(r) /\ FlushIsSound(r)
           /\ RowsPassCheck'
           /\ \A u \in User : user'[u] = Own(r, u) /\ user'[u] = Flushed(r, u)
           /\ \A u \in User : u \notin DOMAIN r.flushed => user'[u] = user[u]
<1>1. r.step = "commit" /\ r.writes = NoWrites /\ user' = Committed(r)
  BY CommitsByCommit DEF Commit, At
<1>2. RowsPassCheck' /\ \A u \in User : user'[u] = Flushed(r, u)
  BY <1>1, CommittedRows
<1>3. \A u \in User : u \notin DOMAIN r.flushed => user'[u] = user[u]
  BY <1>1, CommittedRows
<1>4. \A u \in User : Own(r, u) = Flushed(r, u)
  BY <1>1, NoRequestIsSound DEF Own
<1> QED BY <1>1, <1>2, <1>3, <1>4, UnderWay

\* A request that has saved its cafe and then ends without a COMMIT has met the
\* CHECK constraint or a deadlock: none of its own checks is left to refuse it.
LEMMA HalfwayEnds ==
    ASSUME Inv, [Next]_vars, NEW s \in Session, Halfway(s), session'[s] = NoRequest, ~Commits(s)
    PROVE  BreaksCheck(s) \/ DeadlockAbort(s)
<1>1. session[s].step \in {"reload", "remove", "add", "commit"} /\ session'[s].step = "none"
  BY NoRequestIsSound DEF Halfway
<1>2. PICK t \in Session : Arrive(t) \/ Proceed(t)
  BY <1>1 DEF Next, vars
<1>3. t = s
  BY <1>1, <1>2, OthersStay
<1>4. ~Arrive(s)
  <2>1. Busy(s)
    BY <1>1, SoundRequest, NoRequestIsSound DEF Busy, IsSound
  <2> QED BY <2>1 DEF Arrive, PatchCafe, PostCafe, PatchUser, Arrives
<1>5. ~(LoadCafe(s) \/ CheckRoles(s) \/ Rename(s) \/ Insert(s) \/ CommitCafe(s))
  BY <1>1 DEF LoadCafe, CheckRoles, Rename, Insert, CommitCafe, At
<1>6. ~(LoadTarget(s) \/ Refuse(s))
  BY <1>1 DEF LoadTarget, Refuse, Refused, At
<1>7. "step" \in DOMAIN session[s] /\ DOMAIN session = Session
  BY SoundRequest, RequestHasFields DEF RequestFields, Inv, TypeOK
<1>8. ~(WriteRow(s) \/ Reload(s) \/ Remove(s) \/ Add(s))
  BY <1>1, <1>7 DEF WriteRow, Reload, Rereading, Remove, Add, Assign, Goes
<1>9. ~Commit(s)
  BY DEF Commit, Commits
<1> QED BY <1>2, <1>3, <1>4, <1>5, <1>6, <1>8, <1>9 DEF Proceed

\* set_managers: the managers asked for, and nobody else, have the cafe, but for
\* users whom another request changed after this one had read them; and what is
\* saved of a request that then fails is left over from such a race alone.
THEOREM ManagersComeAsAsked == Spec => ManagersAreAsAsked
<1> DEFINE AsAsked ==
      \A s \in Session : Commits(s) /\ "managers" \in session[s].sets =>
         \A u \in User \ session[s].blind :
            user'[u].cafe = session[s].cafe <=> u \in session[s].managers
      ByRaces ==
      \A s \in Session : Halfway(s) /\ session'[s] = NoRequest /\ ~Commits(s) =>
         \/ session[s].blind \cap DOMAIN session[s].writes # {}
         \/ InCircle(s)
<1>1. Inv /\ [Next]_vars => AsAsked
  <2> SUFFICES ASSUME Inv, [Next]_vars, NEW s \in Session, Commits(s),
                      "managers" \in session[s].sets, NEW u \in User \ session[s].blind
               PROVE  user'[u].cafe = session[s].cafe <=> u \in session[s].managers
    OBVIOUS
  <2> PICK r : r = session[s]
    OBVIOUS
  <2>1. /\ IsRequest(r) /\ r.step = "commit"
        /\ r.kind \in {"POST_CAFE", "PATCH_CAFE", "PATCH_USER"}
        /\ StepIsSound(r) /\ ReadingIsSound(r) /\ CafeIsSound(r) /\ FlushIsSound(r)
        /\ user'[u] = Own(r, u)
        /\ u \notin DOMAIN r.flushed => user'[u] = user[u]
    BY CommitEffect
  <2>2. r.kind # "PATCH_USER" /\ r.cafe \in Cafe
    BY <2>1 DEF StepIsSound
  <2>3. /\ r.managers \subseteq r.loaded /\ r.current \subseteq r.loaded
        /\ u \in r.current => user[u].cafe = r.cafe
        /\ user[u].cafe = r.cafe => u \in r.current \cup r.managers
        /\ u \in ToRemove(r) => r.seen[u].cafe = "none"
        /\ u \in ToAdd(r) => r.seen[u].cafe = r.cafe
    BY <2>1, <2>2 DEF CafeIsSound, Checked, Listed
  <2>4. u \in r.loaded => user'[u] = r.seen[u]
    BY <2>1, <2>2 DEF ReadingIsSound
  <2>5. DOMAIN r.flushed \subseteq ToRemove(r) \cup ToAdd(r)
    BY <2>1, <2>2 DEF FlushIsSound
  <2>6. CASE u \in ToRemove(r)
    <3>1. user'[u].cafe = "none" /\ u \notin r.managers
      BY <2>3, <2>4, <2>6 DEF ToRemove
    <3> QED BY <2>2, <3>1, CafesAssumption
  <2>7. CASE u \in ToAdd(r)
    BY <2>3, <2>4, <2>7 DEF ToAdd
  <2>8. CASE u \notin ToRemove(r) \cup ToAdd(r)
    <3>1. user'[u] = user[u] /\ (u \in r.managers <=> u \in r.current)
      BY <2>1, <2>5, <2>8 DEF ToAdd, ToRemove
    <3> QED BY <2>3, <3>1
  <2> QED BY <2>6, <2>7, <2>8
<1>2. Inv /\ [Next]_vars => ByRaces
  BY HalfwayEnds, BrokenRowIsStale DEF BreaksCheck, DeadlockAbort
<1>3. Inv /\ [Next]_vars => [\A s \in Session :
         /\ Commits(s) /\ "managers" \in session[s].sets =>
              \A u \in User \ session[s].blind :
                 user'[u].cafe = session[s].cafe <=> u \in session[s].managers
         /\ Halfway(s) /\ session'[s] = NoRequest /\ ~Commits(s) =>
              \/ session[s].blind \cap DOMAIN session[s].writes # {}
              \/ InCircle(s)]_vars
  BY <1>1, <1>2
<1> QED BY <1>3, InvHolds, PTL DEF Spec, ManagersAreAsAsked

\* ensure_user_update_allowed: what a MANAGER sends changes no ADMIN and makes none,
\* but for users who became ADMIN after the request had read them.
THEOREM AdminsStaySafe == Spec => AdminsAreSafe
<1> DEFINE Safe ==
      \A s \in Session, u \in User :
         /\ Commits(s) /\ session[s].seen[session[s].actor].role = "MANAGER"
         /\ user'[u] # user[u] /\ "ADMIN" \in {user[u].role, user'[u].role}
         => u \in session[s].blind
<1>1. Inv /\ [Next]_vars => Safe
  <2> SUFFICES ASSUME Inv, [Next]_vars, NEW s \in Session, NEW u \in User, Commits(s),
                      session[s].seen[session[s].actor].role = "MANAGER",
                      user'[u] # user[u], "ADMIN" \in {user[u].role, user'[u].role},
                      u \notin session[s].blind
               PROVE  FALSE
    OBVIOUS
  <2> PICK r : r = session[s]
    OBVIOUS
  <2>1. /\ IsRequest(r) /\ r.step = "commit"
        /\ StepIsSound(r) /\ ReadingIsSound(r) /\ FlushIsSound(r)
        /\ RowsPassCheck' /\ user'[u] = Own(r, u) /\ user'[u] = Flushed(r, u)
        /\ u \in DOMAIN r.flushed
    BY CommitEffect
  <2>2. u \in r.loaded \ r.blind /\ u \in Edited(r)
    BY <2>1 DEF FlushIsSound, Edited
  <2>3. /\ user[u] \in UserRow /\ user'[u] \in UserRow
        /\ CheckHolds(user[u]) /\ CheckHolds(user'[u])
    <3>1. TypeOK /\ RowsPassCheck
      BY DEF Inv
    <3> QED BY <2>1, <3>1, FlushedIsRow DEF TypeOK, RowsPassCheck, CheckHolds
  <2>4. CASE r.kind # "PATCH_USER"
    <3>1. user'[u] = Overlay(user[u], NewCafe(r, u))
      BY <2>1, <2>4 DEF FlushIsSound, Flushed
    <3>2. user'[u].role = user[u].role
      <4> PICK c : c = IF u \in r.managers THEN r.cafe ELSE "none"
        OBVIOUS
      <4>1. user'[u] = Overlay(user[u], [cafe |-> c])
        BY <3>1 DEF NewCafe
      <4>2. Overlay(user[u], [cafe |-> c]).role = user[u].role
        BY <2>3, OverlayOfCafe
      <4> QED BY <4>1, <4>2
    <3>3. user'[u].cafe = "none" /\ user[u].cafe = "none"
      BY <2>3, <3>2 DEF CheckHolds
    <3> QED BY <2>3, <3>2, <3>3, RowsAreEqual
  <2>5. CASE r.kind = "PATCH_USER"
    <3>1. u = r.target
      BY <2>1, <2>2, <2>5 DEF FlushIsSound
    <3>2. user[u] = r.seen[u] /\ MayUpdate(r) /\ user'[u] = NewRow(r)
      BY <2>1, <2>2, <2>5, <3>1 DEF ReadingIsSound
    <3>3. r.seen[u].role # "ADMIN" /\ r.role # "ADMIN"
      BY <3>1, <3>2 DEF MayUpdate
    <3> QED BY <3>2, <3>3 DEF NewRow
  <2> QED BY <2>4, <2>5
<1> QED BY <1>1, InvHolds, PTL DEF Spec, AdminsAreSafe
=============================================================================
