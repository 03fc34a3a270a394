--------------------------- MODULE Booking_proofs ---------------------------
(***************************************************************************)
(* Proofs about Booking: type correctness, and what the checks of POST and *)
(* PATCH are worth when requests overlap, for every number of users,       *)
(* tables, slots and sessions, every body and every bound.                 *)
(***************************************************************************)
EXTENDS Booking, TLAPS

----------------------------------------------------------------------------
\* Types of the pieces a step is made of

LEMMA BlankType == Blank \in Row
  BY CatalogAssumption DEF Blank, Row

LEMMA NoRequestType == NoRequest \in Request
<1>1. <<>> \in Seq(Checks)
  OBVIOUS
<1> QED BY <1>1, BlankType DEF NoRequest, Request

\* A body overlays the fields it names, and no body makes a booking absent.
LEMMA OverlayType ==
    ASSUME NEW row \in Row, NEW edit \in Edits
    PROVE  /\ Overlay(row, edit) \in Row
           /\ row.status # "ABSENT" => Overlay(row, edit).status # "ABSENT"
           /\ \A f \in DOMAIN row :
                Overlay(row, edit)[f] = IF f \in DOMAIN edit THEN edit[f] ELSE row[f]
<1>1. DOMAIN row = {"user", "date", "guests", "status", "active"}
  BY DEF Row
<1>2. /\ DOMAIN edit \subseteq Settable
      /\ "date" \in DOMAIN edit => edit["date"] \in Nat
      /\ "guests" \in DOMAIN edit => edit["guests"] \in Nat
      /\ "status" \in DOMAIN edit => edit["status"] \in StatusBooking
      /\ "active" \in DOMAIN edit => edit["active"] \in BOOLEAN
  BY BodiesAssumption
<1>3. "user" \notin DOMAIN edit
  BY <1>2 DEF Settable
<1> QED BY <1>1, <1>2, <1>3 DEF Overlay, Row, StatusBooking

LEMMA ChecksOfType ==
    ASSUME NEW fields \in SUBSET Settable
    PROVE  ChecksOf(fields) \in Seq(Checks)
<1>1. /\ <<"tables", "slots", "double", "cross">> \in Seq(Checks)
      /\ <<"time">> \in Seq(Checks) /\ <<"seats">> \in Seq(Checks)
      /\ <<"role">> \in Seq(Checks) /\ <<>> \in Seq(Checks)
  BY DEF Checks
<1> QED BY <1>1 DEF ChecksOf, When

\* What the flush of a PATCH leaves of its booking.
LEMMA WrittenType ==
    ASSUME NEW r \in Request, r.id \in BookingId, booking[r.id] \in Row
    PROVE  /\ Written(r) \in Row
           /\ Written(r).user = IF "user" \in r.changes THEN r.row.user ELSE booking[r.id].user
           /\ Written(r).date = IF "date" \in r.changes THEN r.row.date ELSE booking[r.id].date
           /\ Written(r).guests =
                IF "guests" \in r.changes THEN r.row.guests ELSE booking[r.id].guests
           /\ Written(r).status =
                IF "status" \in r.changes THEN r.row.status ELSE booking[r.id].status
           /\ Written(r).active =
                IF "active" \in r.changes THEN r.row.active ELSE booking[r.id].active
<1>1. r.row \in Row
  BY DEF Request
<1>2. DOMAIN r.row = {"user", "date", "guests", "status", "active"}
  BY <1>1 DEF Row
<1> QED BY <1>1, <1>2 DEF Written, Row

\* Two records of one request, but for what it has still to check and what it
\* has not seen.
SameRequest(q, r) ==
    /\ q.kind = r.kind /\ q.user = r.user /\ q.id = r.id /\ q.row = r.row
    /\ q.places = r.places /\ q.sets = r.sets /\ q.changes = r.changes
    /\ q.loaded = r.loaded /\ q.number = r.number /\ q.arrived = r.arrived

\* A check that passes leaves the request one check less.
LEMMA CheckEffect ==
    ASSUME session \in [Session -> Request], NEW s \in Session, Check(s)
    PROVE  /\ session' \in [Session -> Request]
           /\ \A u \in Session :
                /\ SameRequest(session'[u], session[u])
                /\ session'[u].blind = session[u].blind
                /\ session'[u].todo = IF u = s THEN Tail(session[s].todo) ELSE session[u].todo
<1>1. session[s] \in Request /\ session[s].todo \in Seq(Checks) /\ session[s].todo # <<>>
  BY DEF Check, Request
<1>2. Tail(session[s].todo) \in Seq(Checks)
  BY <1>1
<1>3. session' = [session EXCEPT ![s] = [session[s] EXCEPT !.todo = Tail(session[s].todo)]]
  BY DEF Check
<1>4. [session[s] EXCEPT !.todo = Tail(session[s].todo)] \in Request
  BY <1>1, <1>2 DEF Request
<1>5. ASSUME NEW u \in Session
      PROVE  /\ SameRequest(session'[u], session[u])
             /\ session'[u].blind = session[u].blind
             /\ session'[u].todo = IF u = s THEN Tail(session[s].todo) ELSE session[u].todo
  BY <1>1, <1>3 DEF SameRequest, Request
<1> QED BY <1>3, <1>4, <1>5

\* A request that commits is over; the others stay as they were, and have not
\* seen what it wrote to b.
LEMMA AnsweredEffect ==
    ASSUME session \in [Session -> Request], NEW s \in Session, NEW b \in BookingId,
           Answered(s, b)
    PROVE  /\ session' \in [Session -> Request]
           /\ session'[s] = NoRequest
           /\ \A u \in Session \ {s} :
                /\ SameRequest(session'[u], session[u])
                /\ session'[u].todo = session[u].todo
                /\ session'[u].blind = IF Busy(u) THEN session[u].blind \cup {b}
                                                  ELSE session[u].blind
<1>1. ASSUME NEW u \in Session, u # s, Busy(u)
      PROVE  /\ session'[u] = [session[u] EXCEPT !.blind = session[u].blind \cup {b}]
             /\ session'[u] \in Request
             /\ SameRequest(session'[u], session[u])
             /\ session'[u].todo = session[u].todo
             /\ session'[u].blind = session[u].blind \cup {b}
  <2> PICK r \in Request : r = session[u]
    BY <1>1
  <2> PICK q : q = session'[u]
    OBVIOUS
  <2>1. q = [r EXCEPT !.blind = r.blind \cup {b}]
    BY <1>1 DEF Answered
  <2>2. r \in Request /\ r.blind \cup {b} \subseteq BookingId
    BY DEF Request
  <2>3. q \in Request /\ q.todo = r.todo /\ q.blind = r.blind \cup {b}
    BY ONLY <2>1, <2>2 DEF Request
  <2>4. SameRequest(q, r)
    BY ONLY <2>1, <2>2 DEF Request, SameRequest
  <2> QED BY <2>1, <2>3, <2>4
<1>2. ASSUME NEW u \in Session, u # s, ~Busy(u) PROVE session'[u] = session[u]
  BY <1>2 DEF Answered
<1>3. session'[s] = NoRequest
  BY DEF Answered
<1>4. ASSUME NEW u \in Session PROVE session'[u] \in Request
  BY <1>1, <1>2, <1>3, NoRequestType
<1>5. session' \in [Session -> Request]
  BY <1>4 DEF Answered
<1> QED BY <1>1, <1>2, <1>3, <1>5 DEF SameRequest

\* What a request is stays as it was.
LEMMA AnsweredKeepsIds ==
    ASSUME session \in [Session -> Request], NEW s \in Session, NEW b \in BookingId,
           Answered(s, b),
           \A u \in Session : session[u].kind = "PATCH" => session[u].id \in BookingId
    PROVE  \A u \in Session : session'[u].kind = "PATCH" => session'[u].id \in BookingId
<1>1. NoRequest.kind = "none"
  BY DEF NoRequest
<1>2. ASSUME NEW u \in Session \ {s}
      PROVE  session'[u].kind = session[u].kind /\ session'[u].id = session[u].id
  BY AnsweredEffect DEF SameRequest
<1>3. session'[s] = NoRequest
  BY AnsweredEffect
<1> QED BY <1>1, <1>2, <1>3

----------------------------------------------------------------------------
\* Every state of every behaviour is well typed.
THEOREM TypeCorrect == Spec => []TypeOK
<1>1. Init => TypeOK
  <2> SUFFICES ASSUME Init PROVE TypeOK
    OBVIOUS
  <2>1. Blank \in Row /\ NoRequest \in Request
    BY BlankType, NoRequestType
  <2>2. table \in [Table -> Tables \cup FirstTables] /\ slot \in [Slot -> SlotRow]
    BY CatalogAssumption DEF Init
  <2>3. now \in Nat /\ requests \in 0 .. MaxRequests /\ tableEdits \in 0 .. MaxTableEdits
    BY TimeAssumption, BoundsAssumption DEF Init
  <2> QED BY <2>1, <2>2, <2>3 DEF Init, TypeOK, NoRequest
<1>2. TypeOK /\ [Next]_vars => TypeOK'
  <2> SUFFICES ASSUME TypeOK, [Next]_vars PROVE TypeOK'
    OBVIOUS
  <2> USE DEF TypeOK
  <2>1. ASSUME NEW s \in Session, NEW order \in Orders, Post(s, order) PROVE TypeOK'
    <3> DEFINE r == session'[s]
    <3>1. requests' \in 0 .. MaxRequests /\ requests + 1 \in Nat
      BY <2>1, BoundsAssumption DEF Post
    <3>2. <<"tables", "slots", "time", "double", "cross", "seats">> \in Seq(Checks)
      BY DEF Checks
    <3>3. [user |-> order.user, date |-> order.date, guests |-> order.guests,
           status |-> "BOOKING", active |-> TRUE] \in Row
      BY BodiesAssumption DEF Row, StatusBooking
    <3>4. order.user \in User /\ order.places \in SUBSET Place
      BY BodiesAssumption
    <3>5. r \in Request /\ r.kind = "POST"
      BY <2>1, <3>1, <3>2, <3>3, <3>4, NoRequestType DEF Post, Request, Settable
    <3> QED BY <2>1, <3>1, <3>5 DEF Post, history
  <2>2. ASSUME NEW s \in Session, NEW u \in User, NEW b \in BookingId, NEW edit \in Edits,
               Patch(s, u, b, edit)
        PROVE  TypeOK'
    <3> DEFINE r == session'[s]
    <3>1. requests' \in 0 .. MaxRequests /\ requests + 1 \in Nat
      BY <2>2, BoundsAssumption DEF Patch
    <3>2. DOMAIN edit \in SUBSET Settable
      BY BodiesAssumption
    <3>3. ChecksOf(DOMAIN edit) \in Seq(Checks)
      BY <3>2, ChecksOfType
    <3>4. Overlay(booking[b], edit) \in Row
      BY OverlayType
    <3>5. Held(b) \in SUBSET Place /\ links[b] \in SUBSET Link
      BY DEF Held, Link
    <3>6. (IF "places" \in DOMAIN edit THEN edit.places ELSE Held(b)) \in SUBSET Place
      BY <3>5, BodiesAssumption
    <3>7. {f \in DOMAIN edit \ {"places"} : edit[f] # booking[b][f]} \in SUBSET Settable
      BY <3>2
    <3>8. r \in Request /\ r.kind = "PATCH" /\ r.id = b
      BY <2>2, <3>1, <3>2, <3>3, <3>4, <3>5, <3>6, <3>7, NoRequestType DEF Patch, Request
    <3> QED BY <2>2, <3>1, <3>8 DEF Patch, history
  <2>3. ASSUME NEW s \in Session, Check(s) PROVE TypeOK'
    BY <2>3, CheckEffect DEF Check, SameRequest, history
  <2>4. ASSUME NEW s \in Session, Refuse(s) PROVE TypeOK'
    BY <2>4, NoRequestType DEF Refuse, NoRequest, history
  <2>6. ASSUME NEW s \in Session PROVE NewLinks(session[s]) \in SUBSET Link
    BY DEF NewLinks, Link, Request
  <2>7. ASSUME NEW s \in Session, Create(s) PROVE TypeOK'
    <3> PICK b \in BookingId :
            /\ booking' = [booking EXCEPT ![b] = session[s].row]
            /\ links' = [links EXCEPT ![b] = NewLinks(session[s])]
            /\ Answered(s, b)
            /\ raced' = raced \cup {{b, c} : c \in session[s].blind}
      BY <2>7 DEF Create
    <3>1. session[s].row \in Row /\ session[s].blind \subseteq BookingId
      BY DEF Request
    <3>2. booking' \in [BookingId -> Row] /\ links' \in [BookingId -> SUBSET Link]
      BY <2>6, <3>1
    <3>3. raced' \subseteq SUBSET BookingId
      BY <3>1
    <3>4. /\ session' \in [Session -> Request]
          /\ \A u \in Session : session'[u].kind = "PATCH" => session'[u].id \in BookingId
      BY AnsweredEffect, AnsweredKeepsIds
    <3> QED BY <2>7, <3>2, <3>3, <3>4 DEF Create
  <2>8. ASSUME NEW s \in Session, Update(s) PROVE TypeOK'
    <3> DEFINE r == session[s]
    <3>1. /\ r \in Request /\ r.id \in BookingId /\ r.row \in Row
          /\ r.blind \subseteq BookingId /\ r.loaded \subseteq Link
      BY <2>8 DEF Update, Ready, Request
    <3>2. booking' \in [BookingId -> Row]
      BY <2>8, <3>1, WrittenType DEF Update
    <3>3. links' \in [BookingId -> SUBSET Link]
      BY <2>8, <3>1, <2>6 DEF Update, LinksAfter
    <3>4. retired' \in [BookingId -> SUBSET Place]
      BY <2>8, <3>1 DEF Update, Link
    <3>5. raced' \subseteq SUBSET BookingId
      BY <2>8, <3>1 DEF Update
    <3>6. skewed' \subseteq BookingId /\ unchecked' \subseteq BookingId
      BY <2>8, <3>1 DEF Update
    <3>7. /\ session' \in [Session -> Request]
          /\ \A u \in Session : session'[u].kind = "PATCH" => session'[u].id \in BookingId
      BY <2>8, <3>1, AnsweredEffect, AnsweredKeepsIds DEF Update
    <3> QED BY <2>8, <3>2, <3>3, <3>4, <3>5, <3>6, <3>7 DEF Update
  <2>9. CASE Catalog
    <3>1. tableEdits' \in 0 .. MaxTableEdits /\ edited' \subseteq Table \cup Slot
      BY <2>9, BoundsAssumption DEF Catalog, CreateTable, UpdateTable, UpdateSlot, CatalogEdit
    <3>2. table' \in [Table -> Tables \cup FirstTables] /\ slot' \in [Slot -> SlotRow]
      BY <2>9, CatalogAssumption DEF Catalog, CreateTable, UpdateTable, UpdateSlot
    <3> QED BY <2>9, <3>1, <3>2 DEF Catalog, CreateTable, UpdateTable, UpdateSlot, CatalogEdit
  <2>10. CASE Tick
    BY <2>10 DEF Tick, history
  <2>11. CASE UNCHANGED vars
    BY <2>11 DEF vars
  <2> QED BY <2>1, <2>2, <2>3, <2>4, <2>7, <2>8, <2>9, <2>10, <2>11 DEF Next, Arrives
<1> QED BY <1>1, <1>2, PTL DEF Spec

----------------------------------------------------------------------------
\* What a request is when it arrives

LEMMA PostEffect ==
    ASSUME TypeOK, NEW s \in Session, NEW order \in Orders, Post(s, order)
    PROVE  /\ session'[s].kind = "POST" /\ session'[s].id = 0
           /\ session'[s].sets = {"places", "date", "guests"}
           /\ session'[s].row.status = "BOOKING"
           /\ session'[s].changes = {} /\ session'[s].blind = {}
           /\ session'[s].places # {} /\ session'[s].places = order.places
           /\ session'[s].todo = <<"tables", "slots", "time", "double", "cross", "seats">>
           /\ session'[s].row.date = order.date /\ session'[s].arrived = now
           /\ \A u \in Session \ {s} : session'[u] = session[u]
           /\ UNCHANGED <<booking, links, retired, table, slot, now, history>>
<1>1. order.places # {}
  BY BodiesAssumption
<1> QED BY <1>1 DEF Post, NoRequest, TypeOK

LEMMA PatchEffect ==
    ASSUME TypeOK, NEW s \in Session, NEW u \in User, NEW b \in BookingId, NEW edit \in Edits,
           Patch(s, u, b, edit)
    PROVE  /\ session'[s].kind = "PATCH" /\ session'[s].id = b
           /\ session'[s].sets = DOMAIN edit
           /\ session'[s].row = Overlay(booking[b], edit)
           /\ session'[s].changes = {f \in DOMAIN edit \ {"places"} : edit[f] # booking[b][f]}
           /\ session'[s].blind = {} /\ session'[s].loaded = links[b]
           /\ session'[s].places = IF "places" \in DOMAIN edit THEN edit.places ELSE Held(b)
           /\ session'[s].todo = ChecksOf(DOMAIN edit)
           /\ session'[s].arrived = now
           /\ \A t \in Session \ {s} : session'[t] = session[t]
           /\ UNCHANGED <<booking, links, retired, table, slot, now, history>>
  BY DEF Patch, NoRequest, TypeOK

----------------------------------------------------------------------------
\* What a request knows of the booking it changes

Columns == {"user", "date", "guests", "status", "active"}

\* A PATCH whose booking nobody has committed since it was read.
Fresh(r) == r.kind = "PATCH" /\ r.id \notin r.blind

\* What a request in flight may rely on: the booking of a PATCH exists and
\* keeps its owner; a request that names places has some; and a PATCH that is
\* fresh has its booking and its links as they are.
IsSound(r) ==
    /\ r.kind = "none" => r.sets = {}
    /\ r.kind = "POST" => /\ r.id = 0 /\ r.row.status = "BOOKING"
                          /\ {"places", "guests"} \subseteq r.sets
    /\ r.kind = "PATCH" => /\ Exists(r.id) /\ r.row.status # "ABSENT"
                           /\ r.row.user = booking[r.id].user
    /\ r.changes \subseteq r.sets /\ "user" \notin r.changes
    /\ "places" \in r.sets => r.places # {}
    /\ Fresh(r) => /\ r.loaded = links[r.id]
                   /\ booking[r.id].status \notin Frozen
                   /\ \A f \in Columns \ r.changes : r.row[f] = booking[r.id][f]
                   /\ "places" \notin r.sets => r.places = Held(r.id)

RequestsAreSound == \A s \in Session : IsSound(session[s])

\* What a request of create_booking_with_notifications or
\* update_booking_with_notifications has read is still so until another one
\* commits the same booking.
THEOREM RequestsSound == Spec => []RequestsAreSound
<1>1. Init => RequestsAreSound
  BY DEF Init, RequestsAreSound, IsSound, Fresh, NoRequest
<1>2. TypeOK /\ TypeOK' /\ RequestsAreSound /\ [Next]_vars => RequestsAreSound'
  <2> SUFFICES ASSUME TypeOK, TypeOK', RequestsAreSound, [Next]_vars, NEW t \in Session
               PROVE  IsSound(session[t])'
    BY DEF RequestsAreSound
  <2>0. IsSound(session[t])
    BY DEF RequestsAreSound
  <2> DEFINE quiet == UNCHANGED <<booking, links>>
  <2>1. ASSUME quiet, SameRequest(session'[t], session[t]), session'[t].blind = session[t].blind
        PROVE  IsSound(session[t])'
    BY <2>0, <2>1 DEF IsSound, Fresh, SameRequest, Exists, Held
  <2>2. ASSUME NEW s \in Session, NEW order \in Orders, Post(s, order)
        PROVE  IsSound(session[t])'
    <3>1. CASE t = s
      BY <2>2, <3>1, PostEffect DEF IsSound, Fresh
    <3>2. CASE t # s
      BY <2>1, <2>2, <3>2, PostEffect DEF SameRequest
    <3> QED BY <3>1, <3>2
  <2>3. ASSUME NEW s \in Session, NEW u \in User, NEW b \in BookingId, NEW edit \in Edits,
               Patch(s, u, b, edit)
        PROVE  IsSound(session[t])'
    <3>1. CASE t = s
      <4> DEFINE r == session'[s]
      <4>1. /\ r.kind = "PATCH" /\ r.id = b /\ r.sets = DOMAIN edit
            /\ r.row = Overlay(booking[b], edit)
            /\ r.changes = {f \in DOMAIN edit \ {"places"} : edit[f] # booking[b][f]}
            /\ r.loaded = links[b] /\ booking' = booking /\ links' = links
            /\ r.places = IF "places" \in DOMAIN edit THEN edit.places ELSE Held(b)
        BY <2>3, PatchEffect
      <4>2. booking[b] \in Row /\ DOMAIN booking[b] = Columns
        BY DEF TypeOK, Row, Columns
      <4>3. Exists(b) /\ booking[b].status \notin Frozen
        BY <2>3 DEF Patch, MayPatch
      <4>4. DOMAIN edit \subseteq Settable /\ ("places" \in DOMAIN edit => edit.places # {})
        BY BodiesAssumption
      <4>5. /\ r.row.status # "ABSENT"
            /\ \A f \in Columns : r.row[f] = IF f \in DOMAIN edit THEN edit[f] ELSE booking[b][f]
        BY <4>1, <4>2, <4>3, OverlayType DEF Exists
      <4>6. r.changes \subseteq r.sets /\ "user" \notin r.sets
        BY <4>1, <4>4 DEF Settable
      <4>7. r.row.user = booking[b].user
        BY <4>1, <4>5, <4>6 DEF Columns
      <4>8. \A f \in Columns \ r.changes : r.row[f] = booking[b][f]
        BY <4>1, <4>5 DEF Columns
      <4> QED BY <3>1, <4>1, <4>3, <4>4, <4>5, <4>6, <4>7, <4>8 DEF IsSound, Fresh, Exists, Held
    <3>2. CASE t # s
      BY <2>1, <2>3, <3>2, PatchEffect DEF SameRequest
    <3> QED BY <3>1, <3>2
  <2>4. ASSUME NEW s \in Session, Check(s) PROVE IsSound(session[t])'
    BY <2>1, <2>4, CheckEffect DEF Check, TypeOK
  <2>5. ASSUME NEW s \in Session, Refuse(s) PROVE IsSound(session[t])'
    <3>1. CASE t = s
      BY <2>5, <3>1 DEF Refuse, TypeOK, IsSound, Fresh, NoRequest
    <3>2. CASE t # s
      BY <2>1, <2>5, <3>2 DEF Refuse, TypeOK, SameRequest
    <3> QED BY <3>1, <3>2
  <2>6. ASSUME NEW s \in Session, NEW b \in BookingId, Answered(s, b),
               \A c \in BookingId \ {b} : booking'[c] = booking[c] /\ links'[c] = links[c],
               booking'[b].status # "ABSENT", Exists(b) => booking'[b].user = booking[b].user
        PROVE  IsSound(session[t])'
    <3>1. CASE t = s
      BY <2>6, <3>1, AnsweredEffect DEF TypeOK, IsSound, Fresh, NoRequest
    <3>2. CASE t # s
      <4>1. /\ SameRequest(session'[t], session[t])
            /\ session'[t].blind = IF Busy(t) THEN session[t].blind \cup {b} ELSE session[t].blind
        <5>1. session \in [Session -> Request]
          BY DEF TypeOK
        <5> QED BY <5>1, <2>6, <3>2, AnsweredEffect
      <4>2. session[t].kind = "PATCH" => session[t].id \in BookingId /\ Busy(t)
        BY DEF TypeOK, Busy
      <4> QED BY <2>0, <2>6, <4>1, <4>2 DEF IsSound, Fresh, SameRequest, Exists, Held
    <3> QED BY <3>1, <3>2
  <2>7. ASSUME NEW s \in Session, Create(s) PROVE IsSound(session[t])'
    <3> PICK b \in BookingId :
            /\ ~Exists(b)
            /\ booking' = [booking EXCEPT ![b] = session[s].row]
            /\ links' = [links EXCEPT ![b] = NewLinks(session[s])]
            /\ Answered(s, b)
      BY <2>7 DEF Create
    <3>1. booking'[b].status # "ABSENT"
      BY <2>7 DEF Create, Ready, RequestsAreSound, IsSound, Exists, TypeOK
    <3> QED BY <2>6, <3>1 DEF TypeOK
  <2>8. ASSUME NEW s \in Session, Update(s) PROVE IsSound(session[t])'
    <3> DEFINE r == session[s]
    <3>1. r \in Request /\ r.id \in BookingId /\ booking[r.id] \in Row /\ IsSound(r) /\ r.kind = "PATCH"
      BY <2>8 DEF Update, Ready, TypeOK, RequestsAreSound
    <3>2. booking'[r.id] = Written(r)
      BY <2>8, <3>1 DEF Update, TypeOK
    <3>3. booking'[r.id].status # "ABSENT" /\ booking'[r.id].user = booking[r.id].user
      <4>1. /\ Written(r).user = booking[r.id].user
            /\ Written(r).status = IF "status" \in r.changes THEN r.row.status
                                                             ELSE booking[r.id].status
        BY <3>1, WrittenType DEF IsSound
      <4> QED BY <3>1, <3>2, <4>1 DEF Exists, IsSound
    <3>4. \A c \in BookingId \ {r.id} : booking'[c] = booking[c] /\ links'[c] = links[c]
      BY <2>8 DEF Update, TypeOK
    <3>5. Answered(s, r.id)
      BY <2>8 DEF Update
    <3> QED BY <2>6, <3>1, <3>3, <3>4, <3>5
  <2>9. CASE Catalog
    BY <2>1, <2>9 DEF Catalog, CreateTable, UpdateTable, UpdateSlot, CatalogEdit, SameRequest
  <2>10. CASE Tick
    BY <2>1, <2>10 DEF Tick, SameRequest
  <2>11. CASE UNCHANGED vars
    BY <2>1, <2>11 DEF vars, SameRequest
  <2> QED BY <2>2, <2>3, <2>4, <2>5, <2>7, <2>8, <2>9, <2>10, <2>11 DEF Next, Arrives
<1> QED BY <1>1, <1>2, TypeCorrect, PTL DEF Spec

----------------------------------------------------------------------------
\* What a COMMIT leaves

\* POST: a booking that was not there, with the places the body asked for.
LEMMA CreateEffect ==
    ASSUME TypeOK, NEW s \in Session, Create(s)
    PROVE  \E b \in BookingId :
             /\ ~Exists(b)
             /\ booking' = [booking EXCEPT ![b] = session[s].row]
             /\ links' = [links EXCEPT ![b] = NewLinks(session[s])]
             /\ Answered(s, b)
             /\ raced' = raced \cup {{b, c} : c \in session[s].blind}
             /\ session[s].kind = "POST" /\ session[s].todo = <<>>
             /\ UNCHANGED <<retired, table, slot, skewed, unchecked, edited>>
  BY DEF Create, Ready

\* PATCH: the row and the links of one booking.
LEMMA UpdateEffect ==
    ASSUME TypeOK, NEW s \in Session, Update(s)
    PROVE  LET r == session[s] IN
           /\ r \in Request /\ r.kind = "PATCH" /\ r.id \in BookingId /\ r.todo = <<>>
           /\ Answered(s, r.id)
           /\ booking'[r.id] = Written(r)
           /\ links'[r.id] = IF "places" \in r.sets THEN LinksAfter(r) ELSE links[r.id]
           /\ r.id \in r.blind => r.id \in skewed'
           /\ \A c \in BookingId \ {r.id} :
                /\ booking'[c] = booking[c] /\ links'[c] = links[c]
                /\ retired'[c] = retired[c]
                /\ c \in skewed' <=> c \in skewed
                /\ c \in unchecked' <=> c \in unchecked
           /\ \A pair \in raced : r.id \notin pair => pair \in raced'
           /\ \A c \in r.blind \ {r.id} : {r.id, c} \in raced'
           /\ "places" \notin r.sets =>
                raced \subseteq raced' /\ skewed \subseteq skewed' /\ unchecked \subseteq unchecked'
           /\ Moves(r) => r.id \in unchecked'
           /\ UNCHANGED <<table, slot, edited>>
<1> DEFINE r == session[s]
<1>1. r \in Request /\ r.kind = "PATCH" /\ r.id \in BookingId /\ r.todo = <<>>
  BY DEF TypeOK, Update, Ready
<1>2. /\ Answered(s, r.id)
      /\ booking' = [booking EXCEPT ![r.id] = Written(r)]
      /\ links' = [links EXCEPT ![r.id] = IF "places" \in r.sets THEN LinksAfter(r) ELSE @]
      /\ UNCHANGED <<table, slot, edited>>
  BY DEF Update
<1>3. retired' = [retired EXCEPT ![r.id] = IF "places" \in r.sets
                    THEN @ \cup {l.place : l \in r.loaded} ELSE @]
  BY DEF Update
<1>4. raced' = {pair \in raced : "places" \in r.sets => r.id \notin pair}
                 \cup {{r.id, c} : c \in r.blind \ {r.id}}
  BY DEF Update
<1>5. /\ skewed' = IF r.id \in r.blind THEN skewed \cup {r.id}
                   ELSE IF "places" \in r.sets THEN skewed \ {r.id} ELSE skewed
      /\ unchecked' = IF Moves(r) THEN unchecked \cup {r.id}
                      ELSE IF "places" \in r.sets THEN unchecked \ {r.id} ELSE unchecked
  BY DEF Update
<1>6. \A c \in BookingId \ {r.id} :
        booking'[c] = booking[c] /\ links'[c] = links[c] /\ retired'[c] = retired[c]
  BY <1>2, <1>3 DEF TypeOK
<1>7. /\ booking'[r.id] = Written(r)
      /\ links'[r.id] = IF "places" \in r.sets THEN LinksAfter(r) ELSE links[r.id]
  BY <1>1, <1>2 DEF TypeOK
<1> QED BY <1>1, <1>2, <1>4, <1>5, <1>6, <1>7

----------------------------------------------------------------------------
\* A booking has places, and those of one request unless PATCHes overlapped:
\* a request that is fresh retires every link there is and inserts its own.
THEOREM PlacesAreOfOneRequest == Spec => []PlacesOfOneRequest
<1>1. Init => PlacesOfOneRequest
  BY BlankType DEF Init, PlacesOfOneRequest, Exists, Blank
<1>2. TypeOK /\ RequestsAreSound /\ PlacesOfOneRequest /\ [Next]_vars => PlacesOfOneRequest'
  <2> SUFFICES ASSUME TypeOK, RequestsAreSound, PlacesOfOneRequest, [Next]_vars
               PROVE  PlacesOfOneRequest'
    OBVIOUS
  <2>1. ASSUME NEW r \in Request, r.places # {}
        PROVE  NewLinks(r) # {} /\ \A l, m \in NewLinks(r) : l.by = m.by
    <3> PICK p \in r.places : TRUE
      BY <2>1
    <3>1. [by |-> r.number, place |-> p] \in NewLinks(r)
      BY DEF NewLinks
    <3>2. \A l \in NewLinks(r) : l.by = r.number
      BY DEF NewLinks
    <3> QED BY <3>1, <3>2
  <2>2. ASSUME NEW s \in Session, Create(s) PROVE PlacesOfOneRequest'
    <3> PICK b \in BookingId :
            /\ booking' = [booking EXCEPT ![b] = session[s].row]
            /\ links' = [links EXCEPT ![b] = NewLinks(session[s])]
            /\ session[s].kind = "POST" /\ skewed' = skewed
      BY <2>2, CreateEffect
    <3>1. session[s] \in Request /\ session[s].places # {}
      BY DEF RequestsAreSound, IsSound, TypeOK
    <3> QED BY <2>1, <3>1 DEF PlacesOfOneRequest, Exists, TypeOK
  <2>3. ASSUME NEW s \in Session, Update(s) PROVE PlacesOfOneRequest'
    <3> PICK r \in Request : r = session[s]
      BY DEF TypeOK
    <3>1. /\ r.kind = "PATCH" /\ r.id \in BookingId
          /\ links'[r.id] = IF "places" \in r.sets THEN LinksAfter(r) ELSE links[r.id]
          /\ r.id \in r.blind => r.id \in skewed'
          /\ "places" \notin r.sets => skewed \subseteq skewed'
          /\ \A c \in BookingId \ {r.id} :
               /\ booking'[c] = booking[c] /\ links'[c] = links[c]
               /\ c \in skewed' <=> c \in skewed
      BY <2>3, UpdateEffect
    <3>2. IsSound(r) /\ Exists(r.id)
      BY <3>1 DEF RequestsAreSound, IsSound
    <3>3. CASE "places" \in r.sets
      <4>1. NewLinks(r) # {} /\ \A l, m \in NewLinks(r) : l.by = m.by
        BY <2>1, <3>2, <3>3 DEF IsSound
      <4>2. r.id \notin r.blind => links'[r.id] = NewLinks(r)
        BY <3>1, <3>2, <3>3 DEF IsSound, Fresh, LinksAfter
      <4>3. links'[r.id] # {}
        BY <3>1, <3>3, <4>1 DEF LinksAfter
      <4> QED BY <3>1, <4>1, <4>2, <4>3 DEF PlacesOfOneRequest, Exists
    <3>4. CASE "places" \notin r.sets
      BY <3>1, <3>2, <3>4 DEF PlacesOfOneRequest, Exists
    <3> QED BY <3>3, <3>4
  <2>4. ASSUME UNCHANGED <<booking, links, skewed>> PROVE PlacesOfOneRequest'
    BY <2>4 DEF PlacesOfOneRequest, Exists
  <2>5. ASSUME NEW s \in Session, Arrives(s) PROVE PlacesOfOneRequest'
    BY <2>4, <2>5, PostEffect, PatchEffect DEF Arrives, history
  <2>6. ASSUME NEW s \in Session, Check(s) \/ Refuse(s) PROVE PlacesOfOneRequest'
    BY <2>4, <2>6 DEF Check, Refuse, history
  <2>7. CASE Catalog
    BY <2>4, <2>7 DEF Catalog, CreateTable, UpdateTable, UpdateSlot, CatalogEdit
  <2>8. CASE Tick \/ UNCHANGED vars
    BY <2>4, <2>8 DEF Tick, history, vars
  <2> QED BY <2>2, <2>3, <2>5, <2>6, <2>7, <2>8 DEF Next
<1> QED BY <1>1, <1>2, TypeCorrect, RequestsSound, PTL DEF Spec

----------------------------------------------------------------------------
\* A booking that is ACTIVE or COMPLETED changes only by a PATCH that is not
\* fresh: a fresh one has read its status, and was refused.
THEOREM FrozenChangesAreByLateRequests == Spec => FrozenChangesAreLate
<1>1. TypeOK /\ RequestsAreSound /\ [Next]_vars =>
        [\A b \in BookingId :
           /\ booking[b].status \in Frozen
           /\ booking'[b] # booking[b] \/ links'[b] # links[b]
           => \E s \in Session : /\ session[s].id = b /\ b \in session[s].blind
                                 /\ session'[s] = NoRequest]_vars
  <2> SUFFICES ASSUME TypeOK, RequestsAreSound, [Next]_vars, NEW b \in BookingId,
                      booking[b].status \in Frozen,
                      booking'[b] # booking[b] \/ links'[b] # links[b]
               PROVE  \E s \in Session : /\ session[s].id = b /\ b \in session[s].blind
                                         /\ session'[s] = NoRequest
    OBVIOUS
  <2>1. ASSUME NEW s \in Session, Create(s) PROVE FALSE
    <3> PICK c \in BookingId :
            /\ ~Exists(c)
            /\ booking' = [booking EXCEPT ![c] = session[s].row]
            /\ links' = [links EXCEPT ![c] = NewLinks(session[s])]
      BY <2>1, CreateEffect
    <3> QED BY DEF Exists, Frozen, TypeOK
  <2>2. ASSUME NEW s \in Session, Update(s)
        PROVE  session[s].id = b /\ b \in session[s].blind /\ session'[s] = NoRequest
    <3>1. /\ session[s].id = b /\ session[s].kind = "PATCH"
          /\ Answered(s, b)
      BY <2>2, UpdateEffect
    <3>2. session'[s] = NoRequest
      BY <3>1 DEF Answered
    <3>3. b \in session[s].blind
      BY <3>1 DEF RequestsAreSound, IsSound, Fresh
    <3> QED BY <3>1, <3>2, <3>3
  <2>3. ASSUME UNCHANGED <<booking, links>> PROVE FALSE
    BY <2>3
  <2>4. ASSUME NEW s \in Session, Arrives(s) PROVE FALSE
    BY <2>3, <2>4, PostEffect, PatchEffect DEF Arrives
  <2>5. ASSUME NEW s \in Session, Check(s) \/ Refuse(s) PROVE FALSE
    BY <2>3, <2>5 DEF Check, Refuse
  <2>6. CASE Catalog \/ Tick \/ UNCHANGED vars
    BY <2>3, <2>6 DEF Catalog, CreateTable, UpdateTable, UpdateSlot, CatalogEdit, Tick, vars
  <2> QED BY <2>1, <2>2, <2>4, <2>5, <2>6 DEF Next
<1> QED BY <1>1, TypeCorrect, RequestsSound, PTL DEF Spec, FrozenChangesAreLate

----------------------------------------------------------------------------
\* What a passed check is worth until the COMMIT

Passed(r, check) == \A i \in 1 .. Len(r.todo) : r.todo[i] # check

\* No other live booking of the date that has stayed as it was has one of the
\* places the request names.
DoubleHolds(r) ==
    "places" \in r.sets /\ Passed(r, "double") =>
        \A c \in Others(r) \ r.blind : Joined(c) \cap r.places = {}

\* None of the same user has a slot that overlaps, as far as the staff have not
\* moved the slots.
CrossHolds(r) ==
    "places" \in r.sets /\ Passed(r, "cross") =>
        \A c \in Others(r) \ r.blind : booking[c].user = r.row.user =>
            \A x \in SlotsOf(Joined(c)), y \in SlotsOf(r.places) :
                Overlap(x, y) => {x, y} \cap edited # {}

\* The tables have the seats, as far as the staff have not changed them.
SeatsHold(r) ==
    r.sets \cap {"places", "guests"} # {} /\ Passed(r, "seats") =>
        \/ r.row.guests <= SeatsAt(r.places)
        \/ TablesOf(r.places) \cap edited # {}

Holds(r) == DoubleHolds(r) /\ CrossHolds(r) /\ SeatsHold(r)
ChecksHold == \A s \in Session : Holds(session[s])

\* A check is passed when it was before, or when it was the next and is now done.
LEMMA PassedTail ==
    ASSUME NEW todo \in Seq(Checks), todo # <<>>, NEW check,
           \A i \in 1 .. Len(Tail(todo)) : Tail(todo)[i] # check
    PROVE  Head(todo) = check \/ \A i \in 1 .. Len(todo) : todo[i] # check
<1> SUFFICES ASSUME NEW i \in 1 .. Len(todo), todo[i] = check PROVE Head(todo) = check
  OBVIOUS
<1>1. CASE i = 1
  BY <1>1
<1>2. CASE i # 1
  <2>1. i - 1 \in 1 .. Len(Tail(todo)) /\ Tail(todo)[i - 1] = todo[i]
    BY <1>2
  <2> QED BY <2>1
<1> QED BY <1>1, <1>2

\* Where the elements of two sequences are in their concatenation.
LEMMA ConcatElements ==
    ASSUME NEW S, NEW f \in Seq(S), NEW g \in Seq(S)
    PROVE  /\ f \o g \in Seq(S) /\ Len(f \o g) = Len(f) + Len(g)
           /\ \A i \in 1 .. Len(f) : (f \o g)[i] = f[i]
           /\ \A i \in 1 .. Len(g) : (f \o g)[Len(f) + i] = g[i]
  OBVIOUS

\* A PATCH that names places has to check them against other bookings; one that
\* names places or a date has to look at the clock; one that names places or
\* guests has to count seats.
LEMMA ChecksOfNames ==
    ASSUME NEW fields \in SUBSET Settable, NEW r, r.todo = ChecksOf(fields)
    PROVE  /\ "places" \in fields => ~Passed(r, "double") /\ ~Passed(r, "cross")
           /\ fields \cap {"places", "date"} # {} => ~Passed(r, "time")
           /\ fields \cap {"places", "guests"} # {} => ~Passed(r, "seats")
<1> DEFINE a == When("places" \in fields, <<"tables", "slots", "double", "cross">>)
           b == When(fields \cap {"places", "date"} # {}, <<"time">>)
           c == When(fields \cap {"places", "guests"} # {}, <<"seats">>)
           d == <<"role">>
<1>1. /\ <<"tables", "slots", "double", "cross">> \in Seq(Checks)
      /\ <<"time">> \in Seq(Checks) /\ <<"seats">> \in Seq(Checks)
      /\ d \in Seq(Checks) /\ <<>> \in Seq(Checks)
  BY DEF Checks
<1>2. a \in Seq(Checks) /\ b \in Seq(Checks) /\ c \in Seq(Checks) /\ Len(d) = 1
  BY <1>1 DEF When
<1>3. "places" \in fields => Len(a) = 4 /\ a[3] = "double" /\ a[4] = "cross"
  BY DEF When
<1>4. fields \cap {"places", "guests"} # {} => Len(c) = 1 /\ c[1] = "seats"
  BY DEF When
<1>5. fields \cap {"places", "date"} # {} => Len(b) = 1 /\ b[1] = "time"
  BY DEF When
<1>6. r.todo = a \o b \o c \o d
  BY DEF ChecksOf
<1> HIDE DEF a, b, c, d
<1>7. /\ Len(r.todo) = Len(a) + Len(b) + Len(c) + Len(d)
      /\ \A i \in 1 .. Len(a) : r.todo[i] = a[i]
      /\ \A i \in 1 .. Len(b) : r.todo[Len(a) + i] = b[i]
      /\ \A i \in 1 .. Len(c) : r.todo[Len(a) + Len(b) + i] = c[i]
  <2>1. /\ a \o b \in Seq(Checks) /\ Len(a \o b) = Len(a) + Len(b)
        /\ \A i \in 1 .. Len(a) : (a \o b)[i] = a[i]
        /\ \A i \in 1 .. Len(b) : (a \o b)[Len(a) + i] = b[i]
    BY <1>2, ConcatElements
  <2>2. /\ a \o b \o c \in Seq(Checks) /\ Len(a \o b \o c) = Len(a) + Len(b) + Len(c)
        /\ \A i \in 1 .. Len(a \o b) : (a \o b \o c)[i] = (a \o b)[i]
        /\ \A i \in 1 .. Len(c) : (a \o b \o c)[Len(a \o b) + i] = c[i]
    BY <1>2, <2>1, ConcatElements
  <2>3. /\ Len(r.todo) = Len(a \o b \o c) + Len(d)
        /\ \A i \in 1 .. Len(a \o b \o c) : r.todo[i] = (a \o b \o c)[i]
    BY <1>1, <1>6, <2>2, ConcatElements
  <2>4. Len(a) \in Nat /\ Len(b) \in Nat /\ Len(c) \in Nat /\ Len(d) \in Nat
    BY <1>1, <1>2
  <2>5. Len(r.todo) = Len(a) + Len(b) + Len(c) + Len(d)
    BY <2>2, <2>3
  <2>6. ASSUME NEW i \in 1 .. Len(a) PROVE r.todo[i] = a[i]
    <3>1. i \in 1 .. Len(a \o b) /\ i \in 1 .. Len(a \o b \o c)
      BY <2>1, <2>2, <2>4
    <3> QED BY <2>1, <2>2, <2>3, <3>1
  <2>7. ASSUME NEW i \in 1 .. Len(b) PROVE r.todo[Len(a) + i] = b[i]
    <3>1. Len(a) + i \in 1 .. Len(a \o b) /\ Len(a) + i \in 1 .. Len(a \o b \o c)
      BY <2>1, <2>2, <2>4
    <3> QED BY <2>1, <2>2, <2>3, <3>1
  <2>8. ASSUME NEW i \in 1 .. Len(c) PROVE r.todo[Len(a) + Len(b) + i] = c[i]
    <3>1. Len(a \o b) + i \in 1 .. Len(a \o b \o c)
      BY <2>1, <2>2, <2>4
    <3>2. r.todo[Len(a \o b) + i] = c[i]
      BY <2>2, <2>3, <3>1
    <3> QED BY <2>1, <3>2
  <2> QED BY <2>5, <2>6, <2>7, <2>8
<1>8. Len(a) \in Nat /\ Len(b) \in Nat /\ Len(c) \in Nat
  BY <1>2
<1>9. ASSUME "places" \in fields PROVE ~Passed(r, "double") /\ ~Passed(r, "cross")
  <2>1. Len(a) = 4
    BY <1>3, <1>9
  <2> DEFINE n == Len(r.todo)
  <2>2. n \in Nat /\ n >= 4
    BY <1>2, <1>7, <1>8, <2>1
  <2> HIDE DEF n
  <2>3. 3 \in 1 .. n /\ 4 \in 1 .. n
    BY <2>2
  <2>4. r.todo[3] = "double" /\ r.todo[4] = "cross"
    BY <1>3, <1>7, <1>9, <2>1
  <2> QED BY <2>3, <2>4 DEF n, Passed
<1>10. ASSUME fields \cap {"places", "guests"} # {} PROVE ~Passed(r, "seats")
  <2> DEFINE i == Len(a) + Len(b) + 1
  <2>1. Len(c) = 1 /\ i \in 1 .. Len(r.todo)
    BY <1>2, <1>4, <1>7, <1>8, <1>10
  <2>2. r.todo[i] = "seats"
    BY <1>4, <1>7, <1>10, <2>1
  <2> QED BY <2>1, <2>2 DEF Passed
<1>11. ASSUME fields \cap {"places", "date"} # {} PROVE ~Passed(r, "time")
  <2> DEFINE i == Len(a) + 1
  <2>1. Len(b) = 1 /\ i \in 1 .. Len(r.todo)
    BY <1>2, <1>5, <1>7, <1>8, <1>11
  <2>2. r.todo[i] = "time"
    BY <1>5, <1>7, <1>11, <2>1
  <2> QED BY <2>1, <2>2 DEF Passed
<1> QED BY <1>9, <1>10, <1>11

\* The seats at some tables are as many as long as those tables stay as they are.
LEMMA SeatsStay ==
    ASSUME NEW places \in SUBSET Place,
           \A t \in TablesOf(places) : table'[t] = table[t]
    PROVE  SeatsAt(places)' = SeatsAt(places)
<1>1. [t \in TablesOf(places) |-> table'[t].seats] = [t \in TablesOf(places) |-> table[t].seats]
  OBVIOUS
<1> QED BY <1>1 DEF SeatsAt, TablesOf

\* What others do leaves a passed check as good as it was: what they commit the
\* request has not seen, and the tables and slots that change are edited.
LEMMA HoldsStays ==
    ASSUME TypeOK, NEW t \in Session, Holds(session[t]),
           SameRequest(session'[t], session[t]),
           session'[t].todo = session[t].todo,
           session[t].blind \subseteq session'[t].blind,
           \A c \in BookingId \ session'[t].blind :
              booking'[c] = booking[c] /\ links'[c] = links[c] /\ retired'[c] = retired[c],
           edited \subseteq edited',
           \A sl \in Slot \ edited' : slot'[sl] = slot[sl],
           \A tb \in Table \ edited' : table'[tb] = table[tb]
    PROVE  Holds(session[t])'
<1> PICK r \in Request : r = session[t]
  BY DEF TypeOK
<1> PICK q : q = session'[t]
  OBVIOUS
<1>1. /\ SameRequest(q, r) /\ q.todo = r.todo /\ r.blind \subseteq q.blind
      /\ q.places \in SUBSET Place
  BY DEF SameRequest, Request
<1>2. \A c \in BookingId \ q.blind :
        booking'[c] = booking[c] /\ links'[c] = links[c] /\ retired'[c] = retired[c]
  OBVIOUS
<1>3. \A check : Passed(q, check) => Passed(r, check)
  BY <1>1 DEF Passed
<1>4. DoubleHolds(q)'
  BY <1>1, <1>2, <1>3
  DEF Holds, DoubleHolds, SameRequest, Others, Live, Exists, Joined, Held
<1>5. CrossHolds(q)'
  <2> SUFFICES ASSUME "places" \in q.sets, Passed(q, "cross"), NEW c \in Others(q)' \ q.blind,
                      booking'[c].user = q.row.user,
                      NEW x \in SlotsOf(Joined(c)'), NEW y \in SlotsOf(q.places),
                      Overlap(x, y)'
               PROVE  {x, y} \cap edited' # {}
    BY DEF CrossHolds, SlotsOf, Passed
  <2>1. c \in BookingId /\ c \in Others(r) \ r.blind /\ booking[c].user = r.row.user
        /\ Joined(c)' = Joined(c)
    BY <1>1, <1>2 DEF SameRequest, Others, Live, Exists, Joined, Held
  <2>2. "places" \in r.sets /\ Passed(r, "cross") /\ r.places = q.places
    BY <1>1, <1>3 DEF SameRequest
  <2>3. Overlap(x, y) => {x, y} \cap edited # {}
    BY <2>1, <2>2 DEF Holds, CrossHolds
  <2>4. x \in Slot /\ y \in Slot
    <3>1. Joined(c) \subseteq Place
      BY <2>1 DEF TypeOK, Joined, Held, Link
    <3> QED BY <1>1, <2>1, <3>1 DEF SlotsOf, Place
  <2> QED BY <2>3, <2>4 DEF Overlap
<1>6. SeatsHold(q)'
  <2> SUFFICES ASSUME q.sets \cap {"places", "guests"} # {}, Passed(q, "seats"),
                      TablesOf(q.places) \cap edited' = {}
               PROVE  q.row.guests <= SeatsAt(q.places)'
    BY DEF SeatsHold, TablesOf, Passed
  <2>1. TablesOf(q.places) \subseteq Table
    BY <1>1 DEF TablesOf, Place
  <2>2. SeatsAt(q.places)' = SeatsAt(q.places)
    BY <1>1, <2>1, SeatsStay
  <2>3. r.row.guests <= SeatsAt(r.places)
    BY <1>1, <1>3 DEF Holds, SeatsHold, SameRequest
  <2> QED BY <1>1, <2>2, <2>3 DEF SameRequest
<1> QED BY <1>4, <1>5, <1>6 DEF Holds

\* A request that names nothing relies on no check.
LEMMA NothingToHold ==
    ASSUME NEW t \in Session, session'[t].sets = {}
    PROVE  Holds(session[t])'
  BY DEF Holds, DoubleHolds, CrossHolds, SeatsHold

\* The statement of a check has looked at all there is at that moment.
LEMMA CheckEstablishes ==
    ASSUME TypeOK, NEW s \in Session, Holds(session[s]), Check(s)
    PROVE  Holds(session[s])'
<1> PICK r \in Request : r = session[s]
  BY DEF TypeOK
<1> PICK q : q = session'[s]
  OBVIOUS
<1>1. /\ SameRequest(q, r) /\ q.blind = r.blind /\ q.todo = Tail(r.todo)
      /\ r.todo \in Seq(Checks) /\ r.todo # <<>> /\ Passes(r, Head(r.todo))
      /\ UNCHANGED <<booking, links, retired, table, slot, edited>>
  <2>1. session \in [Session -> Request]
    BY DEF TypeOK
  <2>2. /\ SameRequest(q, r) /\ q.blind = r.blind /\ q.todo = Tail(r.todo)
    BY <2>1, CheckEffect
  <2> QED BY <2>2 DEF Check, Request, history
<1>2. \A check : Passed(q, check) => Passed(r, check) \/ Head(r.todo) = check
  BY <1>1, PassedTail DEF Passed
<1>3. /\ Head(r.todo) = "double" => NoDouble(r)
      /\ Head(r.todo) = "cross" => NoCross(r)
      /\ Head(r.todo) = "seats" => SeatsSuffice(r)
  BY <1>1 DEF Passes
<1>4. /\ "places" \in r.sets /\ Passed(q, "double") =>
           \A c \in Others(r) \ r.blind : Joined(c) \cap r.places = {}
      /\ "places" \in r.sets /\ Passed(q, "cross") =>
           \A c \in Others(r) \ r.blind : booking[c].user = r.row.user =>
             \A x \in SlotsOf(Joined(c)), y \in SlotsOf(r.places) :
               Overlap(x, y) => {x, y} \cap edited # {}
      /\ r.sets \cap {"places", "guests"} # {} /\ Passed(q, "seats") =>
           r.row.guests <= SeatsAt(r.places) \/ TablesOf(r.places) \cap edited # {}
  BY <1>2, <1>3 DEF Holds, DoubleHolds, CrossHolds, SeatsHold, NoDouble, NoCross, SeatsSuffice
<1>5. DoubleHolds(q)'
  BY <1>1, <1>4 DEF DoubleHolds, SameRequest, Others, Live, Exists, Joined, Held, Passed
<1>6. CrossHolds(q)'
  <2>1. /\ q.row = r.row /\ q.id = r.id /\ q.sets = r.sets /\ q.places = r.places
        /\ q.blind = r.blind
    BY <1>1 DEF SameRequest
  <2>2. CrossHolds(q)
    BY <1>4, <2>1 DEF CrossHolds, Others
  <2>3. Others(q)' = Others(q) /\ \A b : Joined(b)' = Joined(b) /\ booking'[b] = booking[b]
    BY <1>1 DEF Others, Live, Exists, Joined, Held
  <2>4. \A x, y : (Overlap(x, y)' <=> Overlap(x, y)) /\ edited' = edited
    BY <1>1 DEF Overlap
  <2> QED BY ONLY <2>2, <2>3, <2>4 DEF CrossHolds, SlotsOf, Passed
<1>7. SeatsHold(q)'
  <2>1. q.places \in SUBSET Place /\ q.places = r.places /\ q.row = r.row /\ q.sets = r.sets
    BY <1>1 DEF SameRequest, Request
  <2>2. SeatsAt(q.places)' = SeatsAt(q.places)
    BY <1>1, <2>1, SeatsStay
  <2> QED BY <1>1, <1>4, <2>1, <2>2 DEF SeatsHold, TablesOf, Passed
<1> QED BY <1>5, <1>6, <1>7 DEF Holds

\* What the checks of services/booking.py found stays true until the COMMIT, but
\* for what other requests commit and the staff edit meanwhile.
THEOREM ChecksAreKept == Spec => []ChecksHold
<1>1. Init => ChecksHold
  BY DEF Init, ChecksHold, Holds, DoubleHolds, CrossHolds, SeatsHold, NoRequest
<1>2. TypeOK /\ RequestsAreSound /\ ChecksHold /\ [Next]_vars => ChecksHold'
  <2> SUFFICES ASSUME TypeOK, RequestsAreSound, ChecksHold, [Next]_vars, NEW t \in Session
               PROVE  Holds(session[t])'
    BY DEF ChecksHold
  <2>0. Holds(session[t]) /\ IsSound(session[t]) /\ session \in [Session -> Request]
    BY DEF ChecksHold, RequestsAreSound, TypeOK
  <2>1. NoRequest.sets = {}
    BY DEF NoRequest
  <2>2. ASSUME session'[t] = session[t], UNCHANGED <<booking, links, retired>>,
               edited \subseteq edited',
               \A sl \in Slot \ edited' : slot'[sl] = slot[sl],
               \A tb \in Table \ edited' : table'[tb] = table[tb]
        PROVE  Holds(session[t])'
    BY <2>0, <2>2, HoldsStays DEF SameRequest
  <2>3. ASSUME NEW s \in Session, NEW order \in Orders, Post(s, order)
        PROVE  Holds(session[t])'
    <3>1. CASE t = s
      <4> DEFINE todo == session'[s].todo
      <4>1. todo = <<"tables", "slots", "time", "double", "cross", "seats">>
        BY <2>3, PostEffect
      <4>2. /\ 4 \in 1 .. Len(todo) /\ 5 \in 1 .. Len(todo) /\ 6 \in 1 .. Len(todo)
            /\ todo[4] = "double" /\ todo[5] = "cross" /\ todo[6] = "seats"
        BY <4>1
      <4> QED BY <3>1, <4>2 DEF Holds, DoubleHolds, CrossHolds, SeatsHold, Passed
    <3>2. CASE t # s
      BY <2>2, <2>3, <3>2, PostEffect DEF history
    <3> QED BY <3>1, <3>2
  <2>4. ASSUME NEW s \in Session, NEW u \in User, NEW b \in BookingId, NEW edit \in Edits,
               Patch(s, u, b, edit)
        PROVE  Holds(session[t])'
    <3>1. CASE t = s
      <4> PICK q : q = session'[s]
        OBVIOUS
      <4>1. q.todo = ChecksOf(DOMAIN edit) /\ q.sets = DOMAIN edit
        BY <2>4, PatchEffect
      <4>2. DOMAIN edit \in SUBSET Settable
        BY BodiesAssumption
      <4>3. /\ "places" \in q.sets => ~Passed(q, "double") /\ ~Passed(q, "cross")
            /\ q.sets \cap {"places", "guests"} # {} => ~Passed(q, "seats")
        BY <4>1, <4>2, ChecksOfNames
      <4> QED BY <3>1, <4>3 DEF Holds, DoubleHolds, CrossHolds, SeatsHold, Passed
    <3>2. CASE t # s
      BY <2>2, <2>4, <3>2, PatchEffect DEF history
    <3> QED BY <3>1, <3>2
  <2>5. ASSUME NEW s \in Session, Check(s) PROVE Holds(session[t])'
    <3>1. CASE t = s
      BY <2>0, <2>5, <3>1, CheckEstablishes
    <3>2. CASE t # s
      BY <2>0, <2>2, <2>5, <3>2 DEF Check, history
    <3> QED BY <3>1, <3>2
  <2>6. ASSUME NEW s \in Session, Refuse(s) PROVE Holds(session[t])'
    <3>1. CASE t = s
      BY <2>0, <2>1, <2>6, <3>1, NothingToHold DEF Refuse
    <3>2. CASE t # s
      BY <2>0, <2>2, <2>6, <3>2 DEF Refuse, history
    <3> QED BY <3>1, <3>2
  <2>7. ASSUME NEW s \in Session, NEW b \in BookingId, Answered(s, b),
               \A c \in BookingId \ {b} :
                 booking'[c] = booking[c] /\ links'[c] = links[c] /\ retired'[c] = retired[c],
               UNCHANGED <<table, slot, edited>>
        PROVE  Holds(session[t])'
    <3>1. CASE t = s
      BY <2>0, <2>1, <2>7, <3>1, AnsweredEffect, NothingToHold
    <3>2. CASE t # s
      <4>1. /\ SameRequest(session'[t], session[t]) /\ session'[t].todo = session[t].todo
            /\ session'[t].blind = IF Busy(t) THEN session[t].blind \cup {b} ELSE session[t].blind
        BY <2>0, <2>7, <3>2, AnsweredEffect
      <4>2. CASE Busy(t)
        BY <2>0, <2>7, <4>1, <4>2, HoldsStays
      <4>3. CASE ~Busy(t)
        BY <2>0, <4>1, <4>3, NothingToHold DEF Busy, IsSound, SameRequest
      <4> QED BY <4>2, <4>3
    <3> QED BY <3>1, <3>2
  <2>8. ASSUME NEW s \in Session, Create(s) PROVE Holds(session[t])'
    <3> PICK b \in BookingId :
            /\ booking' = [booking EXCEPT ![b] = session[s].row]
            /\ links' = [links EXCEPT ![b] = NewLinks(session[s])]
            /\ Answered(s, b) /\ UNCHANGED <<retired, table, slot, edited>>
      BY <2>8, CreateEffect
    <3> QED BY <2>7 DEF TypeOK
  <2>9. ASSUME NEW s \in Session, Update(s) PROVE Holds(session[t])'
    BY <2>7, <2>9, UpdateEffect
  <2>10. CASE Catalog
    BY <2>2, <2>10 DEF Catalog, CreateTable, UpdateTable, UpdateSlot, CatalogEdit, TypeOK
  <2>11. CASE Tick \/ UNCHANGED vars
    BY <2>2, <2>11 DEF Tick, history, vars
  <2> QED BY <2>3, <2>4, <2>5, <2>6, <2>8, <2>9, <2>10, <2>11 DEF Next, Arrives
<1> QED BY <1>1, <1>2, TypeCorrect, RequestsSound, PTL DEF Spec

----------------------------------------------------------------------------
\* What a COMMIT may do to what bookings share

\* The bookings a commit of d leaves alone keep their rows, links and excuses.
OthersStay(d) ==
    /\ \A c \in BookingId \ {d} :
         /\ booking'[c] = booking[c] /\ links'[c] = links[c]
         /\ c \in skewed => c \in skewed'
         /\ c \in unchecked => c \in unchecked'
    /\ \A b, c \in BookingId \ {d} : {b, c} \in raced => {b, c} \in raced'

\* r puts d where it wants it, having seen every commit of d.
Places(r, d) ==
    /\ "places" \in r.sets /\ r.id \in {0, d}
    /\ booking'[d].user = r.row.user /\ booking'[d].date = r.row.date
    /\ booking'[d].guests = r.row.guests
    /\ links'[d] = NewLinks(r)

\* r leaves d where it is, having seen every commit of d; or it moves d or
\* revives it, and that is on record.
Leaves(r, d) ==
    /\ "places" \notin r.sets
    /\ Exists(d) /\ links'[d] = links[d] /\ booking'[d].user = booking[d].user
    /\ "guests" \in r.sets => booking'[d].guests = r.row.guests /\ r.places = Held(d)
    /\ "guests" \notin r.sets => booking'[d].guests = booking[d].guests
    /\ raced \subseteq raced' /\ skewed \subseteq skewed' /\ unchecked \subseteq unchecked'
    /\ \/ d \in unchecked'
       \/ booking'[d].status = "CANCELED" \/ ~booking'[d].active
       \/ Live(d) /\ booking'[d].date = booking[d].date

\* The places of the links a request inserts are those it names.
LEMMA PlacesOfNewLinks ==
    ASSUME NEW r PROVE {l.place : l \in NewLinks(r)} = r.places
<1>1. ASSUME NEW p \in r.places PROVE p \in {l.place : l \in NewLinks(r)}
  <2>1. [by |-> r.number, place |-> p] \in NewLinks(r)
    BY DEF NewLinks
  <2> QED BY <2>1
<1>2. ASSUME NEW l \in NewLinks(r) PROVE l.place \in r.places
  BY DEF NewLinks
<1> QED BY <1>1, <1>2

LEMMA CommitOutcome ==
    ASSUME TypeOK, RequestsAreSound, NEW s \in Session, Create(s) \/ Update(s)
    PROVE  \E d \in BookingId, r \in Request :
             /\ r = session[s] /\ r.todo = <<>>
             /\ UNCHANGED <<table, slot, edited>>
             /\ OthersStay(d)
             /\ \A c \in r.blind \ {d} : {d, c} \in raced'
             /\ d \in skewed' \/ Places(r, d) \/ Leaves(r, d)
<1> PICK r \in Request : r = session[s]
  BY DEF TypeOK
<1>0. IsSound(r)
  BY DEF RequestsAreSound
<1>1. CASE Create(s)
  <2> PICK d \in BookingId :
          /\ ~Exists(d)
          /\ booking' = [booking EXCEPT ![d] = r.row]
          /\ links' = [links EXCEPT ![d] = NewLinks(r)]
          /\ raced' = raced \cup {{d, c} : c \in r.blind}
          /\ r.kind = "POST" /\ r.todo = <<>>
          /\ UNCHANGED <<retired, table, slot, skewed, unchecked, edited>>
    BY <1>1, CreateEffect
  <2>1. Places(r, d)
    BY <1>0 DEF Places, IsSound, TypeOK
  <2>2. OthersStay(d)
    BY DEF OthersStay, TypeOK
  <2> QED BY <2>1, <2>2
<1>2. CASE Update(s)
  <2> DEFINE d == r.id
  <2>1. /\ r.kind = "PATCH" /\ d \in BookingId /\ r.todo = <<>>
        /\ booking'[d] = Written(r)
        /\ links'[d] = IF "places" \in r.sets THEN LinksAfter(r) ELSE links[d]
        /\ d \in r.blind => d \in skewed'
        /\ \A c \in BookingId \ {d} :
             /\ booking'[c] = booking[c] /\ links'[c] = links[c]
             /\ c \in skewed' <=> c \in skewed
             /\ c \in unchecked' <=> c \in unchecked
        /\ \A pair \in raced : d \notin pair => pair \in raced'
        /\ \A c \in r.blind \ {d} : {d, c} \in raced'
        /\ "places" \notin r.sets =>
             raced \subseteq raced' /\ skewed \subseteq skewed' /\ unchecked \subseteq unchecked'
        /\ Moves(r) => d \in unchecked'
        /\ UNCHANGED <<table, slot, edited>>
    BY <1>2, UpdateEffect
  <2>2. OthersStay(d)
    BY <2>1 DEF OthersStay
  <2>3. booking[d] \in Row
    BY <2>1 DEF TypeOK
  <2>4. ASSUME d \notin r.blind, "places" \in r.sets PROVE Places(r, d)
    <3>1. Written(r).user = r.row.user /\ Written(r).date = r.row.date
          /\ Written(r).guests = r.row.guests
      BY <1>0, <2>1, <2>3, <2>4, WrittenType DEF IsSound, Fresh, Columns
    <3>2. links'[d] = NewLinks(r)
      BY <1>0, <2>1, <2>4 DEF IsSound, Fresh, LinksAfter
    <3> QED BY <2>1, <2>4, <3>1, <3>2 DEF Places
  <2>5. ASSUME d \notin r.blind, "places" \notin r.sets PROVE Leaves(r, d)
    <3>1. Exists(d) /\ r.places = Held(d) /\ r.changes \subseteq r.sets /\ "user" \notin r.changes
      BY <1>0, <2>1, <2>5 DEF IsSound, Fresh
    <3>2. Written(r).user = booking[d].user /\ Written(r).guests = r.row.guests
      BY <1>0, <2>1, <2>3, <2>5, WrittenType DEF IsSound, Fresh, Columns
    <3>3. "guests" \notin r.sets => Written(r).guests = booking[d].guests
      BY <2>1, <2>3, <3>1, WrittenType
    <3>4. \/ d \in unchecked'
          \/ Written(r).status = "CANCELED" \/ ~Written(r).active
          \/ Live(d) /\ Written(r).date = booking[d].date
      BY <2>1, <2>5 DEF Moves
    <3> QED BY <2>1, <2>5, <3>1, <3>2, <3>3, <3>4 DEF Leaves
  <2> QED BY <2>1, <2>2, <2>4, <2>5
<1> QED BY <1>1, <1>2

----------------------------------------------------------------------------
\* Two live bookings share a place of one date only by a race or an unchecked
\* move.  One booking changes at a time, and the pair is looked at from it.
SharePlaces(b, c) ==
    /\ b # c /\ Live(b) /\ Live(c) /\ booking[b].date = booking[c].date
    /\ Held(b) \cap Held(c) # {}

LEMMA DoublesStep ==
    ASSUME TypeOK, RequestsAreSound, ChecksHold, DoublesAreExcused,
           NEW s \in Session, Create(s) \/ Update(s)
    PROVE  DoublesAreExcused'
<1> PICK d \in BookingId, r \in Request :
        /\ r = session[s] /\ r.todo = <<>>
        /\ UNCHANGED <<table, slot, edited>>
        /\ OthersStay(d)
        /\ \A c \in r.blind \ {d} : {d, c} \in raced'
        /\ d \in skewed' \/ Places(r, d) \/ Leaves(r, d)
  BY CommitOutcome
<1>1. DoubleHolds(r) /\ Passed(r, "double")
  BY DEF ChecksHold, Holds, Passed
<1>2. ASSUME NEW c \in BookingId, SharePlaces(d, c)' PROVE Excused(d, c)'
  <2>1. /\ c # d /\ Live(c) /\ booking'[d].date = booking[c].date
        /\ booking'[d].status # "CANCELED" /\ booking'[d].active
        /\ Held(d)' \cap Held(c) # {}
    BY <1>2 DEF SharePlaces, OthersStay, Live, Exists, Held
  <2>2. CASE d \in skewed'
    BY <2>2 DEF Excused
  <2>3. CASE Places(r, d)
    <3>1. Held(d)' = r.places
      BY <2>3, PlacesOfNewLinks DEF Places, Held
    <3>2. CASE c \in r.blind
      BY <2>1, <3>2 DEF Excused
    <3>3. CASE c \notin r.blind
      <4>1. c # r.id
        BY <2>1, <2>3 DEF Places, BookingId
      <4>2. c \in Others(r) \ r.blind
        BY <2>1, <2>3, <3>3, <4>1 DEF Others, Places
      <4> QED BY <1>1, <2>1, <2>3, <3>1, <4>2 DEF DoubleHolds, Places, Joined
    <3> QED BY <3>2, <3>3
  <2>4. CASE Leaves(r, d)
    <3>1. Held(d)' = Held(d)
      BY <2>4 DEF Leaves, Held
    <3>2. d \in unchecked' \/ Excused(d, c)
      BY <2>1, <2>4, <3>1 DEF Leaves, DoublesAreExcused
    <3> QED BY <2>4, <3>2 DEF Leaves, Excused
  <2> QED BY <2>2, <2>3, <2>4
<1>3. ASSUME NEW b \in BookingId, NEW c \in BookingId, SharePlaces(b, c)' PROVE Excused(b, c)'
  <2>1. CASE b = d
    BY <1>2, <1>3, <2>1
  <2>2. CASE c = d
    <3>1. SharePlaces(d, b)'
      BY <1>3, <2>2 DEF SharePlaces
    <3>2. {b, c} = {d, b}
      BY <2>2
    <3> QED BY <1>2, <3>1, <3>2 DEF Excused
  <2>3. CASE b # d /\ c # d
    <3>1. SharePlaces(b, c)
      BY <1>3, <2>3 DEF SharePlaces, OthersStay, Live, Exists, Held
    <3>2. Excused(b, c)
      BY <3>1 DEF DoublesAreExcused, SharePlaces
    <3> QED BY <2>3, <3>2 DEF Excused, OthersStay
  <2> QED BY <2>1, <2>2, <2>3
<1> QED BY <1>3 DEF DoublesAreExcused, SharePlaces, Excused

\* Every other step leaves the bookings alone; a table or slot it changes is
\* edited.
Quiet ==
    /\ UNCHANGED <<booking, links, raced, skewed, unchecked>>
    /\ edited \subseteq edited'
    /\ \A sl \in Slot \ edited' : slot'[sl] = slot[sl]
    /\ \A t \in Table \ edited' : table'[t] = table[t]

LEMMA CommitOrQuiet ==
    ASSUME TypeOK, [Next]_vars
    PROVE  (\E s \in Session : Create(s) \/ Update(s)) \/ Quiet
<1>1. ASSUME NEW s \in Session, Arrives(s) PROVE Quiet
  BY <1>1, PostEffect, PatchEffect DEF Arrives, Quiet, history
<1>2. ASSUME NEW s \in Session, Check(s) \/ Refuse(s) PROVE Quiet
  BY <1>2 DEF Check, Refuse, Quiet, history
<1>3. CASE Catalog
  BY <1>3 DEF Catalog, CreateTable, UpdateTable, UpdateSlot, CatalogEdit, Quiet, TypeOK
<1>4. CASE Tick \/ UNCHANGED vars
  BY <1>4 DEF Tick, history, vars, Quiet
<1> QED BY <1>1, <1>2, <1>3, <1>4 DEF Next

\* Two live bookings share a place of one date only if their requests overlapped
\* or one of them was moved or revived by a PATCH that names no places:
\* check_double_booking_exsist leaves no other hole.
THEOREM DoublesHaveExcuses == Spec => []DoublesAreExcused
<1>1. Init => DoublesAreExcused
  BY BlankType DEF Init, DoublesAreExcused, Live, Exists, Blank
<1>2. TypeOK /\ RequestsAreSound /\ ChecksHold /\ DoublesAreExcused /\ [Next]_vars
        => DoublesAreExcused'
  <2> SUFFICES ASSUME TypeOK, RequestsAreSound, ChecksHold, DoublesAreExcused, [Next]_vars
               PROVE  DoublesAreExcused'
    OBVIOUS
  <2>1. CASE Quiet
    BY <2>1 DEF Quiet, DoublesAreExcused, Live, Exists, Held, Excused
  <2> QED BY <2>1, CommitOrQuiet, DoublesStep
<1> QED BY <1>1, <1>2, TypeCorrect, RequestsSound, ChecksAreKept, PTL DEF Spec

----------------------------------------------------------------------------
\* The same of one user's bookings in slots that overlap, which the staff may
\* have moved.
CrossSlots(b, c, x, y) ==
    /\ b # c /\ Live(b) /\ Live(c) /\ booking[b].date = booking[c].date
    /\ booking[b].user = booking[c].user
    /\ x \in SlotsOf(Held(b)) /\ y \in SlotsOf(Held(c)) /\ Overlap(x, y)

Moved(b, c) == SlotsOf(Held(b) \cup Held(c)) \cap edited # {}

LEMMA CrossingsStep ==
    ASSUME TypeOK, RequestsAreSound, ChecksHold, CrossingsAreExcused,
           NEW s \in Session, Create(s) \/ Update(s)
    PROVE  CrossingsAreExcused'
<1> PICK d \in BookingId, r \in Request :
        /\ r = session[s] /\ r.todo = <<>>
        /\ UNCHANGED <<table, slot, edited>>
        /\ OthersStay(d)
        /\ \A c \in r.blind \ {d} : {d, c} \in raced'
        /\ d \in skewed' \/ Places(r, d) \/ Leaves(r, d)
  BY CommitOutcome
<1>1. CrossHolds(r) /\ Passed(r, "cross")
  BY DEF ChecksHold, Holds, Passed
<1>2. \A x, y : Overlap(x, y)' = Overlap(x, y) /\ Overlap(x, y) = Overlap(y, x)
  BY DEF Overlap
<1>3. ASSUME NEW c \in BookingId, NEW x, NEW y, CrossSlots(d, c, x, y)'
      PROVE  Excused(d, c)' \/ Moved(d, c)'
  <2>1. /\ c # d /\ Live(c) /\ booking'[d].date = booking[c].date
        /\ booking'[d].user = booking[c].user /\ Held(c)' = Held(c)
        /\ booking'[d].status # "CANCELED" /\ booking'[d].active
        /\ x \in SlotsOf(Held(d)') /\ y \in SlotsOf(Held(c)) /\ Overlap(x, y)
    BY <1>3, <1>2 DEF CrossSlots, OthersStay, Live, Exists, Held, SlotsOf
  <2>2. CASE d \in skewed'
    BY <2>2 DEF Excused
  <2>3. CASE Places(r, d)
    <3>1. Held(d)' = r.places
      BY <2>3, PlacesOfNewLinks DEF Places, Held
    <3>2. CASE c \in r.blind
      BY <2>1, <3>2 DEF Excused
    <3>3. CASE c \notin r.blind
      <4>1. c # r.id
        BY <2>1, <2>3 DEF Places, BookingId
      <4>2. c \in Others(r) \ r.blind /\ booking[c].user = r.row.user
        BY <2>1, <2>3, <3>3, <4>1 DEF Others, Places
      <4>3. y \in SlotsOf(Joined(c)) /\ x \in SlotsOf(r.places) /\ Overlap(y, x)
        BY <1>2, <2>1, <3>1 DEF SlotsOf, Joined
      <4>4. {y, x} \cap edited # {}
        BY <1>1, <2>3, <4>2, <4>3 DEF CrossHolds, Places
      <4> QED BY <2>1, <4>4 DEF Moved, SlotsOf
    <3> QED BY <3>2, <3>3
  <2>4. CASE Leaves(r, d)
    <3>1. Held(d)' = Held(d) /\ booking'[d].user = booking[d].user
      BY <2>4 DEF Leaves, Held
    <3>2. d \in unchecked' \/ CrossSlots(d, c, x, y)
      BY <2>1, <2>4, <3>1 DEF Leaves, CrossSlots
    <3>3. d \in unchecked' \/ Excused(d, c) \/ Moved(d, c)
      BY <3>2 DEF CrossingsAreExcused, CrossSlots, Moved
    <3> QED BY <2>1, <2>4, <3>1, <3>3 DEF Leaves, Excused, Moved, SlotsOf
  <2> QED BY <2>2, <2>3, <2>4
<1>4. ASSUME NEW b \in BookingId, NEW c \in BookingId, NEW x, NEW y, CrossSlots(b, c, x, y)'
      PROVE  Excused(b, c)' \/ Moved(b, c)'
  <2>1. CASE b = d
    BY <1>3, <1>4, <2>1
  <2>2. CASE c = d
    <3>1. CrossSlots(d, b, y, x)'
      BY <1>2, <1>4, <2>2 DEF CrossSlots
    <3>2. {b, c} = {d, b} /\ (Held(b) \cup Held(c))' = (Held(d) \cup Held(b))'
      BY <2>2
    <3> QED BY <1>3, <3>1, <3>2 DEF Excused, Moved
  <2>3. CASE b # d /\ c # d
    <3>1. CrossSlots(b, c, x, y) /\ Held(b)' = Held(b) /\ Held(c)' = Held(c)
      BY <1>2, <1>4, <2>3 DEF CrossSlots, OthersStay, Live, Exists, Held, SlotsOf
    <3>2. Excused(b, c) \/ Moved(b, c)
      BY <3>1 DEF CrossingsAreExcused, CrossSlots, Moved
    <3> QED BY <2>3, <3>1, <3>2 DEF Excused, Moved, OthersStay, SlotsOf
  <2> QED BY <2>1, <2>2, <2>3
<1> QED BY <1>4 DEF CrossingsAreExcused, CrossSlots, Excused, Moved

\* One user's live bookings of one date overlap only by the same excuses, or
\* because the staff moved a slot: check_user_have_same_slot leaves no other.
THEOREM CrossingsHaveExcuses == Spec => []CrossingsAreExcused
<1>1. Init => CrossingsAreExcused
  BY BlankType DEF Init, CrossingsAreExcused, Live, Exists, Blank
<1>2. TypeOK /\ RequestsAreSound /\ ChecksHold /\ CrossingsAreExcused /\ [Next]_vars
        => CrossingsAreExcused'
  <2> SUFFICES ASSUME TypeOK, RequestsAreSound, ChecksHold, CrossingsAreExcused, [Next]_vars
               PROVE  CrossingsAreExcused'
    OBVIOUS
  <2>1. CASE Quiet
    <3> SUFFICES ASSUME NEW b \in BookingId, NEW c \in BookingId, NEW x, NEW y,
                        CrossSlots(b, c, x, y)'
                 PROVE  Excused(b, c)' \/ Moved(b, c)'
      BY DEF CrossingsAreExcused, CrossSlots, Excused, Moved
    <3>1. Held(b)' = Held(b) /\ Held(c)' = Held(c)
      BY <2>1 DEF Quiet, Held
    <3>2. /\ x \in SlotsOf(Held(b)) /\ y \in SlotsOf(Held(c))
          /\ x \in Slot /\ y \in Slot
      <4>1. x \in SlotsOf(Held(b)) /\ y \in SlotsOf(Held(c))
        BY <3>1 DEF CrossSlots, SlotsOf
      <4>2. Held(b) \subseteq Place /\ Held(c) \subseteq Place
        BY DEF TypeOK, Held, Link
      <4> QED BY <4>1, <4>2 DEF SlotsOf, Place
    <3>3. CASE x \in edited' \/ y \in edited'
      BY <3>1, <3>2, <3>3 DEF Moved, SlotsOf
    <3>4. CASE x \notin edited' /\ y \notin edited'
      <4>1. CrossSlots(b, c, x, y)
        BY <2>1, <3>1, <3>2, <3>4 DEF Quiet, CrossSlots, Overlap, Live, Exists
      <4>2. Excused(b, c) \/ Moved(b, c)
        BY <4>1 DEF CrossingsAreExcused, CrossSlots, Moved
      <4> QED BY <2>1, <3>1, <4>2 DEF Quiet, Excused, Moved, SlotsOf
    <3> QED BY <3>3, <3>4
  <2> QED BY <2>1, CommitOrQuiet, CrossingsStep
<1> QED BY <1>1, <1>2, TypeCorrect, RequestsSound, ChecksAreKept, PTL DEF Spec
----------------------------------------------------------------------------
\* More guests than seats only if PATCHes of the booking overlapped or the
\* staff changed one of its tables.
Fits(b) ==
    \/ booking[b].guests <= SeatsAt(Held(b))
    \/ b \in skewed
    \/ TablesOf(Held(b)) \cap edited # {}

\* As long as a booking keeps its guests and places, and its tables are the
\* same or edited, it fits as it did.
LEMMA FitsStays ==
    ASSUME TypeOK, NEW b \in BookingId, Fits(b),
           booking'[b].guests = booking[b].guests, links'[b] = links[b],
           b \in skewed => b \in skewed',
           edited \subseteq edited',
           \A t \in Table \ edited' : table'[t] = table[t]
    PROVE  Fits(b)'
<1>1. Held(b)' = Held(b)
  BY DEF Held
<1>2. Held(b) \subseteq Place
  BY DEF TypeOK, Held, Link
<1>3. TablesOf(Held(b)) \subseteq Table /\ TablesOf(Held(b))' = TablesOf(Held(b))
  BY <1>1, <1>2 DEF TablesOf, Place
<1>4. CASE TablesOf(Held(b)) \cap edited' # {}
  BY <1>3, <1>4 DEF Fits
<1>5. CASE TablesOf(Held(b)) \cap edited' = {}
  <2> PICK places \in SUBSET Place : places = Held(b)
    BY <1>2
  <2>1. SeatsAt(places)' = SeatsAt(places)
    BY <1>3, <1>5, SeatsStay
  <2>2. booking[b].guests <= SeatsAt(places) \/ b \in skewed
    BY <1>5 DEF Fits
  <2>3. SeatsAt(Held(b))' = SeatsAt(places)'
    BY <1>1
  <2> QED BY <2>1, <2>2, <2>3 DEF Fits
<1> QED BY <1>4, <1>5

LEMMA CrowdsStep ==
    ASSUME TypeOK, RequestsAreSound, ChecksHold, CrowdsAreExcused,
           NEW s \in Session, Create(s) \/ Update(s)
    PROVE  CrowdsAreExcused'
<1> PICK d \in BookingId, r \in Request :
        /\ r = session[s] /\ r.todo = <<>>
        /\ UNCHANGED <<table, slot, edited>>
        /\ OthersStay(d)
        /\ \A c \in r.blind \ {d} : {d, c} \in raced'
        /\ d \in skewed' \/ Places(r, d) \/ Leaves(r, d)
  BY CommitOutcome
<1>1. SeatsHold(r) /\ Passed(r, "seats")
  BY DEF ChecksHold, Holds, Passed
<1>2. SeatsAt(r.places)' = SeatsAt(r.places)
  <2>1. r.places \in SUBSET Place
    BY DEF Request
  <2> QED BY <2>1, SeatsStay
<1>3. ASSUME NEW b \in BookingId, Exists(b)' PROVE Fits(b)'
  <2>1. CASE b # d
    <3>1. Fits(b)
      BY <1>3, <2>1 DEF CrowdsAreExcused, Fits, Exists, OthersStay
    <3> QED BY <2>1, <3>1, FitsStays DEF OthersStay
  <2>2. CASE b = d /\ d \in skewed'
    BY <2>2 DEF Fits
  <2>3. CASE b = d /\ Places(r, d)
    <3>1. Held(b)' = r.places
      BY <2>3, PlacesOfNewLinks DEF Places, Held
    <3>2. SeatsAt(Held(b))' = SeatsAt(r.places) /\ TablesOf(Held(b))' = TablesOf(r.places)
      BY <1>2, <3>1 DEF TablesOf
    <3>3. \/ r.row.guests <= SeatsAt(r.places) \/ TablesOf(r.places) \cap edited # {}
      BY <1>1, <2>3 DEF SeatsHold, Places
    <3> QED BY <2>3, <3>2, <3>3 DEF Fits, Places
  <2>4. CASE b = d /\ Leaves(r, d)
    <3>1. CASE "guests" \in r.sets
      <4>1. booking'[b].guests = r.row.guests /\ r.places = Held(b) /\ Held(b)' = Held(b)
        BY <2>4, <3>1 DEF Leaves, Held
      <4>2. SeatsAt(Held(b))' = SeatsAt(r.places) /\ TablesOf(Held(b))' = TablesOf(r.places)
        BY <1>2, <4>1 DEF TablesOf
      <4>3. \/ r.row.guests <= SeatsAt(r.places) \/ TablesOf(r.places) \cap edited # {}
        BY <1>1, <3>1 DEF SeatsHold
      <4> QED BY <4>1, <4>2, <4>3 DEF Fits
    <3>2. CASE "guests" \notin r.sets
      <4>1. Fits(b)
        BY <2>4 DEF CrowdsAreExcused, Fits, Leaves
      <4> QED BY <2>4, <3>2, <4>1, FitsStays DEF Leaves
    <3> QED BY <3>1, <3>2
  <2> QED BY <2>1, <2>2, <2>3, <2>4
<1> QED BY <1>3 DEF CrowdsAreExcused, Fits

\* A booking has more guests than its tables have seats only if PATCHes of it
\* overlapped or the staff changed a table: check_seats_number leaves no other
\* hole, whatever the tables and the requests are.
THEOREM CrowdsHaveExcuses == Spec => []CrowdsAreExcused
<1>1. Init => CrowdsAreExcused
  BY BlankType DEF Init, CrowdsAreExcused, Exists, Blank
<1>2. TypeOK /\ RequestsAreSound /\ ChecksHold /\ CrowdsAreExcused /\ [Next]_vars
        => CrowdsAreExcused'
  <2> SUFFICES ASSUME TypeOK, RequestsAreSound, ChecksHold, CrowdsAreExcused, [Next]_vars
               PROVE  CrowdsAreExcused'
    OBVIOUS
  <2>1. CASE Quiet
    <3> SUFFICES ASSUME NEW b \in BookingId, Exists(b)' PROVE Fits(b)'
      BY DEF CrowdsAreExcused, Fits
    <3>1. Fits(b)
      BY <2>1 DEF Quiet, CrowdsAreExcused, Fits, Exists
    <3> QED BY <2>1, <3>1, FitsStays DEF Quiet
  <2> QED BY <2>1, CommitOrQuiet, CrowdsStep
<1> QED BY <1>1, <1>2, TypeCorrect, RequestsSound, ChecksAreKept, PTL DEF Spec

----------------------------------------------------------------------------
\* The days of hours

LEMMA DayAndHour ==
    ASSUME NEW at \in Int
    PROVE  /\ UTCDay(at) \in Int /\ UTCHour(at) \in 0 .. HoursPerDay - 1
           /\ at = UTCDay(at) * HoursPerDay + UTCHour(at)
  BY TimeAssumption DEF UTCDay, UTCHour

\* A later day starts at least a day later.
LEMMA LaterDayStarts ==
    ASSUME NEW d \in Int, NEW e \in Int, d > e
    PROVE  /\ d * HoursPerDay \in Int /\ e * HoursPerDay \in Int
           /\ d * HoursPerDay >= e * HoursPerDay + HoursPerDay
<1> DEFINE k == HoursPerDay
<1>1. k \in Nat
  BY TimeAssumption
<1> HIDE DEF k
<1>2. (d - e - 1) * k >= 0
  BY <1>1
<1>3. (d - e - 1) * k = d * k - e * k - k
  BY <1>1
<1>4. d * k \in Int /\ e * k \in Int
  BY <1>1
<1>5. d * k >= e * k + k
  BY <1>1, <1>2, <1>3, <1>4
<1> QED BY <1>4, <1>5 DEF k

LEMMA DaysPass ==
    ASSUME NEW x \in Int, NEW y \in Int, x <= y
    PROVE  UTCDay(x) <= UTCDay(y)
<1>1. UTCDay(x) \in Int /\ UTCDay(y) \in Int
  BY DayAndHour
<1> SUFFICES ASSUME UTCDay(x) > UTCDay(y) PROVE FALSE
  BY <1>1
<1> DEFINE n == UTCDay(x) * HoursPerDay
           m == UTCDay(y) * HoursPerDay
<1>2. n \in Int /\ m \in Int /\ n >= m + HoursPerDay
  BY <1>1, LaterDayStarts
<1>3. /\ x = n + UTCHour(x) /\ UTCHour(x) \in 0 .. HoursPerDay - 1
      /\ y = m + UTCHour(y) /\ UTCHour(y) \in 0 .. HoursPerDay - 1
  BY DayAndHour
<1>4. HoursPerDay \in Nat
  BY TimeAssumption
<1> HIDE DEF n, m
<1> QED BY <1>2, <1>3, <1>4

\* The hours of one day pass like the time.
LEMMA HoursPass ==
    ASSUME NEW x \in Int, NEW y \in Int, x <= y, UTCDay(x) = UTCDay(y)
    PROVE  UTCHour(x) <= UTCHour(y)
<1> DEFINE n == UTCDay(x) * HoursPerDay
<1>1. /\ x = n + UTCHour(x) /\ UTCHour(x) \in 0 .. HoursPerDay - 1
      /\ y = n + UTCHour(y) /\ UTCHour(y) \in 0 .. HoursPerDay - 1
  BY DayAndHour
<1>2. n \in Int /\ HoursPerDay \in Nat
  BY DayAndHour, TimeAssumption
<1> HIDE DEF n
<1> QED BY <1>1, <1>2

----------------------------------------------------------------------------
\* What a request knows of the clock

\* A request that names places or a date arrived before now, its date is not
\* past for the server, and a slot of today it has found ahead was ahead when
\* it arrived, unless the day in UTC has changed since or the staff moved it.
ClockHolds(r) ==
    r.sets \cap {"places", "date"} # {} =>
        /\ r.arrived <= now
        /\ "date" \in r.sets => r.row.date >= LocalDay(r.arrived)
        /\ Passed(r, "time") /\ UTCDay(now) = UTCDay(r.arrived) /\ r.row.date = UTCDay(r.arrived)
             => \A sl \in SlotsOf(r.places) :
                  sl \in edited \/ slot[sl].begins >= UTCHour(r.arrived)
ClocksHold == \A s \in Session : ClockHolds(session[s])

LEMMA ClockHoldsStays ==
    ASSUME TypeOK, NEW t \in Session, ClockHolds(session[t]),
           SameRequest(session'[t], session[t]),
           session'[t].todo = session[t].todo,
           now' \in Nat, now <= now', edited \subseteq edited',
           \A sl \in Slot \ edited' : slot'[sl] = slot[sl]
    PROVE  ClockHolds(session[t])'
<1> PICK r \in Request : r = session[t]
  BY DEF TypeOK
<1> PICK q : q = session'[t]
  OBVIOUS
<1>1. /\ q.places = r.places /\ q.sets = r.sets /\ q.row = r.row /\ q.arrived = r.arrived
      /\ q.todo = r.todo /\ r.arrived \in Nat /\ r.places \in SUBSET Place
      /\ ClockHolds(r) /\ now \in Nat
  BY DEF SameRequest, Request, TypeOK
<1>2. ASSUME r.sets \cap {"places", "date"} # {}
      PROVE  /\ r.arrived <= now /\ r.arrived <= now'
             /\ "date" \in r.sets => r.row.date >= LocalDay(r.arrived)
  BY <1>1, <1>2 DEF ClockHolds
<1>3. ASSUME r.sets \cap {"places", "date"} # {}, Passed(r, "time"),
             UTCDay(now') = UTCDay(r.arrived), r.row.date = UTCDay(r.arrived),
             NEW sl \in SlotsOf(r.places), sl \notin edited'
      PROVE  slot'[sl].begins >= UTCHour(r.arrived)
  <2>1. /\ UTCDay(r.arrived) <= UTCDay(now) /\ UTCDay(now) <= UTCDay(now')
        /\ UTCDay(r.arrived) \in Int /\ UTCDay(now) \in Int
    BY <1>1, <1>2, <1>3, DaysPass, DayAndHour
  <2>2. UTCDay(now) = UTCDay(r.arrived)
    BY <1>3, <2>1
  <2>3. slot[sl].begins >= UTCHour(r.arrived)
    BY <1>1, <1>3, <2>2 DEF ClockHolds
  <2>4. sl \in Slot
    BY <1>1, <1>3 DEF SlotsOf, Place
  <2> QED BY <1>3, <2>3, <2>4
<1> QED BY <1>1, <1>2, <1>3 DEF ClockHolds, UTCDay, UTCHour, LocalDay, SlotsOf, Passed

\* The statement that compares the hours leaves those slots that are ahead.
LEMMA ClockCheckEstablishes ==
    ASSUME TypeOK, NEW s \in Session, ClockHolds(session[s]), Check(s)
    PROVE  ClockHolds(session[s])'
<1> PICK r \in Request : r = session[s]
  BY DEF TypeOK
<1> PICK q : q = session'[s]
  OBVIOUS
<1>1. /\ SameRequest(q, r) /\ q.todo = Tail(r.todo)
      /\ r.todo \in Seq(Checks) /\ r.todo # <<>> /\ Passes(r, Head(r.todo))
      /\ UNCHANGED <<slot, edited, now>>
  <2>1. session \in [Session -> Request]
    BY DEF TypeOK
  <2>2. SameRequest(q, r) /\ q.todo = Tail(r.todo)
    BY <2>1, CheckEffect
  <2> QED BY <2>2 DEF Check, Request, history
<1>2. Passed(q, "time") => Passed(r, "time") \/ Head(r.todo) = "time"
  <2> SUFFICES ASSUME Passed(q, "time") PROVE Passed(r, "time") \/ Head(r.todo) = "time"
    OBVIOUS
  <2>1. \A i \in 1 .. Len(Tail(r.todo)) : Tail(r.todo)[i] # "time"
    BY <1>1 DEF Passed
  <2>2. r.todo \in Seq(Checks) /\ r.todo # <<>>
    BY <1>1
  <2>3. Head(r.todo) = "time" \/ \A i \in 1 .. Len(r.todo) : r.todo[i] # "time"
    BY <2>1, <2>2, PassedTail
  <2> QED BY <2>3 DEF Passed
<1>3. Head(r.todo) = "time" => NotBegun(r)
  BY <1>1 DEF Passes
<1>4. r.arrived \in Nat /\ now \in Nat /\ r.places \in SUBSET Place
  BY DEF Request, TypeOK
<1>5. ASSUME r.sets \cap {"places", "date"} # {}, Head(r.todo) = "time",
             UTCDay(now) = UTCDay(r.arrived), r.row.date = UTCDay(r.arrived),
             NEW sl \in SlotsOf(r.places)
      PROVE  slot[sl].begins >= UTCHour(r.arrived)
  <2>1. slot[sl].begins >= UTCHour(now)
    BY <1>3, <1>5 DEF NotBegun
  <2>2. r.arrived <= now
    BY <1>5 DEF ClockHolds
  <2>3. UTCHour(r.arrived) <= UTCHour(now) /\ UTCHour(r.arrived) \in Int /\ UTCHour(now) \in Int
    BY <1>4, <1>5, <2>2, HoursPass, DayAndHour
  <2>4. slot[sl].begins \in Int
    BY <1>4 DEF SlotsOf, Place, TypeOK, SlotRow
  <2> QED BY <2>1, <2>3, <2>4
<1>6. /\ q.places = r.places /\ q.sets = r.sets /\ q.row = r.row /\ q.arrived = r.arrived
  BY <1>1 DEF SameRequest
<1>7. ClockHolds(q)
  BY <1>2, <1>5, <1>6 DEF ClockHolds
<1> QED BY <1>1, <1>7 DEF ClockHolds, UTCDay, UTCHour, LocalDay, SlotsOf, Passed

\* A request that names neither places nor a date does not look at the clock.
LEMMA NoClockToHold ==
    ASSUME NEW t \in Session, session'[t].sets = {}
    PROVE  ClockHolds(session[t])'
  BY DEF ClockHolds

\* A request that has just arrived has its check of the clock before it.
LEMMA ClockHoldsOnArrival ==
    ASSUME TypeOK, NEW s \in Session, now' = now, session'[s].arrived = now,
           "date" \in session'[s].sets => session'[s].row.date >= LocalDay(now),
           session'[s].sets \cap {"places", "date"} # {} => ~Passed(session'[s], "time")
    PROVE  ClockHolds(session[s])'
<1> PICK q : q = session'[s]
  OBVIOUS
<1>1. q.arrived <= now /\ q.arrived = now
  BY DEF TypeOK
<1>2. /\ "date" \in q.sets => q.row.date >= LocalDay(q.arrived)
      /\ q.sets \cap {"places", "date"} # {} => ~Passed(q, "time")
  BY <1>1
<1> QED BY <1>1, <1>2 DEF ClockHolds, LocalDay, UTCDay, UTCHour, SlotsOf, Passed

\* What check_booking_time_earlier_start_time_slot found stays true of the hour
\* the request arrived at.
THEOREM ClocksAreKept == Spec => []ClocksHold
<1>1. Init => ClocksHold
  BY DEF Init, ClocksHold, ClockHolds, NoRequest
<1>2. TypeOK /\ RequestsAreSound /\ ClocksHold /\ [Next]_vars => ClocksHold'
  <2> SUFFICES ASSUME TypeOK, RequestsAreSound, ClocksHold, [Next]_vars, NEW t \in Session
               PROVE  ClockHolds(session[t])'
    BY DEF ClocksHold
  <2>0. /\ ClockHolds(session[t]) /\ IsSound(session[t]) /\ session \in [Session -> Request]
        /\ now \in Nat
    BY DEF ClocksHold, RequestsAreSound, TypeOK
  <2>1. NoRequest.sets = {}
    BY DEF NoRequest
  <2>2. ASSUME session'[t] = session[t], now' \in Nat, now <= now', edited \subseteq edited',
               \A sl \in Slot \ edited' : slot'[sl] = slot[sl]
        PROVE  ClockHolds(session[t])'
    BY <2>0, <2>2, ClockHoldsStays DEF SameRequest
  <2>3. ASSUME session'[t] = session[t], UNCHANGED <<slot, edited, now>>
        PROVE  ClockHolds(session[t])'
    BY <2>0, <2>2, <2>3
  <2>4. ASSUME NEW s \in Session, NEW order \in Orders, Post(s, order)
        PROVE  ClockHolds(session[t])'
    <3>1. CASE t = s
      <4>1. /\ session'[s].todo = <<"tables", "slots", "time", "double", "cross", "seats">>
            /\ session'[s].row.date = order.date /\ session'[s].arrived = now /\ now' = now
        BY <2>4, PostEffect
      <4>2. 3 \in 1 .. Len(session'[s].todo) /\ session'[s].todo[3] = "time"
        BY <4>1
      <4>3. ~Passed(session'[s], "time")
        BY <4>2 DEF Passed
      <4>4. order.date >= LocalDay(now)
        BY <2>4 DEF Post, NotPast
      <4> QED BY <3>1, <4>1, <4>3, <4>4, ClockHoldsOnArrival
    <3>2. CASE t # s
      BY <2>3, <2>4, <3>2, PostEffect DEF history
    <3> QED BY <3>1, <3>2
  <2>5. ASSUME NEW s \in Session, NEW u \in User, NEW b \in BookingId, NEW edit \in Edits,
               Patch(s, u, b, edit)
        PROVE  ClockHolds(session[t])'
    <3>1. CASE t = s
      <4> PICK q : q = session'[s]
        OBVIOUS
      <4>1. /\ q.todo = ChecksOf(DOMAIN edit) /\ q.sets = DOMAIN edit
            /\ q.row = Overlay(booking[b], edit) /\ q.arrived = now /\ now' = now
        BY <2>5, PatchEffect
      <4>2. DOMAIN edit \in SUBSET Settable
        BY BodiesAssumption
      <4>3. q.sets \cap {"places", "date"} # {} => ~Passed(q, "time")
        BY <4>1, <4>2, ChecksOfNames
      <4>4. booking[b] \in Row /\ "date" \in DOMAIN booking[b]
        BY DEF TypeOK, Row
      <4>5. "date" \in DOMAIN edit => q.row.date = edit["date"]
        BY <4>1, <4>4, OverlayType
      <4>6. "date" \in q.sets => q.row.date >= LocalDay(now)
        BY <2>5, <4>1, <4>5 DEF Patch, NotPast
      <4> QED BY <3>1, <4>1, <4>3, <4>6, ClockHoldsOnArrival
    <3>2. CASE t # s
      BY <2>3, <2>5, <3>2, PatchEffect DEF history
    <3> QED BY <3>1, <3>2
  <2>6. ASSUME NEW s \in Session, Check(s) PROVE ClockHolds(session[t])'
    <3>1. CASE t = s
      BY <2>0, <2>6, <3>1, ClockCheckEstablishes
    <3>2. CASE t # s
      BY <2>0, <2>3, <2>6, <3>2 DEF Check, history
    <3> QED BY <3>1, <3>2
  <2>7. ASSUME NEW s \in Session, Refuse(s) PROVE ClockHolds(session[t])'
    <3>1. CASE t = s
      BY <2>0, <2>1, <2>7, <3>1, NoClockToHold DEF Refuse
    <3>2. CASE t # s
      BY <2>0, <2>3, <2>7, <3>2 DEF Refuse, history
    <3> QED BY <3>1, <3>2
  <2>8. ASSUME NEW s \in Session, NEW b \in BookingId, Answered(s, b),
               UNCHANGED <<slot, edited, now>>
        PROVE  ClockHolds(session[t])'
    <3>1. CASE t = s
      BY <2>0, <2>1, <2>8, <3>1, AnsweredEffect, NoClockToHold
    <3>2. CASE t # s
      <4>1. SameRequest(session'[t], session[t]) /\ session'[t].todo = session[t].todo
        BY <2>0, <2>8, <3>2, AnsweredEffect
      <4> QED BY <2>0, <2>8, <4>1, ClockHoldsStays
    <3> QED BY <3>1, <3>2
  <2>9. ASSUME NEW s \in Session, Create(s) \/ Update(s) PROVE ClockHolds(session[t])'
    <3>1. UNCHANGED <<slot, edited, now>>
      BY <2>9 DEF Create, Update
    <3>2. \E b \in BookingId : Answered(s, b)
      BY <2>9, CreateEffect, UpdateEffect
    <3> QED BY <2>8, <3>1, <3>2
  <2>10. CASE Catalog
    BY <2>0, <2>2, <2>10 DEF Catalog, CreateTable, UpdateTable, UpdateSlot, CatalogEdit, TypeOK
  <2>11. CASE Tick \/ UNCHANGED vars
    BY <2>0, <2>2, <2>11 DEF Tick, history, vars
  <2> QED BY <2>4, <2>5, <2>6, <2>7, <2>9, <2>10, <2>11 DEF Next, Arrives
<1> QED BY <1>1, <1>2, TypeCorrect, RequestsSound, PTL DEF Spec

\* A server that is not behind UTC has never a day before the day in UTC.
LEMMA LocalDayIsNotBehind ==
    ASSUME NEW at \in Int, Offset >= 0
    PROVE  UTCDay(at) <= LocalDay(at)
<1>1. at + Offset \in Int /\ at <= at + Offset
  BY TimeAssumption
<1> QED BY <1>1, DaysPass DEF LocalDay, UTCDay

\* No request puts a booking into a slot that had begun when it arrived, but for
\* the holes of the check of the clock that PlacesAreAhead names, whatever the
\* hours, the offset of the server and the time zones of the slots.
THEOREM PlacesAreAheadOrExcused == Spec => PlacesAreAhead
<1>1. TypeOK /\ ClocksHold /\ [Next]_vars =>
        [\A s \in Session : Commits(s) /\ session[s].sets \cap {"places", "date"} # {} =>
           LET r == session[s]
               today == UTCDay(r.arrived)
           IN \/ UTCDay(now) # today
              \/ r.row.date < today /\ ("date" \in r.sets => Offset < 0)
              \/ \A sl \in SlotsOf(r.places) :
                   \/ sl \in edited
                   \/ r.row.date > today /\ slot[sl].begins < 0
                   \/ StartOf(r.row.date, sl) >= r.arrived]_vars
  <2> SUFFICES ASSUME TypeOK, ClocksHold, NEW s \in Session, Commits(s),
                      session[s].sets \cap {"places", "date"} # {}
               PROVE  LET r == session[s]
                          today == UTCDay(r.arrived)
                      IN \/ UTCDay(now) # today
                         \/ r.row.date < today /\ ("date" \in r.sets => Offset < 0)
                         \/ \A sl \in SlotsOf(r.places) :
                              \/ sl \in edited
                              \/ r.row.date > today /\ slot[sl].begins < 0
                              \/ StartOf(r.row.date, sl) >= r.arrived
    OBVIOUS
  <2> PICK r \in Request : r = session[s]
    BY DEF TypeOK
  <2> DEFINE today == UTCDay(r.arrived)
  <2>1. /\ r.arrived \in Nat /\ r.row.date \in Nat /\ r.places \in SUBSET Place
        /\ today \in Int /\ UTCHour(r.arrived) \in Int
        /\ r.arrived = today * HoursPerDay + UTCHour(r.arrived)
        /\ UTCHour(r.arrived) < HoursPerDay /\ HoursPerDay \in Nat
    <3>1. r.arrived \in Nat /\ r.row.date \in Nat /\ r.places \in SUBSET Place
      BY DEF Request, Row
    <3>2. /\ today \in Int /\ UTCHour(r.arrived) \in 0 .. HoursPerDay - 1
          /\ r.arrived = today * HoursPerDay + UTCHour(r.arrived)
      BY <3>1, DayAndHour
    <3>3. HoursPerDay \in Nat
      BY TimeAssumption
    <3>4. UTCHour(r.arrived) \in Int /\ UTCHour(r.arrived) < HoursPerDay
      BY <3>2, <3>3
    <3> QED BY <3>1, <3>2, <3>3, <3>4
  <2>2. /\ "date" \in r.sets => r.row.date >= LocalDay(r.arrived)
        /\ UTCDay(now) = today /\ r.row.date = today
             => \A sl \in SlotsOf(r.places) :
                  sl \in edited \/ slot[sl].begins >= UTCHour(r.arrived)
    <3>1. ClockHolds(r) /\ Passed(r, "time")
      BY DEF ClocksHold, Commits, Passed
    <3> QED BY <3>1 DEF ClockHolds
  <2>3. ASSUME NEW sl \in SlotsOf(r.places) PROVE slot[sl].begins \in Int
    BY <2>1 DEF SlotsOf, Place, TypeOK, SlotRow
  <2>4. CASE r.row.date < today
    <3>1. ASSUME "date" \in r.sets PROVE Offset < 0
      <4> SUFFICES ASSUME Offset >= 0 PROVE FALSE
        BY TimeAssumption
      <4>1. today <= LocalDay(r.arrived)
        BY <2>1, LocalDayIsNotBehind
      <4>2. r.row.date >= LocalDay(r.arrived) /\ LocalDay(r.arrived) \in Int
        BY <2>1, <2>2, <3>1, TimeAssumption DEF LocalDay
      <4> QED BY <2>1, <2>4, <4>1, <4>2
    <3> QED BY <2>4, <3>1
  <2>5. CASE r.row.date = today
    <3>1. ASSUME UTCDay(now) = today, NEW sl \in SlotsOf(r.places), sl \notin edited
          PROVE  StartOf(r.row.date, sl) >= r.arrived
      <4>1. slot[sl].begins >= UTCHour(r.arrived) /\ slot[sl].begins \in Int
        BY <2>2, <2>3, <2>5, <3>1
      <4> DEFINE n == today * HoursPerDay
      <4>2. n \in Int /\ StartOf(r.row.date, sl) = n + slot[sl].begins
            /\ r.arrived = n + UTCHour(r.arrived)
        BY <2>1, <2>5 DEF StartOf
      <4> HIDE DEF n
      <4> QED BY <2>1, <4>1, <4>2
    <3> QED BY <3>1
  <2>6. CASE r.row.date > today
    <3>1. ASSUME NEW sl \in SlotsOf(r.places), slot[sl].begins >= 0
          PROVE  StartOf(r.row.date, sl) >= r.arrived
      <4> DEFINE n == today * HoursPerDay
                 m == r.row.date * HoursPerDay
      <4>1. n \in Int /\ m \in Int /\ m >= n + HoursPerDay
        BY <2>1, <2>6, LaterDayStarts
      <4>2. /\ StartOf(r.row.date, sl) = m + slot[sl].begins
            /\ r.arrived = n + UTCHour(r.arrived)
        BY <2>1 DEF StartOf
      <4> HIDE DEF n, m
      <4> QED BY <2>1, <2>3, <3>1, <4>1, <4>2
    <3> QED BY <2>3, <2>6, <3>1
  <2> QED BY <2>1, <2>4, <2>5, <2>6
<1> QED BY <1>1, TypeCorrect, ClocksAreKept, PTL DEF Spec, PlacesAreAhead

=============================================================================
