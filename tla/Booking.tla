------------------------------ MODULE Booking ------------------------------
(***************************************************************************)
(* POST /booking and PATCH /booking/{id} of one cafe: requests that check  *)
(* the bookings, tables and slots statement by statement, each statement   *)
(* reading what is committed at that moment (PostgreSQL, READ COMMITTED,   *)
(* no locks taken by the checks), and then write and commit.               *)
(*                                                                         *)
(* The flush that precedes a COMMIT writes values fixed when the request   *)
(* loaded the booking, so flush and COMMIT are one step here; the locks    *)
(* the flush takes on the rows, and the notifications written in the same  *)
(* transaction, are the subject of Notifications.                          *)
(*                                                                         *)
(* Tables and slots belong to one cafe.  Slots of several cafes differ for *)
(* the checks only in their hours, which may overlap here as well.         *)
(*                                                                         *)
(* A definition marked "mutant" takes no part in the specification: it is  *)
(* a plausible mistake in the definition after it, which a run must catch. *)
(***************************************************************************)
EXTENDS Integers, Sequences, Functions

CONSTANTS
    User,           \* who sends requests
    RoleOf,         \* User -> "USER", "MANAGER" (of this cafe), "OUTSIDER"
                    \* (manager of another one) or "ADMIN"
    Table, Slot,
    FirstSlots,     \* the slots a run may start with: functions from Slot to rows
    Slots,          \* the rows the staff may give a slot: hours and is_active
    HoursPerDay,
    Offset,         \* the server's local time minus UTC, in hours
    FirstTables,    \* the rows a table may start with
    Tables,         \* the rows the staff may give a table: seats and is_active
    Session,        \* requests in flight at once
    Orders,         \* the POST bodies under study
    Edits,          \* the PATCH bodies under study
    FirstHour,      \* bound: the hour the run starts at
    LastHour,       \* bound: the hour it ends at
    MaxBookings,    \* bound: bookings
    MaxRequests,    \* bound: requests
    MaxTableEdits   \* bound: changes of tables and slots by the staff

BookingId == 1 .. MaxBookings
Place == Table \X Slot
StatusBooking == {"BOOKING", "CANCELED", "ACTIVE", "COMPLETED"}
Frozen == {"ACTIVE", "COMPLETED"}

\* Instants are hours; a date is the number of its day.  The time zones make
\* the day the server calls today differ from the day in UTC.
UTCDay(at) == at \div HoursPerDay
UTCHour(at) == at % HoursPerDay
LocalDay(at) == (at + Offset) \div HoursPerDay
\* A table that is yet to be created answers every check like an inactive one.
TableRow == [seats : Nat, active : BOOLEAN]
NoTable == [seats |-> 0, active |-> FALSE]

\* The hours of a slot: UTC, relative to the start of the date.
SlotRow == [begins : Int, ends : Int, active : BOOLEAN]

Row == [user : User, date : Nat, guests : Nat,
        status : StatusBooking \cup {"ABSENT"}, active : BOOLEAN]

\* A PATCH body names the fields it sets (exclude_unset).
Settable == {"places", "date", "guests", "status", "active"}

ASSUME TimeAssumption ==
    /\ HoursPerDay \in Nat \ {0} /\ Offset \in Int
    /\ FirstHour \in Nat /\ LastHour \in Nat
ASSUME BodiesAssumption ==
    /\ \A order \in Orders : /\ order.user \in User /\ order.date \in Nat
                             /\ order.guests \in Nat \ {0}
                             /\ order.places \in (SUBSET Place) \ {{}}
    /\ \A edit \in Edits :
         /\ DOMAIN edit \subseteq Settable
         /\ "places" \in DOMAIN edit => edit.places \in (SUBSET Place) \ {{}}
         /\ "date" \in DOMAIN edit => edit.date \in Nat
         /\ "guests" \in DOMAIN edit => edit.guests \in Nat \ {0}
         /\ "status" \in DOMAIN edit => edit.status \in StatusBooking
         /\ "active" \in DOMAIN edit => edit.active \in BOOLEAN
ASSUME CatalogAssumption ==
    /\ Tables \cup FirstTables \subseteq TableRow /\ FirstTables # {}
    /\ \A t \in Tables : t.seats > 0
    /\ User # {} /\ RoleOf \in [User -> {"USER", "MANAGER", "OUTSIDER", "ADMIN"}]
    /\ Slots \subseteq SlotRow /\ FirstSlots \subseteq [Slot -> SlotRow]
ASSUME BoundsAssumption ==
    MaxBookings \in Nat /\ MaxRequests \in Nat /\ MaxTableEdits \in Nat

VARIABLES
    booking,    \* BookingId -> committed row
    links,      \* BookingId -> its active table-slot links
    retired,    \* BookingId -> places of its deactivated links
    table,      \* Table -> seats and is_active
    slot,       \* Slot -> hours and is_active
    session,    \* Session -> the request in flight
    now,        \* the hour
    requests, tableEdits,   \* counters
    \* History, read by no action:
    raced,      \* pairs of bookings whose requests overlapped in time
    skewed,     \* bookings changed by overlapping requests
    unchecked,  \* bookings moved or revived without a check of their places
    edited      \* tables and slots changed by the staff

vars == <<booking, links, retired, table, slot, session, now, requests,
          tableEdits, raced, skewed, unchecked, edited>>
history == <<raced, skewed, unchecked, edited>>

----------------------------------------------------------------------------
\* Bookings and their places

\* A link remembers the request that inserted it: rows of several requests
\* may name the same place.
Link == [by : Nat, place : Place]

Exists(b) == booking[b].status # "ABSENT"
Live(b) == Exists(b) /\ booking[b].status # "CANCELED" /\ booking[b].active
Held(b) == {l.place : l \in links[b]}
SlotsOf(places) == {p[2] : p \in places}
TablesOf(places) == {p[1] : p \in places}
StartOf(date, sl) == date * HoursPerDay + slot[sl].begins
Overlap(x, y) == slot[x].begins < slot[y].ends /\ slot[y].begins < slot[x].ends
SeatsAt(places) == SumFunction([t \in TablesOf(places) |-> table[t].seats])

\* Both conflict checks join a booking with all its links, deactivated or not.
Joined(b) == Held(b) \cup retired[b]

----------------------------------------------------------------------------
\* Requests

Checks == {"tables", "slots", "time", "double", "cross", "seats", "role"}

Request == [kind    : {"none", "POST", "PATCH"},
            user    : User \cup {"nobody"},
            id      : BookingId \cup {0},   \* the booking of a PATCH
            row     : Row,                  \* the booking as it is to become
            places  : SUBSET Place,         \* the places it is to have
            sets    : SUBSET Settable,      \* the fields the body names
            changes : SUBSET Settable,      \* the columns the flush writes
            loaded  : SUBSET Link,          \* the active links it has read
            todo    : Seq(Checks),
            number  : Nat,
            arrived : Nat,
            blind   : SUBSET BookingId]     \* committed by others meanwhile

Busy(s) == session[s].kind # "none"

OverlayWithPlaces(row, body) ==                                    \* mutant
    [f \in DOMAIN row \cup DOMAIN body |-> IF f \in DOMAIN body THEN body[f] ELSE row[f]]
Overlay(row, body) ==
    [f \in DOMAIN row |-> IF f \in DOMAIN body THEN body[f] ELSE row[f]]

Blank == [user |-> CHOOSE u \in User : TRUE, date |-> 0, guests |-> 0,
          status |-> "ABSENT", active |-> FALSE]

NoRequest == [kind |-> "none", user |-> "nobody", id |-> 0, row |-> Blank,
              places |-> {}, sets |-> {}, changes |-> {}, loaded |-> {},
              todo |-> <<>>, number |-> 0, arrived |-> 0, blind |-> {}]

\* The schemas refuse a date before date.today(), the server's local day.
NotPast(date) == date >= LocalDay(now)

\* create_booking_with_notifications: its checks, in their order.
Post(s, order) ==
    /\ ~Busy(s) /\ requests < MaxRequests
    /\ NotPast(order.date)
    /\ requests' = requests + 1
    /\ session' = [session EXCEPT ![s] =
         [NoRequest EXCEPT
            !.kind = "POST", !.user = order.user,
            !.row = [user |-> order.user, date |-> order.date, guests |-> order.guests,
                     status |-> "BOOKING", active |-> TRUE],
            !.places = order.places,
            !.sets = {"places", "date", "guests"},
            !.todo = <<"tables", "slots", "time", "double", "cross", "seats">>,
            !.number = requests + 1, !.arrived = now]]
    /\ UNCHANGED <<booking, links, retired, table, slot, now, tableEdits, history>>

\* The checks of update_booking_with_notifications that a body asks for.
When(condition, checks) == IF condition THEN checks ELSE <<>>
ChecksOfPlacesOnly(fields) ==                                      \* mutant
    When("places" \in fields, <<"tables", "slots", "double", "cross">>)
    \o When(fields \cap {"places", "date"} # {}, <<"time">>)
    \o When("places" \in fields, <<"seats">>)
    \o <<"role">>
ChecksOfNoDouble(fields) ==                                        \* mutant
    When("places" \in fields, <<"tables", "slots", "cross">>)
    \o When(fields \cap {"places", "date"} # {}, <<"time">>)
    \o When(fields \cap {"places", "guests"} # {}, <<"seats">>)
    \o <<"role">>

ChecksOf(fields) ==
    When("places" \in fields, <<"tables", "slots", "double", "cross">>)
    \o When(fields \cap {"places", "date"} # {}, <<"time">>)
    \o When(fields \cap {"places", "guests"} # {}, <<"seats">>)
    \o <<"role">>

MayPatchAnyStatus(u, b, edit) ==                                   \* mutant
    /\ Exists(b)
    /\ u = booking[b].user \/ RoleOf[u] \in {"MANAGER", "ADMIN"}
    /\ booking[b].active \/ RoleOf[u] # "USER"
    /\ "active" \in DOMAIN edit /\ ~edit.active => DOMAIN edit = {"active"}

\* get_booking_or_raise, check_user_permission, check_booking_status, the
\* refusal of a deactivated booking to a USER, check_only_is_active_changes.
MayPatch(u, b, edit) ==
    /\ Exists(b)
    /\ u = booking[b].user \/ RoleOf[u] \in {"MANAGER", "ADMIN"}
    /\ booking[b].status \notin Frozen
    /\ booking[b].active \/ RoleOf[u] # "USER"
    /\ "active" \in DOMAIN edit /\ ~edit.active => DOMAIN edit = {"active"}

Patch(s, u, b, edit) ==
    /\ ~Busy(s) /\ requests < MaxRequests
    /\ "date" \in DOMAIN edit => NotPast(edit.date)
    /\ MayPatch(u, b, edit)
    /\ requests' = requests + 1
    /\ session' = [session EXCEPT ![s] =
         [NoRequest EXCEPT
            !.kind = "PATCH", !.user = u, !.id = b,
            !.row = Overlay(booking[b], edit),
            !.places = IF "places" \in DOMAIN edit THEN edit.places ELSE Held(b),
            !.sets = DOMAIN edit,
            !.changes = {f \in DOMAIN edit \ {"places"} : edit[f] # booking[b][f]},
            !.loaded = links[b],
            !.todo = ChecksOf(DOMAIN edit),
            !.number = requests + 1, !.arrived = now]]
    /\ UNCHANGED <<booking, links, retired, table, slot, now, tableEdits, history>>

----------------------------------------------------------------------------
\* The checks, each one SELECT (or none) over what is committed

OthersAwaited(r) ==                                                \* mutant
    {b \in BookingId : /\ booking[b].status = "BOOKING" /\ booking[b].active
                       /\ b # r.id /\ booking[b].date = r.row.date}
Others(r) == {b \in BookingId : Live(b) /\ b # r.id /\ booking[b].date = r.row.date}

TablesExist(r) == \A t \in TablesOf(r.places) : table[t].active
SlotsExist(r) == \A sl \in SlotsOf(r.places) : slot[sl].active

\* Only today's date, in UTC, is compared with the clock.
NotEnded(r) ==                                                     \* mutant
    r.row.date = UTCDay(now) => \A sl \in SlotsOf(r.places) : slot[sl].ends >= UTCHour(now)
NotBegun(r) ==
    r.row.date = UTCDay(now) => \A sl \in SlotsOf(r.places) : slot[sl].begins >= UTCHour(now)

NoDouble(r) == \A b \in Others(r) : Joined(b) \cap r.places = {}

NoLaterCross(r) ==                                                 \* mutant
    \A b \in Others(r) : booking[b].user = r.row.user =>
        \A x \in SlotsOf(Joined(b)), y \in SlotsOf(r.places) :
            ~(slot[x].begins <= slot[y].begins /\ slot[y].begins < slot[x].ends)
NoCross(r) ==
    \A b \in Others(r) : booking[b].user = r.row.user =>
        \A x \in SlotsOf(Joined(b)), y \in SlotsOf(r.places) : ~Overlap(x, y)

SeatsSuffice(r) == r.row.guests <= SeatsAt(r.places)
RoleAllows(r) == "active" \in r.sets => RoleOf[r.user] # "USER"

Passes(r, check) ==
    /\ check = "tables" => TablesExist(r)
    /\ check = "slots" => SlotsExist(r)
    /\ check = "time" => NotBegun(r)
    /\ check = "double" => NoDouble(r)
    /\ check = "cross" => NoCross(r)
    /\ check = "seats" => SeatsSuffice(r)
    /\ check = "role" => RoleAllows(r)

Check(s) ==
    /\ Busy(s) /\ session[s].todo # <<>>
    /\ Passes(session[s], Head(session[s].todo))
    /\ session' = [session EXCEPT ![s].todo = Tail(@)]
    /\ UNCHANGED <<booking, links, retired, table, slot, now, requests, tableEdits, history>>

\* An APIError: 400 or 404, nothing is written.
Refuse(s) ==
    /\ Busy(s) /\ session[s].todo # <<>>
    /\ ~Passes(session[s], Head(session[s].todo))
    /\ session' = [session EXCEPT ![s] = NoRequest]
    /\ UNCHANGED <<booking, links, retired, table, slot, now, requests, tableEdits, history>>

----------------------------------------------------------------------------
\* The writes and the COMMIT

NewLinks(r) == {[by |-> r.number, place |-> p] : p \in r.places}

\* The request of s is over; the others have not seen what it wrote to b.
Answered(s, b) ==
    session' = [u \in Session |->
        IF u = s THEN NoRequest
        ELSE IF Busy(u) THEN [session[u] EXCEPT !.blind = @ \cup {b}]
        ELSE session[u]]

Ready(s, kind) == session[s].kind = kind /\ session[s].todo = <<>>

\* booking_crud.create
Create(s) ==
    LET r == session[s]
    IN /\ Ready(s, "POST")
       /\ \E b \in BookingId :
            /\ ~Exists(b) /\ \A c \in BookingId : c < b => Exists(c)
            /\ booking' = [booking EXCEPT ![b] = r.row]
            /\ links' = [links EXCEPT ![b] = NewLinks(r)]
            /\ Answered(s, b)
            /\ raced' = raced \cup {{b, c} : c \in r.blind}
       /\ UNCHANGED <<retired, table, slot, now, requests, tableEdits,
                      skewed, unchecked, edited>>

\* booking_crud.update: setattr overlays the loaded row and only the columns
\* that differ from it are written; the loaded links are deactivated.
Written(r) == [f \in DOMAIN r.row |->
                 IF f \in r.changes THEN r.row[f] ELSE booking[r.id][f]]

LinksPiledUp(r) == links[r.id] \cup NewLinks(r)                     \* mutant
LinksAfter(r) == (links[r.id] \ r.loaded) \cup NewLinks(r)

\* It comes to life, or to another date, and nobody looks at its places.
Moves(r) == /\ "places" \notin r.sets
            /\ Written(r).status # "CANCELED" /\ Written(r).active
            /\ ~Live(r.id) \/ Written(r).date # booking[r.id].date

Update(s) ==
    LET r == session[s]
        replaces == "places" \in r.sets
        overlapped == r.id \in r.blind
    IN /\ Ready(s, "PATCH")
       /\ booking' = [booking EXCEPT ![r.id] = Written(r)]
       /\ links' = [links EXCEPT ![r.id] = IF replaces THEN LinksAfter(r) ELSE @]
       /\ retired' = [retired EXCEPT ![r.id] =
                        IF replaces THEN @ \cup {l.place : l \in r.loaded} ELSE @]
       /\ Answered(s, r.id)
       /\ raced' = {pair \in raced : replaces => r.id \notin pair}
                     \cup {{r.id, c} : c \in r.blind \ {r.id}}
       /\ skewed' = IF overlapped THEN skewed \cup {r.id}
                    ELSE IF replaces THEN skewed \ {r.id} ELSE skewed
       /\ unchecked' = IF Moves(r) THEN unchecked \cup {r.id}
                       ELSE IF replaces THEN unchecked \ {r.id} ELSE unchecked
       /\ UNCHANGED <<table, slot, now, requests, tableEdits, edited>>

----------------------------------------------------------------------------
\* The staff edit tables and slots meanwhile; time passes.

CatalogEdit(x) ==
    /\ tableEdits < MaxTableEdits
    /\ tableEdits' = tableEdits + 1
    /\ edited' = edited \cup {x}
    /\ UNCHANGED <<booking, links, retired, session, now, requests,
                   raced, skewed, unchecked>>

\* POST /cafe/{id}/tables: is_active takes its default.
CreateTable(t, row) ==
    /\ table[t] = NoTable /\ row.active
    /\ table' = [table EXCEPT ![t] = row]
    /\ CatalogEdit(t) /\ UNCHANGED slot

UpdateTable(t, row) ==
    /\ table[t] # NoTable /\ row # table[t]
    /\ table' = [table EXCEPT ![t] = row]
    /\ CatalogEdit(t) /\ UNCHANGED slot

\* Nothing looks at the bookings of the slot.
UpdateSlot(sl, row) ==
    /\ row # slot[sl]
    /\ slot' = [slot EXCEPT ![sl] = row]
    /\ CatalogEdit(sl) /\ UNCHANGED table

Tick ==
    /\ now < LastHour
    /\ now' = now + 1
    /\ UNCHANGED <<booking, links, retired, table, slot, session, requests,
                   tableEdits, history>>

----------------------------------------------------------------------------

Init ==
    /\ booking = [b \in BookingId |-> Blank]
    /\ links = [b \in BookingId |-> {}]
    /\ retired = [b \in BookingId |-> {}]
    /\ table \in [Table -> FirstTables]
    /\ slot \in FirstSlots
    /\ session = [s \in Session |-> NoRequest]
    /\ now = FirstHour
    /\ requests = 0 /\ tableEdits = 0
    /\ raced = {} /\ skewed = {} /\ unchecked = {} /\ edited = {}

Arrives(s) ==
    \/ \E order \in Orders : Post(s, order)
    \/ \E u \in User, b \in BookingId, edit \in Edits : Patch(s, u, b, edit)

Catalog ==
    \/ \E t \in Table, row \in Tables : CreateTable(t, row) \/ UpdateTable(t, row)
    \/ \E sl \in Slot, row \in Slots : UpdateSlot(sl, row)

Next ==
    \/ \E s \in Session : Arrives(s) \/ Check(s) \/ Refuse(s) \/ Create(s) \/ Update(s)
    \/ Catalog
    \/ Tick

Spec == Init /\ [][Next]_vars

----------------------------------------------------------------------------
\* Properties

\* Bookings, links, requests and the history keep their shape.
TypeOK ==
    /\ booking \in [BookingId -> Row]
    /\ links \in [BookingId -> SUBSET Link]
    /\ retired \in [BookingId -> SUBSET Place]
    /\ table \in [Table -> Tables \cup FirstTables]
    /\ slot \in [Slot -> SlotRow]
    /\ session \in [Session -> Request]
    /\ \A s \in Session : session[s].kind = "PATCH" => session[s].id \in BookingId
    /\ now \in Nat /\ requests \in 0 .. MaxRequests /\ tableEdits \in 0 .. MaxTableEdits
    /\ raced \subseteq SUBSET BookingId
    /\ skewed \subseteq BookingId /\ unchecked \subseteq BookingId
    /\ edited \subseteq Table \cup Slot

Excused(b, c) == {b, c} \in raced \/ {b, c} \cap (skewed \cup unchecked) # {}

\* Two live bookings share a table and slot of one date only if their requests
\* overlapped in time or one of them was moved or revived by a PATCH that the
\* code does not check: check_double_booking_exsist leaves no other hole.
DoublesAreExcused ==
    \A b, c \in BookingId :
        /\ b # c /\ Live(b) /\ Live(c) /\ booking[b].date = booking[c].date
        /\ Held(b) \cap Held(c) # {}
        => Excused(b, c)

\* The same of one user's bookings whose slots overlap
\* (check_user_have_same_slot), or the staff moved one of the slots.
CrossingsAreExcused ==
    \A b, c \in BookingId :
        /\ b # c /\ Live(b) /\ Live(c) /\ booking[b].date = booking[c].date
        /\ booking[b].user = booking[c].user
        /\ \E x \in SlotsOf(Held(b)), y \in SlotsOf(Held(c)) : Overlap(x, y)
        => Excused(b, c) \/ SlotsOf(Held(b) \cup Held(c)) \cap edited # {}

\* More guests than seats only if PATCHes of the booking overlapped or the
\* staff changed one of its tables.
CrowdsAreExcused ==
    \A b \in BookingId : Exists(b) =>
        \/ booking[b].guests <= SeatsAt(Held(b))
        \/ b \in skewed
        \/ TablesOf(Held(b)) \cap edited # {}

\* A booking never loses all its places, however PATCHes of its tables
\* overlap, and they are the places of one request unless they do.
PlacesOfOneRequest ==
    \A b \in BookingId : Exists(b) =>
        /\ links[b] # {}
        /\ b \in skewed \/ \A l, m \in links[b] : l.by = m.by

\* An ACTIVE or COMPLETED booking changes only by a request that read it
\* before it became so.
FrozenChangesAreLate ==
    [][\A b \in BookingId :
         /\ booking[b].status \in Frozen
         /\ booking'[b] # booking[b] \/ links'[b] # links[b]
         => \E s \in Session : /\ session[s].id = b /\ b \in session[s].blind
                               /\ session'[s] = NoRequest]_vars

\* s commits in this step.
Commits(s) == Busy(s) /\ session[s].todo = <<>> /\ session'[s] = NoRequest

\* No request puts a booking into a slot that had begun when it arrived,
\* whether it names the places, the date or both. The holes are those of
\* check_booking_time_earlier_start_time_slot (services/booking.py:162), which
\* compares the hours of today's date only: midnight (UTC) passes before it;
\* the date is past already, being the booking's own or, on a server behind
\* UTC, still its today; the staff move the slot; or the time zone puts the
\* slot's first hours on the day before its date.
PlacesAreAhead ==
    [][\A s \in Session : Commits(s) /\ session[s].sets \cap {"places", "date"} # {} =>
         LET r == session[s]
             today == UTCDay(r.arrived)
         IN \/ UTCDay(now) # today
            \/ r.row.date < today /\ ("date" \in r.sets => Offset < 0)
            \/ \A sl \in SlotsOf(r.places) :
                 \/ sl \in edited
                 \/ r.row.date > today /\ slot[sl].begins < 0
                 \/ StartOf(r.row.date, sl) >= r.arrived]_vars

----------------------------------------------------------------------------
\* What the code says of itself, and does not keep.

\* services/booking.py:98 and :117: a place is not booked a second time.
PlacesAreExclusive ==
    \A b, c \in BookingId :
        b # c /\ Live(b) /\ Live(c) /\ booking[b].date = booking[c].date
            => Held(b) \cap Held(c) = {}
=============================================================================
