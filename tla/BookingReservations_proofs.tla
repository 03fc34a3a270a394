--------------------- MODULE BookingReservations_proofs ---------------------
(***************************************************************************)
(* Proofs that the code keeps the promise of Reservations: in every        *)
(* behaviour in which no two requests overlap and no PATCH moves or        *)
(* revives a booking unchecked, and so wherever one request is answered at *)
(* a time and PATCHes that move or revive name the tables.                 *)
(***************************************************************************)
EXTENDS BookingReservations, Booking_proofs

----------------------------------------------------------------------------
\* Who owns a table and slot of a date

OwnerIsHolder ==
    \A x \in Cell : /\ HolderOf(x) = {} => Owner[x] = 0
                    /\ \A b \in HolderOf(x) : Owner[x] = b /\ HolderOf(x) = {b}

LEMMA OwnersHold == PlacesAreExclusive => OwnerIsHolder
<1> SUFFICES ASSUME PlacesAreExclusive, NEW x \in Cell
             PROVE  /\ HolderOf(x) = {} => Owner[x] = 0
                    /\ \A b \in HolderOf(x) : Owner[x] = b /\ HolderOf(x) = {b}
  BY DEF OwnerIsHolder
<1>1. \A b, c \in HolderOf(x) : b = c
  BY DEF PlacesAreExclusive, HolderOf
<1>2. HolderOf(x) # {} => Owner[x] \in HolderOf(x)
  BY DEF Owner
<1>3. HolderOf(x) = {} => Owner[x] = 0
  BY DEF Owner
<1> QED BY <1>1, <1>2, <1>3

\* A step that changes one booking trades what it holds, if in neither state two
\* bookings hold the same.
LEMMA OneBookingTrades ==
    ASSUME OwnerIsHolder, OwnerIsHolder', NEW d \in BookingId,
           \A c \in BookingId \ {d} : booking'[c] = booking[c] /\ links'[c] = links[c]
    PROVE  Promise!Next
<1> PICK wanted : wanted = {x \in Cell : d \in HolderOf(x)'}
  OBVIOUS
<1>1. \A x \in Cell, c \in BookingId \ {d} : c \in HolderOf(x)' <=> c \in HolderOf(x)
  BY DEF HolderOf, Live, Exists, Held
<1>2. \A x : HolderOf(x) \subseteq BookingId /\ HolderOf(x)' \subseteq BookingId
  BY DEF HolderOf
<1>3. \A x \in Cell : /\ HolderOf(x) = {} => Owner[x] = 0
                      /\ \A b \in HolderOf(x) : Owner[x] = b /\ HolderOf(x) = {b}
  BY DEF OwnerIsHolder
<1>4. \A x \in Cell : /\ HolderOf(x)' = {} => Owner'[x] = 0
                      /\ \A b \in HolderOf(x)' : Owner'[x] = b /\ HolderOf(x)' = {b}
  BY DEF OwnerIsHolder
<1>5. \A x \in wanted : Owner[x] \in {0, d}
  BY <1>1, <1>2, <1>3, <1>4
<1>6. ASSUME NEW x \in Cell
      PROVE  Owner'[x] = IF x \in wanted THEN d ELSE IF Owner[x] = d THEN 0 ELSE Owner[x]
  <2>1. CASE x \in wanted
    BY <1>4, <2>1
  <2>2. CASE x \notin wanted /\ HolderOf(x) \subseteq {d}
    <3>1. HolderOf(x)' = {}
      BY <1>1, <1>2, <2>2
    <3> QED BY <1>3, <1>4, <2>2, <3>1
  <2>3. CASE x \notin wanted /\ ~(HolderOf(x) \subseteq {d})
    <3> PICK c \in HolderOf(x) : c # d
      BY <2>3
    <3>1. c \in HolderOf(x)'
      BY <1>1, <1>2
    <3> QED BY <1>3, <1>4, <2>3, <3>1
  <2> QED BY <2>1, <2>2, <2>3
<1>7. Owner' = [x \in Cell |-> IF x \in wanted THEN d ELSE IF Owner[x] = d THEN 0 ELSE Owner[x]]
  <2>1. DOMAIN Owner' = Cell /\ Owner' = [x \in Cell |-> Owner'[x]]
    BY DEF Owner
  <2> QED BY <1>6, <2>1
<1>8. Promise!Move(d, wanted)
  BY <1>5, <1>7 DEF Promise!Move
<1>9. wanted \in SUBSET Cell
  OBVIOUS
<1> QED BY <1>8, <1>9 DEF Promise!Next

\* Exclusive places are all the promise needs: one booking changes at a time.
LEMMA ExclusiveStepsTrade ==
    TypeOK /\ RequestsAreSound /\ OwnerIsHolder /\ OwnerIsHolder' /\ [Next]_vars
      => [Promise!Next]_Owner
<1> SUFFICES ASSUME TypeOK, RequestsAreSound, OwnerIsHolder, OwnerIsHolder', [Next]_vars
             PROVE  [Promise!Next]_Owner
  OBVIOUS
<1>1. CASE Quiet
  <2>1. booking' = booking /\ links' = links
    BY <1>1 DEF Quiet
  <2>2. Owner' = Owner
    BY <2>1 DEF Owner, HolderOf, Live, Exists, Held
  <2> QED BY <2>2
<1>2. ASSUME NEW s \in Session, Create(s) \/ Update(s) PROVE Promise!Next
  <2> PICK d \in BookingId : OthersStay(d)
    BY <1>2, CommitOutcome
  <2>1. \A c \in BookingId \ {d} : booking'[c] = booking[c] /\ links'[c] = links[c]
    BY DEF OthersStay
  <2> QED BY <2>1, OneBookingTrades
<1> QED BY <1>1, <1>2, CommitOrQuiet

LEMMA NobodyOwnsAtFirst == Init => Promise!Init
<1> SUFFICES ASSUME Init PROVE Promise!Init
  OBVIOUS
<1>1. \A x : HolderOf(x) = {}
  BY BlankType DEF Init, HolderOf, Live, Exists, Blank
<1> QED BY <1>1 DEF Promise!Init, Owner

LEMMA ExclusivePlacesKeepThePromise == Spec /\ []PlacesAreExclusive => KeepsThePromise
  BY OwnersHold, ExclusiveStepsTrade, NobodyOwnsAtFirst, TypeCorrect, RequestsSound, PTL
  DEF Spec, KeepsThePromise, Promise!Spec

----------------------------------------------------------------------------
\* What nothing excuses does not happen

\* No two requests have overlapped, none has changed what another had read, and
\* no PATCH has moved or revived a booking without a check of its tables.
Undisturbed == raced = {} /\ skewed = {} /\ unchecked = {}

LEMMA UndisturbedIsExclusive == DoublesAreExcused /\ Undisturbed => PlacesAreExclusive
  BY DEF DoublesAreExcused, Undisturbed, PlacesAreExclusive, Excused

\* Any number of requests, any bodies: wherever create_booking and
\* update_booking run undisturbed, a table and slot change hands only through
\* being free.
THEOREM UndisturbedRequestsKeepThePromise == Spec /\ []Undisturbed => KeepsThePromise
  BY DoublesHaveExcuses, UndisturbedIsExclusive, ExclusivePlacesKeepThePromise, PTL

----------------------------------------------------------------------------
\* One request at a time, and moves that name their tables

\* A request that has missed nothing; and without tables in its body it can only
\* take its booking away.
IsTame(r) ==
    /\ r.blind = {}
    /\ r.kind = "PATCH" /\ "places" \notin r.sets =>
         /\ "date" \notin r.changes
         /\ "status" \in r.changes => r.row.status = "CANCELED"
         /\ "active" \in r.changes => ~r.row.active

RequestsAreTame == \A s \in Session : IsTame(session[s])

LEMMA TameIsChecked ==
    ASSUME NEW r \in Request, r.kind = "PATCH", r.id \in BookingId, booking[r.id] \in Row,
           IsSound(r), IsTame(r), "places" \notin r.sets
    PROVE  ~Moves(r)
<1>1. /\ Written(r).date = booking[r.id].date
      /\ Written(r).status = IF "status" \in r.changes THEN "CANCELED"
                             ELSE booking[r.id].status
      /\ Written(r).active = IF "active" \in r.changes THEN r.row.active
                             ELSE booking[r.id].active
  BY WrittenType DEF IsTame
<1>2. Exists(r.id)
  BY DEF IsSound
<1> QED BY <1>1, <1>2 DEF Moves, Live, IsTame

LEMMA TameStep ==
    ASSUME OneAtATime, MovesNameTables, TypeOK, RequestsAreSound, RequestsAreTame, Undisturbed,
           [Next]_vars
    PROVE  RequestsAreTame' /\ Undisturbed'
<1>1. IsTame(NoRequest)
  BY DEF IsTame, NoRequest
<1>2. ASSUME NEW s \in Session, NEW order \in Orders, Post(s, order)
      PROVE  RequestsAreTame' /\ Undisturbed'
  <2>1. IsTame(session'[s]) /\ \A t \in Session \ {s} : session'[t] = session[t]
    BY <1>2, PostEffect DEF IsTame
  <2>2. Undisturbed'
    BY <1>2 DEF Post, history, Undisturbed
  <2> QED BY <2>1, <2>2 DEF RequestsAreTame, IsTame
<1>3. ASSUME NEW s \in Session, NEW u \in User, NEW b \in BookingId, NEW edit \in Edits,
             Patch(s, u, b, edit)
      PROVE  RequestsAreTame' /\ Undisturbed'
  <2> PICK r : r = session'[s]
    OBVIOUS
  <2>1. /\ r.sets = DOMAIN edit /\ r.row = Overlay(booking[b], edit) /\ r.blind = {}
        /\ r.changes \subseteq DOMAIN edit
        /\ \A t \in Session \ {s} : session'[t] = session[t]
    BY <1>3, PatchEffect
  <2>2. booking[b] \in Row /\ DOMAIN booking[b] = Columns
    BY DEF TypeOK, Row, Columns
  <2>3. \A f \in DOMAIN edit \cap Columns : r.row[f] = edit[f]
    BY <2>1, <2>2, OverlayType
  <2>4. "places" \notin DOMAIN edit =>
          /\ "date" \notin DOMAIN edit
          /\ "status" \in DOMAIN edit => edit.status = "CANCELED"
          /\ "active" \in DOMAIN edit => ~edit.active
    BY DEF MovesNameTables
  <2>5. IsTame(r)
    BY <2>1, <2>3, <2>4 DEF IsTame, Columns
  <2>6. Undisturbed'
    BY <1>3 DEF Patch, history, Undisturbed
  <2> QED BY <2>1, <2>5, <2>6 DEF RequestsAreTame, IsTame
<1>4. ASSUME NEW s \in Session, Check(s) PROVE RequestsAreTame' /\ Undisturbed'
  <2>1. \A t \in Session : /\ SameRequest(session'[t], session[t])
                          /\ session'[t].blind = session[t].blind
    BY <1>4, CheckEffect DEF TypeOK
  <2>2. Undisturbed'
    BY <1>4 DEF Check, history, Undisturbed
  <2> QED BY <2>1, <2>2 DEF RequestsAreTame, IsTame, SameRequest
<1>5. ASSUME NEW s \in Session, Refuse(s) PROVE RequestsAreTame' /\ Undisturbed'
  BY <1>1, <1>5 DEF Refuse, history, Undisturbed, RequestsAreTame, IsTame, TypeOK
<1>6. ASSUME NEW s \in Session, NEW b \in BookingId, Answered(s, b) PROVE RequestsAreTame'
  BY <1>1, <1>6, AnsweredEffect DEF TypeOK, OneAtATime, RequestsAreTame, IsTame
<1>7. ASSUME NEW s \in Session, Create(s) PROVE RequestsAreTame' /\ Undisturbed'
  <2> PICK b \in BookingId : /\ Answered(s, b)
                             /\ raced' = raced \cup {{b, c} : c \in session[s].blind}
                             /\ UNCHANGED <<skewed, unchecked>>
    BY <1>7, CreateEffect
  <2>1. session[s].blind = {}
    BY DEF RequestsAreTame, IsTame
  <2> QED BY <1>6, <2>1 DEF Undisturbed
<1>8. ASSUME NEW s \in Session, Update(s) PROVE RequestsAreTame' /\ Undisturbed'
  <2> PICK r : r = session[s]
    OBVIOUS
  <2>1. r \in Request /\ r.kind = "PATCH" /\ r.id \in BookingId /\ Answered(s, r.id)
    BY <1>8, UpdateEffect
  <2>2. IsSound(r) /\ IsTame(r) /\ booking[r.id] \in Row
    BY <2>1 DEF RequestsAreSound, RequestsAreTame, TypeOK
  <2>3. "places" \notin r.sets => ~Moves(r)
    BY <2>1, <2>2, TameIsChecked
  <2>4. ~Moves(r)
    BY <2>3 DEF Moves
  <2>5. /\ raced' = {pair \in raced : "places" \in r.sets => r.id \notin pair}
                      \cup {{r.id, c} : c \in r.blind \ {r.id}}
        /\ skewed' = IF r.id \in r.blind THEN skewed \cup {r.id}
                     ELSE IF "places" \in r.sets THEN skewed \ {r.id} ELSE skewed
        /\ unchecked' = IF Moves(r) THEN unchecked \cup {r.id}
                        ELSE IF "places" \in r.sets THEN unchecked \ {r.id} ELSE unchecked
    BY <1>8 DEF Update
  <2>6. r.blind = {}
    BY <2>2 DEF IsTame
  <2>7. Undisturbed'
    BY <2>4, <2>5, <2>6 DEF Undisturbed
  <2> QED BY <1>6, <2>1, <2>7
<1>9. CASE Catalog
  BY <1>9 DEF Catalog, CreateTable, UpdateTable, UpdateSlot, CatalogEdit, RequestsAreTame,
              IsTame, Undisturbed
<1>10. CASE Tick \/ UNCHANGED vars
  BY <1>10 DEF Tick, history, vars, RequestsAreTame, IsTame, Undisturbed
<1> QED BY <1>2, <1>3, <1>4, <1>5, <1>7, <1>8, <1>9, <1>10 DEF Next, Arrives

\* One request at a time, and PATCHes that name the tables whenever they move or
\* revive a booking: Booking implements Reservations.
THEOREM SerialRequestsKeepThePromise ==
    OneAtATime /\ MovesNameTables => (Spec => KeepsThePromise)
<1> SUFFICES ASSUME OneAtATime, MovesNameTables PROVE Spec => KeepsThePromise
  OBVIOUS
<1>1. Init => RequestsAreTame /\ Undisturbed
  BY DEF Init, RequestsAreTame, IsTame, Undisturbed, NoRequest
<1>2. TypeOK /\ RequestsAreSound /\ RequestsAreTame /\ Undisturbed /\ [Next]_vars
        => RequestsAreTame' /\ Undisturbed'
  BY TameStep
<1> QED BY <1>1, <1>2, TypeCorrect, RequestsSound, UndisturbedRequestsKeepThePromise, PTL
        DEF Spec
=============================================================================
