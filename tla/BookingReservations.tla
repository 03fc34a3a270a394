------------------------ MODULE BookingReservations ------------------------
(***************************************************************************)
(* One request at a time, and no PATCH that moves or revives a booking     *)
(* without naming its tables: then the code keeps its promise.             *)
(***************************************************************************)
EXTENDS Booking

CONSTANT Dates

\* What the code keeps its promise for.
OneAtATime == \A s, t \in Session : s = t

\* A PATCH that names no tables names no date either, and may take its
\* booking away but not bring it back: the code looks at the tables only if
\* the body names them.
MovesNameTables ==
    \A edit \in Edits : "places" \notin DOMAIN edit =>
        /\ "date" \notin DOMAIN edit
        /\ "status" \in DOMAIN edit => edit.status = "CANCELED"
        /\ "active" \in DOMAIN edit => ~edit.active

Cell == Dates \X Place

HolderOf(x) ==
    {b \in BookingId : Live(b) /\ booking[b].date = x[1] /\ x[2] \in Held(b)}

Owner == [x \in Cell |-> IF HolderOf(x) = {} THEN 0 ELSE CHOOSE b \in HolderOf(x) : TRUE]

Promise == INSTANCE Reservations WITH
             Bookings <- BookingId, Cells <- Cell, Nobody <- 0, owner <- Owner

\* A table and slot change hands only through being free: every request of
\* create_booking and update_booking is one trade of Reservations, or refused.
KeepsThePromise == Promise!Spec
=============================================================================
