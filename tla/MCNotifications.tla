-------------------------- MODULE MCNotifications --------------------------
(* Instances of Notifications for TLC. *)
EXTENDS Notifications, TLC

Keep == [status |-> "unset", reminder |-> "unset", touch |-> FALSE]

\* A PATCH that changes nothing in the booking row: an empty body, or one that
\* names only tables_slots.  It takes no lock of the row.
Nothing == Keep
Cancel == [Keep EXCEPT !.status = "CANCELED"]

NothingOrCancel == {Nothing, Cancel}
JustCancel == {Cancel}
NoRequests == {}

On == {"on"}
Off == {"off"}

AllRows == NoteId

InCharge == {Managers}
AnyStaff == SUBSET Managers

Interchangeable == Permutations(Session) \cup Permutations(Task) \cup Permutations(Managers)
=============================================================================
