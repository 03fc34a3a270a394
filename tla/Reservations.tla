--------------------------- MODULE Reservations ----------------------------
(***************************************************************************)
(* What the booking service promises about tables: at any moment a table   *)
(* and slot of a date belong to at most one booking, and one booking takes *)
(* them from another only after the other has let them go.                 *)
(***************************************************************************)
CONSTANTS Bookings,   \* ids, none of which is Nobody
          Cells,      \* table, slot and date
          Nobody

VARIABLE owner        \* Cells -> Bookings or Nobody

Init == owner = [x \in Cells |-> Nobody]

\* b trades all it holds for the cells it wants, each free or its own.
Move(b, wanted) ==
    /\ \A x \in wanted : owner[x] \in {Nobody, b}
    /\ owner' = [x \in Cells |-> IF x \in wanted THEN b
                                 ELSE IF owner[x] = b THEN Nobody
                                 ELSE owner[x]]

Next == \E b \in Bookings, wanted \in SUBSET Cells : Move(b, wanted)

Spec == Init /\ [][Next]_owner
=============================================================================
