----------------------- MODULE MCBookingReservations ------------------------
(* BookingReservations for TLC, with the instances of MCBooking. *)
EXTENDS MCBooking, BookingReservations

CheckedEdits == {ToBar, ToRound, ToBoth, ToBarTomorrow, Crowd, Cancel, Hide}

ASSUME InstanceAssumption == OneAtATime /\ MovesNameTables
=============================================================================
