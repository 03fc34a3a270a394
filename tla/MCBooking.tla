----------------------------- MODULE MCBooking -----------------------------
(* Instances of Booking for TLC: a guest, a manager, two tables, two slots  *)
(* that overlap.                                                            *)
EXTENDS Booking, TLC

CONSTANTS ann, boss, round, bar, am, noon

Roles == [u \in User |-> IF u = boss THEN "MANAGER" ELSE "USER"]

\* am lasts the hours 0 and 1 of the day, noon the hours 1 and 2.
Am == [begins |-> 0, ends |-> 2, active |-> TRUE]
Noon == [begins |-> 1, ends |-> 3, active |-> TRUE]
Evening == [begins |-> 2, ends |-> 3, active |-> TRUE]
\* The first hours of a night east of UTC are on the UTC day before its date.
Night == [begins |-> -2, ends |-> 1, active |-> TRUE]
AmClosed == [Am EXCEPT !.active = FALSE]
Crossing == [sl \in Slot |-> IF sl = am THEN Am ELSE Noon]
Apart == [sl \in Slot |-> IF sl = am THEN Am ELSE Evening]
NightShift == [sl \in Slot |-> IF sl = am THEN Am ELSE Night]
Opens == {Crossing}
JustNightShift == {NightShift}
CrossingOrApart == {Crossing, Apart}

Two == [seats |-> 2, active |-> TRUE]
Three == [seats |-> 3, active |-> TRUE]
Broken == [seats |-> 2, active |-> FALSE]
Sizes == {Two}
ThreeOrBroken == {Three, Broken}
ThreeOrNone == {Three, NoTable}
LaterOrClosed == {Noon, AmClosed}
JustNoon == {Noon}

Order(u, date, places) == [user |-> u, date |-> date, guests |-> 2, places |-> places]
AnnToday == Order(ann, 0, {<<round, am>>})
AnnAtNoon == Order(ann, 0, {<<bar, noon>>})
BossToday == Order(boss, 0, {<<round, am>>})
BossTomorrow == Order(boss, 1, {<<round, am>>})
AnnAtBoth == Order(ann, 0, {<<round, am>>, <<bar, am>>})
AnnTomorrow == Order(ann, 1, {<<round, noon>>})

ToBar == [places |-> {<<bar, am>>}]
ToRound == [places |-> {<<round, am>>}]
ToBoth == [places |-> {<<round, am>>, <<bar, am>>}]
ToBarTomorrow == [places |-> {<<bar, am>>}, date |-> 1]
Today == [date |-> 0]
Tomorrow == [date |-> 1]
Crowd == [guests |-> 4]
Cancel == [status |-> "CANCELED"]
Seat == [status |-> "ACTIVE"]
Hide == [active |-> FALSE]
Show == [active |-> TRUE]

TodaysOrders == {AnnToday, AnnAtNoon, BossToday}
SameTable == {AnnToday, BossToday}
TodayOrTomorrow == {AnnToday, BossTomorrow}
SeatsOrders == {AnnToday, AnnAtBoth, AnnTomorrow}
SeatsEdits == {Crowd, ToBar, ToBoth, Seat}
NoRows == {}
JustTomorrow == {Tomorrow}
AnyEdit == {ToBar, Tomorrow, Cancel, Seat, Hide, Show}

Interchangeable == Permutations(Session)
=============================================================================
