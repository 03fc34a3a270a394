------------------------------ MODULE MCStaff ------------------------------
(* Instances of Staff for TLC: an administrator and two users of any role,   *)
(* two cafes and a third that is yet to be created.                          *)
EXTENDS Staff, TLC

CONSTANTS here, there, future, red, blue, green

Admin == [role |-> "ADMIN", cafe |-> "none"]
Guest == [role |-> "USER", cafe |-> "none"]
ManagerOf(c) == [role |-> "MANAGER", cafe |-> c]

Charts == {<<Admin, second, third>> :
             second \in {Guest, ManagerOf("none"), ManagerOf(here)},
             third \in {Admin, ManagerOf(here), ManagerOf(there)}}
TwoCafes == [c \in Cafe |-> CASE c = here -> red [] c = there -> blue [] OTHER -> "none"]

AnyPatch == {[managers |-> {2}], [managers |-> {3}], [managers |-> {2, 3}],
             [managers |-> {3}, name |-> green], [name |-> blue]}
AnyPost == {[managers |-> {2, 3}, name |-> green]}
AnyRole == {"USER", "ADMIN", "MANAGER"}
=============================================================================
