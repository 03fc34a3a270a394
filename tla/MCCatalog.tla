----------------------------- MODULE MCCatalog -----------------------------
(* Instances of Catalog for TLC: an administrator and a manager of c1, a dish *)
(* of both cafes and one that is yet to be, and two slots of c1.             *)
EXTENDS Catalog, TLC

CONSTANTS boss, kim, d1, d2, x1, x2, c1, c2, n1, n2

AllOrOwn == boss :> {c1, c2} @@ kim :> {c1}
InC1 == x1 :> c1 @@ x2 :> c1
OneDish == d1 :> [known |-> TRUE, name |-> n1, active |-> TRUE]
           @@ d2 :> [known |-> FALSE, name |-> "none", active |-> FALSE]
OneOrBoth == {d1 :> cafes @@ d2 :> {} : cafes \in {{c1}, {c1, c2}}}
OneSlot == x1 :> [known |-> TRUE, start |-> 1, end |-> 3]
           @@ x2 :> [known |-> FALSE, start |-> 0, end |-> 0]

Dishes == {[name |-> n1, cafes |-> {c1}], [name |-> n2]}
AnyDishPatch == {[name |-> n2], [active |-> FALSE], [cafes |-> {c2}],
                 [name |-> n2, cafes |-> {c2}], [cafes |-> {c1, c2}],
                 [name |-> n1, active |-> TRUE, cafes |-> {c1}]}
Slots == {[start |-> 1, end |-> 3], [start |-> 1, end |-> 2]}
AnySlotPatch == {[start |-> 1, end |-> 2], [start |-> 2, end |-> 3],
                 [start |-> 3], [end |-> 2], [start |-> 3, end |-> 2],
                 [f \in {} |-> 0]}     \* the last names no hour
=============================================================================
