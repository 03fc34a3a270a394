------------------------------ MODULE Catalog ------------------------------
(***************************************************************************)
(* The catalog: POST and PATCH of dishes and actions (promotions), each    *)
(* with a unique name and the cafes that have it, and of slots, with their *)
(* hours.  All of them go through CRUDBase.update: the row read at the     *)
(* start is overlaid with the body, and the flush writes what differs from *)
(* what was read, first the row, then the links to remove, then the links  *)
(* to add.  A unique violation ends a request with a rollback and a 400.   *)
(*                                                                         *)
(* A definition marked "mutant" takes no part in the specification: it is  *)
(* a plausible mistake in the definition after it, which a run must catch. *)
(***************************************************************************)
EXTENDS Integers, FiniteSets

CONSTANTS
    Dish,           \* ids of dishes, or of actions, in the table or yet to be
    Slot,           \* ids of slots
    Cafe, Name, Hour,
    Home,           \* Slot -> the cafe in the URL of a slot
    Actor,          \* administrators and managers
    Manages,        \* Actor -> cafes: all, the manager's own, or none
    Session,        \* requests in flight at once
    FirstDishes,    \* Dish -> row at the start
    FirstLinks,     \* functions from Dish to cafes: what may be linked at the start
    FirstSlots,     \* Slot -> row at the start
    NewDishes, DishPatches, NewSlots, SlotPatches,      \* bodies
    MaxRequests     \* bound: requests

DishRow == [known : BOOLEAN, name : Name \cup {"none"}, active : BOOLEAN]
SlotRow == [known : BOOLEAN, start : Hour, end : Hour]

Fields == {"name", "active", "cafes", "start", "end"}
KeyColumns == {"name", "start", "end"}

IsBody(body) ==
    /\ DOMAIN body \subseteq Fields
    /\ "name" \in DOMAIN body => body.name \in Name
    /\ "active" \in DOMAIN body => body.active \in BOOLEAN
    /\ "cafes" \in DOMAIN body => body.cafes \in (SUBSET Cafe) \ {{}}
    /\ "start" \in DOMAIN body => body.start \in Hour
    /\ "end" \in DOMAIN body => body.end \in Hour

\* What the unique constraints compare: a name, or the cafe and hours of a slot.
Key(row) == [f \in KeyColumns \cap DOMAIN row |-> row[f]]
Peers(x) == IF x \in Dish THEN Dish \ {x} ELSE {y \in Slot \ {x} : Home[y] = Home[x]}

ASSUME CatalogAssumption ==
    /\ "none" \notin Name /\ Dish \cap Slot = {} /\ Hour \subseteq Nat
    /\ Home \in [Slot -> Cafe] /\ Manages \in [Actor -> SUBSET Cafe]
    /\ FirstDishes \in [Dish -> DishRow] /\ FirstLinks \subseteq [Dish -> SUBSET Cafe]
    /\ FirstSlots \in [Slot -> SlotRow]
    /\ \A links \in FirstLinks, d \in Dish : FirstDishes[d].known \/ links[d] = {}
    /\ \A x \in Slot : FirstSlots[x].known => FirstSlots[x].start < FirstSlots[x].end
    /\ \A d \in Dish : \A e \in Peers(d) :
         FirstDishes[d].known => FirstDishes[d].name # FirstDishes[e].name
    /\ \A x \in Slot : \A y \in Peers(x) :
         FirstSlots[x].known /\ FirstSlots[y].known
             => Key(FirstSlots[x]) # Key(FirstSlots[y])
ASSUME CatalogBodies ==
    /\ \A body \in NewDishes \cup DishPatches \cup NewSlots \cup SlotPatches : IsBody(body)
    /\ \A body \in NewDishes : "name" \in DOMAIN body
    /\ \A body \in NewSlots : {"start", "end"} \subseteq DOMAIN body
ASSUME CatalogBounds == MaxRequests \in Nat

VARIABLES
    row,        \* Dish and Slot -> committed row
    link,       \* Dish -> cafes, the committed rows of cafe_dishes or cafe_actions
    session,    \* Session -> the request in flight
    requests,   \* counter
    asked,      \* history: Dish -> the cafes the last request that named them asked for
    excused     \* history: rows last set with one end of a slot, or over a change not seen

vars == <<row, link, session, requests, asked, excused>>

----------------------------------------------------------------------------
\* Requests

NoRequest == [step |-> "none", actor |-> "nobody", target |-> "nothing",
              body |-> [f \in {} |-> FALSE], seen |-> [known |-> FALSE],
              cafes |-> {}, wrote |-> [f \in {} |-> FALSE], done |-> {},
              cut |-> {}, shares |-> FALSE, blind |-> {}]

IsRequest(r) ==
    /\ DOMAIN r = DOMAIN NoRequest
    /\ r.step \in {"none", "cafes", "row", "links", "share"}
    /\ r.actor \in Actor \cup {"nobody"} /\ r.target \in Dish \cup Slot \cup {"nothing"}
    /\ IsBody(r.body)
    /\ r.seen \in DishRow \cup SlotRow \cup {[known |-> FALSE]}  \* the row as read
    /\ r.cafes \subseteq Cafe                \* the links as read
    /\ DOMAIN r.wrote \subseteq Fields \cup {"known"}       \* flushed columns
    /\ r.done \subseteq Cafe                 \* DELETEs and INSERTs of links executed
    /\ r.cut \subseteq Cafe                  \* those of the DELETEs that met a row
    /\ r.shares \in BOOLEAN                  \* a lock of the dish for its foreign key
    /\ r.blind \subseteq {"row", "links"}    \* committed by others since it was read

Busy(s) == session[s].step # "none"
At(s, step) == session[s].step = step
Names(r, field) == field \in DOMAIN r.body

Goes(s, r) == session' = [session EXCEPT ![s] = r]

Held(s) == [session[s] EXCEPT !.step = "none"]                     \* mutant
Ended(s) == NoRequest
Ends(s) == Goes(s, Ended(s))

\* ensure_manager_cafes_access, ensure_manager_cafe_access
MayManage(a, cafes) == cafes \subseteq Manages[a]
NewCafes(body, current) == IF "cafes" \in DOMAIN body THEN body.cafes ELSE current

AnyOrder(body) == TRUE                                             \* mutant
InOrder(body) == {"start", "end"} \subseteq DOMAIN body => body.start < body.end

Arrives(s, r) ==
    /\ ~Busy(s) /\ requests < MaxRequests
    /\ requests' = requests + 1
    /\ Goes(s, r)
    /\ UNCHANGED <<row, link, asked, excused>>

Begins(s, a, x, body, step) ==
    Arrives(s, [NoRequest EXCEPT !.step = step, !.actor = a, !.target = x, !.body = body,
                                 !.seen = row[x],
                                 !.cafes = IF x \in Dish THEN link[x] ELSE {}])

\* A new row has an id nobody else has.
Fresh(x) == ~row[x].known /\ \A t \in Session : session[t].target # x

PostDish(s, a, d, body) ==
    /\ Fresh(d) /\ MayManage(a, NewCafes(body, {}))
    /\ Begins(s, a, d, body, "row")

NewOnly(a, current, body) == MayManage(a, NewCafes(body, current))  \* mutant
MayUpdate(a, current, body) ==
    MayManage(a, current) /\ MayManage(a, NewCafes(body, current))

PatchDish(s, a, d, body) ==
    /\ row[d].known /\ MayUpdate(a, link[d], body)
    /\ Begins(s, a, d, body, "cafes")

PostSlot(s, a, x, body) ==
    /\ Fresh(x) /\ MayManage(a, {Home[x]}) /\ InOrder(body)
    /\ Begins(s, a, x, body, "row")

PatchSlot(s, a, x, body) ==
    /\ row[x].known /\ MayManage(a, {Home[x]}) /\ InOrder(body)
    /\ Begins(s, a, x, body, "row")

\* ensure_cafes_exist reads each cafe with populate_existing, its dishes with
\* it: the columns of the dish are read again where one of them still has it,
\* its list of cafes is not.
CheckCafes(s) ==
    /\ At(s, "cafes")
    /\ LET r == [session[s] EXCEPT !.step = "row"] IN
       Goes(s, IF NewCafes(r.body, r.cafes) \cap link[r.target] = {} THEN r
               ELSE [r EXCEPT !.seen = row[r.target], !.blind = @ \ {"row"}])
    /\ UNCHANGED <<row, link, requests, asked, excused>>

----------------------------------------------------------------------------
\* The flush

Overlay(old, columns) ==
    [f \in DOMAIN old |-> IF f \in DOMAIN columns THEN columns[f] ELSE old[f]]

Default == [known |-> TRUE, active |-> TRUE]

NamedColumns(r) ==                                                 \* mutant
    [f \in DOMAIN r.body \ {"cafes"} |-> r.body[f]]
\* The columns of an UPDATE are those that differ from what was read.
AllColumns(r) == Overlay(r.seen, r.body)                           \* mutant
Columns(r) ==
    LET named == DOMAIN r.body \ {"cafes"} IN
    IF r.seen.known
    THEN [f \in {f \in named : r.body[f] # r.seen[f]} |-> r.body[f]]
    ELSE [f \in DOMAIN r.seen |-> IF f \in named THEN r.body[f] ELSE Default[f]]

Added(r) == IF Names(r, "cafes") THEN r.body.cafes \ r.cafes ELSE {}
NoneRemoved(r) == {}                                               \* mutant
Removed(r) == IF Names(r, "cafes") THEN r.cafes \ r.body.cafes ELSE {}

Tied(r) == r.done \cap Added(r)
KeyChange(columns) == DOMAIN columns \cap KeyColumns # {}

Others(s, targets) == {t \in Session \ {s} : session[t].target \in targets}

\* Whom the UPDATE of the row waits for: an UPDATE of the same row, a foreign
\* key's lock if the unique column changes, an uncommitted row of the same key.
RowBlockers(s) ==
    LET r == session[s]
        columns == Columns(r)
        key == Key(Overlay(row[r.target], columns))
    IN  {t \in Others(s, {r.target}) :
           \/ DOMAIN session[t].wrote # {}
           \/ session[t].shares /\ KeyChange(columns)}
        \cup
        {t \in Others(s, Peers(r.target)) : LET o == session[t] IN
           /\ KeyChange(columns) /\ KeyChange(o.wrote)
           /\ \/ Key(Overlay(row[o.target], o.wrote)) = key
              \/ row[o.target].known /\ Key(row[o.target]) = key}

Taken(r) ==
    /\ KeyChange(Columns(r))
    /\ \E y \in Peers(r.target) :
         row[y].known /\ Key(row[y]) = Key(Overlay(row[r.target], Columns(r)))

WriteRow(s) ==
    /\ At(s, "row")
    /\ DOMAIN Columns(session[s]) # {} => RowBlockers(s) = {} /\ ~Taken(session[s])
    /\ Goes(s, [session[s] EXCEPT !.step = "links", !.wrote = Columns(session[s])])
    /\ UNCHANGED <<row, link, requests, asked, excused>>

\* The IntegrityError of either statement is a rollback and a BadRequestError;
\* the clauses of crud/dish.py and crud/action.py that would name the constraint
\* are never reached.
RowConflict(s) ==
    /\ At(s, "row") /\ RowBlockers(s) = {} /\ Taken(session[s])
    /\ Ends(s)
    /\ UNCHANGED <<row, link, requests, asked, excused>>

UnlinkBlockers(s, c) == {t \in Others(s, {session[s].target}) : c \in session[t].cut}
LinkBlockers(s, c) ==
    {t \in Others(s, {session[s].target}) : c \in session[t].cut \cup Tied(session[t])}
ShareBlockers(s) ==
    {t \in Others(s, {session[s].target}) : KeyChange(session[t].wrote)}

ToUnlink(s) == IF At(s, "links") THEN Removed(session[s]) \ session[s].done ELSE {}
ToLink(s) ==
    IF At(s, "links") /\ ToUnlink(s) = {} THEN Added(session[s]) \ session[s].done ELSE {}

\* A DELETE that finds no row is no error: asyncpg does not count the rows.
Unlink(s) ==
    /\ \E c \in ToUnlink(s) :
         /\ UnlinkBlockers(s, c) = {}
         /\ Goes(s, [session[s] EXCEPT !.done = @ \cup {c},
                                       !.cut = @ \cup ({c} \cap link[session[s].target])])
    /\ UNCHANGED <<row, link, requests, asked, excused>>

Link(s) ==
    /\ \E c \in ToLink(s) :
         /\ c \notin link[session[s].target] /\ LinkBlockers(s, c) = {}
         /\ Goes(s, [session[s] EXCEPT !.done = @ \cup {c}, !.step = "share"])
    /\ UNCHANGED <<row, link, requests, asked, excused>>

LinkConflict(s) ==
    /\ \E c \in ToLink(s) : c \in link[session[s].target] /\ LinkBlockers(s, c) = {}
    /\ Ends(s)
    /\ UNCHANGED <<row, link, requests, asked, excused>>

\* The foreign key of the new link locks the dish against a change of its key.
Share(s) ==
    /\ At(s, "share") /\ ShareBlockers(s) = {}
    /\ Goes(s, [session[s] EXCEPT !.step = "links", !.shares = TRUE])
    /\ UNCHANGED <<row, link, requests, asked, excused>>

Waits(s, t) ==
    \/ At(s, "row") /\ DOMAIN Columns(session[s]) # {} /\ t \in RowBlockers(s)
    \/ \E c \in ToUnlink(s) : t \in UnlinkBlockers(s, c)
    \/ \E c \in ToLink(s) : t \in LinkBlockers(s, c)
    \/ At(s, "share") /\ t \in ShareBlockers(s)

\* PostgreSQL ends one of those who wait for one another: a 500 and a rollback.
InCircle(s) ==
    \E ring \in SUBSET Session :
        s \in ring /\ \A t \in ring : \E u \in ring : Waits(t, u)
DeadlockAbort(s) ==
    /\ InCircle(s)
    /\ Ends(s)
    /\ UNCHANGED <<row, link, requests, asked, excused>>

----------------------------------------------------------------------------
\* COMMIT

Changes(r) == (IF DOMAIN r.wrote # {} THEN {"row"} ELSE {})
              \cup (IF r.cut \cup Tied(r) # {} THEN {"links"} ELSE {})

Unseen(r, target, changes) ==
    IF r.target = target THEN [r EXCEPT !.blind = @ \cup changes] ELSE r

\* History: the request sets a dish's cafes, or hours; over a change not seen, or
\* one of two hours.
Hours(r) == {"start", "end"} \cap DOMAIN r.body
Settles(r) == IF r.target \in Slot THEN Hours(r) # {} ELSE Names(r, "cafes")
OneEnd(r) == Cardinality(Hours(r)) = 1
Unsure(r) == IF r.target \in Slot THEN OneEnd(r) \/ "row" \in r.blind
             ELSE "links" \in r.blind

Commit(s) ==
    LET r == session[s]
        x == r.target
    IN
    /\ At(s, "links") /\ Removed(r) \cup Added(r) \subseteq r.done
    /\ row' = [row EXCEPT ![x] = Overlay(@, r.wrote)]
    /\ link' = IF x \in Dish THEN [link EXCEPT ![x] = (@ \ r.cut) \cup Tied(r)] ELSE link
    /\ session' = [t \in Session |->
                     IF t = s THEN NoRequest ELSE Unseen(session[t], x, Changes(r))]
    /\ asked' = IF x \in Dish /\ Names(r, "cafes")
                THEN [asked EXCEPT ![x] = r.body.cafes] ELSE asked
    /\ excused' = IF ~Settles(r) THEN excused
                  ELSE IF Unsure(r) THEN excused \cup {x} ELSE excused \ {x}
    /\ UNCHANGED requests

----------------------------------------------------------------------------
Init ==
    /\ row = [x \in Dish \cup Slot |-> IF x \in Dish THEN FirstDishes[x] ELSE FirstSlots[x]]
    /\ link \in FirstLinks
    /\ session = [s \in Session |-> NoRequest]
    /\ requests = 0
    /\ asked = link
    /\ excused = {}

Arrive(s) ==
    \E a \in Actor :
        \/ \E d \in Dish : \/ \E body \in NewDishes : PostDish(s, a, d, body)
                           \/ \E body \in DishPatches : PatchDish(s, a, d, body)
        \/ \E x \in Slot : \/ \E body \in NewSlots : PostSlot(s, a, x, body)
                           \/ \E body \in SlotPatches : PatchSlot(s, a, x, body)

Proceed(s) ==
    \/ CheckCafes(s) \/ WriteRow(s) \/ RowConflict(s)
    \/ Unlink(s) \/ Link(s) \/ LinkConflict(s) \/ Share(s)
    \/ DeadlockAbort(s) \/ Commit(s)

Next == \E s \in Session : Arrive(s) \/ Proceed(s)

Spec == Init /\ [][Next]_vars

\* A request that was let in goes on; nothing forces one to arrive.
FairSpec == Spec /\ \A s \in Session : WF_vars(Proceed(s))

----------------------------------------------------------------------------
\* Properties

TypeOK ==
    /\ row \in [Dish \cup Slot -> DishRow \cup SlotRow]
    /\ \A d \in Dish : row[d] \in DishRow
    /\ \A x \in Slot : row[x] \in SlotRow
    /\ link \in [Dish -> SUBSET Cafe] /\ asked \in [Dish -> SUBSET Cafe]
    /\ \A d \in Dish : row[d].known \/ link[d] = {}
    /\ DOMAIN session = Session /\ \A s \in Session : IsRequest(session[s])
    /\ requests \in 0..MaxRequests
    /\ excused \subseteq Dish \cup Slot

\* The cafes of a dish are those the last PATCH or POST that named them asked
\* for, not a mixture of two requests, unless that request overlapped with
\* another change of the same dish's cafes (crud/base.py:271-282: the flush
\* removes and adds relative to the list that was read).
MenusOfOneRequest == \A d \in Dish : d \notin excused => link[d] = asked[d]

\* A slot begins before it ends, unless its hours were last set one at a time
\* or over a change not seen: validate_times compares what the body has, and a
\* column that looks unchanged is not written.
SlotsHaveLength ==
    \A x \in Slot : row[x].known /\ x \notin excused => row[x].start < row[x].end

\* A manager's PATCH takes effect on a dish of another cafe only if the dish
\* was moved there while the request was in flight (services/dish.py:51-54).
ManagersKeepToTheirCafe ==
    [][\A s \in Session : Commit(s) =>
         LET r == session[s] IN
         r.target \in Dish /\ "links" \notin r.blind
             => link[r.target] \cup link'[r.target] \subseteq Manages[r.actor]]_vars

\* What a PATCH named is in the row after its COMMIT, and what it did not name
\* is as it was, whatever others committed, unless it found its own value there
\* already when it read and another request has changed it since.
ColumnsTakeEffect ==
    [][\A s \in Session : Commit(s) =>
         LET r == session[s] IN
         \A f \in DOMAIN row[r.target] \ {"known"} :
           IF Names(r, f)
           THEN \/ row'[r.target][f] = r.body[f]
                \/ r.seen[f] = r.body[f] /\ "row" \in r.blind
           ELSE row[r.target].known => row'[r.target][f] = row[r.target][f]]_vars

\* Every request is answered, whatever it waits for.
EveryEditEnds == \A s \in Session : Busy(s) ~> ~Busy(s)
=============================================================================
