--------------------------- MODULE Catalog_proofs ---------------------------
(***************************************************************************)
(* Proofs about Catalog, for every set of dishes, slots, cafes and actors, *)
(* every body and any number of requests at once.                          *)
(*                                                                         *)
(* A request reads its row and links at the start and writes what differs  *)
(* from them.  The invariant IsSound says what of the reading still holds: *)
(* the row unless "row" is in "blind", the links unless "links" is, and of *)
(* a POST that nobody else has its id.  The rest follows from what         *)
(* Columns, Removed and Added make of such a reading.                      *)
(***************************************************************************)
EXTENDS Catalog, FiniteSetTheorems, TLAPS

\* What the request has read, and may rely on.
ReadingIsSound(r) ==
    /\ r.seen \in (IF r.target \in Dish THEN DishRow ELSE SlotRow)
    /\ "row" \in r.blind \/ r.seen = row[r.target]
    /\ r.seen.known <=> row[r.target].known
    /\ r.target \in Dish => "links" \in r.blind \/ r.cafes = link[r.target]
    /\ r.target \in Slot => r.cafes = {}

\* What was asked of the body before the request was let in.
BodyIsSound(r) ==
    /\ r.target \in Dish =>
         /\ r.cafes \cup NewCafes(r.body, r.cafes) \subseteq Manages[r.actor]
         /\ ~r.seen.known => Names(r, "name")
    /\ r.target \in Slot =>
         /\ InOrder(r.body)
         /\ ~r.seen.known => Hours(r) = {"start", "end"}

\* How far the flush has come.
FlushIsSound(r) ==
    /\ r.step = "cafes" => r.target \in Dish /\ r.seen.known
    /\ r.step \in {"cafes", "row"} => DOMAIN r.wrote = {} /\ r.done = {}
    /\ r.step \in {"links", "share"} => r.wrote = Columns(r)
    /\ r.done \subseteq Removed(r) \cup Added(r)
    /\ r.cut \subseteq r.done \cap Removed(r)
    /\ r.target \in Dish => "links" \in r.blind \/ r.done \cap Removed(r) \subseteq r.cut

IsSound(r) ==
    r.step # "none" =>
        /\ r.target \in Dish \cup Slot /\ r.actor \in Actor
        /\ ReadingIsSound(r) /\ BodyIsSound(r) /\ FlushIsSound(r)

RequestsAreSound == \A s \in Session : IsSound(session[s])

\* Nobody else knows the id of a row that is yet to be committed.
PostsAreAlone ==
    \A s, t \in Session :
        /\ s # t /\ Busy(s) /\ Busy(t) /\ session[s].target = session[t].target
        => session[s].seen.known

Inv == TypeOK /\ RequestsAreSound /\ PostsAreAlone

----------------------------------------------------------------------------
\* Requests, piece by piece

RequestFields == {"step", "actor", "target", "body", "seen", "cafes", "wrote", "done",
                  "cut", "shares", "blind"}

LEMMA NoRequestIsSound ==
    /\ IsRequest(NoRequest) /\ IsSound(NoRequest)
    /\ DOMAIN NoRequest = RequestFields
    /\ NoRequest.step = "none" /\ NoRequest.blind = {} /\ NoRequest.cafes = {}
    /\ NoRequest.done = {} /\ NoRequest.cut = {} /\ DOMAIN NoRequest.wrote = {}
    /\ NoRequest.shares = FALSE
<1>1. DOMAIN [f \in {} |-> FALSE] = {}
  OBVIOUS
<1>2. IsBody(NoRequest.body)
  BY <1>1 DEF NoRequest, IsBody, Fields
<1>3. IsRequest(NoRequest)
  BY <1>1, <1>2 DEF NoRequest, IsRequest
<1>4. IsSound(NoRequest)
  BY DEF NoRequest, IsSound
<1> QED BY <1>1, <1>3, <1>4 DEF NoRequest, RequestFields

LEMMA GoesEffect ==
    ASSUME DOMAIN session = Session, NEW s \in Session, NEW r, Goes(s, r)
    PROVE  /\ DOMAIN session' = Session /\ session'[s] = r
           /\ \A t \in Session \ {s} : session'[t] = session[t]
  BY DEF Goes

\* What the flush has to do follows from the body and what was read.
LEMMA SameReading ==
    ASSUME NEW q, NEW r, q.body = r.body, q.cafes = r.cafes
    PROVE  /\ Added(q) = Added(r) /\ Removed(q) = Removed(r)
           /\ q.seen = r.seen => Columns(q) = Columns(r)
  BY DEF Added, Removed, Columns, Names

LEMMA AddedAndRemoved ==
    ASSUME NEW r, IsRequest(r)
    PROVE  /\ Added(r) \subseteq Cafe /\ Removed(r) \subseteq Cafe
           /\ Added(r) \cap Removed(r) = {}
           /\ Names(r, "cafes") => (r.cafes \ Removed(r)) \cup Added(r) = r.body["cafes"]
           /\ ~Names(r, "cafes") => Added(r) = {} /\ Removed(r) = {}
  BY DEF IsRequest, IsBody, Added, Removed, Names

\* What a request is let in with: the row and links of its target as they are.
LEMMA BeginsEffect ==
    ASSUME TypeOK, NEW s \in Session, NEW a \in Actor, NEW x \in Dish \cup Slot, NEW body,
           IsBody(body), NEW step \in {"cafes", "row"}, Begins(s, a, x, body, step)
    PROVE  /\ UNCHANGED <<row, link, asked, excused>> /\ requests' \in 0 .. MaxRequests
           /\ \E q : /\ Goes(s, q) /\ IsRequest(q)
                     /\ q.step = step /\ q.actor = a /\ q.target = x /\ q.body = body
                     /\ q.seen = row[x] /\ q.cafes = IF x \in Dish THEN link[x] ELSE {}
                     /\ \A f \in {"wrote", "done", "cut", "blind"} : q[f] = NoRequest[f]
<1> PICK cafes : cafes = IF x \in Dish THEN link[x] ELSE {}
  OBVIOUS
<1> PICK seen : seen = row[x]
  OBVIOUS
<1> PICK q : q = [NoRequest EXCEPT !.step = step, !.actor = a, !.target = x, !.body = body,
                                   !.seen = seen, !.cafes = cafes]
  OBVIOUS
<1>1. /\ DOMAIN q = DOMAIN NoRequest /\ q.step = step /\ q.actor = a /\ q.target = x
      /\ q.body = body /\ q.seen = seen /\ q.cafes = cafes
      /\ q.wrote = NoRequest.wrote /\ q.done = NoRequest.done /\ q.cut = NoRequest.cut
      /\ q.shares = NoRequest.shares /\ q.blind = NoRequest.blind
  BY DEF NoRequest
<1>2. cafes \subseteq Cafe /\ seen \in DishRow \cup SlotRow
  BY DEF TypeOK
<1>3. IsRequest(q)
  BY <1>1, <1>2, NoRequestIsSound DEF IsRequest
<1>4. Goes(s, q) /\ UNCHANGED <<row, link, asked, excused>> /\ requests' \in 0 .. MaxRequests
  BY CatalogBounds DEF Begins, Arrives, TypeOK
<1> QED BY <1>1, <1>3, <1>4, NoRequestIsSound

----------------------------------------------------------------------------
\* Steps of s that commit nothing

\* A request that is about to start, or goes on with the row it is about, and
\* nobody else has the id of a row that is not committed.
IsAloneAs(s, q) ==
    q.step # "none" =>
        \A t \in Session \ {s} : Busy(t) /\ session[t].target = q.target
            => q.seen.known /\ session[t].seen.known

LEMMA QuietInv ==
    ASSUME Inv, NEW s \in Session, NEW q, Goes(s, q), IsRequest(q), IsSound(q), IsAloneAs(s, q),
           UNCHANGED <<row, link, asked, excused>>, requests' \in 0 .. MaxRequests
    PROVE  Inv'
<1>1. /\ DOMAIN session' = Session /\ session'[s] = q
      /\ \A t \in Session \ {s} : session'[t] = session[t]
  BY GoesEffect DEF Inv, TypeOK
<1>2. TypeOK'
  BY <1>1 DEF Inv, TypeOK
<1>3. ASSUME NEW r, IsSound(r) PROVE IsSound(r)'
  BY <1>3 DEF IsSound, ReadingIsSound, BodyIsSound, FlushIsSound
<1>4. ASSUME NEW t \in Session PROVE IsSound(session[t])'
  <2> PICK r : r = session'[t]
    OBVIOUS
  <2>1. IsSound(r)
    BY <1>1 DEF Inv, RequestsAreSound
  <2>2. IsSound(r)'
    BY <1>3, <2>1
  <2> QED BY <2>2 DEF IsSound, ReadingIsSound, BodyIsSound, FlushIsSound
<1>5. PostsAreAlone'
  BY <1>1 DEF Inv, PostsAreAlone, IsAloneAs, Busy
<1> QED BY <1>2, <1>4, <1>5 DEF Inv, RequestsAreSound

LEMMA GoingOnAlone ==
    ASSUME Inv, NEW s \in Session, Busy(s), NEW q,
           q.target = session[s].target, q.seen.known = session[s].seen.known
    PROVE  IsAloneAs(s, q)
  BY DEF Inv, PostsAreAlone, IsAloneAs

LEMMA ArriveInv ==
    ASSUME Inv, NEW s \in Session, Arrive(s)
    PROVE  Inv'
<1>0. TypeOK
  BY DEF Inv
<1>1. \A x \in Slot : x \notin Dish
  BY CatalogAssumption
<1>2. ASSUME NEW a \in Actor, NEW x \in Dish \cup Slot, NEW body, IsBody(body),
             NEW step \in {"cafes", "row"}, Begins(s, a, x, body, step),
             x \in Dish => LET current == IF row[x].known THEN link[x] ELSE {} IN
                             link[x] \cup NewCafes(body, current) \subseteq Manages[a],
             x \in Dish /\ ~row[x].known => "name" \in DOMAIN body,
             x \in Slot => InOrder(body),
             x \in Slot /\ ~row[x].known => {"start", "end"} \subseteq DOMAIN body,
             step = "cafes" => x \in Dish /\ row[x].known,
             ~row[x].known => Fresh(x)
      PROVE  Inv'
  <2>0. IsBody(body) /\ Begins(s, a, x, body, step)
    BY <1>2
  <2> PICK q : /\ Goes(s, q) /\ IsRequest(q)
               /\ q.step = step /\ q.actor = a /\ q.target = x /\ q.body = body
               /\ q.seen = row[x] /\ q.cafes = IF x \in Dish THEN link[x] ELSE {}
               /\ \A f \in {"wrote", "done", "cut", "blind"} : q[f] = NoRequest[f]
    BY <1>0, <2>0, BeginsEffect
  <2>1. UNCHANGED <<row, link, asked, excused>> /\ requests' \in 0 .. MaxRequests
    BY <1>0, <2>0, BeginsEffect
  <2>2. ReadingIsSound(q)
    BY <1>0, <1>1 DEF ReadingIsSound, TypeOK
  <2>3. x \in Dish /\ ~row[x].known => link[x] = {}
    BY <1>0 DEF TypeOK
  <2>4. BodyIsSound(q)
    BY <1>1, <1>2, <2>3 DEF BodyIsSound, Names, Hours
  <2>5. FlushIsSound(q)
    BY <1>2, NoRequestIsSound DEF FlushIsSound
  <2>6. IsSound(q)
    BY <2>2, <2>4, <2>5 DEF IsSound
  <2>7. IsAloneAs(s, q)
    BY <1>2 DEF IsAloneAs, Fresh, Inv, RequestsAreSound, IsSound, ReadingIsSound, Busy
  <2> QED BY <2>1, <2>6, <2>7, QuietInv
<1>3. ASSUME NEW a \in Actor, NEW d \in Dish, NEW body \in NewDishes, PostDish(s, a, d, body)
      PROVE  Inv'
  <2>1. IsBody(body) /\ "name" \in DOMAIN body
    BY CatalogBodies
  <2>2. ~row[d].known /\ link[d] = {} /\ NewCafes(body, {}) \subseteq Manages[a] /\ Fresh(d)
    BY <1>0, <1>3 DEF PostDish, Fresh, MayManage, TypeOK
  <2>3. Begins(s, a, d, body, "row") /\ d \notin Slot
    BY <1>1, <1>3 DEF PostDish
  <2> QED BY <1>2, <2>1, <2>2, <2>3
<1>4. ASSUME NEW a \in Actor, NEW d \in Dish, NEW body \in DishPatches, PatchDish(s, a, d, body)
      PROVE  Inv'
  <2>1. IsBody(body) /\ row[d].known /\ link[d] \cup NewCafes(body, link[d]) \subseteq Manages[a]
    BY <1>4, CatalogBodies DEF PatchDish, MayUpdate, MayManage
  <2>2. Begins(s, a, d, body, "cafes") /\ d \notin Slot
    BY <1>1, <1>4 DEF PatchDish
  <2> QED BY <1>2, <2>1, <2>2
<1>5. ASSUME NEW a \in Actor, NEW x \in Slot, NEW body \in NewSlots, PostSlot(s, a, x, body)
      PROVE  Inv'
  <2>1. IsBody(body) /\ {"start", "end"} \subseteq DOMAIN body /\ InOrder(body) /\ Fresh(x)
    BY <1>5, CatalogBodies DEF PostSlot
  <2>2. Begins(s, a, x, body, "row") /\ x \notin Dish
    BY <1>1, <1>5 DEF PostSlot
  <2> QED BY <1>2, <2>1, <2>2
<1>6. ASSUME NEW a \in Actor, NEW x \in Slot, NEW body \in SlotPatches, PatchSlot(s, a, x, body)
      PROVE  Inv'
  <2>1. IsBody(body) /\ row[x].known /\ InOrder(body)
    BY <1>6, CatalogBodies DEF PatchSlot
  <2>2. Begins(s, a, x, body, "row") /\ x \notin Dish
    BY <1>1, <1>6 DEF PatchSlot
  <2> QED BY <1>2, <2>1, <2>2
<1> QED BY <1>3, <1>4, <1>5, <1>6 DEF Arrive
\* Nothing is left of a request that ends, whatever it has flushed.
LEMMA EndsInv ==
    ASSUME Inv, NEW s \in Session, Ends(s), UNCHANGED <<row, link, requests, asked, excused>>
    PROVE  Inv'
<1>1. IsAloneAs(s, NoRequest)
  BY NoRequestIsSound DEF IsAloneAs
<1>2. Goes(s, NoRequest) /\ requests' \in 0 .. MaxRequests
  BY DEF Ends, Ended, Inv, TypeOK
<1> QED BY <1>1, <1>2, NoRequestIsSound, QuietInv

LEMMA CheckCafesInv ==
    ASSUME Inv, NEW s \in Session, CheckCafes(s)
    PROVE  Inv'
<1> PICK r : r = session[s]
  OBVIOUS
<1> PICK q : /\ Goes(s, q)
             /\ \/ q = [r EXCEPT !.step = "row"]
                \/ q = [r EXCEPT !.step = "row", !.seen = row[r.target],
                                 !.blind = r.blind \ {"row"}]
  <2> PICK n : n = [r EXCEPT !.step = "row"]
    OBVIOUS
  <2>1. IsRequest(r)
    BY DEF Inv, TypeOK
  <2>2. n.target = r.target /\ n.blind = r.blind
    BY <2>1 DEF IsRequest, NoRequest
  <2>3. \/ Goes(s, n)
        \/ Goes(s, [n EXCEPT !.seen = row[n.target], !.blind = @ \ {"row"}])
    BY DEF CheckCafes
  <2>4. [n EXCEPT !.seen = row[n.target], !.blind = @ \ {"row"}]
          = [r EXCEPT !.step = "row", !.seen = row[r.target], !.blind = r.blind \ {"row"}]
    BY <2>2
  <2> QED BY <2>3, <2>4
<1>1. IsRequest(r) /\ IsSound(r) /\ r.step = "cafes" /\ TypeOK
  BY DEF Inv, TypeOK, RequestsAreSound, CheckCafes, At
<1>2. /\ DOMAIN q = DOMAIN r /\ q.step = "row" /\ q.actor = r.actor /\ q.target = r.target
      /\ q.body = r.body /\ q.cafes = r.cafes /\ q.wrote = r.wrote /\ q.done = r.done
      /\ q.cut = r.cut /\ q.shares = r.shares
  BY <1>1 DEF IsRequest, NoRequest
<1>3. \/ q.seen = r.seen /\ q.blind = r.blind
      \/ q.seen = row[r.target] /\ q.blind = r.blind \ {"row"}
  BY <1>1 DEF IsRequest, NoRequest
<1>4. r.target \in Dish /\ row[r.target] \in DishRow /\ r.seen.known = row[r.target].known
  <2>1. r.target \in Dish /\ r.seen \in DishRow /\ (r.seen.known <=> row[r.target].known)
    BY <1>1 DEF IsSound, FlushIsSound, ReadingIsSound
  <2> QED BY <1>1, <2>1 DEF TypeOK, DishRow
<1>5. IsRequest(q)
  BY <1>1, <1>2, <1>3, <1>4 DEF IsRequest
<1>6. q.seen.known = r.seen.known
  BY <1>3, <1>4
<1>7. ReadingIsSound(q)
  BY <1>1, <1>2, <1>3, <1>4 DEF IsSound, ReadingIsSound
<1>8. BodyIsSound(q)
  BY <1>1, <1>2, <1>6 DEF IsSound, BodyIsSound, Names, Hours
<1>9. FlushIsSound(q)
  <2>1. DOMAIN r.wrote = {} /\ r.done = {} /\ r.cut = {}
    BY <1>1 DEF IsSound, FlushIsSound
  <2> QED BY <1>2, <1>4, <2>1 DEF FlushIsSound
<1>10. IsSound(q) /\ IsAloneAs(s, q) /\ requests' \in 0 .. MaxRequests
  <2>1. requests' \in 0 .. MaxRequests
    BY <1>1 DEF CheckCafes, TypeOK
  <2>2. IsSound(q)
    BY <1>1, <1>2, <1>7, <1>8, <1>9 DEF IsSound
  <2>3. Busy(s)
    BY <1>1 DEF Busy
  <2> QED BY <1>2, <1>6, <2>1, <2>2, <2>3, GoingOnAlone
<1>11. UNCHANGED <<row, link, asked, excused>>
  BY DEF CheckCafes
<1> QED BY <1>5, <1>10, <1>11, QuietInv

LEMMA ColumnsAreFields ==
    ASSUME NEW r, IsRequest(r), r.seen \in DishRow \cup SlotRow
    PROVE  DOMAIN Columns(r) \subseteq Fields \cup {"known"}
  BY DEF IsRequest, IsBody, DishRow, SlotRow, Columns, Fields

\* q is r, gone on with the flush of what it has read.
GoesOn(r, q) ==
    /\ DOMAIN q = DOMAIN r /\ q.actor = r.actor /\ q.target = r.target /\ q.body = r.body
    /\ q.seen = r.seen /\ q.cafes = r.cafes /\ q.blind = r.blind
    /\ q.step \in {"links", "share"} /\ q.wrote = Columns(r) /\ q.shares \in BOOLEAN
    /\ q.done \subseteq Removed(r) \cup Added(r) /\ q.cut \subseteq q.done \cap Removed(r)
    /\ r.target \in Dish => "links" \in r.blind \/ q.done \cap Removed(r) \subseteq q.cut

LEMMA FlushInv ==
    ASSUME Inv, NEW s \in Session, Busy(s), NEW q, Goes(s, q), GoesOn(session[s], q),
           UNCHANGED <<row, link, requests, asked, excused>>
    PROVE  Inv'
<1> PICK r : r = session[s]
  OBVIOUS
<1>0. GoesOn(r, q)
  OBVIOUS
<1>1. IsRequest(r) /\ IsSound(r) /\ r.step # "none"
  BY DEF Inv, TypeOK, RequestsAreSound, Busy
<1>2. r.seen \in DishRow \cup SlotRow
  BY <1>1 DEF IsSound, ReadingIsSound
<1>3. IsRequest(q)
  BY <1>0, <1>1, <1>2, ColumnsAreFields, AddedAndRemoved DEF IsRequest, GoesOn
<1>4. Added(q) = Added(r) /\ Removed(q) = Removed(r) /\ Columns(q) = Columns(r)
  BY <1>0, SameReading DEF GoesOn
<1>5. ReadingIsSound(q)
  BY <1>0, <1>1 DEF IsSound, ReadingIsSound, GoesOn
<1>6. BodyIsSound(q)
  BY <1>0, <1>1 DEF IsSound, BodyIsSound, Names, Hours, GoesOn
<1>7. FlushIsSound(q)
  BY <1>0, <1>4 DEF FlushIsSound, GoesOn
<1>8. IsSound(q)
  BY <1>0, <1>1, <1>5, <1>6, <1>7 DEF IsSound, GoesOn
<1>9. requests' \in 0 .. MaxRequests
  BY DEF Inv, TypeOK
<1>10. IsAloneAs(s, q)
  BY <1>0, GoingOnAlone DEF GoesOn
<1> QED BY <1>3, <1>8, <1>9, <1>10, QuietInv

LEMMA WriteRowInv ==
    ASSUME Inv, NEW s \in Session, WriteRow(s)
    PROVE  Inv'
<1> PICK r : r = session[s]
  OBVIOUS
<1> PICK q : q = [r EXCEPT !.step = "links", !.wrote = Columns(r)]
  OBVIOUS
<1>1. IsRequest(r) /\ IsSound(r) /\ r.step = "row" /\ Busy(s)
  BY DEF Inv, TypeOK, RequestsAreSound, WriteRow, At, Busy
<1>2. r.done = {} /\ r.cut = {}
  BY <1>1 DEF IsSound, FlushIsSound
<1>3. /\ DOMAIN q = DOMAIN r /\ q.step = "links" /\ q.actor = r.actor
      /\ q.target = r.target /\ q.body = r.body /\ q.seen = r.seen /\ q.cafes = r.cafes
      /\ q.wrote = Columns(r) /\ q.done = r.done /\ q.cut = r.cut
      /\ q.shares = r.shares /\ q.blind = r.blind
  BY <1>1 DEF IsRequest, NoRequest
<1>4. Goes(s, q) /\ UNCHANGED <<row, link, requests, asked, excused>>
  BY DEF WriteRow
<1>5. q.shares \in BOOLEAN
  BY <1>1, <1>3 DEF IsRequest
<1>6. GoesOn(r, q)
  BY <1>2, <1>3, <1>5 DEF GoesOn
<1> QED BY <1>1, <1>4, <1>6, FlushInv

LEMMA UnlinkInv ==
    ASSUME Inv, NEW s \in Session, Unlink(s)
    PROVE  Inv'
<1> PICK r : r = session[s]
  OBVIOUS
<1> PICK c \in ToUnlink(s) :
      Goes(s, [r EXCEPT !.done = @ \cup {c}, !.cut = @ \cup ({c} \cap link[r.target])])
  BY DEF Unlink
<1> PICK q : q = [r EXCEPT !.done = @ \cup {c}, !.cut = @ \cup ({c} \cap link[r.target])]
  OBVIOUS
<1>1. IsRequest(r) /\ IsSound(r) /\ r.step = "links" /\ Busy(s) /\ c \in Removed(r)
  BY DEF Inv, TypeOK, RequestsAreSound, ToUnlink, At, Busy
<1>2. /\ DOMAIN q = DOMAIN r /\ q.step = "links" /\ q.actor = r.actor
      /\ q.target = r.target /\ q.body = r.body /\ q.seen = r.seen /\ q.cafes = r.cafes
      /\ q.wrote = r.wrote /\ q.done = r.done \cup {c}
      /\ q.cut = r.cut \cup ({c} \cap link[r.target])
      /\ q.shares = r.shares /\ q.blind = r.blind
  BY <1>1 DEF IsRequest, NoRequest
<1>3. Goes(s, q) /\ UNCHANGED <<row, link, requests, asked, excused>>
  BY DEF Unlink
<1>4. q.wrote = Columns(r) /\ q.shares \in BOOLEAN
  BY <1>1, <1>2 DEF IsRequest, IsSound, FlushIsSound
<1>5. /\ r.done \subseteq Removed(r) \cup Added(r) /\ r.cut \subseteq r.done \cap Removed(r)
      /\ r.target \in Dish => "links" \in r.blind \/ r.done \cap Removed(r) \subseteq r.cut
      /\ r.target \in Dish => "links" \in r.blind \/ r.cafes = link[r.target]
  BY <1>1 DEF IsSound, FlushIsSound, ReadingIsSound
<1>6. c \in r.cafes
  BY <1>1 DEF Removed
<1>7. q.done \subseteq Removed(r) \cup Added(r) /\ q.cut \subseteq q.done \cap Removed(r)
  BY <1>1, <1>2, <1>5
<1>8. r.target \in Dish => "links" \in r.blind \/ q.done \cap Removed(r) \subseteq q.cut
  BY <1>2, <1>5, <1>6
<1>9. GoesOn(r, q)
  BY <1>2, <1>4, <1>7, <1>8 DEF GoesOn
<1> QED BY <1>1, <1>3, <1>9, FlushInv

LEMMA LinkInv ==
    ASSUME Inv, NEW s \in Session, Link(s)
    PROVE  Inv'
<1> PICK r : r = session[s]
  OBVIOUS
<1> PICK c \in ToLink(s) : Goes(s, [r EXCEPT !.done = @ \cup {c}, !.step = "share"])
  BY DEF Link
<1> PICK q : q = [r EXCEPT !.done = @ \cup {c}, !.step = "share"]
  OBVIOUS
<1>1. IsRequest(r) /\ IsSound(r) /\ r.step = "links" /\ Busy(s) /\ c \in Added(r)
  BY DEF Inv, TypeOK, RequestsAreSound, ToLink, At, Busy
<1>2. /\ DOMAIN q = DOMAIN r /\ q.step = "share" /\ q.actor = r.actor
      /\ q.target = r.target /\ q.body = r.body /\ q.seen = r.seen /\ q.cafes = r.cafes
      /\ q.wrote = r.wrote /\ q.done = r.done \cup {c} /\ q.cut = r.cut
      /\ q.shares = r.shares /\ q.blind = r.blind
  BY <1>1 DEF IsRequest, NoRequest
<1>3. Goes(s, q) /\ UNCHANGED <<row, link, requests, asked, excused>>
  BY DEF Link
<1>4. q.wrote = Columns(r) /\ q.shares \in BOOLEAN
  BY <1>1, <1>2 DEF IsRequest, IsSound, FlushIsSound
<1>5. /\ r.done \subseteq Removed(r) \cup Added(r) /\ r.cut \subseteq r.done \cap Removed(r)
      /\ r.target \in Dish => "links" \in r.blind \/ r.done \cap Removed(r) \subseteq r.cut
  BY <1>1 DEF IsSound, FlushIsSound
<1>6. c \notin Removed(r)
  BY <1>1, AddedAndRemoved
<1>7. q.done \subseteq Removed(r) \cup Added(r) /\ q.cut \subseteq q.done \cap Removed(r)
  BY <1>1, <1>2, <1>5
<1>8. r.target \in Dish => "links" \in r.blind \/ q.done \cap Removed(r) \subseteq q.cut
  BY <1>2, <1>5, <1>6
<1>9. GoesOn(r, q)
  BY <1>2, <1>4, <1>7, <1>8 DEF GoesOn
<1> QED BY <1>1, <1>3, <1>9, FlushInv

LEMMA ShareInv ==
    ASSUME Inv, NEW s \in Session, Share(s)
    PROVE  Inv'
<1> PICK r : r = session[s]
  OBVIOUS
<1> PICK q : q = [r EXCEPT !.step = "links", !.shares = TRUE]
  OBVIOUS
<1>1. IsRequest(r) /\ IsSound(r) /\ r.step = "share" /\ Busy(s)
  BY DEF Inv, TypeOK, RequestsAreSound, Share, At, Busy
<1>2. /\ DOMAIN q = DOMAIN r /\ q.step = "links" /\ q.actor = r.actor
      /\ q.target = r.target /\ q.body = r.body /\ q.seen = r.seen /\ q.cafes = r.cafes
      /\ q.wrote = r.wrote /\ q.done = r.done /\ q.cut = r.cut
      /\ q.shares = TRUE /\ q.blind = r.blind
  BY <1>1 DEF IsRequest, NoRequest
<1>3. Goes(s, q) /\ UNCHANGED <<row, link, requests, asked, excused>>
  BY DEF Share
<1>4. q.wrote = Columns(r)
  BY <1>1, <1>2 DEF IsSound, FlushIsSound
<1>5. /\ r.done \subseteq Removed(r) \cup Added(r) /\ r.cut \subseteq r.done \cap Removed(r)
      /\ r.target \in Dish => "links" \in r.blind \/ r.done \cap Removed(r) \subseteq r.cut
  BY <1>1 DEF IsSound, FlushIsSound
<1>6. GoesOn(r, q)
  BY <1>2, <1>4, <1>5 DEF GoesOn
<1> QED BY <1>1, <1>3, <1>6, FlushInv
----------------------------------------------------------------------------
\* The columns that are written

\* The row after the UPDATE or INSERT: well-typed and known, with what the body
\* names unless that looked unchanged and another has changed it since, and otherwise
\* as it was.
IsRowOf(r, old, new) ==
    /\ r.target \in Dish => new \in DishRow
    /\ r.target \in Slot => new \in SlotRow
    /\ new.known = TRUE
    /\ DOMAIN Columns(r) = {} => new = old
    /\ \A f \in DOMAIN old \ {"known"} :
         IF Names(r, f)
         THEN new[f] = r.body[f] \/ (r.seen[f] = r.body[f] /\ "row" \in r.blind)
         ELSE old.known => new[f] = old[f]

LEMMA ColumnsMakeRow ==
    ASSUME TypeOK, NEW r, IsRequest(r), IsSound(r), r.step # "none"
    PROVE  IsRowOf(r, row[r.target], Overlay(row[r.target], Columns(r)))
<1> PICK x : x = r.target
  OBVIOUS
<1> PICK new : new = Overlay(row[x], Columns(r))
  OBVIOUS
<1> PICK columns : columns = Columns(r)
  OBVIOUS
<1>1. /\ x \in Dish \cup Slot /\ IsBody(r.body) /\ ReadingIsSound(r) /\ BodyIsSound(r)
      /\ Dish \cap Slot = {}
  BY CatalogAssumption DEF IsRequest, IsSound
<1>2. /\ DOMAIN new = DOMAIN row[x]
      /\ \A f \in DOMAIN row[x] :
           new[f] = IF f \in DOMAIN columns THEN columns[f] ELSE row[x][f]
  BY DEF Overlay
<1>3. /\ DOMAIN row[x] = DOMAIN r.seen
      /\ "known" \in DOMAIN row[x] /\ "cafes" \notin DOMAIN row[x]
  <2>1. CASE x \in Dish
    BY <1>1, <2>1 DEF ReadingIsSound, TypeOK, DishRow
  <2>2. CASE x \in Slot
    <3>1. row[x] \in SlotRow /\ r.seen \in SlotRow
      BY <1>1, <2>2 DEF ReadingIsSound, TypeOK
    <3> QED BY <3>1 DEF SlotRow
  <2> QED BY <1>1, <2>1, <2>2
<1>4. r.seen.known \in BOOLEAN /\ row[x].known \in BOOLEAN /\ r.seen.known = row[x].known
  BY <1>1 DEF ReadingIsSound, TypeOK, DishRow, SlotRow
<1>5. \A f \in DOMAIN row[x] :
        IF f \in DOMAIN r.body
        THEN \/ new[f] = r.body[f]
             \/ row[x].known /\ new[f] = row[x][f] /\ r.body[f] = r.seen[f]
        ELSE new[f] = IF row[x].known THEN row[x][f] ELSE Default[f]
  <2>1. CASE row[x].known
    <3>1. columns = [f \in {f \in DOMAIN r.body \ {"cafes"} : r.body[f] # r.seen[f]} |-> r.body[f]]
      BY <1>4, <2>1 DEF Columns
    <3> QED BY <1>2, <1>3, <2>1, <3>1
  <2>2. CASE ~row[x].known
    <3>1. columns = [f \in DOMAIN r.seen |->
                       IF f \in DOMAIN r.body \ {"cafes"} THEN r.body[f] ELSE Default[f]]
      BY <1>4, <2>2 DEF Columns
    <3> QED BY <1>2, <1>3, <2>2, <3>1
  <2> QED BY <1>4, <2>1, <2>2
<1>6. new.known = TRUE
  <2>1. "known" \notin DOMAIN r.body
    BY <1>1 DEF IsBody, Fields
  <2> QED BY <1>3, <1>4, <1>5, <2>1 DEF Default
<1>7. ASSUME x \in Dish PROVE new \in DishRow
  <2>1. row[x] \in DishRow /\ DOMAIN new = {"known", "name", "active"}
    BY <1>2, <1>7 DEF TypeOK, DishRow
  <2>2. new.name \in Name \cup {"none"}
    BY <1>1, <1>4, <1>5, <1>7, <2>1 DEF BodyIsSound, IsBody, DishRow, Names
  <2>3. new.active \in BOOLEAN
    BY <1>1, <1>4, <1>5, <1>7, <2>1 DEF IsBody, DishRow, Default
  <2>4. new = [f \in {"known", "name", "active"} |-> new[f]]
    BY <1>2, <2>1 DEF Overlay
  <2> QED BY <1>6, <2>1, <2>2, <2>3, <2>4 DEF DishRow
<1>8. ASSUME x \in Slot PROVE new \in SlotRow
  <2>1. row[x] \in SlotRow /\ DOMAIN new = {"known", "start", "end"}
    BY <1>2, <1>8 DEF TypeOK, SlotRow
  <2>2. ~row[x].known => {"start", "end"} \subseteq DOMAIN r.body
    BY <1>1, <1>4, <1>8 DEF BodyIsSound, Hours
  <2>3. new.start \in Hour
    BY <1>1, <1>4, <1>5, <1>8, <2>1, <2>2 DEF IsBody, SlotRow
  <2>4. new.end \in Hour
    BY <1>1, <1>4, <1>5, <1>8, <2>1, <2>2 DEF IsBody, SlotRow
  <2>5. new = [f \in {"known", "start", "end"} |-> new[f]]
    BY <1>2, <2>1 DEF Overlay
  <2> QED BY <1>6, <2>1, <2>3, <2>4, <2>5 DEF SlotRow
<1>9. ASSUME DOMAIN Columns(r) = {} PROVE new = row[x]
  <2>1. row[x] = [f \in DOMAIN row[x] |-> row[x][f]]
    BY <1>1 DEF TypeOK, DishRow, SlotRow
  <2>2. new = [f \in DOMAIN row[x] |-> row[x][f]]
    BY <1>9 DEF Overlay
  <2> QED BY <2>1, <2>2
<1>10. ASSUME NEW f \in DOMAIN row[x] \ {"known"}
       PROVE  IF Names(r, f)
              THEN new[f] = r.body[f] \/ (r.seen[f] = r.body[f] /\ "row" \in r.blind)
              ELSE row[x].known => new[f] = row[x][f]
  <2>1. "row" \in r.blind \/ r.seen = row[x]
    BY <1>1 DEF ReadingIsSound
  <2> QED BY <1>5, <2>1 DEF Names
<1> QED BY <1>6, <1>7, <1>8, <1>9, <1>10 DEF IsRowOf

----------------------------------------------------------------------------
\* COMMIT

\* What a COMMIT does to the tables: the flush is complete, and its DELETEs have
\* met the links that were read unless others have committed links since.
CommitsAs(r, x) ==
    /\ IsRequest(r) /\ IsSound(r) /\ r.step = "links" /\ x \in Dish \cup Slot
    /\ DOMAIN row' = DOMAIN row /\ row'[x] = Overlay(row[x], Columns(r))
    /\ \A y \in Dish \cup Slot : y # x => row'[y] = row[y]
    /\ link' \in [Dish -> SUBSET Cafe]
    /\ \A d \in Dish :
         link'[d] = IF d = x THEN (link[x] \ r.cut) \cup Added(r) ELSE link[d]
    /\ x \in Dish /\ "links" \notin r.blind
         => link[x] = r.cafes /\ link'[x] = (r.cafes \ Removed(r)) \cup Added(r)
    /\ ~Names(r, "cafes") /\ x \in Dish => link'[x] = link[x]

LEMMA CommitEffect ==
    ASSUME Inv, NEW s \in Session, Commit(s)
    PROVE  /\ CommitsAs(session[s], session[s].target)
           /\ row' = [row EXCEPT ![session[s].target] =
                                   Overlay(row[session[s].target], Columns(session[s]))]
<1> PICK r : r = session[s]
  OBVIOUS
<1> PICK x : x = r.target
  OBVIOUS
<1>1. /\ IsRequest(r) /\ IsSound(r) /\ r.step = "links" /\ x \in Dish \cup Slot
      /\ r.wrote = Columns(r) /\ ReadingIsSound(r) /\ FlushIsSound(r)
  BY DEF Inv, TypeOK, RequestsAreSound, Commit, At, IsSound, FlushIsSound
<1>2. /\ Removed(r) \cup Added(r) \subseteq r.done
      /\ row' = [row EXCEPT ![x] = Overlay(row[x], r.wrote)]
      /\ link' = IF x \in Dish THEN [link EXCEPT ![x] = (link[x] \ r.cut) \cup Tied(r)] ELSE link
  BY DEF Commit
<1>3. Tied(r) = Added(r)
  BY <1>2 DEF Tied
<1>4. DOMAIN row = Dish \cup Slot /\ link \in [Dish -> SUBSET Cafe]
  BY DEF Inv, TypeOK
<1>5. Added(r) \subseteq Cafe /\ (~Names(r, "cafes") => Added(r) = {} /\ Removed(r) = {})
  BY <1>1, AddedAndRemoved
<1>6. link' \in [Dish -> SUBSET Cafe]
  BY <1>2, <1>3, <1>4, <1>5
<1>7. \A d \in Dish : link'[d] = IF d = x THEN (link[x] \ r.cut) \cup Added(r) ELSE link[d]
  BY <1>2, <1>3, <1>4
<1>8. r.cut \subseteq Removed(r)
  BY <1>1 DEF FlushIsSound
<1>9. x \in Dish /\ "links" \notin r.blind => r.cut = Removed(r) /\ link[x] = r.cafes
  BY <1>1, <1>2, <1>8 DEF FlushIsSound, ReadingIsSound
<1> QED BY <1>1, <1>2, <1>4, <1>5, <1>6, <1>7, <1>8, <1>9 DEF CommitsAs

\* What the others are left with: they have not seen what changed.
IsUnseenOf(r, x, changes, q) ==
    /\ IsRequest(q)
    /\ \A f \in RequestFields \ {"blind"} : q[f] = r[f]
    /\ q.blind = IF r.target = x THEN r.blind \cup changes ELSE r.blind

LEMMA UnseenEffect ==
    ASSUME NEW r, IsRequest(r), NEW x, NEW changes, changes \subseteq {"row", "links"}
    PROVE  IsUnseenOf(r, x, changes, Unseen(r, x, changes))
<1> PICK q : q = Unseen(r, x, changes)
  OBVIOUS
<1>1. DOMAIN r = RequestFields
  BY NoRequestIsSound DEF IsRequest
<1>2. /\ DOMAIN q = DOMAIN r /\ q.step = r.step /\ q.actor = r.actor /\ q.target = r.target
      /\ q.body = r.body /\ q.seen = r.seen /\ q.cafes = r.cafes /\ q.wrote = r.wrote
      /\ q.done = r.done /\ q.cut = r.cut /\ q.shares = r.shares
  BY <1>1 DEF Unseen, RequestFields
<1>3. q.blind = IF r.target = x THEN r.blind \cup changes ELSE r.blind
  BY <1>1 DEF Unseen, RequestFields
<1>4. IsRequest(q)
  BY <1>2, <1>3 DEF IsRequest
<1>5. \A f \in RequestFields \ {"blind"} : q[f] = r[f]
  BY <1>2 DEF RequestFields
<1>6. IsUnseenOf(r, x, changes, q)
  BY <1>3, <1>4, <1>5 DEF IsUnseenOf
<1> QED BY <1>6

LEMMA CommitInv ==
    ASSUME Inv, NEW s \in Session, Commit(s)
    PROVE  Inv'
<1> PICK r : r = session[s]
  OBVIOUS
<1> PICK x : x = r.target
  OBVIOUS
<1> PICK changes : changes = Changes(r)
  OBVIOUS
<1>1. /\ IsRequest(r) /\ IsSound(r) /\ r.step = "links" /\ x \in Dish \cup Slot
      /\ DOMAIN row' = DOMAIN row /\ row'[x] = Overlay(row[x], Columns(r))
      /\ \A y \in Dish \cup Slot : y # x => row'[y] = row[y]
  BY CommitEffect DEF CommitsAs
<1>2. /\ link' \in [Dish -> SUBSET Cafe]
      /\ \A d \in Dish : link'[d] = IF d = x THEN (link[x] \ r.cut) \cup Added(r) ELSE link[d]
  BY CommitEffect DEF CommitsAs
<1>3. /\ x \in Dish => row'[x] \in DishRow
      /\ x \in Slot => row'[x] \in SlotRow
      /\ row'[x].known = TRUE
      /\ DOMAIN Columns(r) = {} => row'[x] = row[x]
  BY <1>1, ColumnsMakeRow DEF Inv, IsRowOf
<1>4. /\ changes \subseteq {"row", "links"}
      /\ "row" \in changes \/ row'[x] = row[x]
      /\ x \in Dish => "links" \in changes \/ link'[x] = link[x]
  <2>1. changes \subseteq {"row", "links"}
    BY DEF Changes
  <2>2. r.wrote = Columns(r)
    BY <1>1 DEF IsSound, FlushIsSound
  <2>3. "row" \in changes \/ row'[x] = row[x]
    BY <1>3, <2>2 DEF Changes
  <2>4. Tied(r) = Added(r)
    BY DEF Commit, Tied
  <2>5. "links" \notin changes => r.cut = {} /\ Added(r) = {}
    BY <2>4 DEF Changes
  <2>6. x \in Dish => "links" \in changes \/ link'[x] = link[x]
    BY <1>2, <2>5
  <2> QED BY <2>1, <2>3, <2>6
<1>5. /\ DOMAIN session' = Session /\ session'[s] = NoRequest
      /\ \A t \in Session \ {s} : session'[t] = Unseen(session[t], x, changes)
  BY DEF Commit
<1>6. ASSUME NEW t \in Session \ {s}
      PROVE  /\ IsRequest(session'[t])
             /\ \A f \in RequestFields \ {"blind"} : session'[t][f] = session[t][f]
             /\ session'[t].blind = IF session[t].target = x THEN session[t].blind \cup changes
                                    ELSE session[t].blind
  <2>1. IsUnseenOf(session[t], x, changes, Unseen(session[t], x, changes))
    BY <1>4, UnseenEffect DEF Inv, TypeOK
  <2>2. IsUnseenOf(session[t], x, changes, session'[t])
    BY <1>5, <2>1
  <2> QED BY <2>2 DEF IsUnseenOf
<1>7. TypeOK'
  <2>1. \A t \in Session : IsRequest(session'[t])
    BY <1>5, <1>6, NoRequestIsSound
  <2>2. \A d \in Dish : row'[d] \in DishRow
    BY <1>1, <1>3 DEF Inv, TypeOK
  <2>3. \A y \in Slot : row'[y] \in SlotRow
    BY <1>1, <1>3 DEF Inv, TypeOK
  <2>4. row' \in [Dish \cup Slot -> DishRow \cup SlotRow]
    <3>1. row' = [row EXCEPT ![x] = Overlay(row[x], Columns(r))]
      BY CommitEffect
    <3>2. row \in [Dish \cup Slot -> DishRow \cup SlotRow]
      BY DEF Inv, TypeOK
    <3>3. Overlay(row[x], Columns(r)) \in DishRow \cup SlotRow
      BY <1>1, <1>3
    <3> QED BY <3>1, <3>2, <3>3
  <2>5. \A d \in Dish : row'[d].known \/ link'[d] = {}
    BY <1>1, <1>2, <1>3 DEF Inv, TypeOK
  <2>6. asked' \in [Dish -> SUBSET Cafe]
    <3>1. Names(r, "cafes") => r.body.cafes \subseteq Cafe
      BY <1>1 DEF IsRequest, IsBody, Names
    <3>2. asked' = IF x \in Dish /\ Names(r, "cafes")
                   THEN [asked EXCEPT ![x] = r.body.cafes] ELSE asked
      BY DEF Commit
    <3> QED BY <3>1, <3>2 DEF Inv, TypeOK
  <2>7. excused' \subseteq Dish \cup Slot
    BY <1>1 DEF Commit, Inv, TypeOK
  <2>8. requests' \in 0 .. MaxRequests
    BY DEF Commit, Inv, TypeOK
  <2> QED BY <1>2, <1>5, <2>1, <2>2, <2>3, <2>4, <2>5, <2>6, <2>7, <2>8 DEF TypeOK
<1>8. ASSUME NEW t \in Session PROVE IsSound(session[t])'
  <2> PICK q : q = session'[t]
    OBVIOUS
  <2>1. CASE t = s
    BY <1>5, <2>1, NoRequestIsSound DEF IsSound
  <2>2. CASE t # s /\ q.step # "none"
    <3> PICK o : o = session[t]
      OBVIOUS
    <3>1. /\ q.step = o.step /\ q.actor = o.actor /\ q.target = o.target /\ q.body = o.body
          /\ q.seen = o.seen /\ q.cafes = o.cafes /\ q.wrote = o.wrote /\ q.done = o.done
          /\ q.cut = o.cut
          /\ q.blind = IF o.target = x THEN o.blind \cup changes ELSE o.blind
      BY <1>6, <2>2 DEF RequestFields
    <3>2. /\ o.target \in Dish \cup Slot /\ o.actor \in Actor
          /\ ReadingIsSound(o) /\ BodyIsSound(o) /\ FlushIsSound(o)
      BY <2>2, <3>1 DEF Inv, RequestsAreSound, IsSound
    <3>3. ReadingIsSound(q)'
      <4>1. CASE o.target # x
        BY <1>1, <1>2, <3>1, <3>2, <4>1 DEF ReadingIsSound
      <4>2. CASE o.target = x
        <5>1. o.seen.known /\ row'[x].known
          BY <1>1, <1>3, <2>2, <3>1, <4>2 DEF Inv, PostsAreAlone, Busy
        <5>2. "row" \in q.blind \/ q.seen = row'[x]
          BY <1>4, <3>1, <3>2, <4>2 DEF ReadingIsSound
        <5>3. x \in Dish => "links" \in q.blind \/ q.cafes = link'[x]
          BY <1>4, <3>1, <3>2, <4>2 DEF ReadingIsSound
        <5> QED BY <3>1, <3>2, <4>2, <5>1, <5>2, <5>3 DEF ReadingIsSound
      <4> QED BY <4>1, <4>2
    <3>4. BodyIsSound(q)
      BY <3>1, <3>2 DEF BodyIsSound, Names, Hours
    <3>5. FlushIsSound(q)
      <4>1. Added(q) = Added(o) /\ Removed(q) = Removed(o) /\ Columns(q) = Columns(o)
        BY <3>1, SameReading
      <4> QED BY <3>1, <3>2, <4>1 DEF FlushIsSound
    <3>6. /\ q.target \in Dish \cup Slot /\ q.actor \in Actor
          /\ ReadingIsSound(q)' /\ BodyIsSound(q) /\ FlushIsSound(q)
      BY <3>1, <3>2, <3>3, <3>4, <3>5
    <3> QED BY <3>6 DEF IsSound, ReadingIsSound, BodyIsSound, FlushIsSound
  <2>3. CASE q.step = "none"
    BY <2>3 DEF IsSound
  <2> QED BY <2>1, <2>2, <2>3
<1>9. PostsAreAlone'
  <2>1. \A t \in Session \ {s} : /\ session'[t].step = session[t].step
                                  /\ session'[t].target = session[t].target
                                  /\ session'[t].seen = session[t].seen
    BY <1>6 DEF RequestFields
  <2>2. session'[s].step = "none"
    BY <1>5, NoRequestIsSound
  <2> QED BY <2>1, <2>2 DEF Inv, PostsAreAlone, Busy
<1> QED BY <1>7, <1>8, <1>9 DEF Inv, RequestsAreSound

----------------------------------------------------------------------------
\* The invariant

LEMMA InitInv == Init => Inv
<1> SUFFICES ASSUME Init PROVE Inv
  OBVIOUS
<1>1. \A s \in Session : session[s] = NoRequest
  BY DEF Init
<1>2. TypeOK
  <2>1. \A d \in Dish : row[d] \in DishRow /\ row[d] = FirstDishes[d]
    BY CatalogAssumption DEF Init
  <2>2. \A x \in Slot : row[x] \in SlotRow
    BY CatalogAssumption DEF Init
  <2>3. row \in [Dish \cup Slot -> DishRow \cup SlotRow]
    BY <2>1, <2>2 DEF Init
  <2>4. link \in [Dish -> SUBSET Cafe] /\ asked \in [Dish -> SUBSET Cafe]
    BY CatalogAssumption DEF Init
  <2>5. \A d \in Dish : row[d].known \/ link[d] = {}
    BY <2>1, CatalogAssumption DEF Init
  <2>6. DOMAIN session = Session /\ requests \in 0 .. MaxRequests /\ excused = {}
    BY CatalogBounds DEF Init
  <2> QED BY <1>1, <2>1, <2>2, <2>3, <2>4, <2>5, <2>6, NoRequestIsSound DEF TypeOK
<1>3. RequestsAreSound
  BY <1>1, NoRequestIsSound DEF RequestsAreSound
<1>4. PostsAreAlone
  BY <1>1, NoRequestIsSound DEF PostsAreAlone, Busy
<1> QED BY <1>2, <1>3, <1>4 DEF Inv

LEMMA NextInv ==
    ASSUME Inv, [Next]_vars
    PROVE  Inv'
<1>1. ASSUME NEW s \in Session, Arrive(s) PROVE Inv'
  BY <1>1, ArriveInv
<1>2. ASSUME NEW s \in Session, CheckCafes(s) PROVE Inv'
  BY <1>2, CheckCafesInv
<1>3. ASSUME NEW s \in Session, WriteRow(s) PROVE Inv'
  BY <1>3, WriteRowInv
<1>4. ASSUME NEW s \in Session, RowConflict(s) \/ LinkConflict(s) \/ DeadlockAbort(s)
      PROVE  Inv'
  <2>1. Ends(s) /\ UNCHANGED <<row, link, requests, asked, excused>>
    BY <1>4 DEF RowConflict, LinkConflict, DeadlockAbort
  <2> QED BY <2>1, EndsInv
<1>5. ASSUME NEW s \in Session, Unlink(s) PROVE Inv'
  BY <1>5, UnlinkInv
<1>6. ASSUME NEW s \in Session, Link(s) PROVE Inv'
  BY <1>6, LinkInv
<1>7. ASSUME NEW s \in Session, Share(s) PROVE Inv'
  BY <1>7, ShareInv
<1>8. ASSUME NEW s \in Session, Commit(s) PROVE Inv'
  BY <1>8, CommitInv
<1>9. ASSUME UNCHANGED vars PROVE Inv'
  BY <1>9 DEF Inv, TypeOK, RequestsAreSound, IsSound, ReadingIsSound, BodyIsSound,
              FlushIsSound, PostsAreAlone, Busy, vars
<1> QED BY <1>1, <1>2, <1>3, <1>4, <1>5, <1>6, <1>7, <1>8, <1>9 DEF Next, Proceed

LEMMA AlwaysInv == Spec => []Inv
  BY InitInv, NextInv, PTL DEF Spec

----------------------------------------------------------------------------
\* The theorems

\* The tables, the links and the requests in flight are always of their types, and
\* a dish that is not in the table has no links (models/dish.py, models/slot.py).
THEOREM TypeCorrect == Spec => []TypeOK
<1>1. Inv => TypeOK
  BY DEF Inv
<1> QED BY <1>1, AlwaysInv, PTL

LEMMA MenusStay ==
    ASSUME Inv, MenusOfOneRequest, [Next]_vars
    PROVE  MenusOfOneRequest'
<1>1. CASE UNCHANGED <<link, asked, excused>>
  BY <1>1 DEF MenusOfOneRequest
<1>2. ASSUME NEW s \in Session, Commit(s) PROVE MenusOfOneRequest'
  <2> PICK r : r = session[s]
    OBVIOUS
  <2> PICK x : x = r.target
    OBVIOUS
  <2>1. CommitsAs(r, x)
    BY <1>2, CommitEffect
  <2>2. /\ asked' = IF x \in Dish /\ Names(r, "cafes")
                    THEN [asked EXCEPT ![x] = r.body.cafes] ELSE asked
        /\ excused' = IF ~Settles(r) THEN excused
                      ELSE IF Unsure(r) THEN excused \cup {x} ELSE excused \ {x}
    BY <1>2 DEF Commit
  <2>3. DOMAIN asked = Dish /\ Dish \cap Slot = {}
    BY CatalogAssumption DEF Inv, TypeOK
  <2>4. ASSUME NEW d \in Dish, d # x, d \notin excused' PROVE link'[d] = asked'[d]
    <3>1. d \notin excused /\ asked'[d] = asked[d]
      BY <2>2, <2>3, <2>4
    <3>2. link'[d] = link[d]
      BY <2>1, <2>4 DEF CommitsAs
    <3> QED BY <3>1, <3>2 DEF MenusOfOneRequest
  <2>5. ASSUME x \in Dish, x \notin excused' PROVE link'[x] = asked'[x]
    <3>1. CASE Names(r, "cafes")
      <4>1. "links" \notin r.blind
        BY <2>2, <2>3, <2>5, <3>1 DEF Settles, Unsure
      <4>2. link'[x] = (r.cafes \ Removed(r)) \cup Added(r)
        BY <2>1, <2>5, <4>1 DEF CommitsAs
      <4>3. IsRequest(r)
        BY <2>1 DEF CommitsAs
      <4>4. link'[x] = r.body["cafes"]
        BY <3>1, <4>2, <4>3, AddedAndRemoved
      <4> QED BY <2>2, <2>3, <2>5, <3>1, <4>4
    <3>2. CASE ~Names(r, "cafes")
      <4>1. link'[x] = link[x]
        BY <2>1, <2>5, <3>2 DEF CommitsAs
      <4>2. x \notin excused /\ asked' = asked
        BY <2>2, <2>3, <2>5, <3>2 DEF Settles
      <4> QED BY <2>5, <4>1, <4>2 DEF MenusOfOneRequest
    <3> QED BY <3>1, <3>2
  <2> QED BY <2>4, <2>5 DEF MenusOfOneRequest
<1>3. ASSUME NEW s \in Session, Arrive(s) PROVE UNCHANGED <<link, asked, excused>>
  BY <1>3 DEF Arrive, PostDish, PatchDish, PostSlot, PatchSlot, Begins, Arrives
<1>4. ASSUME NEW s \in Session, Proceed(s), ~Commit(s)
      PROVE  UNCHANGED <<link, asked, excused>>
  BY <1>4 DEF Proceed, CheckCafes, WriteRow, RowConflict, Unlink, Link, LinkConflict, Share,
              DeadlockAbort
<1> QED BY <1>1, <1>2, <1>3, <1>4 DEF Next, vars

\* The cafes of a dish are those the last request that named them asked for,
\* unless it had not seen another change of them: the flush removes and adds
\* relative to the list that was read (crud/base.py:271-282).
THEOREM MenusAreOfOneRequest == Spec => []MenusOfOneRequest
<1>1. Init => MenusOfOneRequest
  BY DEF Init, MenusOfOneRequest
<1> QED BY <1>1, MenusStay, AlwaysInv, PTL DEF Spec

LEMMA LengthsStay ==
    ASSUME Inv, SlotsHaveLength, [Next]_vars
    PROVE  SlotsHaveLength'
<1>1. CASE UNCHANGED <<row, excused>>
  BY <1>1 DEF SlotsHaveLength
<1>2. ASSUME NEW s \in Session, Commit(s) PROVE SlotsHaveLength'
  <2> PICK r : r = session[s]
    OBVIOUS
  <2> PICK x : x = r.target
    OBVIOUS
  <2>1. /\ IsRequest(r) /\ IsSound(r) /\ r.step = "links" /\ x \in Dish \cup Slot
        /\ row'[x] = Overlay(row[x], Columns(r))
        /\ \A y \in Dish \cup Slot : y # x => row'[y] = row[y]
    BY <1>2, CommitEffect DEF CommitsAs
  <2>2. excused' = IF ~Settles(r) THEN excused
                   ELSE IF Unsure(r) THEN excused \cup {x} ELSE excused \ {x}
    BY <1>2 DEF Commit
  <2>3. ASSUME NEW y \in Slot, y # x, row'[y].known, y \notin excused'
        PROVE  row'[y].start < row'[y].end
    <3>1. row'[y] = row[y] /\ y \notin excused
      BY <2>1, <2>2, <2>3
    <3> QED BY <2>3, <3>1 DEF SlotsHaveLength
  <2>4. ASSUME x \in Slot, x \notin excused' PROVE row'[x].start < row'[x].end
    <3>1. IsRowOf(r, row[x], row'[x])
      BY <2>1, ColumnsMakeRow DEF Inv
    <3>2. "start" \in DOMAIN row[x] \ {"known"} /\ "end" \in DOMAIN row[x] \ {"known"}
      BY <2>4 DEF Inv, TypeOK, SlotRow
    <3>3. BodyIsSound(r) /\ ReadingIsSound(r) /\ x \notin Dish
      BY <2>1, <2>4, CatalogAssumption DEF IsSound
    <3>4. CASE Hours(r) = {}
      <4>1. "start" \notin DOMAIN r.body /\ "end" \notin DOMAIN r.body
        BY <3>4 DEF Hours
      <4>2. row[x].known
        BY <2>4, <3>3, <3>4 DEF BodyIsSound, ReadingIsSound
      <4>3. row'[x]["start"] = row[x]["start"] /\ row'[x]["end"] = row[x]["end"]
        BY <3>1, <3>2, <4>1, <4>2 DEF IsRowOf, Names
      <4>4. x \notin excused
        BY <2>2, <2>4, <3>4 DEF Settles
      <4> QED BY <2>4, <4>2, <4>3, <4>4 DEF SlotsHaveLength
    <3>5. CASE Hours(r) # {}
      <4>1. ~OneEnd(r) /\ "row" \notin r.blind
        BY <2>2, <2>4, <3>5 DEF Settles, Unsure
      <4>2. Hours(r) # {"start"} /\ Hours(r) # {"end"}
        BY <4>1, FS_Singleton DEF OneEnd
      <4>3. "start" \in DOMAIN r.body /\ "end" \in DOMAIN r.body
        BY <3>5, <4>2 DEF Hours
      <4>4. row'[x]["start"] = r.body["start"] /\ row'[x]["end"] = r.body["end"]
        BY <3>1, <3>2, <4>1, <4>3 DEF IsRowOf, Names
      <4>5. r.body["start"] < r.body["end"]
        BY <2>4, <3>3, <4>3 DEF BodyIsSound, InOrder
      <4> QED BY <4>4, <4>5
    <3> QED BY <3>4, <3>5
  <2> QED BY <2>3, <2>4 DEF SlotsHaveLength
<1>3. ASSUME NEW s \in Session, Arrive(s) PROVE UNCHANGED <<row, excused>>
  BY <1>3 DEF Arrive, PostDish, PatchDish, PostSlot, PatchSlot, Begins, Arrives
<1>4. ASSUME NEW s \in Session, Proceed(s), ~Commit(s) PROVE UNCHANGED <<row, excused>>
  BY <1>4 DEF Proceed, CheckCafes, WriteRow, RowConflict, Unlink, Link, LinkConflict, Share,
              DeadlockAbort
<1> QED BY <1>1, <1>2, <1>3, <1>4 DEF Next, vars

\* A slot begins before it ends unless its hours were last set one at a time or
\* over a change not seen: validate_times compares what the body has
\* (schemas/slots.py), not what will be in the row.
THEOREM SlotsKeepLength == Spec => []SlotsHaveLength
<1>1. Init => SlotsHaveLength
  BY CatalogAssumption DEF Init, SlotsHaveLength
<1> QED BY <1>1, LengthsStay, AlwaysInv, PTL DEF Spec

\* A COMMIT of a manager is about a dish that was and stays in the cafes that are
\* the manager's to manage, unless its links were changed in the meantime
\* (services/dish.py:51-54 checks the cafes before and after).
THEOREM ManagersStayHome == Spec => ManagersKeepToTheirCafe
<1>1. ASSUME Inv, NEW s \in Session, Commit(s),
             session[s].target \in Dish, "links" \notin session[s].blind
      PROVE  link[session[s].target] \cup link'[session[s].target]
               \subseteq Manages[session[s].actor]
  <2> PICK r : r = session[s]
    OBVIOUS
  <2>1. CommitsAs(r, r.target)
    BY <1>1, CommitEffect
  <2>2. /\ link[r.target] = r.cafes /\ link'[r.target] = (r.cafes \ Removed(r)) \cup Added(r)
        /\ r.cafes \cup NewCafes(r.body, r.cafes) \subseteq Manages[r.actor]
    BY <1>1, <2>1 DEF CommitsAs, IsSound, BodyIsSound
  <2>3. Added(r) \subseteq NewCafes(r.body, r.cafes)
    BY DEF Added, Names, NewCafes
  <2> QED BY <2>2, <2>3
<1>2. Inv => (\A s \in Session : Commit(s) =>
                LET r == session[s] IN
                r.target \in Dish /\ "links" \notin r.blind
                    => link[r.target] \cup link'[r.target] \subseteq Manages[r.actor])
  BY <1>1
<1> QED BY <1>2, AlwaysInv, PTL DEF ManagersKeepToTheirCafe

\* What a PATCH names is in the row after its COMMIT, unless it looked unchanged when
\* it was read and another has changed the row since, and what it does not name is as
\* it was: the UPDATE writes just the columns that differ from the row as it was read
\* (crud/base.py).
THEOREM ColumnsAreWritten == Spec => ColumnsTakeEffect
<1>1. ASSUME Inv, NEW s \in Session, Commit(s),
             NEW f \in DOMAIN row[session[s].target] \ {"known"}
      PROVE  IF Names(session[s], f)
             THEN \/ row'[session[s].target][f] = session[s].body[f]
                  \/ /\ session[s].seen[f] = session[s].body[f]
                     /\ "row" \in session[s].blind
             ELSE row[session[s].target].known
                    => row'[session[s].target][f] = row[session[s].target][f]
  <2> PICK r : r = session[s]
    OBVIOUS
  <2>1. IsRequest(r) /\ IsSound(r) /\ r.step = "links"
        /\ row'[r.target] = Overlay(row[r.target], Columns(r))
    BY <1>1, CommitEffect DEF CommitsAs
  <2>2. IsRowOf(r, row[r.target], row'[r.target])
    BY <1>1, <2>1, ColumnsMakeRow DEF Inv
  <2> QED BY <1>1, <2>2 DEF IsRowOf
<1>2. Inv => (\A s \in Session : Commit(s) =>
                LET r == session[s] IN
                \A f \in DOMAIN row[r.target] \ {"known"} :
                  IF Names(r, f)
                  THEN \/ row'[r.target][f] = r.body[f]
                       \/ r.seen[f] = r.body[f] /\ "row" \in r.blind
                  ELSE row[r.target].known => row'[r.target][f] = row[r.target][f])
  BY <1>1
<1> QED BY <1>2, AlwaysInv, PTL DEF ColumnsTakeEffect
=============================================================================
