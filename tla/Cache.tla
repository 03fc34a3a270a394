------------------------------- MODULE Cache -------------------------------
(***************************************************************************)
(* The Redis cache of one model of CRUDBase: the key of each object and    *)
(* the three lists ("all", "all:true", "all:false"), filled by readers     *)
(* after a miss and deleted by writers after their COMMIT.                 *)
(*                                                                         *)
(* Redis and PostgreSQL are two systems: between a reader's SELECT and its *)
(* SET, and between a writer's COMMIT and its DEL, anything may happen,    *)
(* and every RedisError is swallowed.  A hit changes nothing and needs no  *)
(* action.                                                                 *)
(*                                                                         *)
(* A definition marked "mutant" takes no part in the specification.        *)
(***************************************************************************)
EXTENDS Naturals

CONSTANTS
    Object,           \* objects of the model (rows of its table)
    Reader,           \* requests that read through the cache
    Writer,           \* requests that write the table
    Silent,           \* are there writes that leave the keys alone?
    MaxWrites,        \* bound: committed writes
    MaxLost           \* bound: deletions that do not reach Redis

ListKey == {"all", "all:true", "all:false"}
Key == ListKey \cup Object

ASSUME WritesAssumption == MaxWrites \in Nat /\ MaxLost \in Nat /\ Silent \in BOOLEAN
ASSUME ObjectAssumption == Object \cap ListKey = {}

VARIABLES
    row,        \* Object -> the committed row: its last write, is it active?
    writes,     \* committed writes so far; a write's number is its version
    log,        \* version -> the object it wrote and what became of its DEL
    cache,      \* Key -> what Redis holds
    read,       \* Reader -> the miss in flight
    delete,     \* Writer -> the keys it is about to delete, after the COMMIT
    lost        \* deletions that did not reach Redis so far

vars == <<row, writes, log, cache, read, delete, lost>>

Version == 1 .. MaxWrites
Body == SUBSET (Object \X Version)

\* A key holds a body: the rows it names, each at the version it had.  asOf
\* and overtaken are history: the writes its SELECT has seen, and whether a
\* deletion of the key went by between that SELECT and the SET.
Entry == [body : Body, asOf : 0 .. MaxWrites, overtaken : BOOLEAN]
Nothing == [body |-> {}, asOf |-> 0, overtaken |-> FALSE]
Cached(k) == cache[k].body # {}

Exists(o) == row[o].version > 0

\* What a query of the database answers for a key: get and get_all(is_active).
Selected(k) ==
    {o \in Object : /\ Exists(o)
                    /\ \/ k = "all" \/ k = o
                       \/ k = "all:true" /\ row[o].active
                       \/ k = "all:false" /\ ~row[o].active}
Answer(k) == {<<o, row[o].version>> : o \in Selected(k)}

----------------------------------------------------------------------------
\* Readers: get_with_cache and get_all_with_cache.

\* GET finds nothing, or fails (which reads as nothing); then the SELECT.  What
\* is not there, an object or every row of a list, is answered and not cached.
Miss(r, k) ==
    /\ read[r].key = "none"
    /\ Answer(k) # {}
    /\ ~Cached(k) \/ lost < MaxLost
    /\ lost' = IF Cached(k) THEN lost + 1 ELSE lost
    /\ read' = [read EXCEPT ![r] =
         [key |-> k, entry |-> [body |-> Answer(k), asOf |-> writes, overtaken |-> FALSE]]]
    /\ UNCHANGED <<row, writes, log, cache, delete>>

NoRead == [key |-> "none", entry |-> Nothing]

\* SET key value EX seconds, whatever the key holds by now.
Fill(r) ==
    /\ read[r].key # "none"
    /\ cache' = [cache EXCEPT ![read[r].key] = read[r].entry]
    /\ read' = [read EXCEPT ![r] = NoRead]
    /\ UNCHANGED <<row, writes, log, delete, lost>>

\* The SET fails, or the request dies before it: nothing is cached.
FillLost(r) ==
    /\ read[r].key # "none"
    /\ read' = [read EXCEPT ![r] = NoRead]
    /\ UNCHANGED <<row, writes, log, cache, delete, lost>>

----------------------------------------------------------------------------
\* Writers: create and update COMMIT first and delete afterwards.

NoDelete == [version |-> 0, keys |-> {}]

Written(o, active, fate) ==
    /\ writes < MaxWrites
    /\ writes' = writes + 1
    /\ row' = [row EXCEPT ![o] = [version |-> writes + 1, active |-> active]]
    /\ log' = [log EXCEPT ![writes + 1] = [object |-> o, fate |-> fate]]

DeletedByUpdateOfLists(o) == ListKey                               \* mutant
DeletedByUpdate(o) == ListKey \cup {o}

\* CRUDBase.create: a new row is active; only the lists can name it.
Create(w, o) ==
    /\ delete[w] = NoDelete
    /\ ~Exists(o)
    /\ Written(o, TRUE, "due")
    /\ delete' = [delete EXCEPT ![w] = [version |-> writes + 1, keys |-> ListKey]]
    /\ UNCHANGED <<cache, read, lost>>

\* CRUDBase.update: also what hides an object and what brings it back.
Update(w, o) ==
    /\ delete[w] = NoDelete
    /\ Exists(o)
    /\ \E active \in BOOLEAN : Written(o, active, "due")
    /\ delete' = [delete EXCEPT ![w] = [version |-> writes + 1, keys |-> DeletedByUpdate(o)]]
    /\ UNCHANGED <<cache, read, lost>>

\* Slots and tables are created by create_with_cafe, which commits and deletes
\* no key.
CreateWithCafe(o) ==
    /\ Silent
    /\ ~Exists(o)
    /\ Written(o, TRUE, "silent")
    /\ UNCHANGED <<cache, read, delete, lost>>

\* Bodies embed other rows (a cafe's managers, a table's cafe): a write of
\* those changes what the object's keys should hold, and deletes none of them.
RelatedWrite(o) ==
    /\ Silent
    /\ Exists(o)
    /\ Written(o, row[o].active, "silent")
    /\ UNCHANGED <<cache, read, delete, lost>>

\* DEL key ...: one command, so all the keys go at once.  A miss in flight
\* keeps what it has read.
Delete(w) ==
    LET keys == delete[w].keys
    IN /\ keys # {}
       /\ cache' = [k \in Key |-> IF k \in keys THEN Nothing ELSE cache[k]]
       /\ read' = [r \in Reader |->
                     IF read[r].key \in keys
                     THEN [read[r] EXCEPT !.entry.overtaken = TRUE] ELSE read[r]]
       /\ log' = [log EXCEPT ![delete[w].version].fate = "deleted"]
       /\ delete' = [delete EXCEPT ![w] = NoDelete]
       /\ UNCHANGED <<row, writes, lost>>

DeleteLostAndStillDue(w) ==                                        \* mutant
    /\ delete[w].keys # {}
    /\ lost < MaxLost
    /\ lost' = lost + 1
    /\ log' = [log EXCEPT ![delete[w].version].fate = "lost"]
    /\ UNCHANGED <<row, writes, cache, read, delete>>

\* The process dies after the COMMIT, or DEL raises: a RedisError is logged
\* and the request succeeds, anything else is a 500 over a committed write.
DeleteLost(w) ==
    /\ delete[w].keys # {}
    /\ lost < MaxLost
    /\ lost' = lost + 1
    /\ log' = [log EXCEPT ![delete[w].version].fate = "lost"]
    /\ delete' = [delete EXCEPT ![w] = NoDelete]
    /\ UNCHANGED <<row, writes, cache, read>>

----------------------------------------------------------------------------
\* Redis itself: an entry lives redis_cache_expire_seconds.

ExpireObjects(k) ==                                                \* mutant
    /\ Cached(k) /\ k \in Object
    /\ cache' = [cache EXCEPT ![k] = Nothing]
    /\ UNCHANGED <<row, writes, log, read, delete, lost>>

Expire(k) ==
    /\ Cached(k)
    /\ cache' = [cache EXCEPT ![k] = Nothing]
    /\ UNCHANGED <<row, writes, log, read, delete, lost>>

----------------------------------------------------------------------------

Init ==
    /\ row = [o \in Object |-> [version |-> 0, active |-> TRUE]]
    /\ writes = 0
    /\ log = [v \in Version |-> [object |-> "none", fate |-> "none"]]
    /\ cache = [k \in Key |-> Nothing]
    /\ read = [r \in Reader |-> NoRead]
    /\ delete = [w \in Writer |-> NoDelete]
    /\ lost = 0

ReaderStep(r) == Fill(r) \/ FillLost(r)
WriterStep(w) == Delete(w) \/ DeleteLost(w)

Next ==
    \/ \E r \in Reader, k \in Key : Miss(r, k)
    \/ \E r \in Reader : ReaderStep(r)
    \/ \E w \in Writer, o \in Object : Create(w, o) \/ Update(w, o)
    \/ \E o \in Object : CreateWithCafe(o) \/ RelatedWrite(o)
    \/ \E w \in Writer : WriterStep(w)
    \/ \E k \in Key : Expire(k)

Spec == Init /\ [][Next]_vars

\* A request in flight goes on or dies, and Redis expires what it holds.
Fairness ==
    /\ \A r \in Reader : WF_vars(ReaderStep(r))
    /\ \A w \in Writer : WF_vars(WriterStep(w))
    /\ \A k \in Key : WF_vars(Expire(k))

FairSpec == Spec /\ Fairness

----------------------------------------------------------------------------
\* Properties

\* Every key holds a body of existing versions, every deletion due is the last
\* step of a logged write.
TypeOK ==
    /\ row \in [Object -> [version : 0 .. MaxWrites, active : BOOLEAN]]
    /\ writes \in 0 .. MaxWrites /\ lost \in 0 .. MaxLost
    /\ log \in [Version -> [object : Object \cup {"none"},
                            fate : {"none", "due", "deleted", "lost", "silent"}]]
    /\ cache \in [Key -> Entry]
    /\ read \in [Reader -> [key : Key \cup {"none"}, entry : Entry]]
    /\ delete \in [Writer -> [version : 0 .. MaxWrites, keys : SUBSET Key]]
    /\ \A w \in Writer : delete[w].version > 0 => log[delete[w].version].fate = "due"

Stale(k) == Cached(k) /\ cache[k].body # Answer(k)

\* A write, after the entry's SELECT, of a row the key's answer may name, whose
\* deletion is still to come, was lost, or was never meant to be.
Undeleted(k) ==
    \E v \in cache[k].asOf + 1 .. writes :
        /\ k \in ListKey \cup {log[v].object}
        /\ log[v].fate # "deleted"

\* The cache is wrong only where the code accepts it: the entry was filled by a
\* reader that a deletion overtook, or the write's own deletion has not come,
\* was lost, or is one the code does not send.  Deleting the three lists and
\* the object after the COMMIT covers every other order of readers and writers.
StaleIsExcused == \A k \in Key : Stale(k) => cache[k].overtaken \/ Undeleted(k)

\* When writes stop, the cache comes to agree with the database for good: every
\* wrong entry has a lifetime, and a reader that has read an old body can put it
\* back only once.
CacheConverges == <>[](\A k \in Key : ~Stale(k))

=============================================================================
