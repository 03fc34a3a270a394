---------------------------- MODULE Cache_proofs ----------------------------
(***************************************************************************)
(* Proofs about Cache, for any set of objects, readers and writers, and    *)
(* any number of writes and lost deletions.                                *)
(*                                                                         *)
(* StaleIsExcused speaks of what Redis holds.  What makes it inductive is  *)
(* the same of what a reader is about to put there (IsAccounted for both), *)
(* and what a deletion that is due will delete: the three lists always,    *)
(* and the key of the object it wrote unless nobody can have read an older *)
(* row of it, which is why CRUDBase.create need not delete it.             *)
(***************************************************************************)
EXTENDS Cache, TLAPS

\* A write that e, held under k, has not seen and no deletion has followed.
Unfollowed(e, k) ==
    \E v \in e.asOf + 1 .. writes :
        /\ k \in ListKey \cup {log[v].object}
        /\ log[v].fate # "deleted"

\* A deletion that is due reaches k, or e is younger than the write.
WithinReach(e, k) ==
    \A w \in Writer :
        /\ delete[w].version > 0
        /\ k \in ListKey \cup {log[delete[w].version].object}
        => k \in delete[w].keys \/ e.asOf >= delete[w].version

IsAccounted(e, k) ==
    /\ e.asOf <= writes
    /\ k \in Object => Exists(k)
    /\ e.body = Answer(k) \/ e.overtaken \/ Unfollowed(e, k)
    /\ WithinReach(e, k)

EntriesAreAccounted ==
    /\ \A k \in Key : Cached(k) => IsAccounted(cache[k], k)
    /\ \A r \in Reader : read[r].key # "none" =>
         read[r].entry.body # {} /\ IsAccounted(read[r].entry, read[r].key)

\* Each deletion that is due follows a write of its own.
DeletionsFollow ==
    /\ \A w \in Writer : delete[w] # NoDelete =>
         delete[w].version \in 1 .. writes /\ ListKey \subseteq delete[w].keys
    /\ \A w, x \in Writer :
         w # x /\ delete[w].version > 0 => delete[w].version # delete[x].version

Inv == TypeOK /\ EntriesAreAccounted /\ DeletionsFollow

----------------------------------------------------------------------------
\* A query answers with existing rows at the versions they have, and a write of
\* one object changes the answers for that object and the lists only.

LEMMA AnswerType ==
    ASSUME TypeOK, NEW k \in Key
    PROVE  Answer(k) \in Body
<1>1. ASSUME NEW o \in Selected(k) PROVE <<o, row[o].version>> \in Object \X Version
  BY WritesAssumption DEF Selected, Exists, TypeOK, Version
<1> QED BY <1>1 DEF Answer, Body

LEMMA AnswerStays ==
    ASSUME TypeOK, NEW o \in Object, NEW k \in Key \ (ListKey \cup {o}),
           \A x \in Object \ {o} : row'[x] = row[x]
    PROVE  Answer(k)' = Answer(k)
<1>1. Selected(k)' = Selected(k)
  BY DEF Selected, Exists, ListKey, Key
<1>2. \A x \in Selected(k) : x \in Object \ {o}
  BY DEF Selected, Exists, ListKey, Key
<1> QED BY <1>1, <1>2 DEF Answer

----------------------------------------------------------------------------
\* Types, and what deletions there are

\* A COMMIT of a row: its number is new, its fate open.
LEMMA WrittenEffect ==
    ASSUME TypeOK, NEW o \in Object, NEW active \in BOOLEAN, NEW fate \in {"due", "silent"},
           Written(o, active, fate)
    PROVE  /\ writes' = writes + 1 /\ writes' \in Version
           /\ row' \in [Object -> [version : 0 .. MaxWrites, active : BOOLEAN]]
           /\ \A x \in Object \ {o} : row'[x] = row[x]
           /\ row'[o].version = writes + 1
           /\ log' \in [Version -> [object : Object \cup {"none"},
                                    fate : {"none", "due", "deleted", "lost", "silent"}]]
           /\ log'[writes + 1].object = o /\ log'[writes + 1].fate = fate
           /\ \A v \in 1 .. writes : log'[v] = log[v]
<1>1. writes + 1 \in Version /\ writes \in Nat
  BY WritesAssumption DEF TypeOK, Written, Version
<1> QED BY <1>1, WritesAssumption DEF TypeOK, Written, Version

\* The deletion a writer owes from now on, or none, when it has written o.
Owes(o) ==
    \/ UNCHANGED delete
    \/ \E w \in Writer, keys \in SUBSET Key :
         /\ delete[w] = NoDelete /\ ListKey \subseteq keys
         /\ delete' = [delete EXCEPT ![w] = [version |-> writes + 1, keys |-> keys]]
         /\ o \in keys \/ ~Exists(o)

\* The four ways to write.
LEMMA WriteEffect ==
    ASSUME TypeOK, NEW o \in Object,
           (\E w \in Writer : Create(w, o) \/ Update(w, o)) \/ CreateWithCafe(o) \/ RelatedWrite(o)
    PROVE  /\ \E active \in BOOLEAN, fate \in {"due", "silent"} :
                /\ Written(o, active, fate)
                /\ fate = "due" \/ UNCHANGED delete
           /\ Owes(o) /\ UNCHANGED <<cache, read, lost>>
<1>1. ASSUME NEW w \in Writer, Create(w, o)
      PROVE  Written(o, TRUE, "due") /\ Owes(o) /\ UNCHANGED <<cache, read, lost>>
  <2>1. ListKey \in SUBSET Key
    BY DEF Key
  <2> QED BY <1>1, <2>1 DEF Create, Owes
<1>2. ASSUME NEW w \in Writer, Update(w, o)
      PROVE  /\ \E active \in BOOLEAN : Written(o, active, "due")
             /\ Owes(o) /\ UNCHANGED <<cache, read, lost>>
  <2>1. DeletedByUpdate(o) \in SUBSET Key /\ o \in DeletedByUpdate(o)
        /\ ListKey \subseteq DeletedByUpdate(o)
    BY DEF Key, DeletedByUpdate
  <2> QED BY <1>2, <2>1 DEF Update, Owes
<1>3. ASSUME CreateWithCafe(o)
      PROVE  Written(o, TRUE, "silent") /\ UNCHANGED <<cache, read, delete, lost>>
  BY <1>3 DEF CreateWithCafe
<1>4. ASSUME RelatedWrite(o)
      PROVE  /\ row[o].active \in BOOLEAN /\ Written(o, row[o].active, "silent")
             /\ UNCHANGED <<cache, read, delete, lost>>
  BY <1>4 DEF RelatedWrite, TypeOK
<1> QED BY <1>1, <1>2, <1>3, <1>4 DEF Owes

\* A deletion that is over, sent or lost.
LEMMA DeletionEffect ==
    ASSUME TypeOK, DeletionsFollow, NEW w \in Writer, WriterStep(w)
    PROVE  LET v == delete[w].version IN
           /\ v \in 1 .. writes /\ delete' = [delete EXCEPT ![w] = NoDelete]
           /\ \E fate \in {"deleted", "lost"} : log' = [log EXCEPT ![v].fate = fate]
           /\ UNCHANGED <<row, writes>> /\ lost' \in 0 .. MaxLost
<1>1. delete[w] # NoDelete
  BY DEF WriterStep, Delete, DeleteLost, NoDelete
<1> QED BY <1>1, WritesAssumption DEF WriterStep, Delete, DeleteLost, DeletionsFollow, TypeOK

LEMMA InitInv == Init => Inv
<1> SUFFICES ASSUME Init PROVE Inv
  OBVIOUS
<1>1. Nothing \in Entry /\ Nothing.body = {}
  BY WritesAssumption DEF Nothing, Entry, Body
<1>2. TypeOK
  BY <1>1, WritesAssumption DEF Init, TypeOK, NoRead, NoDelete
<1>3. EntriesAreAccounted
  BY <1>1 DEF Init, EntriesAreAccounted, Cached, NoRead
<1>4. DeletionsFollow
  BY DEF Init, DeletionsFollow, NoDelete
<1> QED BY <1>2, <1>3, <1>4 DEF Inv

LEMMA TypeStep == Inv /\ [Next]_vars => TypeOK' /\ DeletionsFollow'
<1> SUFFICES ASSUME TypeOK, DeletionsFollow, [Next]_vars PROVE TypeOK' /\ DeletionsFollow'
  BY DEF Inv
<1>1. Nothing \in Entry
  BY WritesAssumption DEF Nothing, Entry, Body
<1>2. ASSUME NEW r \in Reader, NEW k \in Key, Miss(r, k)
      PROVE  TypeOK' /\ DeletionsFollow'
  <2>1. [body |-> Answer(k), asOf |-> writes, overtaken |-> FALSE] \in Entry
    BY AnswerType DEF Entry, TypeOK
  <2> QED BY <1>2, <2>1, WritesAssumption DEF Miss, TypeOK, DeletionsFollow
<1>3. ASSUME NEW r \in Reader, ReaderStep(r)
      PROVE  TypeOK' /\ DeletionsFollow'
  <2>1. UNCHANGED <<row, writes, log, delete, lost>>
    BY <1>3 DEF ReaderStep, Fill, FillLost
  <2>2. NoRead \in [key : Key \cup {"none"}, entry : Entry]
    BY <1>1 DEF NoRead
  <2>3. cache' \in [Key -> Entry]
        /\ read' \in [Reader -> [key : Key \cup {"none"}, entry : Entry]]
    <3>1. read[r].entry \in Entry /\ cache \in [Key -> Entry]
          /\ read \in [Reader -> [key : Key \cup {"none"}, entry : Entry]]
      BY DEF TypeOK
    <3>2. /\ read' = [read EXCEPT ![r] = NoRead]
          /\ cache' = cache \/ cache' = [cache EXCEPT ![read[r].key] = read[r].entry]
      BY <1>3 DEF ReaderStep, Fill, FillLost
    <3> QED BY <2>2, <3>1, <3>2
  <2> QED BY <2>1, <2>3 DEF TypeOK, DeletionsFollow
<1>4. ASSUME NEW o \in Object,
             (\E w \in Writer : Create(w, o) \/ Update(w, o))
               \/ CreateWithCafe(o) \/ RelatedWrite(o)
      PROVE  TypeOK' /\ DeletionsFollow'
  <2> PICK active \in BOOLEAN, fate \in {"due", "silent"} :
          Written(o, active, fate) /\ (fate = "due" \/ UNCHANGED delete)
    BY <1>4, WriteEffect
  <2>1. /\ Owes(o) /\ UNCHANGED <<cache, read, lost>>
    BY <1>4, WriteEffect
  <2>2. /\ writes' = writes + 1 /\ writes' \in Version /\ writes \in Nat
        /\ row' \in [Object -> [version : 0 .. MaxWrites, active : BOOLEAN]]
        /\ log' \in [Version -> [object : Object \cup {"none"},
                                 fate : {"none", "due", "deleted", "lost", "silent"}]]
        /\ log'[writes + 1].fate = fate
        /\ \A v \in 1 .. writes : log'[v] = log[v]
    BY WrittenEffect DEF TypeOK
  <2>3. CASE UNCHANGED delete
    BY <2>1, <2>2, <2>3 DEF TypeOK, DeletionsFollow, NoDelete, Version
  <2>4. CASE delete' # delete
    <3> PICK w \in Writer, keys \in SUBSET Key :
            /\ delete[w] = NoDelete /\ ListKey \subseteq keys
            /\ delete' = [delete EXCEPT ![w] = [version |-> writes + 1, keys |-> keys]]
      BY <2>1, <2>4 DEF Owes
    <3>1. delete' \in [Writer -> [version : 0 .. MaxWrites, keys : SUBSET Key]]
      BY <2>2 DEF TypeOK, Version
    <3>2. \A x \in Writer : delete'[x].version > 0 => log'[delete'[x].version].fate = "due"
      BY <2>2, <2>4, <3>1 DEF TypeOK, DeletionsFollow, NoDelete
    <3>3. TypeOK'
      BY <2>1, <2>2, <3>1, <3>2 DEF TypeOK, Version
    <3>4. ASSUME NEW x \in Writer, delete'[x] # NoDelete
          PROVE  delete'[x].version \in 1 .. writes' /\ ListKey \subseteq delete'[x].keys
      BY <2>2, <3>4 DEF TypeOK, DeletionsFollow
    <3>5. \A x \in Writer : delete[x].version \in 0 .. writes
      BY <2>2 DEF TypeOK, DeletionsFollow, NoDelete
    <3>6. \A x, y \in Writer :
            x # y /\ delete'[x].version > 0 => delete'[x].version # delete'[y].version
      BY <2>2, <3>5 DEF TypeOK, DeletionsFollow
    <3>7. DeletionsFollow'
      BY <3>4, <3>6 DEF DeletionsFollow
    <3> QED BY <3>3, <3>7
  <2> QED BY <2>3, <2>4
<1>5. ASSUME NEW w \in Writer, WriterStep(w)
      PROVE  TypeOK' /\ DeletionsFollow'
  <2> DEFINE v == delete[w].version
  <2>1. /\ v \in 1 .. writes /\ delete' = [delete EXCEPT ![w] = NoDelete]
        /\ UNCHANGED <<row, writes>> /\ lost' \in 0 .. MaxLost
    BY <1>5, DeletionEffect
  <2> PICK fate \in {"deleted", "lost"} : log' = [log EXCEPT ![v].fate = fate]
    BY <1>5, DeletionEffect
  <2>2. cache' \in [Key -> Entry]
        /\ read' \in [Reader -> [key : Key \cup {"none"}, entry : Entry]]
    <3>1. CASE Delete(w)
      <4>1. cache' \in [Key -> Entry]
        BY <1>1, <3>1 DEF Delete, TypeOK
      <4>2. ASSUME NEW r \in Reader
            PROVE  [read[r] EXCEPT !.entry.overtaken = TRUE]
                     \in [key : Key \cup {"none"}, entry : Entry]
        <5>1. /\ read[r].key \in Key \cup {"none"} /\ read[r].entry \in Entry
              /\ read[r] = [key |-> read[r].key, entry |-> read[r].entry]
          BY DEF TypeOK
        <5>2. [read[r].entry EXCEPT !.overtaken = TRUE] \in Entry
          BY <5>1 DEF Entry
        <5> QED BY <5>1, <5>2
      <4> QED BY <3>1, <4>1, <4>2 DEF Delete, TypeOK
    <3>2. CASE DeleteLost(w)
      BY <3>2 DEF DeleteLost, TypeOK
    <3> QED BY <1>5, <3>1, <3>2 DEF WriterStep
  <2>3. log' \in [Version -> [object : Object \cup {"none"},
                              fate : {"none", "due", "deleted", "lost", "silent"}]]
    <3>1. v \in Version
      BY <2>1 DEF TypeOK, Version
    <3>2. [log[v] EXCEPT !.fate = fate] \in [object : Object \cup {"none"},
                              fate : {"none", "due", "deleted", "lost", "silent"}]
      BY <3>1 DEF TypeOK
    <3> QED BY <3>2 DEF TypeOK
  <2>4. delete' \in [Writer -> [version : 0 .. MaxWrites, keys : SUBSET Key]]
    BY <2>1, WritesAssumption DEF TypeOK, NoDelete
  <2>5. \A x \in Writer : delete'[x].version > 0 => log'[delete'[x].version].fate = "due"
    BY <2>1, WritesAssumption DEF TypeOK, DeletionsFollow, NoDelete, Version
  <2>6. DeletionsFollow'
    <3>1. \A x \in Writer : delete'[x] = IF x = w THEN NoDelete ELSE delete[x]
      BY <2>1 DEF TypeOK
    <3>2. NoDelete.version = 0 /\ v # 0
      BY <2>1 DEF NoDelete, TypeOK
    <3> QED BY <2>1, <3>1, <3>2 DEF DeletionsFollow
  <2> QED BY <2>1, <2>2, <2>3, <2>4, <2>5, <2>6 DEF TypeOK
<1>6. ASSUME NEW k \in Key, Expire(k)
      PROVE  TypeOK' /\ DeletionsFollow'
  BY <1>1, <1>6 DEF Expire, TypeOK, DeletionsFollow
<1>7. CASE UNCHANGED vars
  BY <1>7 DEF vars, TypeOK, DeletionsFollow
<1> QED BY <1>2, <1>3, <1>4, <1>5, <1>6, <1>7 DEF Next

----------------------------------------------------------------------------
\* Steps keep every entry accounted for: those Redis holds and those in flight.

\* A write: what it makes of an older answer is a write unfollowed.
LEMMA AccountWritten ==
    ASSUME Inv, NEW o \in Object, NEW active \in BOOLEAN, NEW fate \in {"due", "silent"},
           Written(o, active, fate), Owes(o),
           NEW k \in Key, NEW e \in Entry, IsAccounted(e, k)
    PROVE  IsAccounted(e, k)'
<1>1. /\ writes' = writes + 1 /\ writes \in Nat
      /\ \A x \in Object \ {o} : row'[x] = row[x]
      /\ row'[o].version = writes + 1
      /\ log'[writes + 1].object = o /\ log'[writes + 1].fate = fate
      /\ \A v \in 1 .. writes : log'[v] = log[v]
  BY WrittenEffect DEF Inv, TypeOK
<1>2. e.asOf \in 0 .. writes
  BY DEF IsAccounted, Entry
<1>3. k \in Object => Exists(k)'
  BY <1>1 DEF IsAccounted, Exists
<1>4. e.body = Answer(k)' \/ e.overtaken \/ Unfollowed(e, k)'
  <2>1. CASE k \in ListKey \cup {o}
    <3>1. writes + 1 \in e.asOf + 1 .. writes + 1
      BY <1>1, <1>2
    <3> QED BY <1>1, <2>1, <3>1 DEF Unfollowed
  <2>2. CASE k \notin ListKey \cup {o}
    <3>1. Answer(k)' = Answer(k)
      BY <1>1, <2>2, AnswerStays DEF Inv
    <3>2. Unfollowed(e, k) => Unfollowed(e, k)'
      <4>1. \A v \in e.asOf + 1 .. writes : v \in 1 .. writes /\ v \in e.asOf + 1 .. writes + 1
        BY <1>1, <1>2
      <4> QED BY <1>1, <4>1 DEF Unfollowed
    <3> QED BY <3>1, <3>2 DEF IsAccounted
  <2> QED BY <2>1, <2>2
<1>5. WithinReach(e, k)'
  <2> SUFFICES ASSUME NEW w \in Writer, delete'[w].version > 0,
                      k \in ListKey \cup {log'[delete'[w].version].object}
               PROVE  k \in delete'[w].keys \/ e.asOf >= delete'[w].version
    BY DEF WithinReach
  <2>1. CASE delete'[w] = delete[w]
    <3>1. delete[w].version \in 1 .. writes
      BY <2>1 DEF Inv, DeletionsFollow, NoDelete
    <3> QED BY <1>1, <2>1, <3>1 DEF IsAccounted, WithinReach
  <2>2. CASE delete'[w] # delete[w]
    <3> PICK keys \in SUBSET Key :
            /\ ListKey \subseteq keys
            /\ o \in keys \/ ~Exists(o)
            /\ delete'[w] = [version |-> writes + 1, keys |-> keys]
      BY <2>2 DEF Owes, Inv, TypeOK
    <3>1. k \in ListKey \cup {o}
      BY <1>1
    <3> QED BY <3>1 DEF IsAccounted
  <2> QED BY <2>1, <2>2
<1> QED BY <1>1, <1>2, <1>3, <1>4, <1>5 DEF IsAccounted

\* The end of a deletion leaves alone what it does not reach; what it reaches
\* is gone, or overtaken.
LEMMA AccountDeleted ==
    ASSUME Inv, NEW w \in Writer, WriterStep(w),
           NEW k \in Key, NEW e \in Entry, IsAccounted(e, k),
           NEW f \in Entry, f.body = e.body, f.asOf = e.asOf, e.overtaken => f.overtaken,
           Delete(w) /\ k \in delete[w].keys => f.overtaken
    PROVE  IsAccounted(f, k)'
<1> DEFINE v == delete[w].version
<1>1. /\ v \in 1 .. writes /\ delete' = [delete EXCEPT ![w] = NoDelete]
      /\ UNCHANGED <<row, writes>>
  BY DeletionEffect DEF Inv
<1>2. \A u \in Version : log'[u].object = log[u].object
      /\ (log'[u].fate = "deleted" => log[u].fate = "deleted" \/ (u = v /\ Delete(w)))
  <2>1. log \in [Version -> [object : Object \cup {"none"},
                             fate : {"none", "due", "deleted", "lost", "silent"}]]
    BY DEF Inv, TypeOK
  <2>2. CASE Delete(w)
    <3>1. log' = [log EXCEPT ![v].fate = "deleted"]
      BY <2>2 DEF Delete
    <3> QED BY <2>1, <2>2, <3>1
  <2>3. CASE DeleteLost(w)
    <3>1. log' = [log EXCEPT ![v].fate = "lost"]
      BY <2>3 DEF DeleteLost
    <3> QED BY <2>1, <3>1
  <2> QED BY <2>2, <2>3 DEF WriterStep
<1>3. Answer(k)' = Answer(k) /\ (Exists(k)' <=> Exists(k))
  BY <1>1 DEF Answer, Selected, Exists
<1>4. \A u \in 1 .. writes : u \in Version
  BY WritesAssumption DEF Inv, TypeOK, Version
<1>5. Unfollowed(e, k) => f.overtaken \/ Unfollowed(f, k)'
  <2> SUFFICES ASSUME NEW u \in e.asOf + 1 .. writes,
                      k \in ListKey \cup {log[u].object}, log[u].fate # "deleted",
                      ~f.overtaken
               PROVE  Unfollowed(f, k)'
    BY DEF Unfollowed
  <2>1. u \in 1 .. writes /\ u \in Version /\ e.asOf \in Nat
    BY <1>4 DEF Entry
  <2>2. CASE u = v /\ Delete(w)
    <3>1. k \notin delete[w].keys
      BY <2>2
    <3>2. e.asOf >= v
      BY <1>1, <2>2, <3>1 DEF IsAccounted, WithinReach
    <3> QED BY <2>1, <2>2, <3>2
  <2>3. CASE ~(u = v /\ Delete(w))
    BY <1>1, <1>2, <2>1, <2>3 DEF Unfollowed
  <2> QED BY <2>2, <2>3
<1>6. WithinReach(f, k)'
  <2> SUFFICES ASSUME NEW x \in Writer, delete'[x].version > 0,
                      k \in ListKey \cup {log'[delete'[x].version].object}
               PROVE  k \in delete'[x].keys \/ f.asOf >= delete'[x].version
    BY DEF WithinReach
  <2>1. delete'[x] = delete[x] /\ delete[x] # NoDelete
    BY <1>1 DEF Inv, TypeOK, NoDelete
  <2>2. delete[x].version \in Version
    BY <1>4, <2>1 DEF Inv, DeletionsFollow
  <2> QED BY <1>2, <2>1, <2>2 DEF IsAccounted, WithinReach
<1> QED BY <1>1, <1>3, <1>5, <1>6 DEF IsAccounted

LEMMA EntriesStep == Inv /\ [Next]_vars => EntriesAreAccounted'
<1> SUFFICES ASSUME Inv, [Next]_vars PROVE EntriesAreAccounted'
  OBVIOUS
<1>0. /\ cache \in [Key -> Entry]
      /\ read \in [Reader -> [key : Key \cup {"none"}, entry : Entry]]
      /\ Nothing.body = {}
  BY DEF Inv, TypeOK, Nothing
<1>1. ASSUME UNCHANGED <<row, writes, log, delete>>, NEW e, NEW k
      PROVE  IsAccounted(e, k)' <=> IsAccounted(e, k)
  BY <1>1 DEF IsAccounted, Answer, Selected, Exists, Unfollowed, WithinReach
<1>2. ASSUME NEW r \in Reader, NEW k \in Key, Miss(r, k)
      PROVE  EntriesAreAccounted'
  <2> PICK e : e = [body |-> Answer(k), asOf |-> writes, overtaken |-> FALSE]
    OBVIOUS
  <2>1. IsAccounted(e, k) /\ e.body # {}
    <3>1. k \in Object => Exists(k)
      BY <1>2, ObjectAssumption DEF Miss, Answer, Selected, ListKey
    <3>2. WithinReach(e, k)
      BY DEF WithinReach, Inv, DeletionsFollow, TypeOK, NoDelete
    <3> QED BY <1>2, <3>1, <3>2 DEF IsAccounted, Inv, TypeOK, Miss
  <2>2. /\ read' = [read EXCEPT ![r] = [key |-> k, entry |-> e]]
        /\ UNCHANGED <<row, writes, log, cache, delete>>
    BY <1>2 DEF Miss
  <2> QED BY <1>0, <1>1, <2>1, <2>2 DEF Inv, EntriesAreAccounted, Cached
<1>3. ASSUME NEW r \in Reader, ReaderStep(r)
      PROVE  EntriesAreAccounted'
  <2>1. /\ read[r].key # "none" /\ read' = [read EXCEPT ![r] = NoRead]
        /\ cache' = cache \/ cache' = [cache EXCEPT ![read[r].key] = read[r].entry]
        /\ UNCHANGED <<row, writes, log, delete>> /\ NoRead.key = "none"
    BY <1>3 DEF ReaderStep, Fill, FillLost, NoRead
  <2>2. \A k \in Key : cache'[k].body # {} => IsAccounted(cache'[k], k)
    BY <1>0, <2>1 DEF Inv, EntriesAreAccounted, Cached
  <2>3. \A q \in Reader : read'[q].key # "none" => read'[q] = read[q]
    BY <1>0, <2>1
  <2> QED BY <1>1, <2>1, <2>2, <2>3 DEF Inv, EntriesAreAccounted, Cached
<1>4. ASSUME NEW o \in Object,
             (\E w \in Writer : Create(w, o) \/ Update(w, o))
               \/ CreateWithCafe(o) \/ RelatedWrite(o)
      PROVE  EntriesAreAccounted'
  <2> PICK active \in BOOLEAN, fate \in {"due", "silent"} : Written(o, active, fate)
    BY <1>4, WriteEffect DEF Inv
  <2>1. Owes(o) /\ cache' = cache /\ read' = read
    BY <1>4, WriteEffect DEF Inv
  <2>2. ASSUME NEW k \in Key, Cached(k)' PROVE IsAccounted(cache[k], k)'
    <3> PICK e \in Entry : e = cache[k]
      BY <1>0
    <3>1. IsAccounted(e, k)
      BY <2>1, <2>2 DEF Inv, EntriesAreAccounted, Cached
    <3>2. IsAccounted(e, k)'
      BY <2>1, <3>1, AccountWritten
    <3> QED BY <2>1, <3>2 DEF IsAccounted, Unfollowed, WithinReach
  <2>3. ASSUME NEW r \in Reader, read[r].key # "none" PROVE IsAccounted(read[r].entry, read[r].key)'
    <3> PICK e \in Entry, k \in Key : e = read[r].entry /\ k = read[r].key
      BY <1>0, <2>3
    <3>1. IsAccounted(e, k)
      BY <2>3 DEF Inv, EntriesAreAccounted
    <3>2. IsAccounted(e, k)'
      BY <2>1, <3>1, AccountWritten
    <3> QED BY <2>1, <3>2 DEF IsAccounted, Unfollowed, WithinReach, Answer, Selected, Exists
  <2> QED BY <2>1, <2>2, <2>3 DEF Inv, EntriesAreAccounted
<1>5. ASSUME NEW w \in Writer, WriterStep(w)
      PROVE  EntriesAreAccounted'
  <2>1. ASSUME NEW k \in Key, Cached(k)' PROVE IsAccounted(cache[k], k)'
    <3> PICK e \in Entry : e = cache[k]
      BY <1>0
    <3>1. cache'[k] = e /\ Cached(k) /\ ~(Delete(w) /\ k \in delete[w].keys)
      BY <1>0, <1>5, <2>1 DEF WriterStep, Delete, DeleteLost, Cached
    <3>2. IsAccounted(e, k)
      BY <3>1 DEF Inv, EntriesAreAccounted
    <3>3. IsAccounted(e, k)'
      BY <1>5, <3>1, <3>2, AccountDeleted
    <3> QED BY <3>1, <3>3 DEF IsAccounted, Unfollowed, WithinReach
  <2>2. ASSUME NEW r \in Reader, read'[r].key # "none"
        PROVE  read'[r].entry.body # {} /\ IsAccounted(read[r].entry, read[r].key)'
    <3>1. /\ read'[r].key = read[r].key
          /\ read'[r].entry = IF Delete(w) /\ read[r].key \in delete[w].keys
                              THEN [read[r].entry EXCEPT !.overtaken = TRUE]
                              ELSE read[r].entry
      <4>1. read[r] \in [key : Key \cup {"none"}, entry : Entry]
        BY <1>0
      <4>2. CASE Delete(w)
        <5>1. read'[r] = IF read[r].key \in delete[w].keys
                         THEN [read[r] EXCEPT !.entry.overtaken = TRUE] ELSE read[r]
          BY <4>2 DEF Delete
        <5> QED BY <4>1, <4>2, <5>1
      <4>3. CASE ~Delete(w)
        BY <1>5, <4>3 DEF WriterStep, DeleteLost
      <4> QED BY <4>2, <4>3
    <3> PICK e \in Entry, k \in Key : e = read[r].entry /\ k = read[r].key
      BY <1>0, <2>2, <3>1
    <3> PICK f : f = read'[r].entry
      OBVIOUS
    <3>2. f \in Entry /\ f.body = e.body /\ f.asOf = e.asOf /\ (e.overtaken => f.overtaken)
          /\ (Delete(w) /\ k \in delete[w].keys => f.overtaken)
      BY <3>1 DEF Entry
    <3>3. IsAccounted(e, k) /\ e.body # {}
      BY <2>2, <3>1 DEF Inv, EntriesAreAccounted
    <3>4. IsAccounted(f, k)'
      BY <1>5, <3>2, <3>3, AccountDeleted
    <3> QED BY <3>1, <3>2, <3>3, <3>4
            DEF IsAccounted, Unfollowed, WithinReach, Answer, Selected, Exists
  <2> QED BY <2>1, <2>2 DEF EntriesAreAccounted
<1>6. ASSUME NEW k \in Key, Expire(k)
      PROVE  EntriesAreAccounted'
  <2>1. /\ UNCHANGED <<row, writes, log, delete, read>>
        /\ cache' = [cache EXCEPT ![k] = Nothing]
    BY <1>6 DEF Expire
  <2> QED BY <1>0, <1>1, <2>1 DEF Inv, EntriesAreAccounted, Cached
<1>7. CASE UNCHANGED vars
  BY <1>1, <1>7 DEF vars, Inv, EntriesAreAccounted, Cached
<1> QED BY <1>2, <1>3, <1>4, <1>5, <1>6, <1>7 DEF Next

----------------------------------------------------------------------------

LEMMA InvHolds == Spec => []Inv
<1>1. Inv /\ [Next]_vars => Inv'
  BY TypeStep, EntriesStep DEF Inv
<1> QED BY <1>1, InitInv, PTL DEF Spec

\* Entries, misses, deletions and the log keep their shape; a deletion that is
\* due belongs to a write that has not been followed by one.
THEOREM TypeCorrect == Spec => []TypeOK
  BY InvHolds, PTL DEF Inv

\* get_with_cache, get_all_with_cache, create and update: a key disagrees with
\* the database only if a deletion overtook the reader that filled it, or a
\* later write's deletion is still due, lost, or never sent.
THEOREM StalenessIsExcused == Spec => []StaleIsExcused
<1>1. Inv => StaleIsExcused
  BY DEF Inv, EntriesAreAccounted, IsAccounted, StaleIsExcused, Stale, Unfollowed, Undeleted
<1> QED BY <1>1, InvHolds, PTL
=============================================================================
