------------------------ MODULE Notifications_proofs ------------------------
(***************************************************************************)
(* Proofs about Notifications: type correctness, the row locks, and what   *)
(* the recipients get, for every number of rows, requests, messages and    *)
(* managers and for every bound.                                           *)
(***************************************************************************)
EXTENDS Notifications, TLAPS

\* The pieces of a step that hands in well-typed rows: a new row, a row whose
\* status is written, a message put in a queue.
LEMMA NewRowTypes ==
    /\ NoRow \in Row
    /\ \A ty \in NotificationType, d \in BOOLEAN : NewRow(ty, d) \in Row
  BY DEF NoRow, NewRow, Row, NotificationType, NotificationStatus

LEMMA WithStatusType ==
    ASSUME NEW n \in NoteId, note[n] \in Row, NEW st \in NotificationStatus
    PROVE  WithStatus(n, st) \in Row
  BY DEF WithStatus, Row

LEMMA WithStatusKeeps ==
    ASSUME TypeOK, NEW n \in NoteId, NEW st
    PROVE  WithStatus(n, st).status = st /\ WithStatus(n, st).type = note[n].type
  BY DEF WithStatus, TypeOK, Row

LEMMA MessageTypes ==
    /\ FreeTask \in Message
    /\ \A n \in NoteId, k \in 0 .. MaxRetries : Queued(n, k) \in Message
<1>1. 0 \in 0 .. MaxRetries
  BY AttemptsAssumption
<1>2. FreeTask \in Message
  BY <1>1 DEF FreeTask, Message
<1>3. ASSUME NEW n \in NoteId, NEW k \in 0 .. MaxRetries PROVE Queued(n, k) \in Message
  BY DEF Queued, Message
<1> QED BY <1>2, <1>3

\* What one recipient, one failure and one moment make of a message and of a row.
LEMMA ReachedType ==
    ASSUME NEW t \in Task, task[t] \in Message, NEW r \in Recipient
    PROVE  Reached(t, r) \in Message /\ Reached(t, r).note = task[t].note
  BY DEF Reached, Message

LEMMA MissedType ==
    ASSUME NEW t \in Task, task[t] \in Message, NEW r \in Recipient,
           NEW err \in {"retry", "fatal"}
    PROVE  Missed(t, r, err) \in Message /\ Missed(t, r, err).note = task[t].note
  BY DEF Missed, Message

LEMMA FailureTypes ==
    ASSUME NEW m \in Message
    PROVE  /\ LET q == [m EXCEPT !.state = "failed", !.flushed = {}]
              IN  q \in Message /\ q.note = m.note
           /\ LET q == [m EXCEPT !.state = "failed", !.todo = {}, !.flushed = {},
                                 !.error = "retry"]
              IN  q \in Message /\ q.note = m.note
  BY DEF Message

LEMMA RowUpdates ==
    ASSUME NEW row \in Row
    PROVE  [row EXCEPT !.due = TRUE] \in Row /\ [row EXCEPT !.stale = TRUE] \in Row
  BY DEF Row

LEMMA NoPatchType == NoPatch \in Patching
  BY DEF NoPatch, NothingToSet, Patching, PatchRequest, BookingRow, StatusBooking

LEMMA MergedType ==
    ASSUME booking \in BookingRow, NEW s \in Session, patch[s] \in Patching
    PROVE  Merged(s) \in BookingRow
  BY DEF Merged, Or, BookingRow, Patching, PatchRequest

LEMMA DueIsBoolean == DueAtOnce \subseteq BOOLEAN
  BY DEF DueAtOnce

\* The dispatcher claims rows that exist, or may, and that nobody holds.
LEMMA DueRowsType ==
    ASSUME NEW n \in DueRows
    PROVE  n \in NoteId /\ note[n].status \in Live /\ ~Locked(n)
  BY BoundsAssumption DEF DueRows, Live

\* Until its COMMIT a PATCH writes nothing that others could read.
LEMMA PatchFrame ==
    ASSUME NEW s \in Session, PatchStep(s)
    PROVE  \/ PatchCommit(s)
           \/ UNCHANGED <<booking, note, outbox, task, mails, counters, staff>>
  BY DEF PatchStep, PatchWrite, PatchScan, PatchCancel, PatchInsert, PatchConflict,
         PatchDeadlock, PatchRollback

\* Every state of every behaviour is well typed.
THEOREM TypeCorrect == Spec => []TypeOK
<1>1. Init => TypeOK
  <2> SUFFICES ASSUME Init PROVE TypeOK
    OBVIOUS
  <2>1. NoRow \in Row /\ FreeTask \in Message /\ NoPatch \in Patching
    BY NewRowTypes, MessageTypes, NoPatchType
  <2>2. patches \in 0 .. MaxPatches /\ faults \in 0 .. MaxFaults
        /\ lost \in 0 .. MaxFaults /\ reopened \in 0 .. MaxReopened
        /\ reassigned \in 0 .. MaxReassigned
    BY BoundsAssumption DEF Init
  <2>3. managers \subseteq Managers /\ owed \in [NoteId -> SUBSET Managers]
    BY ManagersAssumption DEF Init
  <2> QED BY <2>1, <2>2, <2>3 DEF Init, TypeOK, FreeTask, BookingRow
<1>2. TypeOK /\ [Next]_vars => TypeOK'
  <2> SUFFICES ASSUME TypeOK, [Next]_vars PROVE TypeOK'
    OBVIOUS
  <2> USE DEF TypeOK
  <2>1. CASE CreateBooking
    <3> PICK m \in NoteId, rem \in Reminders, d \in DueAtOnce, rd \in BOOLEAN :
               CreateBooking!2!(m, rem, d, rd)
      BY <2>1 DEF CreateBooking
    <3>1. NewRow("CREATED", d) \in Row /\ NewRow("REMINDER_CLIENT", rd) \in Row
      BY NewRowTypes, DueIsBoolean DEF NotificationType
    <3>2. note' \in [NoteId -> Row]
      BY <3>1
    <3>3. booking' \in BookingRow
      BY RequestsAssumption DEF BookingRow, StatusBooking
    <3> QED BY <2>1, <3>2, <3>3 DEF CreateBooking, counters, staff
  <2>2. ASSUME NEW s \in Session, NEW want \in Requests, PatchLoad(s, want) PROVE TypeOK'
    <3>1. want \in PatchRequest
      BY RequestsAssumption
    <3>2. /\ Changed(want.status, booking.status) \in StatusBooking \cup {"unset"}
          /\ Changed(want.reminder, booking.reminder) \in {"on", "off", "unset"}
      BY <2>2, <3>1 DEF PatchLoad, PatchRequest, Changed, BookingRow
    <3>3. patch' \in [Session -> Patching]
      BY <2>2, <3>1, <3>2, NoPatchType DEF PatchLoad, Patching, PatchRequest
    <3>4. patches' \in 0 .. MaxPatches
      BY <2>2, BoundsAssumption DEF PatchLoad
    <3> QED BY <2>2, <3>3, <3>4 DEF PatchLoad, staff
  <2>3. ASSUME NEW s \in Session, PatchWrite(s) PROVE TypeOK'
    BY <2>3, MergedType DEF PatchWrite, Patching, counters, staff
  <2>4. ASSUME NEW s \in Session,
               PatchScan(s) \/ (\E n \in NoteId : PatchCancel(s, n)) \/ PatchInsert(s)
        PROVE  TypeOK'
    <3>1. NextType(s) \in NotificationType
      BY DEF NextType, ManagerType, NotificationType
    <3>0. patch \in [Session -> Patching]
      OBVIOUS
    <3>2. patch' \in [Session -> Patching]
      <4>1. CASE PatchScan(s)
        BY <3>0, <4>1 DEF PatchScan, Patching
      <4>2. ASSUME NEW n \in NoteId, PatchCancel(s, n)
            PROVE  patch' \in [Session -> Patching]
        <5> DEFINE p == [patch[s] EXCEPT !.scan = @ \ {n}, !.held = @ \cup {n}]
        <5>1. p \in Patching
          BY <3>0 DEF Patching
        <5>2. patch' = [patch EXCEPT ![s] = p]
          BY <4>2 DEF PatchCancel
        <5> HIDE DEF p
        <5> QED BY <3>0, <5>1, <5>2
      <4>3. CASE PatchInsert(s)
        BY <3>0, <3>1, <4>3 DEF PatchInsert, Patching
      <4> QED BY <2>4, <4>1, <4>2, <4>3
    <3> QED BY <2>4, <3>2 DEF PatchScan, PatchCancel, PatchInsert, counters, staff
  <2>5. ASSUME NEW s \in Session, PatchCommit(s) PROVE TypeOK'
    <3> PICK m \in NoteId, d \in DueAtOnce, rd \in BOOLEAN : PatchCommit(s)!3!(m, d, rd)
      BY <2>5 DEF PatchCommit
    <3>1. /\ NewRow(ManagerType(s), d) \in Row
          /\ NewRow("REMINDER_CLIENT", rd) \in Row
          /\ \A n \in NoteId : WithStatus(n, "CANCELED") \in Row
      BY NewRowTypes, WithStatusType, DueIsBoolean DEF ManagerType, NotificationType, NotificationStatus
    <3>2. note' \in [NoteId -> Row]
      BY <3>1
    <3>3. booking' \in BookingRow
      BY <2>5, MergedType DEF PatchCommit
    <3>4. patch' \in [Session -> Patching]
      BY <2>5, NoPatchType DEF PatchCommit
    <3> QED BY <2>5, <3>2, <3>3, <3>4 DEF PatchCommit, counters, staff
  <2>6. ASSUME NEW s \in Session, PatchConflict(s) \/ PatchDeadlock(s) PROVE TypeOK'
    BY <2>6, NoPatchType DEF PatchConflict, PatchDeadlock, PatchRollback, counters, staff
  <2>7. ASSUME NEW e \in outbox, NEW t \in Task, Publish(e, t) PROVE TypeOK'
    <3>1. e[2] \in NoteId
      BY <2>7
    <3>2. Queued(e[2], 0) \in Message
      BY <3>1, MessageTypes, AttemptsAssumption
    <3> QED BY <2>7, <3>1, <3>2 DEF Publish, counters, staff, Queued, FreeTask
  <2>8. ASSUME NEW e \in outbox, PublisherDies(e) PROVE TypeOK'
    <3>1. lost' \in 0 .. MaxFaults
      BY <2>8, BoundsAssumption DEF PublisherDies
    <3> QED BY <2>8, <3>1 DEF PublisherDies, staff
  <2>9. ASSUME NEW t \in Task, TaskStep(t) \/ TaskFault(t) PROVE TypeOK'
    <3>1. task[t].state # "free" => task[t].note \in NoteId
      OBVIOUS
    <3>2. CASE TaskSkip(t)
      BY <3>2, MessageTypes DEF TaskSkip, Finish, FreeTask, counters, staff
    <3>3. CASE TaskPostpone(t)
      <4>1. WithStatus(task[t].note, "PENDING") \in Row
        BY <3>1, <3>3, WithStatusType DEF TaskPostpone, Obtains, NotificationStatus
      <4> QED BY <3>3, <4>1, MessageTypes DEF TaskPostpone, Finish, FreeTask, counters, staff
    <3>4. CASE TaskCancelReminder(t)
      <4>1. WithStatus(task[t].note, "CANCELED") \in Row
        BY <3>1, <3>4, WithStatusType DEF TaskCancelReminder, Obtains, NotificationStatus
      <4> QED BY <3>4, <4>1, MessageTypes DEF TaskCancelReminder, Finish, FreeTask, counters, staff
    <3>5. CASE TaskClaim(t)
      <4>1. task[t].note \in NoteId
        BY <3>1, <3>5 DEF TaskClaim, Obtains
      <4>2. Execution(t) \in Message /\ Execution(t).note = task[t].note
        BY <4>1 DEF Execution, Addressees, Recipient, Message
      <4> QED BY <3>5, <4>1, <4>2 DEF TaskClaim, counters, staff
    <3>6. ASSUME NEW r \in Recipient, SendMail(t, r) PROVE TypeOK'
      <4>1. mails' \in [NoteId -> [Recipient -> Nat]]
        BY <3>1, <3>6 DEF SendMail, Mailed, Sending
      <4>2. Reached(t, r) \in Message /\ Reached(t, r).note = task[t].note
        BY ReachedType
      <4> QED BY <3>1, <3>6, <4>1, <4>2 DEF SendMail, Sending, counters, staff
    <3>7. ASSUME NEW r \in Recipient, SendFails(t, r) PROVE TypeOK'
      <4>1. ASSUME NEW err \in ErrorsFor(r)
            PROVE  Missed(t, r, err) \in Message /\ Missed(t, r, err).note = task[t].note
        <5>1. err \in {"retry", "fatal"} /\ task[t] \in Message
          BY DEF ErrorsFor
        <5> QED BY <5>1, MissedType
      <4>2. PICK err \in ErrorsFor(r) : task' = [task EXCEPT ![t] = Missed(t, r, err)]
        BY <3>7 DEF SendFails
      <4>3. /\ task[t].note \in NoteId
            /\ UNCHANGED <<booking, note, patch, outbox, mails, patches, faults, lost, reopened>>
            /\ UNCHANGED <<managers, owed, reassigned>>
        BY <3>1, <3>7 DEF SendFails, Sending, counters, staff
      <4> QED BY <4>1, <4>2, <4>3
    <3>8. ASSUME NEW r \in Recipient, SendReplyLost(t, r) PROVE TypeOK'
      <4>1. mails' \in [NoteId -> [Recipient -> Nat]]
        BY <3>1, <3>8 DEF SendReplyLost, Mailed, Sending
      <4>2. faults' \in 0 .. MaxFaults
        BY <3>8, BoundsAssumption DEF SendReplyLost
      <4>3. /\ Missed(t, r, "retry") \in Message
            /\ Missed(t, r, "retry").note = task[t].note
        BY MissedType
      <4> QED BY <3>1, <3>8, <4>1, <4>2, <4>3 DEF SendReplyLost, Sending, staff
    <3>9. CASE TaskSucceeds(t)
      <4>1. WithStatus(task[t].note, "SENT") \in Row
        BY <3>1, <3>9, WithStatusType DEF TaskSucceeds, Sending, NotificationStatus
      <4>2. Recorded(t) \in SUBSET Managers
        BY <3>1, <3>9 DEF TaskSucceeds, Sending, Recorded, Row
      <4>3. [WithStatus(task[t].note, "SENT") EXCEPT !.sentTo = Recorded(t)] \in Row
        BY <4>1, <4>2 DEF Row
      <4> QED BY <3>9, <4>3, MessageTypes DEF TaskSucceeds, Finish, FreeTask, counters, staff
    <3>10. CASE TaskFails(t)
      <4> DEFINE n == task[t].note
                 st == IF note[n].attempts + 1 >= MaxAttempts THEN "FAILED" ELSE "PROCESSING"
                 m == [task[t] EXCEPT !.state = "failed", !.flushed = {}]
                 row == [WithStatus(n, st) EXCEPT !.attempts = note[n].attempts + 1,
                                                  !.sentTo = Recorded(t)]
      <4>1. n \in NoteId /\ note[n].attempts + 1 \in Nat
        BY <3>1, <3>10 DEF TaskFails, Sending, Row
      <4>2. Recorded(t) \in SUBSET Managers
        BY <4>1 DEF Recorded, Row
      <4>3. WithStatus(n, st) \in Row
        BY <4>1, WithStatusType DEF NotificationStatus
      <4>4. row \in Row
        BY <4>1, <4>2, <4>3 DEF Row
      <4>5. m \in Message /\ m.note = n
        BY FailureTypes
      <4>6. /\ note' = [note EXCEPT ![n] = row] /\ task' = [task EXCEPT ![t] = m]
            /\ UNCHANGED <<booking, patch, outbox, mails, patches, faults, lost, reopened>>
            /\ UNCHANGED <<managers, owed, reassigned>>
        BY <3>10 DEF TaskFails, counters, staff
      <4> HIDE DEF n, m, row
      <4> QED BY <4>1, <4>4, <4>5, <4>6
    <3>11. CASE TaskRetry(t)
      <4>1. CASE /\ task[t].retries < MaxRetries
                 /\ task' = [task EXCEPT ![t] = Queued(task[t].note, task[t].retries + 1)]
        <5>1. Queued(task[t].note, task[t].retries + 1) \in Message
          BY <3>1, <3>11, <4>1, MessageTypes, AttemptsAssumption DEF TaskRetry, Message
        <5> QED BY <3>1, <3>11, <4>1, <5>1 DEF TaskRetry, Queued, counters, staff
      <4>2. CASE Finish(t)
        BY <3>11, <4>2, MessageTypes DEF TaskRetry, Finish, FreeTask, counters, staff
      <4> QED BY <3>11, <4>1, <4>2 DEF TaskRetry
    <3>12. CASE TaskCrash(t)
      <4>1. Queued(task[t].note, task[t].retries) \in Message
        BY <3>1, <3>12, MessageTypes DEF TaskCrash, Message
      <4>2. faults' \in 0 .. MaxFaults
        BY <3>12, BoundsAssumption DEF TaskCrash
      <4> QED BY <3>1, <3>12, <4>1, <4>2 DEF TaskCrash, Queued, staff
    <3>13. CASE TaskFailsUncounted(t)
      <4> DEFINE m == [task[t] EXCEPT !.state = "failed", !.flushed = {}]
      <4>1. m \in Message /\ m.note = task[t].note
        BY FailureTypes
      <4>2. task' = [task EXCEPT ![t] = m] /\ task[t].note \in NoteId
        BY <3>1, <3>13 DEF TaskFailsUncounted, Sending
      <4> HIDE DEF m
      <4> QED BY <3>13, <4>1, <4>2 DEF TaskFailsUncounted, counters, staff
    <3>14. CASE DatabaseFails(t)
      <4> DEFINE m == [task[t] EXCEPT !.state = "failed", !.todo = {}, !.flushed = {},
                                      !.error = "retry"]
      <4>1. m \in Message /\ m.note = task[t].note
        BY FailureTypes
      <4>2. task' = [task EXCEPT ![t] = m] /\ task[t].note \in NoteId
        BY <3>1, <3>14 DEF DatabaseFails, Sending
      <4>3. faults' \in 0 .. MaxFaults
        BY <3>14, BoundsAssumption DEF DatabaseFails
      <4> HIDE DEF m
      <4> QED BY <3>14, <4>1, <4>2, <4>3 DEF DatabaseFails, staff
    <3> QED
      BY <2>9, <3>2, <3>3, <3>4, <3>5, <3>6, <3>7, <3>8, <3>9, <3>10, <3>11, <3>12,
         <3>13, <3>14
      DEF TaskStep, TaskFault, Send
  <2>10. ASSUME NEW claimed \in SUBSET DueRows, BeatClaim(claimed) PROVE TypeOK'
    <3>1. \A n \in NoteId : WithStatus(n, "PROCESSING") \in Row
      BY WithStatusType DEF NotificationStatus
    <3> QED BY <2>10, <3>1, DueRowsType DEF BeatClaim, counters, staff
  <2>11. ASSUME NEW n \in NoteId, ManualRetry(n) PROVE TypeOK'
    <3>1. \A d \in DueAtOnce :
            [WithStatus(n, "PENDING") EXCEPT !.due = d, !.attempts = 0] \in Row
      <4>1. WithStatus(n, "PENDING") \in Row
        BY WithStatusType DEF NotificationStatus
      <4> QED BY <4>1 DEF Row, DueAtOnce
    <3>2. reopened' \in 0 .. MaxReopened
      BY <2>11, BoundsAssumption DEF ManualRetry
    <3>3. note' \in [NoteId -> Row]
      BY <2>11, <3>1 DEF ManualRetry
    <3>4. outbox' \subseteq {"api", "beat"} \X NoteId
      BY <2>11 DEF ManualRetry
    <3> QED BY <2>11, <3>2, <3>3, <3>4 DEF ManualRetry, staff
  <2>12. ASSUME NEW n \in NoteId, ComesDue(n) \/ GoesStale(n) PROVE TypeOK'
    <3>1. [note[n] EXCEPT !.due = TRUE] \in Row /\ [note[n] EXCEPT !.stale = TRUE] \in Row
      BY RowUpdates
    <3> QED BY <2>12, <3>1 DEF ComesDue, GoesStale, counters, staff
  <2>13. ASSUME NEW new \in SUBSET Managers, Reassign(new) PROVE TypeOK'
    <3>1. reassigned' \in 0 .. MaxReassigned
      BY <2>13, BoundsAssumption DEF Reassign
    <3> QED BY <2>13, <3>1 DEF Reassign, counters
  <2>14. CASE UNCHANGED vars
    BY <2>14 DEF vars
  <2> QED
    BY <2>1, <2>2, <2>3, <2>4, <2>5, <2>6, <2>7, <2>8, <2>9, <2>10, <2>11, <2>12, <2>13, <2>14
    DEF Next, PatchStep
<1> QED BY <1>1, <1>2, PTL DEF Spec

----------------------------------------------------------------------------
\* Row locks

\* A row a task is mailing is live.
LEMMA MailedIsLive ==
    ASSUME TypeOK, RowLocks, NEW n \in NoteId, LockedByTask(n)
    PROVE  note[n].status \in Live
  BY DEF TypeOK, RowLocks, OneSender, LockedByTask

\* Rows may be written freely as long as none disappears and those that are
\* being mailed keep their status.
LEMMA RowLocksFrame ==
    ASSUME TypeOK, RowLocks, patch' = patch, task' = task,
           \A n \in NoteId : note[n].status # "ABSENT" => note'[n].status # "ABSENT",
           \A n \in NoteId : LockedByTask(n) => note'[n].status = note[n].status
    PROVE  RowLocks'
<1>1. OneSender'
  BY DEF TypeOK, RowLocks, OneSender, Sending, LockedByTask
<1>2. PatchHoldsItsRows'
  BY DEF TypeOK, RowLocks, PatchHoldsItsRows, Sending, LockedByTask, Patching
<1> QED BY <1>1, <1>2 DEF RowLocks

\* Messages move freely as long as none starts to mail a locked row.
LEMMA MessagesFrame ==
    ASSUME TypeOK, RowLocks, patch' = patch, NEW t \in Task,
           \A u \in Task \ {t} : task'[u] = task[u],
           task'[t].state = "sending" => Sending(t) /\ task'[t].note = task[t].note,
           \A n \in NoteId : note[n].status # "ABSENT" => note'[n].status # "ABSENT",
           \A n \in NoteId :
             \/ note'[n].status = note[n].status
             \/ ~LockedByTask(n)
             \/ Sending(t) /\ n = task[t].note /\ task'[t].state # "sending"
    PROVE  RowLocks'
<1>0. OneSender /\ \A u \in Task : Sending(u) => task[u].note \in NoteId
  BY DEF TypeOK, RowLocks, Sending
<1>1. OneSender'
  BY <1>0 DEF OneSender, Sending, LockedByTask
<1> USE DEF TypeOK, RowLocks
<1>2. ASSUME NEW n \in NoteId, ~LockedByTask(n) PROVE ~LockedByTask(n)'
  BY <1>2 DEF LockedByTask, Sending
<1>3. PatchHoldsItsRows'
  BY <1>2 DEF PatchHoldsItsRows, Patching
<1> QED BY <1>1, <1>3

\* How a run of a task leaves its row.
LEMMA OutcomeKeeps ==
    ASSUME TypeOK, NEW t \in Task, TaskSucceeds(t) \/ TaskFails(t)
    PROVE  LET n == task[t].note
           IN  /\ n \in NoteId
               /\ note'[n].type = note[n].type /\ note'[n].status # "ABSENT"
               /\ \A k \in NoteId \ {n} : note'[k] = note[k]
<1> DEFINE n == task[t].note
<1>1. n \in NoteId
  BY DEF TaskSucceeds, TaskFails, Sending, TypeOK
<1>2. note \in [NoteId -> Row]
  BY DEF TypeOK
<1>3. CASE TaskSucceeds(t)
  <2> DEFINE row == [WithStatus(n, "SENT") EXCEPT !.sentTo = Recorded(t)]
  <2>1. WithStatus(n, "SENT") \in Row
    BY <1>1, <1>2, WithStatusType DEF NotificationStatus
  <2>2. row.type = note[n].type /\ row.status = "SENT"
    BY <1>1, <2>1, WithStatusKeeps DEF Row
  <2>3. note' = [note EXCEPT ![n] = row]
    BY <1>3 DEF TaskSucceeds
  <2> HIDE DEF row
  <2> QED BY <1>1, <1>2, <2>2, <2>3
<1>4. CASE TaskFails(t)
  <2> DEFINE st == IF note[n].attempts + 1 >= MaxAttempts THEN "FAILED" ELSE "PROCESSING"
             row == [WithStatus(n, st) EXCEPT !.attempts = note[n].attempts + 1,
                                              !.sentTo = Recorded(t)]
  <2>1. WithStatus(n, st) \in Row /\ st # "ABSENT"
    BY <1>1, <1>2, WithStatusType DEF NotificationStatus
  <2>2. row.type = note[n].type /\ row.status = st
    <3> HIDE DEF st
    <3> QED BY <1>1, <2>1, WithStatusKeeps DEF Row
  <2>3. note' = [note EXCEPT ![n] = row]
    BY <1>4 DEF TaskFails
  <2> HIDE DEF row, st
  <2> QED BY <1>1, <1>2, <2>1, <2>2, <2>3
<1> QED BY <1>3, <1>4

LEMMA RowLocksStep == TypeOK /\ RowLocks /\ [Next]_vars => RowLocks'
<1> SUFFICES ASSUME TypeOK, RowLocks, [Next]_vars PROVE RowLocks'
  OBVIOUS
<1>1. CASE CreateBooking
  <2>1. \A n \in NoteId : note[n].status # "ABSENT" => note'[n] = note[n]
    BY <1>1 DEF CreateBooking, RoomFor, Unused
  <2>2. patch' = patch /\ task' = task
    BY <1>1 DEF CreateBooking
  <2>3. \A n \in NoteId : LockedByTask(n) => note[n].status # "ABSENT"
    BY MailedIsLive DEF Live
  <2> QED BY <2>1, <2>2, <2>3, RowLocksFrame
<1>2. ASSUME NEW s \in Session, NEW want \in Requests, PatchLoad(s, want) PROVE RowLocks'
  BY <1>2 DEF TypeOK, RowLocks, PatchLoad, NoPatch, OneSender, PatchHoldsItsRows, Sending,
     LockedByTask, Patching
<1>3. ASSUME NEW s \in Session, PatchWrite(s) PROVE RowLocks'
  BY <1>3 DEF TypeOK, RowLocks, PatchWrite, OneSender, PatchHoldsItsRows, Sending,
     LockedByTask, Patching
<1>4. ASSUME NEW s \in Session,
             PatchScan(s) \/ (\E n \in NoteId : PatchCancel(s, n)) \/ PatchInsert(s)
      PROVE  RowLocks'
  <2>1. note' = note /\ task' = task
    BY <1>4 DEF PatchScan, PatchCancel, PatchInsert
  <2>2. /\ \A u \in Session \ {s} : patch'[u] = patch[u]
        /\ \/ patch'[s].scan \subseteq patch[s].scan
           \/ \A n \in patch'[s].scan : note[n].status = "PENDING"
        /\ patch'[s].held \subseteq patch[s].held \cup patch[s].scan
        /\ \A n \in patch'[s].held \ patch[s].held : n \in NoteId /\ ~Locked(n)
    <3>0. patch \in [Session -> Patching]
      BY DEF TypeOK
    <3>1. CASE PatchScan(s)
      BY <3>0, <3>1 DEF PatchScan, Patching
    <3>2. ASSUME NEW n \in NoteId, PatchCancel(s, n)
          PROVE  /\ \A u \in Session \ {s} : patch'[u] = patch[u]
                 /\ patch'[s].scan = patch[s].scan \ {n}
                 /\ patch'[s].held = patch[s].held \cup {n}
                 /\ n \in patch[s].scan /\ ~Locked(n)
      BY <3>0, <3>2 DEF PatchCancel, Patching
    <3>3. CASE PatchInsert(s)
      BY <3>0, <3>3 DEF PatchInsert, Patching
    <3> QED BY <1>4, <3>1, <3>2, <3>3
  <2>3. OneSender'
    BY <2>1 DEF RowLocks, OneSender, Sending
  <2>4. \A n : LockedByTask(n)' <=> LockedByTask(n)
    BY <2>1 DEF LockedByTask, Sending
  <2>5. \A n \in patch'[s].held \ patch[s].held :
          ~LockedByTask(n) /\ \A u \in Session : n \notin patch[u].held
    BY <2>2 DEF Locked, LockedByPatch
  <2>6. PatchHoldsItsRows'
    <3>1. PatchHoldsItsRows
      BY DEF RowLocks
    <3>2. ASSUME NEW u \in Session PROVE
            \A n \in (patch[u].scan \cup patch[u].held)' : note'[n].status # "ABSENT"
      BY <2>1, <2>2, <3>1 DEF PatchHoldsItsRows
    <3>3. ASSUME NEW u \in Session, NEW n \in patch'[u].held
          PROVE  /\ ~LockedByTask(n)'
                 /\ \A v \in Session : n \in patch'[v].held => v = u
      BY <2>2, <2>4, <2>5, <3>1 DEF PatchHoldsItsRows
    <3> QED BY <3>2, <3>3 DEF PatchHoldsItsRows
  <2> QED BY <2>3, <2>6 DEF RowLocks
<1>5. ASSUME NEW s \in Session, PatchCommit(s) PROVE RowLocks'
  <2>1. \A n \in NoteId : \/ note[n].status = "ABSENT"
                          \/ n \in patch[s].held /\ note'[n].status = "CANCELED"
                          \/ note'[n] = note[n]
    <3>1. PICK m \in NoteId, d \in DueAtOnce, rd \in BOOLEAN : PatchCommit(s)!3!(m, d, rd)
      BY <1>5 DEF PatchCommit
    <3>2. /\ note[m].status = "ABSENT"
          /\ WantsReminder(s) => m + 1 \in Unused
      BY <3>1 DEF RoomFor, Unused
    <3> QED BY <3>1, <3>2, WithStatusKeeps DEF Unused, Cancelled
  <2>2. patch' = [patch EXCEPT ![s] = NoPatch] /\ task' = task
    BY <1>5 DEF PatchCommit
  <2>3. OneSender'
    <3>1. ASSUME NEW t \in Task, Sending(t) PROVE note'[task[t].note] = note[task[t].note]
      <4>1. note[task[t].note].status \in Live /\ task[t].note \in NoteId
        BY <3>1 DEF TypeOK, RowLocks, OneSender, Sending
      <4>2. task[t].note \notin patch[s].held
        BY <3>1 DEF RowLocks, PatchHoldsItsRows, LockedByTask
      <4> QED BY <2>1, <4>1, <4>2 DEF Live
    <3> QED BY <2>2, <3>1 DEF RowLocks, OneSender, Sending
  <2>4. PatchHoldsItsRows'
    <3>1. /\ PatchHoldsItsRows
          /\ patch'[s].held = {} /\ patch'[s].scan = {}
          /\ \A u \in Session \ {s} : patch'[u] = patch[u]
      BY <2>2 DEF TypeOK, RowLocks, NoPatch
    <3>2. \A u \in Session : patch[u].scan \cup patch[u].held \subseteq NoteId
      BY DEF TypeOK, Patching
    <3>3. \A n \in NoteId : note[n].status # "ABSENT" => note'[n].status # "ABSENT"
      BY <2>1
    <3> QED BY <2>2, <3>1, <3>2, <3>3 DEF PatchHoldsItsRows, Sending, LockedByTask
  <2> QED BY <2>3, <2>4 DEF RowLocks
<1>6. ASSUME NEW s \in Session, PatchConflict(s) \/ PatchDeadlock(s) PROVE RowLocks'
  <2>1. /\ note' = note /\ task' = task
        /\ patch'[s].held = {} /\ patch'[s].scan = {}
        /\ \A u \in Session \ {s} : patch'[u] = patch[u]
    BY <1>6 DEF PatchConflict, PatchDeadlock, PatchRollback, NoPatch, TypeOK
  <2>2. OneSender'
    BY <2>1 DEF RowLocks, OneSender, Sending
  <2>3. PatchHoldsItsRows'
    BY <2>1 DEF RowLocks, PatchHoldsItsRows, LockedByTask, Sending
  <2> QED BY <2>2, <2>3 DEF RowLocks
<1>7. ASSUME NEW e \in outbox, NEW t \in Task, Publish(e, t) PROVE RowLocks'
  BY <1>7 DEF TypeOK, RowLocks, Publish, Queued, OneSender, PatchHoldsItsRows, Sending,
     LockedByTask
<1>8. ASSUME NEW e \in outbox, PublisherDies(e) PROVE RowLocks'
  BY <1>8, RowLocksFrame DEF PublisherDies
<1>9. ASSUME NEW t \in Task, TaskStep(t) \/ TaskFault(t) PROVE RowLocks'
  <2>1. task \in [Task -> Message] /\ (task[t].state # "free" => task[t].note \in NoteId)
    BY DEF TypeOK
  <2> DEFINE Others == \A u \in Task \ {t} : task'[u] = task[u]
             Stops == task'[t].state # "sending"
             KeepsAt(n) == note'[n].status = note[n].status
  <2>2. CASE TaskSkip(t)
    <3>1. Others /\ Stops /\ patch' = patch /\ note' = note
      BY <2>1, <2>2 DEF TaskSkip, Finish, FreeTask
    <3> QED BY <3>1, MessagesFrame
  <2>3. CASE TaskPostpone(t) \/ TaskCancelReminder(t)
    <3>1. Others /\ Stops /\ patch' = patch /\ ~LockedByTask(task[t].note)
      BY <2>1, <2>3 DEF TaskPostpone, TaskCancelReminder, Obtains, Locked, Finish, FreeTask
    <3>2. \A n \in NoteId : n # task[t].note => KeepsAt(n)
      BY <2>3 DEF TaskPostpone, TaskCancelReminder, TypeOK
    <3>3. \A n \in NoteId : note[n].status # "ABSENT" => note'[n].status # "ABSENT"
      <4>1. /\ task[t].note \in NoteId /\ note \in [NoteId -> Row]
            /\ \E st \in {"PENDING", "CANCELED"} :
                 note' = [note EXCEPT ![task[t].note] = WithStatus(task[t].note, st)]
        BY <2>1, <2>3 DEF TaskPostpone, TaskCancelReminder, Obtains, TypeOK
      <4> QED BY <4>1, WithStatusKeeps
    <3> QED BY <3>1, <3>2, <3>3, MessagesFrame
  <2>4. CASE TaskClaim(t)
    BY <2>1, <2>4 DEF TypeOK, TaskClaim, Execution, Obtains, RowLocks, OneSender,
       PatchHoldsItsRows, Sending, Locked, LockedByTask, LockedByPatch, Patching
  <2>5. ASSUME NEW r \in Recipient, SendMail(t, r) PROVE RowLocks'
    <3>1. Reached(t, r).note = task[t].note /\ Reached(t, r).state = task[t].state
      BY <2>1 DEF Message, Reached
    <3>2. Others /\ task'[t] = Reached(t, r) /\ patch' = patch /\ note' = note /\ Sending(t)
      BY <2>1, <2>5 DEF SendMail
    <3> QED BY <3>1, <3>2, MessagesFrame DEF Sending
  <2>6. ASSUME NEW r \in Recipient, SendFails(t, r) \/ SendReplyLost(t, r) PROVE RowLocks'
    <3>1. PICK err \in {"retry", "fatal"} : task' = [task EXCEPT ![t] = Missed(t, r, err)]
      BY <2>6 DEF SendFails, SendReplyLost, ErrorsFor
    <3>2. Missed(t, r, err).note = task[t].note /\ Missed(t, r, err).state = task[t].state
      BY <2>1 DEF Message, Missed
    <3>3. Others /\ task'[t] = Missed(t, r, err)
      BY <2>1, <3>1
    <3>4. patch' = patch /\ note' = note /\ Sending(t)
      BY <2>6 DEF SendFails, SendReplyLost
    <3> QED BY <3>2, <3>3, <3>4, MessagesFrame DEF Sending
  <2>7. CASE TaskSucceeds(t) \/ TaskFails(t)
    <3>0. /\ FreeTask.state # "sending"
          /\ [task[t] EXCEPT !.state = "failed", !.flushed = {}].state # "sending"
      BY <2>1 DEF FreeTask, Message
    <3>1. Others /\ Stops /\ patch' = patch /\ Sending(t)
      BY <2>1, <2>7, <3>0 DEF TaskSucceeds, TaskFails, Finish
    <3>2. \A n \in NoteId : n # task[t].note => KeepsAt(n)
      BY <2>7 DEF TaskSucceeds, TaskFails, TypeOK
    <3>3. note'[task[t].note].status # "ABSENT"
      BY <2>1, <2>7, OutcomeKeeps
    <3> QED BY <3>1, <3>2, <3>3, MessagesFrame
  <2>8. CASE TaskRetry(t) \/ TaskCrash(t)
    <3>1. Others /\ Stops /\ patch' = patch /\ note' = note
      BY <2>1, <2>8 DEF TaskRetry, TaskCrash, Finish, FreeTask, Queued
    <3> QED BY <3>1, MessagesFrame
  <2>9. CASE TaskFailsUncounted(t) \/ DatabaseFails(t)
    <3>1. /\ [task[t] EXCEPT !.state = "failed", !.flushed = {}].state # "sending"
          /\ [task[t] EXCEPT !.state = "failed", !.todo = {}, !.flushed = {},
                             !.error = "retry"].state # "sending"
      BY <2>1 DEF Message
    <3>2. Others /\ Stops /\ patch' = patch /\ note' = note
      BY <2>1, <2>9, <3>1 DEF TaskFailsUncounted, DatabaseFails
    <3> QED BY <3>2, MessagesFrame
  <2> QED
    BY <1>9, <2>2, <2>3, <2>4, <2>5, <2>6, <2>7, <2>8, <2>9 DEF TaskStep, TaskFault, Send
<1>10. ASSUME NEW claimed \in SUBSET DueRows, BeatClaim(claimed) PROVE RowLocks'
  <2>1. \A n \in NoteId : LockedByTask(n) => note'[n] = note[n]
    BY <1>10 DEF BeatClaim, DueRows, Locked
  <2>2. \A n \in NoteId : note'[n].status \in {note[n].status, "PROCESSING"}
    BY <1>10 DEF BeatClaim, WithStatus, TypeOK, Row
  <2> QED BY <1>10, <2>1, <2>2, RowLocksFrame DEF BeatClaim
<1>11. ASSUME NEW n \in NoteId, ManualRetry(n) PROVE RowLocks'
  <2>1. ~LockedByTask(n)
    BY <1>11 DEF ManualRetry, Locked
  <2>2. \A k \in NoteId : k # n => note'[k] = note[k]
    BY <1>11 DEF ManualRetry, TypeOK
  <2>3. note'[n].status # "ABSENT"
    BY <1>11 DEF ManualRetry, WithStatus, TypeOK, Row
  <2> QED BY <1>11, <2>1, <2>2, <2>3, RowLocksFrame DEF ManualRetry
<1>12. ASSUME NEW n \in NoteId, ComesDue(n) \/ GoesStale(n) PROVE RowLocks'
  <2>1. /\ [note[n] EXCEPT !.due = TRUE].status = note[n].status
        /\ [note[n] EXCEPT !.stale = TRUE].status = note[n].status
    BY DEF TypeOK, Row
  <2>2. \A k \in NoteId : note'[k].status = note[k].status
    BY <1>12, <2>1 DEF ComesDue, GoesStale, TypeOK
  <2> QED BY <1>12, <2>2, RowLocksFrame DEF ComesDue, GoesStale
<1>13. ASSUME NEW new \in SUBSET Managers, Reassign(new) PROVE RowLocks'
  BY <1>13, RowLocksFrame DEF Reassign
<1>14. CASE UNCHANGED vars
  BY <1>14, RowLocksFrame DEF vars
<1> QED
  BY <1>1, <1>2, <1>3, <1>4, <1>5, <1>6, <1>7, <1>8, <1>9, <1>10, <1>11, <1>12, <1>13, <1>14
  DEF Next, PatchStep

\* A row is mailed by one task at a time, and what a PATCH has visited stays
\* out of the workers' reach.
THEOREM RowLocksHold == Spec => []RowLocks
<1>1. Init => RowLocks
  BY DEF Init, RowLocks, OneSender, PatchHoldsItsRows, Sending, FreeTask, NoPatch
<1>2. TypeOK /\ RowLocks /\ [Next]_vars => RowLocks'
  BY RowLocksStep
<1> QED BY <1>1, <1>2, TypeCorrect, PTL DEF Spec

----------------------------------------------------------------------------
\* Settled rows

LEMMA SettledStep ==
    TypeOK /\ RowLocks /\ [Next]_vars =>
      \A n \in NoteId : note[n].status \in {"SENT", "CANCELED"} =>
        note'[n] = note[n] /\ mails'[n] = mails[n]
<1> SUFFICES ASSUME TypeOK, RowLocks, [Next]_vars,
                    NEW n \in NoteId, note[n].status \in {"SENT", "CANCELED"}
             PROVE  note'[n] = note[n] /\ mails'[n] = mails[n]
  OBVIOUS
<1>1. ~LockedByTask(n) /\ note[n].status \notin Live
  BY MailedIsLive DEF Live
<1>2. \A t \in Task : Sending(t) => task[t].note # n
  BY <1>1 DEF LockedByTask
<1>3. CASE CreateBooking
  BY <1>3 DEF CreateBooking, RoomFor, Unused
<1>4. ASSUME NEW s \in Session, PatchStep(s) PROVE note'[n] = note[n] /\ mails'[n] = mails[n]
  <2>1. n \notin Cancelled(s)
    BY DEF Cancelled
  <2> QED BY <1>4, <2>1, PatchFrame DEF PatchCommit, RoomFor, Unused
<1>5. ASSUME NEW t \in Task, TaskStep(t) \/ TaskFault(t)
      PROVE  note'[n] = note[n] /\ mails'[n] = mails[n]
  <2>1. CASE TaskPostpone(t) \/ TaskCancelReminder(t)
    BY <1>1, <2>1 DEF TypeOK, TaskPostpone, TaskCancelReminder, Obtains
  <2>2. ASSUME NEW r \in Recipient, SendMail(t, r) \/ SendReplyLost(t, r)
        PROVE  note'[n] = note[n] /\ mails'[n] = mails[n]
    BY <1>2, <2>2 DEF TypeOK, SendMail, SendReplyLost, Mailed
  <2>3. CASE TaskSucceeds(t) \/ TaskFails(t)
    BY <1>2, <2>3 DEF TypeOK, TaskSucceeds, TaskFails
  <2> QED BY <1>5, <2>1, <2>2, <2>3 DEF TaskStep, TaskFault, Send, TaskSkip, TaskClaim,
            SendFails, TaskFailsUncounted, TaskRetry, TaskCrash, DatabaseFails
<1>6. ASSUME NEW claimed \in SUBSET DueRows, BeatClaim(claimed)
      PROVE  note'[n] = note[n] /\ mails'[n] = mails[n]
  BY <1>1, <1>6 DEF BeatClaim, DueRows, Live
<1>7. ASSUME NEW k \in NoteId, ManualRetry(k) \/ ComesDue(k) \/ GoesStale(k)
      PROVE  note'[n] = note[n] /\ mails'[n] = mails[n]
  BY <1>1, <1>7 DEF TypeOK, ManualRetry, ComesDue, GoesStale, Live
<1> QED
  BY <1>3, <1>4, <1>5, <1>6, <1>7 DEF Next, PatchLoad, Publish, PublisherDies, Reassign, vars

\* SENT and CANCELED notifications are final and silent, whatever workers, the
\* dispatcher, redelivered messages and PATCH requests do at the same time.
THEOREM SettledRowsAreFinal == Spec => SettledRowsStaySilent
<1>1. TypeOK /\ RowLocks /\ [Next]_vars =>
        [\A n \in NoteId : note[n].status \in {"SENT", "CANCELED"} =>
           note'[n] = note[n] /\ mails'[n] = mails[n]]_vars
  BY SettledStep
<1> QED BY <1>1, TypeCorrect, RowLocksHold, PTL DEF Spec, SettledRowsStaySilent

----------------------------------------------------------------------------
\* What recipients get

\* A row that a step may write without disturbing what is known of letters:
\* it keeps its type, its sent_to and whether it is SENT, or it is inserted.
Quiet(n) ==
    \/ /\ note'[n].type = note[n].type
       /\ note'[n].sentTo = note[n].sentTo
       /\ note'[n].status = "SENT" <=> note[n].status = "SENT"
    \/ /\ note[n].status = "ABSENT" /\ note'[n].status = "PENDING"
       /\ note'[n].sentTo = {}

\* A step that mails nothing, writes rows quietly, owes nobody a letter anew, and
\* stops no message that has mailed somebody, except in a fault.
LEMMA DeliveryFrame ==
    ASSUME TypeOK, RowLocks, Delivery, mails' = mails, faults' \in Nat, faults <= faults',
           \A n \in NoteId : Quiet(n),
           \A n \in NoteId : note'[n].status = "ABSENT" => note'[n] = note[n],
           \A n \in NoteId : owed'[n] \subseteq managers',
           \A n \in NoteId : note[n].status # "ABSENT" => owed'[n] \subseteq owed[n],
           \A t \in Task : \/ task'[t] = task[t]
                           \/ /\ task'[t].state # "sending"
                              /\ \/ ~Sending(t)
                                 \/ task[t].flushed = {}
                                 \/ faults' = faults + 1
    PROVE  Delivery'
<1> USE DEF TypeOK, RowLocks, Delivery
<1>0. faults \in Nat
  BY BoundsAssumption
<1>1. AbsentRowsAreBlank' /\ OwedAreInCharge'
  BY DEF AbsentRowsAreBlank, OwedAreInCharge
<1>2. ASSUME NEW n \in NoteId, note[n].status = "ABSENT"
      PROVE  /\ \A t \in Task : Sending(t) => task[t].note # n
             /\ \A r \in Recipient : ~Known(n, r)
  <2>1. \A t \in Task : Sending(t) => task[t].note # n
    BY <1>2 DEF OneSender, Live
  <2>2. note[n] = NoRow
    BY <1>2 DEF AbsentRowsAreBlank
  <2> QED BY <2>1, <2>2, <1>2 DEF NoRow, Known, InHand
<1>3. ASSUME NEW t \in Task, task'[t].state = "sending"
      PROVE  /\ task'[t] = task[t] /\ Sending(t)
             /\ note'[task[t].note].type = note[task[t].note].type
             /\ note'[task[t].note].sentTo = note[task[t].note].sentTo
             /\ owed'[task[t].note] \subseteq owed[task[t].note]
  <2>1. task'[t] = task[t] /\ Sending(t)
    BY <1>3 DEF Sending
  <2>2. task[t].note \in NoteId
    BY <2>1 DEF Sending
  <2> QED BY <1>2, <2>1, <2>2 DEF Quiet
<1>4. LoopIsConsistent'
  <2> SUFFICES ASSUME NEW t \in Task, Sending(t)' PROVE ConsistentLoop(t)'
    BY DEF LoopIsConsistent
  <2>1. ConsistentLoop(t) /\ task'[t] = task[t]
    BY <1>3 DEF LoopIsConsistent, Sending
  <2>2. Owed(task[t].note)' \subseteq Owed(task[t].note)
    BY <1>3, <2>1 DEF Owed, Sending
  <2>3. RecipientsOf(task[t].note)' = RecipientsOf(task[t].note)
    BY <1>3, <2>1 DEF RecipientsOf, Sending
  <2> QED BY <1>3, <2>1, <2>2, <2>3 DEF ConsistentLoop, Sending
<1>5. ASSUME NEW n \in NoteId, NEW r \in Recipient
      PROVE  /\ mails[n][r] <= 1 + faults'
             /\ ~Known(n, r)' => mails[n][r] <= faults'
             /\ Known(n, r)' /\ r \in RecipientsOf(n)' => mails[n][r] >= 1
  <2>1. /\ mails[n][r] \in Nat /\ mails[n][r] <= 1 + faults
        /\ ~Known(n, r) => mails[n][r] <= faults
        /\ Known(n, r) /\ r \in RecipientsOf(n) => mails[n][r] >= 1
    BY DEF LettersAccounted
  <2>2. CASE note[n].status = "ABSENT"
    <3>1. ~Known(n, r) /\ \A t \in Task : Sending(t) => task[t].note # n
      BY <1>2, <2>2
    <3>2. ~Known(n, r)'
      <4>1. note'[n].sentTo = {} /\ note'[n].status # "SENT"
        BY <1>2, <2>2 DEF Quiet, AbsentRowsAreBlank, NoRow
      <4> QED BY <1>3, <3>1, <4>1 DEF Known, InHand, Sending
    <3> QED BY <1>0, <2>1, <3>1, <3>2
  <2>3. CASE note[n].status # "ABSENT"
    <3>1. RecipientsOf(n)' = RecipientsOf(n)
      BY <2>3 DEF Quiet, RecipientsOf
    <3>2. Known(n, r)' => Known(n, r)
      BY <1>3, <2>3 DEF Quiet, Known, InHand, Sending
    <3>3. Known(n, r) => Known(n, r)' \/ faults' = faults + 1
      BY <2>3 DEF Quiet, Known, InHand, Sending
    <3> QED BY <1>0, <2>1, <3>1, <3>2, <3>3
  <2> QED BY <2>2, <2>3
<1>6. LettersAccounted'
  BY <1>5 DEF LettersAccounted
<1>7. SentIsDelivered'
  <2> SUFFICES ASSUME NEW n \in NoteId, note'[n].status = "SENT", NEW r \in Owed(n)'
               PROVE  mails[n][r] >= 1
    BY DEF SentIsDelivered
  <2>1. note[n].status = "SENT" /\ note'[n].type = note[n].type
    BY DEF Quiet
  <2>2. r \in Owed(n)
    BY <2>1 DEF Owed
  <2> QED BY <2>1, <2>2 DEF SentIsDelivered
<1> QED BY <1>1, <1>4, <1>6, <1>7

\* A letter leaves, or a send fails: only the message and the letters change.
LEMMA SendStep ==
    ASSUME TypeOK, RowLocks, Delivery, NEW t \in Task, NEW r \in Recipient,
           SendMail(t, r) \/ SendFails(t, r) \/ SendReplyLost(t, r)
    PROVE  Delivery'
<1> DEFINE n == task[t].note
<1> USE DEF TypeOK, RowLocks, Delivery
<1>1. /\ faults \in Nat /\ n \in NoteId /\ Sending(t) /\ r \in task[t].todo
      /\ note' = note /\ task[t] \in Message
  BY BoundsAssumption DEF SendMail, SendFails, SendReplyLost, Sending
<1>2. ConsistentLoop(t) /\ note[n].status \in Live
  BY <1>1 DEF LoopIsConsistent, OneSender
<1>3. \A u \in Task : Sending(u) /\ task[u].note = n => u = t
  BY <1>1 DEF OneSender
<1>4. ~Known(n, r) /\ r \in RecipientsOf(n)
  BY <1>1, <1>2, <1>3 DEF ConsistentLoop, Known, InHand, Live
<1>5. /\ AbsentRowsAreBlank' /\ OwedAreInCharge'
      /\ \A k \in NoteId : RecipientsOf(k)' = RecipientsOf(k) /\ Owed(k)' = Owed(k)
  BY <1>1 DEF AbsentRowsAreBlank, OwedAreInCharge, RecipientsOf, Owed, SendMail, SendFails,
     SendReplyLost, staff
<1>6. CASE SendMail(t, r)
  <2>1. /\ task'[t] = Reached(t, r) /\ \A u \in Task \ {t} : task'[u] = task[u]
        /\ mails' = [mails EXCEPT ![n][r] = @ + 1] /\ faults' = faults
    BY <1>6 DEF SendMail, Mailed, counters
  <2>2. /\ Reached(t, r).state = "sending" /\ Reached(t, r).note = n
        /\ Reached(t, r).todo = task[t].todo \ {r}
        /\ Reached(t, r).flushed = task[t].flushed \cup {r}
        /\ Reached(t, r).error = task[t].error
    BY <1>1 DEF Reached, Message, Sending
  <2>3. ConsistentLoop(t)'
    BY <1>1, <1>2, <1>5, <2>1, <2>2 DEF ConsistentLoop
  <2>4. LoopIsConsistent'
    <3> SUFFICES ASSUME NEW u \in Task \ {t}, Sending(u)' PROVE ConsistentLoop(u)'
      BY <2>3 DEF LoopIsConsistent
    <3>1. ConsistentLoop(u) /\ task'[u] = task[u] /\ task[u].note \in NoteId
      BY <2>1 DEF LoopIsConsistent, Sending
    <3> QED BY <1>1, <1>5, <3>1 DEF ConsistentLoop
  <2>5. ASSUME NEW k \in NoteId, NEW q \in Recipient
        PROVE  Known(k, q)' <=> Known(k, q) \/ (k = n /\ q = r)
    <3>1. \A u \in Task : /\ task'[u].state = task[u].state
                          /\ task'[u].note = task[u].note
                          /\ q \in task'[u].flushed <=> (q \in task[u].flushed \/ (u = t /\ q = r))
      BY <1>1, <2>1, <2>2 DEF Sending
    <3>2. InHand(k, q)' <=> (InHand(k, q) \/ (k = n /\ q = r))
      BY <1>1, <3>1 DEF InHand, Sending
    <3> QED BY <1>1, <3>2 DEF Known
  <2>6. \A k \in NoteId, q \in Recipient :
          mails'[k][q] = IF k = n /\ q = r THEN mails[k][q] + 1 ELSE mails[k][q]
    BY <1>1, <2>1
  <2>7. LettersAccounted'
    <3> SUFFICES ASSUME NEW k \in NoteId, NEW q \in Recipient
                 PROVE  /\ mails'[k][q] <= 1 + faults
                        /\ ~Known(k, q)' => mails'[k][q] <= faults
                        /\ Known(k, q)' /\ q \in RecipientsOf(k) => mails'[k][q] >= 1
      BY <1>5, <2>1 DEF LettersAccounted
    <3>1. /\ mails[k][q] \in Nat /\ mails[k][q] <= 1 + faults
          /\ ~Known(k, q) => mails[k][q] <= faults
          /\ Known(k, q) /\ q \in RecipientsOf(k) => mails[k][q] >= 1
      BY DEF LettersAccounted
    <3>2. mails[n][r] <= faults
      BY <1>1, <1>4 DEF LettersAccounted
    <3>3. CASE k = n /\ q = r
      <4>1. mails'[k][q] = mails[k][q] + 1 /\ mails[k][q] <= faults
        BY <2>6, <3>2, <3>3
      <4> QED BY <1>1, <2>5, <3>1, <3>3, <4>1
    <3>4. CASE ~(k = n /\ q = r)
      BY <2>5, <2>6, <3>1, <3>4
    <3> QED BY <3>3, <3>4
  <2>8. SentIsDelivered'
    <3> SUFFICES ASSUME NEW k \in NoteId, note[k].status = "SENT", NEW q \in Owed(k)
                 PROVE  mails'[k][q] >= 1
      BY <1>1, <1>5 DEF SentIsDelivered
    <3>1. k # n /\ q \in Recipient /\ mails[k][q] >= 1
      BY <1>2 DEF Live, SentIsDelivered, Owed, Recipient
    <3> QED BY <2>6, <3>1
  <2> QED BY <1>5, <2>4, <2>7, <2>8
<1>7. CASE SendFails(t, r) \/ SendReplyLost(t, r)
  <2>1. PICK err \in {"retry", "fatal"} : task' = [task EXCEPT ![t] = Missed(t, r, err)]
    BY <1>7 DEF SendFails, SendReplyLost, ErrorsFor
  <2>2. /\ task'[t] = Missed(t, r, err) /\ \A u \in Task \ {t} : task'[u] = task[u]
    BY <2>1
  <2>3. /\ Missed(t, r, err).state = "sending" /\ Missed(t, r, err).note = n
        /\ Missed(t, r, err).todo = task[t].todo \ {r}
        /\ Missed(t, r, err).flushed = task[t].flushed
        /\ Missed(t, r, err).error = err
    BY <1>1 DEF Missed, Message, Sending
  <2>4. ConsistentLoop(t)'
    <3>1. note[n].type = "REMINDER_CLIENT" =>
            task[t].todo \ {r} = {} /\ task[t].flushed = {}
      BY <1>1, <1>2 DEF ConsistentLoop, RecipientsOf
    <3> QED BY <1>1, <1>2, <1>5, <2>2, <2>3, <3>1 DEF ConsistentLoop
  <2>5. LoopIsConsistent'
    <3> SUFFICES ASSUME NEW u \in Task \ {t}, Sending(u)' PROVE ConsistentLoop(u)'
      BY <2>4 DEF LoopIsConsistent
    <3>1. ConsistentLoop(u) /\ task'[u] = task[u] /\ task[u].note \in NoteId
      BY <2>2 DEF LoopIsConsistent, Sending
    <3> QED BY <1>1, <1>5, <3>1 DEF ConsistentLoop
  <2>6. ASSUME NEW k \in NoteId, NEW q \in Recipient PROVE Known(k, q)' <=> Known(k, q)
    <3>1. \A u \in Task : /\ task'[u].state = task[u].state
                          /\ task'[u].note = task[u].note
                          /\ task'[u].flushed = task[u].flushed
      BY <1>1, <2>2, <2>3 DEF Sending
    <3> QED BY <1>1, <3>1 DEF Known, InHand, Sending
  <2>7. ASSUME NEW k \in NoteId, NEW q \in Recipient
        PROVE  \/ mails'[k][q] = mails[k][q] /\ faults' \in {faults, faults + 1}
               \/ mails'[k][q] = mails[k][q] + 1 /\ faults' = faults + 1 /\ k = n /\ q = r
    BY <1>1, <1>7 DEF SendFails, SendReplyLost, Mailed, counters
  <2>8. LettersAccounted'
    <3> SUFFICES ASSUME NEW k \in NoteId, NEW q \in Recipient
                 PROVE  /\ mails'[k][q] <= 1 + faults'
                        /\ ~Known(k, q)' => mails'[k][q] <= faults'
                        /\ Known(k, q)' /\ q \in RecipientsOf(k) => mails'[k][q] >= 1
      BY <1>5 DEF LettersAccounted
    <3>1. /\ mails[k][q] \in Nat /\ mails[k][q] <= 1 + faults
          /\ ~Known(k, q) => mails[k][q] <= faults
          /\ Known(k, q) /\ q \in RecipientsOf(k) => mails[k][q] >= 1
      BY DEF LettersAccounted
    <3>2. k = n /\ q = r => mails[k][q] <= faults
      BY <1>1, <1>4 DEF LettersAccounted
    <3> QED BY <1>1, <2>6, <2>7, <3>1, <3>2
  <2>9. SentIsDelivered'
    <3> SUFFICES ASSUME NEW k \in NoteId, note[k].status = "SENT", NEW q \in Owed(k)
                 PROVE  mails'[k][q] >= 1
      BY <1>1, <1>5 DEF SentIsDelivered
    <3>1. q \in Recipient /\ mails[k][q] \in Nat /\ mails[k][q] >= 1
      BY DEF SentIsDelivered, Owed, Recipient
    <3> QED BY <2>7, <3>1
  <2> QED BY <1>5, <2>5, <2>8, <2>9
<1> QED BY <1>6, <1>7

\* A worker obtains a row: it starts from what the row says.
LEMMA ClaimStep ==
    ASSUME TypeOK, RowLocks, Delivery, NEW t \in Task, TaskClaim(t)
    PROVE  Delivery'
<1> DEFINE n == task[t].note
<1> USE DEF TypeOK, RowLocks, Delivery
<1>1. /\ n \in NoteId /\ ~Sending(t) /\ note' = note /\ mails' = mails /\ faults' = faults
      /\ task' = [task EXCEPT ![t] = Execution(t)]
  BY DEF TaskClaim, Obtains, Sending, counters
<1>2. /\ task'[t] = Execution(t) /\ \A u \in Task \ {t} : task'[u] = task[u]
      /\ \A k \in NoteId : RecipientsOf(k)' = RecipientsOf(k) /\ Owed(k)' = Owed(k)
      /\ OwedAreInCharge'
  BY <1>1 DEF RecipientsOf, Owed, OwedAreInCharge, TaskClaim, staff
<1>3. ConsistentLoop(t)'
  <2>1. Owed(n) \subseteq Addressees(n) /\ Addressees(n) \subseteq RecipientsOf(n)
    BY <1>1 DEF Owed, Addressees, RecipientsOf, OwedAreInCharge
  <2> QED BY <1>1, <1>2, <2>1 DEF ConsistentLoop, Execution
<1>4. ASSUME NEW u \in Task \ {t}, Sending(u)' PROVE ConsistentLoop(u)'
  <2>1. ConsistentLoop(u) /\ task[u].note \in NoteId
    BY <1>2, <1>4 DEF LoopIsConsistent, Sending
  <2> QED BY <1>1, <1>2, <2>1 DEF ConsistentLoop
<1>5. LoopIsConsistent'
  BY <1>3, <1>4 DEF LoopIsConsistent
<1>6. \A k \in NoteId, r \in Recipient : Known(k, r)' <=> Known(k, r)
  BY <1>1, <1>2 DEF Known, InHand, Sending, Execution
<1>7. LettersAccounted'
  BY <1>1, <1>2, <1>6 DEF LettersAccounted
<1> QED BY <1>1, <1>2, <1>5, <1>7 DEF AbsentRowsAreBlank, SentIsDelivered

\* A worker commits the outcome of a run: what it knew, the row knows now.
LEMMA OutcomeStep ==
    ASSUME TypeOK, RowLocks, Delivery, NEW t \in Task, TaskSucceeds(t) \/ TaskFails(t)
    PROVE  Delivery'
<1> DEFINE n == task[t].note
<1> USE DEF TypeOK, RowLocks, Delivery
<1>1. /\ n \in NoteId /\ Sending(t) /\ mails' = mails /\ faults' = faults
      /\ task[t].todo = {}
  BY DEF TaskSucceeds, TaskFails, Sending, counters
<1>2. ConsistentLoop(t) /\ note[n].status \in Live
  BY <1>1 DEF LoopIsConsistent, OneSender
<1>3. \A u \in Task : Sending(u) /\ task[u].note = n => u = t
  BY <1>1 DEF OneSender
<1>4. /\ \A u \in Task \ {t} : task'[u] = task[u]
      /\ task'[t].state # "sending"
  <2>1. FreeTask.state # "sending"
    BY DEF FreeTask
  <2>2. [task[t] EXCEPT !.state = "failed", !.flushed = {}].state # "sending"
    BY DEF Message
  <2> QED BY <2>1, <2>2 DEF TaskSucceeds, TaskFails, Finish
<1>5. /\ \A k \in NoteId \ {n} : note'[k] = note[k]
      /\ note'[n].type = note[n].type
      /\ note'[n].sentTo = Recorded(t)
      /\ note'[n].status # "ABSENT"
      /\ note'[n].status = "SENT" <=> task[t].error = "none"
  <2>1. ASSUME NEW st \in NotificationStatus
        PROVE  /\ WithStatus(n, st) \in Row /\ WithStatus(n, st).status = st
               /\ WithStatus(n, st).type = note[n].type
    <3>1. note[n] \in Row
      BY <1>1
    <3>2. WithStatus(n, st) \in Row
      BY <1>1, <3>1, WithStatusType
    <3>3. WithStatus(n, st).status = st /\ WithStatus(n, st).type = note[n].type
      BY <3>1 DEF WithStatus, Row
    <3> QED BY <3>2, <3>3
  <2>2. CASE TaskSucceeds(t)
    <3> DEFINE row == [WithStatus(n, "SENT") EXCEPT !.sentTo = Recorded(t)]
    <3>1. note' = [note EXCEPT ![n] = row] /\ task[t].error = "none"
      BY <2>2 DEF TaskSucceeds
    <3>2. row.type = note[n].type /\ row.sentTo = Recorded(t) /\ row.status = "SENT"
      BY <2>1 DEF Row, NotificationStatus
    <3> HIDE DEF row
    <3> QED BY <1>1, <3>1, <3>2
  <2>3. CASE TaskFails(t)
    <3> DEFINE st == IF note[n].attempts + 1 >= MaxAttempts THEN "FAILED" ELSE "PROCESSING"
               row == [WithStatus(n, st) EXCEPT !.attempts = note[n].attempts + 1,
                                                !.sentTo = Recorded(t)]
    <3>1. note' = [note EXCEPT ![n] = row] /\ task[t].error # "none"
      BY <2>3 DEF TaskFails
    <3>2. row.type = note[n].type /\ row.sentTo = Recorded(t) /\ row.status = st
      BY <2>1 DEF Row, NotificationStatus
    <3>3. st # "SENT" /\ st # "ABSENT"
      OBVIOUS
    <3> HIDE DEF row, st
    <3> QED BY <1>1, <3>1, <3>2, <3>3
  <2> QED BY <2>2, <2>3
<1>6. /\ \A k \in NoteId : RecipientsOf(k)' = RecipientsOf(k) /\ Owed(k)' = Owed(k)
      /\ OwedAreInCharge'
  BY <1>5 DEF RecipientsOf, Owed, OwedAreInCharge, TaskSucceeds, TaskFails, staff
<1>7. ASSUME NEW u \in Task, Sending(u)' PROVE ConsistentLoop(u)'
  <2>1. ConsistentLoop(u) /\ task[u].note \in NoteId \ {n} /\ task'[u] = task[u]
    BY <1>3, <1>4, <1>7 DEF LoopIsConsistent, Sending
  <2> QED BY <1>5, <1>6, <2>1 DEF ConsistentLoop
<1>8. ASSUME NEW k \in NoteId, k = n, NEW r \in Recipient
      PROVE  /\ Known(k, r) => Known(k, r)'
             /\ Known(k, r)' /\ r \in RecipientsOf(k) => Known(k, r)
  <2>1. Recorded(t) = note[k].sentTo \cup (task[t].flushed \cap Managers)
    BY <1>8 DEF Recorded
  <2>2. \A u \in Task : task'[u].state = "sending" => task'[u].note # k
    BY <1>3, <1>4, <1>8 DEF Sending
  <2>3. Known(k, r) <=> r \in note[k].sentTo \/ r \in task[t].flushed
    BY <1>1, <1>2, <1>3, <1>8 DEF Known, InHand, Live
  <2>4. Known(k, r)' <=> (\/ r \in note'[k].sentTo
                          \/ note'[k].type = "REMINDER_CLIENT" /\ note'[k].status = "SENT")
    <3>1. ~InHand(k, r)'
      BY <2>2 DEF InHand, Sending
    <3>2. Known(k, r)' <=> \/ r \in note'[k].sentTo
                           \/ note'[k].type = "REMINDER_CLIENT" /\ note'[k].status = "SENT"
                           \/ InHand(k, r)'
      BY Zenon DEF Known
    <3> QED BY <3>1, <3>2
  <2>5. CASE note[k].type = "REMINDER_CLIENT"
    <3>1. RecipientsOf(k) = {Client} /\ note[k].sentTo \subseteq Managers
      BY <1>1, <2>5 DEF RecipientsOf, Row
    <3>2. task[t].error = "none" => Client \in task[t].flushed
      BY <1>1, <1>2, <1>8, <2>5, <3>1, ManagersAssumption DEF ConsistentLoop, Owed
    <3>3. task[t].error # "none" => task[t].flushed = {}
      BY <1>2, <1>8, <2>5 DEF ConsistentLoop
    <3>4. CASE task[t].error = "none"
      BY <1>5, <1>8, <2>3, <2>4, <2>5, <3>1, <3>2, <3>4
    <3>5. CASE task[t].error # "none"
      BY <1>5, <1>8, <2>1, <2>3, <2>4, <3>3, <3>5
    <3> QED BY <3>4, <3>5
  <2>6. CASE note[k].type # "REMINDER_CLIENT"
    <3>1. task[t].flushed \subseteq Managers
      BY <1>2, <1>8, <2>6 DEF ConsistentLoop, RecipientsOf
    <3>2. note'[k].sentTo = note[k].sentTo \cup task[t].flushed
      BY <1>5, <1>8, <2>1, <3>1
    <3>3. note'[k].type # "REMINDER_CLIENT"
      BY <1>5, <1>8, <2>6
    <3>4. Known(k, r)' <=> r \in note'[k].sentTo
      BY <2>4, <3>3
    <3> QED BY <2>3, <3>2, <3>4
  <2> QED BY <2>5, <2>6
<1>9. ASSUME NEW k \in NoteId \ {n}, NEW r \in Recipient PROVE Known(k, r)' <=> Known(k, r)
  BY <1>1, <1>4, <1>5, <1>9 DEF Known, InHand, Sending
<1>10. LettersAccounted'
  <2> SUFFICES ASSUME NEW k \in NoteId, NEW r \in Recipient
               PROVE  /\ mails[k][r] <= 1 + faults
                      /\ ~Known(k, r)' => mails[k][r] <= faults
                      /\ Known(k, r)' /\ r \in RecipientsOf(k)' => mails[k][r] >= 1
    BY <1>1 DEF LettersAccounted
  <2>1. /\ mails[k][r] <= 1 + faults
        /\ ~Known(k, r) => mails[k][r] <= faults
        /\ Known(k, r) /\ r \in RecipientsOf(k) => mails[k][r] >= 1
    BY DEF LettersAccounted
  <2>2. CASE k = n
    BY <1>6, <1>8, <2>1, <2>2
  <2>3. CASE k # n
    BY <1>6, <1>9, <2>1, <2>3
  <2> QED BY <2>2, <2>3
<1>11. SentIsDelivered'
  <2> SUFFICES ASSUME NEW k \in NoteId, note'[k].status = "SENT", NEW r \in Owed(k)
               PROVE  mails[k][r] >= 1
    BY <1>1, <1>6 DEF SentIsDelivered
  <2>1. CASE k # n
    BY <1>5, <2>1 DEF SentIsDelivered
  <2>2. CASE k = n
    <3>1. r \in task[t].flushed \cup note[n].sentTo
      BY <1>1, <1>2, <1>5, <2>2 DEF ConsistentLoop
    <3>2. Known(n, r) /\ r \in Recipient /\ r \in RecipientsOf(n)
      BY <1>1, <3>1, <2>2 DEF Known, InHand, Owed, RecipientsOf, Recipient
    <3> QED BY <1>1, <3>2, <2>2 DEF LettersAccounted
  <2> QED BY <2>1, <2>2
<1>12. AbsentRowsAreBlank'
  BY <1>5 DEF AbsentRowsAreBlank
<1> QED BY <1>6, <1>7, <1>10, <1>11, <1>12 DEF LoopIsConsistent

\* Every step keeps the account of the letters.
LEMMA DeliveryStep == TypeOK /\ RowLocks /\ Delivery /\ [Next]_vars => Delivery'
<1> SUFFICES ASSUME TypeOK, RowLocks, Delivery, [Next]_vars PROVE Delivery'
  OBVIOUS
<1> DEFINE RowsQuiet == \A n \in NoteId : Quiet(n)
           AbsentSame == \A n \in NoteId : note'[n].status = "ABSENT" => note'[n] = note[n]
           SameLetters == mails' = mails /\ faults' = faults
           SameStaff == managers' = managers /\ owed' = owed
<1>1. faults \in Nat
  BY BoundsAssumption DEF TypeOK
<1>2. note' = note => RowsQuiet /\ AbsentSame
  BY DEF Quiet
<1>0. SameStaff => /\ \A n \in NoteId : owed'[n] \subseteq managers'
                   /\ \A n \in NoteId : owed'[n] \subseteq owed[n]
  BY DEF Delivery, OwedAreInCharge
<1>3. CASE CreateBooking
  <2>1. PICK m \in NoteId, rem \in Reminders, d \in DueAtOnce, rd \in BOOLEAN :
               CreateBooking!2!(m, rem, d, rd)
    BY <1>3 DEF CreateBooking
  <2>2. RowsQuiet
    BY <2>1 DEF Quiet, RoomFor, Unused, NewRow
  <2>3. AbsentSame
    BY <2>1 DEF NewRow
  <2>4. SameLetters /\ SameStaff /\ task' = task
    BY <1>3 DEF CreateBooking, counters, staff
  <2> QED BY <1>0, <1>1, <2>2, <2>3, <2>4, DeliveryFrame
<1>4. ASSUME NEW s \in Session, PatchCommit(s) PROVE Delivery'
  <2>1. PICK m \in NoteId, d \in DueAtOnce, rd \in BOOLEAN : PatchCommit(s)!3!(m, d, rd)
    BY <1>4 DEF PatchCommit
  <2>2. ASSUME NEW n \in NoteId, n \in Cancelled(s)
        PROVE  /\ note[n].status = "PENDING" /\ n # m
               /\ WithStatus(n, "CANCELED").type = note[n].type
               /\ WithStatus(n, "CANCELED").sentTo = note[n].sentTo
               /\ WithStatus(n, "CANCELED").status = "CANCELED"
    <3>1. note[n].status = "PENDING" /\ note[n] \in Row
      BY <2>2 DEF Cancelled, TypeOK
    <3>2. n # m
      BY <2>1, <3>1 DEF RoomFor, Unused
    <3> QED BY <3>1, <3>2 DEF WithStatus, Row
  <2>3. WantsReminder(s) => m + 1 \in Unused
    BY <2>1 DEF RoomFor
  <2>4. RowsQuiet
    BY <2>1, <2>2, <2>3 DEF Quiet, RoomFor, Unused, NewRow
  <2>5. AbsentSame
    BY <2>1, <2>2 DEF NewRow
  <2>6. SameLetters /\ SameStaff /\ task' = task
    BY <1>4 DEF PatchCommit, counters, staff
  <2> QED BY <1>0, <1>1, <2>4, <2>5, <2>6, DeliveryFrame
<1>5. ASSUME NEW t \in Task, TaskPostpone(t) \/ TaskCancelReminder(t) PROVE Delivery'
  <2> DEFINE n == task[t].note
  <2>1. /\ n \in NoteId /\ note[n].status \in Live /\ ~Sending(t)
        /\ Finish(t) /\ SameLetters /\ SameStaff
    BY <1>5 DEF TaskPostpone, TaskCancelReminder, Obtains, Sending, TypeOK, counters, staff
  <2>2. PICK st \in {"PENDING", "CANCELED"} : note' = [note EXCEPT ![n] = WithStatus(n, st)]
    BY <1>5 DEF TaskPostpone, TaskCancelReminder
  <2>3. /\ WithStatus(n, st).type = note[n].type /\ WithStatus(n, st).sentTo = note[n].sentTo
        /\ WithStatus(n, st).status = st
    BY <2>1 DEF WithStatus, TypeOK, Row
  <2>4. RowsQuiet /\ AbsentSame
    BY <2>1, <2>2, <2>3 DEF Quiet, TypeOK, Live
  <2>5. \A u \in Task : task'[u] = task[u] \/ (~Sending(u) /\ task'[u].state # "sending")
    BY <2>1 DEF Finish, FreeTask, TypeOK
  <2> QED BY <1>0, <1>1, <2>1, <2>4, <2>5, DeliveryFrame
<1>6. ASSUME NEW t \in Task, TaskSkip(t) \/ TaskRetry(t) PROVE Delivery'
  <2>1. \A u \in Task : task'[u] = task[u] \/ (~Sending(u) /\ task'[u].state # "sending")
    BY <1>6 DEF TaskSkip, TaskRetry, Finish, FreeTask, Queued, Sending, TypeOK
  <2>2. SameLetters /\ SameStaff /\ note' = note
    BY <1>6 DEF TaskSkip, TaskRetry, counters, staff
  <2> QED BY <1>0, <1>1, <1>2, <2>1, <2>2, DeliveryFrame
<1>7. ASSUME NEW t \in Task, TaskFault(t) PROVE Delivery'
  <2>1. faults' = faults + 1 /\ mails' = mails /\ note' = note /\ SameStaff
    BY <1>7 DEF TaskFault, TaskCrash, DatabaseFails, staff
  <2>2. PICK m : m.state # "sending" /\ task' = [task EXCEPT ![t] = m]
    <3>1. Queued(task[t].note, task[t].retries).state # "sending"
      BY DEF Queued
    <3>2. [task[t] EXCEPT !.state = "failed", !.todo = {}, !.flushed = {},
                          !.error = "retry"].state # "sending"
      BY DEF TypeOK, Message
    <3> QED BY <1>7, <3>1, <3>2 DEF TaskFault, TaskCrash, DatabaseFails
  <2>3. \A u \in Task : task'[u] = task[u] \/ task'[u].state # "sending"
    BY <2>2 DEF TypeOK
  <2>4. faults' \in Nat /\ faults <= faults' /\ RowsQuiet /\ AbsentSame
    BY <1>1, <1>2, <2>1
  <2> QED BY <1>0, <2>1, <2>3, <2>4, DeliveryFrame
<1>8. ASSUME NEW e \in outbox, NEW t \in Task, Publish(e, t) PROVE Delivery'
  <2>1. \A u \in Task : task'[u] = task[u] \/ (~Sending(u) /\ task'[u].state # "sending")
    BY <1>8 DEF Publish, Queued, Sending, TypeOK
  <2>2. SameLetters /\ SameStaff /\ note' = note
    BY <1>8 DEF Publish, counters, staff
  <2> QED BY <1>0, <1>1, <1>2, <2>1, <2>2, DeliveryFrame
<1>9. ASSUME NEW claimed \in SUBSET DueRows, BeatClaim(claimed) PROVE Delivery'
  <2>1. \A n \in claimed : /\ n \in NoteId /\ note[n].status \in Live
                           /\ WithStatus(n, "PROCESSING").type = note[n].type
                           /\ WithStatus(n, "PROCESSING").sentTo = note[n].sentTo
                           /\ WithStatus(n, "PROCESSING").status = "PROCESSING"
    BY DueRowsType DEF WithStatus, TypeOK, Row
  <2>2. RowsQuiet /\ AbsentSame
    BY <1>9, <2>1 DEF BeatClaim, Quiet, Live
  <2>3. SameLetters /\ SameStaff /\ task' = task
    BY <1>9 DEF BeatClaim, counters, staff
  <2> QED BY <1>0, <1>1, <2>2, <2>3, DeliveryFrame
<1>10. ASSUME NEW n \in NoteId, ManualRetry(n) \/ ComesDue(n) \/ GoesStale(n) PROVE Delivery'
  <2>1. note[n] \in Row /\ note[n].status \in Live \cup {"FAILED"}
    BY <1>10 DEF ManualRetry, ComesDue, GoesStale, TypeOK, Live
  <2>2. PICK row \in Row : /\ note' = [note EXCEPT ![n] = row]
                           /\ row.type = note[n].type /\ row.sentTo = note[n].sentTo
                           /\ row.status \in Live
    <3>1. CASE ManualRetry(n)
      <4>0. PICK d \in DueAtOnce :
              note' = [note EXCEPT ![n] =
                         [WithStatus(n, "PENDING") EXCEPT !.due = d, !.attempts = 0]]
        BY <3>1 DEF ManualRetry
      <4> DEFINE row == [WithStatus(n, "PENDING") EXCEPT !.due = d, !.attempts = 0]
      <4>1. WithStatus(n, "PENDING") \in Row
        BY <2>1, WithStatusType DEF NotificationStatus
      <4>2. /\ WithStatus(n, "PENDING").type = note[n].type
            /\ WithStatus(n, "PENDING").sentTo = note[n].sentTo
            /\ WithStatus(n, "PENDING").status = "PENDING"
        BY <2>1 DEF WithStatus, Row
      <4>3. /\ row \in Row /\ row.type = note[n].type /\ row.sentTo = note[n].sentTo
            /\ row.status \in Live
        BY <4>1, <4>2 DEF Row, Live, DueAtOnce
      <4>4. note' = [note EXCEPT ![n] = row]
        BY <4>0
      <4> HIDE DEF row
      <4> QED BY <4>3, <4>4
    <3>2. CASE ComesDue(n)
      <4>1. note' = [note EXCEPT ![n] = [note[n] EXCEPT !.due = TRUE]]
        BY <3>2 DEF ComesDue
      <4>2. [note[n] EXCEPT !.due = TRUE] \in Row
        BY <2>1 DEF Row
      <4>3. note[n].status \in Live
        BY <3>2 DEF ComesDue
      <4> QED BY <2>1, <4>1, <4>2, <4>3 DEF Row
    <3>3. CASE GoesStale(n)
      <4>1. note' = [note EXCEPT ![n] = [note[n] EXCEPT !.stale = TRUE]]
        BY <3>3 DEF GoesStale
      <4>2. [note[n] EXCEPT !.stale = TRUE] \in Row
        BY <2>1 DEF Row
      <4>3. note[n].status \in Live
        BY <3>3 DEF GoesStale, Live
      <4> QED BY <2>1, <4>1, <4>2, <4>3 DEF Row
    <3> QED BY <1>10, <3>1, <3>2, <3>3
  <2>3. RowsQuiet /\ AbsentSame
    BY <2>1, <2>2 DEF Quiet, TypeOK, Live
  <2>4. SameLetters /\ SameStaff /\ task' = task
    BY <1>10 DEF ManualRetry, ComesDue, GoesStale, counters, staff
  <2> QED BY <1>0, <1>1, <2>3, <2>4, DeliveryFrame
<1>11. ASSUME SameLetters, SameStaff, note' = note, task' = task PROVE Delivery'
  BY <1>0, <1>1, <1>2, <1>11, DeliveryFrame
<1>12. CASE UNCHANGED vars \/ (\E e \in outbox : PublisherDies(e))
  BY <1>11, <1>12 DEF vars, PublisherDies, staff
<1>13. ASSUME NEW s \in Session, NEW want \in Requests, PatchLoad(s, want) PROVE Delivery'
  BY <1>11, <1>13 DEF PatchLoad, staff
<1>14. ASSUME NEW s \in Session, PatchStep(s) PROVE Delivery'
  BY <1>4, <1>11, <1>14, PatchFrame DEF counters, staff
<1>15. ASSUME NEW t \in Task, TaskFailsUncounted(t) PROVE Delivery'
  <2>1. ConsistentLoop(t) /\ task[t].flushed = {}
    BY <1>15 DEF TaskFailsUncounted, Delivery, LoopIsConsistent, ConsistentLoop
  <2>2. [task[t] EXCEPT !.state = "failed", !.flushed = {}].state # "sending"
    BY DEF TypeOK, Message
  <2>3. \A u \in Task : task'[u] = task[u] \/ (task[u].flushed = {} /\ task'[u].state # "sending")
    BY <1>15, <2>1, <2>2 DEF TaskFailsUncounted, TypeOK
  <2>4. SameLetters /\ SameStaff /\ note' = note
    BY <1>15 DEF TaskFailsUncounted, counters, staff
  <2> QED BY <1>0, <1>1, <1>2, <2>3, <2>4, DeliveryFrame
<1>16. ASSUME NEW new \in SUBSET Managers, Reassign(new) PROVE Delivery'
  <2>1. SameLetters /\ note' = note /\ task' = task
    BY <1>16 DEF Reassign, counters
  <2>2. /\ \A n \in NoteId : owed'[n] \subseteq managers'
        /\ \A n \in NoteId : note[n].status # "ABSENT" => owed'[n] \subseteq owed[n]
    BY <1>16 DEF Reassign
  <2> QED BY <1>1, <1>2, <2>1, <2>2, DeliveryFrame
<1>17. ASSUME NEW t \in Task, TaskStep(t) \/ TaskFault(t) PROVE Delivery'
  BY <1>5, <1>6, <1>7, <1>15, <1>17, SendStep, ClaimStep, OutcomeStep DEF TaskStep, Send
<1> QED
  BY <1>3, <1>8, <1>9, <1>10, <1>12, <1>13, <1>14, <1>16, <1>17 DEF Next

\* The account of the letters holds, whoever crashes and whoever leaves.
THEOREM DeliveryHolds == Spec => []Delivery
<1>1. Init => Delivery
  BY BoundsAssumption DEF Init, Delivery, AbsentRowsAreBlank, LoopIsConsistent, Sending,
     FreeTask, NoRow, LettersAccounted, SentIsDelivered, Known, InHand, OwedAreInCharge
<1>2. TypeOK /\ RowLocks /\ Delivery /\ [Next]_vars => Delivery'
  BY DeliveryStep
<1> QED BY <1>1, <1>2, TypeCorrect, RowLocksHold, PTL DEF Spec

\* The inductive invariant as a whole: types, row locks and the letters.
THEOREM InductiveInvariant == Spec => []IInv
<1>1. TypeOK /\ RowLocks /\ Delivery => IInv
  BY DEF IInv
<1> QED BY <1>1, TypeCorrect, RowLocksHold, DeliveryHolds, PTL

\* Beat, API publications, redelivery, Celery retries and manual retries alone
\* never mail anybody twice: each extra copy costs a crash or a lost reply.
THEOREM DuplicatesOnlyByFaults == Spec => []DuplicatesAreFaults
<1>1. Delivery => DuplicatesAreFaults
  BY DEF Delivery, LettersAccounted, DuplicatesAreFaults
<1> QED BY <1>1, DeliveryHolds, PTL

\* Whatever interrupted or retried the mailing, a row that says SENT was mailed
\* to everybody it is for.
THEOREM SentMeansDelivered == Spec => []SentIsDelivered
<1>1. Delivery => SentIsDelivered
  BY DEF Delivery
<1> QED BY <1>1, DeliveryHolds, PTL

----------------------------------------------------------------------------
\* Attempts

\* The attempts of a row, as every step leaves them.
Bounded == \A n \in NoteId : note[n].attempts <= MaxAttempts
AttemptsCounted == FailedIffExhausted /\ Bounded

LEMMA AttemptsStep ==
    TypeOK /\ RowLocks /\ AttemptsCounted /\ [Next]_vars => AttemptsCounted'
<1> SUFFICES ASSUME TypeOK, RowLocks, AttemptsCounted, [Next]_vars,
                    NEW n \in NoteId
             PROVE  /\ note'[n].status = "FAILED" <=> note'[n].attempts = MaxAttempts
                    /\ note'[n].attempts <= MaxAttempts
  BY DEF AttemptsCounted, FailedIffExhausted, Bounded
<1> DEFINE Goal == /\ note'[n].status = "FAILED" <=> note'[n].attempts = MaxAttempts
                   /\ note'[n].attempts <= MaxAttempts
<1>1. /\ note[n] \in Row /\ MaxAttempts \in Nat \ {0}
      /\ note[n].status = "FAILED" <=> note[n].attempts = MaxAttempts
      /\ note[n].attempts <= MaxAttempts
  BY AttemptsAssumption DEF TypeOK, AttemptsCounted, FailedIffExhausted, Bounded
<1>2. ASSUME \/ note'[n] = note[n]
             \/ note'[n].attempts = 0 /\ note'[n].status # "FAILED"
             \/ /\ note'[n].attempts = note[n].attempts
                /\ note'[n].status # "FAILED" /\ note[n].status # "FAILED"
      PROVE  Goal
  BY <1>1, <1>2
<1>3. \A st \in NotificationStatus : /\ WithStatus(n, st).status = st
                                     /\ WithStatus(n, st).attempts = note[n].attempts
  BY <1>1 DEF WithStatus, Row
<1>4. CASE CreateBooking
  <2>1. note'[n] = note[n] \/ (note'[n].attempts = 0 /\ note'[n].status # "FAILED")
    BY <1>4 DEF CreateBooking, NewRow
  <2> QED BY <1>2, <2>1
<1>5. ASSUME NEW s \in Session, PatchCommit(s) PROVE Goal
  <2>1. CASE n \in Cancelled(s)
    <3>1. note[n].status = "PENDING"
      BY <2>1 DEF Cancelled
    <3>2. \/ note'[n].attempts = 0 /\ note'[n].status # "FAILED"
          \/ note'[n] = WithStatus(n, "CANCELED")
      BY <1>5, <2>1 DEF PatchCommit, NewRow
    <3> QED BY <1>2, <1>3, <3>1, <3>2 DEF NotificationStatus
  <2>2. CASE n \notin Cancelled(s)
    <3>1. note'[n] = note[n] \/ (note'[n].attempts = 0 /\ note'[n].status # "FAILED")
      BY <1>5, <2>2 DEF PatchCommit, NewRow
    <3> QED BY <1>2, <3>1
  <2> QED BY <2>1, <2>2
<1>6. ASSUME NEW t \in Task, TaskPostpone(t) \/ TaskCancelReminder(t) PROVE Goal
  <2>1. note[task[t].note].status \in Live
    BY <1>6 DEF TaskPostpone, TaskCancelReminder, Obtains
  <2>2. \/ note'[n] = note[n]
        \/ /\ note[n].status \in Live
           /\ note'[n] \in {WithStatus(n, "PENDING"), WithStatus(n, "CANCELED")}
    BY <1>6, <2>1 DEF TaskPostpone, TaskCancelReminder, TypeOK
  <2> QED BY <1>2, <1>3, <2>2 DEF NotificationStatus, Live
<1>7. ASSUME NEW t \in Task, TaskSucceeds(t) \/ TaskFails(t) PROVE Goal
  <2>1. CASE n # task[t].note
    <3>1. note'[n] = note[n]
      BY <1>7, <2>1 DEF TaskSucceeds, TaskFails, TypeOK
    <3> QED BY <1>2, <3>1
  <2>2. CASE n = task[t].note
    <3>1. note[n].status \in Live
      BY <1>7, <2>2 DEF TaskSucceeds, TaskFails, RowLocks, OneSender
    <3>2. CASE TaskSucceeds(t)
      <4> DEFINE row == [WithStatus(n, "SENT") EXCEPT !.sentTo = Recorded(t)]
      <4>1. WithStatus(n, "SENT") \in Row
        BY <1>1, WithStatusType DEF NotificationStatus
      <4>2. row.status = "SENT" /\ row.attempts = note[n].attempts
        BY <1>3, <4>1 DEF Row, NotificationStatus
      <4>3. note'[n] = row
        BY <2>2, <3>2 DEF TaskSucceeds, TypeOK
      <4> HIDE DEF row
      <4> QED BY <1>2, <3>1, <4>2, <4>3 DEF Live
    <3>3. CASE TaskFails(t)
      <4> DEFINE st == IF note[n].attempts + 1 >= MaxAttempts THEN "FAILED" ELSE "PROCESSING"
                 row == [WithStatus(n, st) EXCEPT !.attempts = note[n].attempts + 1,
                                                  !.sentTo = Recorded(t)]
      <4>1. st \in NotificationStatus
        BY DEF NotificationStatus
      <4>2. WithStatus(n, st) \in Row
        BY <1>1, <4>1, WithStatusType
      <4>3. row.status = st /\ row.attempts = note[n].attempts + 1
        BY <1>3, <4>1, <4>2 DEF Row
      <4>4. note'[n] = row
        BY <2>2, <3>3 DEF TaskFails, TypeOK
      <4>5. note[n].attempts \in Nat /\ note[n].attempts < MaxAttempts
        BY <1>1, <3>1 DEF Row, Live
      <4> HIDE DEF row
      <4> QED BY <1>1, <4>3, <4>4, <4>5
    <3> QED BY <1>7, <3>2, <3>3
  <2> QED BY <2>1, <2>2
<1>8. ASSUME NEW claimed \in SUBSET DueRows, BeatClaim(claimed) PROVE Goal
  <2>1. \/ note'[n] = note[n]
        \/ note[n].status \in Live /\ note'[n] = WithStatus(n, "PROCESSING")
    BY <1>8 DEF BeatClaim, DueRows, Live
  <2> QED BY <1>2, <1>3, <2>1 DEF NotificationStatus, Live
<1>9. ASSUME NEW k \in NoteId, ManualRetry(k) \/ ComesDue(k) \/ GoesStale(k) PROVE Goal
  <2>1. CASE n # k
    <3>1. note'[n] = note[n]
      BY <1>9, <2>1 DEF ManualRetry, ComesDue, GoesStale, TypeOK
    <3> QED BY <1>2, <3>1
  <2>2. CASE n = k
    <3>1. CASE ManualRetry(k)
      <4>0. PICK d \in DueAtOnce :
              note' = [note EXCEPT ![k] =
                         [WithStatus(k, "PENDING") EXCEPT !.due = d, !.attempts = 0]]
        BY <3>1 DEF ManualRetry
      <4> DEFINE row == [WithStatus(n, "PENDING") EXCEPT !.due = d, !.attempts = 0]
      <4>1. WithStatus(n, "PENDING") \in Row
        BY <1>1, WithStatusType DEF NotificationStatus
      <4>2. row.status = "PENDING" /\ row.attempts = 0
        BY <1>3, <4>1 DEF Row, NotificationStatus
      <4>3. note'[n] = row
        BY <2>2, <4>0 DEF TypeOK
      <4> HIDE DEF row
      <4> QED BY <1>2, <4>2, <4>3
    <3>2. CASE ComesDue(k) \/ GoesStale(k)
      <4>1. /\ note'[n] \in {[note[n] EXCEPT !.due = TRUE], [note[n] EXCEPT !.stale = TRUE]}
            /\ note[n].status # "FAILED"
        BY <2>2, <3>2 DEF ComesDue, GoesStale, TypeOK, Live
      <4>2. note'[n].status = note[n].status /\ note'[n].attempts = note[n].attempts
        BY <1>1, <4>1 DEF Row
      <4> QED BY <1>2, <4>1, <4>2
    <3> QED BY <1>9, <3>1, <3>2
  <2> QED BY <2>1, <2>2
<1>10. ASSUME note' = note PROVE Goal
  BY <1>2, <1>10
<1>11. ASSUME NEW t \in Task, TaskStep(t) \/ TaskFault(t) PROVE Goal
  BY <1>6, <1>7, <1>10, <1>11 DEF TaskStep, TaskFault, Send, TaskSkip, TaskClaim,
     SendMail, SendFails, SendReplyLost, TaskFailsUncounted, TaskRetry, TaskCrash,
     DatabaseFails
<1>12. ASSUME NEW s \in Session, PatchStep(s) PROVE Goal
  BY <1>5, <1>10, <1>12, PatchFrame
<1> QED
  BY <1>4, <1>8, <1>9, <1>10, <1>11, <1>12 DEF Next, PatchLoad, Publish, PublisherDies,
     Reassign, vars

\* A notification has used up its attempts exactly when it is FAILED, however
\* Celery retries, rescues by beat and manual retries are interleaved.
THEOREM AttemptsAreCounted == Spec => []FailedIffExhausted
<1>1. Init => AttemptsCounted
  BY AttemptsAssumption DEF Init, AttemptsCounted, FailedIffExhausted, Bounded, NoRow
<1>2. TypeOK /\ RowLocks /\ AttemptsCounted /\ [Next]_vars => AttemptsCounted'
  BY AttemptsStep
<1>3. AttemptsCounted => FailedIffExhausted
  BY DEF AttemptsCounted
<1> QED BY <1>1, <1>2, <1>3, TypeCorrect, RowLocksHold, PTL DEF Spec

----------------------------------------------------------------------------
\* One live row per type

\* Before the booking exists nothing else does.
Uncreated == booking.status = "ABSENT" =>
    /\ \A n \in NoteId : note[n].status = "ABSENT"
    /\ \A s \in Session : patch[s] = NoPatch

LEMMA UncreatedStep == TypeOK /\ RowLocks /\ Uncreated /\ [Next]_vars => Uncreated'
<1> SUFFICES ASSUME TypeOK, RowLocks, Uncreated, [Next]_vars, booking'.status = "ABSENT"
             PROVE  /\ \A n \in NoteId : note'[n].status = "ABSENT"
                    /\ \A s \in Session : patch'[s] = NoPatch
  BY DEF Uncreated
<1>1. CASE booking.status # "ABSENT"
  <2>1. ASSUME NEW s \in Session, PatchCommit(s) PROVE FALSE
    BY <1>1, <2>1 DEF PatchCommit, Merged, Or, TypeOK, Patching, PatchRequest, BookingRow, StatusBooking
  <2>2. booking' # booking
    BY <1>1
  <2>3. ASSUME NEW t \in Task, TaskStep(t) \/ TaskFault(t) PROVE booking' = booking
    BY <2>3 DEF TaskStep, Send, TaskSkip, TaskPostpone, TaskCancelReminder, TaskClaim,
       SendMail, SendFails, SendReplyLost, TaskSucceeds, TaskFails, TaskFailsUncounted,
       TaskRetry, TaskFault, TaskCrash, DatabaseFails
  <2>4. ASSUME NEW s \in Session, PatchStep(s) PROVE booking' = booking
    BY <2>1, <2>4, PatchFrame
  <2>5. ~CreateBooking
    BY <1>1 DEF CreateBooking
  <2> QED
    BY <2>2, <2>3, <2>4, <2>5 DEF Next, PatchLoad, Publish, PublisherDies, BeatClaim,
       ManualRetry, ComesDue, GoesStale, Reassign, vars
<1>2. CASE booking.status = "ABSENT"
  <2>1. /\ \A n \in NoteId : note[n].status = "ABSENT"
        /\ \A s \in Session : patch[s] = NoPatch
    BY <1>2 DEF Uncreated
  <2>2. /\ \A t \in Task : ~Sending(t) /\ ~Obtains(t)
        /\ DueRows = {}
    BY <2>1, DueRowsType DEF Obtains, RowLocks, OneSender, Live, TypeOK, Sending
  <2>3. ~CreateBooking
    BY DEF CreateBooking
  <2>4. ASSUME NEW s \in Session, PatchStep(s) \/ \E want \in Requests : PatchLoad(s, want)
        PROVE  note' = note /\ patch' = patch
    <3>1. /\ patch[s].pc = "idle" /\ patch[s].scan = {}
          /\ [patch EXCEPT ![s] = NoPatch] = patch
      BY <2>1 DEF NoPatch, TypeOK
    <3>2. \A want \in Requests : ~PatchLoad(s, want)
      BY <1>2 DEF PatchLoad, StatusBooking
    <3>3. PatchDeadlock(s)
      BY <2>4, <3>1, <3>2 DEF PatchStep, PatchWrite, PatchScan, PatchCancel, PatchInsert,
         PatchCommit, PatchConflict, Inserting
    <3> QED BY <3>1, <3>3 DEF PatchDeadlock, PatchRollback
  <2>5. \A claimed \in SUBSET DueRows : ~BeatClaim(claimed)
    BY <2>2 DEF BeatClaim
  <2>6. \A n \in NoteId : ~ManualRetry(n) /\ ~ComesDue(n) /\ ~GoesStale(n)
    BY <2>1 DEF ManualRetry, ComesDue, GoesStale, Live
  <2>7. ASSUME NEW t \in Task, TaskStep(t) \/ TaskFault(t) PROVE note' = note /\ patch' = patch
    BY <2>2, <2>7 DEF TaskStep, Send, TaskSkip, TaskPostpone, TaskCancelReminder, TaskClaim,
       SendMail, SendFails, SendReplyLost, TaskSucceeds, TaskFails, TaskFailsUncounted,
       TaskRetry, TaskFault, TaskCrash, DatabaseFails
  <2>8. note' = note /\ patch' = patch
    BY <2>3, <2>4, <2>5, <2>6, <2>7 DEF Next, Publish, PublisherDies, Reassign, vars
  <2> QED BY <2>1, <2>8
<1> QED BY <1>1, <1>2

\* What a PATCH has inserted keeps its index entry: until it ends, the only live
\* rows of the type are rows that it has cancelled, and nobody else inserts one.
InsertsHold ==
    \A s \in Session : \A ty \in patch[s].inserted :
        IndexAccepts(ty, Cancelled(s), Session \ {s})

Unique == OneLivePerType /\ InsertsHold

\* Nobody comes to life by a write that keeps the types, and the rows that a PATCH
\* holds keep their status.
LEMMA UniqueFrame ==
    ASSUME TypeOK, Unique, patch' = patch,
           \A n \in NoteId : note'[n].status \in Live =>
             note[n].status \in Live /\ note'[n].type = note[n].type,
           \A n \in NoteId : LockedByPatch(n) => note'[n].status = note[n].status
    PROVE  Unique'
<1>1. OneLivePerType'
  BY DEF Unique, OneLivePerType
<1>2. ASSUME NEW s \in Session, NEW ty \in patch[s].inserted, NEW n \in LiveOfType(ty)'
      PROVE  n \in Cancelled(s)'
  <2>1. n \in NoteId /\ n \in LiveOfType(ty)
    BY <1>2 DEF LiveOfType
  <2>2. n \in Cancelled(s)
    BY <1>2, <2>1 DEF Unique, InsertsHold, IndexAccepts
  <2> QED BY <2>1, <2>2 DEF Cancelled, LockedByPatch
<1>3. InsertsHold'
  BY <1>2 DEF Unique, InsertsHold, IndexAccepts
<1> QED BY <1>1, <1>3 DEF Unique

\* A PATCH that locks more rows, or that inserts nothing any more, disturbs nobody.
LEMMA UniquePatchFrame ==
    ASSUME TypeOK, Unique, note' = note, NEW s \in Session, NEW p \in Patching,
           patch' = [patch EXCEPT ![s] = p],
           \/ p.inserted = {}
           \/ p.inserted = patch[s].inserted /\ patch[s].held \subseteq p.held
    PROVE  Unique'
<1>1. OneLivePerType'
  BY DEF Unique, OneLivePerType
<1>2. patch'[s] = p /\ \A u \in Session \ {s} : patch'[u] = patch[u]
  BY DEF TypeOK
<1>3. ASSUME NEW u \in Session, NEW ty \in patch'[u].inserted
      PROVE  IndexAccepts(ty, Cancelled(u), Session \ {u})'
  <2>1. ty \in patch[u].inserted /\ patch[u].held \subseteq patch'[u].held
    BY <1>2, <1>3
  <2>2. LiveOfType(ty)' = LiveOfType(ty) /\ Cancelled(u) \subseteq Cancelled(u)'
    BY <2>1 DEF LiveOfType, Cancelled
  <2>3. IndexAccepts(ty, Cancelled(u), Session \ {u})
    BY <2>1 DEF Unique, InsertsHold
  <2>4. \A v \in Session : patch'[v].inserted \subseteq patch[v].inserted
    BY <1>2
  <2> QED BY <2>2, <2>3, <2>4 DEF IndexAccepts
<1>4. InsertsHold'
  BY <1>3 DEF InsertsHold
<1> QED BY <1>1, <1>4 DEF Unique

LEMMA UniqueInsert ==
    ASSUME TypeOK, Unique, NEW s \in Session, PatchInsert(s)
    PROVE  Unique'
<1> DEFINE ty == NextType(s)
<1>1. /\ note' = note
      /\ patch'[s].inserted = patch[s].inserted \cup {ty}
      /\ patch'[s].held = patch[s].held
      /\ \A u \in Session \ {s} : patch'[u] = patch[u]
  BY DEF PatchInsert, TypeOK, Patching
<1>2. IndexAccepts(ty, Cancelled(s), Session \ {s})
  BY DEF PatchInsert
<1>3. OneLivePerType'
  BY <1>1 DEF Unique, OneLivePerType
<1> HIDE DEF ty
<1>4. ASSUME NEW u \in Session, NEW k \in patch'[u].inserted
      PROVE  IndexAccepts(k, Cancelled(u), Session \ {u})'
  <2>1. LiveOfType(k)' = LiveOfType(k) /\ Cancelled(u)' = Cancelled(u)
    BY <1>1 DEF LiveOfType, Cancelled
  <2>2. CASE u = s
    <3>1. IndexAccepts(k, Cancelled(s), Session \ {s})
      BY <1>1, <1>2, <1>4, <2>2 DEF Unique, InsertsHold
    <3> QED BY <1>1, <2>1, <2>2, <3>1 DEF IndexAccepts
  <2>3. CASE u # s
    <3>1. k \in patch[u].inserted /\ IndexAccepts(k, Cancelled(u), Session \ {u})
      BY <1>1, <1>4, <2>3 DEF Unique, InsertsHold
    <3>2. k # ty
      BY <1>2, <2>3, <3>1 DEF IndexAccepts
    <3> QED BY <1>1, <2>1, <3>1, <3>2 DEF IndexAccepts
  <2> QED BY <2>2, <2>3
<1>5. InsertsHold'
  BY <1>4 DEF InsertsHold
<1> QED BY <1>3, <1>5 DEF Unique

LEMMA UniqueCommit ==
    ASSUME TypeOK, RowLocks, Unique, NEW s \in Session, PatchCommit(s)
    PROVE  Unique'
<1>1. PICK m \in NoteId, d \in DueAtOnce, rd \in BOOLEAN : PatchCommit(s)!3!(m, d, rd)
  BY DEF PatchCommit
<1>2. \A n \in NoteId : WithStatus(n, "CANCELED").status \notin Live
  BY DEF WithStatus, TypeOK, Row, Live
<1>3. \A ty \in InsertedTypes(s) :
        /\ LiveOfType(ty) \subseteq Cancelled(s)
        /\ \A u \in Session \ {s} : ty \notin patch[u].inserted
  BY DEF PatchCommit, IndexAccepts, Unique, InsertsHold
<1>4. /\ ManagerType(s) \in InsertedTypes(s) /\ ManagerType(s) # "REMINDER_CLIENT"
      /\ WantsReminder(s) => "REMINDER_CLIENT" \in InsertedTypes(s)
  BY DEF ManagerType, InsertedTypes
<1>5. ASSUME NEW n \in NoteId, note'[n].status \in Live
      PROVE  \/ n = m /\ note'[n].type = ManagerType(s)
             \/ /\ WantsReminder(s) /\ n = m + 1 /\ n # m
                /\ note'[n].type = "REMINDER_CLIENT"
             \/ /\ note'[n] = note[n] /\ note'[n].type \notin InsertedTypes(s)
                /\ n # m /\ ~(WantsReminder(s) /\ n = m + 1)
  <2>1. CASE n = m \/ (WantsReminder(s) /\ n = m + 1)
    BY <1>1, <2>1 DEF NewRow
  <2>2. CASE n # m /\ ~(WantsReminder(s) /\ n = m + 1)
    <3>1. n \notin Cancelled(s)
      BY <1>1, <1>2, <1>5, <2>2
    <3>2. note'[n] = note[n]
      BY <1>1, <2>2, <3>1
    <3> QED BY <1>3, <1>5, <2>2, <3>1, <3>2 DEF LiveOfType
  <2> QED BY <2>1, <2>2
<1>6. OneLivePerType'
  BY <1>4, <1>5 DEF Unique, OneLivePerType
<1>7. patch'[s].inserted = {} /\ \A u \in Session \ {s} : patch'[u] = patch[u]
  BY DEF PatchCommit, NoPatch, TypeOK
<1>8. ASSUME NEW u \in Session, NEW ty \in patch'[u].inserted
      PROVE  IndexAccepts(ty, Cancelled(u), Session \ {u})'
  <2>1. u # s /\ ty \in patch[u].inserted /\ ty \notin InsertedTypes(s)
    BY <1>3, <1>7, <1>8
  <2>2. IndexAccepts(ty, Cancelled(u), Session \ {u})
    BY <2>1 DEF Unique, InsertsHold
  <2>3. ASSUME NEW n \in LiveOfType(ty)' PROVE n \in Cancelled(u)'
    <3>1. n \in NoteId /\ note'[n].status \in Live /\ note'[n].type = ty
      BY <2>3 DEF LiveOfType
    <3>2. note'[n] = note[n]
      BY <1>4, <1>5, <2>1, <3>1
    <3>3. n \in Cancelled(u)
      BY <2>2, <3>1, <3>2 DEF LiveOfType, IndexAccepts
    <3> QED BY <1>7, <2>1, <3>2, <3>3 DEF Cancelled
  <2> QED BY <1>7, <2>1, <2>2, <2>3 DEF IndexAccepts
<1>9. InsertsHold'
  BY <1>8 DEF InsertsHold
<1> QED BY <1>6, <1>9 DEF Unique

LEMMA UniqueRetry ==
    ASSUME TypeOK, Unique, NEW n \in NoteId, ManualRetry(n)
    PROVE  Unique'
<1>0. PICK d \in DueAtOnce :
        note' = [note EXCEPT ![n] =
                   [WithStatus(n, "PENDING") EXCEPT !.due = d, !.attempts = 0]]
  BY DEF ManualRetry
<1> DEFINE row == [WithStatus(n, "PENDING") EXCEPT !.due = d, !.attempts = 0]
<1>1. WithStatus(n, "PENDING") \in Row
  BY WithStatusType DEF NotificationStatus, TypeOK
<1>2. row.type = note[n].type
  BY <1>1 DEF WithStatus, Row, TypeOK
<1>3. note' = [note EXCEPT ![n] = row] /\ patch' = patch
  BY <1>0 DEF ManualRetry
<1>4. /\ LiveOfType(note[n].type) = {} /\ note[n].status = "FAILED"
      /\ \A s \in Session : note[n].type \notin patch[s].inserted
  BY DEF ManualRetry, IndexAccepts
<1> HIDE DEF row
<1>5. note'[n].type = note[n].type /\ \A k \in NoteId \ {n} : note'[k] = note[k]
  BY <1>2, <1>3 DEF TypeOK
<1>6. OneLivePerType'
  BY <1>4, <1>5 DEF Unique, OneLivePerType, LiveOfType
<1>7. ASSUME NEW s \in Session, NEW ty \in patch[s].inserted, NEW k \in LiveOfType(ty)'
      PROVE  k \in Cancelled(s)'
  <2>1. k \in NoteId /\ k # n /\ k \in LiveOfType(ty)
    BY <1>4, <1>5, <1>7 DEF LiveOfType
  <2>2. k \in Cancelled(s)
    BY <1>7, <2>1 DEF Unique, InsertsHold, IndexAccepts
  <2> QED BY <1>3, <1>5, <2>1, <2>2 DEF Cancelled
<1>8. InsertsHold'
  BY <1>3, <1>7 DEF Unique, InsertsHold, IndexAccepts
<1> QED BY <1>6, <1>8 DEF Unique

LEMMA UniqueOutcome ==
    ASSUME TypeOK, RowLocks, Unique, NEW t \in Task, TaskSucceeds(t) \/ TaskFails(t)
    PROVE  Unique'
<1> DEFINE n == task[t].note
<1>1. note[n].status \in Live /\ ~LockedByPatch(n)
  BY DEF TaskSucceeds, TaskFails, Sending, RowLocks, OneSender, PatchHoldsItsRows,
     LockedByPatch, LockedByTask, TypeOK
<1>2. patch' = patch
  BY DEF TaskSucceeds, TaskFails
<1>3. /\ n \in NoteId /\ note'[n].type = note[n].type
      /\ \A k \in NoteId \ {n} : note'[k] = note[k]
  BY OutcomeKeeps
<1> HIDE DEF n
<1>4. \A k \in NoteId : note'[k].status \in Live =>
        note[k].status \in Live /\ note'[k].type = note[k].type
  BY <1>1, <1>3
<1>5. \A k \in NoteId : LockedByPatch(k) => note'[k].status = note[k].status
  BY <1>1, <1>3
<1> QED BY <1>2, <1>4, <1>5, UniqueFrame

LEMMA UniqueStep == TypeOK /\ RowLocks /\ Uncreated /\ Unique /\ [Next]_vars => Unique'
<1> SUFFICES ASSUME TypeOK, RowLocks, Uncreated, Unique, [Next]_vars PROVE Unique'
  OBVIOUS
<1>1. \A n \in NoteId, st \in NotificationStatus :
        WithStatus(n, st).status = st /\ WithStatus(n, st).type = note[n].type
  BY DEF WithStatus, TypeOK, Row
<1>2. CASE CreateBooking
  <2>1. PICK m \in NoteId, rem \in Reminders, d \in DueAtOnce, rd \in BOOLEAN :
               CreateBooking!2!(m, rem, d, rd)
    BY <1>2 DEF CreateBooking
  <2>2. /\ \A n \in NoteId : note[n].status = "ABSENT"
        /\ \A s \in Session : patch'[s].inserted = {}
    BY <1>2 DEF CreateBooking, Uncreated, NoPatch
  <2>3. ASSUME NEW n \in NoteId, note'[n].status \in Live
        PROVE  \/ n = m /\ note'[n].type = "CREATED"
               \/ n = m + 1 /\ n # m /\ note'[n].type = "REMINDER_CLIENT"
    BY <2>1, <2>2, <2>3 DEF NewRow, Live
  <2>4. OneLivePerType'
    BY <2>3 DEF OneLivePerType
  <2>5. InsertsHold'
    BY <2>2 DEF InsertsHold
  <2> QED BY <2>4, <2>5 DEF Unique
<1>3. ASSUME NEW s \in Session, PatchStep(s) \/ \E want \in Requests : PatchLoad(s, want)
      PROVE  Unique'
  <2>0. patch[s] \in Patching
    BY DEF TypeOK
  <2>1. CASE PatchWrite(s)
    <3> DEFINE p == [patch[s] EXCEPT !.pc = "written", !.view = Merged(s)]
    <3>1. p \in Patching /\ p.inserted = patch[s].inserted /\ p.held = patch[s].held
      BY <2>0, MergedType DEF Patching, TypeOK
    <3>2. patch' = [patch EXCEPT ![s] = p] /\ note' = note
      BY <2>1 DEF PatchWrite
    <3> QED BY <3>1, <3>2, UniquePatchFrame
  <2>2. CASE PatchScan(s)
    <3> DEFINE p == [patch[s] EXCEPT !.pc = "cancelling",
                                     !.scan = {n \in NoteId : note[n].status = "PENDING"}]
    <3>1. p \in Patching /\ p.inserted = patch[s].inserted /\ p.held = patch[s].held
      BY <2>0 DEF Patching
    <3>2. patch' = [patch EXCEPT ![s] = p] /\ note' = note
      BY <2>2 DEF PatchScan
    <3> QED BY <3>1, <3>2, UniquePatchFrame
  <2>3. ASSUME NEW n \in NoteId, PatchCancel(s, n) PROVE Unique'
    <3> DEFINE p == [patch[s] EXCEPT !.scan = @ \ {n}, !.held = @ \cup {n}]
    <3>1. p \in Patching /\ p.inserted = patch[s].inserted /\ patch[s].held \subseteq p.held
      BY <2>0 DEF Patching
    <3>2. patch' = [patch EXCEPT ![s] = p] /\ note' = note
      BY <2>3 DEF PatchCancel
    <3> QED BY <3>1, <3>2, UniquePatchFrame
  <2>4. CASE PatchConflict(s) \/ PatchDeadlock(s)
    <3>1. patch' = [patch EXCEPT ![s] = NoPatch] /\ note' = note /\ NoPatch.inserted = {}
      BY <2>4 DEF PatchConflict, PatchDeadlock, PatchRollback, NoPatch
    <3> QED BY <3>1, NoPatchType, UniquePatchFrame
  <2>5. ASSUME NEW want \in Requests, PatchLoad(s, want) PROVE Unique'
    <3> DEFINE p == [NoPatch EXCEPT !.pc = "loaded", !.view = booking,
                     !.changes = [status   |-> Changed(want.status, booking.status),
                                  reminder |-> Changed(want.reminder, booking.reminder),
                                  touch    |-> want.touch]]
    <3>0. /\ want \in PatchRequest /\ booking \in BookingRow
          /\ booking.status \in StatusBooking
      BY <2>5, RequestsAssumption DEF PatchLoad, TypeOK
    <3>a. /\ Changed(want.status, booking.status) \in StatusBooking \cup {"unset"}
          /\ Changed(want.reminder, booking.reminder) \in {"on", "off", "unset"}
      BY <3>0 DEF PatchRequest, Changed, BookingRow
    <3>1. p \in Patching
      BY <3>0, <3>a, NoPatchType DEF Patching, PatchRequest
    <3>2. p.inserted = {}
      BY NoPatchType DEF Patching, NoPatch
    <3>3. patch' = [patch EXCEPT ![s] = p] /\ note' = note
      BY <2>5 DEF PatchLoad
    <3> HIDE DEF p
    <3> QED BY <3>1, <3>2, <3>3, UniquePatchFrame
  <2> QED BY <1>3, <2>1, <2>2, <2>3, <2>4, <2>5, UniqueInsert, UniqueCommit DEF PatchStep
<1>4. ASSUME NEW t \in Task, TaskPostpone(t) \/ TaskCancelReminder(t) PROVE Unique'
  <2>1. /\ task[t].note \in NoteId /\ note[task[t].note].status \in Live
        /\ ~LockedByPatch(task[t].note) /\ patch' = patch
        /\ \E st \in {"PENDING", "CANCELED"} :
             note' = [note EXCEPT ![task[t].note] = WithStatus(task[t].note, st)]
    BY <1>4 DEF TaskPostpone, TaskCancelReminder, Obtains, Locked, TypeOK
  <2> QED BY <1>1, <2>1, UniqueFrame DEF NotificationStatus, TypeOK
<1>5. ASSUME NEW claimed \in SUBSET DueRows, BeatClaim(claimed) PROVE Unique'
  <2>1. \A n \in claimed : n \in NoteId /\ note[n].status \in Live /\ ~LockedByPatch(n)
    BY <1>5, DueRowsType DEF Locked
  <2>2. /\ patch' = patch
        /\ note' = [n \in NoteId |->
                      IF n \in claimed THEN WithStatus(n, "PROCESSING") ELSE note[n]]
    BY <1>5 DEF BeatClaim
  <2> QED BY <1>1, <2>1, <2>2, UniqueFrame DEF NotificationStatus
<1>6. ASSUME NEW n \in NoteId, ComesDue(n) \/ GoesStale(n) PROVE Unique'
  <2>1. /\ patch' = patch
        /\ \/ note' = [note EXCEPT ![n] = [note[n] EXCEPT !.due = TRUE]]
           \/ note' = [note EXCEPT ![n] = [note[n] EXCEPT !.stale = TRUE]]
    BY <1>6 DEF ComesDue, GoesStale
  <2>2. \A new \in {[note[n] EXCEPT !.due = TRUE], [note[n] EXCEPT !.stale = TRUE]} :
          new.status = note[n].status /\ new.type = note[n].type
    BY DEF TypeOK, Row
  <2>3. \A k \in NoteId : note'[k].status = note[k].status /\ note'[k].type = note[k].type
    BY <2>1, <2>2 DEF TypeOK
  <2> QED BY <2>1, <2>3, UniqueFrame
<1>7. ASSUME note' = note, patch' = patch PROVE Unique'
  BY <1>7, UniqueFrame
<1>8. ASSUME NEW t \in Task, TaskStep(t) \/ TaskFault(t) PROVE Unique'
  BY <1>4, <1>7, <1>8, UniqueOutcome DEF TaskStep, TaskFault, Send, TaskSkip, TaskClaim,
     SendMail, SendFails, SendReplyLost, TaskFailsUncounted, TaskRetry, TaskCrash,
     DatabaseFails
<1> QED
  BY <1>2, <1>3, <1>5, <1>6, <1>7, <1>8, UniqueRetry
     DEF Next, Publish, PublisherDies, Reassign, vars

\* Two live notifications of one type never coexist, with any number of PATCH
\* requests, workers, dispatches and manual retries at once.
THEOREM TypesAreUnique == Spec => []OneLivePerType
<1>1. Init => Uncreated /\ Unique
  BY DEF Init, Uncreated, Unique, OneLivePerType, InsertsHold, NoRow, NoPatch, Live
<1>2. TypeOK /\ RowLocks /\ Uncreated /\ [Next]_vars => Uncreated'
  BY UncreatedStep
<1>3. TypeOK /\ RowLocks /\ Uncreated /\ Unique /\ [Next]_vars => Unique'
  BY UniqueStep
<1>4. Unique => OneLivePerType
  BY DEF Unique
<1> QED BY <1>1, <1>2, <1>3, <1>4, TypeCorrect, RowLocksHold, PTL DEF Spec

=============================================================================
