--------------------------- MODULE Notifications ---------------------------
(***************************************************************************)
(* The notifications of one booking: the rows of booking_notifications,    *)
(* the PATCH requests that replace them, the Celery tasks that mail them,  *)
(* the beat dispatcher that rescues them and the manual retry.             *)
(*                                                                         *)
(* Every statement of the code about a notification filters by its booking *)
(* or by its id, so one booking is the whole picture; the only thing two   *)
(* bookings share is the dispatcher's LIMIT, kept here as BeatLimit.       *)
(*                                                                         *)
(* The database is PostgreSQL at READ COMMITTED: the variables booking and *)
(* note hold committed data, a transaction in flight keeps its writes and  *)
(* row locks in its own record (patch[s], task[t]) until it commits.       *)
(*                                                                         *)
(* A definition marked "mutant" takes no part in the specification: it is  *)
(* a plausible mistake in the definition after it, which a run must catch. *)
(***************************************************************************)
EXTENDS Naturals, FiniteSets

CONSTANTS
    Session,          \* API requests that may be patching the booking at once
    Task,             \* slots for Celery messages: queued, running or retrying
    Managers,         \* whoever may be a manager of the booking's cafe
    FirstManagers,    \* the sets of them that the run may begin with
    Client,           \* the guest who owns the booking
    Requests,         \* the PATCH bodies under study
    Reminders,        \* the reminder choices of a new booking: "on", "off"
    MaxAttempts,      \* crud/notification.py: max_attempts (3)
    MaxRetries,       \* tasks/base.py: max_retries (3)
    BeatLimit,        \* rows one dispatch may claim (100)
    ClockSkew,        \* may a worker's clock be behind the API server's?
    LongErrors,       \* may an SMTP error be longer than its column (1024)?
    MaxNotes,         \* bound: rows the run may insert
    MaxPatches,       \* bound: PATCH requests
    MaxFaults,        \* bound: worker crashes, lost SMTP replies, failed writes
                      \* and publishers that die, all together
    BeatRows,         \* bound: rows the dispatcher may claim
    MaxReopened,      \* bound: manual retries
    MaxReassigned     \* bound: changes of the cafe's managers

NoteId == 1 .. MaxNotes
NotificationType == {"REMINDER_CLIENT", "CREATED", "UPDATED", "CANCELED"}
NotificationStatus == {"PENDING", "PROCESSING", "SENT", "FAILED", "CANCELED"}
Live == {"PENDING", "PROCESSING"}        \* the rows the partial index covers
StatusBooking == {"BOOKING", "CANCELED", "ACTIVE", "COMPLETED"}
Frozen == {"ACTIVE", "COMPLETED"}
BookingRow == [status : StatusBooking \cup {"ABSENT"}, reminder : {"on", "off"}]
Recipient == Managers \cup {Client}

\* What a PATCH body says: a status, whether a reminder is wanted
\* (reminder_minutes_before is not null), and whether another column changes.
PatchRequest == [status   : StatusBooking \cup {"unset"},
                 reminder : {"on", "off", "unset"},
                 touch    : BOOLEAN]

ASSUME NotesAssumption == MaxNotes \in Nat
ASSUME ManagersAssumption == /\ IsFiniteSet(Managers) /\ Client \notin Managers
                             /\ FirstManagers \subseteq SUBSET Managers
ASSUME RequestsAssumption ==
    Requests \subseteq PatchRequest /\ Reminders \subseteq {"on", "off"}
ASSUME AttemptsAssumption == MaxAttempts \in Nat \ {0} /\ MaxRetries \in Nat
ASSUME BoundsAssumption == /\ BeatLimit \in Nat \ {0}
                           /\ MaxPatches \in Nat
                           /\ MaxFaults \in Nat
                           /\ BeatRows \subseteq NoteId
                           /\ MaxReopened \in Nat
                           /\ MaxReassigned \in Nat
                           /\ ClockSkew \in BOOLEAN /\ LongErrors \in BOOLEAN

VARIABLES
    booking,    \* the committed booking row: its status and reminder column
    note,       \* NoteId -> committed notification row
    patch,      \* Session -> the PATCH request in flight
    outbox,     \* ids somebody has committed and is about to publish
    task,       \* Task -> a Celery message and its execution
    mails,      \* NoteId -> Recipient -> letters that left the SMTP server
    managers,   \* the managers of the booking's cafe
    owed,       \* NoteId -> managers of the cafe ever since the row exists
    patches,    \* PATCH requests so far
    faults,     \* worker crashes, lost SMTP replies and failed writes so far
    lost,       \* publishers that died before publishing so far
    reopened,   \* manual retries so far
    reassigned  \* changes of the cafe's managers so far

vars == <<booking, note, patch, outbox, task, mails, managers, owed,
          patches, faults, lost, reopened, reassigned>>
counters == <<patches, faults, lost, reopened>>
staff == <<managers, owed, reassigned>>

----------------------------------------------------------------------------
\* Rows

Row == [type : NotificationType, status : NotificationStatus \cup {"ABSENT"},
        attempts : Nat,
        due : BOOLEAN,                  \* scheduled_at <= now
        stale : BOOLEAN,                \* updated_at <= now - 10 minutes
        sentTo : SUBSET Managers]

NoRow == [type |-> "CREATED", status |-> "ABSENT", attempts |-> 0,
          due |-> FALSE, stale |-> FALSE, sentTo |-> {}]

NewRow(ty, due) == [type |-> ty, status |-> "PENDING", attempts |-> 0,
                    due |-> due, stale |-> FALSE, sentTo |-> {}]

\* Who may ever get notification n, who gets it when it is mailed now, and who
\* is to have had it by the time it is SENT.
RecipientsOf(n) ==
    IF note[n].type = "REMINDER_CLIENT" THEN {Client} ELSE Managers
Addressees(n) ==
    IF note[n].type = "REMINDER_CLIENT" THEN {Client} ELSE managers
Owed(n) ==
    IF note[n].type = "REMINDER_CLIENT" THEN {Client} ELSE owed[n]

\* scheduled_at = now() of the API server; a worker may read an earlier clock.
DueAtOnce == IF ClockSkew THEN BOOLEAN ELSE {TRUE}

\* Every write of a row refreshes updated_at.
WithStatus(n, st) == [note[n] EXCEPT !.status = st, !.stale = FALSE]

\* New rows take the lowest unused ids: a uuid's value is never compared.
Unused == {n \in NoteId : note[n].status = "ABSENT"}
RoomFor(m, two) == /\ m \in Unused /\ \A u \in Unused : m <= u
                   /\ two => m + 1 \in Unused

----------------------------------------------------------------------------
\* Celery messages

Message == [state : {"free", "queued", "sending", "failed"},
            note : NoteId \cup {0},
            retries : 0 .. MaxRetries,
            todo : SUBSET Recipient,     \* recipients the loop has not reached
            flushed : SUBSET Recipient,  \* mailed, the row not yet committed
            error : {"none", "retry", "fatal"}]

FreeTask == [state |-> "free", note |-> 0, retries |-> 0,
             todo |-> {}, flushed |-> {}, error |-> "none"]

Queued(n, k) == [state |-> "queued", note |-> n, retries |-> k,
                 todo |-> {}, flushed |-> {}, error |-> "none"]

Sending(t) == task[t].state = "sending"

----------------------------------------------------------------------------
\* Row locks and the partial unique index

LockedByTask(n) == \E t \in Task : Sending(t) /\ task[t].note = n
LockedByPatch(n) == \E s \in Session : n \in patch[s].held
LockedAsIfNoPatch(n) == LockedByTask(n)                            \* mutant
Locked(n) == LockedByTask(n) \/ LockedByPatch(n)

PendingOfType(ty) ==                                               \* mutant
    {n \in NoteId : note[n].type = ty /\ note[n].status = "PENDING"}
LiveOfType(ty) == {n \in NoteId : note[n].type = ty /\ note[n].status \in Live}

\* The rows a PATCH has written CANCELED.  It also keeps the lock of a row that
\* it found written by somebody else and no longer PENDING.
Cancelled(s) == {n \in patch[s].held : note[n].status = "PENDING"}

\* A row another transaction has written and not committed: an INSERT that
\* collides with it on the unique index waits for that transaction.
Unsettled(n, s) ==
    \/ \E u \in Session \ {s} : n \in Cancelled(u)
    \/ \E t \in Task : /\ Sending(t) /\ task[t].note = n
                       /\ task[t].flushed \cap Managers # {}

IndexAsElsewhere(ty, own, others) ==                               \* mutant
    LiveOfType(ty) = {} /\ \A u \in others : ty \notin patch[u].inserted

\* No live row of the type, committed or not, but those the writer has cancelled.
IndexAccepts(ty, own, others) ==
    LiveOfType(ty) \subseteq own /\ \A u \in others : ty \notin patch[u].inserted
IndexRejects(ty, s) == \E n \in LiveOfType(ty) \ Cancelled(s) : ~Unsettled(n, s)

----------------------------------------------------------------------------
\* Creating the booking (POST /booking): the booking, its CREATED row and its
\* reminder are committed together; the endpoint then publishes.

CreateBooking ==
    /\ booking.status = "ABSENT"
    /\ \E m \in NoteId, rem \in Reminders, d \in DueAtOnce, rd \in BOOLEAN :
         /\ RoomFor(m, rem = "on")
         /\ booking' = [status |-> "BOOKING", reminder |-> rem]
         /\ note' = [n \in NoteId |->
                       IF n = m THEN NewRow("CREATED", d)
                       ELSE IF n = m + 1 /\ rem = "on" THEN NewRow("REMINDER_CLIENT", rd)
                       ELSE note[n]]
         /\ outbox' = outbox \cup {<<"api", m>>}
    /\ UNCHANGED <<patch, task, mails, counters, staff>>

----------------------------------------------------------------------------
\* Updating the booking (PATCH /booking/{id}), one step per statement.

Patching == [pc : {"idle", "loaded", "written", "cancelling"},
             changes : PatchRequest,      \* the columns the flush will write
             view : BookingRow,           \* the booking as it has read it last
             scan : SUBSET NoteId,        \* rows its UPDATE has yet to visit
             held : SUBSET NoteId,        \* rows it has visited, and keeps locked
             inserted : SUBSET NotificationType]   \* its uncommitted rows

NothingToSet == [status |-> "unset", reminder |-> "unset", touch |-> FALSE]

NoPatch == [pc |-> "idle", changes |-> NothingToSet,
            view |-> [status |-> "BOOKING", reminder |-> "off"],
            scan |-> {}, held |-> {}, inserted |-> {}]

Or(new, old) == IF new = "unset" THEN old ELSE new
Changed(new, old) == IF new = old THEN "unset" ELSE new

\* get_booking_or_raise and check_booking_status.  The session goes on with
\* the row it read here: setattr overlays the body on it, and the flush will
\* write only the columns that differ from it.
PatchLoad(s, want) ==
    /\ patch[s].pc = "idle"
    /\ booking.status \in StatusBooking \ Frozen
    /\ patches < MaxPatches
    /\ patches' = patches + 1
    /\ patch' = [patch EXCEPT ![s] =
         [NoPatch EXCEPT !.pc = "loaded", !.view = booking,
          !.changes = [status   |-> Changed(want.status, booking.status),
                       reminder |-> Changed(want.reminder, booking.reminder),
                       touch    |-> want.touch]]]
    /\ UNCHANGED <<booking, note, outbox, task, mails, faults, lost, reopened, staff>>

LocksBooking(s) == patch[s].changes # NothingToSet
HoldsBooking(s) == patch[s].pc \in {"written", "cancelling"} /\ LocksBooking(s)

\* A column keeps its committed value unless this session writes it.
Merged(s) == [status   |-> Or(patch[s].changes.status, booking.status),
              reminder |-> Or(patch[s].changes.reminder, booking.reminder)]

\* booking_crud.update: the UPDATE, if there is one, waits for the booking's
\* row lock and then keeps it; the row is read back (populate_existing).
PatchWrite(s) ==
    /\ patch[s].pc = "loaded"
    /\ LocksBooking(s) => \A u \in Session \ {s} : ~HoldsBooking(u)
    /\ patch' = [patch EXCEPT ![s] = [@ EXCEPT !.pc = "written", !.view = Merged(s)]]
    /\ UNCHANGED <<booking, note, outbox, task, mails, counters, staff>>

\* cancel_pending_for_booking: one UPDATE over the rows that are PENDING when
\* it starts.  It visits them in whatever order the scan meets them, and waits
\* at each for whoever holds it, keeping those it has locked already; a row that
\* is no longer PENDING by then is left as it is, yet stays locked.
PatchScan(s) ==
    /\ patch[s].pc = "written"
    /\ patch' = [patch EXCEPT ![s] =
         [@ EXCEPT !.pc = "cancelling",
                   !.scan = {n \in NoteId : note[n].status = "PENDING"}]]
    /\ UNCHANGED <<booking, note, outbox, task, mails, counters, staff>>

PatchCancel(s, n) ==
    /\ n \in patch[s].scan
    /\ ~Locked(n)
    /\ patch' = [patch EXCEPT ![s] =
         [patch[s] EXCEPT !.scan = @ \ {n}, !.held = @ \cup {n}]]
    /\ UNCHANGED <<booking, note, outbox, task, mails, counters, staff>>

ManagerType(s) == IF patch[s].view.status = "CANCELED" THEN "CANCELED" ELSE "UPDATED"
WantsReminder(s) == patch[s].view.status # "CANCELED" /\ patch[s].view.reminder = "on"
InsertedTypes(s) ==
    {ManagerType(s)} \cup (IF WantsReminder(s) THEN {"REMINDER_CLIENT"} ELSE {})

\* update_booking_notifications inserts the managers' row first, then the
\* guest's; create_for_booking flushes each on its own.
NextType(s) ==
    IF ManagerType(s) \in patch[s].inserted THEN "REMINDER_CLIENT" ELSE ManagerType(s)
Inserting(s) == /\ patch[s].pc = "cancelling" /\ patch[s].scan = {}
                /\ patch[s].inserted # InsertedTypes(s)

PatchInsert(s) ==
    /\ Inserting(s)
    /\ IndexAccepts(NextType(s), Cancelled(s), Session \ {s})
    /\ patch' = [patch EXCEPT ![s].inserted = @ \cup {NextType(s)}]
    /\ UNCHANGED <<booking, note, outbox, task, mails, counters, staff>>

\* The COMMIT; the endpoint is then about to publish.
PatchCommit(s) ==
    /\ patch[s].pc = "cancelling" /\ patch[s].scan = {}
    /\ patch[s].inserted = InsertedTypes(s)
    /\ \E m \in NoteId, d \in DueAtOnce, rd \in BOOLEAN :
         /\ RoomFor(m, WantsReminder(s))
         /\ note' = [n \in NoteId |->
                       IF n = m THEN NewRow(ManagerType(s), d)
                       ELSE IF n = m + 1 /\ WantsReminder(s) THEN NewRow("REMINDER_CLIENT", rd)
                       ELSE IF n \in Cancelled(s) THEN WithStatus(n, "CANCELED")
                       ELSE note[n]]
         /\ outbox' = outbox \cup {<<"api", m>>}
    /\ booking' = Merged(s)
    /\ patch' = [patch EXCEPT ![s] = NoPatch]
    /\ UNCHANGED <<task, mails, counters, staff>>

\* A request that fails ends in a 500, and all it did is rolled back.
PatchRollback(s) ==
    /\ patch' = [patch EXCEPT ![s] = NoPatch]
    /\ UNCHANGED <<booking, note, outbox, task, mails, counters, staff>>

\* The INSERT violates the partial unique index.
PatchConflict(s) == Inserting(s) /\ IndexRejects(NextType(s), s) /\ PatchRollback(s)

\* What a PATCH waits for in another: the booking's row, a row that its UPDATE
\* is to visit, an index entry.  Workers wait for nobody: they skip locked rows.
WaitsFor(s, u) ==
    /\ s # u
    /\ \/ patch[s].pc = "loaded" /\ LocksBooking(s) /\ HoldsBooking(u)
       \/ patch[s].scan \cap patch[u].held # {}
       \/ /\ Inserting(s)
          /\ \/ NextType(s) \in patch[u].inserted
             \/ LiveOfType(NextType(s)) \cap Cancelled(u) # {}

\* PostgreSQL aborts a transaction that waits in a circle.
InCircle(s) ==
    \E ring \in SUBSET Session : s \in ring /\ \A v \in ring :
        (\E u \in ring : WaitsFor(v, u)) /\ (\E u \in ring : WaitsFor(u, v))
PatchDeadlock(s) == InCircle(s) /\ PatchRollback(s)

----------------------------------------------------------------------------
\* Publishing: delay() comes after the COMMIT, and its process may die between.

Publish(e, t) ==
    /\ e \in outbox
    /\ task[t].state = "free"
    /\ outbox' = outbox \ {e}
    /\ task' = [task EXCEPT ![t] = Queued(e[2], 0)]
    /\ UNCHANGED <<booking, note, patch, mails, counters, staff>>

PublisherDies(e) ==
    /\ e \in outbox
    /\ faults + lost < MaxFaults
    /\ outbox' = outbox \ {e}
    /\ lost' = lost + 1
    /\ UNCHANGED <<booking, note, patch, task, mails, patches, faults, reopened, staff>>

----------------------------------------------------------------------------
\* send_booking_notification.  get_for_processing takes the row lock with SKIP
\* LOCKED; the early returns below all finish, and acknowledge, the message.

Finish(t) == task' = [task EXCEPT ![t] = FreeTask]

TaskSkip(t) ==
    /\ task[t].state = "queued"
    /\ Locked(task[t].note) \/ note[task[t].note].status \notin Live
    /\ Finish(t)
    /\ UNCHANGED <<booking, note, patch, outbox, mails, counters, staff>>

ObtainsAnyRow(t) ==                                                \* mutant
    task[t].state = "queued" /\ ~Locked(task[t].note)

\* The row a queued message may work on: unlocked and still live.
Obtains(t) ==
    /\ task[t].state = "queued"
    /\ ~Locked(task[t].note)
    /\ note[task[t].note].status \in Live

TaskPostpone(t) ==
    LET n == task[t].note
    IN /\ Obtains(t)
       /\ ~note[n].due
       /\ note' = [note EXCEPT ![n] = WithStatus(n, "PENDING")]
       /\ Finish(t)
       /\ UNCHANGED <<booking, patch, outbox, mails, counters, staff>>

\* A reminder of a booking that is CANCELED when the worker reads it.
Moot(n) == note[n].type = "REMINDER_CLIENT" /\ booking.status = "CANCELED"

TaskCancelReminder(t) ==
    LET n == task[t].note
    IN /\ Obtains(t)
       /\ note[n].due
       /\ Moot(n)
       /\ note' = [note EXCEPT ![n] = WithStatus(n, "CANCELED")]
       /\ Finish(t)
       /\ UNCHANGED <<booking, patch, outbox, mails, counters, staff>>

ExecutionForEveryone(t) ==                                         \* mutant
    [state |-> "sending", note |-> task[t].note, retries |-> task[t].retries,
     todo |-> Addressees(task[t].note), flushed |-> {}, error |-> "none"]

\* _dispatch_notification: everyone who gets the letter now and has not got it.
Execution(t) ==
    LET n == task[t].note
    IN [state |-> "sending", note |-> n, retries |-> task[t].retries,
        todo |-> Addressees(n) \ note[n].sentTo, flushed |-> {}, error |-> "none"]

TaskClaim(t) ==
    LET n == task[t].note
    IN /\ Obtains(t)
       /\ note[n].due
       /\ ~Moot(n)
       /\ task' = [task EXCEPT ![t] = Execution(t)]
       /\ UNCHANGED <<booking, note, patch, outbox, mails, counters, staff>>

\* The loop over recipients moves on, with a letter sent or an error noted.
Reached(t, r) == [task[t] EXCEPT !.todo = @ \ {r}, !.flushed = @ \cup {r}]
MissedSilently(t, r, err) == [task[t] EXCEPT !.todo = @ \ {r}]      \* mutant
Missed(t, r, err) == [task[t] EXCEPT !.todo = @ \ {r}, !.error = err]

Mailed(n, r) == mails' = [mails EXCEPT ![n][r] = @ + 1]

\* channel.send succeeds; the manager is added to sent_to, flushed only.
SendMail(t, r) ==
    /\ Sending(t) /\ r \in task[t].todo
    /\ Mailed(task[t].note, r)
    /\ task' = [task EXCEPT ![t] = Reached(t, r)]
    /\ UNCHANGED <<booking, note, patch, outbox, counters, staff>>

\* What an exception of channel.send comes to: for a manager it is collected
\* into one RuntimeError; for the guest a missing address is a ValueError,
\* which RetryableTask does not retry.
ErrorsFor(r) == IF r = Client THEN {"retry", "fatal"} ELSE {"retry"}

SendFails(t, r) ==
    /\ Sending(t) /\ r \in task[t].todo
    /\ \E err \in ErrorsFor(r) :
         task' = [task EXCEPT ![t] = Missed(t, r, err)]
    /\ UNCHANGED <<booking, note, patch, outbox, mails, counters, staff>>

\* The letter was accepted but the reply was lost or late: send raises.
SendReplyLost(t, r) ==
    /\ Sending(t) /\ r \in task[t].todo
    /\ faults + lost < MaxFaults
    /\ faults' = faults + 1
    /\ Mailed(task[t].note, r)
    /\ task' = [task EXCEPT ![t] = Missed(t, r, "retry")]
    /\ UNCHANGED <<booking, note, patch, outbox, patches, lost, reopened, staff>>

Recorded(t) == note[task[t].note].sentTo \cup (task[t].flushed \cap Managers)

TaskSucceeds(t) ==
    LET n == task[t].note
    IN /\ Sending(t) /\ task[t].todo = {} /\ task[t].error = "none"
       /\ note' = [note EXCEPT ![n] = [WithStatus(n, "SENT") EXCEPT !.sentTo = Recorded(t)]]
       /\ Finish(t)
       /\ UNCHANGED <<booking, patch, outbox, mails, counters, staff>>

\* increment_attempts and the COMMIT; the exception then reaches RetryableTask.
TaskFails(t) ==
    LET n == task[t].note
        attempts == note[n].attempts + 1
        status == IF attempts >= MaxAttempts THEN "FAILED" ELSE "PROCESSING"
    IN /\ Sending(t) /\ task[t].todo = {} /\ task[t].error # "none"
       /\ note' = [note EXCEPT ![n] = [WithStatus(n, status) EXCEPT
                      !.attempts = attempts, !.sentTo = Recorded(t)]]
       /\ task' = [task EXCEPT ![t] = [@ EXCEPT !.state = "failed", !.flushed = {}]]
       /\ UNCHANGED <<booking, patch, outbox, mails, counters, staff>>

\* last_error holds 1024 characters; for the guest's reminder it gets the whole
\* text of the SMTP failure.  When that does not fit, the COMMIT fails and
\* takes the attempt with it; RetryableTask sees the database's exception.
TaskFailsUncounted(t) ==
    /\ LongErrors
    /\ Sending(t) /\ task[t].todo = {} /\ task[t].error = "retry"
    /\ note[task[t].note].type = "REMINDER_CLIENT"
    /\ task' = [task EXCEPT ![t] = [@ EXCEPT !.state = "failed", !.flushed = {}]]
    /\ UNCHANGED <<booking, note, patch, outbox, mails, counters, staff>>

\* RetryableTask.__call__: retry(countdown) publishes the message again.
TaskRetry(t) ==
    /\ task[t].state = "failed"
    /\ \/ /\ task[t].error = "retry" /\ task[t].retries < MaxRetries
          /\ task' = [task EXCEPT ![t] = Queued(task[t].note, task[t].retries + 1)]
       \/ /\ task[t].error # "retry" \/ task[t].retries = MaxRetries
          /\ Finish(t)
    /\ UNCHANGED <<booking, note, patch, outbox, mails, counters, staff>>

\* The worker process dies: its transaction is rolled back and the message,
\* which is acknowledged late, is delivered again.
TaskCrash(t) ==
    /\ task[t].state \in {"sending", "failed"}
    /\ faults + lost < MaxFaults
    /\ faults' = faults + 1
    /\ task' = [task EXCEPT ![t] = Queued(task[t].note, task[t].retries)]
    /\ UNCHANGED <<booking, note, patch, outbox, mails, patches, lost, reopened, staff>>

\* A flush or the COMMIT of a running task fails: its session is unusable, so
\* increment_attempts fails as well, all is rolled back, and the database's
\* exception reaches RetryableTask instead of the first one.
DatabaseFails(t) ==
    /\ Sending(t)
    /\ faults + lost < MaxFaults
    /\ faults' = faults + 1
    /\ task' = [task EXCEPT ![t] =
                   [@ EXCEPT !.state = "failed", !.todo = {}, !.flushed = {}, !.error = "retry"]]
    /\ UNCHANGED <<booking, note, patch, outbox, mails, patches, lost, reopened, staff>>

----------------------------------------------------------------------------
\* process_pending_due_notifications: claim with SKIP LOCKED, commit, publish.

DueRowsPendingOnly ==                                              \* mutant
    {n \in BeatRows : ~Locked(n) /\ note[n].status = "PENDING" /\ note[n].due}

DueRows ==
    {n \in BeatRows : /\ ~Locked(n)
                      /\ \/ note[n].status = "PENDING" /\ note[n].due
                         \/ note[n].status = "PROCESSING" /\ note[n].stale}

BeatClaim(claimed) ==
    /\ claimed # {}
    /\ \/ Cardinality(claimed) = BeatLimit
       \/ Cardinality(claimed) < BeatLimit /\ claimed = DueRows
    /\ note' = [n \in NoteId |->
                  IF n \in claimed THEN WithStatus(n, "PROCESSING") ELSE note[n]]
    /\ outbox' = outbox \cup {<<"beat", n>> : n \in claimed}
    /\ UNCHANGED <<booking, patch, task, mails, counters, staff>>

----------------------------------------------------------------------------
\* retry_failed_notification: back to PENDING, sent_to kept; the UPDATE meets
\* the unique index too, and its violation is a 500 that changes nothing.

ManualRetryKeepsAttempts(n) ==                                     \* mutant
    /\ note[n].status = "FAILED" /\ ~Locked(n) /\ IndexAccepts(note[n].type, {}, Session)
    /\ reopened < MaxReopened /\ reopened' = reopened + 1
    /\ \E d \in DueAtOnce :
         note' = [note EXCEPT ![n] = [WithStatus(n, "PENDING") EXCEPT !.due = d]]
    /\ outbox' = outbox \cup {<<"api", n>>}
    /\ UNCHANGED <<booking, patch, task, mails, patches, faults, lost, staff>>

ManualRetry(n) ==
    /\ note[n].status = "FAILED"
    /\ ~Locked(n)
    /\ IndexAccepts(note[n].type, {}, Session)
    /\ reopened < MaxReopened
    /\ reopened' = reopened + 1
    /\ \E d \in DueAtOnce :
         note' = [note EXCEPT ![n] =
                    [WithStatus(n, "PENDING") EXCEPT !.due = d, !.attempts = 0]]
    /\ outbox' = outbox \cup {<<"api", n>>}
    /\ UNCHANGED <<booking, patch, task, mails, patches, faults, lost, staff>>

----------------------------------------------------------------------------
\* The cafe gets other managers.  A row is owed to those who stay in charge
\* from its insertion on; a row that does not exist yet is owed to the new ones.

Reassign(new) ==
    /\ new # managers
    /\ reassigned < MaxReassigned
    /\ reassigned' = reassigned + 1
    /\ managers' = new
    /\ owed' = [n \in NoteId |->
                  IF note[n].status = "ABSENT" THEN new ELSE owed[n] \cap new]
    /\ UNCHANGED <<booking, note, patch, outbox, task, mails, counters>>

----------------------------------------------------------------------------
\* Time.  The model is untimed: a scheduled moment, or ten minutes without a
\* write, passes whenever it likes.

ComesDue(n) ==
    /\ note[n].status \in Live /\ ~note[n].due
    /\ note' = [note EXCEPT ![n].due = TRUE]
    /\ UNCHANGED <<booking, patch, outbox, task, mails, counters, staff>>

GoesStale(n) ==
    /\ note[n].status = "PROCESSING" /\ ~note[n].stale
    /\ note' = [note EXCEPT ![n].stale = TRUE]
    /\ UNCHANGED <<booking, patch, outbox, task, mails, counters, staff>>

----------------------------------------------------------------------------

Init ==
    /\ booking = [status |-> "ABSENT", reminder |-> "off"]
    /\ note = [n \in NoteId |-> NoRow]
    /\ patch = [s \in Session |-> NoPatch]
    /\ outbox = {}
    /\ task = [t \in Task |-> FreeTask]
    /\ mails = [n \in NoteId |-> [r \in Recipient |-> 0]]
    /\ managers \in FirstManagers
    /\ owed = [n \in NoteId |-> managers]
    /\ patches = 0 /\ faults = 0 /\ lost = 0 /\ reopened = 0 /\ reassigned = 0

PatchStep(s) ==
    \/ PatchWrite(s) \/ PatchScan(s) \/ \E n \in NoteId : PatchCancel(s, n)
    \/ PatchInsert(s) \/ PatchCommit(s) \/ PatchConflict(s) \/ PatchDeadlock(s)

Send(t) == \E r \in Recipient : SendMail(t, r) \/ SendFails(t, r) \/ SendReplyLost(t, r)

TaskStep(t) ==
    \/ TaskSkip(t) \/ TaskPostpone(t) \/ TaskCancelReminder(t) \/ TaskClaim(t)
    \/ Send(t) \/ TaskSucceeds(t) \/ TaskFails(t) \/ TaskFailsUncounted(t)
    \/ TaskRetry(t)

TaskFault(t) == TaskCrash(t) \/ DatabaseFails(t)

Next ==
    \/ CreateBooking
    \/ \E s \in Session, want \in Requests : PatchLoad(s, want)
    \/ \E s \in Session : PatchStep(s)
    \/ \E e \in outbox, t \in Task : Publish(e, t)
    \/ \E e \in outbox : PublisherDies(e)
    \/ \E t \in Task : TaskStep(t) \/ TaskFault(t)
    \/ \E claimed \in SUBSET DueRows : BeatClaim(claimed)
    \/ \E n \in NoteId : ManualRetry(n) \/ ComesDue(n) \/ GoesStale(n)
    \/ \E new \in SUBSET Managers : Reassign(new)

Spec == Init /\ [][Next]_vars

\* What keeps running: a request that was accepted goes on, and PostgreSQL wakes
\* those who wait for a row in the order they came, so that workers, who never
\* wait, cannot keep it from a PATCH for ever; a committed id is published unless
\* its process dies (delay() does not wait for a worker: that a slot in Task is
\* free time and again is enough); workers execute what is queued, beat ticks
\* every minute, and time passes.  Requests, retries, faults and new managers need
\* not happen.
Running ==
    /\ \A s \in Session : SF_vars(PatchStep(s))
    /\ \A t \in Task : WF_vars(TaskStep(t))

Fairness ==
    /\ Running
    /\ \A n \in NoteId :
         SF_vars(\E by \in {"api", "beat"}, t \in Task : Publish(<<by, n>>, t))
    /\ \A n \in NoteId :
         WF_vars(\E claimed \in SUBSET DueRows : n \in claimed /\ BeatClaim(claimed))
    /\ \A n \in NoteId : WF_vars(ComesDue(n) \/ GoesStale(n))

RunningSpec == Spec /\ Running
FairSpec == Spec /\ Fairness

----------------------------------------------------------------------------
\* Properties

\* Committed rows, requests and messages keep their shape, and a queued or
\* running message always names a row that exists.
TypeOK ==
    /\ booking \in BookingRow
    /\ note \in [NoteId -> Row]
    /\ patch \in [Session -> Patching]
    /\ outbox \subseteq {"api", "beat"} \X NoteId
    /\ task \in [Task -> Message]
    /\ \A t \in Task : task[t].state # "free" => task[t].note \in NoteId
    /\ mails \in [NoteId -> [Recipient -> Nat]]
    /\ managers \subseteq Managers /\ owed \in [NoteId -> SUBSET Managers]
    /\ patches \in 0 .. MaxPatches /\ faults \in 0 .. MaxFaults
    /\ lost \in 0 .. MaxFaults /\ reopened \in 0 .. MaxReopened
    /\ reassigned \in 0 .. MaxReassigned

\* Nobody gets the same notification twice except for a fault: each letter
\* beyond the first is paid for by a worker crash, a lost SMTP reply or a failed
\* write.  Races of beat, the API, redelivery and manual retry alone never duplicate one
\* (row lock with SKIP LOCKED, sent_to kept across attempts).
DuplicatesAreFaults ==
    \A n \in NoteId, r \in Recipient : mails[n][r] <= 1 + faults

\* SENT is the truth: the guest, or every manager in charge since the row was
\* written, was mailed, whichever of several attempts, interrupted or retried,
\* mailed them and however the cafe's managers changed between two attempts.
SentIsDelivered ==
    \A n \in NoteId : note[n].status = "SENT" => \A r \in Owed(n) : mails[n][r] >= 1

\* A notification has used up its attempts exactly when it is FAILED: leftover
\* Celery retries, rescues by beat and manual retries never run it past the
\* limit nor leave it live without attempts.
FailedIffExhausted ==
    \A n \in NoteId : note[n].status = "FAILED" <=> note[n].attempts = MaxAttempts

\* SENT and CANCELED are final, and silent: no late worker, stale message,
\* dispatcher or concurrent PATCH reopens such a row or mails it again.
SettledRowsStaySilent ==
    [][\A n \in NoteId : note[n].status \in {"SENT", "CANCELED"} =>
         note'[n] = note[n] /\ mails'[n] = mails[n]]_vars

\* Two live notifications of one type never coexist: the unique index, the
\* cancellation of the old rows and the dispatcher's rescues agree on it.
OneLivePerType ==
    \A n, m \in NoteId :
        note[n].status \in Live /\ note[m].status \in Live /\ note[n].type = note[m].type
            => n = m

\* Every notification settles: whatever is lost on the way (a publication, a
\* worker, a redelivery skipped on a locked row), beat and the ten-minute rule
\* find the row again until it is SENT, FAILED or CANCELED.  One thing defeats
\* the limit on attempts, and nothing else does: SMTP errors too long for
\* last_error, again and again.
EveryNotificationSettles ==
    \A n \in NoteId :
        \/ []<>(note[n].status \notin Live)
        \/ []<><<\E t \in Task : task[t].note = n /\ TaskFailsUncounted(t)>>_vars

\* Every PATCH gets an answer, a 500 at worst.  It may wait for the booking's row,
\* for rows that workers and other PATCHes hold and for the index entries of
\* either, and two PATCHes may so wait for each other (one has written UPDATED, a
\* manual retry then revives the REMINDER, the other cancels it); PostgreSQL
\* breaks that circle, and none is left that it cannot see.  It takes only that
\* requests and workers keep running.
EveryPatchEnds ==
    \A s \in Session : []<>(patch[s].pc = "idle")

----------------------------------------------------------------------------
\* Why the properties hold: the parts of the inductive invariant.

\* A row is mailed by one task at a time, and only while it is live.
OneSender ==
    \A t \in Task : Sending(t) =>
        /\ note[task[t].note].status \in Live
        /\ \A u \in Task : Sending(u) /\ task[u].note = task[t].note => u = t

\* The rows a PATCH visits exist; one it holds is mailed by no task and held by
\* no other PATCH.
PatchHoldsItsRows ==
    \A s \in Session :
        /\ \A n \in patch[s].scan \cup patch[s].held : note[n].status # "ABSENT"
        /\ \A n \in patch[s].held :
             /\ ~LockedByTask(n)
             /\ \A u \in Session : n \in patch[u].held => u = s

AbsentRowsAreBlank == \A n \in NoteId : note[n].status = "ABSENT" => note[n] = NoRow

\* The mailing loop: a recipient is either still to be mailed, or mailed in
\* this run, or mailed in an earlier one; a guest has one chance per run.
ConsistentLoop(t) ==
    LET n == task[t].note
    IN /\ task[t].todo \cup task[t].flushed \subseteq RecipientsOf(n)
       /\ task[t].todo \cap (task[t].flushed \cup note[n].sentTo) = {}
       /\ task[t].error = "none" =>
            Owed(n) \subseteq task[t].todo \cup task[t].flushed \cup note[n].sentTo
       /\ note[n].type = "REMINDER_CLIENT" /\ task[t].error # "none" =>
            task[t].todo = {} /\ task[t].flushed = {}

LoopIsConsistent == \A t \in Task : Sending(t) => ConsistentLoop(t)

\* That r was mailed notification n is known to its sender, or to the row.
InHand(n, r) == \E t \in Task : Sending(t) /\ task[t].note = n /\ r \in task[t].flushed
Known(n, r) ==
    \/ r \in note[n].sentTo
    \/ note[n].type = "REMINDER_CLIENT" /\ note[n].status = "SENT"
    \/ InHand(n, r)

\* Every letter is known or paid for by a fault, and what is known is true.
LettersAccounted ==
    \A n \in NoteId, r \in Recipient :
        /\ mails[n][r] <= 1 + faults
        /\ ~Known(n, r) => mails[n][r] <= faults
        /\ Known(n, r) /\ r \in RecipientsOf(n) => mails[n][r] >= 1

\* Nobody is owed a letter without being in charge.
OwedAreInCharge == \A n \in NoteId : owed[n] \subseteq managers

RowLocks == OneSender /\ PatchHoldsItsRows
Delivery ==
    /\ AbsentRowsAreBlank /\ OwedAreInCharge /\ LoopIsConsistent
    /\ LettersAccounted /\ SentIsDelivered
IInv == TypeOK /\ RowLocks /\ Delivery

=============================================================================
