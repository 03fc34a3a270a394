# Verification of the cafe booking service

TLA+ models, TLC runs and TLAPS proofs about the booking service: a FastAPI
application (`src/src/api`, `services`, `crud`) on PostgreSQL, with Celery
workers and a Celery beat scheduler (`src/src/tasks`) that mail notifications,
and Redis for caching and sessions. Paths below are relative to `src/src/`
unless they start with `tests/` or `infra/`.

## 1. Inventory

| Component | State | Operations | Interacts with | What is hard | Correct when |
|---|---|---|---|---|---|
| **Bookings** `services/booking.py`, `crud/booking.py` | `bookings` rows, `bookingtableslots` links with `is_active` | POST, PATCH, listings | tables and slots (read), notifications (same transaction), the endpoint publishes to Celery after the commit | checks without locks, statement by statement, at READ COMMITTED; a loaded row overlaid with the body and written column by column; local date against UTC | a table and slot of a date has one booking; a user is in one place at a time; guests have seats; finished bookings do not change |
| **Notifications** `services/notification.py`, `crud/notification.py` | `booking_notifications` rows: type, status, attempts, scheduled_at, updated_at, sent_to | insert with a booking, replace on PATCH, claim by beat, process, count attempts, manual retry | bookings, workers, beat, SMTP | row locks with SKIP LOCKED, the partial unique index, at-least-once mail | SENT means delivered; no duplicates without a fault; each settles; one live row per type |
| **Celery worker and beat** `tasks/` | messages in the broker, executions | publish, execute, retry, redeliver, dispatch every minute | notifications, SMTP | late acknowledgement, crashes, retries, publications lost between COMMIT and `delay()` | nothing is lost for good |
| **E-mail channel** `tasks/channels/email.py` | none | send | SMTP server | a reply lost after the letter was accepted | - |
| **Catalog: tables, slots** `crud/table.py`, `crud/slot.py`, ... | rows with `is_active`, seats, hours | create, PATCH | read by the checks of bookings | edits under a booking; one end of a slot at a time | a slot begins before it ends; conflicts are refused |
| **Catalog: dishes, actions** `services/dish.py`, `services/action.py`, ... | rows with a unique name, many-to-many with cafes | create, PATCH | cafes, cache | links changed relative to a list read earlier; row, index and foreign-key locks of one flush | the cafes are those of one request; a manager changes what is his cafe's alone |
| **Cafes and managers** `services/cafe.py` | `cafes`, `users.cafe_id` | create, PATCH, set managers | users, cache, notifications (recipients) | two transactions per request, read-then-write of the managers | a manager has one cafe; the request's managers are the cafe's |
| **Users** `crud/user.py`, `api/endpoints/user.py` | `users` | register, PATCH, change role | cafes, sessions | check-then-commit of identities, role change clears the cafe | identities unique; only managers have a cafe |
| **Auth sessions** `core/user.py` | a Redis key per token, sliding lifetime | register, use | users | expiry | an unused token dies |
| **Cache** `crud/base.py` | Redis keys per row and per list | read-through, delete after commit | catalog, cafes | a stale fill after a deletion, a lost deletion, writes that delete nothing | a wrong entry has a reason the code accepts, and dies |
| **Media** `crud/media.py` | files and rows | upload, download | cafes, dishes, actions | file before row, answer before COMMIT, a container without a volume | every row has its whole file; what is answered can be used |
| **API shell** `core/db.py`, `api/` | a session per request | COMMIT or rollback at its end | everything | the COMMIT comes after the answer | what was answered is kept |
| **Migrations, deployment** | none | - | - | - | - |

## 2. Modules

| Module | What it is | Code |
|---|---|---|
| `Notifications` | the notifications of one booking, from POST and PATCH through Celery to SMTP | `services/notification.py`, `crud/notification.py`, `tasks/*`, the transaction of `services/booking.py:334-430` |
| `Booking` | concurrent POST and PATCH of a cafe's bookings, the checks one statement at a time, creation and edits of tables and slots, the clock | `services/booking.py`, `crud/booking.py`, `schemas/booking.py` |
| `Staff` | who manages which cafe: POST and PATCH of cafes, PATCH of a user's role, with the sessions' identity maps, flushes, row locks and deadlocks | `services/cafe.py`, `crud/cafe.py`, `api/endpoints/user.py`, `crud/user.py`, `models/user.py`, `core/db.py` |
| `Accounts` | registration, login, PATCH of contacts, passwords and is_active, the tokens | `crud/user.py`, `api/endpoints/user.py`, `core/user.py`, `api/validators.py` |
| `Catalog` | POST and PATCH of dishes and actions with their cafes, and of slots with their hours, statement by statement | `crud/base.py`, `crud/dish.py`, `crud/action.py`, `crud/slot.py`, `services/dish.py`, `services/action.py`, `services/cafe.py:49-77`, `schemas/slots.py` |
| `Cache` | the Redis keys of one model, filled by readers and deleted by writers | `crud/base.py`, `crud/slot.py:91`, `crud/table.py:89`, `core/settings.py` |
| `Media` | uploads, from the file to the COMMIT after the answer, and the requests that use the pictures | `crud/media.py`, `services/media.py`, `api/endpoints/media.py`, `core/db.py`, `infra/docker-compose.yaml` |
| `Reservations` | abstract: who owns which table, slot and date | the promise of `check_double_booking_exsist` |
| `BookingReservations` | the refinement mapping from `Booking` to `Reservations`, and the hypotheses under which it holds | - |
| `Notifications_proofs`, `Booking_proofs`, `Staff_proofs`, `Accounts_proofs`, `Catalog_proofs`, `Cache_proofs`, `Media_proofs`, `BookingReservations_proofs` | the theorems about each module and the invariants they need (section 4) | - |
| `MCNotifications`, `MCBooking`, `MCStaff`, `MCAccounts`, `MCCatalog`, `MCCache`, `MCMedia`, `MCBookingReservations` | values for TLC | - |

A definition marked `mutant` in a module takes no part in the specification: it
is a plausible mistake that the runs are shown to catch.

### Notifications

State: `booking` (status, reminder) and `note` are committed rows. A PATCH in
flight is `patch[s]`, with the columns it will write, the booking as it last read
it, the rows its UPDATE has yet to visit (`scan`), those it has visited and keeps
locked (`held`), and the types it has inserted and not committed (`inserted`). `outbox` holds ids that were
committed and are about to be published, `task` the Celery messages and their
executions, `mails` how many letters left the SMTP server. Times are booleans:
`due` (scheduled_at has come) and `stale` (no write for ten minutes), which time
may set at any moment; `ClockSkew` lets a worker's clock be behind the API's.
`managers` are the cafe's managers at this moment, as `Staff` shows they come
about; `owed[n]` (history) those who have been in charge ever since row `n` was
written, and so must have had it by the time it is SENT.

| Action | Code |
|---|---|
| `CreateBooking` | POST commits the booking, its CREATED row and its reminder together |
| `PatchLoad`, `PatchWrite` | a PATCH loads and checks its booking; UPDATE of the booking and its re-read |
| `PatchScan`, `PatchCancel` | `cancel_pending_for_booking`: one UPDATE, which takes the rows that are PENDING when it starts, visits them in any order, waits at each, and keeps what it has locked |
| `PatchInsert`, `PatchCommit` | the INSERT of the managers' row, then of the reminder, each flushed on its own; the COMMIT |
| `PatchConflict`, `PatchDeadlock` | a unique violation, or PostgreSQL's answer to a circle of waits: a 500, and a rollback |
| `Publish`, `PublisherDies` | `delay()` after the COMMIT, or a process that dies before it |
| `TaskSkip`, `TaskPostpone`, `TaskCancelReminder`, `TaskClaim` | what `send_booking_notification` does with the row it finds, under `FOR UPDATE SKIP LOCKED` |
| `SendMail`, `SendFails`, `SendReplyLost` | one recipient of the loop in `_dispatch_notification` |
| `TaskSucceeds`, `TaskFails`, `TaskRetry`, `TaskCrash` | the end of a run, `increment_attempts`, `RetryableTask`, a dead worker and redelivery |
| `TaskFailsUncounted` | an SMTP error too long for `last_error` (1024 characters): the COMMIT of the attempt fails |
| `DatabaseFails` | a flush or COMMIT of a running task fails, and `increment_attempts` with it (`tasks/notifications.py:73`) |
| `Reassign` | `set_managers`, between any two steps of the tasks |
| `BeatClaim` | `process_pending_due_notifications` |
| `ManualRetry` | `retry_failed_notification` |
| `ComesDue`, `GoesStale` | time |

Locks: `Locked(n)` is the row lock of a worker or a PATCH; a PATCH that changes
a column waits for the booking's row (`HoldsBooking`), and its UPDATE for each row it
visits. An INSERT waits for an uncommitted row of its index entry, be it one that
another PATCH has inserted or one that it has cancelled (`Unsettled`); it is accepted
when no live row of its type is left but those it has cancelled itself
(`IndexAccepts`) and fails otherwise (`IndexRejects`). `WaitsFor` says who waits for
whom, `InCircle` who may be aborted. Such a circle does close: A has cancelled the
rows and inserted UPDATED; a manual retry makes a failed REMINDER PENDING again; B, which
changes no column of the booking, cancels that REMINDER and waits with its own UPDATED
for A, while A's REMINDER waits for B. Workers wait for nobody: they skip locked rows.
`crud/base.py:74-76` reads the booking back with populate_existing after the
flush, so the notifications follow the merged row, not the loaded one.

Abstracted: one booking (each statement filters by booking or by row); ids in
order of insertion; a listing is no step; PATCHes whose checks fail change nothing and do
not appear; `CreateBooking` and `ManualRetry` are one step each (nobody else knows a new
booking; a retry that waits for its row or for the index takes place at the end of its
wait, and a retry that the index refuses changes nothing).

### Booking

State: `booking` rows, active `links` and the places of deactivated ones
(`retired`), `table` and `slot` rows, requests in flight (`session`), the hour.
A request keeps the list of checks it has still to make; `Check` makes the next
one against what is committed at that moment, `Refuse` ends the request when it
fails, `Create` and `Update` write and commit. `ChecksOf` says which checks the
fields of a PATCH body ask for, in the code's order. `CreateTable`, `UpdateTable`
and `UpdateSlot` are the staff's edits, which look at no booking. `raced`, `skewed`,
`unchecked` and `edited` are history: no action reads them, the properties use
them to name the only ways a promise may be broken.

Abstracted: one cafe; the loads of a booking and of its links are one step; flush
and COMMIT are one step (their locks are in `Notifications`); `UpdateSlot` gives a slot
hours and activity in one step (`Catalog` has the statements and what the schema lets
through); bodies with an empty `tables_slots` are left out because the seats
check always refuses them; an explicit null (a 500 and a rollback) is left out.

### Staff

State: `user` (role and cafe_id) and `cafe` (its name) are committed rows.
A request in flight is `session[s]`: the step it is at, the body, its identity map
(`loaded`, `seen`), the managers' collection of the cafe as loaded (`current`),
the columns changed and not flushed (`writes`), flushed and not committed
(`flushed`). A SELECT leaves a row that is already in the identity map alone
(`Reading`), `crud/base.py` with options asks for `populate_existing`
(`Rereading`), and `expire_on_commit=False` keeps what was read across the first
COMMIT. A flush writes one row at a time, only the columns that differ from what
was read, in the order of the primary key (the unit of work sorts), and holds each row to
the end of the transaction.

| Action | Code |
|---|---|
| `PatchCafe`, `PostCafe`, `PatchUser` | a request whose actor `core/user.py:121` has read and `api/dependencies/permissions.py` has let in |
| `LoadCafe`, `CheckRoles` | `get_cafe_or_404` with `ensure_manager_cafe_access`; `ensure_managers_exist_and_role` |
| `Rename`, `Insert`, `CommitCafe`, `Reload` | the first transaction: `cafe_crud.update`, or `cafe_crud.create` and its commit, then the cafe read again |
| `Remove`, `Add` | the two halves of `set_managers`; each SELECT flushes what was changed before it |
| `LoadTarget` | `update_user_by_id`: the target, `ensure_user_update_allowed`, role and cafe_id |
| `WriteRow`, `BreaksCheck`, `DeadlockAbort` | one UPDATE of a flush: it waits for the row, is written, meets the CHECK constraint, or is the victim of a deadlock |
| `Commit`, `Refuse` | the end of a request |

`blind` is history: the users whom another request has changed since this one read
them. No action reads it; the properties use it to say which outcomes a race may
excuse.

Abstracted: of a cafe's own columns only the unique name; ids that do not exist
and the photo (an early refusal, no state); of a user's columns only role and
cafe_id; `managers_id: null`; an empty `managers_id` (the schema refuses it). The
bodies of PATCH /users/{id} always name a role.

### Accounts

State: `account` are the rows of users (two contacts, the password and whether
its hash is outdated, is_active), `token` whose token each is. A request
(`session[s]`) keeps its target's row as read (`seen`); `blind` is history as in
`Staff`. `LoadActor` is `get_current_user`, and for /users/me also the checks on
the same row; `LoadTarget` the row of /users/{id}; `CheckIdentity`
`_ensure_unique_identity`; `Write` the COMMIT, `Conflict` the IntegrityError that
`_commit_or_raise_conflict` turns into UserAlreadyExistsError. `LookUp`, `Rehash`
and `Issue` are the parts of login between its awaits.

Abstracted: username and tg_id (unique like the contacts, never null together);
a flush and its COMMIT are one step, because each of these transactions writes one
row with one statement and so cannot deadlock; lifetimes of tokens: that a token
expires is that nobody sends it any more; an error of Redis after the re-hash.
Those who PATCH others are administrators here; `Staff` has the rules for managers.

### Catalog

State: `row` are the committed rows of dishes and slots (an action is a dish here:
the same service, the same `CRUDBase`, its description unique like a dish's name),
`link` the cafes of each dish. A request (`session[s]`) keeps the row and the list of
cafes as read, and the statements of its flush that were executed: columns
(`wrote`), links deleted or inserted (`done`; `cut` are the deletes that met a row).

| Action | Code |
|---|---|
| `PostDish`, `PatchDish`, `PostSlot`, `PatchSlot` | a request the schema and the access checks have let in; the row and its cafes are read |
| `CheckCafes` | `ensure_cafes_exist`: reads cafes with `populate_existing`, and with them the columns of their dishes |
| `WriteRow`, `RowConflict` | INSERT or UPDATE of the row, or its unique violation |
| `Unlink`, `Link`, `LinkConflict`, `Share` | the DELETEs, then the INSERTs of links, `uq_cafe_dish`, the lock of the foreign key |
| `DeadlockAbort`, `Commit` | the end of a request |

An UPDATE of a unique column takes the lock that conflicts with a foreign key's; an
INSERT of a link first enters the unique index, then asks for that lock. `asked` and
`excused` are history.

Abstracted: price, descriptions of dishes and photos (plain columns like
`active`; the pictures are in `Media`); the creation of tables (in `Booking`); refused requests; the loop over cafes in
`CheckCafes` and the two SELECTs of a load are one step; an UPDATE takes its
row and its index entry at once. A manager's cafe is constant during a run
(`Staff` changes it).

### Cache

State: `row` (the version of an object's last write, and is_active), `cache` what
Redis holds under each key, `read` the misses in flight with the body their SELECT
returned, `delete` the keys a writer has still to delete after its COMMIT. `log`, and
`asOf` and `overtaken` of an entry, are history.

| Action | Code |
|---|---|
| `Miss`, `Fill`, `FillLost` | `get_with_cache`, `get_all_with_cache`: GET and SELECT; SET with its lifetime; a SET that fails. An absent object and an empty list are not cached |
| `Create`, `Update` | the COMMIT of `CRUDBase.create` and `update`, with the keys they are about to delete |
| `CreateWithCafe`, `RelatedWrite` | commits after which no key is deleted: new slots and tables; managers, who are embedded in cafes |
| `Delete`, `DeleteLost` | one DEL of all the keys, or none of them: a dead process, an error that is only logged |
| `Expire` | `redis_cache_expire_seconds`, or an eviction (`volatile-lru` in `infra/docker-compose.yaml`) |

Abstracted: bodies are sets of rows with their versions; a hit is no step. No endpoint
calls the cached readers yet, only `tests/test_backend_foundation.py` does; every
writer already deletes.

### Media

State: `upload[p]` how far POST /media has come, `file[p]` what is on the disk,
`medias` the committed rows, `request[r]` a request that saves a cafe, a dish or an
action with a picture. `wiped` and `failure` are history.

| Action | Code |
|---|---|
| `Refuse`, `StartWriting`, `FinishWriting`, `WriteFails`, `FlushFails`, `Answer` | `MediaCRUD.save_file` and the endpoint's answer |
| `Commit`, `CommitFails` | `get_session` after the answer (FastAPI 0.136 runs the exit code of a dependency once the response has left) |
| `Arrive`, `Save` | `get_media_or_raise`, which looks for the file whatever `check_file` says; the COMMIT with its foreign key. An action's service does not call it |
| `Crash`, `Deploy` | the process ends with what it is doing; a new container without the files of the old one |

Abstracted: content type, size and image conversion to accepted or refused; the rest
of the cafe, dish or action (in `Staff` and `Catalog`).

### Reservations

`owner` maps a table, slot and date to a booking or nobody; a booking trades all
it holds for cells that are free or its own. `BookingReservations` maps each
cell to the live booking that holds it. The implementation holds only where the
code's check does its work: one request at a time (`OneAtATime`), and no PATCH that
moves or revives a booking without naming its tables (`MovesNameTables`). Neither
can be dropped: `booking_moved` and `booking_race` show what happens otherwise.

## 3. Runs

Two sessions or two tasks are what every race in this code needs: locks and
checks are pairwise. Symmetry is used only in runs without liveness.

| Run | Shows | Bounds |
|---|---|---|
| `notifications_send` | `DuplicatesAreFaults`, `SentIsDelivered`, `FailedIffExhausted` | two managers, either, both or nobody in charge at first and two changes of that; two tasks, one row, two attempts (the code has 3; what counts is before, at and past the limit), one Celery retry per message, two faults or lost publications, one manual retry, skewed clocks; 970 000 states |
| `notifications_patches_end` | `OneLivePerType`, `SettledRowsStaySilent`, `EveryPatchEnds` under `RunningSpec` | two PATCHes at once, of which either may cancel the booking, with a reminder each, so that each inserts up to two rows; one worker, six rows, one manual retry; the dispatcher claims row 2 only (`BeatRows`), the first reminder, which is the row a retry brings back under a PATCH; 706 000 states |
| `notifications_settle` | `IInv`, `EveryNotificationSettles` under `FairSpec` | a reminder, one PATCH that cancels, three rows, one fault or one publication lost, errors too long for their column, one attempt per row; 230 000 states |
| `booking_race` | TypeOK, `DoublesAreExcused`, `CrossingsAreExcused`, `PlacesOfOneRequest` | two requests at once, four in all, PATCHes of places, date, status and is_active, two bookings, two tables, two slots that overlap or come to overlap when the staff move one, a guest and a manager; 2.3 million states |
| `booking_seats` | `CrowdsAreExcused`, `FrozenChangesAreLate`, `PlacesAreAhead` | two requests at once, three in all, one booking, PATCHes of places, guests and status, one creation or change of a table or slot, the hours from 0 to past midnight, a server whose local day begins an hour before the UTC day (a day has three hours); one slot begins on its date, the other on the day before it, as east of UTC; 2.7 million states |
| `booking_reservations` | `KeepsThePromise`: the refinement | one request at a time, five in all, three bookings; that the instance meets `OneAtATime` and `MovesNameTables` is an ASSUME |
| `staff` | TypeOK, `ChecksAreEnough`, `CirclesAreSwaps`, `ManagersAreAsAsked`, `AdminsAreSafe`, `EveryRequestEnds` under `FairSpec` | two requests in all, both at once, of every kind; an administrator and two users of any role, nine ways to begin, two cafes and one that is created, five PATCH bodies; a deadlock and every race needs no more than two requests; 217 000 states |
| `accounts` | TypeOK, `ConflictsAreRaces`, `PatchesTakeEffect`, `PasswordsChangeOnPurpose`, `TokensAreEarned` | three requests in all, two at once; an administrator, a guest with or without a phone and with or without an outdated hash, somebody who registers; two e-mails, two phones, two passwords, six PATCH bodies; 562 000 states |
| `catalog` | TypeOK, `MenusOfOneRequest`, `SlotsHaveLength`, `ManagersKeepToTheirCafe`, `ColumnsTakeEffect`, `EveryEditEnds` under `FairSpec` | three requests in all, two at once; an administrator and a manager of one of two cafes, a dish of one or both cafes and one yet to be, two names, a slot and one yet to be, three hours, six dish bodies, six slot bodies, one of which names no hour; the third request works on what two that overlapped have left; 168 000 states |
| `cache` | TypeOK, `StaleIsExcused`, `CacheConverges` under `FairSpec` | two objects, two readers, two writers, two writes, one lost deletion: an entry is wrong because of one write, and a reader can be overtaken by one; 518 000 states |
| `media` | TypeOK, `FilesMatchRows`, `SavedPicturesCanBeShown`, `AnsweredIdsAreGood` | two uploads, two requests, which may come again, two crashes or deployments; 16 500 states |
| `booking_moved` (violation) | `PlacesAreExclusive` fails without any concurrency | - |

Every bound is a CONSTANT of its module, with its value in the cfg. The runs
whose bounds exhaust (all requests made, all faults used) really stop, hence
`CHECK_DEADLOCK FALSE`; a wait that never ends would show in `EveryPatchEnds`
and `EveryNotificationSettles`.

### Fairness

`RunningSpec` of `Notifications` assumes what it takes for a PATCH to end: workers
execute what is queued (late acknowledgement and redelivery,
`tasks/celery_app.py:27-28`), and a request that was accepted goes on. The latter is
strong fairness of `PatchStep`: PostgreSQL queues those who wait for a row and wakes them
in order, while workers skip what is locked, so that a row which is free time and again
is not withheld from a PATCH for ever. `EveryPatchEnds` and `EveryNotificationSettles` are of the
form []<>, "time and again": a PATCH that is answered has ended, be it with a 500.
`FairSpec` adds: a
committed id is published unless its process dies (`PublisherDies` is bounded, not
fair); beat ticks every minute (`:30-36`) and reaches each due row (ordered by
scheduled_at, which the model does not have: that LIMIT passes no row over for ever is
assumed here, not shown); time passes. These are weak but for the
publication, which is strong, one for each row: `delay()` does not wait for a worker,
and it is only the model's finite set of `Task` that is full now and then. Nothing
forces a POST, a PATCH, a manual retry, a fault, a change of managers or a successful
letter: a row may also settle as FAILED.
`FairSpec` of `Cache` assumes that a request in flight ends, one way or the other, and
that Redis expires what it holds.
`FairSpec` of `Staff` and of `Catalog` assumes that a request that was let in goes on (`Proceed`):
it waits for locks only, and PostgreSQL aborts one of those that wait in a
circle (`DeadlockAbort`), which the code has no other answer to.

In `Notifications`, PATCHes and manual retries are bounded: the code has no defence against a guest
who edits a booking for ever, nor does it need one.

## 4. Proofs

Every invariant and every action property of a passing run is proved: for every
number of requests, users, rows, tasks and faults, every body, and under nothing but
the named assumptions of the modules. These say what the schemas and constraints
guarantee (a body names known fields, a first row meets its CHECK, users are a finite
set of keys) and that the bounds are numbers. The runs evaluate them.

| Module | Theorem | Property |
|---|---|---|
| `Notifications_proofs` | `TypeCorrect`, `InductiveInvariant`, `RowLocksHold`, `DeliveryHolds` | `TypeOK`, `IInv`, `RowLocks` (one sender per row; a PATCH holds the rows its UPDATE has visited), `Delivery` |
| | `SettledRowsAreFinal` | `SettledRowsStaySilent` |
| | `DuplicatesOnlyByFaults` | `DuplicatesAreFaults` |
| | `SentMeansDelivered` | `SentIsDelivered` |
| | `AttemptsAreCounted` | `FailedIffExhausted` |
| | `TypesAreUnique` | `OneLivePerType` |
| `Booking_proofs` | `TypeCorrect`, `RequestsSound`, `ChecksAreKept`, `ClocksAreKept` | `TypeOK` and the invariants below |
| | `DoublesHaveExcuses` | `DoublesAreExcused` |
| | `CrossingsHaveExcuses` | `CrossingsAreExcused` |
| | `CrowdsHaveExcuses` | `CrowdsAreExcused` |
| | `PlacesAreOfOneRequest` | `PlacesOfOneRequest` |
| | `FrozenChangesAreByLateRequests` | `FrozenChangesAreLate` |
| | `PlacesAreAheadOrExcused` | `PlacesAreAhead` |
| `BookingReservations_proofs` | `SerialRequestsKeepThePromise` | `KeepsThePromise` under `OneAtATime` and `MovesNameTables` |
| | `UndisturbedRequestsKeepThePromise` | `KeepsThePromise` of every behaviour that stays `Undisturbed` |
| `Staff_proofs` | `TypeCorrect`, `ChecksSuffice`, `CirclesComeOfSwaps`, `ManagersComeAsAsked`, `AdminsStaySafe` | `TypeOK`, `ChecksAreEnough`, `CirclesAreSwaps`, `ManagersAreAsAsked`, `AdminsAreSafe` |
| `Accounts_proofs` | `TypeCorrect`, `ConflictsComeOfRaces`, `PatchesLeaveWhatTheyName`, `PasswordsChangeByPatch`, `TokensAreOfThoseWhoProved` | `TypeOK`, `ConflictsAreRaces`, `PatchesTakeEffect`, `PasswordsChangeOnPurpose`, `TokensAreEarned` |
| `Catalog_proofs` | `TypeCorrect`, `MenusAreOfOneRequest`, `SlotsKeepLength`, `ManagersStayHome`, `ColumnsAreWritten` | `TypeOK`, `MenusOfOneRequest`, `SlotsHaveLength`, `ManagersKeepToTheirCafe`, `ColumnsTakeEffect` |
| `Cache_proofs` | `TypeCorrect`, `StalenessIsExcused` | `TypeOK`, `StaleIsExcused` |
| `Media_proofs` | `TypeCorrect`, `DiskAgreesWithTable`, `ChecksOfPicturesLast`, `StoredIdsAreAccepted` | `TypeOK`, `FilesMatchRows`, `SavedPicturesCanBeShown`, `AnsweredIdsAreGood` |

The proofs have one shape. None of the properties is inductive, because each speaks of
what is committed and depends on what a request in flight has read. So each invariant
says of a request, step by step, which part of its reading is still true, and
of which rows it is not (`blind`); a commit keeps what the others rely on or
makes them blind; and the property follows at the COMMIT.

### Notifications

`IInv == TypeOK /\ RowLocks /\ Delivery` is inductive.
`SentIsDelivered` is not by itself: that a run which ends without an error has
reached everybody needs `LoopIsConsistent` (each recipient is still to be mailed,
mailed in this run, or recorded by an earlier one), and that no other task or
PATCH interferes needs `OneSender` and `PatchHoldsItsRows`. That SENT means delivered
also while managers come and go needs `OwedAreInCharge`: whoever is owed a row is still
in charge, so the next run of a task addresses him. `DuplicatesAreFaults`
needs `LettersAccounted`: a letter is known to the row (`sent_to`, or SENT for
a reminder) or to the task that holds the row, and one that is not known has been
paid for by a fault; a crash forgets what the task knew, and pays for it.
A row that a task is mailing is live (`MailedIsLive`), which keeps the steps on new and
on settled rows apart from those on rows in hand.
`FailedIffExhausted` follows from its own induction with `TypeOK` and `RowLocks`.
`OneLivePerType` is not inductive once an INSERT is a step of its own: it needs
`InsertsHold`, that of a type a PATCH has inserted there is no live row but those it has
cancelled, and no other PATCH that inserted it; `Unique` is the two together. TLC checks `IInv` as an invariant of
`notifications_settle`.

### Booking and Reservations

`RequestsAreSound`: a PATCH that is fresh (nobody has committed its booking since it
read it) holds the committed row under its body, and the links that are active.
`FrozenChangesAreLate` and `PlacesOfOneRequest` follow.

`ChecksHold` is what a passed check is worth until the COMMIT, for the
bookings the request is not blind to. `DoubleHolds`: none of the date has one of the
places. `CrossHolds`: none of the same user has an overlapping slot, as far as
the staff have not moved the slots. `SeatsHold`: the tables have the seats, as far as
the staff have not changed them. A commit of another request adds its booking to
`blind`, an edit adds its table or slot to `edited`, and a check that is still to be
made (`Passed`) promises nothing; `ChecksOfNames` shows that a body which names places
asks for the double check, and so on. `CommitOutcome` sums up what a COMMIT does: one booking
changes, all it was blind to are recorded as `raced`, and it is `skewed`, or has places
which were checked, or goes away, or was moved unchecked. From this follow
`DoublesAreExcused` and `CrossingsAreExcused` by induction over pairs of bookings.

`ClocksHold`: the request arrived before now, its date is not past for the server, and
while the UTC day lasts, what it found ahead was ahead when it arrived. Days and hours
come from a time by division, so the lemmas `DayAndHour`, `DaysPass`, `HoursPass`
and `LaterDayStarts` carry the arithmetic, for every length of a day and every offset.

The refinement: `OwnerIsHolder` says that each cell has at most one holder, which is
`PlacesAreExclusive`; `OneBookingTrades` shows that a step which changes one booking,
between two such states, is a `Move` of `Reservations`; `CommitOutcome` that every step changes
at most one; `NobodyOwnsAtFirst` maps the initial states. `DoublesAreExcused` gives
exclusive places wherever nothing is raced, skewed or unchecked (`Undisturbed`), and
`RequestsAreTame` derives that from `OneAtATime` and `MovesNameTables`.

### Staff

`Inv == TypeOK /\ RequestsAreSound /\ RowsPassCheck /\ LocksExclude`. A request is sound
if its step fits its kind (`StepIsSound`); a row that was read and nobody has changed
since is its own version of the committed row (`ReadingIsSound`); the managers asked for
have been checked and those of the cafe loaded (`CafeIsSound`); and what it has flushed
is a part of `set_managers` or of one PATCH, in the order of the keys (`FlushIsSound`).
`LocksExclude`: of two requests only one has written a row. `CirclesAreSwaps` then is an
argument about the greatest row anybody in the circle waits for: whoever holds
it has passed it in the order of the keys, so waits for a smaller one in a second flush. A finite
set of users has such a greatest row, which is why `Staff` assumes it. That whoever has a
cafe has one that exists is an induction of its own (`CafesExist`): the cafe of a request
is committed, unless the request is still to commit it, together with its first managers;
and a PATCH of a user only takes a cafe away.
`HalfwayEnds` shows that a request which has saved its cafe has none of its own checks left
to fail.

### Accounts, Catalog, Cache, Media

`Accounts`: `Inv == TypeOK /\ RequestsAreSound /\ ContactsAreUnique`. The row of the
target is as seen, the contacts the body names are free, and the password that was verified is
the user's, each unless the user concerned is in `blind`.

`Catalog`: `Inv == TypeOK /\ RequestsAreSound /\ PostsAreAlone`. The row is as read unless
`"row"` is in `blind`, the links unless `"links"` is; what has been flushed is a part of
what the difference from the reading asks for; nobody else knows the id of a row that is
not committed yet.

`Cache`: `Inv == TypeOK /\ EntriesAreAccounted /\ DeletionsFollow`. `StaleIsExcused`
speaks of what Redis holds; the invariant says the same of what a reader is about to
put there, and that the deletions due reach every key they should. It shows why `create`
need not delete the key of the new object: nobody can have cached an older row of it.

`Media`: `Inv == TypeOK /\ FilesFollowUploads /\ ChecksStayTrue`. How far an upload has come
determines its file; what a request has checked nothing but a deployment can take away,
and a deployment ends the request.

### What the proofs changed

Two properties turned out to say less, or more, than they should, and were corrected. The
history of `Catalog` counted a PATCH of a slot that names no hour as one that sets its
hours; only bodies that name one do (`Settles`). `PlacesAreAhead` held on
the instance only: a server behind UTC lets a booking onto a date that is past
in UTC, and the time zone of a slot may put its first hours on the day
before its date, which `services/booking.py:162` does not look at, because it compares hours
only when the booking's date is today's UTC date. The property now names both holes, and `booking_seats` has
the second in its instance. Later `ColumnsTakeEffect` was made to excuse only a column that
looked unchanged when it was read, and `ChecksAreEnough` to say that the cafe of a manager
exists; both hold.

### Model-checked only

Liveness is out of the prover's reach: `EveryNotificationSettles`, `EveryPatchEnds`,
`EveryRequestEnds`, `EveryEditEnds` and `CacheConverges` are checked on their instances.
`PlacesAreExclusive` of `booking_moved` is refuted, not proved.

## 5. What the checks say

Notifications are sound where it counts: duplicates only by faults, SENT is the
truth however the managers change, attempts are counted across Celery retries, beat
and manual retries, and nothing is lost for good; with one exception to the limit on
attempts, a reminder whose SMTP error is too long to be stored. The price is paid by PATCH: while a notification of
the same type is PROCESSING, a PATCH fails as a whole; and two PATCHes may deadlock over their INSERTs when a reminder
is retried between them.

Bookings keep their promise one request at a time when every move names its
tables; the runs name every other way to a double booking.

Cafes and managers are consistent as the database goes: only managers have a cafe, and
only one that exists. A request that has saved its cafe fails after that only by a race.
A request's answer is another matter: the code's own checks see rows as first
read, so a race ends in a 500, or in managers other than those asked for; and two
PATCHes that exchange managers deadlock, because the removals are flushed first.

Accounts: every check of the code holds of the row it has read, and columns that a
request does not name are never overwritten; with one exception, the re-hash at
login, which stores a hash of a password that may no longer be the user's.

The catalog: what a request names of a row is there afterwards, except for a column
that looked unchanged when it was read, in a row that another request has changed since. Cafes of a dish are not so lucky: they are
changed relative to a list read earlier.

The cache: deleting the three lists and the object in one command after the COMMIT
covers every order of readers and writers but one, a reader that is overtaken; that
one, a lost deletion, and the writes that delete nothing leave an old body for at most
its lifetime.

Media: no half file is ever served, and cafes and dishes only get pictures that are
there; an action may get one whose file is gone, and an id may be refused right after
it was answered.

## 6. Findings

| Run | Finding |
|---|---|
| `booking_moved` | a PATCH of `booking_date` alone books a table twice |

Without a run of their own: links that a PATCH has deactivated still refuse other
bookings, because both conflict checks join `Booking.tables_slots` without a filter on
`is_active` (`services/booking.py:102`, modelled by `Joined`); an SMTP error of more
than 1024 characters makes the COMMIT of `increment_attempts` fail, so the attempt is not
counted and the reminder is tried for as long as the error lasts (`TaskFailsUncounted`,
the excuse in `EveryNotificationSettles`); `check_file=False`
(`services/dish.py:41`, `services/cafe.py:206`) has no effect in `get_media_or_raise`; the
photo of an action is not checked, and an id without a row is answered as an action that
exists already; a deployment loses the files of all pictures; a PATCH of a booking that passed its checks ends in a
500, because only PENDING notifications are cancelled and a PROCESSING one keeps its
place in the unique index (`PatchConflict` in `notifications_patches_end`); a PATCH of one
end of a slot may leave it with no length, and so may two PATCHes of both ends at once
(`excused` in `SlotsHaveLength` of `catalog`; `schemas/slots.py:26-29` compares what
the body has); `DishAlreadyExistsError` and `ActionAlreadyExistsError` are never
raised, because `CRUDBase` has turned the IntegrityError into a BadRequestError
already; two POSTs that overlap in time book a table twice
(`raced` in `DoublesAreExcused` of `booking_race`); a login that re-hashes brings
back a password that was changed while it was being verified (the second case of
`PasswordsChangeOnPurpose`); any IntegrityError of a user's row, a CHECK included,
is answered "such a user already exists"; the endpoint's docstring keeps `status` from users
(`api/endpoints/booking.py:128-129`), and `services/booking.py:282` only checks
`is_active`.

## 7. Not modelled

Routing, error formatting, logging, settings and the visibility filters of the listings
keep no state: they answer from the rows the models already describe. Migrations and
container files matter only for the constraints and volumes the models name. JWT,
password hashing, SMTP, PostgreSQL's locks and Redis are external and modelled from how
the code uses them. Of the modelled components, what is abstracted is named in section 2;
of the auth sessions the sliding lifetime in Redis is, to a token that is not sent again.

## 8. Plan

Done: the survey, the seven modules of the system with `Reservations` and its refinement,
their runs, and proofs of every safety and action property the runs check.

Left:

1. Read the proofs again for steps that a reader would want split or joined, and for facts
   several modules prove alike.
2. More of the code: what is abstracted in section 2 (several cafes at once, the
   creation of tables beside slots), each with the theorem extended to it.

Out of the prover's reach: liveness under fairness.
