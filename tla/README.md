# A formal model of the Southwest check-in service

This directory holds TLA+ specifications of the program in this repository, the
TLC configurations that check them on small instances, and proofs that TLAPS
checks for instances of every size. Modelled, checked and proved about are: the
automatic check-in, the browser it shares with the rest of the worker, the
retrieval of accounts and reservations, the two kinds of fare checks, the users
of the frontend, and the command-line program. Section 6 lists what is not.

Paths below are relative to the repository's root (`worker/worker.py`,
`frontend/...`, `lib/...`).

## 1. The system

Two programs run side by side under supervisord (`supervisord.conf`): a Next.js
**frontend** and a Python **worker**. They share one SQLite file and nothing
else: neither calls the other; the frontend changes rows and the worker finds
them at its next poll. The worker talks to Southwest through one headless
browser. A third program, the **command-line monitor** under `lib/`, is the
original tool the worker grew from; it uses processes in place of threads and
no database.

| Component | State it keeps | Operations | What makes it hard | What makes it correct |
|---|---|---|---|---|
| Check-in threads (`worker/lib/checkin_handler.py`) | `_stop_event`, the thread's position, `flights.checkin_status`, Southwest's record | sleep, prepare the browser, claim, two POSTs, record and announce the outcome, discover the seat | a status write is two commits that may fail between; rows are deleted while the thread sleeps; answers are lost | no early attempt, a success is real, at most one outcome is announced, the status only moves forward |
| Check-in scheduling (`worker/worker.py` 235-293, 1342-1448; `worker/db.py` 232-308) | `active_handlers`, `flights` | recover interrupted check-ins, read pending flights, start and pop handlers, abort an iteration, shut down | works from rows read earlier, while threads and the frontend change them; any exception ends the iteration; the process is killed and restarted | one thread per flight, no needed thread is stopped, every flight is resolved before it departs |
| Browser session (`worker/lib/browser_session.py`) | the lock, the driver, its page, the age of the session, headers | `start`, `ensure_alive`, `make_request`, `login_and_get_reservations` | one non-reentrant lock, one page for all; logins and seat upgrades move the page to another site; attempts time out on the lock | a request in the page is not disturbed, the page is brought back to the mobile site, every request ends |
| Account and reservation retrieval (`worker/worker.py` 86-232, 296-396; `worker/db.py` 344-391) | `accounts`, `reservations`, `last_account_check`, `last_reservation_check` | log in, count failures, deactivate, update and deactivate reservations, insert flights | rows read before a login of minutes and written after it, against edits in the frontend | an account is deactivated only after three rejections in a row, a reservation only when it is gone; every booked flight gets its row; the loop goes on |
| Fare checks (`worker/worker.py` 393-657) | `fare_history`, `last_fare_check` | price a flight, compare, notify | a row is committed, then the one before is read and compared; flights are deleted during a request; an error may end the stage or the iteration | a saving is told, and told once; the stages after it are reached |
| Fare watches (`worker/lib/fare_watch.py`) | `fare_watches`, `fare_watch_history` | price a route, keep the best price, notify | edits in the frontend between the read and the write; prices are floats | the history follows the price, a price under the target is told, every watch is checked |
| Seat upgrades (`worker/worker.py` 660-1222, 1236-1253) | `seat_upgrade_audit`, markers of manual requests in `worker_logs` | pause for check-ins, upgrade flight by flight, restore the page | long use of the browser beside check-ins; many early exits | check-ins come first, the page is restored, a request is not lost |
| Data retention (`worker/worker.py` 1274-1340, `worker/db.py`) | captures, logs, diagnostics | a daily cleanup | files and rows are removed in two steps | no file outlives its row for ever |
| Notifications (`worker/notifications.py`) | `notification_configs`, markers of test messages | send through Apprise | delivery may fail; all errors are swallowed | who is told what (checked with the threads) |
| Capture and audit (`worker/lib/capture.py`, `worker/lib/seat_audit.py`) | screenshots, DOM dumps | record | none that the rest of the program sees | not modelled |
| Users and sessions (`frontend/app/api/users`, `frontend/app/api/auth`, `frontend/lib/auth.ts`) | `users`, cookies | create, change, delete users; log in | read, await, write | the last active administrator stays |
| Other frontend routes | any table | one statement each | - | deletions matter to the worker and are modelled there |
| Command-line monitor (`lib/`) | processes, a lock, scheduled handlers | monitor accounts and reservations, schedule and stop check-ins | processes killed by pid, a failed retrieval looks like an empty one | no check-in is given up without a cause or left behind, the lock is never abandoned, a success is real, Ctrl-C ends everything |

How they interact:

- *frontend -> worker*: rows only. Deleting a reservation or an account deletes
  its flights and their log rows with it (`ON DELETE CASCADE`), also while a
  thread of the worker is checking that flight in.
- *main loop -> threads*: the loop creates a `CheckInHandler`, puts it into
  `active_handlers`, calls `schedule_check_in` (which writes the row and starts
  the thread) and later `stop_check_in` (which sets an event).
- *threads -> main loop*: only through `flights.checkin_status`, which
  `cleanup_handlers` reads.
- *threads and main loop -> browser*: through `BrowserSession`, under its lock.

The list of what can go wrong, each with its line and with the properties that
would show it, is under "hazards" in `PROJECT.json`.

## 2. The modules

| Module | What it is |
|---|---|
| `CheckinPromise` | What the automatic check-in promises for each flight: seven states of a flight, no threads, no main loop, no answers to count, no failing database. |
| `CheckinWorker` | The main loop's scheduling and the check-in threads, with database errors, deletions, crashes, shutdowns and restarts. |
| `MCCheckinWorker` | `CheckinWorker` with the symmetry of flights and of handler objects, for TLC. |
| `CheckinWorkerProofs` | The inductive invariant of `CheckinWorker`; the safety properties as theorems. |
| `CheckinPromiseProofs` | `CheckinWorker` implements `CheckinPromise`, as a theorem. |
| `BrowserSession` | The lock, the browser, its page, `make_request`, and the clients: check-in threads and the stages of the main loop. |
| `BrowserSessionProofs` | Its inductive invariant; its safety properties as theorems. |
| `AccountMonitoring` | `process_accounts`, `process_manual_reservations` and `process_reservation`, commit by commit, against the routes of the frontend, changes at Southwest, exceptions and crashes. |
| `AccountPromise` | What that retrieval promises of the tables: they change only by a request of a user or by Southwest's last answer; no loop, no polls, no requests that fail. |
| `FareMonitoring` | The stages `check_fares` and `check_fare_watches` of the main loop, against edits, failed notifications and crashes. |
| `UserAdmin` | Sessions and the routes that change users, with edits that overlap. |
| `CliMonitor` | The processes of the command-line program and their lock. |
| `MCAccountMonitoring`, `MCFareMonitoring`, `MCCliMonitor` | Instances for TLC. |
| `AccountPromiseProofs` | `AccountMonitoring` implements `AccountPromise`, as a theorem. |
| `AccountMonitoringProofs`, `FareMonitoringProofs`, `UserAdminProofs`, `CliMonitorProofs` | Their types and every safety property the runs check, as theorems. |

### 2.1 CheckinWorker

| Model | Code |
|---|---|
| `row[f]` | `flights.checkin_status` of row `f`; `"absent"` before it is inserted, `"deleted"` after it is deleted (a flight found again is a new row with a new id) |
| `phase[f]` | the clock, as far as comparisons with the departure tell it apart: `early` (more than half an hour before the window), `prep`, `open` (the last 24 hours), `departed`. `upsert_flight` looks a flight up by its departure time, so a flight that is moved is another row and no row's clock goes back |
| `Conf[f]` | the confirmation number of the flight's reservation |
| `boarded[f]` | Southwest checked the flight in (external) |
| `crowded` | history: flights whose window was open together with that of another flight of their reservation |
| `told[f]` | outcomes given to `notify_checkin_success` / `notify_checkin_failed` |
| `worker`, `todo`, `cur` | where `main_loop` is, the rows `get_pending_flights` returned that are not yet looked at, and the flight whose handler is being started |
| `active` | the dictionary `active_handlers` |
| `pc[h]`, `flightOf[h]`, `stop[h]` | the thread of a `CheckInHandler`, its `flight_db_id`, its `_stop_event`. A handler that neither a thread nor the dictionary refers to is garbage (`"free"`) and its name is used again |

What is one step and what is not:

- `_update_status` opens a connection, updates the row, commits, inserts a log
  row, commits, and tries all that up to three times. `UpdateStatus` is its
  whole effect: it returns and the status is written; or it raises and the
  status is, or is not, written. When the row was deleted the `UPDATE` changes
  nothing and the log row violates its foreign key, so it always raises.
- A handler is registered, its status is written and its thread is started in
  two steps (`RegisterHandler`; `StartHandler`), between which rows are deleted
  and time passes.
- A status write and the notification after it are two steps, so that a crash
  falls between them.
- `cleanup_handlers` reads the statuses in one statement and only the main loop
  changes `active_handlers`, so it is one step. Its `join(timeout=5)` waits and
  changes nothing; a thread may live on after it.
- The attempt (`_attempt_check_in`, two POSTs, ten tries) is `posting`. A POST and
  its answer are one step: the answer is lost or lists no flight, and the
  thread posts again (`AnswerLost`), or it lists a flight and the attempt returns
  (`AttemptReturns`); what happens between the POST and its answer can as well
  happen before or after both. The attempt may also raise one of the two
  exceptions `_check_in` catches, or another one, whatever Southwest did before
  (`AttemptRaises`). The handler only counts: `worker/worker.py:274` passes
  `is_same_day=False` for every flight, so that one flight in the answer is
  enough, whichever it is.
- What Southwest does (external): to a POST for a reservation it checks in some
  of the flights of that reservation whose window is open, perhaps none and
  perhaps not the thread's (`Open`, `Serve`), and lists some of those that are
  checked in and open. That it neither checks in nor lists a flight whose window is not open is
  the one thing assumed of it. `CliMonitor` assumes it as well, and there that
  an answer lists all of the open ones.
- The stages between scheduling and cleanup (fares, watches, seats, retention)
  change nothing this module has; `AbortIteration` is an exception in any of
  them, for whatever reason and any number of times. One before the scheduling
  leaves the loop where it is.

Abstractions that lose something: a database error is assumed to strike single
calls (their number is bounded by `MaxFaults`); the capture of screenshots and the
diagnostic rows are left out because their errors are swallowed and nothing
reads them.

### 2.2 BrowserSession

| Model | Code |
|---|---|
| `lock` | the owner of `BrowserSession._lock` (`threading.Lock`, not reentrant) |
| `driver`, `page` | `_driver` and the site its page is on; `fetch()` in the page is served only from the mobile site |
| `aged` | the session is older than `SESSION_MAX_AGE` |
| `pc[c]` | where a check-in thread or the main loop is; `attempts[c]` the `attempts` of its `make_request` |
| `leg` | which of the two POSTs of a check-in is made; `stage` which stage of the main loop made the request (`process_reservation`, or one of the requests of a fare check) |
| `clock[t]` | how far the check-in's window is: `far`, `imminent` (within the two hours for which upgrades pause), `open` |
| `prepared[t]` | history: the thread's own `start()` returned |
| `upgrades` | flights left in this pass of `attempt_seat_upgrades` |

Everything between taking and releasing the lock is one step, except a fetch
(`AskForLock`, then an answer), which has the two steps that
`FetchUndisturbed` is about. `start()` may raise after it quit the old browser
(none is left), or with a new one whose page is blank or mobile. A login that
raises may leave the page on either site. `UpgradeSeat` stands for every path
through the steps of one upgrade: the page ends on the desktop site on all but
the longest one, and the `finally` clause takes the lock again to restore it.

The first start of the browser, before the loop, is the same as the one that
`ensure_alive` does in the first iteration, and is not a step of its own. Not
modelled: the headers (a request keeps those it was given when it began; what
Southwest makes of old ones is not in this code), `stop()` at shutdown, and
what the pages of a login or an upgrade show.

`CheckinWorker` and `BrowserSession` are not composed into one: a check-in attempt in
`CheckinWorker` may succeed, fail or raise in any of its states, which is more
than any behaviour of the browser causes, and the threads of `BrowserSession`
are started and stopped at any time, which is more than the main loop does.

### 2.3 AccountMonitoring

| Model | Code |
|---|---|
| `accounts`, `failures` | `accounts.is_active`, `accounts.login_failure_count` |
| `rows[<<holder, number>>]`, `flights` | `reservations.is_active` (`Manual` is `account_id IS NULL`), and which flights have a row |
| `checked` | keys of `last_account_check` and `last_reservation_check` whose interval has not passed; kept in the worker's memory only |
| `pc`, `cur`, `todo`, `read` | where the iteration is; `read` the failure counts that `get_active_accounts` returned before the logins |
| `listed`, `answer` | the confirmation numbers a login returned, and those not upserted yet |
| `asking`, `key`, `got` | reservations still to be retrieved, the one in work, its flights not stored yet |
| `booked`, `good` | Southwest's bookings, and the accounts whose password it accepts (external) |
| `trips`, `seen`, `streak` | history variables, for the properties |

A step is one commit, or one request to Southwest with what follows it. What
ends an iteration (a foreign key violated by a row of something that was just
deleted, an answer that cannot be parsed) ends it with `ClearLoop`: the commits
made so far stay, the time of the check is not recorded. An id is not used
again. An upsert of an account's row that a user deleted inserts it anew, as
the code does. `LoggedIn` has two outcomes, the trips or none, because a request
for the trips that fails is read as an empty page.

`AccountPromise` knows the tables, Southwest's bookings and one answer, which the
mapping reads off the loop's place: while reservations are stored it is the
account's page (`cur`, `trips`), while flights are stored those of one key
(`key`, `got`), else nothing. An answer may be forgotten at any time, which is what
every failure, exception and restart amounts to. A page whose list of trips
could not be read maps to the true one, of which nothing is then stored.

### 2.4 FareMonitoring

| Model | Code |
|---|---|
| `lastFare[f]` | the last row of `fare_history` of a flight; `get_previous_fare_check` reads the second last after the new one was added, which is this one before |
| `watches`, `best`, `target`, `lastPrice` | `fare_watches.is_active`, `best_price`, `max_price`, the last row of `fare_watch_history` |
| `deleting` | the watch between whose two `DELETE` statements a request is |
| `due`, `dueWatches` | `last_fare_check`, which is in memory, and `last_checked_at`, which is in the table |
| `passed` | watches whose `depart_date_end` is before today |
| `configured` | the environment has `AMADEUS_CLIENT_ID` and `AMADEUS_CLIENT_SECRET`; a restart of the worker keeps it |
| `read[w]` | the row of a watch as the stage read it before it asked Amadeus |
| `told`, `rose`, `slid`, `retargeted`, `missed`, `cut` | history variables |

`Lowest` is the choice of the lowest fare in each of the three modes.
`OneCent` is the comparison of two floats against 0.01: a difference of one
cent falls on either side, so `Changed` and `Dropped` are sets of outcomes there.
The route that deletes a watch has two statements without a transaction:
`DeleteHistory` and `DeleteWatch`. The worker may act between them, as its writes
have no foreign key there; another request of the frontend may not, because
the handler does not wait between them. If the second one fails or the frontend
dies (`DeletionFails`), the watch stays without its history.
A failed look-up of a flight that was deleted meanwhile violates a foreign key
in its own error handler and ends the iteration (`LookUpFails`); an answer for
a deleted one ends the same way and is not told apart from that.

### 2.5 UserAdmin

`role`, `active` are the rows of `users`, `sessions` the valid cookies with the
role they were signed with, `request` the edits between reading the target's
row and reading the body of the request. The user of the environment logs in as
an admin whatever its row says, and gets one if it has none. The property says
how the last active administrator can be lost in this code: to an edit that
read its target as a member, before the target was made an admin.

### 2.6 CliMonitor

| Model | Code |
|---|---|
| `pc[m]`, `round[m]` | a monitor process; the local variables of its `_check` |
| `lock` | the `multiprocessing.Lock` shared by all |
| `scheduled[m]` | `CheckInScheduler.flights` and `checkin_handlers`, which change together |
| `proc[t]`, `sameDay[t]`, `attempts[t]` | the child process of a `CheckInHandler` and its copy of the flight |
| `sigint`, `interrupted` | who still has a Ctrl-C to handle |
| `booked` | Southwest's bookings (external) |

A *ticket* is one flight of one reservation. Flights are equal when their
number and time are (`Leg`), as in `Flight.__eq__`, which is why new and old
flights are found by leg. A flight is due by our clock, which may be `Skew`
ticks ahead, and open by Southwest's. `IsSameDay` is computed once, when a flight
is first found. A check-in is killed by a signal that runs no handler; that it
never has the lock then is the property `LockIsHeld`. A killed process keeps
nothing, so its variables are reset.

The five groups of modules are not composed into one. What one gives the other
is less than what the other allows for: `CheckinWorker` inserts and deletes
flights at any time, `AccountMonitoring` retrieves with any outcome of the
browser, and an exception of any stage of the loop is an exception of the
iteration in the others.


## 3. The runs

Passing runs:

| Run | Instance | Question | Result |
|---|---|---|---|
| `checkin_safety` | 2 flights of one reservation, 2 handlers, 1 database error, 1 crash or shutdown; symmetry | Can any interleaving give a flight two threads, stop a needed one, check in early, record a success that is none, announce both outcomes, move a status back, revive a deleted flight, leave a flight without a thread, or leave the promise? | no; 1,126,115 states, 2 minutes |
| `checkin_liveness` | 1 flight, 2 handlers, 3 crashes or shutdowns, no database errors | Is a flight with an open window resolved before it departs? | yes, also if every iteration ends in an exception after the scheduling; 6,974 states |
| `browser_safety` | 2 threads and the main loop, 3 attempts, 2 upgrades, 2 mishaps | Is a fetch ever disturbed, is a request ever set back or does it go on beyond its attempts, is the page ever left on the desktop site without a mishap? | no; 2,412,770 states, 45 s |
| `browser_liveness` | 1 thread and the main loop, same bounds | Does every request end; is a page left on the desktop site replaced? | yes; 55,018 states, 45 s |
| `account_monitoring` | 1 account, 2 reservations of 1 flight each, 1 of them also entered by hand; 1 edit, 1 change at Southwest, 1 crash or exception; 3 rejections deactivate | Do rows ever outlive what they reference or disagree with what was listed, is anything stored or deactivated that Southwest's answer does not warrant, is a booked flight missed, does the loop stop? | no; 136,594 states, 2.5 minutes |
| `fare_monitoring` | 1 flight with 1 alternative, 1 watch with or without a target, Amadeus configured or not; 1 edit, 1 one-cent change, 1 crash, lost notification or deletion that stops half-way | Is a saving or a target not told, or a saving or price told twice; does a history fall behind; does a stage keep the next from being reached; is an active watch never checked? | no; 1,017,214 states, 2.5 minutes |
| `user_admin` | 2 users, 2 edits in progress | Is the last active administrator lost otherwise than to an edit that read its row before the user became one? | no; 40,464 states |
| `cli_monitor` | an account monitor, a reservation monitor with 2 flights on one day, 5 ticks, 1 exception, 1 change of bookings, Ctrl-C | Is the lock abandoned, a check-in stray, left behind or given up without cause, a success false, does one go on after Ctrl-C; do check-ins and Ctrl-C come to their end, do accounts stay watched? | no; 108,427 states, 2 minutes |

Violations, which show where the code and what is said of it part (the
quotations are under "findings" in `PROJECT.json`):

| Run | What it shows |
|---|---|
| `checkin_silent_death` | If the write of `failed` fails as well, the thread ends and its flight stays `checking_in` until the worker restarts, although the comment at that place says this never happens. |
| `checkin_untold` | A check-in that ends in an exception other than `AirportCheckInError` and `RequestError` is recorded as failed and nobody is notified. |
| `browser_origin` | After a check-in has prepared the browser, a failed login of the main loop leaves the page on the desktop site, and the check-in is fetched from there. |
| `browser_yield` | A pass of seat upgrades begins while a check-in whose window has just opened is making its requests: the pause asks for `0 < seconds < 7200` and is tested once per pass. |

### Bounds

- Two flights are enough for everything that relates two flights: the loop's
  stale list `todo`, one flight's failure ending an iteration before
  another is looked at, and an answer that lists one for the other: they are of
  one reservation, and their windows may or may not overlap. Two handlers are one
  for each flight. A second thread of a flight, if the code could start one,
  needs no more, and with a third handler TLC finds the same states.
- One database error makes any one of the calls fail, at any point. Two reach the
  worst sequence of the code, a status write that fails and then the write of
  `failed` that answers it: `checkin_silent_death` has two, and the theorems hold
  for any number. One crash is
  enough for what one restart can spoil; the liveness run has three. It has no
  database errors: with one, a flight may stay claimed (`checkin_silent_death`).
- `MaxAttempts = 3` is what `process_reservation` and the fare checks pass; a
  check-in's POSTs leave the default, 20. The code treats the first, the last and all attempts
  between alike, and three has one of each.
- `MaxUpgrades = 2` has a flight that is followed by another and one that is
  last. Two mishaps are one to leave the page astray and one more to spoil the
  way back.
- Two-thread liveness of the browser is out of reach in the time a run may
  take; the second client of the lock is the main loop.
- `AccountMonitoring`: two reservations make "listed and not listed" differ and
  let an iteration end between two upserts; one edit, one change and one fault
  each strike at every place of an iteration. With three rejections the count
  passes through every value the code treats differently.
- `FareMonitoring`: two savings over the threshold make "grew", "fell" and
  "same" differ, and a failed look-up gives none; three prices have a step of
  one cent and a larger one, on both sides of a target. One edit is one request,
  of which a deletion has both statements.
- `CliMonitor`: the second flight leaves within a day of the first, so that
  the same-day rule, its retries and the skew of clocks all occur before the
  last tick, which is `Horizon`. The account has no flights of its own: it
  contends for the lock. With two flights `SuccessIsReal` says that the success
  of a same-day flight is real without exception; with more, section 4 says
  what remains of it.
- `UserAdmin` bounds nothing: its states are finite. With two users the last
  administrator and another one exist, and two edits can overlap.

### Fairness

- `StartWorker`: `supervisord.conf:24` (`autorestart=true`) restarts a worker
  that ended. The model bounds how often it dies; a worker that dies at every
  start resolves nothing.
- `Loop`: the loop polls once a minute and each stage is a loop over a finite
  list of rows. New flights, errors, shutdowns and crashes are not fair.
- `Thread(h)`: threads are scheduled, sleeps return. Time itself is not fair:
  `EveryFlightResolved` says "or departed", as the window may pass while the
  worker is down.
- Browser: what holds the lock lets go of it (`WF` on the steps that work
  under it, whose page waits all have timeouts). A wait for the lock that has no
  timeout is strongly fair: `threading.Lock` promises no order, but every
  holder sleeps after it releases the lock (0.5 s between attempts, a minute
  between polls), in which a waiting thread gets it. `LockTimeout` needs no
  such assumption: an attempt that times out counts. `EndStage` is strongly
  fair because each stage ends after finitely many requests. A pass of time
  ages the session (`SessionAges`).
- `AccountMonitoring`: the loop goes on (`MainLoop`) and the interval passes.
  Southwest answers a login, and a request for a reservation it has, again and
  again, whatever fails between: these are strongly fair, because an iteration
  is only now and then at that place. Nothing makes users, changes or faults
  happen. There is one account, so that accounts waiting for each other are
  not exercised: they are processed in one loop over a finite list.
- `FareMonitoring`: only that the loop goes on. An outage of Amadeus or
  Southwest needs no assumption: a watch that fails counts as checked.
- `CliMonitor`: every process goes on, requests return, time passes. The lock is
  strongly fair: it is a semaphore whose holders sleep for hours between two
  rounds, in which whoever waits gets it.

## 4. What is proved

All theorems hold for any constants that satisfy the modules' `ConstantsOK`:
any number of flights, handlers, threads, attempts, faults and restarts.

**`CheckinWorkerProofs`.** `TypeCorrect` by the type invariant alone. The other
properties need an invariant that says how dictionary, threads, loop and rows
fit together; `IInv` has these parts beside the type:

- `Registry`: `active_handlers` and the handlers refer to each other, and a handler
  that was made but not started, or whose thread is done, is in it.
- `LoopState`: the rows the loop still has to look at may be stale, but one
  without a handler has had none since it was read; that is why `scheduled` or
  `failed` written by the loop never overwrites a thread's later status.
- `Exclusive`: one thread per flight, and one that the dictionary no longer
  holds, or that was told to stop, belongs to a finished or deleted flight.
  `OneThreadPerFlight` is not inductive without the second half: popping the
  handler of an unfinished flight would let the next poll start a second one.
- `Stages`: what a thread's position says of its row, the window and the
  notifications; from `accepted` on the success is real (`Real`): Southwest
  checked the flight in, or it is `crowded`.
- `Records`: what a row and its notifications say of each other. A flight that
  was announced is final, so no restart takes it up again; this is where
  `NeverToldBoth` survives crashes.
- `Crowding`: `crowded` has every flight that shares its window with another of
  its reservation at this time.

That a success is real follows from no single guard: a thread posts only when
its flight's window has opened (`Stages`), Southwest lists only open flights of
the reservation, so that one listed for another shares its window with it,
and is known to (`Crowding`, in `ListedIsReal`); and what was real once stays so.

`Invariance` is `Spec => []IInv`; one lemma per group of actions shows that the
group preserves it. From it follow `OneThread`, `StopsAreDue`,
`AttemptsAreInTime`, `SuccessesAreReal`, `OneOutcomeTold`, and by a further
case analysis of the steps `StatusMovesForward` and `CancelledIsFinal`.

`NoneStranded` is the safety core of `EveryFlightResolved`: a flight that waits has
a handler whose thread is coming or alive and not told to stop, or none and then
gets one at the next poll, and a claimed flight always has one. It speaks of a
worker that runs, and of runs in which no status write failed: with one,
`checkin_silent_death` shows the opposite. Its proof adds three facts to `IInv`: a flight that was never stored has no
handler (`Unmet`), the number of failures only grows (`FaultsGrow`), and a thread that ends without one leaves a row that is final or
deleted (`EndsResolved`). That a restart does not strand the flight of a dead
thread is the recovery at startup, and without it TLC finds the property
violated.

**`CheckinPromiseProofs`.** `Implements`: `Spec => KeepsPromise`. The mapping
reads `pending` and `scheduled` as `waiting`, every step of `CheckinWorker` is a
step of `CheckinPromise` or a stutter. The invariant is needed for
every step of a thread: that an outcome is written from `attempting`, that a
success is real, that nothing was announced before. The promise knows no
answers; that a thread goes by one that lists the wrong flight only when the
promise allows for it is what `Crowding` shows.

The promise holds a blemish of the code: a success may still become a failure,
because an error in the discovery of the seat, after the success was recorded
and announced, reaches the handler that writes `failed`. The passenger is not
told of that failure.

**`BrowserSessionProofs`.** `TypeCorrect` needs more than the types: that a
request that goes on has an attempt left (`AttemptsLeft`) and that an upgrade
under way is one of those left (`UpgradesLeft`). With `OwnersWork` (whoever is
between taking and releasing the lock is its owner) this is the inductive
invariant. `FetchesUndisturbed`: for any number of threads only a crash changes
the browser while a request is in its page. `DesktopIsBrief`: by a second
invariant, `DesktopInv`, a page on the desktop site is on its way to be restored
unless something went wrong. `RequestsConverge` is the part of `RequestsEnd` that
needs no fairness: `StepsLeft` ranks the places of a request within an attempt
and counts the attempts left, each of a request's own steps lowers it until the request
ends, and the steps of all others leave it alone (`OthersLeaveIt`). So a request
has at most `4 * MaxAttempts` steps of its own, for any number of clients and
whatever the browser does. What TLC's liveness run adds is that these
steps happen.

**`AccountMonitoringProofs`.** `NoRowIsOrphaned` is inductive by itself with the
types. `OnlyGoneDeactivated` needs `Listing` (what was listed is what the account
held, or nothing). `OnlyRejectedDeactivated` needs `Counted`: the count in a row,
and the copy the loop read of an account it has not finished, is at most the
rejections in a row; the copy may be stale, but only its own login can change
what it counts, which needs `Place` (an account in work is not in the list any
more). `RowsInSync` needs `Synced`: from the first upsert to the end of the check
the rows of the account in work agree with what was stored so far.

**`AccountPromiseProofs`.** `Implements`: `Spec => KeepsPromise`. One lemma per
action (`...Maps`) shows that it is a step of `AccountPromise` or changes nothing
there; `Forgets` serves every step that drops the answer at hand. The guards of
the promise are what the proof has to earn: that what is stored of a page is on
the account's page (`Listing`, `Answered`); that an account is switched off only
when the count, which was read before the login, is covered by rejections in a
row (`Counted`, `Place`); that when the others are deactivated all of the page has
been stored, although users delete rows between (`Synced`); and that a key is
retrieved that is or was on file (`OnFile`).

**`FareMonitoringProofs`.** `Stage` says which table the stage works on. `Fares`
is the inductive invariant behind `SavingsAreTold` and `SavingsToldOnce`: what is
being told is the last row (`Recorded`), and what was told last is at least the
last row unless the fare rose between (`Following`); without `Following` a fare
that repeats could be told again. `Watched` is behind `HistoriesKeepUp` and
`TargetsAreTold`: what was read of a watch still holds when it is written,
except the target after an edit (`ReadHolds`), because only the loop writes
prices. A deletion makes no exception but the one it names: after the first of
its statements the watch is `cut`, and a price that changes starts its
history anew, also before the second. `PricesToldOnce` rests on `Afresh`: the best price of a watch is not
above what was told of it, unless a check found it dearer since. This is true
only of a watch that is stored or still to be written (`Live`); the price of one
that was deleted during the request is told although it is stored nowhere.

**`UserAdminProofs`.** `LastAdmin`, from the types and a lemma on cardinality: if
no other active admin is counted, the target is the only one.
`SerialEditsKeepAdmin` says that the race which `AdminIsKept` allows is the only
way: in a behaviour in which no two edits of one user overlap (`OneEditPerUser`,
a condition on the requests and not a guarantee of the code), an edit that has
read a member still finds one (`SeesItsRow`), and an active admin stays. Edits of
different users, deletions and logins may interleave as they like.

**`CliMonitorProofs`.** `LockHeld` is inductive by itself with the types.
`NoneStray` needs that what a monitor asks for, finds and schedules is its own
(`Owned`); with it `NoneLeftBehind` needs only `Quiet`, for monitors that were
stopped. `NothingAfterCtrlC` needs `Halted`: after Ctrl-C every process that has not ended
has the signal to handle or has handled it, so the next thing a check-in does is
to be interrupted or killed. `OnlyForCause` needs `Complete`: while bookings do not change, a booking
is found, missed, or still to be asked for. `SuccessesAreReal` needs only that a
posted ticket is due by our clock (`PostsWhenDue`). It assumes nothing of the
number of flights in a reservation or of the clock, and so it names what
is left: a ticket that is posted before Southwest opened it can be taken for
checked in when one earlier flight within `Day + Skew` is open instead, or two
if it was scheduled as a same-day flight, because `_attempt_check_in` expects two
flights in the answer however many leave within the day. With a clock that is
not ahead (`Skew = 0`) no ticket is posted before it is open and every success is
real; with two flights to a reservation that of a same-day flight always is.

Model-checked only, because they are liveness properties and beyond the proof
system: `EveryFlightResolved`, `RequestsEnd`, `PageRecovers`,
`RejectedIsSwitchedOff`, `BookedIsFound`, `SchedulesAgain`, `FareChecksEnd`,
`WatchesChecked`, `EveryCheckInEnds`, `CtrlCEnds` and `AccountsWatched`. Every
other property of a passing run is a theorem. The type invariants (`TypeOK` of
each module) are theorems as well; the inductive invariants contain them, so no
run spends itself on them. Two of the liveness properties have their safety part
proved: of `RequestsEnd` that no request is set back, of `EveryFlightResolved`
that no flight is left without a thread.

## 5. What was met on the way

Beside the violations of section 3, the models show behaviour that no comment
or document of the repository denies, and that a reader should know of:

- An account without trips keeps its last reservation: an empty list
  deactivates nothing, because a failed request looks the same (`InSync` says
  so).
- Switching an account back on does not reset its count of rejections, so that
  one more rejection switches it off again.
- A reservation whose answer raises anything but a `RequestError` ends every
  iteration at the same place; `SchedulesAgain` holds because such exceptions are
  bounded.
- A price that comes down a cent at a time may never be told, and a target that
  is edited is only compared when the first price is found (`TargetIsTold`).
- In the command-line program a retrieval that fails stops the check-ins of
  that reservation (`CancelledForCause` allows it), although they are started
  again by the next round that succeeds.
- In the command-line program a same-day flight whose predecessor is added to
  the reservation later is told as checked in when only the other one was, if
  our clock is ahead (`SuccessIsReal` allows it); and so may the third flight of a
  day be.
- In the worker no thread is told that its flight is a same-day one
  (`worker/worker.py:274`). If Southwest's answer lists only the other flight of
  the reservation, whose window is open at the same time, the success is
  recorded and announced all the same (`crowded` in `SuccessIsReal`).
- A request that deletes a watch and stops between its two statements leaves the
  watch without its history, until its price changes (`cut` in
  `HistoryKeepsUp`).
- A watch whose last date has passed, or any watch of a worker without
  credentials for Amadeus, stays active and is never checked again
  (`WatchesChecked` excepts both).
- An edit of a user that read a member, who was made the only admin before the
  edit is applied, demotes the last admin (`AdminIsKept` allows it).

## 6. What is not modelled

- The steps of a seat upgrade, its cooldown, and the markers of manual seat
  checks: which step follows depends on what Southwest's pages show. Their use
  of the browser and the pause for check-ins are in `BrowserSession`. A marker is
  deleted before the check it asks for, and a crash between loses it.
- Data retention: deletions by age, once a day, of rows and files that no
  other component reads.
- Flights of a reservation that are moved to another time: they get a second
  row, and the old one stays until it departs. `CheckinWorker` treats every row
  alike.
- Two reservations of the command-line program on the same flight, equal by
  `Flight.__eq__`: the rule is in the model, the instance has none.
- Reuse of a process id by the operating system, which `stop_check_in` would
  kill.
- Two reservations entered by hand with the same number, and ids used again.
- The pages of Southwest and Amadeus, and the parsing of their answers: what a
  step finds on them is a choice.
- Captures, audits, diagnostics: written for people; nothing reads them back
  and their errors are swallowed.
- Apprise, Selenium, SQLite and Python's threads and processes: used as their
  documentation describes; SQLite's transactions appear as the order in which
  single statements are committed, and lock contention as a statement that fails.
- Configuration, message texts, the pages of the frontend, and the routes of
  the frontend that only read, or write a row nothing here reads.
