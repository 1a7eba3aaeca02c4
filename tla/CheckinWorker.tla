--------------------------- MODULE CheckinWorker ---------------------------
(***************************************************************************)
(* The automatic check-in of the worker process (worker/worker.py and      *)
(* worker/lib/checkin_handler.py): the main loop finds flights in SQLite,  *)
(* gives each one a CheckInHandler thread, and removes handlers of         *)
(* finished flights; each thread sleeps until the check-in window, claims  *)
(* the flight, posts to Southwest and records the outcome.  The web        *)
(* frontend deletes rows at any time, a write to the database may fail,    *)
(* and the process may be killed or told to shut down at any time.         *)
(*                                                                         *)
(* Time is abstracted to the phase of each flight that the code's          *)
(* comparisons tell apart.  One status write of the handler (three         *)
(* attempts of "UPDATE flights" and "INSERT INTO worker_logs", each with   *)
(* its own commit) is one step; its outcomes are those of UpdateStatus.    *)
(***************************************************************************)
EXTENDS Naturals

CONSTANTS
    Flights,       \* ids of rows of the flights table
    Handlers,      \* CheckInHandler objects (reused once they are garbage)
    Conf,          \* a flight's confirmation number: that of its reservation
    NoFlight,      \* Python's None where a flight is expected
    NoHandler,     \* the absence of a key in active_handlers
    MaxFaults,     \* bound: database errors the environment may cause
    MaxRestarts    \* bound: times the worker process may die

ASSUME ConstantsOK ==
    /\ NoFlight \notin Flights
    /\ NoHandler \notin Handlers
    /\ MaxFaults \in Nat
    /\ MaxRestarts \in Nat

VARIABLES
    row,        \* flights.checkin_status, or "absent" / "deleted"
    phase,      \* the wall clock, seen from each flight's departure
    crowded,    \* (history) flights whose check-in could be mistaken, see below
    boarded,    \* Southwest has accepted the check-in
    told,       \* outcomes the passenger was notified of
    worker,     \* where the main loop is
    todo,       \* rows of get_pending_flights the loop has not looked at yet
    cur,        \* the flight whose handler is being started
    active,     \* the dictionary active_handlers
    pc,         \* where each handler's thread is
    flightOf,   \* CheckInHandler.flight_db_id
    stop,       \* CheckInHandler._stop_event
    faults,     \* database errors so far
    restarts    \* process deaths so far

sky     == <<phase, crowded>>
world   == <<sky, boarded, told>>
loop    == <<worker, todo, cur>>
threads == <<pc, flightOf, stop>>
budget  == <<faults, restarts>>
vars    == <<row, world, loop, active, threads, budget>>

Phases   == {"early", "prep", "open", "departed"}
Statuses == {"pending", "scheduled", "checking_in", "success", "failed"}
Final    == {"success", "failed"}

(* "asleep30": until half an hour before the window; "asleep": until the   *)
(* window opens.                                                           *)
Waiting  == {"started", "asleep30", "prep", "asleep", "claim"}
Live     == Waiting \cup {"posting", "accepted", "rejected", "announce",
                          "discover", "apologize", "failing"}
Pcs      == Live \cup {"free", "made", "done"}

TypeOK ==
    /\ row \in [Flights -> Statuses \cup {"absent", "deleted"}]
    /\ phase \in [Flights -> Phases]
    /\ crowded \in SUBSET Flights
    /\ boarded \in [Flights -> BOOLEAN]
    /\ told \in [Flights -> SUBSET Final]
    /\ worker \in {"down", "retrieve", "schedule", "start", "cleanup", "stopping"}
    /\ todo \in SUBSET Flights
    /\ cur \in Flights \cup {NoFlight}
    /\ active \in [Flights -> Handlers \cup {NoHandler}]
    /\ pc \in [Handlers -> Pcs]
    /\ flightOf \in [Handlers -> Flights \cup {NoFlight}]
    /\ stop \in [Handlers -> BOOLEAN]
    /\ faults \in 0..MaxFaults
    /\ restarts \in 0..MaxRestarts

Init ==
    /\ row = [f \in Flights |-> "absent"]
    /\ phase = [f \in Flights |-> "early"]
    /\ crowded = {}
    /\ boarded = [f \in Flights |-> FALSE]
    /\ told = [f \in Flights |-> {}]
    /\ worker = "down"
    /\ todo = {}
    /\ cur = NoFlight
    /\ active = [f \in Flights |-> NoHandler]
    /\ pc = [h \in Handlers |-> "free"]
    /\ flightOf = [h \in Handlers |-> NoFlight]
    /\ stop = [h \in Handlers |-> FALSE]
    /\ faults = 0
    /\ restarts = 0

Exists(f)    == row[f] \in Statuses
WindowOpen(f) == phase[f] \in {"open", "departed"}

-----------------------------------------------------------------------------
(* The environment.                                                        *)

NextPhase(p) == CASE p = "early" -> "prep"
                  [] p = "prep"  -> "open"
                  [] p = "open"  -> "departed"

(* Flights that are, or were before they departed, open for check-in       *)
(* together with another flight of their reservation: an answer about one  *)
(* of these two may list the other.                                        *)
Overlapping == {e \in Flights :
                   /\ WindowOpen(e)
                   /\ \E g \in Flights \ {e} : Conf[g] = Conf[e] /\ phase[g] = "open"}

Tick(f) ==
    /\ phase[f] # "departed"
    /\ phase' = [phase EXCEPT ![f] = NextPhase(phase[f])]
    /\ crowded' = crowded \cup Overlapping'
    /\ UNCHANGED <<row, boarded, told, loop, active, threads, budget>>

(* DELETE of a reservation or an account in the frontend: the flights go   *)
(* with it (ON DELETE CASCADE, foreign keys on in both connections).       *)
DeleteRow(f) ==
    /\ Exists(f)
    /\ row' = [row EXCEPT ![f] = "deleted"]
    /\ UNCHANGED <<world, loop, active, threads, budget>>

-----------------------------------------------------------------------------
(* Writing a status.                                                       *)

(* Mutant: worker_logs without its foreign key (or PRAGMA foreign_keys off).*)
UpdateStatusNoForeignKey(f, s, outcome) ==
    \/ /\ outcome = "ok"
       /\ row' = [row EXCEPT ![f] = IF Exists(f) THEN s ELSE @]
       /\ UNCHANGED faults
    \/ /\ outcome = "raised"
       /\ faults < MaxFaults
       /\ faults' = faults + 1
       /\ UNCHANGED row

(* update_flight_status followed by add_log.  The log row has a foreign    *)
(* key on the flight, so the write of a deleted flight always raises; an   *)
(* error of the database may come before or after the status's commit.     *)
UpdateStatus(f, s, outcome) ==
    \/ /\ outcome = "ok"
       /\ Exists(f)
       /\ row' = [row EXCEPT ![f] = s]
       /\ UNCHANGED faults
    \/ /\ outcome = "raised"
       /\ ~Exists(f)
       /\ UNCHANGED <<row, faults>>
    \/ /\ outcome = "raised"
       /\ Exists(f)
       /\ faults < MaxFaults
       /\ faults' = faults + 1
       /\ row' \in {row, [row EXCEPT ![f] = s]}

-----------------------------------------------------------------------------
(* The main loop.                                                          *)

(* Mutants: no recovery of interrupted check-ins; a recovery that also     *)
(* takes up failed ones.                                                   *)
StartWorkerNoRecovery ==
    /\ worker = "down"
    /\ worker' = "retrieve"
    /\ UNCHANGED <<row, world, todo, cur, active, threads, budget>>

StartWorkerRetriesFailed ==
    /\ worker = "down"
    /\ worker' = "retrieve"
    /\ row' = [f \in Flights |->
                 IF row[f] \in {"checking_in", "failed"} /\ phase[f] # "departed"
                 THEN "pending" ELSE row[f]]
    /\ UNCHANGED <<world, todo, cur, active, threads, budget>>

(* Start of main_loop: recover_stuck_checkins is one UPDATE statement.     *)
StartWorker ==
    /\ worker = "down"
    /\ worker' = "retrieve"
    /\ row' = [f \in Flights |->
                 IF row[f] = "checking_in" /\ phase[f] # "departed"
                 THEN "pending" ELSE row[f]]
    /\ UNCHANGED <<world, todo, cur, active, threads, budget>>

(* process_accounts / process_manual_reservations meet a new flight.       *)
UpsertFlight(f) ==
    /\ worker = "retrieve"
    /\ row[f] = "absent"
    /\ row' = [row EXCEPT ![f] = "pending"]
    /\ UNCHANGED <<world, loop, active, threads, budget>>

(* schedule_pending_flights reads the rows once ...                        *)
GetPendingFlights ==
    /\ worker = "retrieve"
    /\ worker' = "schedule"
    /\ todo' = {f \in Flights : /\ row[f] \in {"pending", "scheduled"}
                                /\ phase[f] # "departed"}
    /\ UNCHANGED <<row, world, cur, active, threads, budget>>

(* ... and works through them: a flight that has a handler is skipped;     *)
SkipActive(f) ==
    /\ worker = "schedule"
    /\ f \in todo
    /\ active[f] # NoHandler
    /\ todo' = todo \ {f}
    /\ UNCHANGED <<row, world, worker, cur, active, threads, budget>>

(* one that departed since the read is failed, and a database error there  *)
(* ends the iteration;                                                     *)
FailDeparted(f) ==
    /\ worker = "schedule"
    /\ f \in todo
    /\ active[f] = NoHandler
    /\ phase[f] = "departed"
    /\ \/ /\ row' = [row EXCEPT ![f] = IF Exists(f) THEN "failed" ELSE @]
          /\ todo' = todo \ {f}
          /\ UNCHANGED <<worker, faults>>
       \/ /\ faults < MaxFaults
          /\ faults' = faults + 1
          /\ worker' = "retrieve"
          /\ todo' = {}
          /\ UNCHANGED row
    /\ UNCHANGED <<world, cur, active, threads, restarts>>

(* any other gets a handler, registered before it is started.              *)
RegisterHandler(f) ==
    /\ worker = "schedule"
    /\ f \in todo
    /\ active[f] = NoHandler
    /\ phase[f] # "departed"
    /\ \E h \in Handlers :
         /\ pc[h] = "free"
         /\ active' = [active EXCEPT ![f] = h]
         /\ pc' = [pc EXCEPT ![h] = "made"]
         /\ flightOf' = [flightOf EXCEPT ![h] = f]
    /\ worker' = "start"
    /\ todo' = todo \ {f}
    /\ cur' = f
    /\ UNCHANGED <<row, world, stop, budget>>

(* Mutant: the thread is started before the status is written.             *)
StartHandlerThreadFirst ==
    /\ worker = "start"
    /\ \/ /\ pc[active[cur]] = "made"
          /\ pc' = [pc EXCEPT ![active[cur]] = "started"]
          /\ UNCHANGED <<row, worker, cur, faults>>
       \/ /\ pc[active[cur]] # "made"
          /\ UpdateStatus(cur, "scheduled", "ok")
          /\ worker' = "schedule"
          /\ cur' = NoFlight
          /\ UNCHANGED pc
    /\ UNCHANGED <<world, todo, active, flightOf, stop, restarts>>

(* schedule_check_in: write 'scheduled', then start the thread; if the     *)
(* write raises the handler is taken out of active_handlers again.         *)
StartHandler ==
    /\ worker = "start"
    /\ worker' = "schedule"
    /\ cur' = NoFlight
    /\ LET h == active[cur] IN
         \/ /\ UpdateStatus(cur, "scheduled", "ok")
            /\ pc' = [pc EXCEPT ![h] = "started"]
            /\ UNCHANGED <<active, flightOf>>
         \/ /\ UpdateStatus(cur, "scheduled", "raised")
            /\ active' = [active EXCEPT ![cur] = NoHandler]
            /\ pc' = [pc EXCEPT ![h] = "free"]
            /\ flightOf' = [flightOf EXCEPT ![h] = NoFlight]
    /\ UNCHANGED <<world, todo, stop, restarts>>

EndSchedule ==
    /\ worker = "schedule"
    /\ todo = {}
    /\ worker' = "cleanup"
    /\ UNCHANGED <<row, world, todo, cur, active, threads, budget>>

(* Fares, watches, seats and retention come before the cleanup; an         *)
(* exception in any of them, of whatever cause and however often, skips it *)
(* until the next iteration.                                               *)
AbortIteration ==
    /\ worker = "cleanup"
    /\ worker' = "retrieve"
    /\ UNCHANGED <<row, world, todo, cur, active, threads, budget>>

(* Pop and stop the handlers of the flights in S.                          *)
PopHandlers(S) ==
    LET popped == {active[f] : f \in S}
        garbage(h) == h \in popped /\ pc[h] = "done" IN
    /\ active' = [f \in Flights |-> IF f \in S THEN NoHandler ELSE active[f]]
    /\ pc' = [h \in Handlers |-> IF garbage(h) THEN "free" ELSE pc[h]]
    /\ flightOf' = [h \in Handlers |->
                      IF garbage(h) THEN NoFlight ELSE flightOf[h]]
    /\ stop' = [h \in Handlers |->
                  ~garbage(h) /\ (h \in popped \/ stop[h])]

(* Mutants: every handler, or those of claimed flights too, are popped.    *)
CleanupAllHandlers ==
    /\ worker = "cleanup"
    /\ worker' = "retrieve"
    /\ PopHandlers(Flights)
    /\ UNCHANGED <<row, world, todo, cur, budget>>

CleanupClaimedHandlers ==
    /\ worker = "cleanup"
    /\ worker' = "retrieve"
    /\ PopHandlers({f \in Flights : row[f] \notin {"pending", "scheduled"}})
    /\ UNCHANGED <<row, world, todo, cur, budget>>

(* cleanup_handlers: pop and stop the handlers of finished flights.        *)
CleanupHandlers ==
    /\ worker = "cleanup"
    /\ worker' = "retrieve"
    /\ PopHandlers({f \in Flights : row[f] \in Final \/ ~Exists(f)})
    /\ UNCHANGED <<row, world, todo, cur, budget>>

-----------------------------------------------------------------------------
(* Ends of the process.                                                    *)

(* Every thread is a daemon thread: all of them die with the process.      *)
ProcessDies ==
    /\ restarts < MaxRestarts
    /\ restarts' = restarts + 1
    /\ worker' = "down"
    /\ todo' = {}
    /\ cur' = NoFlight
    /\ active' = [f \in Flights |-> NoHandler]
    /\ pc' = [h \in Handlers |-> "free"]
    /\ flightOf' = [h \in Handlers |-> NoFlight]
    /\ stop' = [h \in Handlers |-> FALSE]
    /\ UNCHANGED <<row, sky, boarded, told, faults>>

Crash ==
    /\ worker # "down"
    /\ ProcessDies

(* SIGTERM: the loop ends at its next test of shutdown_event, stops the    *)
(* handlers one after the other, and exits.                                *)
BeginShutdown ==
    /\ worker = "retrieve"
    /\ restarts < MaxRestarts
    /\ worker' = "stopping"
    /\ UNCHANGED <<row, world, todo, cur, active, threads, budget>>

StopHandler(f) ==
    /\ worker = "stopping"
    /\ active[f] # NoHandler
    /\ ~stop[active[f]]
    /\ stop' = [stop EXCEPT ![active[f]] = TRUE]
    /\ UNCHANGED <<row, world, loop, active, pc, flightOf, budget>>

Exit ==
    /\ worker = "stopping"
    /\ \A f \in Flights : active[f] # NoHandler => stop[active[f]]
    /\ ProcessDies

-----------------------------------------------------------------------------
(* A handler's thread (CheckInHandler._set_check_in).                      *)

Goto(h, p) ==
    /\ pc' = [pc EXCEPT ![h] = p]
    /\ UNCHANGED <<flightOf, stop>>

(* The thread ends; its object lives on while active_handlers refers to it.*)
EndThread(h) ==
    IF active[flightOf[h]] = h
    THEN Goto(h, "done")
    ELSE /\ pc' = [pc EXCEPT ![h] = "free"]
         /\ flightOf' = [flightOf EXCEPT ![h] = NoFlight]
         /\ stop' = [stop EXCEPT ![h] = FALSE]

(* _safe_sleep returns when its time is up or the stop event is set; in    *)
(* the second case nothing more is done.                                   *)
StoppedOr(h, p) == IF stop[h] THEN EndThread(h) ELSE Goto(h, p)

BeginWait(h) ==
    /\ pc[h] = "started"
    /\ LET f == flightOf[h] IN
         \/ WindowOpen(f)        /\ StoppedOr(h, "claim")
         \/ phase[f] = "prep"    /\ Goto(h, "asleep")
         \/ phase[f] = "early"   /\ Goto(h, "asleep30")
    /\ UNCHANGED <<row, world, loop, active, budget>>

WakeForPrep(h) ==
    /\ pc[h] = "asleep30"
    /\ stop[h] \/ phase[flightOf[h]] # "early"
    /\ StoppedOr(h, "prep")
    /\ UNCHANGED <<row, world, loop, active, budget>>

(* Mutant: no second sleep after the browser is prepared.                  *)
PrepareBrowserAndGo(h) ==
    /\ pc[h] = "prep"
    /\ StoppedOr(h, "claim")
    /\ UNCHANGED <<row, world, loop, active, budget>>

(* browser_session.start(): whatever it raises is logged and swallowed,    *)
(* and the clock is read again afterwards.                                 *)
PrepareBrowser(h) ==
    /\ pc[h] = "prep"
    /\ IF WindowOpen(flightOf[h]) THEN StoppedOr(h, "claim")
                                  ELSE Goto(h, "asleep")
    /\ UNCHANGED <<row, world, loop, active, budget>>

WakeForCheckIn(h) ==
    /\ pc[h] = "asleep"
    /\ stop[h] \/ WindowOpen(flightOf[h])
    /\ StoppedOr(h, "claim")
    /\ UNCHANGED <<row, world, loop, active, budget>>

(* A status write of the thread: the next step if it succeeds, the outer   *)
(* exception handler if it raises.                                         *)
WriteThen(h, s, next) ==
    /\ \/ UpdateStatus(flightOf[h], s, "ok")     /\ Goto(h, next)
       \/ UpdateStatus(flightOf[h], s, "raised") /\ Goto(h, "failing")
    /\ UNCHANGED <<world, loop, active, restarts>>

Claim(h) ==
    /\ pc[h] = "claim"
    /\ WriteThen(h, "checking_in", "posting")

(* The flights a thread's POST is about: those of its reservation whose    *)
(* window is open.                                                         *)
Open(h) == {g \in Flights : Conf[g] = Conf[flightOf[h]] /\ phase[g] = "open"}

(* Southwest serves a POST: it checks in flights of the reservation, not   *)
(* always all of them and not always the thread's.                         *)
Serve(h) ==
    \E accepted \in SUBSET Open(h) :
        boarded' = [g \in Flights |-> boarded[g] \/ g \in accepted]

(* The answer is lost on its way, or lists no flight; the thread posts     *)
(* again.                                                                  *)
AnswerLost(h) ==
    /\ pc[h] = "posting"
    /\ Serve(h)
    /\ UNCHANGED <<row, sky, told, loop, active, threads, budget>>

(* _attempt_check_in returns once an answer lists expected_flights flights *)
(* or more, whichever these are.  The main loop passes is_same_day = False *)
(* for every flight, so that expected_flights is 1: any flight checked in  *)
(* will do.                                                                *)
AttemptReturns(h) ==
    /\ pc[h] = "posting"
    /\ Serve(h)
    /\ \E listed \in Open(h) : boarded'[listed]
    /\ Goto(h, "accepted")
    /\ UNCHANGED <<row, sky, told, loop, active, budget>>

(* It raises AirportCheckInError or RequestError (a refusal, ten           *)
(* incomplete answers, a lost answer) or another exception (a browser      *)
(* timeout, an answer without the expected keys).                          *)
AttemptRaises(h) ==
    /\ pc[h] = "posting"
    /\ Goto(h, "rejected") \/ Goto(h, "failing")
    /\ UNCHANGED <<row, world, loop, active, budget>>

RecordSuccess(h) ==
    /\ pc[h] = "accepted"
    /\ WriteThen(h, "success", "announce")

AnnounceSuccess(h) ==
    /\ pc[h] = "announce"
    /\ told' = [told EXCEPT ![flightOf[h]] = @ \cup {"success"}]
    /\ Goto(h, "discover")
    /\ UNCHANGED <<row, sky, boarded, loop, active, budget>>

(* _discover_seat_info writes log rows of the flight; its except branch    *)
(* writes one more, so an error of the database or a deleted flight        *)
(* reaches the outer exception handler.                                    *)
DiscoverSeat(h) ==
    /\ pc[h] = "discover"
    /\ \/ Exists(flightOf[h]) /\ EndThread(h) /\ UNCHANGED faults
       \/ ~Exists(flightOf[h]) /\ Goto(h, "failing") /\ UNCHANGED faults
       \/ /\ faults < MaxFaults
          /\ faults' = faults + 1
          /\ Goto(h, "failing")
    /\ UNCHANGED <<row, world, loop, active, restarts>>

(* Mutant: the failure is announced but not recorded.                      *)
RecordNoFailure(h) ==
    /\ pc[h] = "rejected"
    /\ Goto(h, "apologize")
    /\ UNCHANGED <<row, world, loop, active, budget>>

RecordFailure(h) ==
    /\ pc[h] = "rejected"
    /\ WriteThen(h, "failed", "apologize")

AnnounceFailure(h) ==
    /\ pc[h] = "apologize"
    /\ told' = [told EXCEPT ![flightOf[h]] = @ \cup {"failed"}]
    /\ EndThread(h)
    /\ UNCHANGED <<row, sky, boarded, loop, active, budget>>

(* The outer except of _set_check_in: no notification, and an error of     *)
(* the status write itself is only logged.                                 *)
LastResort(h) ==
    /\ pc[h] = "failing"
    /\ \/ UpdateStatus(flightOf[h], "failed", "ok")
       \/ UpdateStatus(flightOf[h], "failed", "raised")
    /\ EndThread(h)
    /\ UNCHANGED <<world, loop, active, restarts>>

Thread(h) ==
    \/ BeginWait(h)
    \/ WakeForPrep(h)
    \/ PrepareBrowser(h)
    \/ WakeForCheckIn(h)
    \/ Claim(h)
    \/ AttemptReturns(h)
    \/ AttemptRaises(h)
    \/ RecordSuccess(h)
    \/ AnnounceSuccess(h)
    \/ DiscoverSeat(h)
    \/ RecordFailure(h)
    \/ AnnounceFailure(h)
    \/ LastResort(h)

Loop ==
    \/ GetPendingFlights
    \/ \E f \in Flights : SkipActive(f) \/ FailDeparted(f) \/ RegisterHandler(f)
    \/ StartHandler
    \/ EndSchedule
    \/ CleanupHandlers

Next ==
    \/ StartWorker
    \/ Loop
    \/ AbortIteration
    \/ Crash
    \/ BeginShutdown
    \/ Exit
    \/ \E f \in Flights :
         Tick(f) \/ DeleteRow(f) \/ UpsertFlight(f) \/ StopHandler(f)
    \/ \E h \in Handlers : Thread(h) \/ AnswerLost(h)

Spec == Init /\ [][Next]_vars

(* supervisord restarts the worker, the loop polls every minute and the    *)
(* threads are scheduled; nothing is assumed of time, of users, of         *)
(* Southwest or of failures.                                               *)
FairSpec ==
    /\ Spec
    /\ WF_vars(StartWorker)
    /\ WF_vars(Loop)
    /\ WF_vars(\E f \in Flights : StopHandler(f))
    /\ WF_vars(Exit)
    /\ \A h \in Handlers : WF_vars(Thread(h))

-----------------------------------------------------------------------------
(* Properties.                                                             *)

(* A flight never has two running threads: active_handlers and the order   *)
(* in which it is filled and emptied (worker.py:243-283, 1346-1353) keep   *)
(* a second handler from being started, whatever is deleted, fails or      *)
(* restarts meanwhile.                                                     *)
OneThreadPerFlight ==
    \A g, h \in Handlers :
        pc[g] \in Live /\ pc[h] \in Live /\ flightOf[g] = flightOf[h] => g = h

(* Outside a shutdown, a handler is told to stop only when its flight is   *)
(* finished or gone, so that no flight loses the thread it still needs.    *)
StopOnlyWhenResolved ==
    worker # "stopping" =>
        \A h \in Handlers : pc[h] \in Live /\ stop[h] =>
            row[flightOf[h]] \in Final \cup {"deleted"}

(* A thread that is past its claim was woken by its flight's window, not   *)
(* by a stale clock or by a late browser preparation.                      *)
NoEarlyCheckIn ==
    \A h \in Handlers :
        pc[h] \in Live \ (Waiting \ {"claim"}) => WindowOpen(flightOf[h])

(* The dashboard and the passenger hear of a success only if Southwest     *)
(* checked this flight in.  The thread only counts the flights in an       *)
(* answer, so this rests on its never posting too early, when the answer   *)
(* could list an earlier flight of the reservation; and it fails for       *)
(* flights that share their window with another of their reservation,      *)
(* which the main loop does not tell the thread of (worker.py:274).        *)
SuccessIsReal ==
    \A f \in Flights :
        row[f] = "success" \/ "success" \in told[f] => boarded[f] \/ f \in crowded

(* Nobody is notified both of a success and of a failure of one flight,    *)
(* also when the worker dies between the status and the notification.      *)
NeverToldBoth == \A f \in Flights : told[f] # Final

(* How far a status has come.                                              *)
Progress(s) == CASE s = "absent"      -> 0
                 [] s = "pending"     -> 1
                 [] s = "scheduled"   -> 2
                 [] s = "checking_in" -> 3
                 [] s = "success"     -> 4
                 [] s = "failed"      -> 5
                 [] s = "deleted"     -> 6

(* While the worker runs, a status only moves forward: a write of the main *)
(* loop never overwrites a later one of the thread.  Only the recovery at  *)
(* startup sets a flight back, and never a finished one.                   *)
StatusNeverRewinds ==
    [][\A f \in Flights :
          \/ Progress(row'[f]) >= Progress(row[f])
          \/ worker = "down" /\ row[f] = "checking_in" /\ row'[f] = "pending"]_row

(* Once a flight is deleted and no thread is past its claim, Southwest is  *)
(* never asked to check it in any more: its handler is either stopped or   *)
(* fails at the foreign key of the log row.                                *)
Unattended(f) ==
    /\ row[f] = "deleted"
    /\ \A h \in Handlers : flightOf[h] = f => pc[h] # "posting"
CancelledStaysUnattended ==
    [][\A f \in Flights : Unattended(f) => Unattended(f)']_vars

(* A handler that will see to the flight: registered, not told to stop,    *)
(* and its thread has not ended.                                           *)
Attended(f) ==
    active[f] # NoHandler /\ pc[active[f]] \in Live \cup {"made"} /\ ~stop[active[f]]

(* While the database works, no flight is stranded: one that waits has     *)
(* such a handler or none, and then gets one at the next poll; one that    *)
(* was claimed always has one, also after a restart in mid-attempt.  So    *)
(* what NoSilentDeath finds takes a status write that fails.               *)
NobodyStranded ==
    faults = 0 /\ worker \notin {"down", "stopping"} =>
        \A f \in Flights :
            /\ row[f] \in {"pending", "scheduled"} => active[f] = NoHandler \/ Attended(f)
            /\ row[f] = "checking_in" => Attended(f) \/ phase[f] = "departed"

(* A flight the worker knows of and whose window is open is checked in or  *)
(* failed before it departs, across crashes, shutdowns and restarts, if    *)
(* the database does not fail.                                             *)
EveryFlightResolved ==
    \A f \in Flights :
        row[f] \in Statuses /\ phase[f] = "open"
            ~> row[f] \in Final \cup {"deleted"} \/ phase[f] = "departed"

(* What a comment in _set_check_in says the code ensures: a thread does    *)
(* not end leaving its flight 'scheduled' or 'checking_in'.                *)
NoSilentDeath ==
    \A h \in Handlers :
        pc[h] = "done" /\ ~stop[h] => row[flightOf[h]] \in Final \cup {"deleted"}

(* What the README says of failed attempts (they are notified), stated for *)
(* the easiest case: the flight failed while its window is open, and the   *)
(* worker has been up all the time.                                        *)
EveryFailureIsTold ==
    \A f \in Flights :
        /\ row[f] = "failed"
        /\ phase[f] = "open"
        /\ restarts = 0
        /\ \A h \in Handlers : pc[h] \in Live => flightOf[h] # f
        => "failed" \in told[f]

-----------------------------------------------------------------------------
(* The worker keeps the promise: 'pending' and 'scheduled' are its waiting *)
(* flights.                                                                *)

Promised(s) == CASE s = "absent" -> "unknown"
                 [] s \in {"pending", "scheduled"} -> "waiting"
                 [] s = "checking_in" -> "attempting"
                 [] s = "deleted" -> "cancelled"
                 [] OTHER -> s
PromisedStatus == [f \in Flights |-> Promised(row[f])]

Promise == INSTANCE CheckinPromise WITH status <- PromisedStatus

(* Every behaviour of threads, main loop, database errors, deletions and   *)
(* restarts is one the abstract lifecycle allows.                          *)
KeepsPromise == Promise!Spec
=============================================================================
