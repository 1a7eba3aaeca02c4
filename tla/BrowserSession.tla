--------------------------- MODULE BrowserSession ---------------------------
(***************************************************************************)
(* The one browser that the worker's threads share                         *)
(* (worker/lib/browser_session.py).  Every call to Southwest is a fetch()  *)
(* inside the page the browser shows, so it is served only while that page *)
(* is on mobile.southwest.com.  Check-in threads restart the browser half  *)
(* an hour before their window and post through it; the main loop checks   *)
(* its health, logs in to accounts and upgrades seats, which both lead to  *)
(* the desktop site.  All of them take one non-reentrant lock.             *)
(*                                                                         *)
(* What a page or an answer contains is abstracted to whether the step     *)
(* that looks for it goes on, fails or raises.                             *)
(***************************************************************************)
EXTENDS Naturals

CONSTANTS
    Threads,       \* threads of check-in handlers
    Main,          \* the thread of the main loop
    Nobody,        \* the owner of a free lock
    MaxAttempts,   \* make_request's max_attempts
    MaxUpgrades,   \* bound: flights that one pass of seat upgrades tries
    MaxMishaps     \* bound: crashes, failed logins and failed page loads

ASSUME ConstantsOK ==
    /\ Main \notin Threads
    /\ Nobody \notin Threads \cup {Main}
    /\ MaxAttempts \in Nat \ {0}
    /\ MaxUpgrades \in Nat \ {0}
    /\ MaxMishaps \in Nat

VARIABLES
    lock,       \* BrowserSession._lock
    driver,     \* BrowserSession._driver: None, a live browser, a dead one
    page,       \* the site its page is on
    aged,       \* the session is older than SESSION_MAX_AGE
    pc,         \* where each thread is
    attempts,   \* attempts of the request a thread is making
    leg,        \* which of its two POSTs a check-in is making
    stage,      \* the stage of the main loop that made its last request
    clock,      \* how far a check-in's window is away
    prepared,   \* history: the check-in's own start() of the browser returned
    upgrades,   \* flights left in this pass of seat upgrades
    mishaps

session == <<lock, driver, page, aged>>
request == <<attempts, leg, stage>>
checkin == <<clock, prepared>>
vars    == <<session, pc, request, checkin, upgrades, mishaps>>

Clients == Threads \cup {Main}

Asking    == {"ask", "fetch", "refused", "restarting"}
ThreadPcs == Asking \cup {"none", "sleeping", "prep", "preparing", "waiting"}
MainPcs   == Asking \cup {"poll", "checking", "accounts", "loggingin", "fares",
                          "upgrades", "recheck", "rechecking", "lookup",
                          "upgrading", "restore", "restoring"}

TypeOK ==
    /\ lock \in Clients \cup {Nobody}
    /\ driver \in {"none", "running", "dead"}
    /\ page \in {"blank", "mobile", "desktop"}
    /\ aged \in BOOLEAN
    /\ pc \in [Clients -> ThreadPcs \cup MainPcs]
    /\ \A t \in Threads : pc[t] \in ThreadPcs
    /\ pc[Main] \in MainPcs
    /\ attempts \in [Clients -> 0..MaxAttempts]
    /\ leg \in [Threads -> {1, 2}]
    /\ stage \in {"accounts", "fares"}
    /\ clock \in [Threads -> {"far", "imminent", "open"}]
    /\ prepared \in [Threads -> BOOLEAN]
    /\ upgrades \in 0..MaxUpgrades
    /\ mishaps \in 0..MaxMishaps

Init ==
    /\ lock = Nobody
    /\ driver = "none"
    /\ page = "blank"
    /\ aged = TRUE
    /\ pc = [c \in Clients |-> IF c = Main THEN "poll" ELSE "none"]
    /\ attempts = [c \in Clients |-> 0]
    /\ leg = [t \in Threads |-> 1]
    /\ stage = "accounts"
    /\ clock = [t \in Threads |-> "far"]
    /\ prepared = [t \in Threads |-> FALSE]
    /\ upgrades = 0
    /\ mishaps = 0

Goto(c, p) == pc' = [pc EXCEPT ![c] = p]
Mishap     == mishaps < MaxMishaps /\ mishaps' = mishaps + 1

-----------------------------------------------------------------------------
(* The lock, and starting the browser under it.                            *)

Acquire(c, from, to) ==
    /\ pc[c] = from
    /\ lock = Nobody
    /\ lock' = c
    /\ Goto(c, to)
    /\ UNCHANGED <<driver, page, aged, request, checkin, upgrades, mishaps>>

Release == lock' = Nobody

(* _start_internal: quit the browser, start another, load the mobile site, *)
(* and wait for the headers of its first request.                          *)
Started ==
    /\ driver' = "running"
    /\ page' = "mobile"
    /\ aged' = FALSE
    /\ UNCHANGED mishaps

StartRaises ==
    /\ Mishap
    /\ UNCHANGED aged
    /\ \/ driver' = "none" /\ page' = "blank"
       \/ driver' = "running" /\ page' \in {"blank", "mobile"}

-----------------------------------------------------------------------------
(* make_request.  The caller's continuation depends on the caller.         *)

Answered(c) ==
    IF c = Main THEN Goto(c, stage) /\ UNCHANGED leg
    ELSE IF leg[c] = 1 THEN Goto(c, "ask") /\ leg' = [leg EXCEPT ![c] = 2]
    ELSE Goto(c, "none") /\ leg' = [leg EXCEPT ![c] = 1]

Raises(c) ==
    /\ Goto(c, IF c = Main THEN stage ELSE "none")
    /\ leg' = IF c = Main THEN leg ELSE [leg EXCEPT ![c] = 1]

(* The end of a request, and the next turn of its loop.                    *)
Finish(c, outcome) ==
    /\ outcome
    /\ attempts' = [attempts EXCEPT ![c] = 0]
    /\ UNCHANGED stage

TryAgain(c) ==
    IF attempts[c] < MaxAttempts
    THEN Goto(c, "ask") /\ UNCHANGED request
    ELSE Finish(c, Raises(c))

AskForLock(c) ==
    /\ pc[c] = "ask"
    /\ lock = Nobody
    /\ lock' = c
    /\ attempts' = [attempts EXCEPT ![c] = @ + 1]
    /\ Goto(c, "fetch")
    /\ UNCHANGED <<driver, page, aged, leg, stage, checkin, upgrades, mishaps>>

(* Mutant: only attempts that get the lock are counted.                    *)
LockTimeoutUncounted(c) ==
    /\ pc[c] = "ask"
    /\ lock # Nobody
    /\ UNCHANGED vars

(* acquire(timeout=60) gives up; that was an attempt.                      *)
LockTimeout(c) ==
    /\ pc[c] = "ask"
    /\ lock # Nobody
    /\ IF attempts[c] + 1 < MaxAttempts
       THEN attempts' = [attempts EXCEPT ![c] = @ + 1] /\ UNCHANGED <<pc, leg, stage>>
       ELSE Finish(c, Raises(c))
    /\ UNCHANGED <<session, checkin, upgrades, mishaps>>

Served == driver = "running" /\ page = "mobile"

(* Southwest answers 200; the lock is released in every case.              *)
FetchAnswered(c) ==
    /\ pc[c] = "fetch"
    /\ Served
    /\ Finish(c, Answered(c))
    /\ Release
    /\ UNCHANGED <<driver, page, aged, checkin, upgrades, mishaps>>

(* An error code that _handle_southwest_error_code knows ends the request. *)
FetchFatal(c) ==
    /\ pc[c] = "fetch"
    /\ Served
    /\ Finish(c, Raises(c))
    /\ Release
    /\ UNCHANGED <<driver, page, aged, checkin, upgrades, mishaps>>

(* 403 restarts the browser, but not after the last attempt.               *)
FetchForbidden(c) ==
    /\ pc[c] = "fetch"
    /\ Served
    /\ IF attempts[c] < MaxAttempts
       THEN Goto(c, "refused") /\ UNCHANGED request
       ELSE Finish(c, Raises(c))
    /\ Release
    /\ UNCHANGED <<driver, page, aged, checkin, upgrades, mishaps>>

(* Any other status, no browser, a dead one, or a page on another origin.  *)
FetchFails(c) ==
    /\ pc[c] = "fetch"
    /\ TryAgain(c)
    /\ Release
    /\ UNCHANGED <<driver, page, aged, checkin, upgrades, mishaps>>

(* Mutant: a restarted browser starts the count over.                      *)
RestartAfterRefusalAfresh(c) ==
    /\ pc[c] = "restarting"
    /\ \/ /\ Started \/ StartRaises
          /\ Goto(c, "ask")
          /\ attempts' = [attempts EXCEPT ![c] = 0]
          /\ UNCHANGED <<leg, stage>>
       \/ Started /\ Finish(c, Raises(c))
    /\ Release
    /\ UNCHANGED <<checkin, upgrades>>

(* The answer that was refused may also carry one of those error codes.    *)
RestartAfterRefusal(c) ==
    /\ pc[c] = "restarting"
    /\ \/ (Started \/ StartRaises) /\ Goto(c, "ask") /\ UNCHANGED request
       \/ Started /\ Finish(c, Raises(c))
    /\ Release
    /\ UNCHANGED <<checkin, upgrades>>

Request(c) ==
    \/ AskForLock(c) \/ LockTimeout(c)
    \/ FetchAnswered(c) \/ FetchFatal(c) \/ FetchForbidden(c) \/ FetchFails(c)
    \/ RestartAfterRefusal(c)

TakeBrowserToRestart(c) == Acquire(c, "refused", "restarting")

-----------------------------------------------------------------------------
(* A check-in thread: CheckInHandler._wait_for_check_in and the two POSTs  *)
(* of _check_in_to_flight.                                                 *)

(* schedule_pending_flights starts it; one started within half an hour of  *)
(* its window does not prepare the browser.                                *)
StartThread(t) ==
    /\ pc[Main] = "fares"
    /\ pc[t] = "none"
    /\ \/ Goto(t, "sleeping") /\ clock' \in {[clock EXCEPT ![t] = d] : d \in {"far", "imminent"}}
       \/ Goto(t, "waiting")  /\ clock' = [clock EXCEPT ![t] = "imminent"]
       \/ Goto(t, "ask")      /\ clock' = [clock EXCEPT ![t] = "open"]
    /\ prepared' = [prepared EXCEPT ![t] = FALSE]
    /\ UNCHANGED <<session, request, upgrades, mishaps>>

WakeForPrep(t) ==
    /\ pc[t] = "sleeping"
    /\ clock[t] # "far"
    /\ Goto(t, "prep")
    /\ UNCHANGED <<session, request, checkin, upgrades, mishaps>>

(* Mutant: start() without its "with self._lock".                          *)
TakeBrowserUnlocked(t) ==
    /\ pc[t] = "prep"
    /\ Goto(t, "preparing")
    /\ UNCHANGED <<session, request, checkin, upgrades, mishaps>>

TakeBrowser(t) == Acquire(t, "prep", "preparing")

(* An exception of start() is logged and the thread goes on all the same.  *)
PrepareBrowser(t) ==
    /\ pc[t] = "preparing"
    /\ \/ Started     /\ prepared' = [prepared EXCEPT ![t] = TRUE]
       \/ StartRaises /\ UNCHANGED prepared
    /\ Release
    /\ Goto(t, "waiting")
    /\ UNCHANGED <<request, clock, upgrades>>

BeginCheckIn(t) ==
    /\ pc[t] = "waiting"
    /\ clock[t] = "open"
    /\ Goto(t, "ask")
    /\ UNCHANGED <<session, request, checkin, upgrades, mishaps>>

StopThread(t) ==
    /\ pc[t] \in {"sleeping", "waiting"}
    /\ Goto(t, "none")
    /\ UNCHANGED <<session, request, checkin, upgrades, mishaps>>

-----------------------------------------------------------------------------
(* The main loop.                                                          *)

(* ensure_alive, holding the lock: go on at ok, or at raised.              *)
Revive(ok, raised) ==
    \/ Started /\ Goto(Main, ok)
    \/ StartRaises /\ Goto(Main, raised)

(* Mutant: a session is never too old.                                     *)
EnsureAliveAtAnyAge(ok, raised) ==
    /\ IF driver = "running"
       THEN Goto(Main, ok) /\ UNCHANGED <<driver, page, aged, mishaps>>
       ELSE Revive(ok, raised)
    /\ Release
    /\ UNCHANGED <<request, checkin>>

EnsureAlive(ok, raised) ==
    /\ IF driver = "running" /\ ~aged
       THEN Goto(Main, ok) /\ UNCHANGED <<driver, page, aged, mishaps>>
       ELSE Revive(ok, raised)
    /\ Release
    /\ UNCHANGED <<request, checkin>>

StartIteration ==
    /\ pc[Main] = "checking"
    /\ EnsureAlive("accounts", "poll")
    /\ UNCHANGED upgrades

(* login_and_get_reservations: a new browser, the desktop site, and back.  *)
(* Whatever raises on the desktop site leaves the page there.              *)
LogIn ==
    /\ pc[Main] = "loggingin"
    /\ \/ Started
       \/ StartRaises
       \/ /\ Mishap
          /\ driver' = "running"
          /\ page' \in {"desktop", "mobile"}
          /\ aged' = FALSE
    /\ Release
    /\ Goto(Main, "accounts")
    /\ UNCHANGED <<request, checkin, upgrades>>

(* The reservations of an account or a manual one, or the fares of a       *)
(* flight, are requested.                                                  *)
AskForData ==
    /\ pc[Main] \in {"accounts", "fares"}
    /\ stage' = pc[Main]
    /\ Goto(Main, "ask")
    /\ UNCHANGED <<session, attempts, leg, checkin, upgrades, mishaps>>

(* A stage of the loop is over, or raises and ends the iteration.          *)
EndStage ==
    /\ \/ pc[Main] = "accounts" /\ (Goto(Main, "fares") \/ Goto(Main, "poll"))
       \/ pc[Main] = "fares"    /\ (Goto(Main, "upgrades") \/ Goto(Main, "poll"))
       \/ pc[Main] = "upgrades" /\ Goto(Main, "poll")
    /\ UNCHANGED <<session, request, checkin, upgrades, mishaps>>

(* attempt_seat_upgrades, for the A-List flights or one asked for by hand: *)
(* not while a handler's window opens within two hours.  No flight is left *)
(* to look at if all are cooling down or no preferences are set.           *)
BeginUpgrades ==
    /\ pc[Main] = "upgrades"
    /\ \A t \in Threads : pc[t] # "none" => clock[t] # "imminent"
    /\ upgrades' \in 0..MaxUpgrades
    /\ Goto(Main, "recheck")
    /\ UNCHANGED <<session, request, checkin, mishaps>>

ReviveForUpgrades ==
    /\ pc[Main] = "rechecking"
    /\ EnsureAlive(IF upgrades = 0 THEN "upgrades" ELSE "lookup", "upgrades")
    /\ upgrades' = IF pc'[Main] = "lookup" THEN upgrades ELSE 0

(* Mutant: an early "continue" skips the way back to the mobile site.      *)
UpgradeSeatNoFinally ==
    /\ pc[Main] = "upgrading"
    /\ IF driver = "running" THEN page' \in {"desktop", "mobile"} ELSE UNCHANGED page
    /\ Release
    /\ upgrades' = upgrades - 1
    /\ Goto(Main, IF upgrades' = 0 THEN "upgrades" ELSE "lookup")
    /\ UNCHANGED <<driver, aged, request, checkin, mishaps>>

(* One flight on the desktop site: at the end of the path that does all    *)
(* its steps the page is back on the mobile site, on every other it is     *)
(* not.  The lock is released before the finally clause runs.              *)
UpgradeSeat ==
    /\ pc[Main] = "upgrading"
    /\ IF driver = "running" THEN page' \in {"desktop", "mobile"} ELSE UNCHANGED page
    /\ Release
    /\ Goto(Main, "restore")
    /\ UNCHANGED <<driver, aged, request, checkin, upgrades, mishaps>>

(* _restore_mobile_origin; what raises in it is logged.                    *)
RestoreMobileOrigin ==
    /\ pc[Main] = "restoring"
    /\ \/ /\ page' = IF driver = "running" THEN "mobile" ELSE page
          /\ UNCHANGED mishaps
       \/ Mishap /\ UNCHANGED page
    /\ Release
    /\ upgrades' = upgrades - 1
    /\ Goto(Main, IF upgrades' = 0 THEN "upgrades" ELSE "lookup")
    /\ UNCHANGED <<driver, aged, request, checkin>>

MainTakesBrowser ==
    \/ Acquire(Main, "poll", "checking")
    \/ Acquire(Main, "accounts", "loggingin")
    \/ Acquire(Main, "recheck", "rechecking")
    \/ Acquire(Main, "lookup", "upgrading")
    \/ Acquire(Main, "restore", "restoring")

-----------------------------------------------------------------------------
(* The environment.                                                        *)

BrowserDies ==
    /\ driver = "running"
    /\ Mishap
    /\ driver' = "dead"
    /\ page' = "blank"
    /\ UNCHANGED <<lock, aged, pc, request, checkin, upgrades>>

SessionAges ==
    /\ ~aged
    /\ aged' = TRUE
    /\ UNCHANGED <<lock, driver, page, pc, request, checkin, upgrades, mishaps>>

Tick(t) ==
    /\ pc[t] # "none"
    /\ clock[t] # "open"
    /\ clock' = [clock EXCEPT ![t] = IF @ = "far" THEN "imminent" ELSE "open"]
    /\ UNCHANGED <<session, pc, request, prepared, upgrades, mishaps>>

Thread(t) ==
    \/ StartThread(t) \/ WakeForPrep(t) \/ PrepareBrowser(t)
    \/ BeginCheckIn(t) \/ StopThread(t)

HoldsBrowser ==
    StartIteration \/ LogIn \/ ReviveForUpgrades \/ UpgradeSeat \/ RestoreMobileOrigin

Next ==
    \/ \E c \in Clients : Request(c) \/ TakeBrowserToRestart(c)
    \/ \E t \in Threads : Thread(t) \/ TakeBrowser(t) \/ Tick(t)
    \/ MainTakesBrowser \/ HoldsBrowser
    \/ AskForData \/ EndStage \/ BeginUpgrades
    \/ BrowserDies \/ SessionAges

Spec == Init /\ [][Next]_vars

(* Threads run, and time passes for the session.  A wait for the lock that *)
(* has no timeout ends some time if the lock is free again and again: who  *)
(* holds it sleeps afterwards (0.5 s between attempts, a minute between    *)
(* polls).  The loops of a stage are over lists of rows, so stages end.    *)
FairSpec ==
    /\ Spec
    /\ \A c \in Clients : WF_vars(Request(c)) /\ SF_vars(TakeBrowserToRestart(c))
    /\ \A t \in Threads : WF_vars(PrepareBrowser(t)) /\ SF_vars(TakeBrowser(t))
    /\ SF_vars(MainTakesBrowser)
    /\ WF_vars(HoldsBrowser)
    /\ SF_vars(EndStage)
    /\ WF_vars(SessionAges)

-----------------------------------------------------------------------------
(* Properties.                                                             *)

(* Unless something went wrong on the way, the page is off the mobile site *)
(* only while the main loop holds the lock or is about to restore the page *)
(* (browser_session.py:304-373, worker.py:795-1220).                       *)
DesktopOnlyBriefly ==
    mishaps = 0 /\ page = "desktop" => lock = Main \/ pc[Main] = "restore"

(* While a request is in the page, nobody but a crash changes the browser  *)
(* or its page under it (browser_session.py:110-113, 187-207, 257-267).    *)
FetchUndisturbed ==
    [][\A c \in Clients :
          pc[c] = "fetch" /\ pc'[c] = "fetch" =>
              UNCHANGED <<driver, page>> \/ driver' = "dead"]_vars

(* How many steps of its own a request has left at most: an attempt is     *)
(* counted with the lock or without it, fetched, refused and restarted.    *)
StepsLeft(c) ==
    4 * (MaxAttempts - attempts[c]) + CASE pc[c] = "fetch"      -> 3
                                        [] pc[c] = "refused"    -> 2
                                        [] pc[c] = "restarting" -> 1
                                        [] OTHER                -> 0

(* Whatever the others do with the lock, the browser and its page, a       *)
(* request is never set back: each step that leaves it under way brings it *)
(* nearer to its end, across refusals, restarts, timeouts and failed       *)
(* fetches (browser_session.py:252-302).                                   *)
RequestsNearTheirEnd ==
    [][\A c \in Clients :
          /\ pc[c] \in Asking
          /\ pc'[c] \in Asking
          /\ c # Main => leg'[c] = leg[c]
          => \/ UNCHANGED <<pc[c], attempts[c]>>
             \/ StepsLeft(c)' \in 0..(StepsLeft(c) - 1)]_vars

(* A request ends, however long others hold the lock and however often it  *)
(* is refused: a check-in is not lost in make_request (228-302).           *)
RequestsEnd ==
    \A c \in Clients : pc[c] = "ask" ~> pc[c] \in {"none", "accounts", "fares"}

(* A page that a failed login or a failed restoration left on the desktop  *)
(* site is replaced: the health check does not see it, the session's age   *)
(* limit does (browser_session.py:187-205).                                *)
PageRecovers == page = "desktop" ~> page # "desktop"

(* What the README says of check-ins and seat upgrades: a pass of upgrades *)
(* does not begin while a check-in is being made.                          *)
UpgradesYield ==
    [][pc[Main] = "upgrades" /\ pc'[Main] = "recheck" =>
          \A t \in Threads : pc[t] \notin Asking]_vars

(* What a comment in _wait_for_check_in says the preparation ensures, for  *)
(* one that succeeded and a browser that has not crashed since: the        *)
(* check-in is fetched from the mobile site.                               *)
CheckInsFromMobile ==
    \A t \in Threads :
        prepared[t] /\ pc[t] = "fetch" /\ driver = "running" => page # "desktop"
=============================================================================
