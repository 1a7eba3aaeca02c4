----------------------------- MODULE CliMonitor -----------------------------
(***************************************************************************)
(* The command-line program (src/lib): a process for every monitored       *)
(* account or reservation, a child process for every flight it found, and  *)
(* one multiprocessing.Lock around everything that drives a browser.       *)
(* A monitor retrieves its reservations, starts a check-in for each new    *)
(* flight and kills the check-ins of flights it no longer finds; a         *)
(* check-in sleeps, refreshes the headers half an hour before its window   *)
(* and posts when the window opens.  Southwest changes bookings at any     *)
(* time, any process may die of an exception nobody handles, and Ctrl-C    *)
(* interrupts all of them at once.                                         *)
(*                                                                         *)
(* A ticket is one flight of one reservation; its leg is what              *)
(* Flight.__eq__ compares, the flight number and the departure time.       *)
(* Time is in abstract ticks.                                              *)
(***************************************************************************)
EXTENDS Integers, FiniteSets

CONSTANTS
    Monitors,      \* processes started by main
    Accounts,      \* those that are AccountMonitors
    OneShot,       \* those with a retrieval_interval of 0
    Tickets,       \* flights of reservations, booked or not
    Owner,         \* the monitor that would find a ticket
    Conf,          \* a ticket's confirmation number
    Leg,           \* a ticket's flight
    Departs,       \* a leg's departure time
    Nobody,        \* the owner of a free lock
    Day,           \* 24 hours
    HalfHour,      \* the lead of the headers
    Skew,          \* how far ahead of Southwest's our clock may be
    MaxRetries,    \* _get_reservations' max_retries
    MaxAttempts,   \* MAX_CHECK_IN_ATTEMPTS
    Horizon,       \* bound: the last tick
    MaxFaults,     \* bound: unhandled exceptions
    MaxChanges     \* bound: changes of bookings

ASSUME ConstantsOK ==
    /\ Accounts \subseteq Monitors /\ OneShot \subseteq Monitors
    /\ Nobody \notin Monitors \cup Tickets
    /\ Monitors \cap Tickets = {}
    /\ Owner \in [Tickets -> Monitors]
    /\ \A t \in Tickets : Departs[Leg[t]] \in Nat
    /\ \A s, t \in Tickets : Conf[s] = Conf[t] => Owner[s] = Owner[t]
    /\ {Day, HalfHour, Skew, Horizon, MaxFaults, MaxChanges} \subseteq Nat
    /\ {MaxRetries, MaxAttempts} \subseteq Nat \ {0}

VARIABLES
    clock,
    booked,      \* tickets that Southwest has
    lock,        \* the process inside `with self.lock`
    pc,          \* where each monitor is
    round,       \* the local variables of each monitor's _check
    scheduled,   \* CheckInScheduler.flights, and its checkin_handlers
    proc,        \* where each ticket's check-in process is
    sameDay,     \* Flight.is_same_day in that process
    attempts,    \* of _attempt_check_in
    sigint,      \* processes that have a Ctrl-C to handle
    interrupted, \* Ctrl-C was pressed
    faults, changes

world    == <<clock, booked>>
checkin  == <<proc, sameDay, attempts>>
signals  == <<sigint, interrupted>>
budget   == <<faults, changes>>
vars     == <<world, lock, pc, round, scheduled, checkin, signals, budget>>

Confs == {Conf[t] : t \in Tickets}

(* tries: failed logins; asking: confirmation numbers still to look up;    *)
(* answer: flights found; lost (history): numbers whose lookup failed.     *)
Round   == [tries : 0..MaxRetries, asking : SUBSET Confs,
            answer : SUBSET Tickets, lost : SUBSET Confs]
NoRound == [tries |-> 0, asking |-> {}, answer |-> {}, lost |-> {}]

Holding  == {"headers", "login", "retrieve", "fares", "stopping"}
Finished == {"exited", "rejected", "crashed", "stopped"}
Live     == {"sleeping", "refreshing", "waiting", "posting"}
Ended    == {"succeeded", "failed", "crashed", "interrupted", "killed"}

TypeOK ==
    /\ clock \in 0..Horizon
    /\ booked \subseteq Tickets
    /\ lock \in Monitors \cup Tickets \cup {Nobody}
    /\ pc \in [Monitors -> {"asleep", "interrupted"} \cup Holding \cup Finished]
    /\ round \in [Monitors -> Round]
    /\ scheduled \in [Monitors -> SUBSET Tickets]
    /\ proc \in [Tickets -> {"none"} \cup Live \cup Ended]
    /\ sameDay \in [Tickets -> BOOLEAN]
    /\ attempts \in [Tickets -> 0..MaxAttempts]
    /\ sigint \subseteq Monitors \cup Tickets
    /\ interrupted \in BOOLEAN
    /\ faults \in 0..MaxFaults /\ changes \in 0..MaxChanges

Init ==
    /\ clock = 0
    /\ booked \in SUBSET Tickets
    /\ lock = Nobody
    /\ pc = [m \in Monitors |-> "asleep"]
    /\ round = [m \in Monitors |-> NoRound]
    /\ scheduled = [m \in Monitors |-> {}]
    /\ proc = [t \in Tickets |-> "none"]
    /\ sameDay = [t \in Tickets |-> FALSE]
    /\ attempts = [t \in Tickets |-> 0]
    /\ sigint = {}
    /\ interrupted = FALSE
    /\ faults = 0 /\ changes = 0

-----------------------------------------------------------------------------
(* Flights and times.                                                      *)

Departure(t) == Departs[Leg[t]]
Departed(t)  == Departure(t) <= clock

(* The process' view: its clock may run ahead of Southwest's.              *)
DueIn(t, lead) == Departure(t) - Day - lead <= clock
Due(t)         == DueIn(t, Skew)

(* Southwest's view: check-in is open from 24 hours before departure.      *)
WindowOpen(t) == DueIn(t, 0) /\ ~Departed(t)

(* _set_same_day_flight: among the flights found on the same reservation,  *)
(* an earlier one leaves at most 24 hours before.                          *)
Precedes(s, t) ==
    /\ Conf[s] = Conf[t]
    /\ Departure(s) < Departure(t)
    /\ Departure(t) - Departure(s) <= Day

IsSameDay(t, found) == \E s \in found : Precedes(s, t)

Legs(found) == {Leg[t] : t \in found}

(* _get_flights of a reservation that was retrieved.                       *)
Upcoming(c) == {t \in booked : Conf[t] = c /\ ~Departed(t)}

-----------------------------------------------------------------------------
(* Southwest and time.                                                     *)

Tick ==
    /\ clock < Horizon
    /\ clock' = clock + 1
    /\ UNCHANGED <<booked, lock, pc, round, scheduled, checkin,
                   signals, budget>>

(* A flight is booked, or cancelled; a change of flights is both.          *)
Change(t) ==
    /\ changes < MaxChanges
    /\ changes' = changes + 1
    /\ \/ t \notin booked /\ ~Departed(t) /\ booked' = booked \cup {t}
       \/ t \in booked /\ booked' = booked \ {t}
    /\ UNCHANGED <<clock, lock, pc, round, scheduled, checkin, signals, faults>>

-----------------------------------------------------------------------------
(* A monitor: _monitor and _check.                                         *)

Goto(m, p)    == pc' = [pc EXCEPT ![m] = p]
Alert(p)      == p \notin sigint
MayCrash      == faults < MaxFaults /\ faults' = faults + 1

(* _check returns or raises, and the lock is left.                         *)
Leave(m, p) ==
    /\ lock' = IF lock = m THEN Nobody ELSE lock
    /\ round' = [round EXCEPT ![m] = NoRound]
    /\ Goto(m, p)

(* Mutant: the round ends without leaving the lock.                        *)
EndRoundLocked(m) ==
    /\ Goto(m, IF m \in OneShot THEN "exited" ELSE "asleep")
    /\ round' = [round EXCEPT ![m] = NoRound]
    /\ UNCHANGED lock

(* Its monitor sleeps for the rest of the interval, if there is one.       *)
EndRound(m) == Leave(m, IF m \in OneShot THEN "exited" ELSE "asleep")

StartRound(m) ==
    /\ pc[m] = "asleep" /\ Alert(m)
    /\ lock = Nobody
    /\ lock' = m
    /\ Goto(m, IF m \in Accounts THEN "login" ELSE "headers")
    /\ UNCHANGED <<world, round, scheduled, checkin, signals, budget>>

Ask(m, confs) ==
    /\ Goto(m, "retrieve")
    /\ round' = [round EXCEPT ![m].asking = confs]
    /\ UNCHANGED lock

(* ReservationMonitor._check: set_headers finds new headers, or times out  *)
(* waiting for them, which is told.                                        *)
OwnConf(m)    == {Conf[t] : t \in {s \in Tickets : Owner[s] = m}}
HeadersSet(m) == Ask(m, OwnConf(m))

(* Mutant: after a timeout it goes on, without reservations.               *)
RefreshHeadersGoesOn(m) ==
    /\ pc[m] = "headers" /\ Alert(m)
    /\ HeadersSet(m) \/ Ask(m, {})
    /\ UNCHANGED <<world, scheduled, checkin, signals, budget>>

RefreshHeaders(m) ==
    /\ pc[m] = "headers" /\ Alert(m)
    /\ HeadersSet(m) \/ EndRound(m)
    /\ UNCHANGED <<world, scheduled, checkin, signals, budget>>

(* The upcoming trips that the account's page lists.                       *)
Trips(m) == {Conf[t] : t \in {s \in booked : Owner[s] = m /\ ~Departed(s)}}

(* AccountMonitor._get_reservations: one attempt to log in.  A timeout, an *)
(* answer 429 or 500 is retried and finally told; any other rejection is   *)
(* told and ends the process.                                              *)
LoggedIn(m) ==
    /\ pc[m] = "login" /\ Alert(m)
    /\ Ask(m, Trips(m))
    /\ UNCHANGED <<world, scheduled, checkin, signals, budget>>

LoginFails(m) ==
    /\ pc[m] = "login" /\ Alert(m)
    /\ IF round[m].tries < MaxRetries
       THEN /\ round' = [round EXCEPT ![m].tries = @ + 1]
            /\ UNCHANGED <<lock, pc>>
       ELSE EndRound(m)
    /\ UNCHANGED <<world, scheduled, checkin, signals, budget>>

LoginRejected(m) ==
    /\ pc[m] = "login" /\ Alert(m)
    /\ Leave(m, "rejected")
    /\ UNCHANGED <<world, scheduled, checkin, signals, budget>>

(* _get_flights: a reservation's upcoming flights, or none if the request  *)
(* for it failed, as it always does for one that is cancelled.             *)
Found(m, c) == round' = [round EXCEPT ![m].asking = @ \ {c},
                                      ![m].answer = @ \cup Upcoming(c)]
Missed(m, c) == round' = [round EXCEPT ![m].asking = @ \ {c},
                                       ![m].lost = @ \cup {c}]

GetFlights(m) ==
    /\ pc[m] = "retrieve" /\ Alert(m)
    /\ \E c \in round[m].asking :
          \/ (\E t \in booked : Conf[t] = c) /\ Found(m, c)
          \/ Missed(m, c)
    /\ UNCHANGED <<world, lock, pc, scheduled, checkin, signals, budget>>

(* The first steps of a new check-in process: how long it will sleep.      *)
Started(t) ==
    IF Due(t) THEN "posting"
    ELSE IF DueIn(t, HalfHour) THEN "waiting" ELSE "sleeping"

(* _update_scheduled_flights: start the check-ins of flights that equal no *)
(* scheduled one, then stop those of flights that equal none that was      *)
(* found.  Without flights, a ReservationMonitor ends.                     *)
NewFlights(m) == {t \in round[m].answer : Leg[t] \notin Legs(scheduled[m])}
OldFlights(m) == {t \in scheduled[m] : Leg[t] \notin Legs(round[m].answer)}

(* Mutant: the check-ins of old flights are forgotten, not stopped.        *)
UpdateWithoutStopping(m) ==
    /\ pc[m] = "retrieve" /\ Alert(m)
    /\ round[m].asking = {}
    /\ LET new == NewFlights(m)
       IN  /\ scheduled' = [scheduled EXCEPT ![m] = (@ \cup new) \ OldFlights(m)]
           /\ proc' = [t \in Tickets |-> IF t \in new THEN Started(t) ELSE proc[t]]
           /\ sameDay' = [t \in Tickets |->
                 IF t \in new THEN IsSameDay(t, round[m].answer) ELSE sameDay[t]]
           /\ attempts' = [t \in Tickets |-> IF t \in new THEN 0 ELSE attempts[t]]
    /\ Goto(m, "fares")
    /\ round' = [round EXCEPT ![m] = NoRound]
    /\ UNCHANGED <<world, lock, signals, budget>>

UpdateScheduledFlights(m) ==
    /\ pc[m] = "retrieve" /\ Alert(m)
    /\ round[m].asking = {}
    /\ LET new == NewFlights(m)
           old == {t \in OldFlights(m) : proc[t] \in Live}
       IN  /\ scheduled' = [scheduled EXCEPT ![m] = (@ \cup new) \ OldFlights(m)]
           /\ proc' = [t \in Tickets |->
                 IF t \in new THEN Started(t)
                 ELSE IF t \in old THEN "killed" ELSE proc[t]]
           /\ sameDay' = [t \in Tickets |->
                 IF t \in new THEN IsSameDay(t, round[m].answer)
                 ELSE t \notin old /\ sameDay[t]]
           /\ attempts' = [t \in Tickets |-> IF t \in new \cup old THEN 0 ELSE attempts[t]]
           /\ sigint' = sigint \ old
    /\ IF m \notin Accounts /\ scheduled'[m] = {}
       THEN Leave(m, "exited")
       ELSE /\ Goto(m, "fares")
            /\ round' = [round EXCEPT ![m] = NoRound]
            /\ UNCHANGED lock
    /\ UNCHANGED <<world, interrupted, budget>>

(* _check_flight_fares: every error is swallowed.                          *)
CheckFlightFares(m) ==
    /\ pc[m] = "fares" /\ Alert(m)
    /\ EndRound(m)
    /\ UNCHANGED <<world, scheduled, checkin, signals, budget>>

(* An exception that _check does not handle: the process ends, after it    *)
(* has joined its check-ins.  The handler of a failed fare check raises    *)
(* one when the request to the healthchecks service fails.                 *)
MonitorCrashes(m) ==
    /\ pc[m] \in {"headers", "login", "retrieve", "fares"} /\ Alert(m)
    /\ MayCrash
    /\ Leave(m, "crashed")
    /\ UNCHANGED <<world, scheduled, checkin, signals, changes>>

-----------------------------------------------------------------------------
(* A check-in process: _set_check_in.                                      *)

Step(t, p) ==
    /\ proc' = [proc EXCEPT ![t] = p]
    /\ UNCHANGED <<sameDay, attempts>>

(* The process ends, and with it the lock if it has it.                    *)
End(t, p) ==
    /\ proc' = [proc EXCEPT ![t] = p]
    /\ sameDay' = [sameDay EXCEPT ![t] = FALSE]
    /\ attempts' = [attempts EXCEPT ![t] = 0]
    /\ lock' = IF lock = t THEN Nobody ELSE lock

StartRefresh(t) ==
    /\ proc[t] = "sleeping" /\ Alert(t)
    /\ DueIn(t, HalfHour)
    /\ lock = Nobody
    /\ lock' = t
    /\ Step(t, "refreshing")
    /\ UNCHANGED <<world, pc, round, scheduled, signals, budget>>

(* With new headers or, after a timeout that is told, with the old ones.   *)
EndRefresh(t) ==
    /\ proc[t] = "refreshing" /\ Alert(t)
    /\ lock' = Nobody
    /\ Step(t, "waiting")
    /\ UNCHANGED <<world, pc, round, scheduled, signals, budget>>

StartCheckIn(t) ==
    /\ proc[t] = "waiting" /\ Alert(t)
    /\ Due(t)
    /\ Step(t, "posting")
    /\ UNCHANGED <<world, lock, pc, round, scheduled, signals, budget>>

(* _check_in_to_flight went through: Southwest checks in every open flight *)
(* of the reservation and lists them.  A same-day flight needs two.        *)
Accepted(t) == {s \in booked : Conf[s] = Conf[t] /\ WindowOpen(s)}

(* Mutant: same-day flights are not told apart.                            *)
ExpectedOne(t) == 1

Expected(t) == IF sameDay[t] THEN 2 ELSE 1

CheckedIn(t) ==
    /\ proc[t] = "posting" /\ Alert(t)
    /\ Cardinality(Accepted(t)) >= Expected(t)
    /\ End(t, "succeeded")
    /\ UNCHANGED <<world, pc, round, scheduled, signals, budget>>

(* The other flight was checked in: try again, up to MaxAttempts times.    *)
TryAgain(t) ==
    /\ proc[t] = "posting" /\ Alert(t)
    /\ Accepted(t) # {} /\ Cardinality(Accepted(t)) < Expected(t)
    /\ IF attempts[t] + 1 < MaxAttempts
       THEN /\ attempts' = [attempts EXCEPT ![t] = @ + 1]
            /\ UNCHANGED <<proc, sameDay, lock>>
       ELSE End(t, "failed")
    /\ UNCHANGED <<world, pc, round, scheduled, signals, budget>>

(* A request failed for good, or check-in is only possible at the airport. *)
PostFails(t) ==
    /\ proc[t] = "posting" /\ Alert(t)
    /\ End(t, "failed")
    /\ UNCHANGED <<world, pc, round, scheduled, signals, budget>>

(* An exception that the process does not handle.                          *)
CheckInCrashes(t) ==
    /\ proc[t] \in {"refreshing", "posting"} /\ Alert(t)
    /\ MayCrash
    /\ End(t, "crashed")
    /\ UNCHANGED <<world, pc, round, scheduled, signals, changes>>

-----------------------------------------------------------------------------
(* Ctrl-C: the terminal signals every process of the group.                *)

CtrlC ==
    /\ ~interrupted
    /\ interrupted' = TRUE
    /\ sigint' = {m \in Monitors : pc[m] \notin Finished}
                   \cup {t \in Tickets : proc[t] \in Live}
    /\ UNCHANGED <<world, lock, pc, round, scheduled, checkin, budget>>

(* Mutant: the lock is still held when it is waited for again.             *)
InterruptMonitorLocked(m) ==
    /\ m \in sigint
    /\ sigint' = sigint \ {m}
    /\ Goto(m, "interrupted")
    /\ UNCHANGED <<world, lock, round, scheduled, checkin, interrupted, budget>>

(* Mutant: the interrupt is handled inside the loop, which goes on.        *)
InterruptMonitorGoesOn(m) ==
    /\ m \in sigint
    /\ sigint' = sigint \ {m}
    /\ EndRound(m)
    /\ UNCHANGED <<world, scheduled, checkin, interrupted, budget>>

(* monitor(): leave the lock, wait for it again, stop every check-in.      *)
InterruptMonitor(m) ==
    /\ m \in sigint
    /\ sigint' = sigint \ {m}
    /\ Leave(m, "interrupted")
    /\ UNCHANGED <<world, scheduled, checkin, interrupted, budget>>

(* Mutant: check-ins are stopped without the lock.                         *)
StopWithoutLock(m) ==
    /\ pc[m] = "interrupted"
    /\ Goto(m, "stopping")
    /\ UNCHANGED <<world, lock, round, scheduled, checkin, signals, budget>>

LockToStop(m) ==
    /\ pc[m] = "interrupted"
    /\ lock = Nobody
    /\ lock' = m
    /\ Goto(m, "stopping")
    /\ UNCHANGED <<world, round, scheduled, checkin, signals, budget>>

StopCheckIn(t) ==
    /\ pc[Owner[t]] = "stopping"
    /\ t \in scheduled[Owner[t]] /\ proc[t] \in Live
    /\ proc' = [proc EXCEPT ![t] = "killed"]
    /\ sameDay' = [sameDay EXCEPT ![t] = FALSE]
    /\ attempts' = [attempts EXCEPT ![t] = 0]
    /\ sigint' = sigint \ {t}
    /\ UNCHANGED <<world, lock, pc, round, scheduled, interrupted, budget>>

(* Mutant: the monitor ends without stopping its check-ins.                *)
StopMonitoringOnly(m) ==
    /\ pc[m] = "stopping"
    /\ Leave(m, "stopped")
    /\ UNCHANGED <<world, scheduled, checkin, signals, budget>>

StopMonitoring(m) ==
    /\ pc[m] = "stopping"
    /\ \A t \in scheduled[m] : proc[t] \notin Live
    /\ Leave(m, "stopped")
    /\ UNCHANGED <<world, scheduled, checkin, signals, budget>>

InterruptCheckIn(t) ==
    /\ t \in sigint
    /\ sigint' = sigint \ {t}
    /\ End(t, "interrupted")
    /\ UNCHANGED <<world, pc, round, scheduled, interrupted, budget>>

-----------------------------------------------------------------------------
Check(m) ==
    \/ RefreshHeaders(m) \/ LoggedIn(m) \/ LoginFails(m) \/ LoginRejected(m)
    \/ GetFlights(m) \/ UpdateScheduledFlights(m) \/ CheckFlightFares(m)
    \/ MonitorCrashes(m)

HandleInterrupt(m) == InterruptMonitor(m) \/ StopMonitoring(m)

TakeLock(m) == StartRound(m) \/ LockToStop(m)

Proceed(t) ==
    \/ EndRefresh(t) \/ StartCheckIn(t) \/ CheckedIn(t) \/ TryAgain(t) \/ PostFails(t)
    \/ CheckInCrashes(t) \/ StopCheckIn(t) \/ InterruptCheckIn(t)

(* main has joined every process, and ends.                                *)
AllEnded ==
    /\ \A m \in Monitors : pc[m] \in Finished
    /\ \A t \in Tickets : proc[t] \notin Live

Terminated == AllEnded /\ UNCHANGED vars

Next ==
    \/ Tick \/ CtrlC \/ Terminated
    \/ \E m \in Monitors :
          TakeLock(m) \/ Check(m) \/ HandleInterrupt(m)
    \/ \E t \in Tickets : StartRefresh(t) \/ Proceed(t) \/ Change(t)

Spec == Init /\ [][Next]_vars
-----------------------------------------------------------------------------
(* Fairness: processes go on, requests return, time passes.  The lock is a *)
(* semaphore whose holders leave it for hours between two rounds, so that  *)
(* whoever waits for it gets it.                                           *)
Fairness ==
    /\ WF_vars(Tick)
    /\ \A m \in Monitors : /\ WF_vars(Check(m) \/ HandleInterrupt(m))
                          /\ SF_vars(TakeLock(m))
    /\ \A t \in Tickets : /\ WF_vars(Proceed(t))
                         /\ SF_vars(StartRefresh(t))

FairSpec == Spec /\ Fairness

-----------------------------------------------------------------------------
(* Properties.                                                             *)

(* The lock is never abandoned: its owner is alive and inside the section  *)
(* that releases it, although check-ins are killed by a signal that runs   *)
(* no handler, at any point of what they do.                               *)
LockIsHeld ==
    /\ \A m \in Monitors : lock = m <=> pc[m] \in Holding
    /\ \A t \in Tickets : lock = t <=> proc[t] = "refreshing"

(* A check-in that runs is among those its monitor knows, which can stop   *)
(* it, whatever was booked, cancelled or not found since it was started.   *)
NoStrayCheckIn ==
    \A t \in Tickets : proc[t] \in Live => t \in scheduled[Owner[t]]

(* A monitor that ends because it has nothing left to do, or because it    *)
(* was stopped, leaves no check-in behind.                                 *)
NothingLeftBehind ==
    \A m \in Monitors :
        pc[m] = "stopped" \/ (pc[m] = "exited" /\ scheduled[m] = {}) =>
            \A t \in Tickets : Owner[t] = m => proc[t] \notin Live

(* A check-in is given up only for a reason: Ctrl-C, or its flight was     *)
(* not among the bookings, had departed, or its reservation could not be   *)
(* retrieved.  A failed login or a timeout gives up none.                  *)
CancelledForCause ==
    [][\A t \in Tickets :
          proc[t] \in Live /\ proc'[t] = "killed" =>
              LET m == Owner[t]
              IN  \/ interrupted
                  \/ Departed(t)
                  \/ Conf[t] \in round[m].lost
                  \/ t \notin round[m].answer /\ changes > 0]_vars

(* After Ctrl-C no check-in is begun, goes on or is told to have succeeded *)
(* or failed, while the processes handle the signal one by one and their   *)
(* monitors wait for each other's lock to stop them.                       *)
CtrlCIsFinal ==
    [][interrupted => \A t \in Tickets :
          proc'[t] = proc[t] \/ proc'[t] \in {"interrupted", "killed"}]_vars

(* The user is told of a success only if Southwest checked the ticket in,  *)
(* unless it is no longer booked or has departed, or was posted before     *)
(* Southwest opened it and earlier flights of the reservation were checked *)
(* in instead: two for a ticket that was scheduled as a same-day flight,   *)
(* of which one may be the flight it follows, and one for any other.       *)
EarlierOpen(t) ==
    {s \in Accepted(t) : /\ Departure(s) < Departure(t)
                         /\ Departure(t) - Departure(s) < Day + Skew}

SuccessIsReal ==
    [][\A t \in Tickets :
          proc[t] # "succeeded" /\ proc'[t] = "succeeded" =>
              \/ t \in Accepted(t)
              \/ t \notin booked \/ Departed(t)
              \/ Cardinality(EarlierOpen(t)) >= (IF sameDay[t] THEN 2 ELSE 1)]_vars

(* Every flight that was scheduled is attempted, unless its process was    *)
(* stopped or died of an exception, however long others hold the lock.     *)
EveryCheckInEnds ==
    \A t \in Tickets : proc[t] \in Live ~> proc[t] \notin Live

(* Ctrl-C ends every process.                                              *)
CtrlCEnds == interrupted ~> AllEnded

(* The monitor of an account goes on for ever, unless it logs in once      *)
(* only, is rejected, crashes or is interrupted.                           *)
AccountsWatched ==
    \A m \in Accounts \ OneShot :
        []<>(pc[m] \in {"login"} \cup (Finished \ {"exited"}))
=============================================================================
