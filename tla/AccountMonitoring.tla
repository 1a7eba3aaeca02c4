------------------------- MODULE AccountMonitoring -------------------------
(***************************************************************************)
(* How the worker learns what there is to check in (src/worker/worker.py,  *)
(* src/worker/db.py): at every poll it logs into the accounts that are     *)
(* due, stores the reservations Southwest lists for them, deactivates      *)
(* those it no longer lists, stores the flights of each, and does the      *)
(* same for reservations entered by hand.  Meanwhile users add, switch     *)
(* and delete accounts and reservations in the frontend, which works on    *)
(* the same database; bookings and passwords change at Southwest; an       *)
(* exception may end an iteration of the loop, and a crash the worker.     *)
(*                                                                         *)
(* Every action is one commit, or one request with what follows it.        *)
(* A key is a row of table reservations: its holder, an account or Manual, *)
(* and its confirmation number.  A deleted account, or reservation entered *)
(* by hand, comes back with another id, so that its key is not used again. *)
(***************************************************************************)
EXTENDS Integers, FiniteSets

CONSTANTS
    Accounts,    \* ids of rows of table accounts
    Confs,       \* confirmation numbers
    Flights,     \* flights that may be booked
    Conf,        \* a flight's confirmation number
    Holder,      \* the account whose page lists a confirmation number
    Manual,      \* the holder of a reservation entered by hand
    Zoneless,    \* flights whose departure time zone is not known
    Entered,     \* bound: confirmation numbers that users enter by hand
    MaxFailures, \* rejected logins that deactivate an account
    MaxEdits,    \* bound: requests of users
    MaxChanges,  \* bound: changes at Southwest
    MaxFaults    \* bound: crashes, and exceptions of process_reservation

ASSUME ConstantsOK ==
    /\ Manual \notin Accounts
    /\ Accounts \cap ((Accounts \cup {Manual}) \X Confs) = {}
    /\ Conf \in [Flights -> Confs]
    /\ Holder \in [Confs -> Accounts]
    /\ Zoneless \subseteq Flights /\ Entered \subseteq Confs
    /\ MaxFailures \in Nat \ {0}
    /\ {MaxEdits, MaxChanges, MaxFaults} \subseteq Nat

VARIABLES
    accounts,    \* is_active of each account
    failures,    \* login_failure_count
    rows,        \* is_active of each reservation
    flights,     \* rows of table flights
    booked,      \* flights that Southwest has
    good,        \* accounts whose password Southwest accepts
    checked,     \* accounts and keys checked within their interval
    pc,          \* where the main loop is
    cur,         \* the account being processed, Manual, or none
    todo,        \* accounts the loop has still to process
    read,        \* their login_failure_count when they were listed
    listed,      \* the confirmation numbers its page lists
    answer,      \* those still to be stored
    trips,       \* history: what the account held at this login
    asking,      \* keys whose flights are still to be retrieved
    key,         \* the key being retrieved
    got,         \* its flights, still to be stored
    seen,        \* history: what the check of a checked account listed
    streak,      \* history: rejections since its last login, up to MaxFailures
    edits, changes, faults

Holders == Accounts \cup {Manual}
Keys    == Holders \X Confs
NoKey   == <<Manual, "none">>

database  == <<accounts, failures, rows, flights>>
southwest == <<booked, good>>
turn      == <<cur, todo, read>>
page      == <<listed, answer, trips>>
request   == <<asking, key, got>>
loop      == <<pc, turn, page, request>>
history   == <<seen, streak>>
budget    == <<edits, changes, faults>>
vars      == <<database, southwest, checked, loop, history, budget>>

Stored == {"active", "inactive"}

TypeOK ==
    /\ accounts \in [Accounts -> Stored \cup {"unused", "deleted"}]
    /\ failures \in [Accounts -> Nat]
    /\ rows \in [Keys -> Stored \cup {"none", "deleted"}]
    /\ flights \subseteq Keys \X Flights
    /\ booked \subseteq Flights /\ good \subseteq Accounts
    /\ checked \subseteq Accounts \cup Keys
    /\ pc \in {"idle", "accounts", "login", "deactivate", "upsert",
               "retrieve", "store", "schedule"}
    /\ cur \in Holders
    /\ todo \subseteq Accounts
    /\ read \in [Accounts -> Nat]
    /\ listed \subseteq Confs /\ answer \subseteq Confs /\ asking \subseteq Keys
    /\ key \in (IF pc = "store" THEN Keys ELSE {NoKey}) /\ got \subseteq Flights
    /\ trips \subseteq Confs /\ seen \in [Accounts -> SUBSET Confs]
    /\ streak \in [Accounts -> 0..MaxFailures]
    /\ edits \in 0..MaxEdits /\ changes \in 0..MaxChanges
    /\ faults \in 0..MaxFaults

Init ==
    /\ accounts \in [Accounts -> {"unused", "active"}]
    /\ failures = [a \in Accounts |-> 0]
    /\ rows \in {r \in [Keys -> {"none", "active"}] :
                   \A k \in Keys \ ({Manual} \X Entered) : r[k] = "none"}
    /\ flights = {}
    /\ booked \in SUBSET Flights /\ good \in SUBSET Accounts
    /\ checked = {}
    /\ pc = "idle" /\ cur = Manual
    /\ todo = {} /\ read = [a \in Accounts |-> 0]
    /\ listed = {} /\ answer = {} /\ asking = {} /\ key = NoKey /\ got = {}
    /\ trips = {} /\ seen = [a \in Accounts |-> {}]
    /\ streak = [a \in Accounts |-> 0]
    /\ edits = 0 /\ changes = 0 /\ faults = 0

-----------------------------------------------------------------------------
(* Users: the routes of the frontend.                                      *)

MayEdit == edits < MaxEdits /\ edits' = edits + 1

AddAccount(a) ==
    /\ accounts[a] = "unused" /\ MayEdit
    /\ accounts' = [accounts EXCEPT ![a] = "active"]
    /\ UNCHANGED <<failures, rows, flights, southwest, checked, loop,
                   history, changes, faults>>

(* PATCH with is_active: the failure count stays as it is.                 *)
SwitchAccount(a) ==
    /\ accounts[a] \in Stored /\ MayEdit
    /\ \E s \in Stored \ {accounts[a]} : accounts' = [accounts EXCEPT ![a] = s]
    /\ UNCHANGED <<failures, rows, flights, southwest, checked, loop,
                   history, changes, faults>>

(* Reservations and flights go with what they reference: ON DELETE CASCADE *)
Cascade(ks) ==
    /\ rows' = [k \in Keys |->
          IF k \in ks /\ rows[k] \in Stored THEN "deleted" ELSE rows[k]]
    /\ flights' = {r \in flights : r[1] \notin ks}

(* Mutant: without foreign keys, the account goes alone.                   *)
DeleteAccountAlone(a) ==
    /\ accounts[a] \in Stored /\ MayEdit
    /\ accounts' = [accounts EXCEPT ![a] = "deleted"]
    /\ UNCHANGED <<failures, rows, flights, southwest, checked, loop,
                   history, changes, faults>>

DeleteAccount(a) ==
    /\ accounts[a] \in Stored /\ MayEdit
    /\ accounts' = [accounts EXCEPT ![a] = "deleted"]
    /\ Cascade({a} \X Confs)
    /\ UNCHANGED <<failures, southwest, checked, loop, history, changes,
                   faults>>

AddReservation(c) ==
    /\ rows[<<Manual, c>>] = "none" /\ MayEdit
    /\ rows' = [rows EXCEPT ![<<Manual, c>>] = "active"]
    /\ UNCHANGED <<accounts, failures, flights, southwest, checked, loop,
                   history, changes, faults>>

DeleteReservation(k) ==
    /\ rows[k] \in Stored /\ MayEdit
    /\ Cascade({k})
    /\ UNCHANGED <<accounts, failures, southwest, checked, loop, history,
                   changes, faults>>

-----------------------------------------------------------------------------
(* Southwest, and the passing of an interval.                              *)

Booked(c) == {f \in booked : Conf[f] = c}

(* The upcoming trips that the page of an account lists.                   *)
Held(a) == {Conf[f] : f \in {g \in booked : Holder[Conf[g]] = a}}

MayChange == changes < MaxChanges /\ changes' = changes + 1

(* A flight is booked, or is cancelled or departs.                         *)
ChangeBooking(f) ==
    /\ MayChange
    /\ booked' = (booked \ {f}) \cup ({f} \ booked)
    /\ UNCHANGED <<database, good, checked, loop, history, edits, faults>>

ChangePassword(a) ==
    /\ MayChange
    /\ good' = (good \ {a}) \cup ({a} \ good)
    /\ UNCHANGED <<database, booked, checked, loop, history, edits, faults>>

(* An interval that ends during an iteration counts from the next one.     *)
Expire(x) ==
    /\ pc = "idle" /\ x \in checked
    /\ checked' = checked \ {x}
    /\ seen' = [a \in Accounts |-> IF a = x THEN {} ELSE seen[a]]
    /\ UNCHANGED <<database, southwest, loop, streak, budget>>

-----------------------------------------------------------------------------
(* The main loop: process_accounts.                                        *)

Goto(p) == pc' = p

(* An iteration ends; it keeps nothing but the times of its checks.        *)
ClearLoop ==
    /\ Goto("idle") /\ cur' = Manual
    /\ todo' = {} /\ read' = [a \in Accounts |-> 0]
    /\ listed' = {} /\ answer' = {} /\ trips' = {}
    /\ asking' = {} /\ key' = NoKey /\ got' = {}

(* Mutant: an account that was rejected is not tried again.                *)
PollWithoutRejected ==
    /\ pc = "idle"
    /\ Goto("accounts")
    /\ todo' = {a \in Accounts : accounts[a] = "active" /\ failures[a] = 0} \ checked
    /\ read' = [a \in Accounts |-> 0]
    /\ UNCHANGED <<database, southwest, checked, cur, page, request, history,
                   budget>>

(* get_active_accounts, without those whose interval has not passed.       *)
Poll ==
    /\ pc = "idle"
    /\ Goto("accounts")
    /\ todo' = {a \in Accounts : accounts[a] = "active"} \ checked
    /\ read' = [a \in Accounts |-> IF a \in todo' THEN failures[a] ELSE 0]
    /\ UNCHANGED <<database, southwest, checked, cur, page, request, history,
                   budget>>

Login(a) ==
    /\ pc = "accounts" /\ a \in todo
    /\ Goto("login") /\ cur' = a
    /\ todo' = todo \ {a}
    /\ UNCHANGED <<database, southwest, checked, read, page, request,
                   history, budget>>

(* The login works.  A request for the trips that failed looks like a page *)
(* without trips.                                                          *)
Lists(a) == {Held(a), {}}

LoggedIn(a, list) ==
    /\ pc = "login" /\ cur = a /\ a \in good
    /\ failures' = [failures EXCEPT ![a] = 0]
    /\ listed' = list
    /\ streak' = [streak EXCEPT ![a] = 0]
    /\ trips' = Held(a)
    /\ Goto("upsert") /\ answer' = list
    /\ UNCHANGED <<accounts, rows, flights, southwest, checked, turn,
                   request, seen, budget>>

(* Mutant: the count survives only in the worker.                          *)
LoginRejectedUnstored(a) ==
    /\ pc = "login" /\ cur = a /\ a \notin good
    /\ streak' = [streak EXCEPT ![a] = IF @ < MaxFailures THEN @ + 1 ELSE @]
    /\ Goto(IF read[a] + 1 >= MaxFailures THEN "deactivate" ELSE "accounts")
    /\ UNCHANGED <<database, southwest, checked, turn, page, request,
                   seen, budget>>

(* Southwest's code 400518024, invalid credentials.                        *)
LoginRejected(a) ==
    /\ pc = "login" /\ cur = a /\ a \notin good
    /\ failures' = [failures EXCEPT ![a] = read[a] + 1]
    /\ streak' = [streak EXCEPT ![a] = IF @ < MaxFailures THEN @ + 1 ELSE @]
    /\ Goto(IF read[a] + 1 >= MaxFailures THEN "deactivate" ELSE "accounts")
    /\ UNCHANGED <<accounts, rows, flights, southwest, checked, turn, page,
                   request, seen, budget>>

(* Mutant: a login that fails counts as a rejection.                       *)
LoginFailsCounted(a) ==
    /\ pc = "login" /\ cur = a
    /\ failures' = [failures EXCEPT ![a] = read[a] + 1]
    /\ Goto(IF read[a] + 1 >= MaxFailures THEN "deactivate" ELSE "accounts")
    /\ UNCHANGED <<accounts, rows, flights, southwest, checked, turn, page,
                   request, history, budget>>

(* A timeout, another error of Southwest's, or any exception.              *)
LoginFails(a) ==
    /\ pc = "login" /\ cur = a
    /\ Goto("accounts")
    /\ UNCHANGED <<database, southwest, checked, turn, page, request,
                   history, budget>>

DeactivateAccount ==
    /\ pc = "deactivate"
    /\ accounts' = [accounts EXCEPT ![cur] = IF @ \in Stored THEN "inactive" ELSE @]
    /\ Goto("accounts")
    /\ UNCHANGED <<failures, rows, flights, southwest, checked, turn, page,
                   request, history, budget>>

(* upsert_reservation.  Of an account that was deleted during the login it *)
(* violates a foreign key, which ends the iteration.                       *)
UpsertReservation(c) ==
    /\ pc = "upsert" /\ c \in answer
    /\ IF accounts[cur] \in Stored
       THEN /\ rows' = [rows EXCEPT ![<<cur, c>>] = "active"]
            /\ answer' = answer \ {c} /\ UNCHANGED <<listed, trips>>
            /\ UNCHANGED <<pc, turn, request>>
       ELSE UNCHANGED rows /\ ClearLoop
    /\ UNCHANGED <<accounts, failures, flights, southwest, checked, history,
                   budget>>

Stale(k) == k[1] = cur /\ k[2] \notin listed /\ rows[k] \in Stored

(* Mutant: an empty answer deactivates everything.                         *)
DeactivateAll ==
    /\ pc = "upsert" /\ answer = {}
    /\ rows' = [k \in Keys |-> IF Stale(k) THEN "inactive" ELSE rows[k]]
    /\ asking' = {k \in Keys : k[1] = cur /\ rows'[k] = "active"}
    /\ Goto("retrieve")
    /\ UNCHANGED <<accounts, failures, flights, southwest, checked, turn,
                   page, key, got, history, budget>>

(* Mutant: what is no longer listed is kept.                               *)
DeactivateNone ==
    /\ pc = "upsert" /\ answer = {}
    /\ asking' = {k \in Keys : k[1] = cur /\ rows[k] = "active"}
    /\ Goto("retrieve")
    /\ UNCHANGED <<database, southwest, checked, turn, page, key, got,
                   history, budget>>

(* deactivate_stale_reservations, which an empty answer skips; then the    *)
(* active ones are selected.                                               *)
DeactivateStale ==
    /\ pc = "upsert" /\ answer = {}
    /\ rows' = [k \in Keys |->
          IF listed # {} /\ Stale(k) THEN "inactive" ELSE rows[k]]
    /\ asking' = {k \in Keys : k[1] = cur /\ rows'[k] = "active"}
    /\ Goto("retrieve")
    /\ UNCHANGED <<accounts, failures, flights, southwest, checked, turn,
                   page, key, got, history, budget>>

EndAccount ==
    /\ pc = "retrieve" /\ cur \in Accounts /\ asking = {}
    /\ checked' = checked \cup {cur}
    /\ seen' = [seen EXCEPT ![cur] = listed]
    /\ Goto("accounts") /\ listed' = {} /\ trips' = {}
    /\ UNCHANGED <<database, southwest, turn, answer, request, streak, budget>>

-----------------------------------------------------------------------------
(* process_manual_reservations and process_reservation.                    *)

EndAccounts ==
    /\ pc = "accounts" /\ todo = {}
    /\ Goto("retrieve") /\ cur' = Manual
    /\ asking' = {k \in Keys : k[1] = Manual /\ rows[k] = "active"} \ checked
    /\ UNCHANGED <<database, southwest, checked, todo, read, page, key, got,
                   history, budget>>

(* A key is done with; one entered by hand is not due for an interval.     *)
Done(k) ==
    /\ Goto("retrieve")
    /\ asking' = asking \ {k}
    /\ checked' = IF cur = Manual THEN checked \cup {k} ELSE checked

(* A flight without a time zone is skipped.                                *)
Retrieved(k) ==
    /\ pc = "retrieve" /\ k \in asking
    /\ Booked(k[2]) # {}
    /\ Goto("store") /\ key' = k
    /\ got' = Booked(k[2]) \ Zoneless
    /\ UNCHANGED <<database, southwest, checked, turn, page, asking, history,
                   budget>>

(* Mutant: a RequestError is not handled.                                  *)
RetrieveFailsForAll(k) ==
    /\ pc = "retrieve" /\ k \in asking
    /\ ClearLoop
    /\ UNCHANGED <<database, southwest, checked, history, budget>>

(* A RequestError is logged, as it is for a cancelled reservation.         *)
RetrieveFails(k) ==
    /\ pc = "retrieve" /\ k \in asking
    /\ Done(k)
    /\ UNCHANGED <<database, southwest, turn, page, key, got, history,
                   budget>>

(* Any other exception, or an answer that is not as expected, ends the     *)
(* iteration.                                                              *)
RetrieveRaises(k) ==
    /\ pc = "retrieve" /\ k \in asking
    /\ faults < MaxFaults /\ faults' = faults + 1
    /\ ClearLoop
    /\ UNCHANGED <<database, southwest, checked, history, edits, changes>>

(* Mutant: the connection of the worker does not enforce foreign keys.     *)
UpsertFlightUnchecked(f) ==
    /\ pc = "store" /\ f \in got
    /\ flights' = flights \cup {<<key, f>>}
    /\ got' = got \ {f}
    /\ UNCHANGED <<accounts, failures, rows, southwest, checked, pc, turn, page,
                   asking, key, history, budget>>

(* upsert_flight; of a deleted reservation it violates a foreign key.      *)
UpsertFlight(f) ==
    /\ pc = "store" /\ f \in got
    /\ IF rows[key] \in Stored
       THEN /\ flights' = flights \cup {<<key, f>>}
            /\ got' = got \ {f}
            /\ UNCHANGED <<pc, turn, page, asking, key>>
       ELSE UNCHANGED flights /\ ClearLoop
    /\ UNCHANGED <<accounts, failures, rows, southwest, checked, history,
                   budget>>

EndReservation ==
    /\ pc = "store" /\ got = {}
    /\ Done(key) /\ key' = NoKey
    /\ UNCHANGED <<database, southwest, turn, page, got, history, budget>>

EndReservations ==
    /\ pc = "retrieve" /\ cur = Manual /\ asking = {}
    /\ Goto("schedule")
    /\ UNCHANGED <<database, southwest, checked, turn, page, request,
                   history, budget>>

(* schedule_pending_flights, and the rest of the iteration.                *)
Schedule ==
    /\ pc = "schedule"
    /\ ClearLoop
    /\ UNCHANGED <<database, southwest, checked, history, budget>>

(* The worker crashes and is started again.                                *)
Restart ==
    /\ faults < MaxFaults /\ faults' = faults + 1
    /\ ClearLoop
    /\ checked' = {} /\ seen' = [a \in Accounts |-> {}]
    /\ UNCHANGED <<database, southwest, streak, edits, changes>>

-----------------------------------------------------------------------------
ProcessAccounts ==
    \/ DeactivateAccount \/ DeactivateStale \/ EndAccount \/ EndAccounts
    \/ \E a \in Accounts :
          \/ Login(a) \/ LoginRejected(a) \/ LoginFails(a)
          \/ \E list \in Lists(a) : LoggedIn(a, list)
    \/ \E c \in Confs : UpsertReservation(c)

ProcessReservations ==
    \/ EndReservation \/ EndReservations
    \/ \E k \in Keys : Retrieved(k) \/ RetrieveFails(k) \/ RetrieveRaises(k)
    \/ \E f \in Flights : UpsertFlight(f)

MainLoop == Poll \/ ProcessAccounts \/ ProcessReservations \/ Schedule

Users ==
    \/ \E a \in Accounts : AddAccount(a) \/ SwitchAccount(a) \/ DeleteAccount(a)
    \/ \E c \in Entered : AddReservation(c)
    \/ \E k \in Keys : DeleteReservation(k)

Southwest ==
    \/ \E f \in Flights : ChangeBooking(f)
    \/ \E a \in Accounts : ChangePassword(a)

Next ==
    \/ MainLoop \/ Restart \/ Users \/ Southwest
    \/ \E x \in Accounts \cup Keys : Expire(x)

Spec == Init /\ [][Next]_vars
-----------------------------------------------------------------------------
(* Fairness: the loop goes on, and an account's interval passes.           *)
(* Southwest answers its login, and requests for its reservations, again   *)
(* and again, whatever else it answers in between.                         *)
Fairness ==
    /\ WF_vars(MainLoop)
    /\ \A a \in Accounts :
          /\ SF_vars(Expire(a))
          /\ SF_vars(LoggedIn(a, Held(a))) /\ SF_vars(LoginRejected(a))
    /\ \A k \in Accounts \X Confs : SF_vars(Retrieved(k))

FairSpec == Spec /\ Fairness

-----------------------------------------------------------------------------
(* Properties.                                                             *)

(* No row outlives what it references, although the worker stores answers  *)
(* minutes after it read the row it asked for.                             *)
NoOrphans ==
    /\ \A k \in Keys :
          rows[k] \in Stored /\ k[1] # Manual => accounts[k[1]] \in Stored
    /\ \A r \in flights : rows[r[1]] \in Stored

(* After a check of an account and until the next, its active reservations *)
(* are those that its page listed, except that users may have deleted      *)
(* some, and that an account without trips keeps what it had.              *)
InSync ==
    \A a \in checked \cap Accounts :
        LET with(S) == {c \in Confs : rows[<<a, c>>] \in S}
        IN  /\ seen[a] \subseteq with({"active", "deleted"})
            /\ seen[a] = {} \/ with({"active"}) \subseteq seen[a]

(* A reservation is deactivated only if its account, when it was checked,  *)
(* did not hold it, even when the request for the trips failed.            *)
DeactivatesOnlyGone ==
    [][\A a \in Accounts, c \in Confs :
          rows[<<a, c>>] = "active" /\ rows'[<<a, c>>] = "inactive" =>
              c \notin trips]_vars

(* The worker deactivates an account only after three rejections with no   *)
(* successful login between them, however it was restarted and whatever    *)
(* the users did to the account since it read its row.                     *)
DeactivatedForCause ==
    [][\A a \in Accounts :
          accounts[a] = "active" /\ accounts'[a] = "inactive" /\ edits' = edits =>
              streak[a] >= MaxFailures]_vars

(* An account whose password no longer works is switched off in the end.   *)
RejectedIsSwitchedOff ==
    \A a \in Accounts :
        accounts[a] = "active" /\ a \notin good ~>
            accounts[a] # "active" \/ a \in good

(* Every flight on the page of an account that is active gets a row, from  *)
(* which its check-in is scheduled.                                        *)
BookedIsFound ==
    \A f \in Flights \ Zoneless :
        LET a == Holder[Conf[f]]
        IN  accounts[a] = "active" /\ a \in good /\ f \in booked ~>
                \/ <<<<a, Conf[f]>>, f>> \in flights
                \/ accounts[a] # "active" \/ a \notin good \/ f \notin booked

(* However logins and requests fail, and whatever the users delete under   *)
(* its feet, the loop gets to scheduling the check-ins again and again.    *)
SchedulesAgain == []<>(pc = "schedule")

-----------------------------------------------------------------------------
(* The tables change as AccountPromise says.  The answer at hand is the    *)
(* account's page while it is stored (all that the account held, also when *)
(* the list of trips could not be read), then the flights of a key.        *)
Asked == CASE pc = "upsert" -> cur [] pc = "store" -> key [] OTHER -> Manual
Has   == CASE pc = "upsert" -> trips [] pc = "store" -> got [] OTHER -> {}

Promise == INSTANCE AccountPromise WITH asked <- Asked, has <- Has

(* Users, deletions under the loop's feet, failed requests, exceptions and *)
(* restarts do not make the worker store, deactivate or switch off what    *)
(* Southwest's last answer does not warrant.                               *)
KeepsPromise == Promise!Spec
=============================================================================
