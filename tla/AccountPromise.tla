--------------------------- MODULE AccountPromise ---------------------------
(***************************************************************************)
(* What the retrieval of accounts and reservations promises of the tables, *)
(* without a main loop, a poll, counts kept in rows, requests that fail or *)
(* a worker that dies: a table changes only by a request of a user or for  *)
(* an answer of Southwest's.  An answer may be forgotten at any time, but  *)
(* what is stored of it is what Southwest had when it was asked, and it is *)
(* stored only below rows that are still there.  AccountMonitoring         *)
(* implements it.                                                          *)
(***************************************************************************)
EXTENDS Integers

CONSTANTS Accounts, Confs, Flights, Conf, Holder, Manual, Zoneless,
          MaxFailures

VARIABLES
    accounts, rows, flights,  \* the tables
    booked, good,             \* Southwest's bookings and passwords
    streak,   \* rejections of an account in a row, up to MaxFailures
    asked,    \* the account or key of the answer at hand, Manual if none is
    has       \* the confirmation numbers or flights the answer still has

database == <<accounts, rows, flights>>
answer   == <<asked, has>>
vars     == <<database, booked, good, streak, answer>>

Keys   == (Accounts \cup {Manual}) \X Confs
Stored == {"active", "inactive"}

Init ==
    /\ accounts \in [Accounts -> {"unused", "active"}]
    /\ rows \in {r \in [Keys -> {"none", "active"}] :
                   \A k \in Keys : r[k] = "active" => k[1] = Manual}
    /\ flights = {}
    /\ booked \in SUBSET Flights /\ good \in SUBSET Accounts
    /\ streak = [a \in Accounts |-> 0]
    /\ asked = Manual /\ has = {}

-----------------------------------------------------------------------------
(* Users.                                                                  *)

SetAccount(a, from, to) ==
    /\ accounts[a] = from
    /\ accounts' = [accounts EXCEPT ![a] = to]

AddOrSwitch(a) ==
    /\ \/ SetAccount(a, "unused", "active")
       \/ SetAccount(a, "active", "inactive")
       \/ SetAccount(a, "inactive", "active")
    /\ UNCHANGED <<rows, flights, booked, good, streak, answer>>

(* A row goes with the rows below it.                                      *)
Without(ks) ==
    /\ rows' = [k \in Keys |->
          IF k \in ks /\ rows[k] \in Stored THEN "deleted" ELSE rows[k]]
    /\ flights' = {r \in flights : r[1] \notin ks}
    /\ UNCHANGED <<booked, good, streak, answer>>

DeleteAccount(a) ==
    /\ accounts[a] \in Stored
    /\ accounts' = [accounts EXCEPT ![a] = "deleted"]
    /\ Without({a} \X Confs)

DeleteReservation(k) ==
    /\ rows[k] \in Stored
    /\ Without({k})
    /\ UNCHANGED accounts

Enter(c) ==
    /\ rows[<<Manual, c>>] = "none"
    /\ rows' = [rows EXCEPT ![<<Manual, c>>] = "active"]
    /\ UNCHANGED <<accounts, flights, booked, good, streak, answer>>

-----------------------------------------------------------------------------
(* Southwest.                                                              *)

Booked(c) == {f \in booked : Conf[f] = c}
Held(a)   == {Conf[f] : f \in {g \in booked : Holder[Conf[g]] = a}}

Change ==
    /\ \/ \E f \in Flights : booked' \in {booked \cup {f}, booked \ {f}} /\ UNCHANGED good
       \/ \E a \in Accounts : good' \in {good \cup {a}, good \ {a}} /\ UNCHANGED booked
    /\ UNCHANGED <<database, streak, answer>>

-----------------------------------------------------------------------------
(* The worker.                                                             *)

(* An account's page is read, which ends its rejections in a row ...       *)
Look(a) ==
    /\ a \in good
    /\ asked' = a /\ has' = Held(a)
    /\ streak' = [streak EXCEPT ![a] = 0]
    /\ UNCHANGED <<database, booked, good>>

Reject(a) ==
    /\ a \notin good
    /\ streak' = [streak EXCEPT ![a] = IF @ < MaxFailures THEN @ + 1 ELSE @]
    /\ UNCHANGED <<database, booked, good, answer>>

(* ... which alone may switch it off.                                      *)
SwitchOff(a) ==
    /\ streak[a] >= MaxFailures
    /\ SetAccount(a, "active", "inactive")
    /\ UNCHANGED <<rows, flights, booked, good, streak, answer>>

Store(c) ==
    /\ asked \in Accounts /\ c \in has
    /\ accounts[asked] \in Stored
    /\ rows' = [rows EXCEPT ![<<asked, c>>] = "active"]
    /\ UNCHANGED <<accounts, flights, booked, good, streak, answer>>

(* Once all of a page is stored, what is not on it is deactivated.  A page *)
(* without trips deactivates nothing: it may not have been read.           *)
DeactivateOthers ==
    /\ asked \in Accounts /\ has # {}
    /\ \A c \in has : rows[<<asked, c>>] \in {"active", "deleted"}
    /\ rows' = [k \in Keys |->
          IF k[1] = asked /\ k[2] \notin has /\ rows[k] \in Stored
          THEN "inactive" ELSE rows[k]]
    /\ asked' = Manual /\ has' = {}
    /\ UNCHANGED <<accounts, flights, booked, good, streak>>

(* Southwest is asked for the flights of a key that is or was on file.     *)
Ask(k) ==
    /\ rows[k] # "none"
    /\ asked' = k /\ has' = Booked(k[2]) \ Zoneless
    /\ UNCHANGED <<database, booked, good, streak>>

StoreFlight(f) ==
    /\ asked \in Keys /\ f \in has
    /\ rows[asked] \in Stored
    /\ flights' = flights \cup {<<asked, f>>}
    /\ has' = has \ {f}
    /\ UNCHANGED <<accounts, rows, booked, good, streak, asked>>

Forget ==
    /\ asked' = Manual /\ has' = {}
    /\ UNCHANGED <<database, booked, good, streak>>

-----------------------------------------------------------------------------
Next ==
    \/ \E a \in Accounts :
          AddOrSwitch(a) \/ DeleteAccount(a) \/ Look(a) \/ Reject(a) \/ SwitchOff(a)
    \/ \E k \in Keys : DeleteReservation(k) \/ Ask(k)
    \/ \E c \in Confs : Enter(c) \/ Store(c)
    \/ \E f \in Flights : StoreFlight(f)
    \/ Change \/ DeactivateOthers \/ Forget

Spec == Init /\ [][Next]_vars
=============================================================================
