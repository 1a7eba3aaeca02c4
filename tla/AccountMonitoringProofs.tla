---------------------- MODULE AccountMonitoringProofs ----------------------
(* Proofs about AccountMonitoring: types, foreign keys, what is known of a *)
(* checked account, and what deactivates reservations and accounts, for    *)
(* any accounts, reservations, flights, edits and faults.                  *)
EXTENDS AccountMonitoring, TLAPS

-----------------------------------------------------------------------------
(* The values a step gives to the variables of the loop.                   *)
LEMMA KeyTypes ==
    /\ \A k \in Keys : k[1] \in Holders /\ k[2] \in Confs /\ k = <<k[1], k[2]>>
    /\ \A a \in Holders, c \in Confs : <<a, c>> \in Keys
  BY DEF Keys

LEMMA ClearLoopTypes ==
    ASSUME ClearLoop
    PROVE  /\ pc' = "idle" /\ cur' \in Holders /\ todo' \subseteq Accounts
           /\ read' \in [Accounts -> Nat]
           /\ listed' \subseteq Confs /\ answer' \subseteq Confs
           /\ trips' \subseteq Confs /\ asking' \subseteq Keys
           /\ key' = NoKey /\ got' \subseteq Flights
  BY DEF ClearLoop, Goto, Holders

(* Types: every row, count and place of the loop is of its kind, through   *)
(* edits, exceptions and restarts.                                         *)
THEOREM TypeCorrect == Spec => []TypeOK
<1>1. Init => TypeOK
  BY ConstantsOK DEF Init, TypeOK, Holders, Stored, Keys
<1>2. TypeOK /\ [Next]_vars => TypeOK'
  <2>. SUFFICES ASSUME TypeOK, [Next]_vars PROVE TypeOK'
    OBVIOUS
  <2>. USE DEF TypeOK, Stored, database, southwest, turn, page, request, loop,
               history, budget, Goto, MayEdit, MayChange
  <2>1. CASE Poll
    BY <2>1 DEF Poll
  <2>2. CASE DeactivateAccount
    BY <2>2 DEF DeactivateAccount
  <2>3. CASE DeactivateStale
    <3>1. rows' \in [Keys -> {"active", "inactive", "none", "deleted"}]
      BY <2>3 DEF DeactivateStale
    <3>2. asking' \subseteq Keys
      BY <2>3 DEF DeactivateStale
    <3>. QED
      BY <2>3, <3>1, <3>2 DEF DeactivateStale
  <2>4. CASE EndAccount
    BY <2>4 DEF EndAccount
  <2>5. CASE EndAccounts
    BY <2>5 DEF EndAccounts, Holders
  <2>6. ASSUME NEW a \in Accounts, Login(a) PROVE TypeOK'
    BY <2>6 DEF Login, Holders
  <2>7. ASSUME NEW a \in Accounts, LoginRejected(a) PROVE TypeOK'
    <3>1. failures' \in [Accounts -> Nat]
      BY <2>7 DEF LoginRejected
    <3>2. streak' \in [Accounts -> 0..MaxFailures]
      BY <2>7, ConstantsOK DEF LoginRejected
    <3>. QED
      BY <2>7, <3>1, <3>2 DEF LoginRejected
  <2>8. ASSUME NEW a \in Accounts, LoginFails(a) PROVE TypeOK'
    BY <2>8 DEF LoginFails
  <2>9. ASSUME NEW a \in Accounts, NEW list \in Lists(a), LoggedIn(a, list)
        PROVE TypeOK'
    <3>1. Held(a) \subseteq Confs /\ list \subseteq Confs
      BY <2>9, ConstantsOK DEF Lists, Held
    <3>2. streak' \in [Accounts -> 0..MaxFailures]
      BY <2>9, ConstantsOK DEF LoggedIn
    <3>. QED
      BY <2>9, <3>1, <3>2 DEF LoggedIn
  <2>10. ASSUME NEW c \in Confs, UpsertReservation(c) PROVE TypeOK'
    <3>1. CASE accounts[cur] \in Stored
      <4>1. rows' = [rows EXCEPT ![<<cur, c>>] = "active"]
        BY <2>10, <3>1 DEF UpsertReservation
      <4>2. rows' \in [Keys -> {"active", "inactive", "none", "deleted"}]
        BY <4>1
      <4>. QED
        BY <2>10, <3>1, <4>2 DEF UpsertReservation
    <3>2. CASE accounts[cur] \notin Stored
      BY <2>10, <3>2, ClearLoopTypes DEF UpsertReservation
    <3>. QED
      BY <3>1, <3>2
  <2>11. CASE EndReservation
    <3>1. checked' \subseteq Accounts \cup Keys
      BY <2>11 DEF EndReservation, Done
    <3>2. asking' \subseteq Keys
      BY <2>11 DEF EndReservation, Done
    <3>. QED
      BY <2>11, <3>1, <3>2 DEF EndReservation, Done
  <2>12. CASE EndReservations
    BY <2>12 DEF EndReservations
  <2>13. ASSUME NEW k \in Keys, Retrieved(k) PROVE TypeOK'
    BY <2>13 DEF Retrieved, Booked
  <2>14. ASSUME NEW k \in Keys, RetrieveFails(k) PROVE TypeOK'
    BY <2>14 DEF RetrieveFails, Done
  <2>15. ASSUME NEW k \in Keys, RetrieveRaises(k) PROVE TypeOK'
    BY <2>15, ClearLoopTypes, ConstantsOK DEF RetrieveRaises
  <2>16. ASSUME NEW f \in Flights, UpsertFlight(f) PROVE TypeOK'
    <3>1. CASE rows[key] \in Stored
      BY <2>16, <3>1 DEF UpsertFlight
    <3>2. CASE rows[key] \notin Stored
      BY <2>16, <3>2, ClearLoopTypes DEF UpsertFlight
    <3>. QED
      BY <3>1, <3>2
  <2>17. CASE Schedule
    BY <2>17, ClearLoopTypes DEF Schedule
  <2>18. CASE Restart
    BY <2>18, ClearLoopTypes, ConstantsOK DEF Restart
  <2>19. ASSUME NEW a \in Accounts, AddAccount(a) PROVE TypeOK'
    BY <2>19, ConstantsOK DEF AddAccount
  <2>20. ASSUME NEW a \in Accounts, SwitchAccount(a) PROVE TypeOK'
    BY <2>20, ConstantsOK DEF SwitchAccount
  <2>21. ASSUME NEW a \in Accounts, DeleteAccount(a) PROVE TypeOK'
    BY <2>21, ConstantsOK DEF DeleteAccount, Cascade
  <2>22. ASSUME NEW c \in Confs, AddReservation(c) PROVE TypeOK'
    <3>1. rows' = [rows EXCEPT ![<<Manual, c>>] = "active"]
      BY <2>22 DEF AddReservation
    <3>2. rows' \in [Keys -> {"active", "inactive", "none", "deleted"}]
      BY <3>1
    <3>. QED
      BY <2>22, <3>2, ConstantsOK DEF AddReservation
  <2>23. ASSUME NEW k \in Keys, DeleteReservation(k) PROVE TypeOK'
    BY <2>23, ConstantsOK DEF DeleteReservation, Cascade
  <2>24. ASSUME NEW f \in Flights, ChangeBooking(f) PROVE TypeOK'
    BY <2>24, ConstantsOK DEF ChangeBooking
  <2>25. ASSUME NEW a \in Accounts, ChangePassword(a) PROVE TypeOK'
    BY <2>25, ConstantsOK DEF ChangePassword
  <2>26. ASSUME NEW x \in Accounts \cup Keys, Expire(x) PROVE TypeOK'
    BY <2>26 DEF Expire
  <2>27. CASE UNCHANGED vars
    BY <2>27 DEF vars
  <2>. QED
    BY <2>1, <2>2, <2>3, <2>4, <2>5, <2>6, <2>7, <2>8, <2>9, <2>10, <2>11,
       <2>12, <2>13, <2>14, <2>15, <2>16, <2>17, <2>18, <2>19, <2>20, <2>21,
       <2>22, <2>23, <2>24, <2>25, <2>26, <2>27, ConstantsOK
    DEF Next, MainLoop, ProcessAccounts, ProcessReservations, Users, Southwest
<1>. QED
  BY <1>1, <1>2, PTL DEF Spec

-----------------------------------------------------------------------------
(* The steps that touch the tables, and those that touch what the worker   *)
(* knows of rejections.                                                    *)
LEMMA TableSteps ==
    ASSUME [Next]_vars
    PROVE  \/ UNCHANGED <<accounts, rows, flights>>
           \/ DeactivateAccount \/ DeactivateStale
           \/ \E c \in Confs : UpsertReservation(c) \/ AddReservation(c)
           \/ \E f \in Flights : UpsertFlight(f)
           \/ \E a \in Accounts :
                 AddAccount(a) \/ SwitchAccount(a) \/ DeleteAccount(a)
           \/ \E k \in Keys : DeleteReservation(k)
<1>1. MainLoop \/ Restart =>
          \/ UNCHANGED <<accounts, rows, flights>>
          \/ DeactivateAccount \/ DeactivateStale
          \/ \E c \in Confs : UpsertReservation(c)
          \/ \E f \in Flights : UpsertFlight(f)
  BY DEF MainLoop, ProcessAccounts, ProcessReservations, database, Poll,
         EndAccount, EndAccounts, Login, LoginRejected, LoginFails, LoggedIn,
         EndReservation, EndReservations, Retrieved, RetrieveFails,
         RetrieveRaises, Schedule, Restart
<1>2. Southwest \/ (\E x \in Accounts \cup Keys : Expire(x)) \/ UNCHANGED vars =>
          UNCHANGED <<accounts, rows, flights>>
  BY DEF Southwest, ChangeBooking, ChangePassword, Expire, database, vars
<1>. QED
  BY <1>1, <1>2, ConstantsOK DEF Next, Users

(* Foreign keys: the worker inserts by ids that it read minutes ago, but   *)
(* only below rows that are there, and a deletion takes the rows below     *)
(* with it (src/worker/db.py:43-55).                                       *)
THEOREM NoRowIsOrphaned == Spec => []NoOrphans
<1>1. Init => NoOrphans
  BY DEF Init, NoOrphans, Keys, Holders, Stored
<1>2. TypeOK /\ NoOrphans /\ [Next]_vars => NoOrphans'
  <2>. SUFFICES ASSUME TypeOK, NoOrphans, [Next]_vars PROVE NoOrphans'
    OBVIOUS
  <2>. USE DEF TypeOK, NoOrphans, Stored
  <2>1. CASE UNCHANGED <<accounts, rows, flights>>
    BY <2>1
  <2>2. CASE DeactivateAccount
    BY <2>2, KeyTypes DEF DeactivateAccount, Holders
  <2>3. CASE DeactivateStale
    BY <2>3 DEF DeactivateStale, Stale
  <2>4. ASSUME NEW c \in Confs, UpsertReservation(c) PROVE NoOrphans'
    <3>1. CASE accounts[cur] \in Stored
      <4>1. rows' = [rows EXCEPT ![<<cur, c>>] = "active"]
            /\ UNCHANGED <<accounts, flights>>
        BY <2>4, <3>1 DEF UpsertReservation
      <4>2. \A k \in Keys :
                rows'[k] = IF k = <<cur, c>> THEN "active" ELSE rows[k]
        BY <4>1
      <4>. QED
        BY <3>1, <4>1, <4>2, KeyTypes
    <3>2. CASE accounts[cur] \notin Stored
      BY <2>4, <3>2 DEF UpsertReservation
    <3>. QED
      BY <3>1, <3>2
  <2>5. ASSUME NEW c \in Confs, AddReservation(c) PROVE NoOrphans'
    <3>1. \A k \in Keys :
              rows'[k] = IF k = <<Manual, c>> THEN "active" ELSE rows[k]
      BY <2>5 DEF AddReservation
    <3>. QED
      BY <2>5, <3>1, KeyTypes DEF AddReservation
  <2>6. ASSUME NEW f \in Flights, UpsertFlight(f) PROVE NoOrphans'
    BY <2>6 DEF UpsertFlight
  <2>7. ASSUME NEW a \in Accounts, AddAccount(a) \/ SwitchAccount(a)
        PROVE NoOrphans'
    BY <2>7, KeyTypes DEF AddAccount, SwitchAccount, Holders
  <2>8. ASSUME NEW a \in Accounts, DeleteAccount(a) PROVE NoOrphans'
    BY <2>8, KeyTypes DEF DeleteAccount, Cascade, Holders
  <2>9. ASSUME NEW k \in Keys, DeleteReservation(k) PROVE NoOrphans'
    BY <2>9, KeyTypes DEF DeleteReservation, Cascade
  <2>. QED
    BY <2>1, <2>2, <2>3, <2>4, <2>5, <2>6, <2>7, <2>8, <2>9, TableSteps
<1>. QED
  BY <1>1, <1>2, TypeCorrect, PTL DEF Spec

-----------------------------------------------------------------------------
(* What an account's page listed is what the account held, or nothing.     *)
Listing == listed = {} \/ listed = trips

LEMMA ListingHolds == Spec => []Listing
<1>1. Init => Listing
  BY DEF Init, Listing
<1>2. Listing /\ [Next]_vars => Listing'
  <2>. SUFFICES ASSUME Listing, [Next]_vars PROVE Listing'
    OBVIOUS
  <2>. USE DEF Listing
  <2>1. CASE UNCHANGED page
    BY <2>1 DEF page
  <2>2. CASE ClearLoop
    BY <2>2 DEF ClearLoop
  <2>3. CASE EndAccount
    BY <2>3 DEF EndAccount
  <2>4. ASSUME NEW a \in Accounts, NEW list \in Lists(a), LoggedIn(a, list)
        PROVE Listing'
    BY <2>4 DEF LoggedIn, Lists
  <2>5. ASSUME NEW c \in Confs, UpsertReservation(c) PROVE Listing'
    BY <2>5, <2>2 DEF UpsertReservation
  <2>6. MainLoop \/ Restart =>
            \/ UNCHANGED page \/ ClearLoop \/ EndAccount
            \/ \E a \in Accounts : \E list \in Lists(a) : LoggedIn(a, list)
            \/ \E c \in Confs : UpsertReservation(c)
    BY DEF MainLoop, ProcessAccounts, ProcessReservations, page, Poll,
           DeactivateAccount, DeactivateStale, EndAccounts, Login,
           LoginRejected, LoginFails, EndReservation, EndReservations,
           Retrieved, RetrieveFails, RetrieveRaises, UpsertFlight, Schedule,
           Restart
  <2>7. Users \/ Southwest \/ (\E x \in Accounts \cup Keys : Expire(x))
            \/ UNCHANGED vars => UNCHANGED page
    BY DEF Users, AddAccount, SwitchAccount, DeleteAccount, AddReservation,
           DeleteReservation, Southwest, ChangeBooking, ChangePassword,
           Expire, loop, vars
  <2>. QED
    BY <2>1, <2>2, <2>3, <2>4, <2>5, <2>6, <2>7 DEF Next
<1>. QED
  BY <1>1, <1>2, PTL DEF Spec

(* A reservation that its account still held when it was checked is never  *)
(* deactivated: the statement of deactivate_stale_reservations is skipped  *)
(* for an empty list (src/worker/db.py:383-390).                           *)
THEOREM OnlyGoneDeactivated == Spec => DeactivatesOnlyGone
<1>. DEFINE OnlyGone ==
        \A a \in Accounts, c \in Confs :
            rows[<<a, c>>] = "active" /\ rows'[<<a, c>>] = "inactive" =>
                c \notin trips
<1>1. TypeOK /\ Listing /\ [Next]_vars => [OnlyGone]_vars
  <2>. SUFFICES ASSUME TypeOK, Listing, [Next]_vars,
                       NEW a \in Accounts, NEW c \in Confs,
                       rows[<<a, c>>] = "active", rows'[<<a, c>>] = "inactive"
                PROVE  c \notin trips
    OBVIOUS
  <2>0. <<a, c>> \in Keys
    BY KeyTypes DEF Holders
  <2>1. CASE DeactivateStale
    BY <2>0, <2>1 DEF DeactivateStale, Stale, Listing
  <2>2. CASE \E d \in Confs : UpsertReservation(d) \/ AddReservation(d)
    BY <2>0, <2>2 DEF TypeOK, UpsertReservation, AddReservation
  <2>3. CASE \E b \in Accounts :
                 AddAccount(b) \/ SwitchAccount(b) \/ DeleteAccount(b)
    BY <2>0, <2>3 DEF AddAccount, SwitchAccount, DeleteAccount, Cascade
  <2>4. CASE \E k \in Keys : DeleteReservation(k)
    BY <2>0, <2>4 DEF DeleteReservation, Cascade
  <2>5. CASE UNCHANGED rows
    BY <2>5
  <2>6. DeactivateAccount \/ (\E f \in Flights : UpsertFlight(f)) => UNCHANGED rows
    BY DEF DeactivateAccount, UpsertFlight
  <2>. QED
    BY <2>1, <2>2, <2>3, <2>4, <2>5, <2>6, TableSteps
<1>. QED
  BY <1>1, TypeCorrect, ListingHolds, PTL DEF Spec, DeactivatesOnlyGone

-----------------------------------------------------------------------------
(* The account that is being processed is neither due any more nor checked *)
(* yet.                                                                    *)
Busy == {"login", "deactivate", "upsert", "retrieve", "store"}

Place ==
    /\ todo \cap checked = {}
    /\ pc \in {"login", "deactivate", "upsert"} => cur \in Accounts
    /\ cur \in Accounts /\ pc \in Busy => cur \notin checked \cup todo

LEMMA PlaceHolds == Spec => []Place
<1>. USE DEF Place, Busy
<1>1. Init => Place
  BY DEF Init
<1>2. TypeOK /\ Place /\ [Next]_vars => Place'
  <2>. SUFFICES ASSUME TypeOK, Place, [Next]_vars PROVE Place'
    OBVIOUS
  <2>. USE DEF turn, page, loop, Goto
  <2>1. CASE Poll
    BY <2>1, ConstantsOK DEF Poll, TypeOK
  <2>2. CASE DeactivateAccount \/ DeactivateStale \/ EndReservations \/ EndAccount
    BY <2>2 DEF DeactivateAccount, DeactivateStale, EndReservations, EndAccount
  <2>3. CASE EndAccounts
    BY <2>3, ConstantsOK DEF EndAccounts
  <2>4. ASSUME NEW a \in Accounts,
               Login(a) \/ LoginRejected(a) \/ LoginFails(a)
                   \/ \E list \in Lists(a) : LoggedIn(a, list)
        PROVE Place'
    BY <2>4 DEF Login, LoginRejected, LoginFails, LoggedIn
  <2>5. CASE ClearLoop
    BY <2>5, ConstantsOK DEF ClearLoop
  <2>6. ASSUME NEW c \in Confs, UpsertReservation(c) PROVE Place'
    BY <2>5, <2>6 DEF UpsertReservation
  <2>7. ASSUME NEW f \in Flights, UpsertFlight(f) PROVE Place'
    BY <2>5, <2>7 DEF UpsertFlight
  <2>8. ASSUME NEW k \in Keys, Retrieved(k) PROVE Place'
    BY <2>8 DEF Retrieved
  <2>9. ASSUME NEW k \in Keys, pc \in {"retrieve", "store"}, Done(k), UNCHANGED turn
        PROVE Place'
    <3>1. k \notin Accounts /\ Manual \notin Accounts
      BY ConstantsOK DEF Keys, Holders
    <3>. QED
      BY <2>9, <3>1 DEF Done, TypeOK
  <2>10. CASE EndReservation
    BY <2>9, <2>10 DEF EndReservation, TypeOK
  <2>11. ASSUME NEW k \in Keys, RetrieveFails(k) \/ RetrieveRaises(k) PROVE Place'
    BY <2>5, <2>9, <2>11 DEF RetrieveFails, RetrieveRaises
  <2>12. CASE Schedule \/ Restart
    BY <2>5, <2>12 DEF Schedule, Restart
  <2>13. CASE Users
    BY <2>13 DEF Users, AddAccount, SwitchAccount, DeleteAccount,
                 AddReservation, DeleteReservation
  <2>14. CASE Southwest
    BY <2>14 DEF Southwest, ChangeBooking, ChangePassword
  <2>15. ASSUME NEW x \in Accounts \cup Keys, Expire(x) PROVE Place'
    BY <2>15 DEF Expire
  <2>16. CASE UNCHANGED vars
    BY <2>16 DEF vars
  <2>. QED
    BY <2>1, <2>2, <2>3, <2>4, <2>6, <2>7, <2>8, <2>10, <2>11, <2>12, <2>13,
       <2>14, <2>15, <2>16
    DEF Next, MainLoop, ProcessAccounts, ProcessReservations
<1>. QED
  BY <1>1, <1>2, TypeCorrect, PTL DEF Spec

-----------------------------------------------------------------------------
(* The count of an account, in its row or as the loop has read it, is not  *)
(* more than its rejections in a row.                                      *)
AtMost(n, a) == n <= streak[a] \/ streak[a] = MaxFailures

Counted ==
    /\ \A a \in Accounts : AtMost(failures[a], a)
    /\ \A a \in Accounts :
          a \in todo \/ (pc = "login" /\ cur = a) => AtMost(read[a], a)
    /\ pc = "deactivate" => streak[cur] = MaxFailures

LEMMA CountedHolds == Spec => []Counted
<1>. USE DEF Counted, AtMost
<1>1. Init => Counted
  BY DEF Init
<1>2. TypeOK /\ Place /\ Counted /\ [Next]_vars => Counted'
  <2>. SUFFICES ASSUME TypeOK, Place, Counted, [Next]_vars PROVE Counted'
    OBVIOUS
  <2>. USE DEF turn, page, loop, history, database, Goto
  <2>1. CASE Poll
    BY <2>1 DEF Poll, TypeOK
  <2>2. CASE DeactivateAccount \/ DeactivateStale \/ EndReservations
                \/ EndAccount \/ EndAccounts \/ EndReservation
    BY <2>2 DEF DeactivateAccount, DeactivateStale, EndReservations, EndAccount,
                EndAccounts, EndReservation, Done
  <2>3. ASSUME NEW a \in Accounts, Login(a) PROVE Counted'
    BY <2>3 DEF Login, TypeOK
  <2>4. ASSUME NEW a \in Accounts, LoginFails(a) PROVE Counted'
    BY <2>4 DEF LoginFails
  <2>5. ASSUME NEW a \in Accounts, LoginRejected(a) PROVE Counted'
    <3>1. cur = a /\ a \notin todo /\ AtMost(read[a], a)
      BY <2>5 DEF LoginRejected, Place, Busy
    <3>2. MaxFailures \in Nat /\ streak[a] \in 0..MaxFailures /\ read[a] \in Nat
      BY ConstantsOK DEF TypeOK
    <3>3. streak'[a] = IF streak[a] < MaxFailures THEN streak[a] + 1 ELSE streak[a]
      BY <2>5 DEF LoginRejected, TypeOK
    <3>4. read[a] + 1 <= streak'[a] \/ streak'[a] = MaxFailures
      BY <3>1, <3>2, <3>3
    <3>5. failures'[a] = read[a] + 1
      BY <2>5 DEF LoginRejected, TypeOK
    <3>6. \A b \in Accounts \ {a} : failures'[b] = failures[b] /\ streak'[b] = streak[b]
      BY <2>5 DEF LoginRejected, TypeOK
    <3>7. /\ pc' = IF read[a] + 1 >= MaxFailures THEN "deactivate" ELSE "accounts"
          /\ UNCHANGED <<cur, todo, read>>
      BY <2>5 DEF LoginRejected
    <3>8. pc' = "deactivate" => streak'[cur'] = MaxFailures
      BY <3>1, <3>2, <3>3, <3>4, <3>7
    <3>. QED
      BY <3>1, <3>4, <3>5, <3>6, <3>7, <3>8
  <2>6. ASSUME NEW a \in Accounts, NEW list \in Lists(a), LoggedIn(a, list)
        PROVE Counted'
    <3>1. a \notin todo
      BY <2>6 DEF LoggedIn, Place, Busy
    <3>. QED
      BY <2>6, <3>1 DEF LoggedIn, TypeOK
  <2>7. ASSUME ClearLoop, UNCHANGED <<failures, streak>> PROVE Counted'
    BY <2>7 DEF ClearLoop
  <2>8. ASSUME NEW c \in Confs, UpsertReservation(c) PROVE Counted'
    BY <2>7, <2>8 DEF UpsertReservation
  <2>9. ASSUME NEW f \in Flights, UpsertFlight(f) PROVE Counted'
    BY <2>7, <2>9 DEF UpsertFlight
  <2>10. ASSUME NEW k \in Keys, Retrieved(k) \/ RetrieveFails(k) PROVE Counted'
    BY <2>10 DEF Retrieved, RetrieveFails, Done
  <2>11. ASSUME NEW k \in Keys, RetrieveRaises(k) PROVE Counted'
    BY <2>7, <2>11 DEF RetrieveRaises
  <2>12. CASE Schedule \/ Restart
    BY <2>7, <2>12 DEF Schedule, Restart
  <2>13. CASE Users
    BY <2>13 DEF Users, AddAccount, SwitchAccount, DeleteAccount,
                 AddReservation, DeleteReservation
  <2>14. CASE Southwest
    BY <2>14 DEF Southwest, ChangeBooking, ChangePassword
  <2>15. ASSUME NEW x \in Accounts \cup Keys, Expire(x) PROVE Counted'
    BY <2>15 DEF Expire
  <2>16. CASE UNCHANGED vars
    BY <2>16 DEF vars
  <2>. QED
    BY <2>1, <2>2, <2>3, <2>4, <2>5, <2>6, <2>8, <2>9, <2>10, <2>11, <2>12,
       <2>13, <2>14, <2>15, <2>16
    DEF Next, MainLoop, ProcessAccounts, ProcessReservations
<1>. QED
  BY <1>1, <1>2, TypeCorrect, PlaceHolds, PTL DEF Spec

(* An account is deactivated by the worker only after MaxFailures          *)
(* rejections without a successful login between them: the count that is   *)
(* read with the list of accounts and written minutes later is still not   *)
(* more than those (src/worker/worker.py:326-335).                         *)
THEOREM OnlyRejectedDeactivated == Spec => DeactivatedForCause
<1>. DEFINE ForCause ==
        \A a \in Accounts :
            accounts[a] = "active" /\ accounts'[a] = "inactive" /\ edits' = edits =>
                streak[a] >= MaxFailures
<1>1. TypeOK /\ Counted /\ [Next]_vars => [ForCause]_vars
  <2>. SUFFICES ASSUME TypeOK, Counted, [Next]_vars, NEW a \in Accounts,
                       accounts[a] = "active", accounts'[a] = "inactive",
                       edits' = edits
                PROVE  streak[a] >= MaxFailures
    OBVIOUS
  <2>1. CASE DeactivateAccount
    <3>1. cur = a
      BY <2>1 DEF DeactivateAccount, TypeOK
    <3>. QED
      BY <2>1, <3>1, ConstantsOK DEF DeactivateAccount, Counted
  <2>2. edits \in Nat
    BY ConstantsOK DEF TypeOK
  <2>3. ASSUME NEW b \in Accounts, AddAccount(b) \/ SwitchAccount(b) \/ DeleteAccount(b)
        PROVE FALSE
    BY <2>2, <2>3 DEF AddAccount, SwitchAccount, DeleteAccount, MayEdit
  <2>4. CASE UNCHANGED accounts
    BY <2>4
  <2>5. DeactivateStale \/ (\E c \in Confs : UpsertReservation(c) \/ AddReservation(c))
            \/ (\E f \in Flights : UpsertFlight(f))
            \/ (\E k \in Keys : DeleteReservation(k)) => UNCHANGED accounts
    BY DEF DeactivateStale, UpsertReservation, AddReservation, UpsertFlight,
           DeleteReservation
  <2>. QED
    BY <2>1, <2>3, <2>4, <2>5, TableSteps
<1>. QED
  BY <1>1, TypeCorrect, CountedHolds, PTL DEF Spec, DeactivatedForCause

-----------------------------------------------------------------------------
(* What is known of the rows of the account that is being processed: those *)
(* that were upserted are active, and once the others were deactivated     *)
(* only those are.                                                         *)
Present(a, c) == rows[<<a, c>>] \in {"active", "deleted"}

Upserted ==
    pc = "upsert" => \A c \in listed \ answer : Present(cur, c)

Processed ==
    cur \in Accounts /\ pc \in {"retrieve", "store"} =>
        /\ \A c \in listed : Present(cur, c)
        /\ listed # {} =>
              \A c \in Confs : rows[<<cur, c>>] = "active" => c \in listed

CheckedInSync ==
    \A a \in checked \cap Accounts :
        /\ \A c \in seen[a] : c \in Confs /\ Present(a, c)
        /\ seen[a] # {} =>
              \A c \in Confs : rows[<<a, c>>] = "active" => c \in seen[a]

Synced == Upserted /\ Processed /\ CheckedInSync

(* No step but an upsert makes a row of an account active or any row leave *)
(* "deleted", and an upsert is of the account being processed.             *)
LEMMA RowSteps ==
    ASSUME TypeOK, Place, [Next]_vars,
           NEW a \in Accounts, NEW c \in Confs,
           ~(pc = "upsert" /\ cur = a)
    PROVE  /\ Present(a, c) => rows'[<<a, c>>] \in {"active", "deleted"}
           /\ rows'[<<a, c>>] = "active" => rows[<<a, c>>] = "active"
<1>1. <<a, c>> \in Keys /\ a # Manual
  BY KeyTypes, ConstantsOK DEF Holders
<1>. USE <1>1 DEF Present
<1>2. CASE UNCHANGED rows
  BY <1>2
<1>3. DeactivateAccount \/ (\E f \in Flights : UpsertFlight(f)) => UNCHANGED rows
  BY DEF DeactivateAccount, UpsertFlight
<1>4. CASE DeactivateStale
  BY <1>4, KeyTypes DEF DeactivateStale, Stale
<1>5. ASSUME NEW d \in Confs, UpsertReservation(d) \/ AddReservation(d)
      PROVE  /\ Present(a, c) => rows'[<<a, c>>] \in {"active", "deleted"}
             /\ rows'[<<a, c>>] = "active" => rows[<<a, c>>] = "active"
  BY <1>5 DEF TypeOK, UpsertReservation, AddReservation
<1>6. ASSUME NEW b \in Accounts, AddAccount(b) \/ SwitchAccount(b) \/ DeleteAccount(b)
      PROVE  /\ Present(a, c) => rows'[<<a, c>>] \in {"active", "deleted"}
             /\ rows'[<<a, c>>] = "active" => rows[<<a, c>>] = "active"
  BY <1>6 DEF AddAccount, SwitchAccount, DeleteAccount, Cascade, Stored
<1>7. ASSUME NEW k \in Keys, DeleteReservation(k)
      PROVE  /\ Present(a, c) => rows'[<<a, c>>] \in {"active", "deleted"}
             /\ rows'[<<a, c>>] = "active" => rows[<<a, c>>] = "active"
  BY <1>7 DEF DeleteReservation, Cascade, Stored
<1>. QED
  BY <1>2, <1>3, <1>4, <1>5, <1>6, <1>7, TableSteps

(* What a step does to what was seen of the checked accounts.              *)
LEMMA SeenSteps ==
    ASSUME TypeOK, Place, [Next]_vars, NEW a \in checked' \cap Accounts
    PROVE  \/ EndAccount /\ a = cur /\ seen'[a] = listed
           \/ a \in checked /\ seen'[a] = seen[a]
<1>. USE ConstantsOK DEF Keys, Holders
<1>1. CASE EndAccount
  BY <1>1 DEF EndAccount, TypeOK
<1>2. CASE Restart
  BY <1>2 DEF Restart
<1>3. ASSUME NEW x \in Accounts \cup Keys, Expire(x)
      PROVE a \in checked /\ seen'[a] = seen[a]
  BY <1>3 DEF Expire
<1>4. ASSUME NEW k \in Keys, RetrieveFails(k)
      PROVE a \in checked /\ seen'[a] = seen[a]
  BY <1>4 DEF RetrieveFails, Done, history
<1>5. CASE EndReservation
  BY <1>5 DEF EndReservation, Done, history, TypeOK
<1>6. MainLoop \/ Users \/ Southwest \/ UNCHANGED vars =>
        \/ EndAccount \/ EndReservation \/ \E k \in Keys : RetrieveFails(k)
        \/ checked' = checked /\ seen' = seen
  BY DEF MainLoop, ProcessAccounts, ProcessReservations, history, Poll,
         DeactivateAccount, DeactivateStale, EndAccounts, Login,
         LoginRejected, LoginFails, LoggedIn, UpsertReservation,
         EndReservations, Retrieved, RetrieveRaises, UpsertFlight, Schedule,
         Users, AddAccount, SwitchAccount, DeleteAccount, AddReservation,
         DeleteReservation, Southwest, ChangeBooking, ChangePassword, vars
<1>. QED
  BY <1>1, <1>2, <1>3, <1>4, <1>5, <1>6 DEF Next

(* That is kept by users, who delete rows, by exceptions, which end the    *)
(* iteration between two upserts, and by restarts.                         *)
LEMMA SyncedHolds == Spec => []Synced
<1>1. Init => Synced
  BY ConstantsOK DEF Init, Synced, Upserted, Processed, CheckedInSync
<1>2. TypeOK /\ Place /\ Synced /\ [Next]_vars => Synced'
  <2>. SUFFICES ASSUME TypeOK, Place, Synced, [Next]_vars PROVE Synced'
    OBVIOUS
  <2>1. CheckedInSync'
    <3>. SUFFICES ASSUME NEW a \in checked' \cap Accounts
                  PROVE  /\ \A c \in seen'[a] : c \in Confs /\ Present(a, c)'
                         /\ seen'[a] # {} =>
                               \A c \in Confs : rows'[<<a, c>>] = "active" => c \in seen'[a]
      BY DEF CheckedInSync
    <3>1. CASE EndAccount /\ a = cur /\ seen'[a] = listed
      BY <3>1, RowSteps DEF EndAccount, Synced, Processed, Present, TypeOK
    <3>2. CASE a \in checked /\ seen'[a] = seen[a]
      <4>1. ~(pc = "upsert" /\ cur = a)
        BY <3>2 DEF Place, Busy
      <4>2. /\ \A c \in seen[a] : c \in Confs /\ Present(a, c)
            /\ seen[a] # {} =>
                  \A c \in Confs : rows[<<a, c>>] = "active" => c \in seen[a]
        BY <3>2 DEF Synced, CheckedInSync
      <4>3. ASSUME NEW c \in Confs
            PROVE  /\ Present(a, c) => rows'[<<a, c>>] \in {"active", "deleted"}
                   /\ rows'[<<a, c>>] = "active" => rows[<<a, c>>] = "active"
        BY <4>1, RowSteps
      <4>. QED
        BY <3>2, <4>2, <4>3 DEF Present
    <3>. QED
      BY <3>1, <3>2, SeenSteps
  <2>2. Upserted' /\ Processed'
    <3>. USE DEF Upserted, Processed, Present, turn, page, request, loop, Goto
    <3>1. CASE Poll \/ DeactivateAccount \/ EndAccount \/ Schedule \/ Restart
                  \/ EndReservations \/ \E k \in Keys : RetrieveRaises(k)
      BY <3>1, ConstantsOK DEF Poll, DeactivateAccount, EndAccount, Schedule, Restart,
                  EndReservations, RetrieveRaises, ClearLoop
    <3>2. ASSUME NEW a \in Accounts, Login(a) \/ LoginRejected(a) \/ LoginFails(a)
          PROVE Upserted' /\ Processed'
      BY <3>2 DEF Login, LoginRejected, LoginFails
    <3>3. ASSUME NEW a \in Accounts, NEW list \in Lists(a), LoggedIn(a, list)
          PROVE Upserted' /\ Processed'
      BY <3>3 DEF LoggedIn
    <3>4. CASE EndAccounts
      BY <3>4, ConstantsOK DEF EndAccounts
    <3>5. ASSUME NEW c \in Confs, UpsertReservation(c) PROVE Upserted' /\ Processed'
      <4>1. CASE accounts[cur] \in Stored
        <5>1. /\ rows' = [rows EXCEPT ![<<cur, c>>] = "active"]
              /\ answer' = answer \ {c} /\ listed' = listed /\ cur' = cur
              /\ pc = "upsert" /\ pc' = "upsert"
          BY <3>5, <4>1 DEF UpsertReservation
        <5>2. \A d \in Confs : <<cur, d>> \in Keys
          BY KeyTypes DEF TypeOK
        <5>3. \A d \in Confs :
                  rows'[<<cur, d>>] = IF d = c THEN "active" ELSE rows[<<cur, d>>]
          BY <5>1, <5>2 DEF TypeOK
        <5>. QED
          BY <5>1, <5>3 DEF Synced, TypeOK
      <4>2. CASE accounts[cur] \notin Stored
        BY <3>5, <4>2 DEF UpsertReservation, ClearLoop
      <4>. QED
        BY <4>1, <4>2
    <3>6. CASE DeactivateStale
      <4>1. /\ pc = "upsert" /\ pc' = "retrieve" /\ answer = {}
            /\ UNCHANGED <<cur, listed>>
            /\ \A c \in Confs : rows'[<<cur, c>>] =
                  IF listed # {} /\ c \notin listed /\ rows[<<cur, c>>] \in Stored
                  THEN "inactive" ELSE rows[<<cur, c>>]
        BY <3>6, KeyTypes DEF DeactivateStale, Stale, TypeOK
      <4>2. \A c \in listed : c \in Confs /\ rows[<<cur, c>>] \in {"active", "deleted"}
        BY <4>1 DEF Synced, TypeOK
      <4>. QED
        BY <4>1, <4>2 DEF Stored
    <3>7. ASSUME NEW f \in Flights, UpsertFlight(f) PROVE Upserted' /\ Processed'
      BY <3>7, ConstantsOK DEF UpsertFlight, ClearLoop, Synced
    <3>8. ASSUME NEW k \in Keys, Retrieved(k) \/ RetrieveFails(k)
          PROVE Upserted' /\ Processed'
      BY <3>8 DEF Retrieved, RetrieveFails, Done, database, Synced
    <3>9. CASE EndReservation
      BY <3>9 DEF EndReservation, Done, database, Synced
    <3>10. ASSUME NEW c \in Confs, AddReservation(c) PROVE Upserted' /\ Processed'
      <4>1. \A b \in Holders, d \in Confs :
                b # Manual => rows'[<<b, d>>] = rows[<<b, d>>]
        BY <3>10, KeyTypes DEF AddReservation, TypeOK
      <4>2. pc = "upsert" => cur \in Accounts
        BY DEF Place
      <4>. QED
        BY <3>10, <4>1, <4>2, ConstantsOK DEF AddReservation, Synced, TypeOK, Holders
    <3>11. ASSUME NEW b \in Accounts, DeleteAccount(b) PROVE Upserted' /\ Processed'
      <4>1. \A h \in Holders, d \in Confs :
                rows'[<<h, d>>] \in {rows[<<h, d>>], "deleted"}
        BY <3>11, KeyTypes DEF DeleteAccount, Cascade
      <4>. QED
        BY <3>11, <4>1 DEF DeleteAccount, Synced, TypeOK
    <3>12. ASSUME NEW k \in Keys, DeleteReservation(k) PROVE Upserted' /\ Processed'
      <4>1. \A h \in Holders, d \in Confs :
                rows'[<<h, d>>] \in {rows[<<h, d>>], "deleted"}
        BY <3>12, KeyTypes DEF DeleteReservation, Cascade
      <4>. QED
        BY <3>12, <4>1 DEF DeleteReservation, Synced, TypeOK
    <3>13. ASSUME NEW b \in Accounts, AddAccount(b) \/ SwitchAccount(b)
           PROVE Upserted' /\ Processed'
      BY <3>13 DEF AddAccount, SwitchAccount, Synced
    <3>14. CASE Southwest \/ \E x \in Accounts \cup Keys : Expire(x)
      BY <3>14 DEF Southwest, ChangeBooking, ChangePassword, Expire, database, Synced
    <3>15. CASE UNCHANGED vars
      BY <3>15 DEF vars, database, Synced
    <3>. QED
      BY <3>1, <3>2, <3>3, <3>4, <3>5, <3>6, <3>7, <3>8, <3>9, <3>10, <3>11,
         <3>12, <3>13, <3>14, <3>15, ConstantsOK
      DEF Next, MainLoop, ProcessAccounts, ProcessReservations, Users
  <2>. QED
    BY <2>1, <2>2 DEF Synced
<1>. QED
  BY <1>1, <1>2, TypeCorrect, PlaceHolds, PTL DEF Spec

(* After a check and until the next, the rows of an account agree with its *)
(* page: what users delete meanwhile, exceptions that end an iteration     *)
(* between two upserts, and restarts notwithstanding                       *)
(* (src/worker/worker.py:339-369).                                         *)
THEOREM RowsInSync == Spec => []InSync
<1>1. Synced => InSync
  BY DEF Synced, CheckedInSync, InSync, Present
<1>. QED
  BY <1>1, SyncedHolds, PTL
=============================================================================
