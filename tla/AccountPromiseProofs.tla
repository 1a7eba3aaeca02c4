------------------------ MODULE AccountPromiseProofs ------------------------
(***************************************************************************)
(* AccountMonitoring implements AccountPromise: with the answer at hand    *)
(* read off the loop's place and local variables (Asked, Has), every step  *)
(* is a step of the promise or changes nothing it speaks of.  What a step  *)
(* has to know beyond types: the page's list is what the account held, or  *)
(* empty (Listing), a count is not more than the rejections in a row       *)
(* (Counted), what was taken off the list is stored (Synced), what is      *)
(* still to be stored is on the list, and what is to be retrieved is on    *)
(* file.                                                                   *)
(***************************************************************************)
EXTENDS AccountMonitoringProofs

(* What is still to be stored of a page is on its list.                    *)
Answered == pc = "upsert" => answer \subseteq listed

LEMMA AnsweredHolds == Spec => []Answered
<1>. USE DEF Answered
<1>1. Init => Answered
  BY DEF Init
<1>2. Answered /\ [Next]_vars => Answered'
  <2>. SUFFICES ASSUME Answered, [Next]_vars PROVE Answered'
    OBVIOUS
  <2>1. CASE pc' # "upsert"
    BY <2>1
  <2>2. ASSUME NEW a \in Accounts, NEW list \in Lists(a), LoggedIn(a, list)
        PROVE Answered'
    BY <2>2 DEF LoggedIn
  <2>3. ASSUME NEW c \in Confs, UpsertReservation(c) PROVE Answered'
    BY <2>3 DEF UpsertReservation, ClearLoop, Goto
  <2>4. CASE UNCHANGED <<pc, page>>
    BY <2>4 DEF page
  <2>5. MainLoop \/ Restart =>
          \/ pc' # "upsert"
          \/ \E a \in Accounts : \E list \in Lists(a) : LoggedIn(a, list)
          \/ \E c \in Confs : UpsertReservation(c)
          \/ UNCHANGED <<pc, page>>
    BY DEF MainLoop, ProcessAccounts, ProcessReservations, Goto, ClearLoop, Poll,
           DeactivateAccount, DeactivateStale, EndAccount, EndAccounts, Login,
           LoginRejected, LoginFails, EndReservation, EndReservations, Done,
           Retrieved, RetrieveFails, RetrieveRaises, UpsertFlight, Schedule, Restart
  <2>6. Users \/ Southwest \/ (\E x \in Accounts \cup Keys : Expire(x))
            \/ UNCHANGED vars => UNCHANGED <<pc, page>>
    BY DEF Users, AddAccount, SwitchAccount, DeleteAccount, AddReservation,
           DeleteReservation, Southwest, ChangeBooking, ChangePassword,
           Expire, loop, vars
  <2>. QED
    BY <2>1, <2>2, <2>3, <2>4, <2>5, <2>6 DEF Next
<1>. QED
  BY <1>1, <1>2, PTL DEF Spec

(* A key that was on file stays known, deleted or not.                     *)
LEMMA KnownStays ==
    ASSUME TypeOK, [Next]_vars, NEW k \in Keys, rows[k] # "none"
    PROVE  rows'[k] # "none"
<1>1. CASE UNCHANGED rows
  BY <1>1
<1>2. DeactivateAccount \/ (\E f \in Flights : UpsertFlight(f)) => UNCHANGED rows
  BY DEF DeactivateAccount, UpsertFlight
<1>3. CASE DeactivateStale
  BY <1>3 DEF DeactivateStale
<1>4. ASSUME NEW c \in Confs, UpsertReservation(c) \/ AddReservation(c)
      PROVE rows'[k] # "none"
  BY <1>4 DEF UpsertReservation, AddReservation, TypeOK
<1>5. ASSUME NEW a \in Accounts, AddAccount(a) \/ SwitchAccount(a) \/ DeleteAccount(a)
      PROVE rows'[k] # "none"
  BY <1>5 DEF AddAccount, SwitchAccount, DeleteAccount, Cascade
<1>6. ASSUME NEW j \in Keys, DeleteReservation(j) PROVE rows'[k] # "none"
  BY <1>6 DEF DeleteReservation, Cascade
<1>. QED
  BY <1>1, <1>2, <1>3, <1>4, <1>5, <1>6, TableSteps

(* Only keys on file are retrieved.                                        *)
OnFile == \A k \in asking : rows[k] # "none"

LEMMA OnFileHolds == Spec => []OnFile
<1>1. Init => OnFile
  BY DEF Init, OnFile
<1>2. TypeOK /\ OnFile /\ [Next]_vars => OnFile'
  <2>. SUFFICES ASSUME TypeOK, OnFile, [Next]_vars PROVE OnFile'
    OBVIOUS
  <2>1. ASSUME asking' \subseteq asking PROVE OnFile'
    BY <2>1, KnownStays DEF OnFile, TypeOK
  <2>2. CASE DeactivateStale
    BY <2>2 DEF DeactivateStale, OnFile
  <2>3. CASE EndAccounts
    BY <2>3 DEF EndAccounts, OnFile, database
  <2>4. MainLoop \/ Restart => DeactivateStale \/ EndAccounts \/ asking' \subseteq asking
    BY DEF MainLoop, ProcessAccounts, ProcessReservations, request, ClearLoop, Poll,
           DeactivateAccount, EndAccount, Login, LoginRejected, LoginFails, LoggedIn,
           UpsertReservation, EndReservation, EndReservations, Done, Retrieved,
           RetrieveFails, RetrieveRaises, UpsertFlight, Schedule, Restart
  <2>5. Users \/ Southwest \/ (\E x \in Accounts \cup Keys : Expire(x))
            \/ UNCHANGED vars => UNCHANGED asking
    BY DEF Users, AddAccount, SwitchAccount, DeleteAccount, AddReservation,
           DeleteReservation, Southwest, ChangeBooking, ChangePassword,
           Expire, request, loop, vars
  <2>. QED
    BY <2>1, <2>2, <2>3, <2>4, <2>5 DEF Next
<1>. QED
  BY <1>1, <1>2, TypeCorrect, PTL DEF Spec

-----------------------------------------------------------------------------
(* The mapping.                                                            *)

LEMMA AtHand ==
    /\ pc = "upsert" => Asked = cur /\ Has = trips
    /\ pc = "store" => Asked = key /\ Has = got
    /\ pc \notin {"upsert", "store"} => Asked = Manual /\ Has = {}
  BY DEF Asked, Has

LEMMA AtHandNext ==
    /\ pc' = "upsert" => Asked' = cur' /\ Has' = trips'
    /\ pc' = "store" => Asked' = key' /\ Has' = got'
    /\ pc' \notin {"upsert", "store"} => Asked' = Manual /\ Has' = {}
  BY DEF Asked, Has

LEMMA HandStays ==
    ASSUME UNCHANGED loop
    PROVE  UNCHANGED <<Asked, Has>>
  BY DEF loop, turn, page, request, Asked, Has

(* A step that leaves tables, Southwest and rejections alone, and has no   *)
(* answer at hand any more.                                                *)
LEMMA Forgets ==
    ASSUME UNCHANGED <<accounts, rows, flights, booked, good, streak>>,
           pc' \notin {"upsert", "store"}
    PROVE  Promise!Next
  BY AtHandNext DEF Promise!Next, Promise!Forget, Promise!database

LEMMA InitMaps == Init => Promise!Init
<1>. SUFFICES ASSUME Init PROVE Promise!Init
  OBVIOUS
<1>1. Asked = Manual /\ Has = {}
  BY AtHand DEF Init
<1>2. Keys = Promise!Keys
  BY DEF Keys, Holders, Promise!Keys
<1>3. /\ rows \in [Keys -> {"none", "active"}]
      /\ \A k \in Keys : rows[k] = "active" => k[1] = Manual
  BY DEF Init
<1>. QED
  BY <1>1, <1>2, <1>3 DEF Init, Promise!Init

-----------------------------------------------------------------------------
(* Users and Southwest.                                                    *)
LEMMA UsersMap ==
    ASSUME TypeOK, Users
    PROVE  Promise!Next
<1>. USE DEF Promise!answer
<1>1. UNCHANGED <<Asked, Has>>
  BY HandStays DEF Users, AddAccount, SwitchAccount, DeleteAccount, AddReservation,
         DeleteReservation
<1>2. Keys = Promise!Keys /\ Stored = Promise!Stored
  BY DEF Keys, Holders, Stored, Promise!Keys, Promise!Stored
<1>3. ASSUME NEW a \in Accounts, AddAccount(a) \/ SwitchAccount(a)
      PROVE  Promise!Next
  <2>1. Promise!AddOrSwitch(a)
    BY <1>1, <1>3 DEF AddAccount, SwitchAccount, Stored, southwest, history,
           Promise!AddOrSwitch, Promise!SetAccount
  <2>. QED
    BY <2>1 DEF Promise!Next
<1>4. ASSUME NEW a \in Accounts, DeleteAccount(a) PROVE Promise!Next
  <2>1. Promise!DeleteAccount(a)
    BY <1>1, <1>2, <1>4 DEF DeleteAccount, Cascade, southwest, history,
           Promise!DeleteAccount, Promise!Without
  <2>. QED
    BY <2>1 DEF Promise!Next
<1>5. ASSUME NEW c \in Confs, AddReservation(c) PROVE Promise!Next
  <2>1. Promise!Enter(c)
    BY <1>1, <1>5 DEF AddReservation, southwest, history, Promise!Enter
  <2>. QED
    BY <2>1 DEF Promise!Next
<1>6. ASSUME NEW k \in Keys, DeleteReservation(k) PROVE Promise!Next
  <2>1. Promise!DeleteReservation(k)
    BY <1>1, <1>2, <1>6 DEF DeleteReservation, Cascade, southwest, history,
           Promise!DeleteReservation, Promise!Without
  <2>. QED
    BY <1>2, <2>1 DEF Promise!Next
<1>. QED
  BY <1>3, <1>4, <1>5, <1>6, ConstantsOK DEF Users

LEMMA SouthwestMaps ==
    ASSUME TypeOK, Southwest
    PROVE  Promise!Next
<1>1. UNCHANGED <<Asked, Has, accounts, rows, flights, streak>>
  BY HandStays DEF Southwest, ChangeBooking, ChangePassword, database, history
<1>2. ASSUME NEW f \in Flights, ChangeBooking(f)
      PROVE  booked' \in {booked \cup {f}, booked \ {f}} /\ UNCHANGED good
  <2>1. booked' = (booked \ {f}) \cup ({f} \ booked) /\ UNCHANGED good
    BY <1>2 DEF ChangeBooking
  <2>2. f \in booked => booked' = booked \ {f}
    BY <2>1
  <2>3. f \notin booked => booked' = booked \cup {f}
    BY <2>1
  <2>. QED
    BY <2>1, <2>2, <2>3
<1>3. ASSUME NEW a \in Accounts, ChangePassword(a)
      PROVE  good' \in {good \cup {a}, good \ {a}} /\ UNCHANGED booked
  <2>1. good' = (good \ {a}) \cup ({a} \ good) /\ UNCHANGED booked
    BY <1>3 DEF ChangePassword
  <2>2. a \in good => good' = good \ {a}
    BY <2>1
  <2>3. a \notin good => good' = good \cup {a}
    BY <2>1
  <2>. QED
    BY <2>1, <2>2, <2>3
<1>4. Promise!Change
  BY <1>1, <1>2, <1>3 DEF Southwest, Promise!Change, Promise!database, Promise!answer
<1>. QED
  BY <1>4 DEF Promise!Next

-----------------------------------------------------------------------------
(* The main loop.                                                          *)

LEMMA LoginMaps ==
    ASSUME TypeOK, NEW a \in Accounts
    PROVE  /\ (\E list \in Lists(a) : LoggedIn(a, list)) => Promise!Next
           /\ LoginRejected(a) => Promise!Next
<1>1. ASSUME NEW list \in Lists(a), LoggedIn(a, list) PROVE Promise!Look(a)
  <2>1. Asked' = a /\ Has' = Held(a)
    BY <1>1, AtHandNext DEF LoggedIn, Goto, turn
  <2>2. Held(a) = Promise!Held(a)
    BY DEF Held, Promise!Held
  <2>. QED
    BY <1>1, <2>1, <2>2 DEF LoggedIn, southwest, Promise!Look, Promise!database
<1>2. ASSUME LoginRejected(a) PROVE Promise!Reject(a)
  <2>1. UNCHANGED <<Asked, Has>>
    BY <1>2, AtHand, AtHandNext DEF LoginRejected, Goto
  <2>. QED
    BY <1>2, <2>1 DEF LoginRejected, southwest, Promise!Reject, Promise!database,
           Promise!answer
<1>. QED
  BY <1>1, <1>2 DEF Promise!Next

LEMMA DeactivateAccountMaps ==
    ASSUME TypeOK, Place, Counted, DeactivateAccount
    PROVE  Promise!Next
<1>1. cur \in Accounts /\ streak[cur] = MaxFailures
  BY DEF DeactivateAccount, Place, Counted
<1>2. CASE accounts[cur] = "active"
  <2>1. UNCHANGED <<Asked, Has>>
    BY AtHand, AtHandNext DEF DeactivateAccount, Goto
  <2>2. Promise!SwitchOff(cur)
    BY <1>1, <1>2, <2>1, ConstantsOK
    DEF DeactivateAccount, Stored, southwest, history, Promise!SwitchOff,
        Promise!SetAccount, Promise!answer
  <2>. QED
    BY <1>1, <2>2 DEF Promise!Next
<1>3. CASE accounts[cur] # "active"
  <2>1. accounts' = accounts
    BY <1>1, <1>3 DEF DeactivateAccount, Stored, TypeOK
  <2>. QED
    BY <2>1, Forgets DEF DeactivateAccount, Goto, southwest, history
<1>. QED
  BY <1>2, <1>3

LEMMA UpsertReservationMaps ==
    ASSUME TypeOK, Place, Listing, Answered, NEW c \in Confs, UpsertReservation(c)
    PROVE  Promise!Next
<1>1. Asked = cur /\ cur \in Accounts /\ Has = trips /\ c \in trips
  BY AtHand DEF UpsertReservation, Place, Listing, Answered
<1>2. CASE accounts[cur] \in Stored
  <2>1. UNCHANGED <<Asked, Has>>
    BY <1>2, AtHand, AtHandNext DEF UpsertReservation, turn
  <2>2. Promise!Store(c)
    BY <1>1, <1>2, <2>1
    DEF UpsertReservation, southwest, history, Stored, Promise!Store, Promise!Stored,
        Promise!answer
  <2>. QED
    BY <2>2 DEF Promise!Next
<1>3. CASE accounts[cur] \notin Stored
  BY <1>3, Forgets DEF UpsertReservation, ClearLoop, Goto, southwest, history
<1>. QED
  BY <1>2, <1>3

LEMMA DeactivateStaleMaps ==
    ASSUME TypeOK, Place, Listing, Synced, DeactivateStale
    PROVE  Promise!Next
<1>1. /\ Asked = cur /\ cur \in Accounts /\ Has = trips
      /\ pc' \notin {"upsert", "store"}
  BY AtHand DEF DeactivateStale, Place, Goto
<1>2. CASE listed = {}
  <2>1. rows' = rows
    BY <1>2 DEF DeactivateStale, TypeOK
  <2>. QED
    BY <1>1, <2>1, Forgets DEF DeactivateStale, southwest, history
<1>3. CASE listed # {}
  <2>1. listed = trips
    BY <1>3 DEF Listing
  <2>2. \A c \in Has : rows[<<Asked, c>>] \in {"active", "deleted"}
    BY <1>1, <2>1 DEF DeactivateStale, Synced, Upserted, Present
  <2>3. rows' = [k \in Promise!Keys |->
                   IF k[1] = Asked /\ k[2] \notin Has /\ rows[k] \in Promise!Stored
                   THEN "inactive" ELSE rows[k]]
    BY <1>1, <1>3, <2>1 DEF DeactivateStale, Stale, Keys, Holders, Stored, Promise!Keys,
           Promise!Stored
  <2>4. Asked' = Manual /\ Has' = {}
    BY <1>1, AtHandNext
  <2>5. Promise!DeactivateOthers
    BY <1>1, <1>3, <2>1, <2>2, <2>3, <2>4
    DEF DeactivateStale, southwest, history, Promise!DeactivateOthers
  <2>. QED
    BY <2>5 DEF Promise!Next
<1>. QED
  BY <1>2, <1>3

LEMMA RetrievedMaps ==
    ASSUME TypeOK, OnFile, NEW k \in Keys, Retrieved(k)
    PROVE  Promise!Next
<1>1. Asked' = k /\ Has' = Booked(k[2]) \ Zoneless
  BY AtHandNext DEF Retrieved, Goto
<1>2. Booked(k[2]) = Promise!Booked(k[2]) /\ Keys = Promise!Keys
  BY DEF Booked, Promise!Booked, Keys, Holders, Promise!Keys
<1>3. Promise!Ask(k)
  BY <1>1, <1>2 DEF Retrieved, OnFile, database, southwest, history, Promise!Ask,
         Promise!database
<1>. QED
  BY <1>2, <1>3 DEF Promise!Next

LEMMA UpsertFlightMaps ==
    ASSUME TypeOK, NEW f \in Flights, UpsertFlight(f)
    PROVE  Promise!Next
<1>1. Asked = key /\ key \in Keys /\ Has = got
  BY AtHand DEF UpsertFlight, TypeOK
<1>2. CASE rows[key] \in Stored
  <2>1. Asked' = Asked /\ Has' = Has \ {f}
    BY <1>1, <1>2, AtHandNext DEF UpsertFlight
  <2>2. Promise!StoreFlight(f)
    BY <1>1, <1>2, <2>1
    DEF UpsertFlight, Keys, Holders, Stored, southwest, history, Promise!StoreFlight,
        Promise!Keys, Promise!Stored
  <2>. QED
    BY <2>2 DEF Promise!Next
<1>3. CASE rows[key] \notin Stored
  BY <1>3, Forgets DEF UpsertFlight, ClearLoop, Goto, southwest, history
<1>. QED
  BY <1>2, <1>3

(* Every step maps to a step of the promise, or leaves it unchanged.       *)
LEMMA StepMaps ==
    ASSUME TypeOK, Place, Listing, Answered, OnFile, Counted, Synced, [Next]_vars
    PROVE  [Promise!Next]_(Promise!vars)
<1>1. ASSUME NEW a \in Accounts, Login(a) \/ LoginFails(a) PROVE Promise!Next
  BY <1>1, Forgets DEF Login, LoginFails, Goto, database, southwest, history
<1>2. ASSUME NEW k \in Keys, RetrieveFails(k) \/ RetrieveRaises(k) PROVE Promise!Next
  BY <1>2, Forgets DEF RetrieveFails, RetrieveRaises, Done, ClearLoop, Goto, database,
         southwest, history
<1>3. CASE Poll \/ EndAccount \/ EndAccounts \/ EndReservation \/ EndReservations
             \/ Schedule \/ Restart
  BY <1>3, Forgets DEF Poll, EndAccount, EndAccounts, EndReservation, EndReservations,
         Schedule, Restart, Done, ClearLoop, Goto, database, southwest, history
<1>4. ASSUME UNCHANGED vars \/ \E x \in Accounts \cup Keys : Expire(x)
      PROVE  UNCHANGED Promise!vars
  <2>1. UNCHANGED <<database, southwest, loop, streak>>
    BY <1>4 DEF Expire, vars, history
  <2>2. UNCHANGED <<Asked, Has>>
    BY <2>1, HandStays
  <2>. QED
    BY <2>1, <2>2 DEF database, southwest, Promise!vars, Promise!database, Promise!answer
<1>. QED
  BY <1>1, <1>2, <1>3, <1>4, UsersMap, SouthwestMaps, LoginMaps, DeactivateAccountMaps,
     UpsertReservationMaps, DeactivateStaleMaps, RetrievedMaps, UpsertFlightMaps
  DEF Next, MainLoop, ProcessAccounts, ProcessReservations

(* The tables change only as users ask and as Southwest's answers warrant, *)
(* whatever fails, dies or is deleted in between: rows are stored for what *)
(* the account held when it was asked, others are deactivated only once    *)
(* all of those are stored, an account is switched off only for its        *)
(* rejections in a row (src/worker/worker.py:296-480, src/worker/db.py:    *)
(* 355-430).                                                               *)
THEOREM Implements == Spec => KeepsPromise
<1>1. TypeOK /\ Place /\ Listing /\ Answered /\ OnFile /\ Counted /\ Synced
          /\ [Next]_vars => [Promise!Next]_(Promise!vars)
  BY StepMaps
<1>. QED
  BY <1>1, InitMaps, TypeCorrect, PlaceHolds, ListingHolds, AnsweredHolds, OnFileHolds,
     CountedHolds, SyncedHolds, PTL
  DEF Spec, KeepsPromise, Promise!Spec
=============================================================================
