--------------------------- MODULE CheckinPromise ---------------------------
(***************************************************************************)
(* What the automatic check-in promises for each flight, without threads,  *)
(* handlers, a main loop or a database that fails: attempts are made only  *)
(* once the window is open, a success is one that Southwest accepted, a    *)
(* finished or cancelled flight is never taken up again, and the           *)
(* passenger is notified at most once.  CheckinWorker implements it.       *)
(***************************************************************************)
CONSTANTS
    Flights,
    Conf        \* a flight's confirmation number

VARIABLES
    status,     \* what has become of each flight
    phase,      \* the wall clock, seen from the flight's departure
    crowded,    \* (history) flights whose check-in could be mistaken
    boarded,    \* Southwest has accepted the check-in
    told        \* outcomes the passenger was notified of

vars == <<status, phase, crowded, boarded, told>>

Init ==
    /\ status = [f \in Flights |-> "unknown"]
    /\ phase = [f \in Flights |-> "early"]
    /\ crowded = {}
    /\ boarded = [f \in Flights |-> FALSE]
    /\ told = [f \in Flights |-> {}]

Becomes(f, s) ==
    /\ status' = [status EXCEPT ![f] = s]
    /\ UNCHANGED <<phase, crowded, boarded, told>>

Find(f)    == status[f] = "unknown" /\ Becomes(f, "waiting")

Attempt(f) == /\ status[f] = "waiting"
              /\ phase[f] \in {"open", "departed"}
              /\ Becomes(f, "attempting")

(* A success is one that Southwest accepted, or the flight's window was    *)
(* open together with that of another flight of its reservation.           *)
Real(f)    == boarded[f] \/ f \in crowded

Succeed(f) == status[f] = "attempting" /\ Real(f) /\ Becomes(f, "success")

(* Also from "success": see DiscoverSeat in CheckinWorker.                 *)
Fail(f)    == /\ status[f] \in {"waiting", "attempting", "success"}
              /\ phase[f] \in {"open", "departed"}
              /\ Becomes(f, "failed")

Cancel(f)  == status[f] \notin {"unknown", "cancelled"} /\ Becomes(f, "cancelled")

(* An attempt for f checks in flights of its reservation; a check-in under *)
(* way when the flight is deleted is not called back.                      *)
Accept(f) ==
    /\ status[f] \in {"attempting", "cancelled"}
    /\ \E accepted \in SUBSET {g \in Flights : Conf[g] = Conf[f] /\ phase[g] = "open"} :
          boarded' = [g \in Flights |-> boarded[g] \/ g \in accepted]
    /\ UNCHANGED <<status, phase, crowded, told>>

Announce(f, outcome) ==
    /\ told[f] = {}
    /\ status[f] \in {outcome, "cancelled"}
    /\ outcome = "success" => Real(f)
    /\ told' = [told EXCEPT ![f] = {outcome}]
    /\ UNCHANGED <<status, phase, crowded, boarded>>

(* Attempts cut short by the end of the process are made again.            *)
Restart ==
    /\ status' = [f \in Flights |->
                    IF status[f] = "attempting" /\ phase[f] # "departed"
                    THEN "waiting" ELSE status[f]]
    /\ UNCHANGED <<phase, crowded, boarded, told>>

NextPhase(p) == CASE p = "early" -> "prep"
                  [] p = "prep"  -> "open"
                  [] p = "open"  -> "departed"

Overlapping == {e \in Flights :
                   /\ phase[e] \in {"open", "departed"}
                   /\ \E g \in Flights \ {e} : Conf[g] = Conf[e] /\ phase[g] = "open"}

TimePasses(f) ==
    /\ phase[f] # "departed"
    /\ phase' = [phase EXCEPT ![f] = NextPhase(phase[f])]
    /\ crowded' = crowded \cup Overlapping'
    /\ UNCHANGED <<status, boarded, told>>

Next ==
    \/ \E f \in Flights :
         \/ Find(f) \/ Attempt(f) \/ Succeed(f) \/ Fail(f) \/ Cancel(f)
         \/ Accept(f) \/ TimePasses(f)
         \/ \E outcome \in {"success", "failed"} : Announce(f, outcome)
    \/ Restart

Spec == Init /\ [][Next]_vars
=============================================================================
