--------------------------- MODULE FareMonitoring ---------------------------
(***************************************************************************)
(* What the worker does about fares, in two stages of its main loop.       *)
(*   check_fares (worker.py): what a change of each upcoming flight would  *)
(*     cost or save; every check adds a row to fare_history, and a saving  *)
(*     larger than the one before is told.                                 *)
(*   check_fare_watches (lib/fare_watch.py): the cheapest fare of named    *)
(*     searches at Amadeus; changes go to fare_watch_history, drops and    *)
(*     first fares under the target are told.                              *)
(* Fares change at any time; users delete flights, choose which fares      *)
(* count, add, edit and delete watches while the worker, which read their  *)
(* rows before, waits for an answer; the dates of a watch pass; and the    *)
(* worker crashes.                                                         *)
(*                                                                         *)
(* A saving is a negative amount, in dollars; the prices of watches are in *)
(* cents.  Of each history only the last row matters to later checks.      *)
(***************************************************************************)
EXTENDS Integers, FiniteSets

CONSTANTS
    Flights, Watches,
    Cards,       \* the flights of the day that the shopping page lists
    Mine,        \* the card of the flight itself
    Nonstop,     \* cards of nonstop flights
    Amounts,     \* what a change to a card may cost
    Prices,      \* what Amadeus may find for a watch
    Targets,     \* what users may want to pay
    None,        \* no amount, price or row
    MaxEdits,    \* bound: requests of users
    MaxSlides,   \* bound: changes of one cent
    MaxFaults    \* bound: crashes, notifications and deletions that fail

ASSUME ConstantsOK ==
    /\ Flights \cap Watches = {}
    /\ Mine \in Cards /\ Nonstop \subseteq Cards
    /\ Amounts \subseteq Int /\ Prices \cup Targets \subseteq Nat
    /\ None \notin Amounts \cup {0} \cup Prices \cup Targets
    /\ None \notin Flights \cup Watches
    /\ IsFiniteSet(Cards)
    /\ {MaxEdits, MaxSlides, MaxFaults} \subseteq Nat

VARIABLES
    rows,        \* flights: to be checked, or no longer, or deleted
    lastFare,    \* the last row of each flight's fare_history
    watches,     \* is_active of each watch
    best,        \* best_price
    target,      \* max_price
    lastPrice,   \* the last row of each watch's fare_watch_history
    due,         \* last_fare_check is FARE_CHECK_INTERVAL ago
    dueWatches,  \* watches whose last_checked_at is that old
    passed,      \* watches whose depart_date_end is before today
    configured,  \* the environment has the credentials of Amadeus
    deleting,    \* the watch whose history, but not row, a request deleted
    pc,          \* where the main loop is
    todo,        \* flights or watches the stage has still to check
    cur,         \* the one it is checking
    found,       \* the amount or price it found, until it is told
    read,        \* the rows of the watches, as the stage read them
    told,        \* history: the last amount or price that was told
    rose,        \* history: those found dearer than what was told
    slid,        \* history: one-cent changes that made no row or alert
    retargeted,  \* history: watches whose target was edited
    missed,      \* history: drops whose notification was lost
    cut,         \* history: watches whose rows of history were deleted
    edits, faults

flightTables == <<rows, lastFare>>
watchTables  == <<watches, best, target, lastPrice>>
timers       == <<due, dueWatches, passed>>
loop         == <<pc, todo, cur, found, read>>
history      == <<told, rose, slid, retargeted, missed, cut>>
users        == <<edits, deleting>>
host         == <<faults, configured>>
outside      == <<users, host>>
vars         == <<flightTables, watchTables, timers, loop, history, outside>>

Modes    == {"same_flight", "same_day_nonstop", "same_day"}
Stored   == {"watching", "paused"}
Snapshot == [best : Prices \cup {None}, target : Targets \cup {None}]
NoRead   == [best |-> None, target |-> None]

TypeOK ==
    /\ rows \in [Flights -> {"open", "closed", "deleted"}]
    /\ lastFare \in [Flights -> Amounts \cup {0, None}]
    /\ watches \in [Watches -> Stored \cup {"unused", "deleted"}]
    /\ {best, lastPrice} \subseteq [Watches -> Prices \cup {None}]
    /\ target \in [Watches -> Targets \cup {None}]
    /\ due \in BOOLEAN /\ dueWatches \subseteq Watches /\ passed \subseteq Watches
    /\ configured \in BOOLEAN /\ deleting \in Watches \cup {None}
    /\ pc \in {"idle", "fares", "lookup", "tell", "between",
               "watches", "ask", "alert"}
    /\ todo \subseteq Flights \/ todo \subseteq Watches
    /\ cur \in Flights \cup Watches \cup {None}
    /\ found \in Amounts \cup Prices \cup {None}
    /\ cur # None <=> pc \in {"lookup", "tell", "ask", "alert"}
    /\ found # None <=> pc \in {"tell", "alert"}
    /\ read \in [Watches -> Snapshot]
    /\ told \in [Flights \cup Watches -> Amounts \cup Prices \cup {None}]
    /\ rose \subseteq Flights \cup Watches /\ slid \in [Watches -> 0..MaxSlides]
    /\ retargeted \subseteq Watches /\ missed \subseteq Flights \cup Watches
    /\ cut \subseteq Watches
    /\ edits \in 0..MaxEdits /\ faults \in 0..MaxFaults

Init ==
    /\ rows = [f \in Flights |-> "open"]
    /\ lastFare = [f \in Flights |-> None]
    /\ watches \in [Watches -> {"unused", "watching"}]
    /\ best = [w \in Watches |-> None]
    /\ target \in [Watches -> Targets \cup {None}]
    /\ lastPrice = [w \in Watches |-> None]
    /\ due = TRUE /\ dueWatches = Watches /\ passed = {}
    /\ configured \in BOOLEAN /\ deleting = None
    /\ pc = "idle" /\ todo = {} /\ cur = None /\ found = None
    /\ read = [w \in Watches |-> NoRead]
    /\ told = [x \in Flights \cup Watches |-> None]
    /\ rose = {} /\ slid = [w \in Watches |-> 0]
    /\ retargeted = {} /\ missed = {} /\ cut = {}
    /\ edits = 0 /\ faults = 0

-----------------------------------------------------------------------------
(* Users and time.                                                         *)

(* The frontend serves no other request between two statements of one.     *)
MayEdit == deleting = None /\ edits < MaxEdits /\ edits' = edits + 1

(* With the flight goes its fare history.                                  *)
DeleteFlight(f) ==
    /\ rows[f] # "deleted" /\ MayEdit
    /\ rows' = [rows EXCEPT ![f] = "deleted"]
    /\ lastFare' = [lastFare EXCEPT ![f] = None]
    /\ UNCHANGED <<watchTables, timers, loop, history, deleting, host>>

(* The flight is checked in, or departs.                                   *)
CloseFlight(f) ==
    /\ rows[f] = "open"
    /\ rows' = [rows EXCEPT ![f] = "closed"]
    /\ UNCHANGED <<lastFare, watchTables, timers, loop, history, outside>>

AddWatch(w) ==
    /\ watches[w] = "unused" /\ MayEdit
    /\ watches' = [watches EXCEPT ![w] = "watching"]
    /\ UNCHANGED <<flightTables, best, target, lastPrice, timers, loop,
                   history, deleting, host>>

(* PATCH: pause, resume, or another target.                                *)
EditWatch(w) ==
    /\ watches[w] \in Stored /\ MayEdit
    /\ \/ /\ \E s \in Stored \ {watches[w]} : watches' = [watches EXCEPT ![w] = s]
          /\ UNCHANGED <<target, retargeted>>
       \/ /\ \E p \in Targets \cup {None} : target' = [target EXCEPT ![w] = p]
          /\ retargeted' = retargeted \cup {w}
          /\ UNCHANGED watches
    /\ UNCHANGED <<flightTables, best, lastPrice, timers, loop,
                   told, rose, slid, missed, cut, deleting, host>>

(* DELETE is two statements, and each is committed: the rows of the        *)
(* history, then the watch.                                                *)
DeleteHistory(w) ==
    /\ watches[w] \in Stored /\ MayEdit
    /\ lastPrice' = [lastPrice EXCEPT ![w] = None] /\ cut' = cut \cup {w}
    /\ deleting' = w
    /\ UNCHANGED <<flightTables, watches, best, target, timers, loop,
                   told, rose, slid, retargeted, missed, host>>

DeleteWatch(w) ==
    /\ deleting = w
    /\ watches' = [watches EXCEPT ![w] = "deleted"]
    /\ deleting' = None
    /\ UNCHANGED <<flightTables, best, target, lastPrice, timers, loop,
                   history, edits, host>>

(* The second statement fails, or the frontend dies before it.             *)
DeletionFails ==
    /\ deleting # None /\ deleting' = None
    /\ faults < MaxFaults /\ faults' = faults + 1
    /\ UNCHANGED <<flightTables, watchTables, timers, loop, history, edits,
                   configured>>

(* The last day on which the flight of a watch may depart is over.         *)
DatePasses(w) ==
    /\ w \notin passed /\ passed' = passed \cup {w}
    /\ UNCHANGED <<flightTables, watchTables, due, dueWatches, loop, history,
                   outside>>

(* An interval passes; one that ends during an iteration counts from the   *)
(* next one.                                                               *)
Expire ==
    /\ pc = "idle"
    /\ \/ due' = TRUE /\ UNCHANGED dueWatches
       \/ (\E w \in Watches : dueWatches' = dueWatches \cup {w}) /\ UNCHANGED due
    /\ UNCHANGED <<flightTables, watchTables, passed, loop, history, outside>>

-----------------------------------------------------------------------------
(* check_fares.                                                            *)

Goto(p) == pc' = p

(* The stage takes the next flight or watch.                               *)
GoOn(stage) == Goto(stage) /\ cur' = None /\ found' = None

ClearLoop ==
    /\ GoOn("idle") /\ todo' = {}
    /\ read' = [w \in Watches |-> NoRead]

(* The fares that count in a mode (seat_preferences.fare_check_mode), and  *)
(* the lowest of them; none counts as no change.                           *)
Counts(mode) ==
    CASE mode = "same_flight" -> {Mine}
      [] mode = "same_day_nonstop" -> Nonstop
      [] OTHER -> Cards

Lowest(mode, fares) ==
    LET on     == {fares[c] : c \in Counts(mode)} \ {None}
        lowest == {a \in on : \A b \in on : a <= b}
    IN  IF lowest = {} THEN 0 ELSE CHOOSE a \in lowest : TRUE

(* What a check may find: the mode is the user's, the fares are any.       *)
Findable ==
    {Lowest(mode, fares) :
        mode \in Modes, fares \in [Cards -> Amounts \cup {None}]}

(* Mutant: the row just added is taken for the previous one.               *)
IsNewDropSame(previous, amount) == amount < -1 /\ amount < amount

(* Mutant: every drop is told at every check.                              *)
IsNewDropAlways(previous, amount) == amount < -1

IsNewDrop(previous, amount) ==
    amount < -1 /\ (previous = None \/ amount < previous)

Dearer(x, amount) ==
    IF told[x] # None /\ amount > told[x] THEN rose \cup {x} ELSE rose

StartFares ==
    /\ pc = "idle"
    /\ LET open == {f \in Flights : rows[f] = "open"}
       IN  IF due /\ open # {}
           THEN Goto("fares") /\ todo' = open /\ UNCHANGED due
           ELSE Goto("between") /\ due' = FALSE /\ UNCHANGED todo
    /\ UNCHANGED <<flightTables, watchTables, dueWatches, passed, cur, found,
                   read, history, outside>>

LookUp(f) ==
    /\ pc = "fares" /\ f \in todo
    /\ Goto("lookup") /\ cur' = f /\ todo' = todo \ {f}
    /\ UNCHANGED <<flightTables, watchTables, timers, found, read,
                   history, outside>>

(* Mutant: an error ends the iteration.                                    *)
LookUpFailsForAll(f) ==
    /\ pc = "lookup" /\ cur = f
    /\ ClearLoop
    /\ UNCHANGED <<flightTables, watchTables, timers, history, outside>>

(* Some failures go to the flight's log, and the next flight is checked.   *)
(* If the flight was deleted, the log row violates a foreign key, and so   *)
(* does the one about that: the iteration ends.                            *)
LookUpFails(f) ==
    /\ pc = "lookup" /\ cur = f
    /\ \/ GoOn("fares") /\ UNCHANGED <<todo, read>>
       \/ rows[f] = "deleted" /\ ClearLoop
    /\ UNCHANGED <<flightTables, watchTables, timers, history, outside>>

(* add_fare_check, and the comparison with the row before.                 *)
RecordFare(f, amount) ==
    /\ pc = "lookup" /\ cur = f /\ rows[f] # "deleted"
    /\ lastFare' = [lastFare EXCEPT ![f] = amount]
    /\ rose' = Dearer(f, amount)
    /\ IF IsNewDrop(lastFare[f], amount)
       THEN Goto("tell") /\ found' = amount /\ UNCHANGED cur
       ELSE GoOn("fares")
    /\ UNCHANGED <<rows, watchTables, timers, todo, read,
                   told, slid, retargeted, missed, cut, outside>>

EndFares ==
    /\ pc = "fares" /\ todo = {}
    /\ Goto("between") /\ due' = FALSE
    /\ UNCHANGED <<flightTables, watchTables, dueWatches, passed, todo, cur,
                   found, read, history, outside>>

-----------------------------------------------------------------------------
(* check_fare_watches.                                                     *)

(* Without credentials no watch is read.                                   *)
StartWatches ==
    /\ pc = "between"
    /\ Goto("watches")
    /\ todo' = {w \in dueWatches \ passed : configured /\ watches[w] = "watching"}
    /\ read' = [w \in Watches |->
          IF w \in todo' THEN [best |-> best[w], target |-> target[w]] ELSE NoRead]
    /\ UNCHANGED <<flightTables, watchTables, timers, cur, found,
                   history, outside>>

Ask(w) ==
    /\ pc = "watches" /\ w \in todo
    /\ Goto("ask") /\ cur' = w /\ todo' = todo \ {w}
    /\ UNCHANGED <<flightTables, watchTables, timers, found, read,
                   history, outside>>

(* Mutant: a watch that fails is still due.                                *)
AskFailsAgain(w) ==
    /\ pc = "ask" /\ cur = w
    /\ GoOn("watches")
    /\ UNCHANGED <<flightTables, watchTables, timers, todo, read,
                   history, outside>>

(* No fare was found, or Amadeus failed: the watch was checked.            *)
AskFails(w) ==
    /\ pc = "ask" /\ cur = w
    /\ dueWatches' = dueWatches \ {w}
    /\ GoOn("watches")
    /\ UNCHANGED <<flightTables, watchTables, due, passed, todo, read,
                   history, outside>>

(* Prices are floating-point numbers: a difference of one cent may come    *)
(* out on either side of 0.01.                                             *)
OneCent(p, q) == q # None /\ p - q \in {-1, 1}

(* Mutant: the history only takes lower prices.                            *)
ChangedLower(p, q) == {q = None \/ p < q}

Changed(p, q) == IF OneCent(p, q) THEN BOOLEAN ELSE {p # q}
Dropped(p, q) == IF OneCent(p, q) /\ p < q THEN BOOLEAN ELSE {q # None /\ p < q}

(* Mutant: a first price is never told.                                    *)
UnderTargetNever(w, p) == FALSE

(* Mutant: every price under the target is told.                           *)
UnderTargetAlways(w, p) == read[w].target # None /\ p <= read[w].target

(* The first price that is found is told if it is under the target.        *)
UnderTarget(w, p) ==
    read[w].best = None /\ read[w].target # None /\ p <= read[w].target

(* The rows are written with what was read before Amadeus was asked, the   *)
(* one of the history even if the watch was deleted meanwhile.             *)
RecordPrice(w, p) ==
    /\ pc = "ask" /\ cur = w
    /\ OneCent(p, read[w].best) => slid[w] < MaxSlides
    /\ LET q == read[w].best
       IN  /\ best' = IF watches[w] \in Stored
                      THEN [best EXCEPT ![w] = p] ELSE best
           /\ \E changed \in Changed(p, q) :
                 lastPrice' = IF changed THEN [lastPrice EXCEPT ![w] = p] ELSE lastPrice
           /\ slid' = IF OneCent(p, q)
                      THEN [slid EXCEPT ![w] = @ + 1] ELSE slid
           /\ \E dropped \in Dropped(p, q) :
                 IF dropped \/ UnderTarget(w, p)
                 THEN Goto("alert") /\ found' = p /\ UNCHANGED cur
                 ELSE GoOn("watches")
    /\ rose' = Dearer(w, p)
    /\ dueWatches' = dueWatches \ {w}
    /\ UNCHANGED <<flightTables, watches, target, due, passed, todo, read,
                   told, retargeted, missed, cut, outside>>

EndWatches ==
    /\ pc = "watches" /\ todo = {}
    /\ ClearLoop
    /\ UNCHANGED <<flightTables, watchTables, timers, history, outside>>

-----------------------------------------------------------------------------
(* Notifications, and crashes.                                             *)

Telling == pc \in {"tell", "alert"}

Tell ==
    /\ Telling
    /\ told' = [told EXCEPT ![cur] = found]
    /\ rose' = rose \ {cur} /\ missed' = missed \ {cur}
    /\ GoOn(IF pc = "tell" THEN "fares" ELSE "watches")
    /\ UNCHANGED <<flightTables, watchTables, timers, todo, read,
                   slid, retargeted, cut, outside>>

(* Its error is swallowed.                                                 *)
TellFails ==
    /\ Telling
    /\ faults < MaxFaults /\ faults' = faults + 1
    /\ missed' = missed \cup {cur}
    /\ GoOn(IF pc = "tell" THEN "fares" ELSE "watches")
    /\ UNCHANGED <<flightTables, watchTables, timers, todo, read,
                   told, rose, slid, retargeted, cut, users, configured>>

(* The time of the last fare check is lost.                                *)
Restart ==
    /\ faults < MaxFaults /\ faults' = faults + 1
    /\ missed' = IF Telling THEN missed \cup {cur} ELSE missed
    /\ ClearLoop
    /\ due' = TRUE
    /\ UNCHANGED <<flightTables, watchTables, dueWatches, passed,
                   told, rose, slid, retargeted, cut, users, configured>>

-----------------------------------------------------------------------------
CheckFares ==
    \/ StartFares \/ EndFares
    \/ \E f \in Flights :
          LookUp(f) \/ LookUpFails(f) \/ \E amount \in Findable : RecordFare(f, amount)

CheckFareWatches ==
    \/ StartWatches \/ EndWatches
    \/ \E w \in Watches :
          Ask(w) \/ AskFails(w) \/ \E p \in Prices : RecordPrice(w, p)

MainLoop == CheckFares \/ CheckFareWatches \/ Tell \/ TellFails

Users ==
    \/ \E f \in Flights : DeleteFlight(f) \/ CloseFlight(f)
    \/ DeletionFails
    \/ \E w \in Watches :
          AddWatch(w) \/ EditWatch(w) \/ DeleteHistory(w) \/ DeleteWatch(w)

Time == Expire \/ \E w \in Watches : DatePasses(w)

Next == MainLoop \/ Restart \/ Users \/ Time

Spec     == Init /\ [][Next]_vars
FairSpec == Spec /\ WF_vars(MainLoop)

-----------------------------------------------------------------------------
(* Properties.                                                             *)

(* A saving is told once: again only if it grew, or after a check between  *)
(* found the fare dearer than what was told.                               *)
ToldOnce ==
    [][\A f \in Flights :
          pc = "tell" /\ cur = f /\ pc' = "fares" =>
              told[f] = None \/ found < told[f] \/ f \in rose]_vars

(* So is the price of a watch, although it is compared with a row that was *)
(* read before Amadeus was asked and that users edit or delete meanwhile:  *)
(* it is told again only if it came lower than what was told, or after a   *)
(* check found it dearer than that (fare_watch.py:309-343).                *)
PriceToldOnce ==
    [][\A w \in Watches :
          pc = "alert" /\ cur = w /\ pc' = "watches" =>
              told[w] = None \/ found < told[w] \/ w \in rose]_vars

(* The saving that the last check recorded has been told, as that much or  *)
(* more, unless a notification was lost, whatever failed or was edited     *)
(* between the checks.                                                     *)
SavingIsTold ==
    \A f \in Flights \ missed :
        lastFare[f] # None /\ lastFare[f] < -1 /\ ~(pc = "tell" /\ cur = f) =>
            told[f] # None /\ told[f] <= lastFare[f]

(* The history of a watch ends with its best price, up to one cent for     *)
(* every change of one cent; it is missing only if a request to delete the *)
(* watch has begun, which may fail half-way and leave the watch.           *)
HistoryKeepsUp ==
    \A w \in Watches :
        watches[w] \in Stored /\ best[w] # None =>
            IF lastPrice[w] = None
            THEN w \in cut
            ELSE lastPrice[w] - best[w] \in -slid[w]..slid[w]

(* A price under the target that the watch was made with has been told,    *)
(* unless the target was edited, the notification was lost, or the price   *)
(* came down by a cent at a time.                                          *)
TargetIsTold ==
    \A w \in Watches \ (retargeted \cup missed) :
        /\ watches[w] \in Stored /\ best[w] # None /\ target[w] # None
        /\ best[w] <= target[w] /\ slid[w] = 0
        /\ ~(pc = "alert" /\ cur = w)
        => told[w] # None /\ told[w] <= target[w]

(* A check of the fares ends, although one of a deleted flight ends with   *)
(* the iteration.                                                          *)
FareChecksEnd == due ~> ~due

(* And it does not keep the watches, which come after it, from being       *)
(* checked, unless they are paused or deleted or their dates pass before,  *)
(* or the credentials are taken away.                                      *)
WatchesChecked ==
    \A w \in Watches :
        LET toCheck == /\ configured /\ watches[w] = "watching"
                       /\ w \in dueWatches \ passed
        IN  toCheck ~> ~toCheck
=============================================================================
