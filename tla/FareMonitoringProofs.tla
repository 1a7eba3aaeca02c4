------------------------ MODULE FareMonitoringProofs ------------------------
(* Proofs about FareMonitoring: types, and what is told of savings and of  *)
(* watched prices, for any flights, watches, fares, edits and faults.      *)
EXTENDS FareMonitoring, TLAPS

-----------------------------------------------------------------------------
(* What a check finds is one of the amounts, or no change.                 *)
LEMMA FindableType == Findable \subseteq Amounts \cup {0}
<1>. SUFFICES ASSUME NEW mode \in Modes, NEW fares \in [Cards -> Amounts \cup {None}]
              PROVE  Lowest(mode, fares) \in Amounts \cup {0}
  BY DEF Findable
<1>. DEFINE on     == {fares[c] : c \in Counts(mode)} \ {None}
            lowest == {a \in on : \A b \in on : a <= b}
<1>1. Counts(mode) \subseteq Cards
  BY ConstantsOK DEF Counts
<1>2. lowest \subseteq Amounts
  BY <1>1
<1>3. CASE lowest = {}
  BY <1>3 DEF Lowest
<1>4. CASE lowest # {}
  <2>1. (CHOOSE a \in lowest : TRUE) \in lowest
    BY <1>4
  <2>. QED
    BY <1>2, <1>4, <2>1 DEF Lowest
<1>. QED
  BY <1>3, <1>4

(* Types: the loop's variables hold a flight or watch, and an amount or    *)
(* price, exactly where it reads them, through failures and restarts.      *)
THEOREM TypeCorrect == Spec => []TypeOK
<1>1. Init => TypeOK
  BY ConstantsOK DEF Init, TypeOK, Stored, Snapshot, NoRead
<1>2. TypeOK /\ [Next]_vars => TypeOK'
  <2>. SUFFICES ASSUME TypeOK, [Next]_vars PROVE TypeOK'
    OBVIOUS
  <2>. USE ConstantsOK DEF TypeOK, Stored, flightTables, watchTables, timers,
           loop, history, users, host, outside, Goto, GoOn, MayEdit
  <2>0. ASSUME ClearLoop
        PROVE  /\ pc' = "idle" /\ todo' = {} /\ cur' = None /\ found' = None
               /\ read' \in [Watches -> Snapshot]
    BY <2>0 DEF ClearLoop, Snapshot, NoRead
  <2>1. CASE StartFares \/ EndFares
    BY <2>1 DEF StartFares, EndFares
  <2>2. ASSUME NEW f \in Flights, LookUp(f) PROVE TypeOK'
    BY <2>2 DEF LookUp
  <2>3. ASSUME NEW f \in Flights, LookUpFails(f) PROVE TypeOK'
    BY <2>0, <2>3 DEF LookUpFails
  <2>4. ASSUME NEW f \in Flights, NEW amount \in Findable, RecordFare(f, amount)
        PROVE  TypeOK'
    <3>1. amount \in Amounts \cup {0}
      BY FindableType
    <3>2. /\ lastFare' = [lastFare EXCEPT ![f] = amount]
          /\ rose' \in {rose, rose \cup {f}}
          /\ \/ IsNewDrop(lastFare[f], amount) /\ pc' = "tell" /\ found' = amount
                  /\ UNCHANGED cur
             \/ pc' = "fares" /\ cur' = None /\ found' = None
      BY <2>4 DEF RecordFare, Dearer
    <3>3. IsNewDrop(lastFare[f], amount) => amount \in Amounts
      BY <3>1 DEF IsNewDrop
    <3>. QED
      BY <2>4, <3>1, <3>2, <3>3 DEF RecordFare
  <2>5. CASE StartWatches
    <3>1. /\ todo' = {w \in dueWatches \ passed : configured /\ watches[w] = "watching"}
          /\ read' = [w \in Watches |->
                IF w \in todo' THEN [best |-> best[w], target |-> target[w]] ELSE NoRead]
      BY <2>5 DEF StartWatches
    <3>2. read' \in [Watches -> Snapshot]
      BY <3>1 DEF Snapshot, NoRead
    <3>. QED
      BY <2>5, <3>1, <3>2 DEF StartWatches
  <2>6. CASE EndWatches
    BY <2>0, <2>6 DEF EndWatches
  <2>7. ASSUME NEW w \in Watches, Ask(w) PROVE TypeOK'
    BY <2>7 DEF Ask
  <2>8. ASSUME NEW w \in Watches, AskFails(w) PROVE TypeOK'
    BY <2>8 DEF AskFails
  <2>9. ASSUME NEW w \in Watches, NEW p \in Prices, RecordPrice(w, p) PROVE TypeOK'
    <3>1. best' \in [Watches -> Prices \cup {None}]
      BY <2>9 DEF RecordPrice
    <3>2. lastPrice' \in [Watches -> Prices \cup {None}]
      BY <2>9 DEF RecordPrice
    <3>3. slid' \in [Watches -> 0..MaxSlides]
      BY <2>9 DEF RecordPrice
    <3>4. \/ pc' = "alert" /\ found' = p /\ UNCHANGED cur
          \/ pc' = "watches" /\ cur' = None /\ found' = None
      BY <2>9 DEF RecordPrice
    <3>5. rose' \subseteq Flights \cup Watches
      BY <2>9 DEF RecordPrice, Dearer
    <3>. QED
      BY <2>9, <3>1, <3>2, <3>3, <3>4, <3>5 DEF RecordPrice
  <2>10. CASE Tell
    BY <2>10 DEF Tell, Telling
  <2>11. CASE TellFails
    BY <2>11 DEF TellFails, Telling
  <2>12. CASE Restart
    BY <2>0, <2>12 DEF Restart, Telling
  <2>13. ASSUME NEW f \in Flights, DeleteFlight(f) \/ CloseFlight(f) PROVE TypeOK'
    BY <2>13 DEF DeleteFlight, CloseFlight
  <2>14. ASSUME NEW w \in Watches, AddWatch(w) \/ DeleteHistory(w) \/ DeleteWatch(w)
         PROVE  TypeOK'
    BY <2>14 DEF AddWatch, DeleteHistory, DeleteWatch
  <2>15. ASSUME NEW w \in Watches, EditWatch(w) PROVE TypeOK'
    BY <2>15 DEF EditWatch
  <2>16. CASE DeletionFails \/ Time
    <3>1. CASE DeletionFails
      BY <3>1 DEF DeletionFails
    <3>2. CASE Expire
      BY <3>2 DEF Expire
    <3>3. ASSUME NEW w \in Watches, DatePasses(w) PROVE TypeOK'
      BY <3>3 DEF DatePasses
    <3>. QED
      BY <2>16, <3>1, <3>2, <3>3 DEF Time
  <2>17. CASE UNCHANGED vars
    BY <2>17 DEF vars
  <2>. QED
    BY <2>1, <2>2, <2>3, <2>4, <2>5, <2>6, <2>7, <2>8, <2>9, <2>10, <2>11,
       <2>12, <2>13, <2>14, <2>15, <2>16, <2>17
    DEF Next, MainLoop, CheckFares, CheckFareWatches, Users
<1>. QED
  BY <1>1, <1>2, PTL DEF Spec

-----------------------------------------------------------------------------
(* Each stage works on rows of its own table, and takes each once.         *)
Stage ==
    /\ pc \in {"idle", "between"} => todo = {}
    /\ pc \in {"fares", "lookup", "tell"} => todo \subseteq Flights
    /\ pc \in {"watches", "ask", "alert"} => todo \subseteq Watches
    /\ pc \in {"lookup", "tell"} => cur \in Flights
    /\ pc \in {"ask", "alert"} => cur \in Watches
    /\ cur \notin todo

LEMMA StageHolds == Spec => []Stage
<1>. USE DEF Stage
<1>1. Init => Stage
  BY DEF Init
<1>2. TypeOK /\ Stage /\ [Next]_vars => Stage'
  <2>. SUFFICES ASSUME TypeOK, Stage, [Next]_vars PROVE Stage'
    OBVIOUS
  <2>. USE ConstantsOK DEF TypeOK, loop, Goto, GoOn, ClearLoop
  <2>1. CASE CheckFares
    BY <2>1 DEF CheckFares, StartFares, EndFares, LookUp, LookUpFails, RecordFare
  <2>2. CASE StartWatches \/ EndWatches
    BY <2>2 DEF StartWatches, EndWatches
  <2>3. ASSUME NEW w \in Watches, Ask(w) \/ AskFails(w) PROVE Stage'
    BY <2>3 DEF Ask, AskFails
  <2>4. ASSUME NEW w \in Watches, NEW p \in Prices, RecordPrice(w, p) PROVE Stage'
    BY <2>4 DEF RecordPrice
  <2>5. CASE Tell \/ TellFails \/ Restart
    BY <2>5 DEF Tell, TellFails, Restart, Telling
  <2>6. CASE Users \/ Time \/ UNCHANGED vars
    BY <2>6 DEF Users, DeleteFlight, CloseFlight, AddWatch, EditWatch,
                DeleteHistory, DeleteWatch, DeletionFails, Time, Expire,
                DatePasses, vars
  <2>. QED
    BY <2>1, <2>2, <2>3, <2>4, <2>5, <2>6 DEF Next, MainLoop, CheckFareWatches
<1>. QED
  BY <1>1, <1>2, TypeCorrect, PTL DEF Spec

-----------------------------------------------------------------------------

(* What is being told is the last row of the flight's history, unless the  *)
(* flight was deleted meanwhile; it was not told before as it is now, nor  *)
(* more than it.                                                           *)
Recorded ==
    pc = "tell" =>
        /\ lastFare[cur] = found \/ (lastFare[cur] = None /\ rows[cur] = "deleted")
        /\ told[cur] = None \/ found < told[cur] \/ cur \in rose

(* A history starts before anything is told, and what is told last is not  *)
(* less than it says, unless the fare rose since.                          *)
Following ==
    \A f \in Flights :
        /\ rows[f] # "deleted" /\ lastFare[f] = None => told[f] = None
        /\ lastFare[f] # None /\ told[f] # None =>
              lastFare[f] <= told[f] \/ f \in rose

Fares == Recorded /\ Following /\ SavingIsTold

(* Amounts and prices are integers, which None is not.                     *)
LEMMA Comparable ==
    \A x \in Amounts \cup Prices \cup Targets \cup {0} : x \in Int /\ x # None
<1>1. \A x \in Amounts : x \in Int /\ x # None
  BY ConstantsOK
<1>2. \A x \in Prices \cup Targets : x \in Int /\ x # None
  BY ConstantsOK
<1>3. 0 \in Int /\ 0 # None
  BY ConstantsOK
<1>. QED
  BY <1>1, <1>2, <1>3

(* A check of a flight: a fare that is a new drop is about to be told; one *)
(* that is not is at least the row before it, which was told.              *)
LEMMA RecordFareStep ==
    ASSUME TypeOK, Fares, NEW f \in Flights, NEW amount \in Findable,
           RecordFare(f, amount)
    PROVE  Fares'
<1>1. amount \in Amounts \cup {0}
  BY FindableType
<1>2. /\ pc = "lookup" /\ rows[f] # "deleted"
      /\ lastFare' = [lastFare EXCEPT ![f] = amount]
      /\ rose' = IF told[f] # None /\ amount > told[f] THEN rose \cup {f} ELSE rose
      /\ IF IsNewDrop(lastFare[f], amount)
         THEN pc' = "tell" /\ found' = amount /\ cur' = f
         ELSE pc' = "fares"
      /\ UNCHANGED <<rows, told, missed>>
  BY DEF RecordFare, Dearer, Goto, GoOn
<1>3. \A g \in Flights : lastFare'[g] = IF g = f THEN amount ELSE lastFare[g]
  BY <1>2 DEF TypeOK
<1>4. /\ amount \in Int /\ amount # None
      /\ lastFare[f] # None => lastFare[f] \in Int
      /\ told[f] # None => told[f] \in Int
  BY <1>1, Comparable DEF TypeOK
<1>5. Following'
  <2>1. \A g \in Flights \ {f} : /\ lastFare'[g] = lastFare[g] /\ told'[g] = told[g]
                                /\ rows'[g] = rows[g] /\ (g \in rose <=> g \in rose')
    BY <1>2, <1>3
  <2>2. told[f] = None \/ amount <= told[f] \/ f \in rose'
    BY <1>2, <1>4
  <2>. QED
    BY <1>2, <1>3, <1>4, <2>1, <2>2 DEF Fares, Following
<1>6. Recorded'
  <2>. SUFFICES ASSUME IsNewDrop(lastFare[f], amount)
                PROVE  told[f] = None \/ amount < told[f] \/ f \in rose'
    BY <1>2, <1>3 DEF Recorded
  <2>1. CASE lastFare[f] = None
    BY <1>2, <2>1 DEF Fares, Following
  <2>2. CASE lastFare[f] # None
    <3>1. amount < lastFare[f]
      BY <2>2 DEF IsNewDrop
    <3>2. told[f] = None \/ lastFare[f] <= told[f] \/ f \in rose
      BY <2>2 DEF Fares, Following
    <3>. QED
      BY <1>2, <1>4, <2>2, <3>1, <3>2
  <2>. QED
    BY <2>1, <2>2
<1>7. SavingIsTold'
  <2>. SUFFICES ASSUME NEW g \in Flights \ missed, lastFare'[g] # None,
                       lastFare'[g] < -1, ~(pc' = "tell" /\ cur' = g)
                PROVE  told[g] # None /\ told[g] <= lastFare'[g]
    BY <1>2 DEF SavingIsTold
  <2>1. CASE g # f
    BY <1>2, <1>3, <2>1 DEF Fares, SavingIsTold
  <2>2. CASE g = f
    <3>1. lastFare[f] # None /\ ~(amount < lastFare[f]) /\ amount < -1
      BY <1>2, <1>3, <2>2 DEF IsNewDrop
    <3>2. lastFare[f] <= amount /\ lastFare[f] < -1
      BY <1>4, <3>1
    <3>3. told[f] # None /\ told[f] <= lastFare[f]
      BY <1>2, <2>2, <3>1, <3>2 DEF Fares, SavingIsTold
    <3>. QED
      BY <1>3, <1>4, <2>2, <3>1, <3>2, <3>3
  <2>. QED
    BY <2>1, <2>2
<1>. QED
  BY <1>5, <1>6, <1>7 DEF Fares

(* And every other step preserves it.                                      *)
LEMMA FaresHold == Spec => []Fares
<1>. USE DEF Fares, Recorded, Following, SavingIsTold
<1>1. Init => Fares
  BY DEF Init
<1>2. TypeOK /\ Stage /\ Fares /\ [Next]_vars => Fares'
  <2>. SUFFICES ASSUME TypeOK, Stage, Fares, [Next]_vars PROVE Fares'
    OBVIOUS
  <2>. USE ConstantsOK DEF flightTables, loop, history, Goto, GoOn, ClearLoop
  <2>0. \A f \in Flights : /\ lastFare[f] \in Amounts \cup {0, None}
                           /\ told[f] \in Amounts \cup Prices \cup {None}
    BY DEF TypeOK
  <2>1. CASE StartFares \/ EndFares
    BY <2>1 DEF StartFares, EndFares
  <2>2. ASSUME NEW f \in Flights, LookUp(f) \/ LookUpFails(f) PROVE Fares'
    BY <2>2 DEF LookUp, LookUpFails
  <2>3. ASSUME NEW f \in Flights, NEW amount \in Findable, RecordFare(f, amount)
        PROVE  Fares'
    BY <2>3, RecordFareStep
  <2>4. CASE StartWatches \/ EndWatches
    BY <2>4 DEF StartWatches, EndWatches
  <2>5. ASSUME NEW w \in Watches, Ask(w) \/ AskFails(w) PROVE Fares'
    BY <2>5 DEF Ask, AskFails
  <2>6. ASSUME NEW w \in Watches, NEW p \in Prices, RecordPrice(w, p) PROVE Fares'
    <3>1. /\ pc = "ask" /\ pc' # "tell" /\ rose \subseteq rose'
          /\ UNCHANGED <<rows, lastFare, told, missed>>
      BY <2>6 DEF RecordPrice, Dearer
    <3>. QED
      BY <3>1
  <2>7. CASE Tell
    <3>1. /\ pc \in {"tell", "alert"} /\ pc' # "tell"
          /\ told' = [told EXCEPT ![cur] = found]
          /\ rose' = rose \ {cur} /\ missed' = missed \ {cur}
          /\ UNCHANGED <<rows, lastFare>>
      BY <2>7 DEF Tell, Telling
    <3>2. found # None /\ found \in Amounts \cup Prices \cup {None}
      BY <3>1 DEF TypeOK
    <3>3. \A f \in Flights : told'[f] = IF f = cur THEN found ELSE told[f]
      BY <3>1 DEF TypeOK
    <3>4. pc = "alert" => cur \notin Flights
      BY DEF Stage
    <3>. QED
      BY <2>0, <3>1, <3>2, <3>3, <3>4
  <2>8. CASE TellFails \/ Restart
    <3>1. /\ pc' # "tell" /\ UNCHANGED <<rows, lastFare, told, rose>>
          /\ missed' = IF pc \in {"tell", "alert"} THEN missed \cup {cur} ELSE missed
      BY <2>8 DEF TellFails, Restart, Telling
    <3>. QED
      BY <3>1
  <2>9. ASSUME NEW f \in Flights, DeleteFlight(f) PROVE Fares'
    <3>1. /\ \A g \in Flights : lastFare'[g] = IF g = f THEN None ELSE lastFare[g]
          /\ \A g \in Flights : rows'[g] = IF g = f THEN "deleted" ELSE rows[g]
          /\ UNCHANGED <<pc, cur, found, told, rose, missed>>
      BY <2>9 DEF DeleteFlight, TypeOK
    <3>. QED
      BY <3>1 DEF Stage
  <2>10. ASSUME NEW f \in Flights, CloseFlight(f) PROVE Fares'
    <3>1. /\ rows[f] = "open"
          /\ \A g \in Flights : rows'[g] = IF g = f THEN "closed" ELSE rows[g]
          /\ UNCHANGED <<lastFare, pc, cur, found, told, rose, missed>>
      BY <2>10 DEF CloseFlight, TypeOK
    <3>. QED
      BY <3>1 DEF Stage
  <2>11. ASSUME NEW w \in Watches,
                \/ AddWatch(w) \/ EditWatch(w)
                \/ DeleteHistory(w) \/ DeleteWatch(w)
         PROVE  Fares'
    BY <2>11 DEF AddWatch, EditWatch, DeleteHistory, DeleteWatch
  <2>12. CASE DeletionFails \/ Time \/ UNCHANGED vars
    BY <2>12 DEF DeletionFails, Time, Expire, DatePasses, vars
  <2>. QED
    BY <2>1, <2>2, <2>3, <2>4, <2>5, <2>6, <2>7, <2>8, <2>9, <2>10, <2>11, <2>12
    DEF Next, MainLoop, CheckFares, CheckFareWatches, Users
<1>. QED
  BY <1>1, <1>2, TypeCorrect, StageHolds, PTL DEF Spec

(* The saving that the last check of a flight found has been told, unless  *)
(* a notification was lost: an error of one flight, an edit or a restart   *)
(* between two checks loses none (src/worker/worker.py:596-650).           *)
THEOREM SavingsAreTold == Spec => []SavingIsTold
  BY FaresHold, PTL DEF Fares

(* No saving is told twice: the comparison with the row before the one     *)
(* just added (src/worker/worker.py:610-623), which is in the database and *)
(* survives a restart, lets a saving through only if it grew, or if a      *)
(* check between the two found the flight dearer.                          *)
THEOREM SavingsToldOnce == Spec => ToldOnce
<1>1. Fares => [\A f \in Flights :
                    pc = "tell" /\ cur = f /\ pc' = "fares" =>
                        told[f] = None \/ found < told[f] \/ f \in rose]_vars
  BY DEF Fares, Recorded
<1>. QED
  BY <1>1, FaresHold, PTL DEF ToldOnce

-----------------------------------------------------------------------------
(* The watches that were read and are still to be written, and what was    *)
(* read of them: no one else writes their best price, and users edit only  *)
(* their target.                                                           *)
Reading(w) ==
    /\ pc \in {"watches", "ask", "alert"}
    /\ w \in todo \/ (pc = "ask" /\ cur = w)

ReadHolds ==
    \A w \in Watches : Reading(w) =>
        /\ watches[w] # "unused" /\ read[w].best = best[w]
        /\ read[w].target = target[w] \/ w \in retargeted

Unpriced == \A w \in Watches : watches[w] = "unused" => best[w] = None

Alerting ==
    pc = "alert" =>
        watches[cur] # "unused" /\ (watches[cur] \in Stored => found = best[cur])

Watched == ReadHolds /\ Unpriced /\ Alerting /\ HistoryKeepsUp /\ TargetIsTold

(* A price is written: the history stays within a cent for every change of *)
(* one, and a price that comes under the target is about to be told.       *)
LEMMA RecordPriceStep ==
    ASSUME TypeOK, Stage, Watched, NEW w \in Watches, NEW p \in Prices,
           RecordPrice(w, p)
    PROVE  Watched'
<1>. DEFINE q == read[w].best
<1>1. /\ pc = "ask" /\ cur = w /\ pc' \in {"watches", "alert"}
      /\ pc' = "alert" => found' = p /\ cur' = w
      /\ OneCent(p, q) => slid[w] < MaxSlides
      /\ best' = IF watches[w] \in Stored THEN [best EXCEPT ![w] = p] ELSE best
      /\ slid' = IF OneCent(p, q) THEN [slid EXCEPT ![w] = @ + 1] ELSE slid
      /\ UNCHANGED <<watches, target, todo, read, told, retargeted, missed, cut>>
  BY DEF RecordPrice, Goto, GoOn
<1>2. PICK changed \in Changed(p, q) :
          lastPrice' = IF changed THEN [lastPrice EXCEPT ![w] = p] ELSE lastPrice
  BY DEF RecordPrice
<1>3. PICK dropped \in Dropped(p, q) :
          pc' = "alert" <=> (dropped \/ UnderTarget(w, p))
  BY DEF RecordPrice, Goto, GoOn
<1>4. /\ watches[w] # "unused" /\ q = best[w]
      /\ read[w].target = target[w] \/ w \in retargeted
  BY <1>1 DEF Watched, ReadHolds, Reading
<1>5. \A v \in Watches :
          /\ best'[v] = IF v = w /\ watches[w] \in Stored THEN p ELSE best[v]
          /\ slid'[v] = IF v = w /\ OneCent(p, q) THEN slid[v] + 1 ELSE slid[v]
          /\ lastPrice'[v] = IF v = w /\ changed THEN p ELSE lastPrice[v]
  BY <1>1, <1>2 DEF TypeOK
<1>6. /\ p \in Int /\ p # None /\ slid[w] \in Nat
      /\ best[w] # None => best[w] \in Int
      /\ lastPrice[w] # None => lastPrice[w] \in Int
      /\ target[w] # None => target[w] \in Int
  <2>1. slid[w] \in 0..MaxSlides /\ MaxSlides \in Nat
    BY ConstantsOK DEF TypeOK
  <2>. QED
    BY <2>1, Comparable DEF TypeOK
<1>. HIDE DEF q
<1>7. ReadHolds'
  <2>1. w \notin todo
    BY <1>1 DEF Stage
  <2>. QED
    BY <1>1, <1>5, <2>1 DEF Watched, ReadHolds, Reading
<1>8. Unpriced'
  BY <1>1, <1>4, <1>5 DEF Watched, Unpriced
<1>9. Alerting'
  BY <1>1, <1>4, <1>5 DEF Alerting
<1>10. HistoryKeepsUp'
  <2>. SUFFICES ASSUME watches[w] \in Stored
                PROVE  IF lastPrice'[w] = None THEN w \in cut
                       ELSE lastPrice'[w] - p \in -slid'[w]..slid'[w]
    BY <1>1, <1>5 DEF Watched, HistoryKeepsUp
  <2>1. slid'[w] \in {slid[w], slid[w] + 1}
    BY <1>5
  <2>2. CASE changed
    BY <1>5, <1>6, <2>1, <2>2
  <2>3. CASE ~changed
    <3>1. best[w] # None
      BY <1>4, <1>6, <2>3 DEF Changed, OneCent
    <3>2. CASE lastPrice[w] = None
      BY <1>5, <2>3, <3>1, <3>2 DEF Watched, HistoryKeepsUp
    <3>3. CASE lastPrice[w] # None
      <4>1. lastPrice[w] - best[w] \in -slid[w]..slid[w]
        BY <3>1, <3>3 DEF Watched, HistoryKeepsUp
      <4>2. CASE OneCent(p, q)
        BY <1>4, <1>5, <1>6, <2>3, <3>1, <3>3, <4>1, <4>2 DEF OneCent
      <4>3. CASE ~OneCent(p, q)
        <5>1. p = best[w]
          BY <1>4, <2>3, <4>3 DEF Changed
        <5>. QED
          BY <1>5, <2>3, <3>3, <4>1, <4>3, <5>1
      <4>. QED
        BY <4>2, <4>3
    <3>. QED
      BY <3>2, <3>3
  <2>. QED
    BY <2>2, <2>3
<1>11. TargetIsTold'
  <2>. SUFFICES ASSUME w \notin retargeted \cup missed, watches[w] \in Stored,
                       target[w] # None, p <= target[w], slid'[w] = 0,
                       pc' # "alert"
                PROVE  told[w] # None /\ told[w] <= target[w]
    BY <1>1, <1>5 DEF Watched, TargetIsTold
  <2>1. ~OneCent(p, q) /\ slid[w] = 0
    BY <1>5, <1>6
  <2>2. best[w] # None
    BY <1>3, <1>4 DEF UnderTarget, q
  <2>3. ~(p < best[w])
    BY <1>3, <1>4, <2>1, <2>2 DEF Dropped
  <2>4. best[w] <= target[w]
    BY <1>6, <2>2, <2>3
  <2>. QED
    BY <1>1, <2>1, <2>2, <2>4 DEF Watched, TargetIsTold
<1>. QED
  BY <1>7, <1>8, <1>9, <1>10, <1>11 DEF Watched

(* The other steps of the loop and the users' preserve it.                 *)
LEMMA WatchedHolds == Spec => []Watched
<1>1. Init => Watched
  BY DEF Init, Watched, ReadHolds, Reading, Unpriced, Alerting,
         HistoryKeepsUp, TargetIsTold
<1>2. TypeOK /\ Stage /\ Watched /\ [Next]_vars => Watched'
  <2>. SUFFICES ASSUME TypeOK, Stage, Watched, [Next]_vars PROVE Watched'
    OBVIOUS
  <2>0. ASSUME UNCHANGED <<watchTables, slid, retargeted, cut>>,
               \A w \in Watches : told'[w] = told[w] /\ (w \in missed => w \in missed'),
               \A w \in Watches : Reading(w)' => Reading(w) /\ read'[w] = read[w],
               pc = "alert" => pc' = "alert" \/ cur \in missed',
               pc' = "alert" => pc = "alert" /\ cur' = cur /\ found' = found
        PROVE  Watched'
    <3>1. ReadHolds' /\ Unpriced' /\ HistoryKeepsUp'
      BY <2>0 DEF Watched, ReadHolds, Unpriced, HistoryKeepsUp, watchTables
    <3>2. Alerting'
      BY <2>0 DEF Watched, Alerting, watchTables
    <3>3. TargetIsTold'
      BY <2>0 DEF Watched, TargetIsTold, watchTables
    <3>. QED
      BY <3>1, <3>2, <3>3 DEF Watched
  <2>1. CASE StartFares \/ EndFares
    BY <2>0, <2>1 DEF StartFares, EndFares, Reading, Goto, history
  <2>2. ASSUME NEW f \in Flights, LookUp(f) \/ LookUpFails(f) PROVE Watched'
    BY <2>0, <2>2 DEF LookUp, LookUpFails, Reading, Goto, GoOn, ClearLoop, history
  <2>3. ASSUME NEW f \in Flights, NEW amount \in Findable, RecordFare(f, amount)
        PROVE  Watched'
    <3>1. /\ pc = "lookup" /\ pc' \in {"tell", "fares"}
          /\ UNCHANGED <<watchTables, slid, retargeted, told, missed, cut>>
      BY <2>3 DEF RecordFare, Goto, GoOn
    <3>. QED
      BY <2>0, <3>1 DEF Reading
  <2>4. CASE StartWatches
    <3>1. /\ pc = "between" /\ pc' = "watches"
          /\ todo' = {w \in dueWatches \ passed : configured /\ watches[w] = "watching"}
          /\ \A w \in todo' \cap Watches :
                read'[w].best = best[w] /\ read'[w].target = target[w]
          /\ UNCHANGED <<watchTables, history>>
      BY <2>4 DEF StartWatches, Goto
    <3>2. ReadHolds'
      BY <3>1 DEF ReadHolds, Reading, watchTables
    <3>. QED
      BY <3>1, <3>2 DEF Watched, Unpriced, Alerting, HistoryKeepsUp, TargetIsTold,
                        watchTables, history
  <2>5. ASSUME NEW w \in Watches, Ask(w) \/ AskFails(w) PROVE Watched'
    BY <2>0, <2>5 DEF Ask, AskFails, Reading, Goto, GoOn, history
  <2>6. ASSUME NEW w \in Watches, NEW p \in Prices, RecordPrice(w, p) PROVE Watched'
    BY <2>6, RecordPriceStep
  <2>7. CASE EndWatches
    BY <2>0, <2>7 DEF EndWatches, Reading, GoOn, Goto, ClearLoop, history
  <2>8. CASE Tell
    <3>1. /\ pc' \in {"fares", "watches"} /\ (pc' = "watches" <=> pc = "alert")
          /\ told' = [told EXCEPT ![cur] = found] /\ missed' = missed \ {cur}
          /\ UNCHANGED <<watchTables, todo, read, slid, retargeted, cut>>
          /\ pc \in {"tell", "alert"}
      BY <2>8 DEF Tell, Telling, GoOn, Goto
    <3>2. \A w \in Watches : told'[w] = IF w = cur THEN found ELSE told[w]
      BY <3>1 DEF TypeOK
    <3>3. ReadHolds' /\ Unpriced' /\ Alerting' /\ HistoryKeepsUp'
      BY <3>1 DEF Watched, ReadHolds, Reading, Unpriced, Alerting, HistoryKeepsUp,
                  watchTables
    <3>4. pc = "alert" => found # None
      BY DEF TypeOK
    <3>5. pc = "tell" => cur \notin Watches
      BY ConstantsOK DEF Stage
    <3>6. TargetIsTold'
      BY <3>1, <3>2, <3>4, <3>5 DEF Watched, Alerting, TargetIsTold, watchTables
    <3>. QED
      BY <3>3, <3>6 DEF Watched
  <2>9. CASE TellFails
    BY <2>0, <2>9 DEF TellFails, Telling, Reading, GoOn, Goto, history
  <2>10. CASE Restart
    BY <2>0, <2>10 DEF Restart, Telling, Reading, ClearLoop, GoOn, Goto, history
  <2>11. ASSUME NEW f \in Flights, DeleteFlight(f) \/ CloseFlight(f) PROVE Watched'
    BY <2>0, <2>11 DEF DeleteFlight, CloseFlight, Reading, loop, history
  <2>12. ASSUME NEW w \in Watches, AddWatch(w) PROVE Watched'
    <3>1. /\ watches[w] = "unused" /\ best[w] = None
          /\ \A v \in Watches : watches'[v] = IF v = w THEN "watching" ELSE watches[v]
          /\ UNCHANGED <<best, target, lastPrice, loop, history>>
      BY <2>12 DEF AddWatch, TypeOK, Watched, Unpriced
    <3>2. ReadHolds' /\ Unpriced'
      BY <3>1 DEF Watched, ReadHolds, Reading, Unpriced, loop, history
    <3>3. Alerting'
      BY <3>1 DEF Watched, Alerting, loop, Stage
    <3>4. HistoryKeepsUp' /\ TargetIsTold'
      BY <3>1 DEF Watched, HistoryKeepsUp, TargetIsTold, loop, history
    <3>. QED
      BY <3>2, <3>3, <3>4 DEF Watched
  <2>13. ASSUME NEW w \in Watches, EditWatch(w) PROVE Watched'
    <3>1. /\ UNCHANGED <<best, lastPrice, loop, told, slid, missed, cut>>
          /\ retargeted \subseteq retargeted'
          /\ \A v \in Watches : target'[v] = target[v] \/ v \in retargeted'
          /\ \A v \in Watches : watches'[v] \in Stored <=> watches[v] \in Stored
          /\ \A v \in Watches : watches'[v] = "unused" <=> watches[v] = "unused"
      BY <2>13 DEF EditWatch, TypeOK, Stored
    <3>2. ReadHolds' /\ Unpriced'
      BY <3>1 DEF Watched, ReadHolds, Reading, Unpriced, loop
    <3>3. Alerting' /\ HistoryKeepsUp'
      BY <3>1 DEF Watched, Alerting, HistoryKeepsUp, loop, Stage
    <3>4. TargetIsTold'
      BY <3>1 DEF Watched, TargetIsTold, loop
    <3>. QED
      BY <3>2, <3>3, <3>4 DEF Watched
  <2>14. ASSUME NEW w \in Watches, DeleteHistory(w) PROVE Watched'
    <3>1. /\ \A v \in Watches : lastPrice'[v] = IF v = w THEN None ELSE lastPrice[v]
          /\ \A v \in Watches : v \in cut' <=> v = w \/ v \in cut
          /\ UNCHANGED <<watches, best, target, loop, told, slid, retargeted, missed>>
      BY <2>14 DEF DeleteHistory, TypeOK
    <3>2. ReadHolds' /\ Unpriced' /\ Alerting' /\ TargetIsTold'
      BY <3>1 DEF Watched, ReadHolds, Reading, Unpriced, Alerting, TargetIsTold, loop
    <3>3. HistoryKeepsUp'
      BY <3>1 DEF Watched, HistoryKeepsUp
    <3>. QED
      BY <3>2, <3>3 DEF Watched
  <2>15. ASSUME NEW w \in Watches, DeleteWatch(w) PROVE Watched'
    <3>1. /\ \A v \in Watches : watches'[v] = IF v = w THEN "deleted" ELSE watches[v]
          /\ UNCHANGED <<best, target, lastPrice, loop, history>>
      BY <2>15 DEF DeleteWatch, TypeOK
    <3>2. ReadHolds' /\ Unpriced'
      BY <3>1 DEF Watched, ReadHolds, Reading, Unpriced, loop, history
    <3>3. Alerting' /\ HistoryKeepsUp' /\ TargetIsTold'
      BY <3>1 DEF Watched, Alerting, HistoryKeepsUp, TargetIsTold, loop, history,
                  Stage, Stored
    <3>. QED
      BY <3>2, <3>3 DEF Watched
  <2>16. CASE DeletionFails \/ Time \/ UNCHANGED vars
    BY <2>0, <2>16 DEF DeletionFails, Time, Expire, DatePasses, vars, Reading,
                       loop, history
  <2>. QED
    BY <2>1, <2>2, <2>3, <2>4, <2>5, <2>6, <2>7, <2>8, <2>9, <2>10, <2>11,
       <2>12, <2>13, <2>14, <2>15, <2>16
    DEF Next, MainLoop, CheckFares, CheckFareWatches, Users
<1>. QED
  BY <1>1, <1>2, TypeCorrect, StageHolds, PTL DEF Spec

(* The history of a watch keeps up with its best price although the two    *)
(* are written from a row read before Amadeus was asked                    *)
(* (src/worker/lib/fare_watch.py:296-343).                                 *)
THEOREM HistoriesKeepUp == Spec => []HistoryKeepsUp
  BY WatchedHolds, PTL DEF Watched

(* A price under the target that a watch was made with is told, unless the *)
(* notification was lost, the target was edited, or the price came down a  *)
(* cent at a time (src/worker/lib/fare_watch.py:309-343).                  *)
THEOREM TargetsAreTold == Spec => []TargetIsTold
  BY WatchedHolds, PTL DEF Watched

-----------------------------------------------------------------------------
(* The prices of a watch that is stored, or that will still be written,    *)
(* start before anything is told of it; the best of them is not above what *)
(* was told, unless a check found it dearer since.  So an alert tells a    *)
(* price for the first time, a lower one, or one that rose between.        *)
Live(w) == watches[w] # "deleted" \/ Reading(w)

Fresh(w) ==
    /\ best[w] = None => told[w] = None
    /\ best[w] # None /\ told[w] # None => best[w] <= told[w] \/ w \in rose

NewToUsers == told[cur] = None \/ found < told[cur] \/ cur \in rose

Afresh ==
    /\ \A w \in Watches : Live(w) => Fresh(w)
    /\ pc = "alert" => NewToUsers

(* A price is written: it is compared with the best one, which nobody else *)
(* writes, and below that it is below what was told.                       *)
LEMMA RecordPriceAfresh ==
    ASSUME TypeOK, Stage, ReadHolds, Afresh, NEW w \in Watches, NEW p \in Prices,
           RecordPrice(w, p)
    PROVE  Afresh'
<1>1. /\ pc = "ask" /\ cur = w /\ pc' \in {"watches", "alert"}
      /\ pc' = "alert" => found' = p /\ cur' = w
      /\ best' = IF watches[w] \in Stored THEN [best EXCEPT ![w] = p] ELSE best
      /\ rose' = Dearer(w, p)
      /\ UNCHANGED <<watches, todo, told>>
  BY DEF RecordPrice, Goto, GoOn
<1>2. PICK dropped \in Dropped(p, best[w]) :
          pc' = "alert" => dropped \/ best[w] = None
  BY <1>1 DEF RecordPrice, Goto, GoOn, UnderTarget, ReadHolds, Reading
<1>3. /\ p \in Int /\ p # None
      /\ best[w] # None => best[w] \in Int
      /\ told[w] # None => told[w] \in Int
  BY Comparable DEF TypeOK
<1>4. Reading(w) /\ Fresh(w)
  BY <1>1 DEF Reading, Afresh, Live
<1>5. told[w] # None => p <= told[w] \/ w \in rose'
  BY <1>1, <1>3 DEF Dearer
<1>6. rose \subseteq rose'
  BY <1>1 DEF Dearer
<1>7. ASSUME NEW v \in Watches, Live(v)' PROVE Fresh(v)'
  <2>1. CASE v # w
    <3>1. best'[v] = best[v] /\ (Reading(v)' => Reading(v))
      BY <1>1, <2>1 DEF TypeOK, Reading
    <3>. QED
      BY <1>1, <1>6, <1>7, <3>1 DEF Afresh, Live, Fresh
  <2>2. CASE v = w
    <3>1. ~Reading(w)'
      BY <1>1 DEF Stage, Reading
    <3>2. watches[w] # "unused"
      BY <1>4 DEF ReadHolds
    <3>3. best'[w] = p
      BY <1>1, <1>7, <2>2, <3>1, <3>2 DEF TypeOK, Live, Stored
    <3>. QED
      BY <1>1, <1>3, <1>5, <2>2, <3>3 DEF Fresh
  <2>. QED
    BY <2>1, <2>2
<1>8. pc' = "alert" => NewToUsers'
  <2>. SUFFICES ASSUME pc' = "alert", told[w] # None
                PROVE  p < told[w] \/ w \in rose'
    BY <1>1 DEF NewToUsers
  <2>1. best[w] # None /\ p < best[w]
    BY <1>2, <1>4 DEF Fresh, Dropped
  <2>. QED
    BY <1>3, <1>4, <1>6, <2>1 DEF Fresh
<1>. QED
  BY <1>7, <1>8 DEF Afresh

(* The other steps preserve it.                                            *)
LEMMA AfreshHolds == Spec => []Afresh
<1>1. Init => Afresh
  BY DEF Init, Afresh, Fresh
<1>2. TypeOK /\ Stage /\ Watched /\ Afresh /\ [Next]_vars => Afresh'
  <2>. SUFFICES ASSUME TypeOK, Stage, Watched, Afresh, [Next]_vars PROVE Afresh'
    OBVIOUS
  <2>0. ASSUME UNCHANGED <<best, told>>,
               \A w \in Watches : w \in rose => w \in rose',
               \A w \in Watches : Live(w)' => Live(w),
               pc' = "alert" => pc = "alert" /\ UNCHANGED <<cur, found>>
        PROVE  Afresh'
    <3>1. pc' = "alert" => NewToUsers'
      BY <2>0 DEF Afresh, NewToUsers, Stage
    <3>. QED
      BY <2>0, <3>1 DEF Afresh, Fresh
  <2>. USE DEF Live, Reading, Goto, GoOn, ClearLoop, watchTables, loop, history
  <2>1. CASE StartFares \/ EndFares
    BY <2>0, <2>1 DEF StartFares, EndFares
  <2>2. ASSUME NEW f \in Flights, LookUp(f) \/ LookUpFails(f) PROVE Afresh'
    BY <2>0, <2>2 DEF LookUp, LookUpFails
  <2>3. ASSUME NEW f \in Flights, NEW amount \in Findable, RecordFare(f, amount)
        PROVE  Afresh'
    <3>1. /\ pc = "lookup" /\ pc' \in {"tell", "fares"} /\ rose \subseteq rose'
          /\ UNCHANGED <<watches, best, told>>
      BY <2>3 DEF RecordFare, Dearer
    <3>. QED
      BY <2>0, <3>1
  <2>4. CASE StartWatches
    <3>1. /\ pc = "between" /\ pc' = "watches"
          /\ todo' = {w \in dueWatches \ passed : configured /\ watches[w] = "watching"}
          /\ UNCHANGED <<watches, best, told, rose>>
      BY <2>4 DEF StartWatches
    <3>. QED
      BY <2>0, <3>1
  <2>5. ASSUME NEW w \in Watches, Ask(w) \/ AskFails(w) PROVE Afresh'
    BY <2>0, <2>5 DEF Ask, AskFails
  <2>6. ASSUME NEW w \in Watches, NEW p \in Prices, RecordPrice(w, p) PROVE Afresh'
    BY <2>6, RecordPriceAfresh DEF Watched
  <2>7. CASE EndWatches
    BY <2>0, <2>7 DEF EndWatches
  <2>8. CASE Tell
    <3>1. /\ pc \in {"tell", "alert"} /\ pc' \in {"fares", "watches"}
          /\ pc = "tell" => cur \notin Watches /\ pc' = "fares"
          /\ told' = [told EXCEPT ![cur] = found] /\ rose' = rose \ {cur}
          /\ UNCHANGED <<watches, best, todo>>
      BY <2>8, ConstantsOK DEF Tell, Telling, Stage
    <3>2. /\ \A w \in Watches : told'[w] = IF w = cur THEN found ELSE told[w]
          /\ found \in Amounts \cup Prices /\ found # None
      BY <3>1 DEF TypeOK
    <3>3. ASSUME NEW w \in Watches, Live(w)' PROVE Fresh(w)'
      <4>1. CASE w # cur
        <5>1. told'[w] = told[w] /\ (w \in rose => w \in rose') /\ Live(w)
          BY <3>1, <3>2, <3>3, <4>1
        <5>. QED
          BY <3>1, <5>1 DEF Afresh, Fresh
      <4>2. CASE w = cur
        <5>1. pc = "alert" /\ cur \notin todo
          BY <3>1, <4>2 DEF Stage
        <5>2. watches[w] \in Stored
          BY <3>1, <3>3, <4>2, <5>1 DEF Watched, Alerting, Stored, TypeOK
        <5>3. best[w] = found
          BY <4>2, <5>1, <5>2 DEF Watched, Alerting
        <5>4. found <= found
          BY <3>2, Comparable
        <5>. QED
          BY <3>1, <3>2, <4>2, <5>3, <5>4 DEF Fresh
      <4>. QED
        BY <4>1, <4>2
    <3>. QED
      BY <3>1, <3>3 DEF Afresh
  <2>9. CASE TellFails \/ Restart
    BY <2>0, <2>9 DEF TellFails, Restart, Telling
  <2>10. ASSUME NEW f \in Flights, DeleteFlight(f) \/ CloseFlight(f) PROVE Afresh'
    BY <2>0, <2>10 DEF DeleteFlight, CloseFlight
  <2>11. ASSUME NEW w \in Watches, AddWatch(w) \/ DeleteHistory(w) \/ DeleteWatch(w)
         PROVE  Afresh'
    <3>1. \A v \in Watches : watches'[v] # "deleted" => watches[v] # "deleted"
      BY <2>11 DEF AddWatch, DeleteHistory, DeleteWatch, TypeOK
    <3>. QED
      BY <2>0, <2>11, <3>1 DEF AddWatch, DeleteHistory, DeleteWatch
  <2>12. ASSUME NEW w \in Watches, EditWatch(w) PROVE Afresh'
    <3>1. \A v \in Watches : watches'[v] # "deleted" => watches[v] # "deleted"
      BY <2>12 DEF EditWatch, TypeOK, Stored
    <3>. QED
      BY <2>0, <2>12, <3>1 DEF EditWatch
  <2>13. CASE DeletionFails \/ Time \/ UNCHANGED vars
    BY <2>0, <2>13 DEF DeletionFails, Time, Expire, DatePasses, vars
  <2>. QED
    BY <2>1, <2>2, <2>3, <2>4, <2>5, <2>6, <2>7, <2>8, <2>9, <2>10, <2>11,
       <2>12, <2>13
    DEF Next, MainLoop, CheckFares, CheckFareWatches, Users
<1>. QED
  BY <1>1, <1>2, TypeCorrect, StageHolds, WatchedHolds, PTL DEF Spec

(* No price of a watch is told twice, unless a check between found it      *)
(* dearer: edits, deletions, lost notifications and restarts repeat none   *)
(* (src/worker/lib/fare_watch.py:296-343).                                 *)
THEOREM PricesToldOnce == Spec => PriceToldOnce
<1>1. Afresh => [\A w \in Watches :
                     pc = "alert" /\ cur = w /\ pc' = "watches" =>
                         told[w] = None \/ found < told[w] \/ w \in rose]_vars
  BY DEF Afresh, NewToUsers
<1>. QED
  BY <1>1, AfreshHolds, PTL DEF PriceToldOnce
=============================================================================
