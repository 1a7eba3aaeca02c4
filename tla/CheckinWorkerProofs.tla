------------------------ MODULE CheckinWorkerProofs ------------------------
(***************************************************************************)
(* Proofs about CheckinWorker, for any number of flights and handlers and  *)
(* any number of faults and restarts.  IInv is the inductive invariant;    *)
(* its parts say how the dictionary active_handlers, the threads, the      *)
(* loop's stale list of rows and the rows themselves fit together.         *)
(***************************************************************************)
EXTENDS CheckinWorker, TLAPS

(* The dictionary and the handler objects refer to each other.             *)
Registry ==
    /\ \A f \in Flights : active[f] # NoHandler =>
          flightOf[active[f]] = f /\ pc[active[f]] # "free"
    /\ \A h \in Handlers :
          /\ pc[h] = "free" => flightOf[h] = NoFlight /\ ~stop[h]
          /\ pc[h] # "free" => flightOf[h] \in Flights
          /\ pc[h] \in {"made", "done"} => active[flightOf[h]] = h
          /\ pc[h] = "made" => ~stop[h]

(* The loop's position and its list of rows, which may be stale: a row it  *)
(* still has to look at and that has no handler has not been taken up by   *)
(* anybody since it was read.                                              *)
LoopState ==
    /\ todo # {} => worker \in {"schedule", "start"}
    /\ worker = "start" =>
          cur \in Flights /\ active[cur] # NoHandler /\ pc[active[cur]] = "made"
    /\ \A h \in Handlers : pc[h] = "made" => worker = "start" /\ flightOf[h] = cur
    /\ worker = "down" =>
          /\ \A f \in Flights : active[f] = NoHandler
          /\ \A h \in Handlers : pc[h] = "free"
    /\ \A f \in todo : active[f] = NoHandler =>
          /\ row[f] \in {"pending", "scheduled", "deleted"}
          /\ told[f] = {}
          /\ \A h \in Handlers : flightOf[h] # f

(* At most one thread, running or about to run, per flight; one that the   *)
(* dictionary no longer holds belongs to a finished or deleted flight.     *)
Exclusive ==
    \A h \in Handlers :
        /\ \A g \in Handlers :
              /\ pc[g] \in Live \cup {"made"}
              /\ pc[h] \in Live \cup {"made"}
              /\ flightOf[g] = flightOf[h]
              => g = h
        /\ pc[h] \in Live /\ (active[flightOf[h]] # h \/ (stop[h] /\ worker # "stopping"))
              => row[flightOf[h]] \in Final \cup {"deleted"}

(* A success that may be recorded and told.                                *)
Real(f) == boarded[f] \/ f \in crowded

(* What a thread's position says of its flight.                            *)
StageOK(h) ==
    LET f == flightOf[h] IN
    /\ pc[h] = "made" => row[f] \in {"pending", "scheduled", "deleted"}
    /\ pc[h] \in Waiting => row[f] \in {"scheduled", "deleted"}
    /\ pc[h] \in {"posting", "accepted", "rejected"} =>
          row[f] \in {"checking_in", "deleted"}
    /\ pc[h] \in {"announce", "discover"} => row[f] \in {"success", "deleted"}
    /\ pc[h] = "apologize" => row[f] \in {"failed", "deleted"}
    /\ pc[h] = "failing" => row[f] \notin {"absent", "pending"}
    /\ pc[h] \in {"accepted", "announce", "discover"} => Real(f)
    /\ pc[h] \in (Live \cup {"made"}) \ {"discover", "failing"} => told[f] = {}
    /\ pc[h] \in Live \ (Waiting \ {"claim"}) => WindowOpen(f)
Stages == \A h \in Handlers : pc[h] # "free" => StageOK(h)

(* What a flight's row and its notifications say.                          *)
RecordOK(f) ==
    /\ row[f] = "success" \/ "success" \in told[f] => Real(f)
    /\ told[f] # {} => row[f] \in Final \cup {"deleted"}
    /\ told[f] # Final
Records == \A f \in Flights : RecordOK(f)

(* The history has every flight that now shares its window.                *)
Crowding == Overlapping \subseteq crowded

Core == TypeOK /\ Registry /\ LoopState /\ Exclusive /\ Stages /\ Records
IInv == Core /\ Crowding

-----------------------------------------------------------------------------
(* What a step of one thread may change: its own position, and the row and *)
(* notifications of its own flight f.  The invariant is preserved by any   *)
(* step of this kind.                                                      *)
Frame(h, f) ==
    /\ flightOf[h] = f
    /\ pc[h] \in Live
    /\ UNCHANGED <<phase, worker, todo, cur, active, restarts>>
    /\ \A g \in Handlers \ {h} :
          pc'[g] = pc[g] /\ flightOf'[g] = flightOf[g] /\ stop'[g] = stop[g]
    /\ \A e \in Flights \ {f} :
          row'[e] = row[e] /\ told'[e] = told[e]
    /\ \A e \in Flights : Real(e) => Real(e)'

(* The thread moves to one of the positions in P, ends as a registered     *)
(* handler, or ends and is gone.                                           *)
Moves(h, f, P) ==
    \/ flightOf'[h] = f /\ stop'[h] = stop[h] /\ pc'[h] \in P
    \/ flightOf'[h] = f /\ stop'[h] = stop[h] /\ pc'[h] = "done" /\ active[f] = h
    \/ flightOf'[h] = NoFlight /\ ~stop'[h] /\ pc'[h] = "free" /\ active[f] # h

RowStep(f) ==
    /\ Progress(row'[f]) >= Progress(row[f])
    /\ row'[f] = row[f] \/ (row[f] \in Statuses /\ row'[f] \in Statuses \ {"pending"})
    /\ row[f] \in Final => row'[f] \in Final

ThreadEffect(h, f) ==
    /\ Frame(h, f)
    /\ Moves(h, f, Live)
    /\ RowStep(f)
    /\ pc'[h] # "free" => StageOK(h)'
    /\ RecordOK(f)'

-----------------------------------------------------------------------------
(* The positions of the threads keep their types.                          *)
LEMMA PositionType ==
  ASSUME TypeOK, NEW h \in Handlers, NEW p \in Pcs, Goto(h, p) \/ EndThread(h)
  PROVE  /\ pc' \in [Handlers -> Pcs]
         /\ flightOf' \in [Handlers -> Flights \cup {NoFlight}]
         /\ stop' \in [Handlers -> BOOLEAN]
  <1> USE DEF TypeOK
  <1>1. CASE Goto(h, p) \/ Goto(h, "done")
    BY <1>1 DEF Goto, Pcs
  <1>2. CASE ~(Goto(h, p) \/ Goto(h, "done"))
    BY <1>2 DEF EndThread, Pcs
  <1>3. QED
    BY <1>1, <1>2

(* Every variable keeps its type.                                          *)
LEMMA TypeStep == TypeOK /\ [Next]_vars => TypeOK'
  <1> SUFFICES ASSUME TypeOK, [Next]_vars PROVE TypeOK'
    OBVIOUS
  <1> USE ConstantsOK DEF TypeOK, Phases, Statuses, Final, Pcs, Live, Waiting,
                          world, sky, loop, threads, budget
  <1>1. CASE StartWorker
    BY <1>1 DEF StartWorker
  <1>2. CASE GetPendingFlights
    BY <1>2 DEF GetPendingFlights
  <1>3. ASSUME NEW f \in Flights, SkipActive(f) \/ FailDeparted(f)
        PROVE TypeOK'
    BY <1>3 DEF SkipActive, FailDeparted
  <1>4. ASSUME NEW f \in Flights, RegisterHandler(f)
        PROVE TypeOK'
    BY <1>4 DEF RegisterHandler
  <1>5. CASE StartHandler
    BY <1>5 DEF StartHandler, UpdateStatus, Exists
  <1>6. CASE EndSchedule \/ AbortIteration \/ BeginShutdown
    BY <1>6 DEF EndSchedule, AbortIteration, BeginShutdown
  <1>7. CASE CleanupHandlers
    <2>1. stop' \in [Handlers -> BOOLEAN]
      BY <1>7, Zenon DEF CleanupHandlers, PopHandlers
    <2>2. active' \in [Flights -> Handlers \cup {NoHandler}]
      BY <1>7 DEF CleanupHandlers, PopHandlers
    <2>3. pc' \in [Handlers -> Pcs]
      BY <1>7 DEF CleanupHandlers, PopHandlers
    <2>4. flightOf' \in [Handlers -> Flights \cup {NoFlight}]
      BY <1>7 DEF CleanupHandlers, PopHandlers
    <2>5. QED
      BY <1>7, <2>1, <2>2, <2>3, <2>4 DEF CleanupHandlers
  <1>8. CASE Crash \/ Exit
    <2>1. ProcessDies
      BY <1>8 DEF Crash, Exit
    <2>2. stop' \in [Handlers -> BOOLEAN]
      BY <2>1, Zenon DEF ProcessDies
    <2>3. QED
      BY <2>1, <2>2 DEF ProcessDies
  <1>9. ASSUME NEW f \in Flights,
               Tick(f) \/ DeleteRow(f) \/ UpsertFlight(f) \/ StopHandler(f)
        PROVE TypeOK'
    <2>1. CASE Tick(f)
      <3>1. phase' \in [Flights -> Phases]
        BY <2>1 DEF Tick, NextPhase
      <3>2. QED
        BY <2>1, <3>1 DEF Tick, Overlapping
    <2>2. CASE DeleteRow(f) \/ UpsertFlight(f)
      BY <2>2 DEF DeleteRow, UpsertFlight
    <2>3. CASE StopHandler(f)
      BY <2>3 DEF StopHandler
    <2>4. QED
      BY <1>9, <2>1, <2>2, <2>3
  <1>10. ASSUME NEW h \in Handlers, AnswerLost(h)
         PROVE TypeOK'
    BY <1>10 DEF AnswerLost, Serve
  <1>11. ASSUME NEW h \in Handlers, Thread(h)
         PROVE TypeOK'
    <2>1. CASE BeginWait(h) \/ WakeForPrep(h) \/ PrepareBrowser(h) \/ WakeForCheckIn(h)
      <3>1. Goto(h, "asleep") \/ Goto(h, "asleep30") \/ Goto(h, "prep")
              \/ Goto(h, "claim") \/ EndThread(h)
        BY <2>1 DEF BeginWait, WakeForPrep, PrepareBrowser, WakeForCheckIn, StoppedOr
      <3>2. UNCHANGED <<row, world, loop, active, budget>>
        BY <2>1 DEF BeginWait, WakeForPrep, PrepareBrowser, WakeForCheckIn
      <3>3. QED
        BY <3>1, <3>2, PositionType
    <2>2. CASE Claim(h) \/ RecordSuccess(h) \/ RecordFailure(h)
      <3>1. PICK s \in Statuses, p \in Live : WriteThen(h, s, p)
        BY <2>2 DEF Claim, RecordSuccess, RecordFailure
      <3>2. Goto(h, p) \/ Goto(h, "failing")
        BY <3>1 DEF WriteThen
      <3>3. QED
        BY <3>1, <3>2, PositionType DEF WriteThen, UpdateStatus
    <2>3. CASE AttemptReturns(h) \/ AttemptRaises(h)
      <3>1. PICK p \in Live : Goto(h, p)
        BY <2>3 DEF AttemptReturns, AttemptRaises
      <3>2. boarded' \in [Flights -> BOOLEAN]
        BY <2>3 DEF AttemptReturns, AttemptRaises, Serve
      <3>3. UNCHANGED <<row, sky, told, loop, active, budget>>
        BY <2>3 DEF AttemptReturns, AttemptRaises
      <3>4. QED
        BY <3>1, <3>2, <3>3, PositionType
    <2>4. CASE AnnounceSuccess(h) \/ AnnounceFailure(h)
      BY <2>4, PositionType DEF AnnounceSuccess, AnnounceFailure
    <2>5. CASE DiscoverSeat(h) \/ LastResort(h)
      BY <2>5, PositionType DEF DiscoverSeat, LastResort, UpdateStatus
    <2>6. QED
      BY <1>11, <2>1, <2>2, <2>3, <2>4, <2>5 DEF Thread
  <1>12. CASE UNCHANGED vars
    BY <1>12 DEF vars
  <1>13. QED
    BY <1>1, <1>2, <1>3, <1>4, <1>5, <1>6, <1>7, <1>8, <1>9, <1>10, <1>11, <1>12
       DEF Next, Loop

(* Every variable keeps its type: the statuses are those the rest of the   *)
(* program knows, a handler's thread is at one of its steps (worker.py:    *)
(* 235-293, 1342-1443; checkin_handler.py:108-297).                        *)
THEOREM TypeCorrect == Spec => []TypeOK
  <1>1. Init => TypeOK
    BY ConstantsOK DEF Init, TypeOK, Phases, Statuses, Final, Pcs, Live, Waiting
  <1>2. QED
    BY <1>1, TypeStep, PTL DEF Spec

-----------------------------------------------------------------------------
(* Steps of a thread have a ThreadEffect.                                  *)

(* The ranks of the statuses.                                             *)
LEMMA ProgressBounds ==
  ASSUME TypeOK, NEW f \in Flights
  PROVE  /\ Progress(row[f]) \in 0..6
         /\ row[f] \in Statuses => Progress(row[f]) \in 1..5
         /\ row'[f] = row[f] => Progress(row'[f]) >= Progress(row[f])
  <1>1. row[f] \in Statuses \cup {"absent", "deleted"}
    BY DEF TypeOK
  <1>2. Progress(row[f]) \in 0..6 /\ (row[f] \in Statuses => Progress(row[f]) \in 1..5)
    BY <1>1 DEF Progress, Statuses
  <1>3. QED
    BY <1>2

(* Going to another step, or ending, touches only the thread itself.      *)
LEMMA MoveEffect ==
  ASSUME TypeOK, Registry, NEW h \in Handlers, NEW f \in Flights, flightOf[h] = f,
         NEW p \in Live, pc[h] \in Live, Goto(h, p) \/ EndThread(h)
  PROVE  /\ \A g \in Handlers \ {h} :
              pc'[g] = pc[g] /\ flightOf'[g] = flightOf[g] /\ stop'[g] = stop[g]
         /\ Moves(h, f, {p})
  <1> USE DEF TypeOK
  <1>1. CASE Goto(h, p) \/ Goto(h, "done")
    <2>1. /\ \A g \in Handlers \ {h} : pc'[g] = pc[g]
          /\ UNCHANGED <<flightOf, stop>>
      BY <1>1 DEF Goto
    <2>2. pc'[h] = p \/ (pc'[h] = "done" /\ active[f] = h)
      BY <1>1 DEF Goto, EndThread
    <2>3. QED
      BY <2>1, <2>2 DEF Moves
  <1>2. CASE ~(Goto(h, p) \/ Goto(h, "done"))
    BY <1>2 DEF EndThread, Moves
  <1>3. QED
    BY <1>1, <1>2

(* A step that leaves rows and notifications alone and keeps its stage.    *)
LEMMA SilentMove ==
  ASSUME TypeOK, Registry, NEW h \in Handlers, NEW f \in Flights, flightOf[h] = f,
         pc[h] \in Live, StageOK(h), RecordOK(f), NEW p \in Live,
         Goto(h, p) \/ EndThread(h),
         UNCHANGED <<row, sky, boarded, told, loop, active, restarts>>,
         p \in Waiting => pc[h] \in Waiting,
         p \notin Waiting \/ p = "claim" => WindowOpen(f),
         p \notin Waiting => pc[h] \in {"posting", "discover"},
         p \notin {"posting", "accepted", "announce", "discover", "apologize"},
         p = "rejected" => pc[h] = "posting"
  PROVE  ThreadEffect(h, f)
  <1> USE DEF Real
  <1>1. /\ \A g \in Handlers \ {h} :
              pc'[g] = pc[g] /\ flightOf'[g] = flightOf[g] /\ stop'[g] = stop[g]
        /\ Moves(h, f, {p})
    BY MoveEffect
  <1>2. Frame(h, f) /\ Moves(h, f, Live) /\ RowStep(f)
    BY <1>1, ProgressBounds DEF Frame, Moves, RowStep, sky, loop
  <1>3. RecordOK(f)'
    BY DEF RecordOK, sky
  <1>4. ASSUME pc'[h] = p, flightOf'[h] = f PROVE StageOK(h)'
    BY <1>4 DEF StageOK, WindowOpen, sky, Live, Waiting
  <1>5. pc'[h] = "done" /\ flightOf'[h] = f => StageOK(h)'
    BY DEF StageOK, Live, Waiting
  <1>6. QED
    BY <1>1, <1>2, <1>3, <1>4, <1>5 DEF ThreadEffect, Moves

(* A status write, or the announcement that follows one.                   *)
LEMMA WriteMove ==
  ASSUME TypeOK, Registry, NEW h \in Handlers, NEW f \in Flights, flightOf[h] = f,
         pc[h] \in Live \ (Waiting \ {"claim"}), StageOK(h), RecordOK(f),
         NEW s \in Statuses, NEW p \in Live, WriteThen(h, s, p),
         \/ pc[h] = "claim" /\ s = "checking_in" /\ p = "posting"
         \/ pc[h] = "accepted" /\ s = "success" /\ p = "announce"
         \/ pc[h] = "rejected" /\ s = "failed" /\ p = "apologize"
  PROVE  ThreadEffect(h, f)
  <1> USE DEF Real
  <1>1. PICK q \in {p, "failing"} :
          /\ Goto(h, q)
          /\ q = p => row'[f] = s /\ row[f] \in Statuses
    BY DEF WriteThen, UpdateStatus, Exists, TypeOK
  <1>2. /\ \A g \in Handlers \ {h} :
              pc'[g] = pc[g] /\ flightOf'[g] = flightOf[g] /\ stop'[g] = stop[g]
        /\ pc'[h] = q /\ flightOf'[h] = f /\ stop'[h] = stop[h]
    <2>1. /\ \A g \in Handlers \ {h} : pc'[g] = pc[g]
          /\ pc'[h] = q
      BY <1>1 DEF Goto, TypeOK
    <2>2. UNCHANGED <<flightOf, stop>>
      BY <1>1 DEF Goto
    <2>3. QED
      BY <2>1, <2>2
  <1>3. /\ UNCHANGED <<world, loop, active, restarts>>
        /\ \A e \in Flights \ {f} : row'[e] = row[e]
        /\ row'[f] = row[f] \/ (row[f] \in Statuses /\ row'[f] = s)
    BY DEF WriteThen, UpdateStatus, Exists, TypeOK
  <1>4. Frame(h, f) /\ Moves(h, f, Live)
    BY <1>1, <1>2, <1>3 DEF Frame, Moves, Live, Waiting, world, sky, loop
  <1>5. row[f] \notin Final
    BY DEF StageOK, Live, Waiting, Final
  <1>6. RowStep(f)
    <2>1. row[f] \in Statuses => Progress(s) >= Progress(row[f])
      BY DEF StageOK, Live, Waiting, Statuses, Progress
    <2>2. QED
      BY <1>3, <1>5, <2>1, ProgressBounds DEF RowStep, Statuses
  <1>7. RecordOK(f)'
    BY <1>3, <1>5 DEF RecordOK, StageOK, Live, Waiting, world, sky, Final
  <1>8. told'[f] = {} /\ (Real(f) => Real(f)') /\ WindowOpen(f)'
    BY <1>3 DEF StageOK, WindowOpen, Live, Waiting, world, sky
  <1>9. StageOK(h)'
    <2>1. CASE q = "failing"
      BY <1>2, <1>3, <1>8, <2>1 DEF StageOK, Live, Waiting, Statuses
    <2>2. CASE q = p
      BY <1>1, <1>2, <1>8, <2>2 DEF StageOK, Live, Waiting
    <2>3. QED
      BY <2>1, <2>2
  <1>10. QED
    BY <1>4, <1>6, <1>7, <1>9 DEF ThreadEffect

(* An answer lists the thread's own flight, or one that shares its window: *)
(* only flights with an open window are listed, and a thread posts only    *)
(* when its flight's window is open.                                       *)
LEMMA ListedIsReal ==
  ASSUME Crowding, NEW h \in Handlers, NEW f \in Flights, flightOf[h] = f,
         WindowOpen(f), UNCHANGED crowded, \E e \in Open(h) : boarded'[e]
  PROVE  Real(f)'
  <1>1. PICK e \in Flights : Conf[e] = Conf[f] /\ phase[e] = "open" /\ boarded'[e]
    BY DEF Open
  <1>2. e # f => f \in crowded
    BY <1>1 DEF Crowding, Overlapping
  <1>3. QED
    BY <1>1, <1>2 DEF Real

(* Every step of a thread has one of the effects of ThreadEffect.         *)
LEMMA ThreadHasEffect ==
  ASSUME TypeOK, Registry, Stages, Records, Crowding, NEW h \in Handlers,
         Thread(h) \/ AnswerLost(h)
  PROVE  \E f \in Flights : ThreadEffect(h, f)
  <1>1. pc[h] \in Live
    BY DEF Thread, AnswerLost, BeginWait, WakeForPrep, PrepareBrowser,
           WakeForCheckIn, Claim, AttemptReturns, AttemptRaises, RecordSuccess,
           AnnounceSuccess, DiscoverSeat, RecordFailure, AnnounceFailure,
           LastResort, Live, Waiting
  <1>2. PICK f \in Flights : flightOf[h] = f
    BY <1>1 DEF Registry, Live, Waiting
  <1>3. StageOK(h) /\ RecordOK(f)
    BY <1>1 DEF Stages, Records, Live, Waiting
  <1>4. SUFFICES ThreadEffect(h, f)
    OBVIOUS
  <1>5. CASE BeginWait(h) \/ WakeForPrep(h) \/ PrepareBrowser(h) \/ WakeForCheckIn(h)
    <2>1. PICK p \in {"asleep", "asleep30", "prep", "claim"} :
             /\ Goto(h, p) \/ EndThread(h)
             /\ p = "claim" => WindowOpen(f)
      BY <1>2, <1>5 DEF BeginWait, WakeForPrep, PrepareBrowser, WakeForCheckIn, StoppedOr
    <2>2. /\ UNCHANGED <<row, sky, boarded, told, loop, active, restarts>>
          /\ pc[h] \in Waiting \ {"claim"}
      BY <1>5 DEF BeginWait, WakeForPrep, PrepareBrowser, WakeForCheckIn, Waiting, world,
                  budget
    <2>3. p \in Waiting /\ p \in Live
      BY DEF Waiting, Live
    <2>4. QED
      BY <1>1, <1>2, <1>3, <2>1, <2>2, <2>3, SilentMove DEF Waiting
  <1>6. CASE Claim(h) \/ RecordSuccess(h) \/ RecordFailure(h)
    <2>1. PICK s \in Statuses, p \in Live :
             /\ WriteThen(h, s, p)
             /\ \/ pc[h] = "claim" /\ s = "checking_in" /\ p = "posting"
                \/ pc[h] = "accepted" /\ s = "success" /\ p = "announce"
                \/ pc[h] = "rejected" /\ s = "failed" /\ p = "apologize"
      BY <1>6 DEF Claim, RecordSuccess, RecordFailure, Statuses, Live, Waiting
    <2>2. pc[h] \in Live \ (Waiting \ {"claim"})
      BY <1>1, <2>1 DEF Waiting
    <2>3. QED
      BY <1>2, <1>3, <2>1, <2>2, WriteMove
  <1>7. CASE AnswerLost(h) \/ AttemptReturns(h)
    <2>1. /\ pc[h] = "posting" /\ WindowOpen(f)
          /\ UNCHANGED <<row, phase, crowded, told, worker, todo, cur, active, restarts>>
          /\ Serve(h)
      BY <1>2, <1>3, <1>7 DEF AnswerLost, AttemptReturns, StageOK, sky, loop, budget,
                              Live, Waiting
    <2>2. \A e \in Flights : Real(e) => Real(e)'
      BY <2>1 DEF Serve, Real
    <2>3. AttemptReturns(h) => Real(f)'
      BY <1>2, <2>1, ListedIsReal DEF AttemptReturns
    <2>4. PICK p \in {"posting", "accepted"} : Goto(h, p) /\ (p = "accepted" => Real(f)')
      BY <1>7, <2>1, <2>3 DEF AnswerLost, AttemptReturns, Goto, threads, TypeOK
    <2>5. /\ flightOf'[h] = f /\ stop'[h] = stop[h] /\ pc'[h] = p
          /\ \A g \in Handlers \ {h} :
                pc'[g] = pc[g] /\ flightOf'[g] = flightOf[g] /\ stop'[g] = stop[g]
      BY <1>2, <2>4 DEF Goto, TypeOK
    <2>6. Frame(h, f) /\ Moves(h, f, Live) /\ RowStep(f)
      <3>1. Frame(h, f)
        BY <1>1, <1>2, <2>1, <2>2, <2>5 DEF Frame
      <3>2. Moves(h, f, Live)
        BY <2>4, <2>5 DEF Moves, Live
      <3>3. RowStep(f)
        BY <2>1, ProgressBounds DEF RowStep
      <3>4. QED
        BY <3>1, <3>2, <3>3
    <2>7. StageOK(h)'
      BY <1>2, <1>3, <2>1, <2>4, <2>5 DEF StageOK, WindowOpen, Live, Waiting
    <2>8. RecordOK(f)'
      BY <1>3, <2>1, <2>2 DEF RecordOK
    <2>9. QED
      BY <2>6, <2>7, <2>8 DEF ThreadEffect
  <1>8. CASE AttemptRaises(h)
    <2>1. PICK p \in {"rejected", "failing"} : Goto(h, p)
      BY <1>8 DEF AttemptRaises
    <2>2. UNCHANGED <<row, sky, boarded, told, loop, active, restarts>> /\ pc[h] = "posting"
      BY <1>8 DEF AttemptRaises, world, budget
    <2>3. p \in Live \ Waiting /\ WindowOpen(f)
      BY <1>2, <1>3, <2>2 DEF StageOK, Waiting, Live
    <2>4. QED
      BY <1>1, <1>2, <1>3, <2>1, <2>2, <2>3, SilentMove
  <1>9. CASE DiscoverSeat(h)
    <2>1. /\ Goto(h, "failing") \/ EndThread(h)
          /\ pc[h] = "discover"
          /\ UNCHANGED <<row, sky, boarded, told, loop, active, restarts>>
      BY <1>9 DEF DiscoverSeat, world
    <2>2. WindowOpen(f) /\ "failing" \in Live \ Waiting
      BY <1>2, <1>3, <2>1 DEF StageOK, Waiting, Live
    <2>3. QED
      BY <1>1, <1>2, <1>3, <2>1, <2>2, SilentMove
  <1>10. CASE AnnounceSuccess(h) \/ AnnounceFailure(h)
    <2>1. PICK o \in Final :
             /\ told' = [told EXCEPT ![f] = @ \cup {o}]
             /\ o = "success" => pc[h] = "announce" /\ Goto(h, "discover")
             /\ o = "failed" => pc[h] = "apologize" /\ EndThread(h)
      BY <1>2, <1>10 DEF AnnounceSuccess, AnnounceFailure, Final
    <2>2. /\ UNCHANGED <<row, sky, boarded, loop, active, restarts>>
          /\ pc[h] \in {"announce", "apologize"}
      BY <1>10 DEF AnnounceSuccess, AnnounceFailure, budget
    <2>3. Goto(h, "discover") \/ EndThread(h)
      BY <2>1 DEF Final
    <2>4. /\ \A g \in Handlers \ {h} :
                pc'[g] = pc[g] /\ flightOf'[g] = flightOf[g] /\ stop'[g] = stop[g]
          /\ Moves(h, f, {"discover"})
      BY <1>1, <1>2, <2>3, MoveEffect DEF Live
    <2>5. /\ told[f] = {} /\ told'[f] = {o}
          /\ \A e \in Flights \ {f} : told'[e] = told[e]
      BY <1>2, <1>3, <2>1, <2>2 DEF StageOK, TypeOK, Live, Waiting
    <2>6. Frame(h, f) /\ Moves(h, f, Live) /\ RowStep(f)
      BY <1>1, <1>2, <2>2, <2>4, <2>5, ProgressBounds
         DEF Frame, Moves, RowStep, Real, sky, loop, Live
    <2>7. RecordOK(f)'
      BY <1>2, <1>3, <2>1, <2>2, <2>5 DEF RecordOK, StageOK, Real, sky, Final
    <2>8. pc'[h] # "free" => StageOK(h)'
      <3>1. CASE pc'[h] = "done"
        BY <3>1 DEF StageOK, Live, Waiting
      <3>2. CASE pc'[h] = "discover" /\ pc[h] = "announce" /\ flightOf'[h] = f
        BY <1>2, <1>3, <2>2, <3>2 DEF StageOK, WindowOpen, Real, sky, Live, Waiting
      <3>3. QED
        BY <2>1, <2>4, <3>1, <3>2 DEF Moves, Goto, EndThread, TypeOK, Final
    <2>9. QED
      BY <2>6, <2>7, <2>8 DEF ThreadEffect
  <1>11. CASE LastResort(h)
    <2>1. /\ pc[h] = "failing" /\ EndThread(h)
          /\ UNCHANGED <<world, loop, active, restarts>>
          /\ row' = row \/ (Exists(f) /\ row' = [row EXCEPT ![f] = "failed"])
      BY <1>2, <1>11 DEF LastResort, UpdateStatus
    <2>2. /\ \A g \in Handlers \ {h} :
                pc'[g] = pc[g] /\ flightOf'[g] = flightOf[g] /\ stop'[g] = stop[g]
          /\ Moves(h, f, {"failing"})
      BY <1>1, <1>2, <2>1, MoveEffect DEF Live
    <2>3. /\ \A e \in Flights \ {f} : row'[e] = row[e]
          /\ row'[f] = row[f] \/ (row[f] \in Statuses /\ row'[f] = "failed")
      BY <2>1 DEF TypeOK, Exists
    <2>4. Frame(h, f) /\ Moves(h, f, Live) /\ RowStep(f)
      <3>1. Progress("failed") = 5
        BY DEF Progress
      <3>2. QED
        BY <1>1, <1>2, <2>1, <2>2, <2>3, <3>1, ProgressBounds
           DEF Frame, Moves, RowStep, Real, world, sky, loop, Live, Statuses, Final
    <2>5. RecordOK(f)'
      BY <1>3, <2>1, <2>3 DEF RecordOK, Real, world, sky, Final
    <2>6. pc'[h] # "free" => pc'[h] = "done"
      BY <1>2, <2>1 DEF EndThread, Goto, TypeOK
    <2>7. pc'[h] = "done" => StageOK(h)'
      BY DEF StageOK, Live, Waiting
    <2>8. QED
      BY <2>4, <2>5, <2>6, <2>7 DEF ThreadEffect
  <1>12. QED
    BY <1>5, <1>6, <1>7, <1>8, <1>9, <1>10, <1>11 DEF Thread

-----------------------------------------------------------------------------
(* The invariant is preserved by every step.                               *)

(* Whatever a thread does, the invariant is preserved.                    *)
LEMMA EffectPreserves ==
  ASSUME IInv, TypeOK', NEW h \in Handlers, NEW f \in Flights, ThreadEffect(h, f)
  PROVE  Core'
  <1> USE DEF IInv, Core, Real
  <1>1. flightOf[h] = f /\ pc[h] \in Live /\ pc[h] \notin {"free", "made", "done"}
    BY DEF ThreadEffect, Frame, Live, Waiting
  <1>2. /\ UNCHANGED <<phase, worker, todo, cur, active>>
        /\ \A g \in Handlers \ {h} :
              pc'[g] = pc[g] /\ flightOf'[g] = flightOf[g] /\ stop'[g] = stop[g]
        /\ \A e \in Flights \ {f} :
              row'[e] = row[e] /\ told'[e] = told[e]
        /\ \A e \in Flights : Real(e) => Real(e)'
    BY DEF ThreadEffect, Frame
  <1>3. Moves(h, f, Live) /\ RowStep(f) /\ RecordOK(f)' /\ (pc'[h] # "free" => StageOK(h)')
    BY DEF ThreadEffect
  <1>4. f \in Flights /\ NoFlight \notin Flights /\ NoHandler \notin Handlers
    BY ConstantsOK
  <1>5. Registry'
    <2>1. \A e \in Flights : active'[e] # NoHandler =>
             flightOf'[active'[e]] = e /\ pc'[active'[e]] # "free"
      BY <1>1, <1>2, <1>3, <1>4 DEF Registry, Moves, TypeOK, Live, Waiting
    <2>2. ASSUME NEW g \in Handlers
          PROVE  /\ pc'[g] = "free" => flightOf'[g] = NoFlight /\ ~stop'[g]
                 /\ pc'[g] # "free" => flightOf'[g] \in Flights
                 /\ pc'[g] \in {"made", "done"} => active'[flightOf'[g]] = g
                 /\ pc'[g] = "made" => ~stop'[g]
      <3>1. CASE g = h
        BY <1>1, <1>2, <1>3, <1>4, <3>1 DEF Moves, Live, Waiting
      <3>2. CASE g # h
        BY <1>2, <3>2 DEF Registry
      <3>3. QED
        BY <3>1, <3>2
    <2>3. QED
      BY <2>1, <2>2 DEF Registry
  <1>6. LoopState'
    <2>1. \A g \in Handlers : pc'[g] = "made" <=> pc[g] = "made"
      BY <1>1, <1>2, <1>3 DEF Moves, Live, Waiting
    <2>2. worker # "down"
      BY <1>1 DEF LoopState
    <2>3. \A g \in Handlers : pc'[g] = "made" => worker' = "start" /\ flightOf'[g] = cur'
      BY <1>1, <1>2, <2>1 DEF LoopState
    <2>4. worker' = "start" =>
            cur' \in Flights /\ active'[cur'] # NoHandler /\ pc'[active'[cur']] = "made"
      BY <1>2, <2>1 DEF LoopState, TypeOK
    <2>5. ASSUME NEW e \in todo, active[e] = NoHandler
          PROVE  /\ row'[e] \in {"pending", "scheduled", "deleted"}
                 /\ told'[e] = {}
                 /\ \A g \in Handlers : flightOf'[g] # e
      <3>1. e # f /\ e \in Flights
        BY <1>1, <2>5 DEF LoopState, TypeOK
      <3>2. QED
        BY <1>2, <1>3, <1>4, <2>5, <3>1 DEF LoopState, Moves
    <2>6. QED
      BY <1>2, <2>2, <2>3, <2>4, <2>5 DEF LoopState
  <1>7. Exclusive'
    <2>1. ASSUME NEW g \in Handlers, g # h, pc[g] \in Live \cup {"made"}
          PROVE  flightOf[g] # f /\ flightOf[g] \in Flights
      BY <1>1, <2>1 DEF Exclusive, Registry, Live, Waiting
    <2>2. ASSUME NEW g \in Handlers, NEW k \in Handlers,
                 pc'[g] \in Live \cup {"made"}, pc'[k] \in Live \cup {"made"},
                 flightOf'[g] = flightOf'[k]
          PROVE  g = k
      BY <1>1, <1>2, <1>3, <2>1, <2>2 DEF Exclusive, Moves, Live, Waiting
    <2>3. ASSUME NEW g \in Handlers, pc'[g] \in Live,
                 active'[flightOf'[g]] # g \/ (stop'[g] /\ worker' # "stopping")
          PROVE  row'[flightOf'[g]] \in Final \cup {"deleted"}
      <3>1. CASE g = h
        <4>1. flightOf'[h] = f /\ stop'[h] = stop[h]
          BY <1>3, <2>3, <3>1 DEF Moves, Live, Waiting
        <4>2. row[f] \in Final \cup {"deleted"}
          BY <1>1, <1>2, <2>3, <3>1, <4>1 DEF Exclusive
        <4>3. QED
          BY <1>3, <3>1, <4>1, <4>2 DEF RowStep, Statuses, Final
      <3>2. CASE g # h
        BY <1>2, <2>1, <2>3, <3>2 DEF Exclusive
      <3>3. QED
        BY <3>1, <3>2
    <2>4. QED
      BY <2>2, <2>3 DEF Exclusive
  <1>8. Stages'
    <2>1. ASSUME NEW g \in Handlers, g # h, pc[g] \in Live \cup {"made"} PROVE StageOK(g)'
      <3>1. flightOf[g] # f /\ flightOf[g] \in Flights /\ StageOK(g)
        BY <1>1, <2>1 DEF Exclusive, Registry, Stages, Live, Waiting
      <3>2. QED
        BY <1>2, <2>1, <3>1 DEF StageOK, WindowOpen
    <2>2. ASSUME NEW g \in Handlers, g # h, pc[g] = "done" PROVE StageOK(g)'
      BY <1>2, <2>2 DEF StageOK, Live, Waiting
    <2>3. \A g \in Handlers \ {h} : pc[g] \in Live \cup {"made", "done", "free"}
      BY DEF TypeOK, Pcs
    <2>4. QED
      BY <1>2, <1>3, <2>1, <2>2, <2>3 DEF Stages
  <1>9. Records'
    <2>1. ASSUME NEW e \in Flights, e # f PROVE RecordOK(e)'
      BY <1>2, <2>1 DEF Records, RecordOK
    <2>2. QED
      BY <1>3, <2>1 DEF Records
  <1>10. QED
    BY <1>5, <1>6, <1>7, <1>8, <1>9

(* The steps of the environment and of the main loop.                      *)
LEMMA EnvironmentPreserves ==
  ASSUME IInv, TypeOK', NEW f \in Flights, Tick(f) \/ DeleteRow(f) \/ UpsertFlight(f)
  PROVE  Core'
  <1> USE DEF IInv, Core, Real
  <1>1. CASE Tick(f)
    <2>1. /\ UNCHANGED <<row, told, worker, todo, cur, active, pc, flightOf, stop>>
          /\ \A e \in Flights : Real(e) => Real(e)'
      BY <1>1 DEF Tick, loop, threads
    <2>2. \A e \in Flights : WindowOpen(e) => WindowOpen(e)'
      BY <1>1 DEF Tick, NextPhase, WindowOpen, TypeOK
    <2>3. Stages'
      BY <2>1, <2>2 DEF Stages, StageOK, Registry
    <2>4. QED
      BY <2>1, <2>3 DEF Registry, LoopState, Exclusive, Records, RecordOK
  <1>2. CASE DeleteRow(f)
    <2>1. /\ UNCHANGED <<phase, crowded, boarded, told, worker, todo, cur, active, pc, flightOf, stop>>
          /\ row'[f] = "deleted" /\ \A e \in Flights \ {f} : row'[e] = row[e]
      BY <1>2 DEF DeleteRow, world, sky, loop, threads, TypeOK
    <2>2. Stages'
      BY <2>1 DEF Stages, StageOK, WindowOpen, Registry
    <2>3. Exclusive'
      BY <2>1 DEF Exclusive, Registry, Live, Waiting, Final
    <2>4. Records'
      BY <2>1 DEF Records, RecordOK
    <2>5. LoopState'
      BY <2>1 DEF LoopState, TypeOK
    <2>6. QED
      BY <2>1, <2>2, <2>3, <2>4, <2>5 DEF Registry
  <1>3. CASE UpsertFlight(f)
    <2>1. /\ UNCHANGED <<phase, crowded, boarded, told, worker, todo, cur, active, pc, flightOf, stop>>
          /\ worker = "retrieve" /\ row[f] = "absent" /\ row'[f] = "pending"
          /\ \A e \in Flights \ {f} : row'[e] = row[e]
      BY <1>3 DEF UpsertFlight, world, sky, loop, threads, TypeOK
    <2>2. \A h \in Handlers : pc[h] \in Live \cup {"made"} => flightOf[h] # f
      BY <2>1 DEF Stages, StageOK, Live, Waiting
    <2>3. ASSUME NEW h \in Handlers, pc[h] # "free" PROVE StageOK(h)'
      <3>1. CASE pc[h] = "done"
        BY <2>1, <3>1 DEF StageOK, Live, Waiting
      <3>2. CASE pc[h] \in Live \cup {"made"}
        BY <2>1, <2>2, <2>3, <3>2 DEF Stages, StageOK, WindowOpen, Registry
      <3>3. QED
        BY <2>3, <3>1, <3>2 DEF TypeOK, Pcs
    <2>4. Exclusive'
      BY <2>1, <2>2 DEF Exclusive, Registry, Live, Waiting
    <2>5. Records'
      BY <2>1 DEF Records, RecordOK, Final
    <2>6. LoopState'
      BY <2>1 DEF LoopState, TypeOK
    <2>7. QED
      BY <2>1, <2>3, <2>4, <2>5, <2>6 DEF Registry, Stages
  <1>4. QED
    BY <1>1, <1>2, <1>3

(* The steps of the loop that leave handlers and statuses alone, and       *)
(* the recovery at startup, preserve it.                                   *)
LEMMA LoopPreserves ==
  ASSUME IInv, TypeOK',
         \/ StartWorker \/ GetPendingFlights \/ EndSchedule \/ AbortIteration
         \/ BeginShutdown \/ \E f \in Flights : SkipActive(f)
  PROVE  Core'
  <1> USE DEF IInv, Core, Real
  <1>1. /\ UNCHANGED <<phase, crowded, boarded, told, cur, active, pc, flightOf, stop>>
        /\ ~StartWorker => UNCHANGED row
    BY DEF StartWorker, GetPendingFlights, EndSchedule, AbortIteration, BeginShutdown,
           SkipActive, world, sky, loop, threads
  <1>2. worker # "start" /\ (worker' = "start" => UNCHANGED worker)
    BY DEF StartWorker, GetPendingFlights, EndSchedule, AbortIteration, BeginShutdown,
           SkipActive
  <1>3. \A h \in Handlers : pc[h] # "made"
    BY <1>2 DEF LoopState
  <1>4. Registry'
    BY <1>1 DEF Registry
  <1>5. CASE StartWorker
    <2>1. /\ \A h \in Handlers : pc[h] = "free"
          /\ worker' = "retrieve" /\ todo' = todo /\ todo = {}
          /\ \A e \in Flights : row'[e] = row[e]
                               \/ (row[e] = "checking_in" /\ row'[e] = "pending")
      BY <1>5 DEF StartWorker, LoopState, TypeOK
    <2>2. Stages' /\ Exclusive' /\ LoopState'
      BY <1>1, <2>1 DEF Stages, Exclusive, LoopState, Live, Waiting
    <2>3. Records'
      BY <1>1, <2>1 DEF Records, RecordOK, Final
    <2>4. QED
      BY <1>4, <2>2, <2>3
  <1>6. CASE ~StartWorker
    <2>1. UNCHANGED row /\ worker' # "down" /\ worker # "down" /\ worker # "stopping"
      BY <1>1, <1>6 DEF GetPendingFlights, EndSchedule, AbortIteration, BeginShutdown,
                        SkipActive
    <2>2. Stages' /\ Records'
      BY <1>1, <2>1 DEF Stages, StageOK, WindowOpen, Records, RecordOK
    <2>3. Exclusive'
      BY <1>1, <2>1 DEF Exclusive
    <2>4. todo' # {} => worker' \in {"schedule", "start"}
      BY <1>6 DEF GetPendingFlights, EndSchedule, AbortIteration, BeginShutdown,
                  SkipActive, LoopState
    <2>5. ASSUME NEW e \in todo', active[e] = NoHandler
          PROVE  /\ row[e] \in {"pending", "scheduled", "deleted"}
                 /\ told[e] = {}
                 /\ \A h \in Handlers : flightOf[h] # e
      <3>1. CASE GetPendingFlights
        <4>1. e \in Flights /\ row[e] \in {"pending", "scheduled"}
          BY <2>5, <3>1 DEF GetPendingFlights
        <4>2. told[e] = {}
          BY <4>1 DEF Records, RecordOK, Final
        <4>3. ASSUME NEW h \in Handlers, flightOf[h] = e PROVE FALSE
          <5>1. pc[h] \in Live \cup {"done"} /\ active[e] # h
            BY <1>3, <2>5, <4>1, <4>3, ConstantsOK DEF Registry, TypeOK, Pcs
          <5>2. QED
            BY <4>1, <4>3, <5>1 DEF Exclusive, Registry, Final
        <4>4. QED
          BY <4>1, <4>2, <4>3
      <3>2. CASE ~GetPendingFlights
        <4>1. e \in todo
          BY <1>6, <2>5, <3>2 DEF EndSchedule, AbortIteration, BeginShutdown, SkipActive,
                                  loop
        <4>2. QED
          BY <2>5, <4>1 DEF LoopState
      <3>3. QED
        BY <3>1, <3>2
    <2>6. LoopState'
      BY <1>1, <1>2, <1>3, <2>1, <2>4, <2>5 DEF LoopState
    <2>7. QED
      BY <1>4, <2>2, <2>3, <2>6
  <1>7. QED
    BY <1>5, <1>6

(* A flight that departed since it was read is failed.                    *)
LEMMA FailDepartedPreserves ==
  ASSUME IInv, TypeOK', NEW f \in Flights, FailDeparted(f)
  PROVE  Core'
  <1> USE DEF IInv, Core, Real
  <1>1. /\ UNCHANGED <<phase, crowded, boarded, told, cur, active, pc, flightOf, stop>>
        /\ worker = "schedule" /\ f \in todo /\ active[f] = NoHandler
        /\ worker' \in {"schedule", "retrieve"}
        /\ todo' \subseteq todo \ {f} /\ (worker' # worker => todo' = {})
        /\ \A e \in Flights \ {f} : row'[e] = row[e]
        /\ row'[f] = row[f] \/ (row[f] \in Statuses /\ row'[f] = "failed")
    BY DEF FailDeparted, Exists, world, sky, threads, TypeOK
  <1>2. /\ \A h \in Handlers : flightOf[h] # f
        /\ row[f] \in {"pending", "scheduled", "deleted"}
        /\ told[f] = {}
        /\ f \in Flights
    BY <1>1 DEF LoopState
  <1>3. Registry'
    BY <1>1 DEF Registry
  <1>4. LoopState'
    BY <1>1 DEF LoopState, TypeOK
  <1>5. Exclusive'
    BY <1>1, <1>2 DEF Exclusive, Registry, Live, Waiting
  <1>6. Stages'
    BY <1>1, <1>2 DEF Stages, StageOK, WindowOpen, Registry
  <1>7. Records'
    BY <1>1, <1>2 DEF Records, RecordOK, Final
  <1>8. QED
    BY <1>3, <1>4, <1>5, <1>6, <1>7

(* A new handler is the only one of its flight, because the dictionary has *)
(* none and no thread that was taken out of it can belong to a flight that *)
(* is still waiting.                                                       *)
LEMMA RegisterPreserves ==
  ASSUME IInv, TypeOK', NEW f \in Flights, RegisterHandler(f)
  PROVE  Core'
  <1> USE DEF IInv, Core, Real
  <1>1. PICK h \in Handlers :
          /\ pc[h] = "free"
          /\ active' = [active EXCEPT ![f] = h]
          /\ pc' = [pc EXCEPT ![h] = "made"]
          /\ flightOf' = [flightOf EXCEPT ![h] = f]
    BY DEF RegisterHandler
  <1>2. /\ UNCHANGED <<row, phase, crowded, boarded, told, stop>>
        /\ worker = "schedule" /\ f \in todo /\ active[f] = NoHandler
        /\ worker' = "start" /\ todo' = todo \ {f} /\ cur' = f
    BY DEF RegisterHandler, world, sky
  <1>3. /\ \A g \in Handlers : flightOf[g] # f
        /\ row[f] \in {"pending", "scheduled", "deleted"}
        /\ told[f] = {}
        /\ \A g \in Handlers : pc[g] # "made"
        /\ ~stop[h]
    BY <1>1, <1>2 DEF LoopState, Registry
  <1>4. /\ active'[f] = h /\ \A e \in Flights \ {f} : active'[e] = active[e]
        /\ pc'[h] = "made" /\ \A g \in Handlers \ {h} : pc'[g] = pc[g]
        /\ flightOf'[h] = f /\ \A g \in Handlers \ {h} : flightOf'[g] = flightOf[g]
    BY <1>1 DEF TypeOK
  <1>5. h # NoHandler /\ \A e \in Flights : active[e] # h
    BY <1>1, ConstantsOK DEF Registry
  <1>6. Registry'
    <2>1. \A e \in Flights : active'[e] # NoHandler =>
             flightOf'[active'[e]] = e /\ pc'[active'[e]] # "free"
      BY <1>4, <1>5 DEF Registry, TypeOK
    <2>2. ASSUME NEW g \in Handlers
          PROVE  /\ pc'[g] = "free" => flightOf'[g] = NoFlight /\ ~stop'[g]
                 /\ pc'[g] # "free" => flightOf'[g] \in Flights
                 /\ pc'[g] \in {"made", "done"} => active'[flightOf'[g]] = g
                 /\ pc'[g] = "made" => ~stop'[g]
      <3>1. CASE g = h
        BY <1>2, <1>3, <1>4, <3>1
      <3>2. CASE g # h
        BY <1>2, <1>3, <1>4, <3>2 DEF Registry
      <3>3. QED
        BY <3>1, <3>2
    <2>3. QED
      BY <2>1, <2>2 DEF Registry
  <1>7. LoopState'
    <2>1. \A g \in Handlers : pc'[g] = "made" => worker' = "start" /\ flightOf'[g] = cur'
      BY <1>2, <1>3, <1>4
    <2>2. ASSUME NEW e \in todo', active'[e] = NoHandler
          PROVE  /\ row'[e] \in {"pending", "scheduled", "deleted"}
                 /\ told'[e] = {}
                 /\ \A g \in Handlers : flightOf'[g] # e
      BY <1>2, <1>4, <2>2 DEF LoopState, TypeOK
    <2>3. QED
      BY <1>2, <1>4, <1>5, <2>1, <2>2 DEF LoopState
  <1>8. Exclusive'
    <2>1. ASSUME NEW g \in Handlers, g # h, pc[g] \in Live
          PROVE  flightOf[g] # f /\ flightOf[g] \in Flights
      BY <1>3, <2>1 DEF Registry, Live, Waiting
    <2>2. \A g \in Handlers \ {h} : pc'[g] \in Live \cup {"made"} => pc[g] \in Live
      BY <1>3, <1>4
    <2>3. ASSUME NEW g \in Handlers, NEW k \in Handlers,
                 pc'[g] \in Live \cup {"made"}, pc'[k] \in Live \cup {"made"},
                 flightOf'[g] = flightOf'[k]
          PROVE  g = k
      BY <1>4, <2>1, <2>2, <2>3 DEF Exclusive
    <2>4. ASSUME NEW g \in Handlers, pc'[g] \in Live,
                 active'[flightOf'[g]] # g \/ (stop'[g] /\ worker' # "stopping")
          PROVE  row'[flightOf'[g]] \in Final \cup {"deleted"}
      <3>1. g # h
        BY <1>4, <2>4 DEF Live, Waiting
      <3>2. QED
        BY <1>2, <1>4, <2>1, <2>2, <2>4, <3>1 DEF Exclusive
    <2>5. QED
      BY <2>3, <2>4 DEF Exclusive
  <1>9. Stages'
    <2>1. StageOK(h)'
      BY <1>2, <1>3, <1>4 DEF StageOK, Live, Waiting
    <2>2. ASSUME NEW g \in Handlers, g # h, pc[g] # "free" PROVE StageOK(g)'
      BY <1>2, <1>4, <2>2 DEF Stages, StageOK, WindowOpen
    <2>3. QED
      BY <1>4, <2>1, <2>2 DEF Stages
  <1>10. Records'
    BY <1>2 DEF Records, RecordOK
  <1>11. QED
    BY <1>6, <1>7, <1>8, <1>9, <1>10

(* A handler is started, or taken out of the registry again.              *)
LEMMA StartHandlerPreserves ==
  ASSUME IInv, TypeOK', StartHandler
  PROVE  Core'
  <1> USE DEF IInv, Core, Real
  <1>1. PICK f \in Flights, h \in Handlers :
          /\ cur = f /\ active[f] = h /\ h # NoHandler
          /\ pc[h] = "made" /\ flightOf[h] = f /\ ~stop[h]
    BY DEF StartHandler, LoopState, Registry, TypeOK
  <1>2. /\ UNCHANGED <<phase, crowded, boarded, told, todo, stop>>
        /\ worker = "start" /\ worker' = "schedule"
        /\ \A e \in Flights \ {f} : row'[e] = row[e] /\ active'[e] = active[e]
        /\ \A g \in Handlers \ {h} : pc'[g] = pc[g] /\ flightOf'[g] = flightOf[g]
    BY <1>1 DEF StartHandler, UpdateStatus, world, sky, TypeOK
  <1>3. \/ /\ pc'[h] = "started" /\ active'[f] = h /\ flightOf'[h] = f
           /\ row'[f] = "scheduled"
        \/ /\ pc'[h] = "free" /\ active'[f] = NoHandler /\ flightOf'[h] = NoFlight
           /\ row'[f] \in {row[f], "scheduled"}
    BY <1>1 DEF StartHandler, UpdateStatus, TypeOK
  <1>4. /\ row[f] \in {"pending", "scheduled", "deleted"} /\ told[f] = {}
        /\ \A g \in Handlers \ {h} : pc[g] # "made"
        /\ \A g \in Handlers \ {h} : flightOf[g] # f
    <2>1. /\ row[f] \in {"pending", "scheduled", "deleted"} /\ told[f] = {}
      BY <1>1 DEF Stages, StageOK
    <2>2. ASSUME NEW g \in Handlers, g # h, pc[g] = "made" \/ flightOf[g] = f PROVE FALSE
      <3>1. CASE pc[g] = "made"
        BY <1>1, <2>2, <3>1 DEF LoopState, Exclusive
      <3>2. CASE pc[g] \in Live
        BY <1>1, <2>2, <3>2 DEF Exclusive, Live, Waiting
      <3>3. CASE pc[g] \in {"done", "free"}
        BY <1>1, <2>2, <3>3, ConstantsOK DEF Registry
      <3>4. QED
        BY <3>1, <3>2, <3>3 DEF TypeOK, Pcs
    <2>3. QED
      BY <2>1, <2>2
  <1>5. \A e \in Flights : active[e] = h => e = f
    BY <1>1 DEF Registry
  <1>6. \A g \in Handlers : pc'[g] # "made"
    BY <1>2, <1>3, <1>4
  <1>7. Registry'
    <2>1. \A e \in Flights : active'[e] # NoHandler =>
             flightOf'[active'[e]] = e /\ pc'[active'[e]] # "free"
      BY <1>1, <1>2, <1>3, <1>5 DEF Registry, TypeOK
    <2>2. ASSUME NEW g \in Handlers
          PROVE  /\ pc'[g] = "free" => flightOf'[g] = NoFlight /\ ~stop'[g]
                 /\ pc'[g] # "free" => flightOf'[g] \in Flights
                 /\ pc'[g] \in {"made", "done"} => active'[flightOf'[g]] = g
                 /\ pc'[g] = "made" => ~stop'[g]
      <3>1. CASE g = h
        BY <1>1, <1>2, <1>3, <3>1
      <3>2. CASE g # h
        BY <1>2, <1>4, <3>2 DEF Registry
      <3>3. QED
        BY <3>1, <3>2
    <2>3. QED
      BY <2>1, <2>2 DEF Registry
  <1>8. LoopState'
    <2>1. ASSUME NEW e \in todo', active'[e] = NoHandler
          PROVE  /\ row'[e] \in {"pending", "scheduled", "deleted"}
                 /\ told'[e] = {}
                 /\ \A g \in Handlers : flightOf'[g] # e
      <3>1. e \in Flights /\ e \in todo /\ NoFlight # e
        BY <1>2, <2>1, ConstantsOK DEF TypeOK
      <3>2. CASE e = f
        BY <1>1, <1>2, <1>3, <1>4, <2>1, <3>1, <3>2
      <3>3. CASE e # f
        BY <1>1, <1>2, <1>3, <2>1, <3>1, <3>3 DEF LoopState
      <3>4. QED
        BY <3>2, <3>3
    <2>2. QED
      BY <1>2, <1>6, <2>1 DEF LoopState
  <1>9. Exclusive'
    <2>1. ASSUME NEW g \in Handlers, pc'[g] \in Live, g # h
          PROVE  /\ pc[g] \in Live /\ flightOf'[g] = flightOf[g]
                 /\ flightOf[g] \in Flights \ {f}
      BY <1>2, <1>4, <2>1 DEF Registry, Live, Waiting
    <2>2. ASSUME NEW g \in Handlers, NEW k \in Handlers,
                 pc'[g] \in Live, pc'[k] \in Live, flightOf'[g] = flightOf'[k]
          PROVE  g = k
      BY <1>3, <2>1, <2>2 DEF Exclusive, Live, Waiting
    <2>3. ASSUME NEW g \in Handlers, pc'[g] \in Live,
                 active'[flightOf'[g]] # g \/ (stop'[g] /\ worker' # "stopping")
          PROVE  row'[flightOf'[g]] \in Final \cup {"deleted"}
      <3>1. g # h
        BY <1>1, <1>2, <1>3, <2>3 DEF Live, Waiting
      <3>2. QED
        BY <1>2, <2>1, <2>3, <3>1 DEF Exclusive
    <2>4. QED
      BY <1>6, <2>2, <2>3 DEF Exclusive
  <1>10. Stages'
    <2>1. pc'[h] # "free" => StageOK(h)'
      BY <1>2, <1>3, <1>4 DEF StageOK, Live, Waiting
    <2>2. ASSUME NEW g \in Handlers, g # h, pc[g] # "free" PROVE StageOK(g)'
      BY <1>2, <1>4, <2>2 DEF Stages, StageOK, WindowOpen, Registry
    <2>3. QED
      BY <1>2, <2>1, <2>2 DEF Stages
  <1>11. Records'
    <2>1. RecordOK(f)'
      BY <1>2, <1>3, <1>4 DEF RecordOK, Final
    <2>2. ASSUME NEW e \in Flights, e # f PROVE RecordOK(e)'
      BY <1>2, <2>2 DEF Records, RecordOK
    <2>3. QED
      BY <2>1, <2>2 DEF Records
  <1>12. QED
    BY <1>7, <1>8, <1>9, <1>10, <1>11

(* Only handlers of finished flights leave the dictionary, so the threads  *)
(* among them satisfy the second part of Exclusive.                        *)
LEMMA CleanupPreserves ==
  ASSUME IInv, TypeOK', CleanupHandlers
  PROVE  Core'
  <1> USE DEF IInv, Core, Real
  <1> DEFINE Resolved(f) == row[f] \in Final \/ ~Exists(f)
             Gone(h) == pc[h] = "done" /\ Resolved(flightOf[h])
  <1>1. /\ UNCHANGED <<row, phase, crowded, boarded, told, todo, cur>>
        /\ worker = "cleanup" /\ worker' = "retrieve" /\ todo = {}
    BY DEF CleanupHandlers, world, sky, LoopState
  <1>2. \A f \in Flights : active'[f] = IF Resolved(f) THEN NoHandler ELSE active[f]
    BY DEF CleanupHandlers, PopHandlers
  <1> DEFINE S == {f \in Flights : Resolved(f)}
             Popped == {active[f] : f \in S}
  <1>3. ASSUME NEW h \in Handlers
        PROVE  /\ h \in Popped /\ pc[h] = "done" <=> Gone(h)
               /\ h \in Popped => flightOf[h] \in S /\ pc[h] # "free"
    <2>1. h \in Popped => \E f \in Flights : active[f] = h /\ Resolved(f)
      OBVIOUS
    <2>2. h # NoHandler
      BY ConstantsOK
    <2>3. h \in Popped => flightOf[h] \in S /\ pc[h] # "free"
      BY <2>1, <2>2 DEF Registry
    <2>4. Gone(h) => h \in Popped
      BY DEF Registry
    <2>5. QED
      BY <2>3, <2>4
  <1>4. ASSUME NEW h \in Handlers
        PROVE  /\ Gone(h) => pc'[h] = "free" /\ flightOf'[h] = NoFlight
               /\ ~Gone(h) => pc'[h] = pc[h] /\ flightOf'[h] = flightOf[h]
    BY <1>3 DEF CleanupHandlers, PopHandlers
  <1>5. ASSUME NEW h \in Handlers
        PROVE  stop'[h] = (~Gone(h) /\ (h \in Popped \/ stop[h]))
    <2>1. stop'[h] = (~(h \in Popped /\ pc[h] = "done") /\ (h \in Popped \/ stop[h]))
      BY Zenon DEF CleanupHandlers, PopHandlers
    <2>2. QED
      BY <1>3, <2>1, Zenon
  <1>6. \A h \in Handlers : pc[h] # "made"
    BY <1>1 DEF LoopState
  <1> HIDE DEF Gone, Popped, S
  <1>7. Registry'
    <2>1. ASSUME NEW e \in Flights, active'[e] # NoHandler
          PROVE  flightOf'[active'[e]] = e /\ pc'[active'[e]] # "free"
      <3>1. ~Resolved(e) /\ active'[e] = active[e] /\ active[e] \in Handlers
        BY <1>2, <2>1 DEF TypeOK
      <3>2. flightOf[active[e]] = e /\ pc[active[e]] # "free"
        BY <2>1, <3>1 DEF Registry
      <3>3. ~Gone(active[e])
        BY <3>1, <3>2 DEF Gone
      <3>4. QED
        BY <1>4, <3>1, <3>2, <3>3
    <2>2. ASSUME NEW h \in Handlers
          PROVE  /\ pc'[h] = "free" => flightOf'[h] = NoFlight /\ ~stop'[h]
                 /\ pc'[h] # "free" => flightOf'[h] \in Flights
                 /\ pc'[h] = "done" => active'[flightOf'[h]] = h
      <3>1. CASE Gone(h)
        BY <1>4, <1>5, <3>1
      <3>2. CASE ~Gone(h)
        <4>1. pc'[h] = pc[h] /\ flightOf'[h] = flightOf[h]
          BY <1>4, <3>2
        <4>2. pc[h] = "free" => flightOf[h] = NoFlight /\ ~stop'[h]
          BY <1>3, <1>5 DEF Registry
        <4>3. pc[h] = "done" => active'[flightOf[h]] = h
          BY <1>2, <3>2 DEF Registry, Gone
        <4>4. QED
          BY <4>1, <4>2, <4>3 DEF Registry
      <3>3. QED
        BY <3>1, <3>2
    <2>3. QED
      BY <1>4, <1>6, <2>1, <2>2 DEF Registry
  <1>8. LoopState'
    BY <1>1, <1>4, <1>6 DEF LoopState
  <1>9. Exclusive'
    <2>1. ASSUME NEW h \in Handlers, pc'[h] \in Live \cup {"made"}
          PROVE  pc[h] \in Live /\ pc'[h] = pc[h] /\ flightOf'[h] = flightOf[h]
                 /\ flightOf[h] \in Flights
      BY <1>4, <1>6, <2>1 DEF Registry, Live, Waiting
    <2>2. ASSUME NEW g \in Handlers, NEW k \in Handlers,
                 pc'[g] \in Live \cup {"made"}, pc'[k] \in Live \cup {"made"},
                 flightOf'[g] = flightOf'[k]
          PROVE  g = k
      BY <2>1, <2>2 DEF Exclusive
    <2>3. ASSUME NEW h \in Handlers, pc'[h] \in Live,
                 active'[flightOf'[h]] # h \/ stop'[h]
          PROVE  row'[flightOf'[h]] \in Final \cup {"deleted"}
      <3>1. pc[h] \in Live /\ flightOf'[h] = flightOf[h] /\ flightOf[h] \in Flights
        BY <2>1, <2>3
      <3>2. row[flightOf[h]] # "absent"
        BY <3>1 DEF Stages, StageOK, Live, Waiting
      <3>3. Resolved(flightOf[h]) => row[flightOf[h]] \in Final \cup {"deleted"}
        BY <3>1, <3>2 DEF Exists, TypeOK
      <3>4. h \in Popped => Resolved(flightOf[h])
        BY <1>3 DEF S
      <3>5. stop'[h] => h \in Popped \/ stop[h]
        BY <1>5
      <3>6. active[flightOf[h]] # h \/ stop[h] => row[flightOf[h]] \in Final \cup {"deleted"}
        BY <1>1, <3>1 DEF Exclusive
      <3>7. active'[flightOf[h]] # h => active[flightOf[h]] # h \/ Resolved(flightOf[h])
        BY <1>2, <3>1
      <3>8. QED
        BY <1>1, <2>3, <3>1, <3>3, <3>4, <3>5, <3>6, <3>7
    <2>4. QED
      BY <2>2, <2>3 DEF Exclusive
  <1>10. Stages'
    BY <1>1, <1>4 DEF Stages, StageOK, WindowOpen
  <1>11. Records'
    BY <1>1 DEF Records, RecordOK
  <1>12. QED
    BY <1>7, <1>8, <1>9, <1>10, <1>11

(* Handlers are told to stop, and the process dies with all its threads.  *)
LEMMA ShutdownPreserves ==
  ASSUME IInv, TypeOK', (\E f \in Flights : StopHandler(f)) \/ Crash \/ Exit
  PROVE  Core'
  <1> USE DEF IInv, Core, Real
  <1>1. ASSUME NEW f \in Flights, StopHandler(f) PROVE Core'
    <2>1. /\ UNCHANGED <<row, phase, crowded, boarded, told, worker, todo, cur, active, pc, flightOf>>
          /\ worker = "stopping"
      BY <1>1 DEF StopHandler, world, sky, loop
    <2>2. PICK h \in Handlers :
            /\ h = active[f] /\ pc[h] # "free"
            /\ stop' = [stop EXCEPT ![h] = TRUE]
      BY <1>1 DEF StopHandler, Registry, TypeOK
    <2>3. \A g \in Handlers \ {h} : stop'[g] = stop[g]
      BY <2>2 DEF TypeOK
    <2>4. \A g \in Handlers : pc[g] # "made"
      BY <2>1 DEF LoopState
    <2>5. \A g \in Handlers : pc[g] = "free" => ~stop'[g]
      BY <2>2, <2>3 DEF Registry
    <2>6. Registry'
      BY <2>1, <2>4, <2>5 DEF Registry
    <2>7. Exclusive'
      BY <2>1 DEF Exclusive
    <2>8. LoopState' /\ Stages' /\ Records'
      BY <2>1 DEF LoopState, Stages, StageOK, WindowOpen, Records, RecordOK
    <2>9. QED
      BY <2>6, <2>7, <2>8
  <1>2. CASE Crash \/ Exit
    <2>1. ProcessDies
      BY <1>2 DEF Crash, Exit
    <2>2. /\ UNCHANGED <<row, phase, crowded, boarded, told>> /\ worker' = "down" /\ todo' = {}
          /\ \A f \in Flights : active'[f] = NoHandler
          /\ \A h \in Handlers : pc'[h] = "free" /\ flightOf'[h] = NoFlight
      BY <2>1 DEF ProcessDies, world, sky
    <2>3. \A h \in Handlers : ~stop'[h]
      BY <2>1, Zenon DEF ProcessDies
    <2>4. Registry' /\ LoopState'
      BY <2>2, <2>3 DEF Registry, LoopState
    <2>5. Exclusive' /\ Stages' /\ Records'
      BY <2>2 DEF Exclusive, Stages, Records, RecordOK, Live, Waiting
    <2>6. QED
      BY <2>4, <2>5
  <1>3. QED
    BY <1>1, <1>2

-----------------------------------------------------------------------------
(* The invariant holds initially ...                                      *)
LEMMA InitInv == Init => IInv
  <1> SUFFICES ASSUME Init PROVE IInv
    OBVIOUS
  <1>1. TypeOK
    BY ConstantsOK DEF Init, TypeOK, Phases, Statuses, Final, Pcs, Live, Waiting
  <1>2. Registry /\ LoopState
    <2>1. \A h \in Handlers : ~stop[h]
      BY Zenon DEF Init
    <2>2. QED
      BY <2>1 DEF Init, Registry, LoopState
  <1>3. Exclusive /\ Stages /\ Records
    BY DEF Init, Exclusive, Stages, Records, RecordOK, Final, Live, Waiting
  <1>4. Crowding
    BY DEF Init, Crowding, Overlapping, WindowOpen
  <1>5. QED
    BY <1>1, <1>2, <1>3, <1>4 DEF IInv, Core

(* The history is complete.                                                *)
LEMMA CrowdingPreserved ==
  ASSUME IInv, [Next]_vars
  PROVE  Crowding'
  <1> USE DEF IInv, Crowding
  <1>1. CASE \E f \in Flights : Tick(f)
    BY <1>1 DEF Tick
  <1>2. CASE ~\E f \in Flights : Tick(f)
    <2>1. UNCHANGED <<phase, crowded>>
      BY <1>2 DEF Next, Loop, Thread, vars, world, sky, StartWorker, GetPendingFlights,
           SkipActive, FailDeparted, RegisterHandler, StartHandler, EndSchedule,
           CleanupHandlers, AbortIteration, Crash, BeginShutdown, Exit, ProcessDies,
           DeleteRow, UpsertFlight, StopHandler, AnswerLost, BeginWait, WakeForPrep,
           PrepareBrowser, WakeForCheckIn, Claim, WriteThen, AttemptReturns,
           AttemptRaises, RecordSuccess, AnnounceSuccess, DiscoverSeat,
           RecordFailure, AnnounceFailure, LastResort
    <2>2. QED
      BY <2>1 DEF Overlapping, WindowOpen
  <1>3. QED
    BY <1>1, <1>2

(* ... and every step preserves it.                                       *)
LEMMA StepInv == IInv /\ [Next]_vars => IInv'
  <1> SUFFICES ASSUME IInv, [Next]_vars PROVE IInv'
    OBVIOUS
  <1>1. TypeOK'
    BY TypeStep DEF IInv, Core
  <1>2. ASSUME NEW h \in Handlers, Thread(h) \/ AnswerLost(h) PROVE Core'
    BY <1>1, <1>2, ThreadHasEffect, EffectPreserves DEF IInv, Core
  <1>3. ASSUME UNCHANGED vars PROVE Core'
    BY <1>1, <1>3 DEF vars, world, sky, loop, threads, budget, IInv, Core, Registry,
                      LoopState, Exclusive, Stages, StageOK, WindowOpen, Records,
                      RecordOK, Real
  <1>4. Core'
    BY <1>1, <1>2, <1>3, EnvironmentPreserves, LoopPreserves, FailDepartedPreserves,
       RegisterPreserves, StartHandlerPreserves, CleanupPreserves, ShutdownPreserves
       DEF Next, Loop
  <1>5. QED
    BY <1>1, <1>4, CrowdingPreserved DEF IInv

(* The inductive invariant holds in every reachable state.                 *)
THEOREM Invariance == Spec => []IInv
  BY InitInv, StepInv, PTL DEF Spec

-----------------------------------------------------------------------------
(* The properties of states that the runs check on small instances.        *)

(* A flight never has two running threads (worker.py:243-283, 1342-1355).  *)
THEOREM OneThread == Spec => []OneThreadPerFlight
  <1>1. IInv => OneThreadPerFlight
    BY DEF IInv, Core, Exclusive, OneThreadPerFlight
  <1>2. QED
    BY <1>1, Invariance, PTL

(* Outside a shutdown only finished or deleted flights lose their thread   *)
(* (worker.py:1342-1355).                                                  *)
THEOREM StopsAreDue == Spec => []StopOnlyWhenResolved
  <1>1. IInv => StopOnlyWhenResolved
    BY DEF IInv, Core, Exclusive, StopOnlyWhenResolved
  <1>2. QED
    BY <1>1, Invariance, PTL

(* No thread attempts a check-in before its window (checkin_handler.py:    *)
(* 155-194).                                                               *)
THEOREM AttemptsAreInTime == Spec => []NoEarlyCheckIn
  <1>1. IInv => NoEarlyCheckIn
    BY DEF IInv, Core, Stages, StageOK, NoEarlyCheckIn, Live, Waiting
  <1>2. QED
    BY <1>1, Invariance, PTL

(* A recorded or announced success is one Southwest accepted, unless the   *)
(* flight shared its window with another of its reservation: the thread    *)
(* does not look at which flights an answer lists, but it posts only when  *)
(* its own flight's window is open (checkin_handler.py:155-242, 338-349).  *)
THEOREM SuccessesAreReal == Spec => []SuccessIsReal
  <1>1. IInv => SuccessIsReal
    BY DEF IInv, Core, Records, RecordOK, Real, SuccessIsReal
  <1>2. QED
    BY <1>1, Invariance, PTL

(* No passenger is told both outcomes (checkin_handler.py:196-242, across  *)
(* the restarts of worker.py:1358-1443).                                   *)
THEOREM OneOutcomeTold == Spec => []NeverToldBoth
  <1>1. IInv => NeverToldBoth
    BY DEF IInv, Core, Records, RecordOK, NeverToldBoth
  <1>2. QED
    BY <1>1, Invariance, PTL

-----------------------------------------------------------------------------
(* The properties of steps.                                                *)

(* Every row keeps its progress or moves on, but for the recovery.         *)
LEMMA RowProgress ==
  ASSUME IInv, [Next]_vars, NEW f \in Flights
  PROVE  \/ Progress(row'[f]) >= Progress(row[f])
         \/ worker = "down" /\ row[f] = "checking_in" /\ row'[f] = "pending"
  <1> USE DEF IInv, Core, Real
  <1>1. row'[f] = row[f] => Progress(row'[f]) >= Progress(row[f])
    BY ProgressBounds
  <1>2. ASSUME NEW h \in Handlers, Thread(h) \/ AnswerLost(h)
        PROVE  Progress(row'[f]) >= Progress(row[f])
    BY <1>1, <1>2, ThreadHasEffect DEF ThreadEffect, Frame, RowStep
  <1>3. CASE StartWorker
    BY <1>1, <1>3 DEF StartWorker
  <1>4. ASSUME NEW e \in Flights, DeleteRow(e) \/ UpsertFlight(e)
        PROVE  Progress(row'[f]) >= Progress(row[f])
    BY <1>1, <1>4 DEF DeleteRow, UpsertFlight, Exists, Progress, Statuses, TypeOK
  <1>5. ASSUME NEW e \in Flights, FailDeparted(e)
        PROVE  Progress(row'[f]) >= Progress(row[f])
    BY <1>1, <1>5 DEF FailDeparted, Exists, Progress, Statuses, TypeOK
  <1>6. CASE StartHandler
    <2>1. row'[f] = row[f] \/ (row'[f] = "scheduled" /\ cur = f /\ Exists(f))
      BY <1>6 DEF StartHandler, UpdateStatus, TypeOK
    <2>2. cur = f /\ Exists(f) => row[f] \in {"pending", "scheduled"}
      BY <1>6 DEF StartHandler, LoopState, Stages, StageOK, Registry, TypeOK, Exists, Statuses
    <2>3. row[f] \in {"pending", "scheduled"} => Progress("scheduled") >= Progress(row[f])
      BY DEF Progress
    <2>4. QED
      BY <1>1, <2>1, <2>2, <2>3
  <1>7. CASE \/ GetPendingFlights \/ EndSchedule \/ CleanupHandlers \/ AbortIteration
             \/ Crash \/ BeginShutdown \/ Exit \/ UNCHANGED vars
             \/ \E e \in Flights : \/ SkipActive(e) \/ RegisterHandler(e)
                                  \/ Tick(e) \/ StopHandler(e)
    <2>1. UNCHANGED row
      BY <1>7 DEF GetPendingFlights, EndSchedule, CleanupHandlers, AbortIteration,
                  Crash, BeginShutdown, Exit, ProcessDies, SkipActive, RegisterHandler,
                  Tick, StopHandler, vars
    <2>2. QED
      BY <1>1, <2>1
  <1>8. QED
    BY <1>2, <1>3, <1>4, <1>5, <1>6, <1>7 DEF Next, Loop

(* A status moves only forward while the worker runs (worker.py:235-293,   *)
(* db.py:245-328).                                                         *)
THEOREM StatusMovesForward == Spec => StatusNeverRewinds
  <1>1. IInv /\ [Next]_vars =>
          [\A f \in Flights :
              \/ Progress(row'[f]) >= Progress(row[f])
              \/ worker = "down" /\ row[f] = "checking_in" /\ row'[f] = "pending"]_row
    BY RowProgress
  <1>2. QED
    BY <1>1, Invariance, PTL DEF Spec, StatusNeverRewinds

(* A deleted flight that nobody attempts stays so.                         *)
LEMMA UnattendedStep ==
  ASSUME IInv, [Next]_vars, NEW f \in Flights, Unattended(f)
  PROVE  Unattended(f)'
  <1> USE DEF IInv, Core, Real
  <1>1. row'[f] = "deleted"
    <2>1. Progress(row'[f]) >= 6
      BY RowProgress DEF Unattended, Progress
    <2>2. row'[f] \in Statuses \cup {"absent", "deleted"}
      BY TypeStep DEF TypeOK
    <2>3. QED
      BY <2>1, <2>2 DEF Progress, Statuses
  <1>2. ASSUME NEW h \in Handlers, flightOf'[h] = f
        PROVE  pc'[h] # "posting"
    <2>1. ASSUME NEW g \in Handlers, Thread(g) \/ AnswerLost(g)
          PROVE  pc'[h] # "posting"
      <3>1. PICK e \in Flights : ThreadEffect(g, e)
        BY <2>1, ThreadHasEffect
      <3>2. CASE g = h
        <4>1. flightOf[h] = e /\ (flightOf'[h] = e \/ pc'[h] = "free")
          BY <3>1, <3>2 DEF ThreadEffect, Frame, Moves
        <4>2. pc'[h] = "posting" => pc[h] = "posting" \/ row'[flightOf[h]] \in Statuses
          <5>1. Claim(h) => Goto(h, "failing") \/ row'[flightOf[h]] \in Statuses
            BY <4>1 DEF Claim, WriteThen, UpdateStatus, TypeOK, Statuses
          <5>2. ~Claim(h) /\ pc[h] # "posting" => pc'[h] # "posting"
            BY <2>1, <3>2 DEF Thread, AnswerLost, BeginWait, WakeForPrep,
                 PrepareBrowser, WakeForCheckIn, AttemptReturns, AttemptRaises,
                 RecordSuccess, AnnounceSuccess, DiscoverSeat, RecordFailure,
                 AnnounceFailure, LastResort, WriteThen, StoppedOr, EndThread, Goto,
                 TypeOK
          <5>3. QED
            BY <5>1, <5>2 DEF Goto, TypeOK
        <4>3. QED
          BY <1>1, <1>2, <4>1, <4>2 DEF Unattended, Statuses
      <3>3. CASE g # h
        BY <1>2, <3>1, <3>3 DEF ThreadEffect, Frame, Unattended
      <3>4. QED
        BY <3>2, <3>3
    <2>2. CASE StartHandler
      BY <1>2, <2>2 DEF StartHandler, LoopState, Unattended, TypeOK
    <2>3. CASE CleanupHandlers
      BY <1>2, <2>3, ConstantsOK DEF CleanupHandlers, PopHandlers, Unattended, TypeOK
    <2>4. CASE Crash \/ Exit
      BY <2>4 DEF Crash, Exit, ProcessDies
    <2>5. ASSUME NEW e \in Flights, RegisterHandler(e)
          PROVE  pc'[h] # "posting"
      BY <1>2, <2>5 DEF RegisterHandler, Unattended, TypeOK
    <2>6. CASE \/ StartWorker \/ GetPendingFlights \/ EndSchedule \/ AbortIteration
               \/ BeginShutdown \/ UNCHANGED vars
               \/ \E e \in Flights : \/ SkipActive(e) \/ FailDeparted(e) \/ Tick(e)
                                    \/ DeleteRow(e) \/ UpsertFlight(e) \/ StopHandler(e)
      <3>1. UNCHANGED <<pc, flightOf>>
        BY <2>6 DEF StartWorker, GetPendingFlights, EndSchedule, AbortIteration,
                    BeginShutdown, SkipActive, FailDeparted, Tick, DeleteRow,
                    UpsertFlight, StopHandler, threads, vars
      <3>2. QED
        BY <1>2, <3>1 DEF Unattended
    <2>7. QED
      BY <2>1, <2>2, <2>3, <2>4, <2>5, <2>6 DEF Next, Loop
  <1>3. QED
    BY <1>1, <1>2 DEF Unattended

(* Southwest is not asked to check in a deleted flight (db.py:22, 89, 331- *)
(* 341 and checkin_handler.py:108-153).                                    *)
THEOREM CancelledIsFinal == Spec => CancelledStaysUnattended
  <1>1. IInv /\ [Next]_vars =>
          [\A f \in Flights : Unattended(f) => Unattended(f)']_vars
    BY UnattendedStep
  <1>2. QED
    BY <1>1, Invariance, PTL DEF Spec, CancelledStaysUnattended

-----------------------------------------------------------------------------
(* No flight is stranded while the database works.                         *)

(* A flight that was never stored has no handler, not even one that ended. *)
Unmet == \A f \in Flights : row[f] = "absent" => active[f] = NoHandler

LEMMA UnmetHolds == Spec => []Unmet
  <1>1. Init => Unmet
    BY DEF Init, Unmet
  <1>2. ASSUME IInv, Unmet, [Next]_vars PROVE Unmet'
    <2> USE DEF IInv, Core, Real
    <2> SUFFICES ASSUME NEW f \in Flights, row'[f] = "absent" PROVE active'[f] = NoHandler
      BY DEF Unmet
    <2>1. row[f] = "absent"
      BY <1>2, RowProgress, ProgressBounds DEF Progress, TypeOK, Statuses
    <2>2. active[f] = NoHandler
      BY <1>2, <2>1 DEF Unmet
    <2>3. ASSUME NEW e \in Flights, RegisterHandler(e) PROVE active'[f] = NoHandler
      BY <1>2, <2>1, <2>2, <2>3 DEF RegisterHandler, LoopState, TypeOK
    <2>4. CASE StartHandler \/ CleanupHandlers \/ Crash \/ Exit
      BY <1>2, <2>2, <2>4 DEF StartHandler, CleanupHandlers, PopHandlers, Crash, Exit,
                              ProcessDies, TypeOK
    <2>5. ASSUME NEW h \in Handlers, Thread(h) \/ AnswerLost(h)
          PROVE  active'[f] = NoHandler
      BY <1>2, <2>2, <2>5, ThreadHasEffect DEF ThreadEffect, Frame
    <2>6. CASE \/ StartWorker \/ GetPendingFlights \/ EndSchedule \/ AbortIteration
               \/ BeginShutdown \/ UNCHANGED vars
               \/ \E e \in Flights : \/ SkipActive(e) \/ FailDeparted(e) \/ Tick(e)
                                    \/ DeleteRow(e) \/ UpsertFlight(e) \/ StopHandler(e)
      BY <2>2, <2>6 DEF StartWorker, GetPendingFlights, EndSchedule, AbortIteration,
                        BeginShutdown, SkipActive, FailDeparted, Tick, DeleteRow,
                        UpsertFlight, StopHandler, vars
    <2>7. QED
      BY <1>2, <2>3, <2>4, <2>5, <2>6 DEF Next, Loop
  <1>3. QED
    BY <1>1, <1>2, Invariance, PTL DEF Spec

(* Database errors are counted, never uncounted.                           *)
LEMMA FaultsGrow == ASSUME TypeOK, [Next]_vars PROVE faults' = 0 => faults = 0
  BY ConstantsOK
     DEF TypeOK, Next, Loop, Thread, vars, budget, StartWorker, GetPendingFlights,
         SkipActive, FailDeparted, RegisterHandler, StartHandler, EndSchedule,
         CleanupHandlers, AbortIteration, Crash, BeginShutdown, Exit, ProcessDies, Tick,
         DeleteRow, UpsertFlight, StopHandler, AnswerLost, BeginWait, WakeForPrep,
         PrepareBrowser, WakeForCheckIn, Claim, WriteThen, UpdateStatus, AttemptReturns,
         AttemptRaises, RecordSuccess, AnnounceSuccess, DiscoverSeat, RecordFailure,
         AnnounceFailure, LastResort

(* A thread that ends leaves a finished or deleted flight, unless it was   *)
(* told to stop at a shutdown or the database failed in its last resort.   *)
LEMMA EndsResolved ==
  ASSUME IInv, NEW h \in Handlers, Thread(h), worker # "stopping", faults' = 0,
         NEW f \in Flights, flightOf[h] = f, pc'[h] = "done"
  PROVE  row'[f] \in Final \cup {"deleted"}
  <1> USE DEF IInv, Core, Real
  <1>1. StageOK(h) /\ TypeOK /\ (pc[h] \in Live /\ stop[h] => row[f] \in Final \cup {"deleted"})
    BY DEF Thread, BeginWait, WakeForPrep, PrepareBrowser, WakeForCheckIn, Claim,
           AttemptReturns, AttemptRaises, RecordSuccess, AnnounceSuccess, DiscoverSeat,
           RecordFailure, AnnounceFailure, LastResort, Stages, Exclusive
  <1>2. CASE BeginWait(h) \/ WakeForPrep(h) \/ PrepareBrowser(h) \/ WakeForCheckIn(h)
    <2>1. pc[h] \in Live /\ UNCHANGED row
      BY <1>2 DEF BeginWait, WakeForPrep, PrepareBrowser, WakeForCheckIn, Live, Waiting
    <2>2. stop[h]
      BY <1>1, <1>2 DEF BeginWait, WakeForPrep, PrepareBrowser, WakeForCheckIn, StoppedOr,
                        Goto, TypeOK
    <2>3. QED
      BY <1>1, <2>1, <2>2
  <1>3. CASE \/ Claim(h) \/ RecordSuccess(h) \/ RecordFailure(h)
             \/ AttemptReturns(h) \/ AttemptRaises(h) \/ AnnounceSuccess(h)
    BY <1>1, <1>3 DEF Claim, RecordSuccess, RecordFailure, WriteThen, AttemptReturns,
                      AttemptRaises, AnnounceSuccess, Goto, TypeOK
  <1>4. CASE DiscoverSeat(h) \/ AnnounceFailure(h)
    <2>1. pc[h] \in {"discover", "apologize"} /\ UNCHANGED row
      BY <1>4 DEF DiscoverSeat, AnnounceFailure
    <2>2. QED
      BY <1>1, <2>1 DEF StageOK, Final
  <1>5. CASE LastResort(h)
    <2>1. pc[h] = "failing" /\ row[f] # "absent" /\ faults \in Nat
      BY <1>1, <1>5, ConstantsOK DEF LastResort, StageOK, TypeOK
    <2>2. \/ row' = [row EXCEPT ![f] = "failed"]
          \/ ~Exists(f) /\ UNCHANGED row
      BY <1>5, <2>1 DEF LastResort, UpdateStatus
    <2>3. QED
      BY <1>1, <2>1, <2>2 DEF TypeOK, Exists, Final
  <1>6. QED
    BY <1>2, <1>3, <1>4, <1>5 DEF Thread

(* A flight that waits or was claimed; one claimed but left to depart by a *)
(* restart; and what is left to say of others, given the invariant.        *)
Waits(f) == row[f] \in {"pending", "scheduled", "checking_in"}
Late(f)  == row[f] = "checking_in" /\ phase[f] = "departed"
Kept(f)  == /\ active[f] # NoHandler => pc[active[f]] # "done"
            /\ row[f] = "checking_in" => active[f] # NoHandler

(* A registered handler whose thread goes on attends to an open flight.    *)
LEMMA StrandedStep ==
  ASSUME IInv, IInv', Unmet, NobodyStranded, [Next]_vars
  PROVE  NobodyStranded'
  <1> USE DEF IInv, Core, Waits, Late, Kept
  <1> SUFFICES ASSUME faults' = 0, worker' \notin {"down", "stopping"}, NEW f \in Flights,
                      Waits(f)', ~Late(f)'
               PROVE  Kept(f)'
    <2>1. ASSUME NEW f \in Flights, active'[f] # NoHandler, pc'[active'[f]] # "done",
                 Waits(f)', worker' \notin {"down", "stopping"}
          PROVE  Attended(f)'
      <3>1. /\ active'[f] \in Handlers /\ flightOf'[active'[f]] = f
            /\ pc'[active'[f]] \in Live \cup {"made"}
        BY <2>1 DEF Registry, TypeOK, Pcs
      <3>2. ~stop'[active'[f]]
        BY <2>1, <3>1 DEF Registry, Exclusive, Final, TypeOK
      <3>3. QED
        BY <2>1, <3>1, <3>2 DEF Attended
    <2>2. QED
      BY <2>1 DEF NobodyStranded
  <1>1. faults = 0
    BY FaultsGrow
  <1>2. worker \notin {"down", "stopping"} /\ ~Late(f) /\ (Waits(f) \/ row[f] = "absent")
          => Kept(f)
    BY <1>1, ConstantsOK DEF NobodyStranded, Attended, Live, Waiting, Unmet
  <1>3. CASE StartWorker
    <2>1. active[f] = NoHandler
      BY <1>3 DEF StartWorker, LoopState
    <2>2. UNCHANGED <<active, phase>> /\ row'[f] # "checking_in"
      BY <1>3 DEF StartWorker, world, sky
    <2>3. QED
      BY <2>1, <2>2
  <1>4. worker = "down" => StartWorker \/ worker' = "down"
    BY DEF Next, Loop, Thread, vars, loop, LoopState, Live, Waiting, GetPendingFlights,
           SkipActive, FailDeparted, RegisterHandler, StartHandler, EndSchedule,
           CleanupHandlers, AbortIteration, Crash, BeginShutdown, Exit, ProcessDies, Tick,
           DeleteRow, UpsertFlight, StopHandler, AnswerLost, BeginWait, WakeForPrep,
           PrepareBrowser, WakeForCheckIn, Claim, WriteThen, AttemptReturns,
           AttemptRaises, RecordSuccess, AnnounceSuccess, DiscoverSeat,
           RecordFailure, AnnounceFailure, LastResort
  <1>5. worker = "stopping" => worker' \in {"stopping", "down"}
    BY DEF Next, Loop, Thread, vars, loop, StartWorker, GetPendingFlights,
           SkipActive, FailDeparted, RegisterHandler, StartHandler, EndSchedule,
           CleanupHandlers, AbortIteration, Crash, BeginShutdown, Exit, ProcessDies, Tick,
           DeleteRow, UpsertFlight, StopHandler, AnswerLost, BeginWait, WakeForPrep,
           PrepareBrowser, WakeForCheckIn, Claim, WriteThen, AttemptReturns,
           AttemptRaises, RecordSuccess, AnnounceSuccess, DiscoverSeat,
           RecordFailure, AnnounceFailure, LastResort
  <1> SUFFICES ASSUME ~StartWorker, worker \notin {"down", "stopping"} PROVE Kept(f)'
    BY <1>3, <1>4, <1>5
  <1>6. (row'[f] = row[f] \/ row[f] = "absent") /\ (phase[f] = "departed" => phase'[f] = "departed")
          => Kept(f)
    BY <1>2
  <1>7. ASSUME NEW h \in Handlers, Thread(h) \/ AnswerLost(h) PROVE Kept(f)'
    <2>1. PICK e \in Flights : ThreadEffect(h, e)
      BY <1>7, ThreadHasEffect
    <2>2. CASE e # f
      <3>1. row'[f] = row[f] /\ UNCHANGED <<phase, active>> /\ Kept(f)
        BY <1>6, <2>1, <2>2 DEF ThreadEffect, Frame
      <3>2. active[f] # h /\ (active[f] # NoHandler => active[f] \in Handlers)
        BY <2>1, <2>2, ConstantsOK DEF ThreadEffect, Frame, Registry, TypeOK
      <3>3. QED
        BY <2>1, <3>1, <3>2 DEF ThreadEffect, Frame
    <2>3. CASE e = f
      <3>1. flightOf[h] = f /\ pc[h] \in Live /\ active' = active /\ RowStep(f)
        BY <2>1, <2>3 DEF ThreadEffect, Frame
      <3>2. active[f] = h
        <4>1. row[f] \notin Final \cup {"deleted"}
          BY <3>1 DEF RowStep, Final, Statuses
        <4>2. QED
          BY <3>1, <4>1 DEF Exclusive
      <3>3. pc'[h] # "done"
        <4>1. AnswerLost(h) => pc'[h] # "done"
          BY <3>1 DEF AnswerLost, threads, Live, Waiting
        <4>2. QED
          BY <1>7, <3>1, <4>1, EndsResolved DEF Final
      <3>4. QED
        BY <3>1, <3>2, <3>3, ConstantsOK
    <2>4. QED
      BY <2>2, <2>3
  <1>8. ASSUME NEW e \in Flights, RegisterHandler(e) PROVE Kept(f)'
    <2>1. Kept(f) /\ UNCHANGED row
      BY <1>6, <1>8 DEF RegisterHandler, world, sky
    <2>2. PICK h \in Handlers : /\ pc[h] = "free"
                                /\ active' = [active EXCEPT ![e] = h]
                                /\ pc' = [pc EXCEPT ![h] = "made"]
      BY <1>8 DEF RegisterHandler
    <2>3. active[f] # h
      BY <2>2, ConstantsOK DEF Registry
    <2>4. QED
      BY <2>1, <2>2, <2>3, ConstantsOK DEF TypeOK
  <1>9. CASE StartHandler
    <2>1. worker = "start" /\ cur \in Flights /\ active[cur] \in Handlers
          /\ active[cur] # NoHandler
      BY <1>9, ConstantsOK DEF StartHandler, LoopState, TypeOK
    <2>2. CASE cur # f
      <3>1. row'[f] = row[f] /\ UNCHANGED phase /\ active'[f] = active[f]
        BY <1>9, <2>1, <2>2 DEF StartHandler, UpdateStatus, world, sky, TypeOK
      <3>2. active[f] # NoHandler => active[f] # active[cur]
        BY <2>1, <2>2 DEF Registry
      <3>3. active[f] # NoHandler => pc'[active[f]] = pc[active[f]]
        BY <1>9, <2>1, <3>2 DEF StartHandler, TypeOK
      <3>4. QED
        BY <1>6, <3>1, <3>3
    <2>3. CASE cur = f
      <3>1. \/ active' = active /\ pc'[active[f]] = "started"
            \/ active'[f] = NoHandler /\ (~Exists(f) \/ faults' = faults + 1)
               /\ (~Exists(f) => UNCHANGED row)
        BY <1>9, <2>1, <2>3 DEF StartHandler, UpdateStatus, TypeOK
      <3>2. Exists(f)
        <4>1. pc[active[f]] = "made"
          BY <1>9, <2>1, <2>3 DEF StartHandler, LoopState
        <4>2. row[f] \in {"pending", "scheduled", "deleted"}
          BY <2>1, <2>3, <4>1 DEF Stages, StageOK, Registry
        <4>3. ~Exists(f) => UNCHANGED row
          BY <1>9, <2>3 DEF StartHandler, UpdateStatus
        <4>4. QED
          BY <4>2, <4>3 DEF Exists, Statuses
      <3>3. QED
        BY <1>1, <2>1, <2>3, <3>1, <3>2
    <2>4. QED
      BY <2>2, <2>3
  <1>10. CASE CleanupHandlers
    <2>1. Kept(f) /\ UNCHANGED row
      BY <1>6, <1>10 DEF CleanupHandlers, world, sky
    <2>2. active'[f] = active[f]
      BY <1>10, <2>1 DEF CleanupHandlers, PopHandlers, Exists, Statuses, Final
    <2>3. active[f] # NoHandler => pc'[active[f]] \in {pc[active[f]], "free"}
      BY <1>10 DEF CleanupHandlers, PopHandlers, TypeOK
    <2>4. QED
      BY <2>1, <2>2, <2>3
  <1>11. CASE \/ GetPendingFlights \/ EndSchedule \/ AbortIteration \/ BeginShutdown
              \/ UNCHANGED vars
              \/ \E e \in Flights : \/ SkipActive(e) \/ FailDeparted(e) \/ Tick(e)
                                   \/ DeleteRow(e) \/ UpsertFlight(e) \/ StopHandler(e)
    <2>1. UNCHANGED <<pc, active>>
      BY <1>11 DEF GetPendingFlights, EndSchedule, AbortIteration, BeginShutdown,
                   SkipActive, FailDeparted, Tick, DeleteRow, UpsertFlight, StopHandler,
                   threads, vars
    <2>2. row'[f] = row[f] \/ (row[f] = "absent" /\ row'[f] = "pending")
      BY <1>11 DEF GetPendingFlights, EndSchedule, AbortIteration, BeginShutdown,
                   SkipActive, FailDeparted, Tick, DeleteRow, UpsertFlight, StopHandler,
                   vars, TypeOK
    <2>3. phase[f] = "departed" => phase'[f] = "departed"
      BY <1>11 DEF GetPendingFlights, EndSchedule, AbortIteration, BeginShutdown,
                   SkipActive, FailDeparted, Tick, DeleteRow, UpsertFlight, StopHandler,
                   world, sky, vars, TypeOK
    <2>4. QED
      BY <1>6, <2>1, <2>2, <2>3
  <1>12. CASE Crash \/ Exit
    BY <1>12 DEF Crash, Exit, ProcessDies
  <1>13. QED
    BY <1>7, <1>8, <1>9, <1>10, <1>11, <1>12 DEF Next, Loop

(* While the database works, every flight that waits or was claimed has a  *)
(* handler that sees to it, or gets one at the next poll (worker.py:235-   *)
(* 293, 1342-1353; checkin_handler.py:108-153).                            *)
THEOREM NoneStranded == Spec => []NobodyStranded
  <1>1. Init => NobodyStranded
    BY DEF Init, NobodyStranded
  <1>2. QED
    BY <1>1, StrandedStep, Invariance, UnmetHolds, PTL DEF Spec
=============================================================================
