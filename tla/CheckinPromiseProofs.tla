------------------------ MODULE CheckinPromiseProofs ------------------------
(***************************************************************************)
(* CheckinWorker implements CheckinPromise: under the mapping              *)
(* PromisedStatus its initial states are initial states of the promise,    *)
(* and each of its steps is a step of the promise or changes nothing that  *)
(* the promise speaks of.  The inductive invariant IInv supplies what a    *)
(* step has to know of its flight's row.                                   *)
(***************************************************************************)
EXTENDS CheckinWorkerProofs

(* What the mapping does to one row.                                       *)
LEMMA PromisedCases ==
  /\ Promised("absent") = "unknown"
  /\ Promised("pending") = "waiting"
  /\ Promised("scheduled") = "waiting"
  /\ Promised("checking_in") = "attempting"
  /\ Promised("success") = "success"
  /\ Promised("failed") = "failed"
  /\ Promised("deleted") = "cancelled"
  BY DEF Promised

(* A row that is written, and a row that is not.                           *)
LEMMA MapWrite ==
  ASSUME TypeOK, NEW f \in Flights, NEW s, row' = [row EXCEPT ![f] = s]
  PROVE  PromisedStatus' = [PromisedStatus EXCEPT ![f] = Promised(s)]
  BY DEF PromisedStatus, TypeOK

(* A status that maps to the same promise changes nothing.                *)
LEMMA MapSame ==
  ASSUME TypeOK, NEW f \in Flights, NEW s, row' = [row EXCEPT ![f] = s],
         Promised(s) = Promised(row[f])
  PROVE  PromisedStatus' = PromisedStatus
  BY DEF PromisedStatus, TypeOK

(* A step that does not touch the promise's variables.                     *)
LEMMA Stutter ==
  ASSUME UNCHANGED <<row, sky, boarded, told>>
  PROVE  UNCHANGED Promise!vars
  BY DEF PromisedStatus, sky, Promise!vars

(* The initial states map to the initial state of the promise.            *)
LEMMA InitMaps == Init => Promise!Init
  BY PromisedCases DEF Init, PromisedStatus, Promise!Init

(* The steps of the environment and of the loop.                           *)
LEMMA EnvironmentMaps ==
  ASSUME IInv, NEW f \in Flights, Tick(f) \/ DeleteRow(f) \/ UpsertFlight(f)
  PROVE  Promise!Next
  <1> USE DEF IInv, Core
  <1>1. CASE Tick(f)
    <2>1. UNCHANGED PromisedStatus
      BY <1>1 DEF Tick, PromisedStatus
    <2>2. NextPhase(phase[f]) = Promise!NextPhase(phase[f])
      BY DEF NextPhase, Promise!NextPhase
    <2>3. Overlapping' = Promise!Overlapping'
      BY DEF Overlapping, WindowOpen, Promise!Overlapping
    <2>4. Promise!TimePasses(f)
      BY <1>1, <2>1, <2>2, <2>3 DEF Tick, Promise!TimePasses
    <2>5. QED
      BY <2>4 DEF Promise!Next
  <1>2. CASE DeleteRow(f)
    <2>1. PromisedStatus[f] \notin {"unknown", "cancelled"}
      BY <1>2, PromisedCases DEF DeleteRow, Exists, Statuses, PromisedStatus
    <2>2. PromisedStatus' = [PromisedStatus EXCEPT ![f] = "cancelled"]
      <3>1. PromisedStatus' = [PromisedStatus EXCEPT ![f] = Promised("deleted")]
        BY <1>2, MapWrite DEF DeleteRow
      <3>2. QED
        BY <3>1, PromisedCases
    <2>3. Promise!Cancel(f)
      BY <1>2, <2>1, <2>2 DEF DeleteRow, world, sky, Promise!Cancel, Promise!Becomes
    <2>4. QED
      BY <2>3 DEF Promise!Next
  <1>3. CASE UpsertFlight(f)
    <2>1. PromisedStatus[f] = "unknown"
      BY <1>3, PromisedCases DEF UpsertFlight, PromisedStatus
    <2>2. PromisedStatus' = [PromisedStatus EXCEPT ![f] = "waiting"]
      <3>1. PromisedStatus' = [PromisedStatus EXCEPT ![f] = Promised("pending")]
        BY <1>3, MapWrite DEF UpsertFlight
      <3>2. QED
        BY <3>1, PromisedCases
    <2>3. Promise!Find(f)
      BY <1>3, <2>1, <2>2 DEF UpsertFlight, world, sky, Promise!Find, Promise!Becomes
    <2>4. QED
      BY <2>3 DEF Promise!Next
  <1>4. QED
    BY <1>1, <1>2, <1>3

(* The steps of the loop that write statuses.                             *)
LEMMA LoopMaps ==
  ASSUME IInv, StartWorker \/ StartHandler \/ \E f \in Flights : FailDeparted(f)
  PROVE  [Promise!Next]_(Promise!vars)
  <1> USE DEF IInv, Core
  <1>1. CASE StartWorker
    <2>1. ASSUME NEW f \in Flights
          PROVE  Promised(row'[f]) = IF Promised(row[f]) = "attempting" /\ phase[f] # "departed"
                                     THEN "waiting" ELSE Promised(row[f])
      <3>1. row[f] \in Statuses \cup {"absent", "deleted"}
        BY DEF TypeOK
      <3>2. Promised(row[f]) = "attempting" <=> row[f] = "checking_in"
        BY <3>1, PromisedCases DEF Statuses
      <3>3. QED
        BY <1>1, <3>2, PromisedCases DEF StartWorker
    <2>2. Promise!Restart
      BY <1>1, <2>1 DEF StartWorker, world, sky, PromisedStatus, Promise!Restart
    <2>3. QED
      BY <2>2 DEF Promise!Next
  <1>2. CASE StartHandler
    <2>1. cur \in Flights /\ row[cur] \in {"pending", "scheduled", "deleted"}
      BY <1>2 DEF StartHandler, LoopState, Stages, StageOK, Registry, TypeOK
    <2>2. row' = row \/ (Exists(cur) /\ row' = [row EXCEPT ![cur] = "scheduled"])
      BY <1>2 DEF StartHandler, UpdateStatus
    <2>3. UNCHANGED PromisedStatus
      <3>1. CASE row' = row
        BY <3>1 DEF PromisedStatus
      <3>2. CASE row' # row
        <4>1. row' = [row EXCEPT ![cur] = "scheduled"] /\ row[cur] \in {"pending", "scheduled"}
          BY <2>1, <2>2, <3>2 DEF Exists, Statuses
        <4>2. Promised("scheduled") = Promised(row[cur])
          BY <4>1, PromisedCases
        <4>3. QED
          BY <2>1, <4>1, <4>2, MapSame
      <3>3. QED
        BY <3>1, <3>2
    <2>4. QED
      BY <1>2, <2>3 DEF StartHandler, world, sky, Promise!vars
  <1>3. ASSUME NEW f \in Flights, FailDeparted(f)
        PROVE  [Promise!Next]_(Promise!vars)
    <2>1. CASE UNCHANGED row
      BY <1>3, <2>1, Stutter DEF FailDeparted, world
    <2>2. CASE ~UNCHANGED row
      <3>1. row' = [row EXCEPT ![f] = "failed"] /\ Exists(f) /\ phase[f] = "departed"
        BY <1>3, <2>2 DEF FailDeparted, TypeOK
      <3>2. PromisedStatus[f] = "waiting"
        BY <1>3, <3>1, PromisedCases DEF FailDeparted, LoopState, PromisedStatus,
                                         Exists, Statuses
      <3>3. PromisedStatus' = [PromisedStatus EXCEPT ![f] = "failed"]
        <4>1. PromisedStatus' = [PromisedStatus EXCEPT ![f] = Promised("failed")]
          BY <3>1, MapWrite
        <4>2. QED
          BY <4>1, PromisedCases
      <3>4. Promise!Fail(f)
        BY <1>3, <3>1, <3>2, <3>3 DEF FailDeparted, world, sky, Promise!Fail, Promise!Becomes
      <3>5. QED
        BY <3>4 DEF Promise!Next
    <2>3. QED
      BY <2>1, <2>2
  <1>4. QED
    BY <1>1, <1>2, <1>3

(* A status write of a thread is a step of the promise, or changes nothing *)
(* there because the row is gone, or the database failed before its commit.*)
LEMMA WriteMaps ==
  ASSUME IInv, NEW h \in Handlers, NEW f \in Flights, flightOf[h] = f,
         NEW s, UpdateStatus(f, s, "ok") \/ UpdateStatus(f, s, "raised"),
         UNCHANGED world,
         \/ pc[h] = "claim" /\ s = "checking_in"
         \/ pc[h] = "accepted" /\ s = "success"
         \/ pc[h] \in {"rejected", "failing"} /\ s = "failed"
  PROVE  [Promise!Next]_(Promise!vars)
  <1> USE DEF IInv, Core
  <1>1. CASE UNCHANGED row
    BY <1>1, Stutter DEF world
  <1>2. CASE ~UNCHANGED row
    <2>1. row' = [row EXCEPT ![f] = s] /\ row[f] \in Statuses /\ row[f] # s
      BY <1>2 DEF UpdateStatus, Exists, TypeOK
    <2>2. StageOK(h)
      BY DEF Stages
    <2>3. PromisedStatus' = [PromisedStatus EXCEPT ![f] = Promised(s)]
      BY <2>1, MapWrite
    <2>4. PromisedStatus[f] = Promised(row[f]) /\ UNCHANGED <<phase, crowded, boarded, told>>
      BY DEF PromisedStatus, world, sky
    <2>5. WindowOpen(f)
      BY <2>2 DEF StageOK, Live, Waiting
    <2>6. CASE pc[h] = "claim" /\ s = "checking_in"
      <3>1. row[f] = "scheduled"
        BY <2>1, <2>2, <2>6 DEF StageOK, Waiting, Statuses
      <3>2. Promise!Attempt(f)
        BY <2>3, <2>4, <2>5, <2>6, <3>1, PromisedCases
           DEF WindowOpen, Promise!Attempt, Promise!Becomes
      <3>3. QED
        BY <3>2 DEF Promise!Next
    <2>7. CASE pc[h] = "accepted" /\ s = "success"
      <3>1. row[f] = "checking_in" /\ Real(f)
        BY <2>1, <2>2, <2>7 DEF StageOK, Statuses
      <3>2. Promise!Succeed(f)
        BY <2>3, <2>4, <2>7, <3>1, PromisedCases
           DEF Real, Promise!Real, Promise!Succeed, Promise!Becomes
      <3>3. QED
        BY <3>2 DEF Promise!Next
    <2>8. CASE pc[h] \in {"rejected", "failing"} /\ s = "failed"
      <3>1. row[f] \in {"scheduled", "checking_in", "success"}
        BY <2>1, <2>2, <2>8 DEF StageOK, Statuses
      <3>2. Promise!Fail(f)
        BY <2>3, <2>4, <2>5, <2>8, <3>1, PromisedCases
           DEF WindowOpen, Promise!Fail, Promise!Becomes
      <3>3. QED
        BY <3>2 DEF Promise!Next
    <2>9. QED
      BY <2>6, <2>7, <2>8
  <1>3. QED
    BY <1>1, <1>2

(* A notification is an announcement of the promise.                      *)
LEMMA AnnouncementMaps ==
  ASSUME IInv, NEW h \in Handlers, AnnounceSuccess(h) \/ AnnounceFailure(h)
  PROVE  Promise!Next
  <1> USE DEF IInv, Core
  <1>1. PICK f \in Flights : flightOf[h] = f /\ StageOK(h)
    BY DEF AnnounceSuccess, AnnounceFailure, Registry, Stages
  <1>2. PICK o \in {"success", "failed"} :
          /\ told' = [told EXCEPT ![f] = @ \cup {o}]
          /\ pc[h] = IF o = "success" THEN "announce" ELSE "apologize"
          /\ UNCHANGED <<row, phase, crowded, boarded>>
    BY <1>1 DEF AnnounceSuccess, AnnounceFailure, sky
  <1>3. /\ told[f] = {} /\ row[f] \in {o, "deleted"}
        /\ o = "success" => Real(f)
    BY <1>1, <1>2 DEF StageOK, Live, Waiting
  <1>4. told' = [told EXCEPT ![f] = {o}]
    BY <1>2, <1>3 DEF TypeOK
  <1>5. PromisedStatus[f] \in {o, "cancelled"} /\ UNCHANGED PromisedStatus
    BY <1>2, <1>3, PromisedCases DEF PromisedStatus
  <1>6. Promise!Announce(f, o)
    BY <1>2, <1>3, <1>4, <1>5 DEF Real, Promise!Real, Promise!Announce
  <1>7. QED
    BY <1>6 DEF Promise!Next

(* The steps of a thread.                                                 *)
LEMMA ThreadMaps ==
  ASSUME IInv, NEW h \in Handlers, Thread(h) \/ AnswerLost(h)
  PROVE  [Promise!Next]_(Promise!vars)
  <1> USE DEF IInv, Core
  <1>1. PICK f \in Flights : flightOf[h] = f
    BY ThreadHasEffect DEF ThreadEffect, Frame
  <1>2. CASE Claim(h) \/ RecordSuccess(h) \/ RecordFailure(h)
    BY <1>1, <1>2, WriteMaps DEF Claim, RecordSuccess, RecordFailure, WriteThen
  <1>3. CASE LastResort(h)
    BY <1>1, <1>3, WriteMaps DEF LastResort
  <1>4. CASE AnnounceSuccess(h) \/ AnnounceFailure(h)
    BY <1>4, AnnouncementMaps
  <1>5. CASE AnswerLost(h) \/ AttemptReturns(h)
    <2>1. row[f] \in {"checking_in", "deleted"} /\ UNCHANGED row
      BY <1>1, <1>5 DEF AnswerLost, AttemptReturns, Stages, StageOK
    <2>2. PromisedStatus[f] \in {"attempting", "cancelled"} /\ UNCHANGED PromisedStatus
      BY <2>1, PromisedCases DEF PromisedStatus
    <2>3. Serve(h) /\ UNCHANGED <<phase, crowded, told>>
      BY <1>5 DEF AnswerLost, AttemptReturns, sky
    <2>4. Promise!Accept(f)
      BY <1>1, <2>2, <2>3 DEF Serve, Open, Promise!Accept
    <2>5. QED
      BY <2>4 DEF Promise!Next
  <1>6. CASE \/ BeginWait(h) \/ WakeForPrep(h) \/ PrepareBrowser(h) \/ WakeForCheckIn(h)
             \/ AttemptRaises(h) \/ DiscoverSeat(h)
    <2>1. UNCHANGED <<row, sky, boarded, told>>
      BY <1>6 DEF BeginWait, WakeForPrep, PrepareBrowser, WakeForCheckIn,
                  AttemptRaises, DiscoverSeat, world
    <2>2. QED
      BY <2>1, Stutter
  <1>7. QED
    BY <1>2, <1>3, <1>4, <1>5, <1>6 DEF Thread

(* Every step maps to a step of the promise or leaves it unchanged.       *)
LEMMA StepMaps == IInv /\ [Next]_vars => [Promise!Next]_(Promise!vars)
  <1> SUFFICES ASSUME IInv, [Next]_vars PROVE [Promise!Next]_(Promise!vars)
    OBVIOUS
  <1>1. CASE \/ GetPendingFlights \/ EndSchedule \/ CleanupHandlers \/ AbortIteration
             \/ Crash \/ BeginShutdown \/ Exit \/ UNCHANGED vars
             \/ \E f \in Flights : SkipActive(f) \/ RegisterHandler(f) \/ StopHandler(f)
    <2>1. UNCHANGED <<row, sky, boarded, told>>
      BY <1>1 DEF GetPendingFlights, EndSchedule, CleanupHandlers, AbortIteration,
                  Crash, BeginShutdown, Exit, ProcessDies, SkipActive, RegisterHandler,
                  StopHandler, world, vars
    <2>2. QED
      BY <2>1, Stutter
  <1>2. QED
    BY <1>1, EnvironmentMaps, LoopMaps, ThreadMaps DEF Next, Loop

(* Every behaviour of the worker is one the promised lifecycle allows      *)
(* (worker.py:235-293, 1342-1443; checkin_handler.py:62-382).              *)
THEOREM Implements == Spec => KeepsPromise
  BY Invariance, InitMaps, StepMaps, PTL DEF Spec, KeepsPromise, Promise!Spec
=============================================================================
