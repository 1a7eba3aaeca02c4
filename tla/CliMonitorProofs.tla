-------------------------- MODULE CliMonitorProofs --------------------------
(* Proofs about CliMonitor: types, the lock, and which check-ins run and   *)
(* are stopped, for any monitors, tickets, times, faults and changes.      *)
EXTENDS CliMonitor, TLAPS

-----------------------------------------------------------------------------
(* The values a step gives to a monitor's local variables.                 *)
LEMMA NoRoundType == NoRound \in Round
  BY ConstantsOK DEF NoRound, Round

LEMMA RoundTypes ==
    ASSUME NEW rounds \in [Monitors -> Round], NEW m \in Monitors
    PROVE  /\ [rounds EXCEPT ![m] = NoRound] \in [Monitors -> Round]
           /\ rounds[m].tries < MaxRetries =>
                 [rounds EXCEPT ![m].tries = @ + 1] \in [Monitors -> Round]
           /\ \A S \in SUBSET Confs :
                 [rounds EXCEPT ![m].asking = S] \in [Monitors -> Round]
<1>1. [rounds EXCEPT ![m] = NoRound] \in [Monitors -> Round]
  BY NoRoundType
<1>2. ASSUME rounds[m].tries < MaxRetries
      PROVE  [rounds EXCEPT ![m].tries = @ + 1] \in [Monitors -> Round]
  BY <1>2, ConstantsOK DEF Round
<1>3. ASSUME NEW S \in SUBSET Confs
      PROVE  [rounds EXCEPT ![m].asking = S] \in [Monitors -> Round]
  BY <1>3 DEF Round
<1>. QED
  BY <1>1, <1>2, <1>3

LEMMA AnswerTypes ==
    ASSUME round \in [Monitors -> Round], NEW m \in Monitors,
           NEW c \in Confs, Upcoming(c) \subseteq Tickets,
           Found(m, c) \/ Missed(m, c)
    PROVE  round' \in [Monitors -> Round]
<1>1. CASE Found(m, c)
  BY <1>1 DEF Found, Round
<1>2. CASE Missed(m, c)
  BY <1>2 DEF Missed, Round
<1>. QED
  BY <1>1, <1>2

(* Every step keeps every process in one of its places, and tickets where  *)
(* tickets are.                                                            *)
LEMMA TypeStep == ASSUME TypeOK, [Next]_vars PROVE TypeOK'
<1>. USE ConstantsOK DEF TypeOK, Holding, Finished, Live, Ended,
         world, checkin, signals, budget, Goto, MayCrash
<1>0. ASSUME NEW m \in Monitors,
             NEW p \in {"asleep", "interrupted"} \cup Finished,
             Leave(m, p)
      PROVE  /\ lock' \in Monitors \cup Tickets \cup {Nobody}
             /\ round' \in [Monitors -> Round]
             /\ pc' \in [Monitors -> {"asleep", "interrupted"} \cup Holding \cup Finished]
  BY <1>0, RoundTypes DEF Leave
<1>01. ASSUME NEW m \in Monitors, NEW confs \in SUBSET Confs, Ask(m, confs)
       PROVE  /\ round' \in [Monitors -> Round]
              /\ pc' \in [Monitors -> {"asleep", "interrupted"} \cup Holding \cup Finished]
              /\ lock' = lock
  BY <1>01, RoundTypes DEF Ask
<1>02. ASSUME NEW t \in Tickets, NEW p \in Ended, End(t, p)
       PROVE  /\ proc' \in [Tickets -> {"none"} \cup Live \cup Ended]
              /\ sameDay' \in [Tickets -> BOOLEAN]
              /\ attempts' \in [Tickets -> 0..MaxAttempts]
              /\ lock' \in Monitors \cup Tickets \cup {Nobody}
  BY <1>02 DEF End
<1>1. CASE Tick
  BY <1>1 DEF Tick
<1>2. ASSUME NEW t \in Tickets, Change(t) PROVE TypeOK'
  BY <1>2 DEF Change
<1>3. ASSUME NEW m \in Monitors, StartRound(m) PROVE TypeOK'
  BY <1>3 DEF StartRound
<1>4. ASSUME NEW m \in Monitors, RefreshHeaders(m) PROVE TypeOK'
  <2>1. OwnConf(m) \subseteq Confs
    BY DEF OwnConf, Confs
  <2>. QED
    BY <1>4, <1>0, <1>01, <2>1 DEF RefreshHeaders, HeadersSet, EndRound
<1>5. ASSUME NEW m \in Monitors, LoggedIn(m) PROVE TypeOK'
  <2>1. Trips(m) \subseteq Confs
    BY DEF Trips, Confs
  <2>. QED
    BY <1>5, <1>01, <2>1 DEF LoggedIn
<1>6. ASSUME NEW m \in Monitors, LoginFails(m) PROVE TypeOK'
  <2>1. CASE round[m].tries < MaxRetries
    <3>1. round' \in [Monitors -> Round]
      BY <1>6, <2>1, RoundTypes DEF LoginFails
    <3>. QED
      BY <1>6, <2>1, <3>1 DEF LoginFails
  <2>2. CASE ~(round[m].tries < MaxRetries)
    BY <1>6, <1>0, <2>2 DEF LoginFails, EndRound
  <2>. QED
    BY <2>1, <2>2
<1>7. ASSUME NEW m \in Monitors, LoginRejected(m) PROVE TypeOK'
  BY <1>7, <1>0 DEF LoginRejected
<1>8. ASSUME NEW m \in Monitors, GetFlights(m) PROVE TypeOK'
  <2>1. \A c \in Confs : Upcoming(c) \subseteq Tickets
    BY DEF Upcoming
  <2>2. round' \in [Monitors -> Round]
    <3>1. PICK c \in round[m].asking : Found(m, c) \/ Missed(m, c)
      BY <1>8 DEF GetFlights
    <3>2. c \in Confs
      BY DEF Round
    <3>. QED
      BY <2>1, <3>1, <3>2, AnswerTypes
  <2>. QED
    BY <1>8, <2>2 DEF GetFlights
<1>9. ASSUME NEW m \in Monitors, UpdateScheduledFlights(m) PROVE TypeOK'
  <2>1. NewFlights(m) \subseteq Tickets
    BY DEF NewFlights, Round
  <2>2. \A t \in Tickets : Started(t) \in Live
    BY DEF Started
  <2>3. /\ proc' \in [Tickets -> {"none"} \cup Live \cup Ended]
        /\ attempts' \in [Tickets -> 0..MaxAttempts]
        /\ sigint' \subseteq Monitors \cup Tickets
    BY <1>9, <2>2 DEF UpdateScheduledFlights
  <2>6. sameDay' \in [Tickets -> BOOLEAN]
    <3>1. \A t \in Tickets : IsSameDay(t, round[m].answer) \in BOOLEAN
      BY DEF IsSameDay
    <3>. QED
      BY <1>9, <3>1 DEF UpdateScheduledFlights
  <2>4. scheduled' \in [Monitors -> SUBSET Tickets]
    BY <1>9, <2>1 DEF UpdateScheduledFlights
  <2>5. /\ lock' \in Monitors \cup Tickets \cup {Nobody}
        /\ round' \in [Monitors -> Round]
        /\ pc' \in [Monitors -> {"asleep", "interrupted"} \cup Holding \cup Finished]
    <3>1. CASE Leave(m, "exited")
      BY <1>0, <3>1
    <3>2. CASE Goto(m, "fares") /\ round' = [round EXCEPT ![m] = NoRound] /\ UNCHANGED lock
      BY <3>2, RoundTypes
    <3>. QED
      BY <1>9, <3>1, <3>2 DEF UpdateScheduledFlights
  <2>. QED
    BY <1>9, <2>3, <2>4, <2>5, <2>6 DEF UpdateScheduledFlights
<1>10. ASSUME NEW m \in Monitors, CheckFlightFares(m) PROVE TypeOK'
  BY <1>10, <1>0 DEF CheckFlightFares, EndRound
<1>11. ASSUME NEW m \in Monitors, MonitorCrashes(m) PROVE TypeOK'
  BY <1>11, <1>0 DEF MonitorCrashes
<1>12. ASSUME NEW t \in Tickets, StartRefresh(t) \/ EndRefresh(t) \/ StartCheckIn(t)
       PROVE  TypeOK'
  BY <1>12 DEF StartRefresh, EndRefresh, StartCheckIn, Step
<1>13. ASSUME NEW t \in Tickets, CheckedIn(t) \/ PostFails(t) PROVE TypeOK'
  BY <1>13, <1>02 DEF CheckedIn, PostFails
<1>14. ASSUME NEW t \in Tickets, TryAgain(t) PROVE TypeOK'
  <2>1. CASE attempts[t] + 1 < MaxAttempts
    BY <1>14, <2>1 DEF TryAgain
  <2>2. CASE ~(attempts[t] + 1 < MaxAttempts)
    BY <1>14, <1>02, <2>2 DEF TryAgain
  <2>. QED
    BY <2>1, <2>2
<1>15. ASSUME NEW t \in Tickets, CheckInCrashes(t) PROVE TypeOK'
  BY <1>15, <1>02 DEF CheckInCrashes
<1>16. CASE CtrlC
  BY <1>16 DEF CtrlC
<1>17. ASSUME NEW m \in Monitors, InterruptMonitor(m) \/ StopMonitoring(m)
       PROVE  TypeOK'
  BY <1>17, <1>0 DEF InterruptMonitor, StopMonitoring
<1>18. ASSUME NEW m \in Monitors, LockToStop(m) PROVE TypeOK'
  BY <1>18 DEF LockToStop
<1>19. ASSUME NEW t \in Tickets, StopCheckIn(t) PROVE TypeOK'
  BY <1>19 DEF StopCheckIn
<1>20. ASSUME NEW t \in Tickets, InterruptCheckIn(t) PROVE TypeOK'
  BY <1>20, <1>02 DEF InterruptCheckIn
<1>21. CASE Terminated \/ UNCHANGED vars
  BY <1>21 DEF Terminated, vars
<1>. QED
  BY <1>1, <1>2, <1>3, <1>4, <1>5, <1>6, <1>7, <1>8, <1>9, <1>10, <1>11,
     <1>12, <1>13, <1>14, <1>15, <1>16, <1>17, <1>18, <1>19, <1>20, <1>21
  DEF Next, TakeLock, Check, HandleInterrupt, Proceed

(* Types: every process is in one of its places, and every ticket that is  *)
(* scheduled, found or asked for is one, through interrupts and crashes.   *)
THEOREM TypeCorrect == Spec => []TypeOK
<1>1. Init => TypeOK
  <2>. SUFFICES ASSUME Init PROVE TypeOK
    OBVIOUS
  <2>1. round \in [Monitors -> Round]
    BY NoRoundType DEF Init
  <2>2. 0 \in 0..MaxAttempts /\ 0 \in 0..Horizon /\ 0 \in 0..MaxFaults
        /\ 0 \in 0..MaxChanges
    BY ConstantsOK
  <2>. QED
    BY <2>1, <2>2 DEF Init, TypeOK
<1>2. TypeOK /\ [Next]_vars => TypeOK'
  BY TypeStep
<1>. QED
  BY <1>1, <1>2, PTL DEF Spec

-----------------------------------------------------------------------------
(* Nobody, the monitors and the tickets are told apart.                    *)
LEMMA Apart ==
    /\ \A m \in Monitors : m # Nobody /\ m \notin Tickets
    /\ \A t \in Tickets : t # Nobody /\ t \notin Monitors /\ Owner[t] \in Monitors
  BY ConstantsOK

(* Leaving a round leaves the lock, and so does the end of a check-in.     *)
LEMMA LeaveLock ==
    ASSUME TypeOK, LockIsHeld, NEW m \in Monitors, NEW p, p \notin Holding,
           Leave(m, p), UNCHANGED proc
    PROVE  LockIsHeld'
<1>1. /\ \A n \in Monitors : pc'[n] = IF n = m THEN p ELSE pc[n]
      /\ lock' = IF lock = m THEN Nobody ELSE lock
  BY DEF Leave, Goto, TypeOK
<1>. QED
  BY <1>1, Apart DEF LockIsHeld

LEMMA EndLock ==
    ASSUME TypeOK, LockIsHeld, NEW t \in Tickets, NEW p, p # "refreshing",
           End(t, p), UNCHANGED pc
    PROVE  LockIsHeld'
<1>1. /\ \A s \in Tickets : proc'[s] = IF s = t THEN p ELSE proc[s]
      /\ lock' = IF lock = t THEN Nobody ELSE lock
  BY DEF End, TypeOK
<1>. QED
  BY <1>1, Apart DEF LockIsHeld

(* A monitor that goes on inside the section still has the lock.           *)
LEMMA KeepLock ==
    ASSUME TypeOK, LockIsHeld, NEW m \in Monitors, NEW p \in Holding,
           pc[m] \in Holding, Goto(m, p), UNCHANGED lock,
           \A t \in Tickets : proc'[t] = "refreshing" <=> proc[t] = "refreshing"
    PROVE  LockIsHeld'
<1>1. \A n \in Monitors : pc'[n] = IF n = m THEN p ELSE pc[n]
  BY DEF Goto, TypeOK
<1>. QED
  BY <1>1 DEF LockIsHeld

(* The lock is never abandoned: check-ins are terminated by their monitor  *)
(* only while it has the lock itself, and one that dies otherwise leaves   *)
(* it (src/lib/checkin_handler.py:59-72,                                   *)
(* src/lib/reservation_monitor.py:58-110).                               *)
THEOREM LockHeld == Spec => []LockIsHeld
<1>1. Init => LockIsHeld
  BY Apart DEF Init, LockIsHeld, Holding
<1>2. TypeOK /\ LockIsHeld /\ [Next]_vars => LockIsHeld'
  <2>. SUFFICES ASSUME TypeOK, LockIsHeld, [Next]_vars PROVE LockIsHeld'
    OBVIOUS
  <2>1. ASSUME UNCHANGED <<lock, pc, proc>> PROVE LockIsHeld'
    BY <2>1 DEF LockIsHeld
  <2>2. CASE Tick \/ CtrlC \/ Terminated \/ UNCHANGED vars
               \/ \E t \in Tickets : Change(t)
    BY <2>1, <2>2 DEF Tick, CtrlC, Terminated, Change, checkin, vars
  <2>3. ASSUME NEW m \in Monitors, StartRound(m) \/ LockToStop(m) PROVE LockIsHeld'
    <3>1. /\ lock = Nobody /\ lock' = m /\ UNCHANGED proc
          /\ \E p \in Holding : pc' = [pc EXCEPT ![m] = p]
      BY <2>3 DEF StartRound, LockToStop, Goto, Holding, checkin
    <3>2. \A n \in Monitors : pc'[n] \in Holding <=> n = m
      BY <3>1, Apart DEF LockIsHeld, TypeOK
    <3>. QED
      BY <3>1, <3>2, Apart DEF LockIsHeld
  <2>4. ASSUME NEW m \in Monitors, NEW S, pc[m] \in Holding, Ask(m, S), UNCHANGED proc
        PROVE  LockIsHeld'
    BY <2>4, KeepLock DEF Ask, Holding
  <2>5. ASSUME NEW m \in Monitors, RefreshHeaders(m) PROVE LockIsHeld'
    BY <2>4, <2>5, LeaveLock DEF RefreshHeaders, HeadersSet, EndRound, checkin, Holding
  <2>6. ASSUME NEW m \in Monitors, LoggedIn(m) PROVE LockIsHeld'
    BY <2>4, <2>6 DEF LoggedIn, checkin, Holding
  <2>7. ASSUME NEW m \in Monitors, LoginFails(m) PROVE LockIsHeld'
    BY <2>1, <2>7, LeaveLock DEF LoginFails, EndRound, checkin, Holding
  <2>8. ASSUME NEW m \in Monitors,
               LoginRejected(m) \/ CheckFlightFares(m) \/ MonitorCrashes(m)
                   \/ InterruptMonitor(m) \/ StopMonitoring(m)
        PROVE  LockIsHeld'
    <3>1. UNCHANGED proc
          /\ \E p \in {"rejected", "exited", "asleep", "crashed", "interrupted",
                       "stopped"} : Leave(m, p)
      BY <2>8 DEF LoginRejected, CheckFlightFares, EndRound, MonitorCrashes,
                  InterruptMonitor, StopMonitoring, checkin
    <3>. QED
      BY <3>1, LeaveLock DEF Holding
  <2>9. ASSUME NEW m \in Monitors, GetFlights(m) PROVE LockIsHeld'
    BY <2>1, <2>9 DEF GetFlights, checkin
  <2>10. ASSUME NEW m \in Monitors, UpdateScheduledFlights(m) PROVE LockIsHeld'
    <3>1. /\ pc[m] \in Holding
          /\ Leave(m, "exited") \/ (Goto(m, "fares") /\ UNCHANGED lock)
      BY <2>10 DEF UpdateScheduledFlights, Holding
    <3>2. \A t \in Tickets : proc[t] # "refreshing"
      BY <3>1, Apart DEF LockIsHeld
    <3>3. \A t \in Tickets : Started(t) # "refreshing"
      BY DEF Started
    <3>4. \A t \in Tickets : proc'[t] \in {Started(t), "killed", proc[t]}
      BY <2>10 DEF UpdateScheduledFlights
    <3>5. \A t \in Tickets : proc'[t] # "refreshing"
      BY <3>2, <3>3, <3>4
    <3>6. CASE Leave(m, "exited")
      <4>1. /\ \A n \in Monitors : pc'[n] = IF n = m THEN "exited" ELSE pc[n]
            /\ lock' = Nobody /\ lock = m
        BY <3>1, <3>6 DEF Leave, Goto, TypeOK, LockIsHeld
      <4>. QED
        BY <3>5, <4>1, Apart DEF LockIsHeld, Holding
    <3>7. CASE Goto(m, "fares") /\ UNCHANGED lock
      BY <3>1, <3>2, <3>5, <3>7, KeepLock DEF Holding
    <3>. QED
      BY <3>1, <3>6, <3>7
  <2>11. ASSUME NEW t \in Tickets, StartRefresh(t) PROVE LockIsHeld'
    <3>1. \A s \in Tickets : proc'[s] = IF s = t THEN "refreshing" ELSE proc[s]
      BY <2>11 DEF StartRefresh, Step, TypeOK
    <3>. QED
      BY <2>11, <3>1, Apart DEF StartRefresh, LockIsHeld
  <2>12. ASSUME NEW t \in Tickets, EndRefresh(t) PROVE LockIsHeld'
    <3>1. \A s \in Tickets : proc'[s] = IF s = t THEN "waiting" ELSE proc[s]
      BY <2>12 DEF EndRefresh, Step, TypeOK
    <3>. QED
      BY <2>12, <3>1, Apart DEF EndRefresh, LockIsHeld
  <2>13. ASSUME NEW t \in Tickets, StartCheckIn(t) PROVE LockIsHeld'
    <3>1. \A s \in Tickets : proc'[s] = IF s = t THEN "posting" ELSE proc[s]
      BY <2>13 DEF StartCheckIn, Step, TypeOK
    <3>. QED
      BY <2>13, <3>1, Apart DEF StartCheckIn, LockIsHeld
  <2>14. ASSUME NEW t \in Tickets,
                CheckedIn(t) \/ PostFails(t) \/ CheckInCrashes(t) \/ InterruptCheckIn(t)
         PROVE  LockIsHeld'
    <3>1. UNCHANGED pc
          /\ \E p \in {"succeeded", "failed", "crashed", "interrupted"} : End(t, p)
      BY <2>14 DEF CheckedIn, PostFails, CheckInCrashes, InterruptCheckIn
    <3>. QED
      BY <3>1, EndLock
  <2>15. ASSUME NEW t \in Tickets, TryAgain(t) PROVE LockIsHeld'
    BY <2>1, <2>15, EndLock DEF TryAgain
  <2>16. ASSUME NEW t \in Tickets, StopCheckIn(t) PROVE LockIsHeld'
    <3>1. proc[t] # "refreshing"
      BY <2>16, Apart DEF StopCheckIn, LockIsHeld, Holding
    <3>2. \A s \in Tickets : proc'[s] = IF s = t THEN "killed" ELSE proc[s]
      BY <2>16 DEF StopCheckIn, TypeOK
    <3>. QED
      BY <2>16, <3>1, <3>2 DEF StopCheckIn, LockIsHeld
  <2>. QED
    BY <2>2, <2>3, <2>5, <2>6, <2>7, <2>8, <2>9, <2>10, <2>11, <2>12, <2>13,
       <2>14, <2>15, <2>16
    DEF Next, TakeLock, Check, HandleInterrupt, Proceed
<1>. QED
  BY <1>1, <1>2, TypeCorrect, PTL DEF Spec

-----------------------------------------------------------------------------
(* What a step does to a monitor's local variables.                        *)
LEMMA RoundSteps ==
    ASSUME TypeOK, [Next]_vars, NEW m \in Monitors
    PROVE  \/ /\ round'[m].asking = round[m].asking
              /\ round'[m].answer = round[m].answer
              /\ round'[m].lost = round[m].lost
              /\ pc'[m] = "retrieve" => pc[m] = "retrieve"
           \/ /\ round'[m].asking = {} /\ round'[m].answer = {}
              /\ pc'[m] # "retrieve"
           \/ /\ round'[m].asking \in {OwnConf(m), Trips(m)}
              /\ round'[m].answer = round[m].answer
              /\ UNCHANGED world
           \/ /\ pc[m] = "retrieve" /\ UNCHANGED world
              /\ \E c \in round[m].asking :
                    /\ round'[m].asking = round[m].asking \ {c}
                    /\ \/ /\ round'[m].answer = round[m].answer \cup Upcoming(c)
                          /\ round'[m].lost = round[m].lost
                       \/ /\ round'[m].answer = round[m].answer
                          /\ round'[m].lost = round[m].lost \cup {c}
<1>. DEFINE Same(n) == /\ round'[n].asking = round[n].asking
                       /\ round'[n].answer = round[n].answer
                       /\ round'[n].lost = round[n].lost
                       /\ pc'[n] = "retrieve" => pc[n] = "retrieve"
            Emptied(n) == /\ round'[n].asking = {} /\ round'[n].answer = {}
                          /\ pc'[n] # "retrieve"
            Asked(n) == /\ round'[n].asking \in {OwnConf(n), Trips(n)}
                        /\ round'[n].answer = round[n].answer
                        /\ UNCHANGED world
            Answered(n) ==
                /\ pc[n] = "retrieve" /\ UNCHANGED world
                /\ \E c \in round[n].asking :
                      /\ round'[n].asking = round[n].asking \ {c}
                      /\ \/ /\ round'[n].answer = round[n].answer \cup Upcoming(c)
                            /\ round'[n].lost = round[n].lost
                         \/ /\ round'[n].answer = round[n].answer
                            /\ round'[n].lost = round[n].lost \cup {c}
<1>. SUFFICES Same(m) \/ Emptied(m) \/ Asked(m) \/ Answered(m)
  OBVIOUS
<1>0. round \in [Monitors -> Round] /\ pc = [n \in Monitors |-> pc[n]]
  BY DEF TypeOK
<1>1. ASSUME UNCHANGED <<round, pc>> PROVE Same(m)
  BY <1>1
<1>2. ASSUME NEW n \in Monitors, NEW p, p # "retrieve",
             round' = [round EXCEPT ![n] = NoRound], Goto(n, p)
      PROVE  Same(m) \/ Emptied(m)
  BY <1>0, <1>2 DEF Goto, NoRound
<1>3. ASSUME NEW n \in Monitors, NEW p \in {"asleep", "exited", "rejected",
                 "crashed", "interrupted", "stopped"}, Leave(n, p)
      PROVE  Same(m) \/ Emptied(m)
  BY <1>2, <1>3 DEF Leave
<1>4. ASSUME NEW n \in Monitors, NEW S \in {OwnConf(n), Trips(n)}, Ask(n, S),
             UNCHANGED world
      PROVE  Same(m) \/ Asked(m)
  <2>1. CASE n = m
    BY <1>0, <1>4, <2>1 DEF Ask, Round
  <2>2. CASE n # m
    BY <1>0, <1>4, <2>2 DEF Ask, Goto
  <2>. QED
    BY <2>1, <2>2
<1>5. ASSUME NEW n \in Monitors, StartRound(n) \/ LockToStop(n) PROVE Same(m)
  BY <1>0, <1>5 DEF StartRound, LockToStop, Goto
<1>6. ASSUME NEW n \in Monitors, RefreshHeaders(n)
      PROVE Same(m) \/ Emptied(m) \/ Asked(m)
  BY <1>3, <1>4, <1>6 DEF RefreshHeaders, HeadersSet, EndRound
<1>7. ASSUME NEW n \in Monitors, LoggedIn(n) PROVE Same(m) \/ Asked(m)
  BY <1>4, <1>7 DEF LoggedIn
<1>8. ASSUME NEW n \in Monitors, LoginFails(n) PROVE Same(m) \/ Emptied(m)
  <2>1. CASE round[n].tries < MaxRetries
    <3>1. round' = [round EXCEPT ![n].tries = @ + 1] /\ UNCHANGED pc
      BY <1>8, <2>1 DEF LoginFails
    <3>. QED
      BY <1>0, <3>1 DEF Round
  <2>2. CASE ~(round[n].tries < MaxRetries)
    BY <1>3, <1>8, <2>2 DEF LoginFails, EndRound
  <2>. QED
    BY <2>1, <2>2
<1>9. ASSUME NEW n \in Monitors,
             LoginRejected(n) \/ CheckFlightFares(n) \/ MonitorCrashes(n)
                 \/ InterruptMonitor(n) \/ StopMonitoring(n)
      PROVE  Same(m) \/ Emptied(m)
  BY <1>3, <1>9 DEF LoginRejected, CheckFlightFares, EndRound, MonitorCrashes,
                    InterruptMonitor, StopMonitoring
<1>10. ASSUME NEW n \in Monitors, GetFlights(n) PROVE Same(m) \/ Answered(m)
  <2>1. PICK c \in round[n].asking : Found(n, c) \/ Missed(n, c)
    BY <1>10 DEF GetFlights
  <2>2. CASE n # m
    BY <1>0, <1>10, <2>1, <2>2 DEF GetFlights, Found, Missed
  <2>3. CASE n = m /\ Found(n, c)
    BY <1>0, <1>10, <2>1, <2>3 DEF GetFlights, Found, Round
  <2>4. CASE n = m /\ Missed(n, c)
    BY <1>0, <1>10, <2>1, <2>4 DEF GetFlights, Missed, Round
  <2>. QED
    BY <2>1, <2>2, <2>3, <2>4
<1>11. ASSUME NEW n \in Monitors, UpdateScheduledFlights(n)
       PROVE  Same(m) \/ Emptied(m)
  BY <1>2, <1>3, <1>11 DEF UpdateScheduledFlights
<1>12. ASSUME NEW t \in Tickets, StartRefresh(t) \/ Proceed(t) \/ Change(t)
       PROVE  Same(m)
  BY <1>1, <1>12 DEF StartRefresh, Proceed, EndRefresh, StartCheckIn, CheckedIn,
         TryAgain, PostFails, CheckInCrashes, StopCheckIn, InterruptCheckIn, Change
<1>13. CASE Tick \/ CtrlC \/ Terminated \/ UNCHANGED vars
  BY <1>1, <1>13 DEF Tick, CtrlC, Terminated, vars
<1>. QED
  BY <1>5, <1>6, <1>7, <1>8, <1>9, <1>10, <1>11, <1>12, <1>13
  DEF Next, TakeLock, Check, HandleInterrupt

(* What a step does to a check-in process, and to what its monitor knows.  *)
LEMMA ProcSteps ==
    ASSUME TypeOK, [Next]_vars, NEW t \in Tickets
    PROVE  \/ \E m \in Monitors : UpdateScheduledFlights(m)
           \/ /\ scheduled' = scheduled
              /\ \/ proc'[t] = proc[t]
                 \/ proc[t] \in Live /\ proc'[t] \in {"refreshing", "waiting"}
                 \/ proc[t] = "waiting" /\ proc'[t] = "posting" /\ Due(t)
                       /\ clock' = clock
                 \/ proc'[t] \in {"failed", "crashed", "interrupted"}
                 \/ CheckedIn(t) /\ proc'[t] = "succeeded"
                 \/ StopCheckIn(t) /\ proc'[t] = "killed"
<1>. USE DEF checkin
<1>1. Tick \/ CtrlC \/ Terminated \/ UNCHANGED vars => UNCHANGED <<scheduled, proc>>
  BY DEF Tick, CtrlC, Terminated, vars
<1>2. ASSUME NEW m \in Monitors, TakeLock(m) \/ Check(m) \/ HandleInterrupt(m)
      PROVE  UpdateScheduledFlights(m) \/ UNCHANGED <<scheduled, proc>>
  BY <1>2 DEF TakeLock, StartRound, LockToStop, Check, RefreshHeaders, LoggedIn,
         LoginFails, LoginRejected, GetFlights, CheckFlightFares, MonitorCrashes,
         HandleInterrupt, InterruptMonitor, StopMonitoring
<1>3. ASSUME NEW s \in Tickets, StartRefresh(s) \/ Proceed(s) \/ Change(s), s # t
      PROVE  scheduled' = scheduled /\ proc'[t] = proc[t]
  BY <1>3 DEF StartRefresh, Proceed, EndRefresh, StartCheckIn, Step, CheckedIn,
         TryAgain, PostFails, CheckInCrashes, End, StopCheckIn, InterruptCheckIn,
         Change, TypeOK
<1>4. ASSUME StartRefresh(t) \/ EndRefresh(t)
      PROVE  /\ scheduled' = scheduled
             /\ proc[t] \in Live /\ proc'[t] \in {"refreshing", "waiting"}
  BY <1>4 DEF StartRefresh, EndRefresh, Step, TypeOK, Live
<1>5. ASSUME StartCheckIn(t)
      PROVE  /\ scheduled' = scheduled /\ clock' = clock /\ Due(t)
             /\ proc[t] = "waiting" /\ proc'[t] = "posting"
  BY <1>5 DEF StartCheckIn, Step, TypeOK, world
<1>6. ASSUME TryAgain(t) \/ PostFails(t) \/ CheckInCrashes(t) \/ InterruptCheckIn(t)
      PROVE  /\ scheduled' = scheduled
             /\ \/ proc'[t] = proc[t]
                \/ proc'[t] \in {"failed", "crashed", "interrupted"}
  BY <1>6 DEF TryAgain, PostFails, CheckInCrashes, InterruptCheckIn, End, TypeOK
<1>7. ASSUME CheckedIn(t) PROVE scheduled' = scheduled /\ proc'[t] = "succeeded"
  BY <1>7 DEF CheckedIn, End, TypeOK
<1>8. ASSUME StopCheckIn(t) PROVE scheduled' = scheduled /\ proc'[t] = "killed"
  BY <1>8 DEF StopCheckIn, TypeOK
<1>9. ASSUME Change(t) PROVE UNCHANGED <<scheduled, proc>>
  BY <1>9 DEF Change
<1>. QED
  BY <1>1, <1>2, <1>3, <1>4, <1>5, <1>6, <1>7, <1>8, <1>9 DEF Next, Proceed

(* An update starts and stops check-ins of its own monitor only.           *)
LEMMA UpdateSteps ==
    ASSUME TypeOK, NEW m \in Monitors, UpdateScheduledFlights(m)
    PROVE  /\ pc[m] = "retrieve" /\ round[m].asking = {}
           /\ scheduled'[m] = (scheduled[m] \cup NewFlights(m)) \ OldFlights(m)
           /\ \A n \in Monitors \ {m} : scheduled'[n] = scheduled[n]
           /\ \A t \in Tickets :
                 \/ t \in NewFlights(m) /\ proc'[t] = Started(t)
                 \/ t \in OldFlights(m) /\ proc[t] \in Live /\ proc'[t] = "killed"
                 \/ proc'[t] = proc[t]
                       /\ (t \in OldFlights(m) => proc[t] \notin Live)
           /\ NewFlights(m) \cap OldFlights(m) = {}
           /\ NewFlights(m) \subseteq round[m].answer
           /\ OldFlights(m) \subseteq scheduled[m] \ round[m].answer
           /\ UNCHANGED world /\ UNCHANGED budget
<1>1. /\ NewFlights(m) \subseteq round[m].answer
      /\ OldFlights(m) \subseteq scheduled[m]
      /\ \A t \in OldFlights(m) : Leg[t] \notin Legs(round[m].answer)
      /\ \A t \in round[m].answer : Leg[t] \in Legs(round[m].answer)
  BY DEF NewFlights, OldFlights, Legs
<1>2. NewFlights(m) \cap OldFlights(m) = {} /\ OldFlights(m) \cap round[m].answer = {}
  BY <1>1
<1>. QED
  BY <1>1, <1>2 DEF UpdateScheduledFlights, TypeOK

-----------------------------------------------------------------------------
(* What a monitor asks for, finds and schedules is its own; with that, the *)
(* check-ins it started stay among those it knows.                         *)
Owned ==
    \A m \in Monitors :
        /\ round[m].asking \subseteq OwnConf(m)
        /\ \A t \in round[m].answer \cup scheduled[m] : Owner[t] = m

Known == Owned /\ NoStrayCheckIn

LEMMA KnownHolds == Spec => []Known
<1>1. Init => Known
  BY DEF Init, Known, Owned, NoStrayCheckIn, NoRound, Live
<1>2. TypeOK /\ Known /\ [Next]_vars => Known'
  <2>. SUFFICES ASSUME TypeOK, Known, [Next]_vars PROVE Known'
    OBVIOUS
  <2>1. ASSUME NEW m \in Monitors
        PROVE  /\ round'[m].asking \subseteq OwnConf(m)
               /\ \A t \in round'[m].answer : Owner[t] = m
    <3>1. \A c \in OwnConf(m) : \A t \in Upcoming(c) : Owner[t] = m
      BY ConstantsOK DEF OwnConf, Upcoming, TypeOK
    <3>2. Trips(m) \subseteq OwnConf(m)
      BY DEF Trips, OwnConf, TypeOK
    <3>3. /\ round[m].asking \subseteq OwnConf(m)
          /\ \A t \in round[m].answer : Owner[t] = m
      BY DEF Known, Owned
    <3>. QED
      BY <3>1, <3>2, <3>3, RoundSteps
  <2>2. ASSUME NEW m \in Monitors, UpdateScheduledFlights(m) PROVE Known'
    <3>1. /\ scheduled'[m] = (scheduled[m] \cup NewFlights(m)) \ OldFlights(m)
          /\ \A n \in Monitors \ {m} : scheduled'[n] = scheduled[n]
          /\ NewFlights(m) \cap OldFlights(m) = {}
          /\ NewFlights(m) \subseteq round[m].answer
      BY <2>2, UpdateSteps
    <3>2. \A n \in Monitors : \A t \in scheduled'[n] : Owner[t] = n
      BY <3>1 DEF Known, Owned
    <3>3. ASSUME NEW t \in Tickets, proc'[t] \in Live PROVE t \in scheduled'[Owner[t]]
      <4>1. \/ t \in NewFlights(m)
            \/ proc[t] \in Live /\ t \notin OldFlights(m)
        BY <2>2, <3>3, UpdateSteps DEF Live
      <4>2. CASE t \in NewFlights(m)
        BY <3>1, <4>2 DEF Known, Owned
      <4>3. CASE proc[t] \in Live /\ t \notin OldFlights(m)
        <5>1. t \in scheduled[Owner[t]] /\ Owner[t] \in Monitors
          BY <4>3, Apart DEF Known, NoStrayCheckIn
        <5>. QED
          BY <3>1, <4>3, <5>1
      <4>. QED
        BY <4>1, <4>2, <4>3
    <3>. QED
      BY <2>1, <3>2, <3>3 DEF Known, Owned, NoStrayCheckIn
  <2>3. ASSUME ~\E m \in Monitors : UpdateScheduledFlights(m) PROVE Known'
    <3>1. ASSUME NEW t \in Tickets
          PROVE  scheduled' = scheduled /\ (proc'[t] \in Live => proc[t] \in Live)
      BY <2>3, ProcSteps DEF Live
    <3>2. scheduled' = scheduled \/ Tickets = {}
      BY <3>1
    <3>3. \A n \in Monitors : \A t \in scheduled'[n] : Owner[t] = n
      <4>1. CASE scheduled' = scheduled
        BY <4>1 DEF Known, Owned
      <4>2. CASE Tickets = {}
        <5>1. TypeOK'
          BY TypeStep
        <5>. QED
          BY <4>2, <5>1 DEF TypeOK
      <4>. QED
        BY <3>2, <4>1, <4>2
    <3>. QED
      BY <2>1, <3>1, <3>3 DEF Known, Owned, NoStrayCheckIn
  <2>. QED
    BY <2>2, <2>3
<1>. QED
  BY <1>1, <1>2, TypeCorrect, PTL DEF Spec

(* Every check-in that runs can be stopped by its monitor: the lists       *)
(* `flights` and `checkin_handlers`, which are searched by Flight.__eq__,  *)
(* keep up with the processes (src/lib/checkin_scheduler.py:113-158).      *)
THEOREM NoneStray == Spec => []NoStrayCheckIn
  BY KnownHolds, PTL DEF Known

-----------------------------------------------------------------------------
(* A monitor that has stopped after Ctrl-C has stopped its check-ins.      *)
Quiet ==
    \A m \in Monitors :
        pc[m] = "stopped" => \A t \in scheduled[m] : proc[t] \notin Live

(* A monitor stops by StopMonitoring only.                                 *)
LEMMA StopSteps ==
    ASSUME TypeOK, [Next]_vars, NEW m \in Monitors, pc'[m] = "stopped"
    PROVE  pc[m] = "stopped" \/ StopMonitoring(m)
<1>1. ASSUME NEW n \in Monitors, NEW p, p # "stopped", Goto(n, p) \/ UNCHANGED pc
      PROVE pc[m] = "stopped"
  BY <1>1 DEF Goto, TypeOK
<1>2. ASSUME NEW n \in Monitors, TakeLock(n) \/ Check(n) \/ InterruptMonitor(n)
      PROVE pc[m] = "stopped"
  <2>1. UNCHANGED pc \/ \E p \in {"login", "headers", "stopping", "asleep", "exited",
            "retrieve", "rejected", "fares", "crashed", "interrupted"} : Goto(n, p)
    BY <1>2 DEF TakeLock, StartRound, LockToStop, Check, RefreshHeaders, HeadersSet,
           Ask, LoggedIn, LoginFails, LoginRejected, GetFlights, CheckFlightFares,
           MonitorCrashes, EndRound, Leave, UpdateScheduledFlights, InterruptMonitor
  <2>. QED
    BY <1>1, <2>1
<1>3. ASSUME NEW n \in Monitors, StopMonitoring(n)
      PROVE pc[m] = "stopped" \/ StopMonitoring(m)
  BY <1>3 DEF StopMonitoring, Leave, Goto, TypeOK
<1>4. ASSUME UNCHANGED pc PROVE pc[m] = "stopped"
  BY <1>4
<1>5. (\E t \in Tickets : StartRefresh(t) \/ Proceed(t) \/ Change(t))
          \/ Tick \/ CtrlC \/ Terminated \/ UNCHANGED vars => UNCHANGED pc
  BY DEF StartRefresh, Proceed, EndRefresh, StartCheckIn, CheckedIn, TryAgain,
         PostFails, CheckInCrashes, StopCheckIn, InterruptCheckIn, Change, Tick,
         CtrlC, Terminated, vars
<1>. QED
  BY <1>2, <1>3, <1>4, <1>5 DEF Next, HandleInterrupt

(* A monitor that ends because nothing is left to check in, or because of  *)
(* Ctrl-C, leaves no process behind (src/lib/reservation_monitor.py:167).  *)
THEOREM NoneLeftBehind == Spec => []NothingLeftBehind
<1>1. Init => Quiet
  BY DEF Init, Quiet
<1>2. TypeOK /\ Known /\ Quiet /\ [Next]_vars => Quiet'
  <2>. SUFFICES ASSUME TypeOK, Known, Quiet, [Next]_vars, NEW m \in Monitors,
                       pc'[m] = "stopped", NEW t \in scheduled'[m]
                PROVE  proc'[t] \notin Live
    BY DEF Quiet
  <2>0. t \in Tickets
    BY TypeStep DEF TypeOK
  <2>1. CASE StopMonitoring(m)
    BY <2>1 DEF StopMonitoring, checkin
  <2>2. CASE pc[m] = "stopped" /\ \E n \in Monitors : UpdateScheduledFlights(n)
    <3>1. PICK n \in Monitors : UpdateScheduledFlights(n)
      BY <2>2
    <3>2. n # m /\ scheduled'[m] = scheduled[m]
      BY <2>2, <3>1, UpdateSteps
    <3>3. t \notin NewFlights(n)
      BY <3>1, <3>2, UpdateSteps DEF Known, Owned
    <3>4. proc'[t] = proc[t] \/ proc'[t] = "killed"
      BY <2>0, <3>1, <3>3, UpdateSteps
    <3>. QED
      BY <2>2, <3>2, <3>4 DEF Quiet, Live
  <2>3. CASE pc[m] = "stopped" /\ ~\E n \in Monitors : UpdateScheduledFlights(n)
    <3>1. scheduled' = scheduled /\ (proc'[t] \in Live => proc[t] \in Live)
      BY <2>0, <2>3, ProcSteps DEF Live
    <3>. QED
      BY <2>3, <3>1 DEF Quiet
  <2>. QED
    BY <2>1, <2>2, <2>3, StopSteps
<1>3. Known /\ Quiet => NothingLeftBehind
  BY DEF Known, NoStrayCheckIn, Quiet, NothingLeftBehind
<1>. QED
  BY <1>1, <1>2, <1>3, TypeCorrect, KnownHolds, PTL DEF Spec

-----------------------------------------------------------------------------
(* What a step does to the world: bookings change by Change only, time     *)
(* does not go back.                                                       *)
LEMMA WorldSteps ==
    ASSUME TypeOK, [Next]_vars
    PROVE  /\ clock \in Nat /\ clock' \in Nat /\ clock <= clock'
           /\ changes' = 0 => changes = 0 /\ booked' = booked
<1>1. clock \in Nat /\ changes \in Nat
  BY ConstantsOK DEF TypeOK
<1>2. CASE Tick
  BY <1>1, <1>2 DEF Tick, budget
<1>3. ASSUME NEW t \in Tickets, Change(t)
      PROVE  clock' = clock /\ changes' = changes + 1
  BY <1>3 DEF Change
<1>4. (\E m \in Monitors : TakeLock(m) \/ Check(m) \/ HandleInterrupt(m))
          \/ (\E t \in Tickets : StartRefresh(t) \/ Proceed(t))
          \/ CtrlC \/ Terminated \/ UNCHANGED vars =>
      UNCHANGED <<clock, booked, changes>>
  BY DEF TakeLock, StartRound, LockToStop, Check, RefreshHeaders, LoggedIn,
         LoginFails, LoginRejected, GetFlights, CheckFlightFares, MonitorCrashes,
         UpdateScheduledFlights, HandleInterrupt, InterruptMonitor,
         StopMonitoring, StartRefresh, Proceed, EndRefresh, StartCheckIn,
         CheckedIn, TryAgain, PostFails, CheckInCrashes, StopCheckIn,
         InterruptCheckIn, CtrlC, Terminated, world, budget, vars
<1>. QED
  BY <1>1, <1>2, <1>3, <1>4 DEF Next

(* Processes handle a Ctrl-C only after it was pressed.                    *)
Interrupting ==
    /\ sigint # {} => interrupted
    /\ \A m \in Monitors : pc[m] \in {"interrupted", "stopping"} => interrupted

LEMMA InterruptingHolds == Spec => []Interrupting
<1>. USE DEF Interrupting
<1>1. Init => Interrupting
  BY DEF Init
<1>2. TypeOK /\ Interrupting /\ [Next]_vars => Interrupting'
  <2>. SUFFICES ASSUME TypeOK, Interrupting, [Next]_vars PROVE Interrupting'
    OBVIOUS
  <2>. USE DEF signals
  <2>0. \A n \in Monitors : \A p : Goto(n, p) =>
            \A m \in Monitors : pc'[m] = IF m = n THEN p ELSE pc[m]
    BY DEF Goto, TypeOK
  <2>1. ASSUME NEW n \in Monitors, StartRound(n) \/ Check(n) PROVE Interrupting'
    <3>1. UNCHANGED pc \/ \E p \in {"login", "headers", "asleep", "exited",
              "retrieve", "rejected", "fares", "crashed"} : Goto(n, p)
      BY <2>1 DEF StartRound, Check, RefreshHeaders, HeadersSet, Ask, LoggedIn,
             LoginFails, LoginRejected, GetFlights, CheckFlightFares,
             MonitorCrashes, EndRound, Leave, UpdateScheduledFlights
    <3>2. interrupted' = interrupted /\ sigint' \subseteq sigint
      BY <2>1 DEF StartRound, Check, RefreshHeaders, LoggedIn, LoginFails,
             LoginRejected, GetFlights, CheckFlightFares, MonitorCrashes,
             UpdateScheduledFlights
    <3>. QED
      BY <2>0, <3>1, <3>2
  <2>2. ASSUME NEW n \in Monitors, LockToStop(n) \/ StopMonitoring(n)
        PROVE Interrupting'
    BY <2>0, <2>2 DEF LockToStop, StopMonitoring, Leave
  <2>3. ASSUME NEW n \in Monitors, InterruptMonitor(n) PROVE Interrupting'
    BY <2>3 DEF InterruptMonitor
  <2>4. ASSUME NEW t \in Tickets, StartRefresh(t) \/ Proceed(t) \/ Change(t)
        PROVE Interrupting'
    BY <2>4 DEF StartRefresh, Proceed, EndRefresh, StartCheckIn, CheckedIn,
         TryAgain, PostFails, CheckInCrashes, StopCheckIn, InterruptCheckIn, Change
  <2>5. CASE Tick \/ CtrlC \/ Terminated \/ UNCHANGED vars
    BY <2>5 DEF Tick, CtrlC, Terminated, vars
  <2>. QED
    BY <2>1, <2>2, <2>3, <2>4, <2>5 DEF Next, TakeLock, HandleInterrupt
<1>. QED
  BY <1>1, <1>2, TypeCorrect, PTL DEF Spec

(* Once Ctrl-C was pressed, every process still has it to handle, or is    *)
(* handling it, or has ended.                                              *)
Halted ==
    interrupted =>
        /\ \A m \in Monitors :
              m \in sigint \/ pc[m] \in {"interrupted", "stopping"} \cup Finished
        /\ \A t \in Tickets : proc[t] \in Live => t \in sigint

(* A check-in that has the signal to handle can only end by it; so can one *)
(* that is new, or goes on, only before the signal.                        *)
LEMMA HaltedStep ==
    ASSUME TypeOK, Halted, [Next]_vars, interrupted
    PROVE  /\ Halted'
           /\ \A t \in Tickets :
                 proc'[t] = proc[t] \/ proc'[t] \in {"interrupted", "killed"}
<1>. DEFINE Final == \A t \in Tickets :
                        proc'[t] = proc[t] \/ proc'[t] \in {"interrupted", "killed"}
<1>. SUFFICES Halted' /\ Final
  OBVIOUS
<1>1. /\ \A m \in Monitors :
            m \in sigint \/ pc[m] \in {"interrupted", "stopping"} \cup Finished
      /\ \A t \in Tickets : proc[t] \in Live => t \in sigint
  BY DEF Halted
<1>2. ASSUME UNCHANGED <<pc, proc, sigint>> PROVE Halted' /\ Final
  BY <1>1, <1>2 DEF Halted
<1>3. CASE Tick \/ CtrlC \/ Terminated \/ UNCHANGED vars
             \/ \E t \in Tickets : Change(t)
  BY <1>2, <1>3 DEF Tick, CtrlC, Terminated, Change, checkin, signals, vars
<1>4. ASSUME NEW m \in Monitors PROVE ~StartRound(m) /\ ~Check(m)
  BY <1>1 DEF StartRound, Check, RefreshHeaders, LoggedIn, LoginFails, LoginRejected,
         GetFlights, UpdateScheduledFlights, CheckFlightFares, MonitorCrashes, Alert,
         Finished
<1>5. ASSUME NEW m \in Monitors, LockToStop(m) \/ InterruptMonitor(m) \/ StopMonitoring(m)
      PROVE  Halted' /\ Final
  <2>1. /\ \E p \in {"interrupted", "stopping", "stopped"} : Goto(m, p)
        /\ UNCHANGED proc /\ sigint' \in {sigint, sigint \ {m}}
    BY <1>5 DEF LockToStop, InterruptMonitor, StopMonitoring, Leave, checkin, signals
  <2>2. /\ pc'[m] \in {"interrupted", "stopping", "stopped"}
        /\ \A n \in Monitors \ {m} : pc'[n] = pc[n]
    BY <2>1 DEF Goto, TypeOK
  <2>. QED
    BY <1>1, <2>1, <2>2, Apart DEF Halted, Finished
<1>6. ASSUME NEW t \in Tickets
      PROVE  ~StartRefresh(t) /\ ~EndRefresh(t) /\ ~StartCheckIn(t) /\ ~CheckedIn(t)
             /\ ~TryAgain(t) /\ ~PostFails(t) /\ ~CheckInCrashes(t)
  BY <1>1 DEF StartRefresh, EndRefresh, StartCheckIn, CheckedIn, TryAgain, PostFails,
         CheckInCrashes, Alert, Live
<1>7. ASSUME NEW t \in Tickets, StopCheckIn(t) \/ InterruptCheckIn(t)
      PROVE  Halted' /\ Final
  <2>1. /\ UNCHANGED pc /\ sigint' = sigint \ {t}
        /\ \E p \in {"interrupted", "killed"} : proc' = [proc EXCEPT ![t] = p]
    BY <1>7 DEF StopCheckIn, InterruptCheckIn, End
  <2>2. /\ proc'[t] \in {"interrupted", "killed"}
        /\ \A s \in Tickets \ {t} : proc'[s] = proc[s]
    BY <2>1 DEF TypeOK
  <2>. QED
    BY <1>1, <2>1, <2>2, Apart DEF Halted, Live
<1>. QED
  BY <1>3, <1>4, <1>5, <1>6, <1>7 DEF Next, TakeLock, HandleInterrupt, Proceed

(* After Ctrl-C nothing is checked in any more: the interrupt leaves the   *)
(* loop and the lock before the monitor takes the lock again, and every    *)
(* process got the signal (src/lib/reservation_monitor.py:58-67,           *)
(* src/lib/checkin_handler.py:74-92).                                      *)
THEOREM NothingAfterCtrlC == Spec => CtrlCIsFinal
<1>1. Init => Halted
  BY DEF Init, Halted
<1>2. TypeOK /\ Halted /\ [Next]_vars => Halted'
  <2>. SUFFICES ASSUME TypeOK, Halted, [Next]_vars, ~interrupted PROVE Halted'
    BY HaltedStep
  <2>1. CASE CtrlC
    BY <2>1 DEF CtrlC, Halted, checkin
  <2>2. CASE ~CtrlC
    <3>1. interrupted' = interrupted
      BY <2>2 DEF Next, Tick, Terminated, TakeLock, StartRound, LockToStop, Check,
         RefreshHeaders, LoggedIn, LoginFails, LoginRejected, GetFlights,
         UpdateScheduledFlights, CheckFlightFares, MonitorCrashes, HandleInterrupt,
         InterruptMonitor, StopMonitoring, StartRefresh, Proceed, EndRefresh,
         StartCheckIn, CheckedIn, TryAgain, PostFails, CheckInCrashes, StopCheckIn,
         InterruptCheckIn, Change, signals, vars
    <3>. QED
      BY <3>1 DEF Halted
  <2>. QED
    BY <2>1, <2>2
<1>3. TypeOK /\ Halted /\ [Next]_vars =>
        [interrupted => \A t \in Tickets :
            proc'[t] = proc[t] \/ proc'[t] \in {"interrupted", "killed"}]_vars
  BY HaltedStep
<1>. QED
  BY <1>1, <1>2, <1>3, TypeCorrect, PTL DEF Spec, CtrlCIsFinal

-----------------------------------------------------------------------------
(* While bookings do not change, what was found and scheduled is booked,   *)
(* and a booking is still to be asked for, was found, or was missed.       *)
Complete ==
    changes = 0 =>
        \A m \in Monitors :
            /\ round[m].answer \cup scheduled[m] \subseteq booked
            /\ pc[m] = "retrieve" =>
                  \A t \in booked : Owner[t] = m /\ ~Departed(t) =>
                      t \in round[m].answer
                          \/ Conf[t] \in round[m].asking \cup round[m].lost

LEMMA CompleteHolds == Spec => []Complete
<1>1. Init => Complete
  BY DEF Init, Complete, NoRound
<1>2. TypeOK /\ Complete /\ [Next]_vars => Complete'
  <2>. SUFFICES ASSUME TypeOK, Complete, [Next]_vars, changes' = 0,
                       NEW m \in Monitors
                PROVE  /\ round'[m].answer \cup scheduled'[m] \subseteq booked'
                       /\ pc'[m] = "retrieve" =>
                             \A t \in booked' : Owner[t] = m /\ ~Departed(t)' =>
                                 t \in round'[m].answer
                                     \/ Conf[t] \in round'[m].asking \cup round'[m].lost
    BY DEF Complete
  <2>1. /\ changes = 0 /\ booked' = booked
        /\ \A t \in Tickets : Departed(t) => Departed(t)'
    <3>1. \A t \in Tickets : Departure(t) \in Nat
      BY ConstantsOK DEF Departure
    <3>2. /\ clock \in Nat /\ clock' \in Nat /\ clock <= clock'
          /\ changes = 0 /\ booked' = booked
      BY WorldSteps
    <3>3. ASSUME NEW t \in Tickets, Departed(t) PROVE Departed(t)'
      BY <3>1, <3>2, <3>3 DEF Departed, Departure
    <3>. QED
      BY <3>2, <3>3
  <2>2. /\ round[m].answer \cup scheduled[m] \subseteq booked
        /\ booked \subseteq Tickets
        /\ pc[m] = "retrieve" =>
              \A t \in booked : Owner[t] = m /\ ~Departed(t) =>
                  t \in round[m].answer
                      \/ Conf[t] \in round[m].asking \cup round[m].lost
    BY <2>1 DEF Complete, TypeOK
  <2>3. \A c : Upcoming(c) \subseteq booked
    BY DEF Upcoming
  <2>4. \A t \in booked : Owner[t] = m /\ ~Departed(t) =>
            Conf[t] \in OwnConf(m) /\ Conf[t] \in Trips(m)
    BY <2>2 DEF OwnConf, Trips
  <2>5. \A t \in booked : ~Departed(t) => t \in Upcoming(Conf[t])
    BY DEF Upcoming
  <2>6. round'[m].answer \subseteq booked
    BY <2>2, <2>3, RoundSteps
  <2>7. scheduled'[m] \subseteq booked
    <3>1. CASE \E n \in Monitors : UpdateScheduledFlights(n)
      BY <2>2, <3>1, UpdateSteps
    <3>2. CASE ~\E n \in Monitors : UpdateScheduledFlights(n)
      <4>1. CASE Tickets = {}
        BY <4>1, TypeStep DEF TypeOK
      <4>2. CASE Tickets # {}
        <5>1. scheduled' = scheduled
          BY <3>2, <4>2, ProcSteps
        <5>. QED
          BY <2>2, <5>1
      <4>. QED
        BY <4>1, <4>2
    <3>. QED
      BY <3>1, <3>2
  <2>8. ASSUME pc'[m] = "retrieve", NEW t \in booked, Owner[t] = m, ~Departed(t)
        PROVE  t \in round'[m].answer
                   \/ Conf[t] \in round'[m].asking \cup round'[m].lost
    BY <2>2, <2>4, <2>5, <2>8, RoundSteps
  <2>. QED
    BY <2>1, <2>2, <2>6, <2>7, <2>8
<1>. QED
  BY <1>1, <1>2, TypeCorrect, PTL DEF Spec

(* A check-in is given up only after Ctrl-C, or if its flight departed, is *)
(* no longer booked, or its reservation could not be retrieved: a failed   *)
(* login or a timeout ends the round before it comes to the scheduled      *)
(* flights (src/lib/reservation_monitor.py:91-114, :195-265).              *)
THEOREM OnlyForCause == Spec => CancelledForCause
<1>. DEFINE ForCause ==
        \A t \in Tickets :
            proc[t] \in Live /\ proc'[t] = "killed" =>
                LET m == Owner[t]
                IN  \/ interrupted
                    \/ Departed(t)
                    \/ Conf[t] \in round[m].lost
                    \/ t \notin round[m].answer /\ changes > 0
<1>1. TypeOK /\ Known /\ Interrupting /\ Complete /\ [Next]_vars => [ForCause]_vars
  <2>. SUFFICES ASSUME TypeOK, Known, Interrupting, Complete, [Next]_vars,
                       NEW t \in Tickets, proc[t] \in Live, proc'[t] = "killed",
                       NEW m, m = Owner[t]
                PROVE  \/ interrupted
                       \/ Departed(t)
                       \/ Conf[t] \in round[m].lost
                       \/ t \notin round[m].answer /\ changes > 0
    OBVIOUS
  <2>0. m \in Monitors
    BY Apart
  <2>1. CASE StopCheckIn(t)
    BY <2>0, <2>1 DEF StopCheckIn, Interrupting
  <2>2. CASE \E n \in Monitors : UpdateScheduledFlights(n)
    <3>1. PICK n \in Monitors : UpdateScheduledFlights(n)
      BY <2>2
    <3>2. t \in OldFlights(n)
      BY <3>1, UpdateSteps DEF Live, Started
    <3>3. /\ t \in scheduled[n] /\ t \notin round[n].answer
          /\ pc[n] = "retrieve" /\ round[n].asking = {}
      BY <3>1, <3>2, UpdateSteps
    <3>4. n = m
      BY <3>3 DEF Known, Owned
    <3>5. changes \in Nat
      BY ConstantsOK DEF TypeOK
    <3>6. CASE changes = 0
      <4>1. t \in booked
        BY <3>3, <3>6 DEF Complete
      <4>. QED
        BY <3>3, <3>4, <3>6, <4>1 DEF Complete
    <3>. QED
      BY <3>3, <3>4, <3>5, <3>6
  <2>. QED
    BY <2>1, <2>2, ProcSteps DEF Live
<1>. QED
  BY <1>1, TypeCorrect, KnownHolds, InterruptingHolds, CompleteHolds, PTL
  DEF Spec, CancelledForCause

-----------------------------------------------------------------------------
(* A check-in posts only when it is due, by a clock that may run ahead.    *)
PostsWhenDue == \A t \in Tickets : proc[t] = "posting" => Due(t)

LEMMA PostsWhenDueHolds == Spec => []PostsWhenDue
<1>1. Init => PostsWhenDue
  BY DEF Init, PostsWhenDue
<1>2. TypeOK /\ PostsWhenDue /\ [Next]_vars => PostsWhenDue'
  <2>. SUFFICES ASSUME TypeOK, PostsWhenDue, [Next]_vars, NEW t \in Tickets,
                       proc'[t] = "posting"
                PROVE  Due(t)'
    BY DEF PostsWhenDue
  <2>1. /\ Departure(t) \in Nat /\ Day \in Nat /\ Skew \in Nat
        /\ clock \in Nat /\ clock' \in Nat /\ clock <= clock'
    BY ConstantsOK, WorldSteps DEF Departure
  <2>2. Due(t) => Due(t)'
    BY <2>1 DEF Due, DueIn, Departure
  <2>3. ASSUME NEW m \in Monitors, UpdateScheduledFlights(m) PROVE Due(t)
    BY <2>3, UpdateSteps DEF Started, PostsWhenDue
  <2>. QED
    BY <2>2, <2>3, ProcSteps DEF PostsWhenDue, CheckedIn
<1>. QED
  BY <1>1, <1>2, TypeCorrect, PTL DEF Spec

(* For any number of flights in a reservation, and however far our clock   *)
(* is ahead of Southwest's: what is told as a success is one, or is the    *)
(* success of that many earlier flights within Day + Skew, which the count *)
(* of the flights in the answer (src/lib/checkin_handler.py:163-197) takes *)
(* for that of the ticket.  With a clock that is not ahead there are none  *)
(* such, as the ticket is open whenever it is posted.                      *)
THEOREM SuccessesAreReal == Spec => SuccessIsReal
<1>. DEFINE Real ==
        \A t \in Tickets :
            proc[t] # "succeeded" /\ proc'[t] = "succeeded" =>
                \/ t \in Accepted(t)
                \/ t \notin booked \/ Departed(t)
                \/ Cardinality(EarlierOpen(t)) >= (IF sameDay[t] THEN 2 ELSE 1)
<1>1. TypeOK /\ PostsWhenDue /\ [Next]_vars => [Real]_vars
  <2>. SUFFICES ASSUME TypeOK, PostsWhenDue, [Next]_vars, NEW t \in Tickets,
                       proc[t] # "succeeded", proc'[t] = "succeeded",
                       t \in booked, ~Departed(t), t \notin Accepted(t)
                PROVE  Cardinality(EarlierOpen(t)) >= (IF sameDay[t] THEN 2 ELSE 1)
    OBVIOUS
  <2>1. CheckedIn(t)
    <3>1. \A m \in Monitors : ~UpdateScheduledFlights(m)
      BY UpdateSteps DEF Started
    <3>. QED
      BY <3>1, ProcSteps
  <2>2. Due(t) /\ ~WindowOpen(t)
    BY <2>1 DEF CheckedIn, PostsWhenDue, Accepted
  <2>3. ASSUME NEW s \in Accepted(t) PROVE s \in EarlierOpen(t)
    <3>1. s \in Tickets /\ WindowOpen(s)
      BY <2>3 DEF Accepted, TypeOK
    <3>2. /\ Departure(s) \in Nat /\ Departure(t) \in Nat
          /\ Day \in Nat /\ Skew \in Nat /\ clock \in Nat
      BY <3>1, ConstantsOK, WorldSteps DEF Departure
    <3>3. /\ Departure(s) - Day - 0 <= clock
          /\ Departure(t) - Day - Skew <= clock /\ clock < Departure(s)
          /\ ~(Departure(t) - Day - 0 <= clock)
      BY <2>2, <3>1, <3>2 DEF WindowOpen, Due, DueIn, Departed
    <3>4. /\ Departure(s) < Departure(t)
          /\ Departure(t) - Departure(s) < Day + Skew
      BY <3>2, <3>3
    <3>. QED
      BY <3>4 DEF EarlierOpen
  <2>4. EarlierOpen(t) = Accepted(t)
    BY <2>3 DEF EarlierOpen
  <2>. QED
    BY <2>1, <2>4 DEF CheckedIn, Expected
<1>. QED
  BY <1>1, TypeCorrect, PostsWhenDueHolds, PTL DEF Spec, SuccessIsReal
=============================================================================
