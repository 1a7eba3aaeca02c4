------------------------ MODULE BrowserSessionProofs ------------------------
(***************************************************************************)
(* What holds of the shared browser for any number of check-in threads:    *)
(* its lock is held by whoever works on it, so no request that is in the   *)
(* page is disturbed.                                                      *)
(***************************************************************************)
EXTENDS BrowserSession, TLAPS

(* The steps made inside a "with self._lock" or between acquire and        *)
(* release.                                                                *)
Working == {"fetch", "restarting", "preparing", "checking", "loggingin",
            "rechecking", "upgrading", "restoring"}

(* Only the owner of the lock is at one of them.                           *)
OwnersWork == \A c \in Clients : pc[c] \in Working => lock = c

(* A request that has not ended has an attempt left, unless it is making   *)
(* its last one; whoever makes no request has not counted any.             *)
AttemptsLeft ==
    \A c \in Clients :
        /\ pc[c] \in {"ask", "refused", "restarting"} => attempts[c] < MaxAttempts
        /\ pc[c] \notin Asking => attempts[c] = 0

(* A flight is being upgraded only while flights are left.                 *)
UpgradesLeft ==
    pc[Main] \in {"lookup", "upgrading", "restore", "restoring"} => upgrades > 0

IInv == TypeOK /\ OwnersWork /\ AttemptsLeft /\ UpgradesLeft

-----------------------------------------------------------------------------
(* Type correctness.                                                       *)

(* The constants the types depend on.                                      *)
LEMMA Names ==
    /\ Main \in Clients
    /\ Threads \subseteq Clients
    /\ Nobody \notin Clients
    /\ Main \notin Threads
    /\ \A c \in Clients : c # Main => c \in Threads
  BY ConstantsOK DEF Clients

PcsOK == /\ pc \in [Clients -> ThreadPcs \cup MainPcs]
         /\ \A t \in Threads : pc[t] \in ThreadPcs
         /\ pc[Main] \in MainPcs

(* A thread goes to one of its own steps.                                  *)
LEMMA GotoType ==
  ASSUME TypeOK, NEW c \in Clients, NEW p, Goto(c, p),
         c = Main => p \in MainPcs, c # Main => p \in ThreadPcs
  PROVE  PcsOK'
  BY Names DEF TypeOK, Goto, PcsOK

(* A browser that is started, or fails to, has the type of a browser.      *)
LEMMA StartType ==
  ASSUME TypeOK, Started \/ StartRaises
  PROVE  /\ driver' \in {"none", "running", "dead"}
         /\ page' \in {"blank", "mobile", "desktop"}
         /\ aged' \in BOOLEAN
         /\ mishaps' \in 0..MaxMishaps
  <1>1. aged' \in BOOLEAN
    BY Zenon DEF TypeOK, Started, StartRaises
  <1>2. mishaps' \in 0..MaxMishaps
    BY ConstantsOK DEF TypeOK, Started, StartRaises, Mishap
  <1>3. QED
    BY <1>1, <1>2 DEF TypeOK, Started, StartRaises

(* Taking the lock.                                                        *)
LEMMA AcquireType ==
  ASSUME TypeOK, NEW c \in Clients, NEW p, NEW q, Acquire(c, p, q),
         c = Main => q \in MainPcs, c # Main => q \in ThreadPcs
  PROVE  TypeOK'
  <1>1. PcsOK'
    BY GotoType DEF Acquire
  <1>2. QED
    BY <1>1 DEF Acquire, PcsOK, TypeOK, request, checkin

(* The end of a request.                                                   *)
LEMMA FinishType ==
  ASSUME TypeOK, NEW c \in Clients,
         Finish(c, Answered(c)) \/ Finish(c, Raises(c))
  PROVE  /\ PcsOK'
         /\ attempts' \in [Clients -> 0..MaxAttempts]
         /\ leg' \in [Threads -> {1, 2}]
         /\ stage' \in {"accounts", "fares"}
  <1>1. attempts' \in [Clients -> 0..MaxAttempts] /\ stage' \in {"accounts", "fares"}
    BY ConstantsOK DEF Finish, TypeOK
  <1>2. PICK p : Goto(c, p) /\ p = (IF c = Main THEN stage ELSE IF p = "ask" THEN "ask" ELSE "none")
    BY DEF Finish, Answered, Raises
  <1>3. PcsOK'
    BY <1>2, GotoType DEF TypeOK, ThreadPcs, MainPcs, Asking
  <1>4. leg' \in [Threads -> {1, 2}]
    BY DEF Finish, Answered, Raises, TypeOK
  <1>5. QED
    BY <1>1, <1>3, <1>4

(* The steps of a request.                                                 *)
LEMMA RequestType ==
  ASSUME TypeOK, AttemptsLeft, NEW c \in Clients, Request(c)
  PROVE  TypeOK'
  <1> USE DEF PcsOK
  <1>1. CASE AskForLock(c)
    <2>1. PcsOK'
      BY <1>1, GotoType DEF AskForLock, ThreadPcs, MainPcs, Asking
    <2>2. attempts[c] \in 0..MaxAttempts /\ attempts[c] < MaxAttempts
      BY <1>1 DEF AskForLock, TypeOK, AttemptsLeft
    <2>3. attempts' \in [Clients -> 0..MaxAttempts]
      BY <1>1, <2>2, ConstantsOK DEF AskForLock, TypeOK
    <2>4. QED
      BY <1>1, <2>1, <2>3 DEF AskForLock, TypeOK, checkin
  <1>2. CASE LockTimeout(c)
    <2>1. CASE attempts[c] + 1 < MaxAttempts
      BY <1>2, <2>1, ConstantsOK DEF LockTimeout, TypeOK, session, checkin
    <2>2. CASE ~(attempts[c] + 1 < MaxAttempts)
      BY <1>2, <2>2, FinishType DEF LockTimeout, TypeOK, session, checkin
    <2>3. QED
      BY <2>1, <2>2
  <1>3. CASE FetchAnswered(c)
    BY <1>3, FinishType, Names DEF FetchAnswered, TypeOK, Release, checkin
  <1>4. CASE FetchFatal(c)
    BY <1>4, FinishType, Names DEF FetchFatal, TypeOK, Release, checkin
  <1>5. CASE FetchForbidden(c)
    <2>1. CASE attempts[c] < MaxAttempts
      <3>1. PcsOK'
        BY <1>5, <2>1, GotoType DEF FetchForbidden, ThreadPcs, MainPcs, Asking
      <3>2. QED
        BY <1>5, <2>1, <3>1 DEF FetchForbidden, TypeOK, Release, request, checkin
    <2>2. CASE ~(attempts[c] < MaxAttempts)
      BY <1>5, <2>2, FinishType DEF FetchForbidden, TypeOK, Release, checkin
    <2>3. QED
      BY <2>1, <2>2
  <1>6. CASE FetchFails(c)
    <2>1. CASE attempts[c] < MaxAttempts
      <3>1. PcsOK'
        BY <1>6, <2>1, GotoType DEF FetchFails, TryAgain, ThreadPcs, MainPcs, Asking
      <3>2. QED
        BY <1>6, <2>1, <3>1 DEF FetchFails, TryAgain, TypeOK, Release, request, checkin
    <2>2. CASE ~(attempts[c] < MaxAttempts)
      BY <1>6, <2>2, FinishType DEF FetchFails, TryAgain, TypeOK, Release, checkin
    <2>3. QED
      BY <2>1, <2>2
  <1>7. CASE RestartAfterRefusal(c)
    <2>1. CASE Goto(c, "ask") /\ UNCHANGED request
      <3>1. PcsOK'
        BY <2>1, GotoType DEF ThreadPcs, MainPcs, Asking
      <3>2. QED
        BY <1>7, <2>1, <3>1, StartType
           DEF RestartAfterRefusal, TypeOK, Release, request, checkin
    <2>2. CASE Finish(c, Raises(c))
      BY <1>7, <2>2, FinishType, StartType
         DEF RestartAfterRefusal, TypeOK, Release, checkin
    <2>3. QED
      BY <1>7, <2>1, <2>2 DEF RestartAfterRefusal
  <1>8. QED
    BY <1>1, <1>2, <1>3, <1>4, <1>5, <1>6, <1>7 DEF Request

(* The steps of a check-in thread outside its requests.                    *)
LEMMA ThreadType ==
  ASSUME TypeOK, NEW t \in Threads, Thread(t) \/ TakeBrowser(t) \/ Tick(t)
  PROVE  TypeOK'
  <1> USE DEF PcsOK
  <1>1. t \in Clients /\ t # Main
    BY Names
  <1>2. CASE StartThread(t)
    <2>1. PcsOK'
      BY <1>1, <1>2, GotoType DEF StartThread, ThreadPcs, Asking
    <2>2. /\ clock' \in [Threads -> {"far", "imminent", "open"}]
          /\ prepared' \in [Threads -> BOOLEAN]
      BY <1>2 DEF StartThread, TypeOK
    <2>3. QED
      BY <1>2, <2>1, <2>2 DEF StartThread, TypeOK, session, request
  <1>3. CASE PrepareBrowser(t)
    <2>1. PcsOK'
      BY <1>1, <1>3, GotoType DEF PrepareBrowser, ThreadPcs
    <2>2. prepared' \in [Threads -> BOOLEAN]
      BY <1>3 DEF PrepareBrowser, TypeOK
    <2>3. QED
      BY <1>3, <2>1, <2>2, StartType DEF PrepareBrowser, TypeOK, Release, request
  <1>4. CASE WakeForPrep(t) \/ BeginCheckIn(t) \/ StopThread(t)
    <2>1. PcsOK'
      BY <1>1, <1>4, GotoType
         DEF WakeForPrep, BeginCheckIn, StopThread, ThreadPcs, Asking
    <2>2. UNCHANGED <<session, request, checkin, upgrades, mishaps>>
      BY <1>4 DEF WakeForPrep, BeginCheckIn, StopThread
    <2>3. QED
      BY <2>1, <2>2 DEF TypeOK, session, request, checkin
  <1>5. CASE TakeBrowser(t)
    BY <1>1, <1>5, AcquireType DEF TakeBrowser, ThreadPcs
  <1>6. CASE Tick(t)
    <2>1. clock' \in [Threads -> {"far", "imminent", "open"}]
      BY <1>6 DEF Tick, TypeOK
    <2>2. QED
      BY <1>6, <2>1 DEF Tick, TypeOK, session, request
  <1>7. QED
    BY <1>2, <1>3, <1>4, <1>5, <1>6 DEF Thread

(* The steps the main loop makes with the lock.                            *)
LEMMA HoldsType ==
  ASSUME TypeOK, UpgradesLeft, HoldsBrowser
  PROVE  TypeOK'
  <1> USE DEF PcsOK
  <1>1. lock' = Nobody /\ UNCHANGED <<request, checkin>>
    BY DEF HoldsBrowser, StartIteration, ReviveForUpgrades, LogIn, UpgradeSeat,
           RestoreMobileOrigin, EnsureAlive, Release
  <1>2. PcsOK'
    <2>1. PICK p \in MainPcs : Goto(Main, p)
      BY DEF HoldsBrowser, StartIteration, ReviveForUpgrades, LogIn, UpgradeSeat,
             RestoreMobileOrigin, EnsureAlive, Revive, MainPcs
    <2>2. QED
      BY <2>1, GotoType, Names
  <1>3. /\ driver' \in {"none", "running", "dead"}
        /\ page' \in {"blank", "mobile", "desktop"}
        /\ aged' \in BOOLEAN
        /\ mishaps' \in 0..MaxMishaps
    <2>1. CASE Started \/ StartRaises
      BY <2>1, StartType
    <2>2. CASE UNCHANGED <<driver, page, aged, mishaps>>
      BY <2>2 DEF TypeOK
    <2>3. CASE LogIn
      <3>1. CASE Mishap /\ driver' = "running" /\ page' \in {"desktop", "mobile"} /\ aged' = FALSE
        <4>1. aged' \in BOOLEAN
          BY <3>1, Zenon
        <4>2. mishaps' \in 0..MaxMishaps
          BY <3>1, ConstantsOK DEF TypeOK, Mishap
        <4>3. QED
          BY <3>1, <4>1, <4>2
      <3>2. QED
        BY <2>1, <2>3, <3>1 DEF LogIn
    <2>4. CASE UpgradeSeat \/ RestoreMobileOrigin
      <3>1. aged' \in BOOLEAN /\ driver' \in {"none", "running", "dead"}
        BY <2>4, Zenon DEF UpgradeSeat, RestoreMobileOrigin, TypeOK
      <3>2. page' \in {"blank", "mobile", "desktop"}
        BY <2>4 DEF UpgradeSeat, RestoreMobileOrigin, TypeOK
      <3>3. mishaps' \in 0..MaxMishaps
        BY <2>4, ConstantsOK DEF UpgradeSeat, RestoreMobileOrigin, TypeOK, Mishap
      <3>4. QED
        BY <3>1, <3>2, <3>3
    <2>5. QED
      BY <2>1, <2>2, <2>3, <2>4
         DEF HoldsBrowser, StartIteration, ReviveForUpgrades, EnsureAlive, Revive
  <1>4. upgrades' \in 0..MaxUpgrades
    <2>1. CASE StartIteration \/ LogIn \/ ReviveForUpgrades \/ UpgradeSeat
      BY <2>1, ConstantsOK DEF StartIteration, LogIn, ReviveForUpgrades, UpgradeSeat, TypeOK
    <2>2. CASE RestoreMobileOrigin
      BY <2>2, ConstantsOK DEF RestoreMobileOrigin, TypeOK, UpgradesLeft
    <2>3. QED
      BY <2>1, <2>2 DEF HoldsBrowser
  <1>5. QED
    BY <1>1, <1>2, <1>3, <1>4 DEF TypeOK, request, checkin

(* The other steps of the main loop, and those of the environment.         *)
LEMMA MainType ==
  ASSUME TypeOK,
         \/ AskForData \/ EndStage \/ BeginUpgrades \/ MainTakesBrowser
         \/ BrowserDies \/ SessionAges
  PROVE  TypeOK'
  <1> USE DEF PcsOK
  <1>1. CASE AskForData \/ EndStage \/ BeginUpgrades
    <2>1. PcsOK'
      <3>1. PICK p \in MainPcs : Goto(Main, p)
        BY <1>1 DEF AskForData, EndStage, BeginUpgrades, MainPcs, Asking
      <3>2. QED
        BY <3>1, GotoType, Names
    <2>2. /\ stage' \in {"accounts", "fares"}
          /\ upgrades' \in 0..MaxUpgrades
          /\ UNCHANGED <<session, attempts, leg, checkin, mishaps>>
      BY <1>1 DEF AskForData, EndStage, BeginUpgrades, TypeOK, request
    <2>3. QED
      BY <2>1, <2>2 DEF TypeOK, session, checkin
  <1>2. CASE MainTakesBrowser
    BY <1>2, AcquireType, Names DEF MainTakesBrowser, MainPcs
  <1>3. CASE BrowserDies
    BY <1>3, ConstantsOK DEF BrowserDies, Mishap, TypeOK, request, checkin
  <1>4. CASE SessionAges
    <2>1. aged' \in BOOLEAN
      BY <1>4, Zenon DEF SessionAges
    <2>2. QED
      BY <1>4, <2>1 DEF SessionAges, TypeOK, request, checkin
  <1>5. QED
    BY <1>1, <1>2, <1>3, <1>4

(* Every step keeps the types.                                             *)
LEMMA TypeStep == IInv /\ [Next]_vars => TypeOK'
  <1> SUFFICES ASSUME IInv, [Next]_vars PROVE TypeOK'
    OBVIOUS
  <1> USE DEF IInv
  <1>1. ASSUME NEW c \in Clients, Request(c) PROVE TypeOK'
    BY <1>1, RequestType
  <1>2. ASSUME NEW c \in Clients, TakeBrowserToRestart(c) PROVE TypeOK'
    BY <1>2, AcquireType DEF TakeBrowserToRestart, ThreadPcs, MainPcs, Asking
  <1>3. ASSUME NEW t \in Threads, Thread(t) \/ TakeBrowser(t) \/ Tick(t) PROVE TypeOK'
    BY <1>3, ThreadType
  <1>4. CASE HoldsBrowser
    BY <1>4, HoldsType
  <1>5. CASE UNCHANGED vars
    BY <1>5 DEF TypeOK, vars, session, request, checkin
  <1>6. QED
    BY <1>1, <1>2, <1>3, <1>4, <1>5, MainType DEF Next

-----------------------------------------------------------------------------
(* The lock and the attempts.                                              *)

(* Client c goes to q: it takes the lock, or gives it back, or does not    *)
(* touch it and does no work of an owner; its attempts are counted.        *)
Moves(c, q) ==
    /\ Goto(c, q)
    /\ \/ lock = Nobody /\ lock' = c
       \/ pc[c] \in Working /\ q \notin Working /\ lock' = Nobody
       \/ q \notin Working /\ lock' = lock
    /\ \A d \in Clients \ {c} : attempts'[d] = attempts[d]
    /\ q \in {"ask", "refused", "restarting"} => attempts'[c] < MaxAttempts
    /\ q \notin Asking => attempts'[c] = 0

(* Such a move keeps the work to the owner of the lock.                    *)
LEMMA MovesPreserve ==
  ASSUME TypeOK, OwnersWork, AttemptsLeft, NEW c \in Clients, NEW q, Moves(c, q)
  PROVE  OwnersWork' /\ AttemptsLeft'
  <1>1. pc'[c] = q /\ \A d \in Clients \ {c} : pc'[d] = pc[d]
    BY DEF Moves, Goto, TypeOK
  <1>2. ASSUME NEW d \in Clients, pc'[d] \in Working PROVE lock' = d
    <2>1. CASE d = c
      BY <1>1, <1>2, <2>1, Names DEF Moves, OwnersWork
    <2>2. CASE d # c
      BY <1>1, <1>2, <2>2, Names DEF Moves, OwnersWork
    <2>3. QED
      BY <2>1, <2>2
  <1>3. AttemptsLeft'
    BY <1>1 DEF Moves, AttemptsLeft
  <1>4. QED
    BY <1>2, <1>3 DEF OwnersWork

(* The end of a request leads out of the work and resets the count.        *)
LEMMA FinishMoves ==
  ASSUME TypeOK, NEW c \in Clients,
         Finish(c, Answered(c)) \/ Finish(c, Raises(c))
  PROVE  /\ \E q \in {"ask", "none", "accounts", "fares"} : Goto(c, q)
         /\ \A d \in Clients \ {c} : attempts'[d] = attempts[d]
         /\ attempts'[c] = 0
         /\ 0 < MaxAttempts
  <1>1. attempts' = [attempts EXCEPT ![c] = 0]
    BY DEF Finish
  <1>2. \E q \in {"ask", "none", "accounts", "fares"} : Goto(c, q)
    BY DEF Finish, Answered, Raises, TypeOK
  <1>3. QED
    BY <1>1, <1>2, ConstantsOK DEF TypeOK

(* Every step of a request is such a move.                                 *)
LEMMA RequestMoves ==
  ASSUME TypeOK, OwnersWork, AttemptsLeft, NEW c \in Clients,
         Request(c) \/ TakeBrowserToRestart(c)
  PROVE  \E q : Moves(c, q)
  <1>1. CASE AskForLock(c)
    <2>1. Moves(c, "fetch")
      BY <1>1 DEF AskForLock, TypeOK, Moves, Working, Asking
    <2>2. QED
      BY <2>1
  <1>2. CASE TakeBrowserToRestart(c)
    <2>1. Moves(c, "restarting")
      BY <1>2 DEF TakeBrowserToRestart, Acquire, request, Moves, Working, Asking, AttemptsLeft
    <2>2. QED
      BY <2>1
  <1>3. CASE LockTimeout(c)
    <2>1. CASE attempts[c] + 1 < MaxAttempts
      <3>1. Goto(c, "ask")
        BY <1>3, <2>1 DEF LockTimeout, Goto, TypeOK
      <3>2. Moves(c, "ask")
        BY <1>3, <2>1, <3>1 DEF LockTimeout, Moves, TypeOK, session, Working, Asking
      <3>3. QED
        BY <3>2
    <2>2. CASE ~(attempts[c] + 1 < MaxAttempts)
      BY <1>3, <2>2, FinishMoves DEF LockTimeout, Moves, session, Working, Asking
    <2>3. QED
      BY <2>1, <2>2
  <1>4. CASE \/ FetchAnswered(c) \/ FetchFatal(c) \/ FetchForbidden(c)
             \/ FetchFails(c) \/ RestartAfterRefusal(c)
    <2>1. pc[c] \in {"fetch", "restarting"} /\ lock' = Nobody
      BY <1>4 DEF FetchAnswered, FetchFatal, FetchForbidden, FetchFails,
                  RestartAfterRefusal, Release
    <2>2. \/ Finish(c, Answered(c)) \/ Finish(c, Raises(c))
          \/ /\ Goto(c, "ask") \/ Goto(c, "refused")
             /\ UNCHANGED attempts
             /\ attempts[c] < MaxAttempts
      BY <1>4 DEF FetchAnswered, FetchFatal, FetchForbidden, FetchFails, TryAgain,
                  RestartAfterRefusal, AttemptsLeft, request
    <2>3. CASE Finish(c, Answered(c)) \/ Finish(c, Raises(c))
      BY <2>1, <2>3, FinishMoves DEF Moves, Working
    <2>4. CASE UNCHANGED attempts /\ attempts[c] < MaxAttempts /\ Goto(c, "ask")
      <3>1. Moves(c, "ask")
        BY <2>1, <2>4 DEF Moves, Working, Asking
      <3>2. QED
        BY <3>1
    <2>5. CASE UNCHANGED attempts /\ attempts[c] < MaxAttempts /\ Goto(c, "refused")
      <3>1. Moves(c, "refused")
        BY <2>1, <2>5 DEF Moves, Working, Asking
      <3>2. QED
        BY <3>1
    <2>6. QED
      BY <2>2, <2>3, <2>4, <2>5
  <1>5. QED
    BY <1>1, <1>2, <1>3, <1>4 DEF Request

(* So is every step of a check-in thread that moves it.                    *)
LEMMA ThreadMoves ==
  ASSUME TypeOK, OwnersWork, AttemptsLeft, NEW t \in Threads,
         Thread(t) \/ TakeBrowser(t)
  PROVE  \E q : Moves(t, q)
  <1>1. t \in Clients /\ UNCHANGED attempts
    BY Names DEF Thread, TakeBrowser, Acquire, StartThread, WakeForPrep, PrepareBrowser,
                 BeginCheckIn, StopThread, request
  <1>2. pc[t] \notin Asking /\ attempts[t] = 0 /\ 0 < MaxAttempts
    BY <1>1, ConstantsOK
       DEF Thread, TakeBrowser, Acquire, StartThread, WakeForPrep, PrepareBrowser,
           BeginCheckIn, StopThread, AttemptsLeft, Asking
  <1>3. CASE TakeBrowser(t)
    <2>1. Moves(t, "preparing")
      BY <1>1, <1>2, <1>3 DEF TakeBrowser, Acquire, Moves
    <2>2. QED
      BY <2>1
  <1>4. CASE PrepareBrowser(t)
    <2>1. Moves(t, "waiting")
      BY <1>1, <1>2, <1>4 DEF PrepareBrowser, Release, Moves, Working
    <2>2. QED
      BY <2>1
  <1>5. CASE StartThread(t) \/ WakeForPrep(t) \/ BeginCheckIn(t) \/ StopThread(t)
    <2>1. PICK q \in {"sleeping", "waiting", "ask", "prep", "none"} : Goto(t, q)
      BY <1>5 DEF StartThread, WakeForPrep, BeginCheckIn, StopThread
    <2>2. lock' = lock
      BY <1>5 DEF StartThread, WakeForPrep, BeginCheckIn, StopThread, session
    <2>3. Moves(t, q)
      BY <1>1, <1>2, <2>1, <2>2 DEF Moves, Working
    <2>4. QED
      BY <2>3
  <1>6. QED
    BY <1>3, <1>4, <1>5 DEF Thread

(* And every step of the main loop.                                        *)
LEMMA MainMoves ==
  ASSUME TypeOK, OwnersWork, AttemptsLeft,
         \/ HoldsBrowser \/ MainTakesBrowser \/ AskForData \/ EndStage \/ BeginUpgrades
  PROVE  \E q : Moves(Main, q)
  <1>1. UNCHANGED attempts /\ Main \in Clients
    BY Names DEF HoldsBrowser, StartIteration, LogIn, ReviveForUpgrades, UpgradeSeat,
           RestoreMobileOrigin, EnsureAlive, MainTakesBrowser, Acquire, AskForData,
           EndStage, BeginUpgrades, request
  <1>2. pc[Main] \notin Asking /\ attempts[Main] = 0 /\ 0 < MaxAttempts
    BY <1>1, ConstantsOK
       DEF HoldsBrowser, StartIteration, LogIn, ReviveForUpgrades, UpgradeSeat,
           RestoreMobileOrigin, MainTakesBrowser, Acquire, AskForData, EndStage,
           BeginUpgrades, AttemptsLeft, Asking
  <1>3. CASE HoldsBrowser
    <2>1. pc[Main] \in Working /\ lock' = Nobody
      BY <1>3 DEF HoldsBrowser, StartIteration, LogIn, ReviveForUpgrades, UpgradeSeat,
                  RestoreMobileOrigin, EnsureAlive, Release, Working
    <2>2. PICK q \in {"accounts", "poll", "lookup", "upgrades", "restore"} : Goto(Main, q)
      BY <1>3 DEF HoldsBrowser, StartIteration, LogIn, ReviveForUpgrades, UpgradeSeat,
                  RestoreMobileOrigin, EnsureAlive, Revive
    <2>3. Moves(Main, q)
      BY <1>1, <1>2, <2>1, <2>2 DEF Moves, Working
    <2>4. QED
      BY <2>3
  <1>4. CASE MainTakesBrowser
    <2>1. PICK q \in Working \ {"fetch", "restarting"} :
            Goto(Main, q) /\ lock = Nobody /\ lock' = Main
      BY <1>4 DEF MainTakesBrowser, Acquire, Working
    <2>2. Moves(Main, q)
      BY <1>1, <1>2, <2>1 DEF Moves, Working
    <2>3. QED
      BY <2>2
  <1>5. CASE AskForData \/ EndStage \/ BeginUpgrades
    <2>1. PICK q \in {"ask", "fares", "poll", "upgrades", "recheck"} : Goto(Main, q)
      BY <1>5 DEF AskForData, EndStage, BeginUpgrades
    <2>2. lock' = lock
      BY <1>5 DEF AskForData, EndStage, BeginUpgrades, session
    <2>3. Moves(Main, q)
      BY <1>1, <1>2, <2>1, <2>2 DEF Moves, Working
    <2>4. QED
      BY <2>3
  <1>6. QED
    BY <1>3, <1>4, <1>5

(* What is left to upgrade changes only in the main loop.                  *)
LEMMA UpgradesStep ==
  ASSUME IInv, Next
  PROVE  UpgradesLeft'
  <1> USE DEF IInv
  <1>1. ASSUME NEW c \in Clients, Request(c) \/ TakeBrowserToRestart(c) PROVE UpgradesLeft'
    <2>1. PICK q : Goto(c, q) /\ q \notin {"lookup", "upgrading", "restore", "restoring"}
      <3>1. \/ Finish(c, Answered(c)) \/ Finish(c, Raises(c))
            \/ \E q \in {"ask", "fetch", "refused", "restarting"} : Goto(c, q)
        <4>1. LockTimeout(c) /\ UNCHANGED <<pc, leg, stage>> => Goto(c, "ask")
          BY DEF LockTimeout, Goto, TypeOK
        <4>2. QED
          BY <1>1, <4>1
             DEF Request, AskForLock, LockTimeout, FetchAnswered, FetchFatal,
                 FetchForbidden, FetchFails, TryAgain, RestartAfterRefusal,
                 TakeBrowserToRestart, Acquire
      <3>2. QED
        BY <3>1, FinishMoves
    <2>2. UNCHANGED upgrades
      BY <1>1 DEF Request, AskForLock, LockTimeout, FetchAnswered, FetchFatal,
                  FetchForbidden, FetchFails, RestartAfterRefusal,
                  TakeBrowserToRestart, Acquire
    <2>3. QED
      BY <2>1, <2>2 DEF Goto, TypeOK, UpgradesLeft
  <1>2. ASSUME NEW t \in Threads, Thread(t) \/ TakeBrowser(t) PROVE UpgradesLeft'
    <2>1. (\E q : Goto(t, q)) /\ UNCHANGED upgrades
      BY <1>2, ThreadMoves
         DEF Moves, Thread, TakeBrowser, Acquire, StartThread, WakeForPrep,
             PrepareBrowser, BeginCheckIn, StopThread
    <2>2. pc'[Main] = pc[Main]
      BY <2>1, Names DEF Goto, TypeOK
    <2>3. QED
      BY <2>1, <2>2 DEF UpgradesLeft
  <1>3. CASE (\E t \in Threads : Tick(t)) \/ BrowserDies \/ SessionAges
    BY <1>3 DEF Tick, BrowserDies, SessionAges, UpgradesLeft
  <1>4. CASE HoldsBrowser
    <2>1. CASE StartIteration \/ LogIn
      BY <2>1, Names DEF StartIteration, LogIn, EnsureAlive, Revive, Goto, UpgradesLeft, TypeOK
    <2>2. CASE ReviveForUpgrades
      BY <2>2, Names DEF ReviveForUpgrades, EnsureAlive, Revive, Goto, UpgradesLeft, TypeOK
    <2>3. CASE UpgradeSeat
      BY <2>3, Names DEF UpgradeSeat, Goto, UpgradesLeft, TypeOK
    <2>4. CASE RestoreMobileOrigin
      BY <2>4, Names DEF RestoreMobileOrigin, Goto, UpgradesLeft, TypeOK
    <2>5. QED
      BY <1>4, <2>1, <2>2, <2>3, <2>4 DEF HoldsBrowser
  <1>5. CASE MainTakesBrowser \/ AskForData \/ EndStage \/ BeginUpgrades
    BY <1>5, Names DEF MainTakesBrowser, Acquire, AskForData, EndStage, BeginUpgrades,
                       Goto, UpgradesLeft, TypeOK
  <1>6. QED
    BY <1>1, <1>2, <1>3, <1>4, <1>5 DEF Next

(* Every step preserves the invariant.                                     *)
LEMMA StepInv == IInv /\ [Next]_vars => IInv'
  <1> SUFFICES ASSUME IInv, [Next]_vars PROVE IInv'
    OBVIOUS
  <1> USE DEF IInv
  <1>1. TypeOK'
    BY TypeStep
  <1>2. CASE UNCHANGED vars
    BY <1>1, <1>2 DEF vars, session, request, checkin, OwnersWork, AttemptsLeft, UpgradesLeft
  <1>3. CASE Next
    <2>1. OwnersWork' /\ AttemptsLeft'
      <3>1. CASE (\E t \in Threads : Tick(t)) \/ BrowserDies \/ SessionAges
        BY <3>1 DEF Tick, BrowserDies, SessionAges, session, request, OwnersWork, AttemptsLeft
      <3>2. CASE \E c \in Clients : Request(c) \/ TakeBrowserToRestart(c)
        BY <3>2, RequestMoves, MovesPreserve
      <3>3. CASE \E t \in Threads : Thread(t) \/ TakeBrowser(t)
        BY <3>3, ThreadMoves, MovesPreserve, Names
      <3>4. CASE \/ HoldsBrowser \/ MainTakesBrowser \/ AskForData \/ EndStage
                 \/ BeginUpgrades
        BY <3>4, MainMoves, MovesPreserve, Names
      <3>5. QED
        BY <1>3, <3>1, <3>2, <3>3, <3>4 DEF Next
    <2>2. QED
      BY <1>1, <1>3, <2>1, UpgradesStep
  <1>4. QED
    BY <1>2, <1>3

(* The inductive invariant holds in every reachable state.                 *)
THEOREM Invariance == Spec => []IInv
  <1>1. Init => IInv
    <2> SUFFICES ASSUME Init PROVE IInv
      OBVIOUS
    <2>1. TypeOK
      BY ConstantsOK, Names DEF Init, TypeOK, Asking, ThreadPcs, MainPcs
    <2>2. OwnersWork /\ AttemptsLeft /\ UpgradesLeft
      BY ConstantsOK, Names
         DEF Init, OwnersWork, Working, AttemptsLeft, Asking, UpgradesLeft
    <2>3. QED
      BY <2>1, <2>2 DEF IInv
  <1>2. QED
    BY <1>1, StepInv, PTL DEF Spec

(* Every variable keeps its type; above all, no request makes more than    *)
(* max_attempts attempts (browser_session.py:252-302).                     *)
THEOREM TypeCorrect == Spec => []TypeOK
  <1>1. IInv => TypeOK
    BY DEF IInv
  <1>2. QED
    BY <1>1, Invariance, PTL

-----------------------------------------------------------------------------
(* The page under a request.                                               *)

(* Who changes the browser or its page works as an owner of the lock, and  *)
(* not on a request of his own; else the browser crashed.                  *)
LEMMA OwnersChange ==
  ASSUME IInv, [Next]_vars
  PROVE  \/ UNCHANGED <<driver, page>>
         \/ driver' = "dead"
         \/ \E d \in Clients : pc[d] \in Working \ {"fetch"}
  <1>1. ASSUME NEW c \in Clients, Request(c) \/ TakeBrowserToRestart(c)
        PROVE  UNCHANGED <<driver, page>> \/ pc[c] \in Working \ {"fetch"}
    BY <1>1 DEF Request, AskForLock, LockTimeout, FetchAnswered, FetchFatal,
                FetchForbidden, FetchFails, RestartAfterRefusal, Working,
                TakeBrowserToRestart, Acquire, session
  <1>2. ASSUME NEW t \in Threads, Thread(t) \/ TakeBrowser(t) \/ Tick(t)
        PROVE  UNCHANGED <<driver, page>> \/ pc[t] \in Working \ {"fetch"}
    BY <1>2 DEF Thread, TakeBrowser, Acquire, StartThread, WakeForPrep, PrepareBrowser,
                BeginCheckIn, StopThread, Tick, Working, session
  <1>3. CASE HoldsBrowser
    BY <1>3, Names DEF HoldsBrowser, StartIteration, LogIn, ReviveForUpgrades, UpgradeSeat,
                       RestoreMobileOrigin, Working
  <1>4. CASE \/ MainTakesBrowser \/ AskForData \/ EndStage \/ BeginUpgrades
             \/ BrowserDies \/ SessionAges \/ UNCHANGED vars
    BY <1>4 DEF MainTakesBrowser, Acquire, AskForData, EndStage, BeginUpgrades,
                BrowserDies, SessionAges, session, vars
  <1>5. QED
    BY <1>1, <1>2, <1>3, <1>4, Names DEF Next

(* While a request is in the page, only a crash of the browser changes it  *)
(* (browser_session.py:110-113, 187-207, 257-285; worker.py:670, 795).     *)
THEOREM FetchesUndisturbed == Spec => FetchUndisturbed
  <1>1. IInv /\ [Next]_vars =>
          [\A c \in Clients : pc[c] = "fetch" /\ pc'[c] = "fetch" =>
              UNCHANGED <<driver, page>> \/ driver' = "dead"]_vars
    <2> SUFFICES ASSUME IInv, [Next]_vars, NEW c \in Clients, pc[c] = "fetch"
                 PROVE  UNCHANGED <<driver, page>> \/ driver' = "dead"
      OBVIOUS
    <2>1. ASSUME NEW d \in Clients, pc[d] \in Working \ {"fetch"} PROVE FALSE
      <3>1. lock = c /\ lock = d
        BY <2>1 DEF IInv, OwnersWork, Working
      <3>2. QED
        BY <2>1, <3>1
    <2>2. QED
      BY <2>1, OwnersChange
  <1>2. QED
    BY <1>1, Invariance, PTL DEF Spec, FetchUndisturbed

-----------------------------------------------------------------------------
(* The page off the mobile site.                                           *)

(* Without mishaps the page is on the desktop site only between an upgrade *)
(* and the end of its finally clause; a browser that is gone has no page.  *)
DesktopInv ==
    /\ driver # "running" => page = "blank"
    /\ mishaps = 0 /\ page = "desktop" => pc[Main] \in {"restore", "restoring"}

(* A step that starts the browser, or leaves it alone, leaves its page in  *)
(* a place where it should be.                                             *)
LEMMA DesktopKept ==
  ASSUME TypeOK, DesktopInv, NEW c \in Clients, NEW q, Goto(c, q),
         c = Main => pc[Main] \notin {"restore", "restoring"} \/ q = "restoring",
         \/ UNCHANGED <<driver, page, mishaps>>
         \/ Started
         \/ StartRaises
  PROVE  DesktopInv'
  <1>1. mishaps' = 0 => mishaps = 0
    BY DEF Started, StartRaises, Mishap, TypeOK
  <1>2. pc'[Main] = IF c = Main THEN q ELSE pc[Main]
    BY Names DEF Goto, TypeOK
  <1>3. CASE UNCHANGED <<driver, page, mishaps>>
    BY <1>2, <1>3 DEF DesktopInv
  <1>4. CASE Started \/ StartRaises
    BY <1>4 DEF Started, StartRaises, DesktopInv
  <1>5. QED
    BY <1>3, <1>4

(* Every step keeps the page where it should be.                           *)
LEMMA DesktopStep == IInv /\ DesktopInv /\ [Next]_vars => DesktopInv'
  <1> SUFFICES ASSUME IInv, DesktopInv, [Next]_vars PROVE DesktopInv'
    OBVIOUS
  <1> USE DEF IInv
  <1>1. ASSUME NEW c \in Clients, Request(c) \/ TakeBrowserToRestart(c) PROVE DesktopInv'
    <2>1. PICK q : Goto(c, q)
      BY <1>1, RequestMoves DEF Moves
    <2>2. pc[c] \in Asking
      BY <1>1 DEF Request, AskForLock, LockTimeout, FetchAnswered, FetchFatal,
                  FetchForbidden, FetchFails, RestartAfterRefusal,
                  TakeBrowserToRestart, Acquire, Asking
    <2>3. UNCHANGED <<driver, page, mishaps>> \/ Started \/ StartRaises
      BY <1>1 DEF Request, AskForLock, LockTimeout, FetchAnswered, FetchFatal,
                  FetchForbidden, FetchFails, RestartAfterRefusal,
                  TakeBrowserToRestart, Acquire, session
    <2>4. QED
      BY <2>1, <2>2, <2>3, DesktopKept DEF Asking
  <1>2. ASSUME NEW t \in Threads, Thread(t) \/ TakeBrowser(t) PROVE DesktopInv'
    <2>1. PICK q : Goto(t, q)
      BY <1>2, ThreadMoves DEF Moves
    <2>2. UNCHANGED <<driver, page, mishaps>> \/ Started \/ StartRaises
      BY <1>2 DEF Thread, TakeBrowser, Acquire, StartThread, WakeForPrep, PrepareBrowser,
                  BeginCheckIn, StopThread, session
    <2>3. QED
      BY <2>1, <2>2, DesktopKept, Names
  <1>3. CASE \/ StartIteration \/ ReviveForUpgrades \/ MainTakesBrowser \/ AskForData
             \/ EndStage \/ BeginUpgrades
    <2>1. PICK q : Goto(Main, q) /\ (pc[Main] \notin {"restore", "restoring"} \/ q = "restoring")
      BY <1>3 DEF StartIteration, ReviveForUpgrades, EnsureAlive, Revive, MainTakesBrowser,
                  Acquire, AskForData, EndStage, BeginUpgrades
    <2>2. UNCHANGED <<driver, page, mishaps>> \/ Started \/ StartRaises
      BY <1>3 DEF StartIteration, ReviveForUpgrades, EnsureAlive, Revive, MainTakesBrowser,
                  Acquire, AskForData, EndStage, BeginUpgrades, session
    <2>3. QED
      BY <2>1, <2>2, DesktopKept, Names
  <1>4. CASE LogIn
    <2>1. CASE Started \/ StartRaises
      BY <1>4, <2>1, DesktopKept, Names DEF LogIn
    <2>2. CASE Mishap /\ driver' = "running"
      BY <2>2 DEF Mishap, TypeOK, DesktopInv
    <2>3. QED
      BY <1>4, <2>1, <2>2 DEF LogIn
  <1>5. CASE UpgradeSeat
    BY <1>5, Names DEF UpgradeSeat, Goto, TypeOK, DesktopInv
  <1>6. CASE RestoreMobileOrigin
    <2>1. CASE Mishap /\ UNCHANGED page
      BY <1>6, <2>1 DEF RestoreMobileOrigin, Mishap, TypeOK, DesktopInv
    <2>2. CASE page' = IF driver = "running" THEN "mobile" ELSE page
      BY <1>6, <2>2 DEF RestoreMobileOrigin, DesktopInv
    <2>3. QED
      BY <1>6, <2>1, <2>2 DEF RestoreMobileOrigin
  <1>7. CASE BrowserDies
    BY <1>7 DEF BrowserDies, DesktopInv
  <1>8. CASE (\E t \in Threads : Tick(t)) \/ SessionAges \/ UNCHANGED vars
    BY <1>8 DEF Tick, SessionAges, session, vars, DesktopInv
  <1>9. QED
    BY <1>1, <1>2, <1>3, <1>4, <1>5, <1>6, <1>7, <1>8 DEF Next, HoldsBrowser

(* Unless something goes wrong, the page is off the mobile site only under *)
(* the main loop's lock or on the way to its restoration                   *)
(* (worker.py:660-693, 795-1220; browser_session.py:304-373).              *)
THEOREM DesktopIsBrief == Spec => []DesktopOnlyBriefly
  <1>1. Init => DesktopInv
    BY DEF Init, DesktopInv
  <1>2. IInv /\ DesktopInv => DesktopOnlyBriefly
    BY Names DEF IInv, OwnersWork, Working, DesktopInv, DesktopOnlyBriefly
  <1>3. QED
    BY <1>1, <1>2, DesktopStep, Invariance, PTL DEF Spec

-----------------------------------------------------------------------------
(* The way of a request to its end.                                        *)

(* What RequestsNearTheirEnd says of one client.                           *)
Nearer(c) ==
    /\ pc[c] \in Asking
    /\ pc'[c] \in Asking
    /\ c # Main => leg'[c] = leg[c]
    => \/ UNCHANGED <<pc[c], attempts[c]>>
       \/ StepsLeft(c)' \in 0..(StepsLeft(c) - 1)

(* The end of one request is not the way of another: the second of the two *)
(* POSTs is told from the first by its leg.                                *)
LEMMA FinishIsNoStep ==
  ASSUME TypeOK, NEW c \in Clients,
         Finish(c, Answered(c)) \/ Finish(c, Raises(c))
  PROVE  pc'[c] \notin Asking \/ (c # Main /\ leg'[c] # leg[c])
  <1>1. CASE c = Main
    BY <1>1 DEF Finish, Answered, Raises, Goto, TypeOK, Asking
  <1>2. CASE c # Main
    BY <1>2, Names DEF Finish, Answered, Raises, Goto, TypeOK, Asking
  <1>3. QED
    BY <1>1, <1>2

(* A request's own step goes on in the order in which the ranks fall.      *)
LEMMA OwnStepNearer ==
  ASSUME TypeOK, AttemptsLeft, NEW c \in Clients,
         Request(c) \/ TakeBrowserToRestart(c)
  PROVE  Nearer(c)
  <1>1. /\ attempts[c] \in 0..MaxAttempts
        /\ MaxAttempts \in Nat
        /\ \A q : Goto(c, q) => pc'[c] = q
    BY ConstantsOK DEF TypeOK, Goto
  <1>2. CASE Finish(c, Answered(c)) \/ Finish(c, Raises(c))
    BY <1>2, FinishIsNoStep DEF Nearer
  <1>3. CASE AskForLock(c)
    <2>1. /\ pc[c] = "ask" /\ pc'[c] = "fetch"
          /\ attempts'[c] = attempts[c] + 1
          /\ attempts[c] < MaxAttempts
      BY <1>1, <1>3 DEF AskForLock, AttemptsLeft, TypeOK
    <2>2. QED
      BY <1>1, <2>1 DEF Nearer, StepsLeft
  <1>4. CASE LockTimeout(c) /\ attempts[c] + 1 < MaxAttempts
    <2>1. /\ pc[c] = "ask" /\ pc'[c] = "ask"
          /\ attempts'[c] = attempts[c] + 1
      BY <1>4 DEF LockTimeout, TypeOK
    <2>2. QED
      BY <1>1, <1>4, <2>1 DEF Nearer, StepsLeft
  <1>5. CASE FetchForbidden(c) /\ attempts[c] < MaxAttempts
    <2>1. pc[c] = "fetch" /\ pc'[c] = "refused" /\ attempts'[c] = attempts[c]
      BY <1>1, <1>5 DEF FetchForbidden, request
    <2>2. QED
      BY <1>1, <2>1 DEF Nearer, StepsLeft
  <1>6. CASE FetchFails(c) /\ attempts[c] < MaxAttempts
    <2>1. pc[c] = "fetch" /\ pc'[c] = "ask" /\ attempts'[c] = attempts[c]
      BY <1>1, <1>6 DEF FetchFails, TryAgain, request
    <2>2. QED
      BY <1>1, <2>1 DEF Nearer, StepsLeft
  <1>7. CASE TakeBrowserToRestart(c)
    <2>1. pc[c] = "refused" /\ pc'[c] = "restarting" /\ attempts'[c] = attempts[c]
      BY <1>1, <1>7 DEF TakeBrowserToRestart, Acquire, request
    <2>2. QED
      BY <1>1, <2>1 DEF Nearer, StepsLeft
  <1>8. CASE RestartAfterRefusal(c) /\ Goto(c, "ask") /\ UNCHANGED request
    <2>1. pc[c] = "restarting" /\ pc'[c] = "ask" /\ attempts'[c] = attempts[c]
      BY <1>1, <1>8 DEF RestartAfterRefusal, request
    <2>2. QED
      BY <1>1, <2>1 DEF Nearer, StepsLeft
  <1>9. \/ Finish(c, Answered(c)) \/ Finish(c, Raises(c))
        \/ AskForLock(c) \/ TakeBrowserToRestart(c)
        \/ LockTimeout(c) /\ attempts[c] + 1 < MaxAttempts
        \/ FetchForbidden(c) /\ attempts[c] < MaxAttempts
        \/ FetchFails(c) /\ attempts[c] < MaxAttempts
        \/ RestartAfterRefusal(c) /\ Goto(c, "ask") /\ UNCHANGED request
    BY DEF Request, LockTimeout, FetchAnswered, FetchFatal, FetchForbidden, FetchFails,
           TryAgain, RestartAfterRefusal
  <1>10. QED
    BY <1>2, <1>3, <1>4, <1>5, <1>6, <1>7, <1>8, <1>9

(* The steps of the others leave it where it is.                           *)
LEMMA OthersLeaveIt ==
  ASSUME TypeOK, NEW c \in Clients, NEW d \in Clients, NEW q, Moves(d, q), c # d
  PROVE  Nearer(c)
  BY DEF Moves, Goto, TypeOK, Nearer

(* A request is never set back, and it is at most 4 * max_attempts of its  *)
(* own steps from its end: the part of RequestsEnd that needs no fairness  *)
(* (browser_session.py:252-302).                                           *)
THEOREM RequestsConverge == Spec => RequestsNearTheirEnd
  <1>1. ASSUME IInv, [Next]_vars, NEW c \in Clients PROVE Nearer(c)
    <2> USE <1>1 DEF IInv
    <2>1. ASSUME NEW d \in Clients, Request(d) \/ TakeBrowserToRestart(d) PROVE Nearer(c)
      <3>1. CASE c = d
        BY <2>1, <3>1, OwnStepNearer
      <3>2. CASE c # d
        BY <2>1, <3>2, RequestMoves, OthersLeaveIt
      <3>3. QED
        BY <3>1, <3>2
    <2>2. ASSUME NEW t \in Threads, Thread(t) \/ TakeBrowser(t) PROVE Nearer(c)
      <3>1. pc[t] \notin Asking
        BY <2>2 DEF Thread, TakeBrowser, Acquire, StartThread, WakeForPrep, PrepareBrowser,
                    BeginCheckIn, StopThread, Asking
      <3>2. CASE c = t
        BY <3>1, <3>2 DEF Nearer
      <3>3. CASE c # t
        BY <2>2, <3>3, ThreadMoves, OthersLeaveIt, Names
      <3>4. QED
        BY <3>2, <3>3
    <2>3. CASE HoldsBrowser \/ MainTakesBrowser \/ AskForData \/ EndStage \/ BeginUpgrades
      <3>1. pc[Main] \notin Asking
        BY <2>3 DEF HoldsBrowser, StartIteration, LogIn, ReviveForUpgrades, UpgradeSeat,
                    RestoreMobileOrigin, MainTakesBrowser, Acquire, AskForData, EndStage,
                    BeginUpgrades, Asking
      <3>2. CASE c = Main
        BY <3>1, <3>2 DEF Nearer
      <3>3. CASE c # Main
        BY <2>3, <3>3, MainMoves, OthersLeaveIt, Names
      <3>4. QED
        BY <3>2, <3>3
    <2>4. CASE (\E t \in Threads : Tick(t)) \/ BrowserDies \/ SessionAges \/ UNCHANGED vars
      BY <2>4 DEF Tick, BrowserDies, SessionAges, vars, request, Nearer
    <2>5. QED
      BY <2>1, <2>2, <2>3, <2>4 DEF Next
  <1>2. IInv /\ [Next]_vars => [\A c \in Clients : Nearer(c)]_vars
    BY <1>1
  <1>3. QED
    BY <1>2, Invariance, PTL DEF Spec, RequestsNearTheirEnd, Nearer
=============================================================================
