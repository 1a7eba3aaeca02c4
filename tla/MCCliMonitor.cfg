CONSTANTS
    account = account
    reservation = reservation
    out = out
    back = back
    Monitors = {account, reservation}
    Accounts = {account}
    OneShot = {}
    Tickets = {out, back}
    Owner <- ReservationTrip
    Conf <- OneConf
    Leg <- TwoLegs
    Departs <- SameDay
    Nobody = nobody
    Day = 2
    HalfHour = 2
    Skew = 1
    MaxRetries = 1
    MaxAttempts = 2
    Horizon = 4
    MaxFaults = 1
    MaxChanges = 1
SPECIFICATION FairSpec
INVARIANTS
    LockIsHeld
    NoStrayCheckIn
    NothingLeftBehind
PROPERTIES
    CancelledForCause
    CtrlCIsFinal
    SuccessIsReal
    EveryCheckInEnds
    CtrlCEnds
    AccountsWatched
