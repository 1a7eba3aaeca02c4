CONSTANTS
    ann = ann
    c1 = c1
    c2 = c2
    f1 = f1
    f2 = f2
    Accounts = {ann}
    Confs = {c1, c2}
    Flights = {f1, f2}
    Conf <- OneEach
    Holder <- AllOfAnns
    Manual = manual
    Zoneless = {}
    Entered = {c2}
    MaxFailures = 3
    MaxEdits = 1
    MaxChanges = 1
    MaxFaults = 1
SPECIFICATION FairSpec
INVARIANTS
    NoOrphans
    InSync
PROPERTIES
    DeactivatesOnlyGone
    DeactivatedForCause
    RejectedIsSwitchedOff
    BookedIsFound
    SchedulesAgain
    KeepsPromise
