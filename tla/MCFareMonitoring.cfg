CONSTANTS
    mine = mine
    other = other
    Flights = {flight}
    Watches = {watch}
    Cards = {mine, other}
    Mine = mine
    Nonstop = {other}
    Amounts <- Savings
    Prices = {1, 2, 4}
    Targets = {2}
    None = none
    MaxEdits = 1
    MaxSlides = 1
    MaxFaults = 1
SPECIFICATION FairSpec
INVARIANTS
    SavingIsTold
    HistoryKeepsUp
    TargetIsTold
PROPERTIES
    ToldOnce
    PriceToldOnce
    FareChecksEnd
    WatchesChecked
