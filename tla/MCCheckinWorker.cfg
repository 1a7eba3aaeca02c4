CONSTANTS
    Flights = {f1, f2}
    Handlers = {h1, h2}
    Conf <- OneReservation
    NoFlight = NoFlight
    NoHandler = NoHandler
    MaxFaults = 1
    MaxRestarts = 1
SPECIFICATION Spec
SYMMETRY Symmetry
INVARIANTS
    OneThreadPerFlight
    StopOnlyWhenResolved
    NoEarlyCheckIn
    SuccessIsReal
    NeverToldBoth
    NobodyStranded
PROPERTIES
    StatusNeverRewinds
    CancelledStaysUnattended
    KeepsPromise
