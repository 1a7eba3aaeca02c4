CONSTANTS
    Flights = {f1}
    Handlers = {h1, h2}
    Conf <- OneReservation
    NoFlight = NoFlight
    NoHandler = NoHandler
    MaxFaults = 0
    MaxRestarts = 0
SPECIFICATION Spec
INVARIANTS
    EveryFailureIsTold
