SPECIFICATION Spec
CONSTANTS
    Threads = {t1, t2}
    Main = main
    Nobody = nobody
    MaxAttempts = 3
    MaxUpgrades = 2
    MaxMishaps = 2
INVARIANTS
    DesktopOnlyBriefly
PROPERTIES
    FetchUndisturbed
    RequestsNearTheirEnd
