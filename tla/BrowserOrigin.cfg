SPECIFICATION Spec
CONSTANTS
    Threads = {t1}
    Main = main
    Nobody = nobody
    MaxAttempts = 3
    MaxUpgrades = 2
    MaxMishaps = 1
INVARIANT CheckInsFromMobile
