SPECIFICATION FairSpec
CONSTANTS
    Threads = {t1}
    Main = main
    Nobody = nobody
    MaxAttempts = 3
    MaxUpgrades = 2
    MaxMishaps = 2
PROPERTIES
    RequestsEnd
    PageRecovers
