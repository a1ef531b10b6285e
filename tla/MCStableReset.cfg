CONSTANTS
    alice = alice  bob = bob
    RAY = 100  WAD = 10  PERCENTAGE_FACTOR = 10
    SECONDS_PER_YEAR = 2
    Users = {alice, bob}
    Amounts = {5, 10}
    StableRates = {20, 100}
    MaxDebt = 30
    MaxTime = 3
    MaxCalls = 5
SYMMETRY UserSymmetry
SPECIFICATION TokenSpec
INVARIANT ResetByLastDebtor
CHECK_DEADLOCK FALSE
