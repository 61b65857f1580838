SPECIFICATION Spec
CONSTANTS
    Workers = {w1, w2, w3}
    NoOne = NoOne
INVARIANTS
    
    OneTickerUntilOverrun
    NoZombieRegistration
PROPERTY
    KeepsTicking
