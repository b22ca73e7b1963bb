CONSTANTS
    Idle = 2
    MaxRecoveries = 2
    Bodies <- MCBodies
    EventsOf <- MCEventsOf
    TailsOf <- MCTailsOf
    Keys = {k1}
    MaxFunds = 2
    MaxChunks = 2
    MaxCallbacks = 1
    MaxPartialBytes = 3
SPECIFICATION LiveSpec
INVARIANTS
    NoUnguardedWait
    CutsOnlySilence
    PrefixHoldsWhatClientSaw
    OwnCutNotBlamed
PROPERTIES
    ImplementsLogicalStream
    SilenceEnds
