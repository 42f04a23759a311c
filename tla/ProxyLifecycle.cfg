\* Accept, Reset and Shutdown with two clients and one Reset.
SPECIFICATION FairSpec
CONSTANTS
    ClientConns = {c1, c2}
    MaxListener = 2
INVARIANTS
    ListenersFollowLifecycle
PROPERTIES
    DrainedAtReturn
    ShutdownReturns
