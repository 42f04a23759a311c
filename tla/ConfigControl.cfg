\* Two operators mutate, plan and reset while two exchanges are captured.
SPECIFICATION Spec
CONSTANTS
    Operators = {o1, o2}
    Sessions = {s1}
    Keys = {k1, k2}
    CapSet <- MCCapSet
    TLSs <- MCTLSs
    Nets <- MCNets
    Changes <- MCChanges
    Files <- MCFiles
    None = None
    IdempMax = 1
    MaxGen = 2
    MaxExchange = 2
    t1 = t1
    t2 = t2
    n1 = n1
    n2 = n2
SYMMETRY Symm
INVARIANTS
    RuntimeMatchesConfig
    AnswerIsCommitted
PROPERTIES
    NoLostUpdate
    FailedChangeIsPure
    SameKeySwapsOnce
CHECK_DEADLOCK FALSE
