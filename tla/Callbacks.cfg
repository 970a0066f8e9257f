CONSTANTS
    Readers = {r1}
    MaxCapacity = 2
    MaxCalls = 3
SPECIFICATION CallbackFairSpec
INVARIANTS
    CallbackInv
    TunnelConfigured
    AnswersFaithful
PROPERTY CallbackSettles
CHECK_DEADLOCK FALSE
