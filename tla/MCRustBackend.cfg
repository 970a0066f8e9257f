SPECIFICATION BackendSpec
CONSTANTS
    Scenarios <- MCScenarios
    Passwords = {"", "secret"}
    MaxBuilds = 2
    Contexts = {c1, c2}
    Keys <- MCKeys
    Messages = {m1}
    Nonces = {"n1", "n2"}
    MaxHandles = 3
    MaxUpdates = 1
    Threads = {t1, t2}
    Literals = {"192.0.2.1"}
    Names = {"vpn"}
    MaxAddresses = 3
    Capacity = 2
SYMMETRY MCSymmetry
INVARIANTS
    BackendInv
    HandshakeTrusted
    CryptoExact
CHECK_DEADLOCK FALSE
