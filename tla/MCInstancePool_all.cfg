SPECIFICATION Spec
CONSTANTS
    alice = alice
    bob = bob
    t1 = t1
    t2 = t2
    nobody = nobody
    NoAccount = nobody
    Accounts <- TwoAccounts
    Threads <- TwoThreads
    MaxInstances = 1
    MaxRecords = 6
    MaxForks = 6
    MaxRequests = 1
    MaxTicks = 1
    MaxFaults = 1
INVARIANT TypeOK NoLostBackend RoomyProtects RoomyLeavesNothing
PROPERTY EveryRequestAnswered
