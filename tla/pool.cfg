SPECIFICATION PoolSpec
CONSTANTS
    Tasks = {t1, t2, t3}
    MaxConnections = 2
    NoConnection = NoConnection
    MaxGeneration = 2
    MaxFaults = 1
INVARIANTS WithinCapacity FreshCredentials
PROPERTY EveryoneServed
