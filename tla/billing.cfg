CONSTANTS
    Subs = {s1}
    Plans = {basic, pro}
    Calls = {c1, c2}
    Schedulers = {c1, c2}
    Servers = {c1, c2}
    NoPlan = NoPlan
    Cycle = 1
    Grace = 0
    Lead = 1
    Ttl = 1
    MaxClock = 2
    MaxInvoices = 3
    MaxRequests = 1
    MaxFaults = 1
SYMMETRY Symmetry
CONSTRAINT Followed
SPECIFICATION Spec
INVARIANTS CreditsMatchPayment PeriodIsPaid GraceMeansEndedSerially PeriodBilledOnceSerially
PROPERTY TickCatchesUp
