SPECIFICATION FairSpec
CONSTANTS
    p1 = p1
    p2 = p2
    m1 = m1
    m2 = m2
    a1 = a1
    a2 = a2
    Nobody = Nobody
    NoRequest = NoRequest
    Proc = {p1, p2}
    ModelRequest = {m1, m2}
    Attempt = {a1, a2}
    MaxModelCalls = 1
    MaxToolCalls = 2
    MaxRequests = 3
    PageRequests = 2
INVARIANTS WithinAllowance DispatchedIsCharged SpentWasReserved
PROPERTY EveryReservationEnds
