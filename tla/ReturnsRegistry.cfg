SPECIFICATION Spec
CONSTANTS
    None = None
    Trackings = {t1}
    Deals = {d1, d2}
    Cards = {c1}
    OneCReturns = {r1}
    Sessions = {s1}
    Codes = {"arrived_at_pickup_point", "unknown"}
    Times = {1, 2}
    Deadlines = {4}
    Days = {0}
    MaxEvents = 2
    MaxWorked = 1
INVARIANTS
    TypeOK BusinessStatusHolds LatestEventGoverns StatusHasItsAction
PROPERTIES
    DealFollowsRequest
SYMMETRY Symmetry
CHECK_DEADLOCK FALSE
