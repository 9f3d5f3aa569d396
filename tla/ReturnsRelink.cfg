SPECIFICATION Spec
CONSTANTS
    None = None
    Trackings = {t1}
    Deals = {d1, d2}
    Cards = {c1}
    OneCReturns = {r1}
    Sessions = {s1}
    Codes = {"arrived_at_pickup_point"}
    Times = {1}
    Deadlines = {4}
    Days = {0}
    MaxEvents = 1
    MaxWorked = 1
INVARIANTS
    RequestFillsDeal
SYMMETRY Symmetry
CHECK_DEADLOCK FALSE
