\* Two slots, of which the first scenario is critical.  One operator: of two that
\* read the same version only one saves, and the other's read leaves no trace.
SPECIFICATION Spec
CONSTANTS
    Orders = {o1, o2}
    MaxOrders = 2
    Critical = {1}
    Operators = {w1}
    MaxVersions = 3
    NoOrder = NoOrder
    Free = Free
    None = None
CHECK_DEADLOCK FALSE
SYMMETRY Symmetry
PROPERTIES
    StopHoldsPayments
    OneAtATime
    AnchorAdvances
