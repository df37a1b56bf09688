\* Two cases of one order.
SPECIFICATION GoodsSpec
CONSTANTS
    Cases = {1, 2}
    Lines = {1, 2}
    Sales <- MCSales
    Moves = {1, 2}
CHECK_DEADLOCK FALSE
INVARIANTS
    GoodsTypeOK
    RestockedIsSold
    AllocationIsExact
    BooksFollowWarehouse
