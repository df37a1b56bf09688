\* Stock up to 1 against a total demand of 3: some checkouts must fail.
SPECIFICATION FairSyncSpec
CONSTANTS
    o1 = o1
    o2 = o2
    o3 = o3
    alice = alice
    bob = bob
    Variants <- MCVariants
    Orders = {o1, o2, o3}
    Customers = {alice, bob}
    CustomerOf <- MCCustomerOf
    Lines <- MCLines
    MaxStock = 1
    Returns <- MCReturns
    Syncs = {s1}
    Snapshots <- MCSnapshots
    NoVariant = NoVariant
INVARIANTS
    ReservedWithinStock
    ReservedIsOwed
    ReturnsAreKept
PROPERTIES
    TransactionsEnd
    ImplementsLedger
