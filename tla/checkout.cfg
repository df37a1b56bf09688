\* One promo use for two customers; points for fewer carts than there are.
SPECIFICATION Spec
CONSTANTS
    o1 = o1
    o2 = o2
    anna = anna
    boris = boris
    Customers = {anna, boris}
    Orders = {o1, o2}
    key1 = key1
    key2 = key2
    Keys = {key1, key2}
    Quotes = {"quote"}
    Pickup = "pickup"
    Referrer = anna
    MaxUses = 1
    PromoMin = 2
    MaxQuantity = 2
    StartPoints <- MCStartPoints
    Earned = 1
    Reward = 1
SYMMETRY Symmetric
INVARIANTS
    PromoCounted
    HeldIsCovered
    CheckoutIsIdempotent
    RewardedOnce
