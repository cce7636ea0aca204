\* One payment, two callers, the outbox configured.
SPECIFICATION FairSeamSpec
CONSTANTS
    p1 = p1
    e1 = e1
    None = None
    Payments = {p1}
    Allocs = {a1}
    Discounts = {0}
    Workers = {w1, w2}
    Clearances = {e1}
    ClearanceFor <- MCClearanceFor
    OnAccount = {p1}
    OutboxOn = TRUE
INVARIANTS
    SeamTypeOK
    DrawnAtMostOnce
    BillingFollowsTheBooks
PROPERTIES
    EveryPostDrawsDown
