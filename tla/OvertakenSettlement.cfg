\* One payment, one caller that posts and then reverses.
SPECIFICATION SeamSpec
CONSTANTS
    p1 = p1
    e1 = e1
    None = None
    Payments = {p1}
    Allocs = {a1}
    Discounts = {0}
    Workers = {w1}
    Clearances = {e1}
    ClearanceFor <- MCClearanceFor
    OnAccount = {p1}
    OutboxOn = TRUE
INVARIANTS
    CancelledIsRestored
