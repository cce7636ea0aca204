\* One entry whose reversal may stop between its commit and its publish.
SPECIFICATION Spec
CONSTANTS
    p1 = p1
    e1 = e1
    None = None
    Payments = {p1}
    Allocs = {a1}
    Discounts = {0, 1}
    Workers = {w1}
    Clearances = {e1}
    ClearanceFor <- MCClearanceFor
    OnAccount = {p1}
    OutboxOn = TRUE
INVARIANTS
    CancellationAnnounced
