\* One entry whose post is retried after the ledger took its journal.
SPECIFICATION Spec
CONSTANTS
    p1 = p1
    e1 = e1
    None = None
    Payments = {p1}
    Allocs = {a1}
    Discounts = {0, 1}
    Workers = {w1}
    Clearances = {e1}
    ClearanceFor <- MCClearanceFor
    OnAccount = {p1}
    OutboxOn = TRUE
INVARIANTS
    StampMatchesJournal
