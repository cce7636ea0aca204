\* One entry, three workers, one allocation with or without a discount, one
\* clearance event, the outbox configured.
SPECIFICATION Spec
CONSTANTS
    p1 = p1
    e1 = e1
    None = None
    Payments = {p1}
    Allocs = {a1}
    Discounts = {0, 1}
    Workers = {w1, w2, w3}
    Clearances = {e1}
    ClearanceFor <- MCClearanceFor
    OnAccount = {p1}
    OutboxOn = TRUE
INVARIANTS
    TypeOK
    PostedIffLanded
    EntryNamesItsJournal
    MirrorFollowsEntry
    SettledAtMostOnce
    CancelledAtMostOnce
    StagedExactlyPosted
    AnnouncedDiscountIsStamped
PROPERTIES
    DiscountFrozenAtPost
    OnlyAFreshClearancePays
    ImplementsContract
SYMMETRY Symmetry
