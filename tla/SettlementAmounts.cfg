\* Amounts with fractions of a cent among them, up to two allocations.
SPECIFICATION Spec
CONSTANTS
    Invoices = {i1, i2}
    DiscountAccount <- SharedAccount
    Inputs <- FinerThanCents
    MaxLines = 2
    Percents = {50, 120}
    Bases <- OverpaidToo
\* A reversed payment is final.
CHECK_DEADLOCK FALSE
INVARIANTS
    TypeOK
    AllocationsWithinPaid
    AnnouncedIsBooked
    EachDiscountWithinTerms
    AssemblyBalances
    ReversalClearsTheBooks
