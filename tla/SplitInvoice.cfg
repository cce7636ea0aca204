\* Two allocations may name the same invoice; the terms are one
\* cent, with nothing to round.
SPECIFICATION Spec
CONSTANTS
    Invoices = {i1, i2}
    DiscountAccount <- SharedAccount
    Inputs <- EvenCents
    MaxLines = 2
    Percents = {50}
    Bases = {2}
\* A reversed payment is final.
CHECK_DEADLOCK FALSE
INVARIANTS
    TakeWithinTerms
