\* The scheduler delivers the day twice, one call after the other.
SPECIFICATION Spec
CONSTANTS
    dated = dated
    undated = undated
    NoDate = NoDate
    Invoices = {dated, undated}
    DueDate <- MCDueDate
    MaxOutstanding = 1
    Runs = {r1, r2}
    Days <- MCDay
    Serial = TRUE
\* Every call may have been made.
CHECK_DEADLOCK FALSE
INVARIANTS
    InvoiceOncePerSnapshot
