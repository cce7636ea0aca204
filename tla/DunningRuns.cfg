\* Three calls over two invoices.
SPECIFICATION FairSpec
CONSTANTS
    first = first
    second = second
    NoDate = NoDate
    Invoices = {first, second}
    DueDate <- MCDueDate
    MaxOutstanding = 1
    Runs = {r1, r2, r3}
    Days <- MCDays
\* Every call may have been made.
CHECK_DEADLOCK FALSE
INVARIANTS
    TypeOK
    OneActionPerLevel
    EmittedCountsItsActions
    EveryOverdueInvoiceIsChased
PROPERTIES
    RunsEnd
