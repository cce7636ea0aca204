\* Three calls, two of them possibly for the same day, two invoices.
SPECIFICATION FairSpec
CONSTANTS
    dated = dated
    undated = undated
    NoDate = NoDate
    Invoices = {dated, undated}
    DueDate <- MCDueDate
    MaxOutstanding = 1
    Runs = {r1, r2, r3}
    Days <- MCDays
    Serial = FALSE
\* Every call may have been made.
CHECK_DEADLOCK FALSE
INVARIANTS
    TypeOK
    TotalsAreOneRuns
    RowsUnderTheirDay
PROPERTIES
    NoLateTwin
    RunsEnd
