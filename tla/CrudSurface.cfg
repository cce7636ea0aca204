SPECIFICATION Spec
CONSTANTS
    p1 = p1
    p2 = p2
    l1 = l1
    cl1 = cl1
    Uuids <- MCUuids
    Cells <- MCCells
    Legacy <- MCLegacy
    Watched <- MCWatched
    Families <- MCFamilies
    Clients = {cl1}
    SeedRows <- MCSeedRows
INVARIANTS TypeOK RuleBreaksAreInherited LiveKeysAreUnique ChildrenHaveParents
PROPERTIES PurgedStaysPurged GuardedRowsStand
CHECK_DEADLOCK FALSE
