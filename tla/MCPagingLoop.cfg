CONSTANTS
    Totals <- SmallTotals
    Requests <- SmallRequests
SPECIFICATION Spec
INVARIANTS PagesTile WholeRecords CallCount
PROPERTIES PagesProgress
CHECK_DEADLOCK FALSE
