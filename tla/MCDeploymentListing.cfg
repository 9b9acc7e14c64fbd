CONSTANTS
    Limits = {1, 2, 3}
    MinPage = 3
    MaxPage = 5
    SummaryLimit = 4
    MaxListed = 9
SPECIFICATION Spec
INVARIANTS
    PagesAreExact
    SummaryIsExact
PROPERTIES
    PagingEnds
CHECK_DEADLOCK FALSE
