SPECIFICATION HeapSpec
CONSTANTS
    Managers = {"first_fit", "best_fit", "buddy"}
    NPages = 8
    FirstFree = 1
    MAX_ORDER = 3
    UNITS = 6
    BB_UNITS = 2
    Total <- MCTotal
    PageSizes = {1, 2}
    ObjectSizes = {1, 3, 6, 12, 48}
    TopStaysFree = TRUE
    MaxPages = 4
    MaxObjects = 3
INVARIANTS
    PagesExact
    ObjectsExact
    AnswersExact
