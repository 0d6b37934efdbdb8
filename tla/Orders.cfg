\* Two orders and two of somebody else, pages of one order, at most four pages.
SPECIFICATION Spec
CONSTANTS
    Ext = {"a", "b"}
    Foreign = "foreign"
    None = None
    Batch <- Batches
    BatchLimit = 2
    PageSize = 1
    max_pages = 4
    MaxItems = 2
    MaxOthers = 2

CHECK_DEADLOCK FALSE
INVARIANTS TypeOK KnowledgeTruthful PlacedOnce
