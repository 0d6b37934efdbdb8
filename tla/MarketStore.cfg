\* Two threads ask for overlapping sets of events, while a book changes once.
SPECIFICATION FairStoreSpec
CONSTANTS
    Event = {1, 2}
    Thread = {t1, t2}
    Content <- Depths
    Blank <- NothingKnown
    Sel = {"a"}
    Asked <- CallsMade
    Answers <- ListedOrNot
    MaxCalls = 2
    MaxFeed = 1

CHECK_DEADLOCK FALSE
INVARIANTS StoreTypeOK ResultsCurrent StructureFollowsBook
PROPERTIES EveryCallEnds
