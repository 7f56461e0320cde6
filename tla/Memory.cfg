SPECIFICATION MemorySpec
CONSTANTS
    ArenaSize = 11
    Requests = {0, 2, 3, 8}
    Tasks = {t1, t2}
    NFrames = 7
    HeapMax = 1
    MmapMax = 1
    SlabCells = 4
    Buckets = {1, 2}
    MaxPages = 3
    Sizes = {1, 2, 5}
    Files = {f1}
    MaxFile = 4
    Data = {0, 1}
    PageCells = 16
    STACK_PAGES = 4
    SegStarts = {16, 40}
    SegSizes = {0, 16, 20}
    MaxStrings = 2
    StringCells = {1, 3}
INVARIANTS
    GrantsApart
    SearchIsExact
    
    
    
    BlocksDisjoint
    FilesKeepContents
    VectorsReadable
    
CHECK_DEADLOCK FALSE
