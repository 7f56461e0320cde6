SPECIFICATION LoaderSpec
CONSTANTS
 PageCells = 16
 STACK_PAGES = 4
 SegStarts = {16, 40}
 SegSizes = {0, 16, 20}
 MaxStrings = 2
 StringCells = {1, 3}
INVARIANT ArgumentsReadable
CHECK_DEADLOCK FALSE
