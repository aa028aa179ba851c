\* Every range of every file of up to seven units, with and without damage.
SPECIFICATION Spec
CONSTANTS
  ChunkSize = 3
  Sizes = {0, 1, 2, 3, 4, 5, 6, 7}
  MaxPos = 8
INVARIANT DoneIsExact
INVARIANT NothingElseSent
INVARIANT RefusedIsEmpty
PROPERTY WholeFileCompletes
CHECK_DEADLOCK FALSE
