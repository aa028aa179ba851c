\* The same part sent twice at once, as by a retry of a request still running.
SPECIFICATION Spec
CONSTANTS
  Handlers = {h1, h2}
  ChunkSize = 2
  Size = 3
  Bodies = {3}
  Prefixes = {1, 2, 3}
  MaxFaults = 1
INVARIANT CompleteIsReadable
CHECK_DEADLOCK FALSE
