\* Any client sends a file of three parts, through three failures.
SPECIFICATION UploadSpec
CONSTANTS
  Handlers = {h1}
  ChunkSize = 2
  Size = 11
  Bodies = {0, 1, 2, 3, 4, 5, 6, 7, 8, 12}
  Prefixes = {1, 2}
  MaxFaults = 3
  Clients = {"browser", "windows", "other"}
  PartSize = 4
  MaxAttempts = 2
  MaxResyncs = 3
INVARIANT TypeOK
INVARIANT ReceivedIsStored
INVARIANT CompleteIsReadable
INVARIANT DoneIsReadable
PROPERTY UploadEnds
CHECK_DEADLOCK FALSE
