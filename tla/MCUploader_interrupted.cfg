\* The browser sends a file of two parts, and one request fails.
SPECIFICATION UploadSpec
CONSTANTS
  Handlers = {h1}
  ChunkSize = 2
  Size = 7
  Bodies = {4}
  Prefixes = {1, 2}
  MaxFaults = 1
  Clients = {"browser"}
  PartSize = 4
  MaxAttempts = 6
  MaxResyncs = 3
PROPERTY InterruptedContinues
CHECK_DEADLOCK FALSE
