\* A row id used twice: Finalize reaches another share.
SPECIFICATION Spec
CONSTANTS
  Keys = {k1, k2}
  Tokens = {t1}
  Handlers = {h1, h2}
  Sweeper = Sweeper
  Nobody = Nobody
  Requests = {"start", "write", "finish", "cancel", "overlap"}
  DeletePermissions = {FALSE}
  MaxDownloads = 1
  Retention = 2
  UploadTTL = 2
  DownloadTTL = 1
  Quota = 0
  Parts = 1
  MaxId = 2
  MaxTime = 0
  MaxRestarts = 0
SYMMETRY Interchangeable
INVARIANT NeverHalfUploaded
