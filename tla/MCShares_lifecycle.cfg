\* Two shares: every way to create, publish and delete one, overlapping.
SPECIFICATION Spec
CONSTANTS
  Keys = {k1, k2}
  Tokens = {t1}
  Handlers = {h1, h2}
  Sweeper = Sweeper
  Nobody = Nobody
  Requests = {"start", "cancel", "manageDelete", "report", "disconnect"}
  DeletePermissions = {FALSE}
  MaxDownloads = 1
  Retention = 1
  UploadTTL = 1
  DownloadTTL = 1
  Quota = 0
  Parts = 1
  MaxId = 2
  MaxTime = 1
  MaxRestarts = 1
SYMMETRY Interchangeable
INVARIANT BlobsHaveRows
PROPERTY BlockedIsKept
