\* One share, two sessions, two concurrent requests, reports and one restart.
SPECIFICATION Spec
CONSTANTS
  Keys = {k1}
  Tokens = {t1, t2}
  Handlers = {h1, h2}
  Sweeper = Sweeper
  Nobody = Nobody
  Requests = {"start", "write", "finish", "unlock", "open", "lock", "report"}
  DeletePermissions = {FALSE}
  MaxDownloads = 2
  Retention = 2
  UploadTTL = 1
  DownloadTTL = 1
  Quota = 0
  Parts = 2
  MaxId = 1
  MaxTime = 2
  MaxRestarts = 1
SYMMETRY Interchangeable
INVARIANT TypeOK
INVARIANT ServedWithinAllowance
INVARIANT OneDownloadPerSession
INVARIANT BlockCutsOff
INVARIANT PublishedIsComplete
INVARIANT ClaimedCanFinish
PROPERTY ImplementsPermits
