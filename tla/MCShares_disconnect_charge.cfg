\* A client that goes away inside ClaimDownload, and comes back.
SPECIFICATION Spec
CONSTANTS
  Keys = {k1}
  Tokens = {t1}
  Handlers = {h1}
  Sweeper = Sweeper
  Nobody = Nobody
  Requests = {"start", "write", "finish", "unlock", "open", "disconnect"}
  DeletePermissions = {FALSE}
  MaxDownloads = 2
  Retention = 2
  UploadTTL = 2
  DownloadTTL = 1
  Quota = 0
  Parts = 1
  MaxId = 1
  MaxTime = 0
  MaxRestarts = 0
SYMMETRY Interchangeable
INVARIANT OneDownloadPerSession
