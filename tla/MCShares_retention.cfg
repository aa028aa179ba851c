\* Expiry under failing deletions, blocks and a restart, with fairness.
SPECIFICATION FairSpec
CONSTANTS
  Keys = {k1}
  Tokens = {t1}
  Handlers = {h1}
  Sweeper = Sweeper
  Nobody = Nobody
  Requests = {"start", "write", "finish", "unlock", "open", "report", "manageDelete", "sessionDelete", "cancel"}
  DeletePermissions = {TRUE, FALSE}
  MaxDownloads = 1
  Retention = 2
  UploadTTL = 2
  DownloadTTL = 1
  Quota = 0
  Parts = 2
  MaxId = 1
  MaxTime = 4
  MaxRestarts = 1
 
PROPERTY RetentionKept
PROPERTY SessionsSwept
