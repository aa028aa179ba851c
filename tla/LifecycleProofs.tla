-------------------------- MODULE LifecycleProofs ---------------------------
(***************************************************************************)
(* Proofs about the life of a share in Shares, from StartUpload to         *)
(* DeleteDrop: its row, its directory and its bytes agree, and a session   *)
(* neither pays twice nor loses what it has paid for.                      *)
(***************************************************************************)
EXTENDS SharesProofs

-----------------------------------------------------------------------------
(***************************************************************************)
(* What a process holds after Goto, Begin and Finish.                      *)
(***************************************************************************)

\* Only process p moves.
Alone(p) == \A q \in Procs : q # p => req'[q] = req[q]

\* Goto keeps everything but the step.
LEMMA Went ==
  ASSUME IInv, NEW p \in Procs, NEW step, Goto(p, step)
  PROVE  /\ Alone(p)
         /\ req'[p].pc = step /\ req'[p].k = req[p].k
         /\ req'[p].t = req[p].t /\ req'[p].at = req[p].at
         /\ req'[p].off = req[p].off /\ req'[p].len = req[p].len
<1>1. req \in [Procs -> Request] /\ req[p] \in Request
  BY DEF IInv, TypeOK
<1> QED
  BY <1>1 DEF Goto, Alone, Request

\* Begin starts a process with a share.
LEMMA Began ==
  ASSUME IInv, NEW p \in Procs, NEW step, NEW k, Begin(p, step, k)
  PROVE  /\ Alone(p)
         /\ req'[p].pc = step /\ req'[p].k = k
         /\ req'[p].t = Nobody /\ req'[p].at = 0
<1>1. req \in [Procs -> Request]
  BY DEF IInv, TypeOK
<1> QED
  BY <1>1 DEF Begin, Alone, Idle

\* Finish leaves it with nothing.
LEMMA Finished ==
  ASSUME IInv, NEW p \in Procs, Finish(p)
  PROVE  /\ Alone(p)
         /\ req'[p].pc = IF p = Sweeper THEN "sweep_next" ELSE "idle"
         /\ req'[p].k = Nobody /\ req'[p].t = Nobody /\ req'[p].at = 0
<1>1. req \in [Procs -> Request]
  BY DEF IInv, TypeOK
<1> QED
  BY <1>1 DEF Finish, Alone, Idle

-----------------------------------------------------------------------------
(***************************************************************************)
(* What the statements do to the rows.                                     *)
(***************************************************************************)

\* The fields of k's record that a step may not touch.
SameFate(k) == drop'[k].status = drop[k].status /\ drop'[k].lapsed = drop[k].lapsed
SameDates(k) == /\ drop'[k].id = drop[k].id
                /\ drop'[k].createdAt = drop[k].createdAt
                /\ drop'[k].expiresAt = drop[k].expiresAt
                /\ drop'[k].maxDownloads = drop[k].maxDownloads
SameFile(k) == /\ drop'[k].fid = drop[k].fid
               /\ drop'[k].files = drop[k].files
               /\ drop'[k].received = drop[k].received
SameGiven(k) == drop'[k].given = drop[k].given
SameBlob(k) == /\ drop'[k].onDisk = drop[k].onDisk
               /\ drop'[k].crowded = drop[k].crowded
SameCount(k) == drop'[k].downloads = drop[k].downloads

SameRecord(k) == /\ SameFate(k) /\ SameDates(k) /\ SameFile(k) /\ SameGiven(k)
                 /\ SameBlob(k) /\ SameCount(k)

\* A record that is not touched.
LEMMA Untouched ==
  ASSUME NEW k, drop'[k] = drop[k]
  PROVE  SameRecord(k)
  BY DEF SameRecord, SameFate, SameDates, SameFile, SameGiven, SameBlob, SameCount

\* CreateDrop.
LEMMA Created ==
  ASSUME IInv, NEW h \in Handlers, StartCreate(h)
  PROVE  /\ req[h].k \in Keys
         /\ \A k \in Keys \ {req[h].k} : drop'[k] = drop[k]
         /\ drop[req[h].k] = NoDrop
         /\ LET d == drop'[req[h].k]
            IN  /\ d.status = "pending" /\ d.id \in Nat \ {0} /\ NextRowId(d.id)
                /\ d.createdAt = now /\ d.expiresAt = now + Retention
                /\ d.downloads = 0 /\ d.fid = 0
                /\ ~d.files /\ ~d.given /\ ~d.lapsed
                /\ d.received = 0 /\ d.onDisk = 0 /\ d.crowded = FALSE
<1>1. h \in Procs
  BY ProcsFacts
<1>2. /\ req[h].k \in Keys /\ drop[req[h].k].status = "none"
      /\ drop \in [Keys -> Drop]
  BY <1>1 DEF IInv, TypeOK, FreshOK, StartCreate
<1>3. drop[req[h].k] = NoDrop
  BY <1>2 DEF IInv, EmptyOK
<1>4. PICK i \in Ids, limit \in 1..MaxDownloads, del \in DeletePermissions :
        /\ NextRowId(i)
        /\ drop' = [drop EXCEPT ![req[h].k] =
                     [NoDrop EXCEPT !.status = "pending", !.id = i,
                                    !.createdAt = now,
                                    !.expiresAt = now + Retention,
                                    !.maxDownloads = limit,
                                    !.deleteAllowed = del]]
  BY DEF StartCreate
<1>5. i \in Nat \ {0}
  BY BoundsAssumption DEF Ids
<1>6. drop'[req[h].k] = [NoDrop EXCEPT !.status = "pending", !.id = i,
                                       !.createdAt = now,
                                       !.expiresAt = now + Retention,
                                       !.maxDownloads = limit,
                                       !.deleteAllowed = del]
  BY <1>2, <1>4
<1>7. \A k \in Keys \ {req[h].k} : drop'[k] = drop[k]
  BY <1>2, <1>4
<1> QED
  BY <1>2, <1>3, <1>4, <1>5, <1>6, <1>7 DEF NoDrop

\* AddFile and SetBlobPath.
LEMMA FilesAdded ==
  ASSUME IInv, NEW h \in Handlers, StartFiles(h), NEW k \in Keys
  PROVE  /\ SameFate(k) /\ SameDates(k) /\ SameGiven(k) /\ SameBlob(k) /\ SameCount(k)
         /\ ~IsRow(k, RowId(h)) => SameFile(k)
         /\ IsRow(k, RowId(h)) =>
              drop'[k].files /\ drop'[k].fid \in Nat \ {0} /\ drop'[k].received = 0
<1>1. drop[k] \in Drop
  BY DEF IInv, TypeOK
<1>2. CASE drop'[k] = drop[k] /\ ~IsRow(k, RowId(h))
  BY <1>2, Untouched DEF SameRecord
<1>3. ASSUME NEW i \in Ids, IsRow(k, RowId(h)),
             drop'[k] = [drop[k] EXCEPT !.files = TRUE, !.fid = i, !.received = 0]
      PROVE  /\ SameFate(k) /\ SameDates(k) /\ SameGiven(k) /\ SameBlob(k) /\ SameCount(k)
             /\ drop'[k].files /\ drop'[k].fid \in Nat \ {0} /\ drop'[k].received = 0
  <2>1. i \in Nat \ {0}
    BY BoundsAssumption DEF Ids
  <2> QED
    BY <1>1, <1>3, <2>1
       DEF Drop, SameFate, SameDates, SameGiven, SameBlob, SameCount
<1> QED
  BY <1>2, <1>3 DEF StartFiles

\* CreateUploadSession, and the answer to the client.
LEMMA SessionCreated ==
  ASSUME IInv, NEW h \in Handlers, StartSession(h), NEW k \in Keys
  PROVE  /\ SameFate(k) /\ SameDates(k) /\ SameFile(k) /\ SameBlob(k) /\ SameCount(k)
         /\ k # req[h].k => SameGiven(k)
<1>1. drop[k] \in Drop
  BY DEF IInv, TypeOK
<1>2. CASE drop'[k] = drop[k]
  BY <1>2, Untouched DEF SameRecord
<1>3. CASE drop'[k] = [drop[k] EXCEPT !.upload = @ \/ IsRow(k, RowId(h)),
                                      !.given = @ \/ k = req[h].k]
  <2>1. SameFate(k) /\ SameDates(k) /\ SameFile(k) /\ SameBlob(k) /\ SameCount(k)
    BY <1>1, <1>3 DEF Drop, SameFate, SameDates, SameFile, SameBlob, SameCount
  <2>2. drop'[k].given = (drop[k].given \/ k = req[h].k)
    BY <1>1, <1>3 DEF Drop
  <2>3. drop[k].given \in BOOLEAN
    BY <1>1 DEF Drop
  <2>4. k # req[h].k => SameGiven(k)
    BY <2>2, <2>3 DEF SameGiven
  <2> QED
    BY <2>1, <2>4
<1> QED
  BY <1>2, <1>3 DEF StartSession

\* What a WriteParts does before SetReceived.
LEMMA BlobTouched ==
  ASSUME IInv, NEW h \in Handlers,
         WriteFile(h) \/ WriteOpen(h) \/ WriteBlob(h) \/ WriteRollback(h)
  PROVE  /\ \A k \in Keys :
              SameFate(k) /\ SameDates(k) /\ SameFile(k) /\ SameGiven(k) /\ SameCount(k)
         /\ \E r \in Request : StillWrites(h, r)
         /\ UNCHANGED <<now, dir, reports, sess, down, mu, reap, restarts, cutOff>>
<1>1. h \in Procs /\ TypeOK /\ HoldOK /\ ~req[h].late
  BY ProcsFacts DEF IInv, CutOffOK, At, WriteFile, WriteOpen, WriteBlob, WriteRollback
<1>2. /\ RowsSpared
      /\ \E r \in Request : StillWrites(h, r)
      /\ UNCHANGED <<now, dir, reports, sess, down, mu, reap, restarts, cutOff>>
  BY <1>1, WriteSteps
<1>3. ASSUME NEW k \in Keys
      PROVE  SameFate(k) /\ SameDates(k) /\ SameFile(k) /\ SameGiven(k) /\ SameCount(k)
  <2>1. drop[k] \in Drop
    BY <1>1 DEF TypeOK
  <2>2. CASE drop'[k] = drop[k]
    BY <2>2, Untouched DEF SameRecord
  <2>3. ASSUME NEW n \in Nat, NEW b \in BOOLEAN,
               drop'[k] = [drop[k] EXCEPT !.onDisk = n, !.crowded = b]
        PROVE  SameFate(k) /\ SameDates(k) /\ SameFile(k) /\ SameGiven(k) /\ SameCount(k)
    BY <2>1, <2>3 DEF Drop, SameFate, SameDates, SameFile, SameGiven, SameCount
  <2> QED
    BY <1>2, <2>2, <2>3 DEF RowsSpared
<1> QED
  BY <1>2, <1>3

\* SetReceived.
LEMMA ReceivedSet ==
  ASSUME IInv, NEW h \in Handlers, WriteSet(h), NEW k \in Keys
  PROVE  /\ SameFate(k) /\ SameDates(k) /\ SameGiven(k) /\ SameBlob(k) /\ SameCount(k)
         /\ drop'[k].fid = drop[k].fid /\ drop'[k].files = drop[k].files
         /\ \/ SameFile(k)
            \/ /\ HasFile(k) /\ drop[k].fid = drop[req[h].k].fid
               /\ drop'[k].received = req[h].off + req[h].len
<1>1. drop[k] \in Drop
  BY DEF IInv, TypeOK
<1>2. CASE drop'[k] = drop[k]
  BY <1>2, Untouched DEF SameRecord, SameFile
<1>3. CASE /\ HasFile(k) /\ drop[k].fid = drop[req[h].k].fid
           /\ drop'[k] = [drop[k] EXCEPT !.received = req[h].off + req[h].len]
  BY <1>1, <1>3 DEF Drop, SameFate, SameDates, SameGiven, SameBlob, SameCount
<1> QED
  BY <1>2, <1>3 DEF WriteSet

\* Finalize.
LEMMA Finalized ==
  ASSUME IInv, NEW h \in Handlers, Finalize(h), NEW k \in Keys
  PROVE  /\ SameDates(k) /\ SameFile(k) /\ SameGiven(k) /\ SameBlob(k) /\ SameCount(k)
         /\ \/ SameFate(k)
            \/ /\ IsRow(k, RowId(h)) /\ (drop[k].files => drop[k].received >= Parts)
               /\ drop'[k].status = "ready"
               /\ drop[k].lapsed => drop'[k].lapsed
               /\ UploadEnded(k, now) => drop'[k].lapsed
<1>1. drop[k] \in Drop
  BY DEF IInv, TypeOK
<1>2. CASE drop'[k] = drop[k]
  BY <1>2, Untouched DEF SameRecord
<1>3. CASE /\ IsRow(k, RowId(h)) /\ (drop[k].files => drop[k].received >= Parts)
           /\ drop'[k] = [drop[k] EXCEPT !.status = "ready", !.upload = FALSE,
                                         !.lapsed = @ \/ UploadEnded(k, now)]
  <2>1. /\ SameDates(k) /\ SameFile(k) /\ SameGiven(k) /\ SameBlob(k) /\ SameCount(k)
        /\ drop'[k].status = "ready"
    BY <1>1, <1>3 DEF Drop, SameDates, SameFile, SameGiven, SameBlob, SameCount
  <2>2. drop'[k].lapsed = (drop[k].lapsed \/ UploadEnded(k, now))
    BY <1>1, <1>3 DEF Drop
  <2> QED
    BY <1>3, <2>1, <2>2
<1> QED
  BY <1>2, <1>3 DEF Finalize

\* DELETE FROM drops.
LEMMA RowDeleted ==
  ASSUME IInv, NEW p \in Procs, DeleteRow(p), NEW k \in Keys
  PROVE  /\ SameDates(k) /\ SameFile(k) /\ SameGiven(k) /\ SameBlob(k) /\ SameCount(k)
         /\ drop'[k].lapsed = drop[k].lapsed
         /\ \/ ~IsRow(k, RowId(p)) /\ drop'[k].status = drop[k].status
            \/ IsRow(k, RowId(p)) /\ drop'[k].status = "gone"
<1>1. drop[k] \in Drop
  BY DEF IInv, TypeOK
<1>2. CASE drop'[k] = drop[k] /\ ~IsRow(k, RowId(p))
  BY <1>2, Untouched DEF SameRecord, SameFate
<1>3. CASE IsRow(k, RowId(p)) /\ drop'[k] = [drop[k] EXCEPT !.status = "gone", !.upload = FALSE]
  BY <1>1, <1>3 DEF Drop, SameDates, SameFile, SameGiven, SameBlob, SameCount
<1> QED
  BY <1>2, <1>3 DEF DeleteRow

\* BlockDrop.
LEMMA Blocked ==
  ASSUME IInv, NEW h \in Handlers, ReportBlock(h), NEW k \in Keys
  PROVE  SameRecord(k)
<1>1. drop[k] \in Drop
  BY DEF IInv, TypeOK
<1>2. CASE drop'[k] = drop[k]
  BY <1>2, Untouched
<1>3. CASE drop'[k] = [drop[k] EXCEPT !.blocked = TRUE]
  BY <1>1, <1>3 DEF Drop, SameRecord, SameFate, SameDates, SameFile, SameGiven,
     SameBlob, SameCount
<1> QED
  BY <1>2, <1>3 DEF ReportBlock

\* ClaimDownload adds one to the counter of the claimed share.
LEMMA ClaimCounted ==
  ASSUME IInv, NEW h \in Handlers, OpenClaim(h), NEW k \in Keys
  PROVE  /\ SameFate(k) /\ SameDates(k) /\ SameFile(k) /\ SameGiven(k) /\ SameBlob(k)
         /\ \/ SameCount(k)
            \/ /\ k = req[h].k /\ Live(k) /\ ~sess[req[h].t].claimed
               /\ drop'[k].downloads = drop[k].downloads + 1
<1>1. drop \in [Keys -> Drop] /\ drop[k] \in Drop
  BY DEF IInv, TypeOK
<1>2. CASE drop'[k] = drop[k]
  BY <1>2, Untouched DEF SameRecord
<1>3. CASE /\ k = req[h].k /\ Live(k) /\ ~sess[req[h].t].claimed
           /\ drop'[k] = [drop[k] EXCEPT !.downloads = @ + 1]
  BY <1>1, <1>3 DEF Drop, SameFate, SameDates, SameFile, SameGiven, SameBlob
<1>4. \/ drop' = drop
      \/ /\ Live(req[h].k) /\ ~sess[req[h].t].claimed
         /\ drop' = [drop EXCEPT ![req[h].k].downloads = @ + 1]
  BY DEF OpenClaim
<1> QED
  BY <1>1, <1>2, <1>3, <1>4

-----------------------------------------------------------------------------
(***************************************************************************)
(* The rows and the disk: the invariant, in parts.                         *)
(***************************************************************************)

\* The two halves of IdsUnique.
RowIdsUnique ==
  \A j, k \in Keys : j # k /\ drop[j].id = drop[k].id => drop[j].id = 0
FileIdsUnique ==
  \A j, k \in Keys : j # k /\ drop[j].fid = drop[k].fid => drop[j].fid = 0

StartSteps == {"start_create", "start_files", "start_dir", "start_session"}
UploadSteps == {"write_file", "write_open", "write_blob", "finish_tx"}

\* Process p is StartUpload for k.
Starts(p, k) == req[p].pc \in StartSteps /\ req[p].k = k

\* Until StartUpload answers, nobody else has its share in hand.
PrivateOK ==
  \A p \in Procs, k \in Keys : Starts(p, k) =>
    /\ ~drop[k].given
    /\ k \notin reap
    /\ \A q \in Procs : q # p => req[q].k # k
    /\ \A t \in Tokens : sess[t].key # k

\* It has inserted a row, which is too young for Sweep, and then a file.
InsertedOK ==
  \A p \in Procs, k \in Keys : Starts(p, k) /\ ~At(p, "start_create") =>
    /\ drop[k].status = "pending"
    /\ ~UploadEnded(k, now)
    /\ now < drop[k].expiresAt
    /\ At(p, "start_files") => drop[k].fid = 0
    /\ ~At(p, "start_files") => drop[k].files

\* A directory has a row, and DeleteDrop removes it before the row.
DirOK == \A k \in dir : HasRow(k)
RemovedOK == \A p \in Procs : At(p, "del_row") => req[p].k \notin dir

\* A share that its sender knows has its file, and only such a one is written
\* to or finished.
GivenOK ==
  /\ \A k \in Keys : drop[k].given => drop[k].files
  /\ \A p \in Procs : req[p].pc \in UploadSteps => drop[req[p].k].given

RowsOK == PrivateOK /\ InsertedOK /\ DirOK /\ RemovedOK /\ GivenOK

\* Whatever the row ids: Sweep starts no upload and its clock is not ahead, a
\* file has an id, and DeleteBySession has a session in hand.
AlwaysOK ==
  /\ req[Sweeper].pc \notin StartSteps
  /\ At(Sweeper, "sweep_list") => req[Sweeper].at <= now
  /\ \A k \in Keys : drop[k].files => drop[k].fid # 0
  /\ \A p \in Procs : At(p, "sdel_read") =>
       req[p].t \in Tokens /\ sess[req[p].t].key # Nobody

SInv == /\ AlwaysOK
        /\ RowIdsUnique => RowsOK

\* A row id names one share.
LEMMA OneRow ==
  ASSUME IInv, RowIdsUnique, NEW j \in Keys, NEW k \in Keys,
         drop[j].status # "none", IsRow(k, drop[j].id)
  PROVE  k = j
  BY DEF IInv, EmptyOK, RowIdsUnique, IsRow

-----------------------------------------------------------------------------
(***************************************************************************)
(* Most steps: one process moves on to a step other than StartUpload's.    *)
(***************************************************************************)

\* What the moving process may have in hand next.
MayHave(p) ==
  /\ req'[p].pc \notin StartSteps
  /\ RowIdsUnique /\ req'[p].pc \in UploadSteps => drop[req'[p].k].given
  /\ req'[p].pc = "del_row" => req'[p].k \notin dir'
  /\ req'[p].pc = "sdel_read" =>
       req'[p].t \in Tokens /\ sess[req'[p].t].key # Nobody
  /\ p = Sweeper /\ req'[p].pc = "sweep_list" => req'[p].at <= now
  /\ RowIdsUnique => \A q \in Procs, k \in Keys : q # p /\ Starts(q, k) => req'[p].k # k

\* What any such step leaves of a record: it may be published, deleted, written
\* to and completed.
Frame(k) == /\ SameDates(k) /\ SameGiven(k)
            /\ drop'[k].fid = drop[k].fid /\ drop'[k].files = drop[k].files

\* A row goes only after its directory, and not while it is being started.
FateOK(p) ==
  \A k \in Keys :
    /\ k \in dir' /\ HasRow(k) => HasRow(k)'
    /\ \A q \in Procs : q # p /\ Starts(q, k) => drop'[k].status = drop[k].status

\* A step of that kind keeps the invariant.
LEMMA SStep ==
  ASSUME IInv, IInv', SInv, NEW p \in Procs, Alone(p), MayHave(p),
         \A k \in Keys : Frame(k),
         RowIdsUnique /\ RowsOK => FateOK(p),
         dir' \subseteq dir, reap' \subseteq reap, now' = now,
         \A t \in Tokens : sess'[t].key = sess[t].key
  PROVE  SInv'
<1> USE DEF Frame, SameDates, SameGiven
<1>1. RowIdsUnique' = RowIdsUnique /\ FileIdsUnique' = FileIdsUnique
  BY DEF RowIdsUnique, FileIdsUnique
<1>2. AlwaysOK'
  BY ProcsFacts DEF SInv, AlwaysOK, At, Alone, MayHave
<1>0. \A q \in Procs, k \in Keys : Starts(q, k)' => q # p /\ Starts(q, k)
  BY DEF Starts, Alone, MayHave
<1>3. ASSUME RowIdsUnique, RowsOK
      PROVE  RowsOK'
  <2>1. FateOK(p)
    BY <1>3
  <2>2. PrivateOK'
    BY <1>0, <1>3 DEF RowsOK, PrivateOK, Alone, MayHave
  <2>3. InsertedOK'
    BY <1>0, <1>3, <2>1 DEF RowsOK, InsertedOK, UploadEnded, Alone, At, FateOK
  <2>4. DirOK'
    BY <1>3, <2>1 DEF RowsOK, DirOK, IInv, TypeOK, FateOK
  <2>5. RemovedOK'
    BY <1>3 DEF RowsOK, RemovedOK, At, Alone, MayHave
  <2>6. GivenOK'
    <3>1. \A k \in Keys : drop'[k].given => drop'[k].files
      BY <1>3 DEF RowsOK, GivenOK
    <3>2. ASSUME NEW q \in Procs, req'[q].pc \in UploadSteps
          PROVE  drop'[req'[q].k].given
      <4>1. req'[q].k \in Keys
        BY <3>2 DEF IInv, HoldOK, HoldingSteps, UploadSteps
      <4>2. drop[req'[q].k].given
        BY <1>3, <3>2 DEF RowsOK, GivenOK, Alone, MayHave
      <4> QED
        BY <4>1, <4>2
    <3> QED
      BY <3>1, <3>2 DEF GivenOK
  <2> QED
    BY <2>2, <2>3, <2>4, <2>5, <2>6 DEF RowsOK
<1> QED
  BY <1>1, <1>2, <1>3 DEF SInv

\* Everything but the counters and the bytes stays.
Mild(k) == SameFate(k) /\ SameDates(k) /\ SameFile(k) /\ SameGiven(k)

\* The steps that touch neither rows nor files.
LEMMA SMove ==
  ASSUME IInv, IInv', SInv, NEW p \in Procs, Alone(p), MayHave(p),
         \A k \in Keys : Mild(k),
         dir' \subseteq dir, reap' \subseteq reap, now' = now,
         \A t \in Tokens : sess'[t].key = sess[t].key
  PROVE  SInv'
<1>1. \A k \in Keys : Frame(k)
  BY DEF Mild, Frame, SameFile
<1>2. FateOK(p)
  BY DEF Mild, FateOK, SameFate, HasRow
<1> QED
  BY <1>1, <1>2, SStep

\* A share that StartUpload still has to itself is not in anybody's reach.
LEMMA Private ==
  ASSUME SInv, RowIdsUnique, NEW q \in Procs, NEW k \in Keys, Starts(q, k)
  PROVE  /\ ~drop[k].given /\ k \notin reap
         /\ \A p \in Procs : p # q => req[p].k # k
         /\ \A t \in Tokens : sess[t].key # k
  BY DEF SInv, RowsOK, PrivateOK

\* A process that goes on with the share it has.
LEMMA SGoto ==
  ASSUME IInv, IInv', SInv, NEW p \in Procs, NEW step, Goto(p, step),
         step \notin StartSteps, step \notin {"sdel_read", "sweep_list"},
         RowIdsUnique /\ step \in UploadSteps => drop[req[p].k].given,
         step = "del_row" => req[p].k \notin dir',
         \A k \in Keys : Mild(k),
         dir' \subseteq dir, reap' \subseteq reap, now' = now,
         \A t \in Tokens : sess'[t].key = sess[t].key
  PROVE  SInv'
<1>1. /\ Alone(p)
      /\ req'[p].pc = step /\ req'[p].k = req[p].k
      /\ req'[p].t = req[p].t /\ req'[p].at = req[p].at
  BY Went
<1>2. RowIdsUnique => \A q \in Procs, k \in Keys : q # p /\ Starts(q, k) => req'[p].k # k
  BY <1>1, Private
<1>3. MayHave(p)
  BY <1>1, <1>2 DEF MayHave
<1> QED
  BY <1>1, <1>3, SMove

\* A service call that returns.
LEMMA SFinish ==
  ASSUME IInv, IInv', SInv, NEW p \in Procs, Finish(p),
         \A k \in Keys : Mild(k),
         dir' \subseteq dir, reap' \subseteq reap, now' = now,
         \A t \in Tokens : sess'[t].key = sess[t].key
  PROVE  SInv'
<1>1. /\ Alone(p)
      /\ req'[p].pc \in {"sweep_next", "idle"} /\ req'[p].k = Nobody
  BY Finished
<1>2. MayHave(p)
  BY <1>1, NobodyAssumption DEF MayHave, StartSteps, UploadSteps
<1> QED
  BY <1>1, <1>2, SMove

\* A call that begins with a share that nobody is starting.
LEMMA SBegin ==
  ASSUME IInv, IInv', SInv, NEW p \in Procs, NEW step, NEW k \in Keys, Begin(p, step, k),
         step \notin StartSteps, step \notin {"del_row", "sdel_read", "sweep_list"},
         step \in UploadSteps => drop[k].given,
         RowIdsUnique => \A q \in Procs : q # p => ~Starts(q, k),
         UNCHANGED <<drop, dir, sess, now>>, reap' \subseteq reap
  PROVE  SInv'
<1>1. Alone(p) /\ req'[p].pc = step /\ req'[p].k = k
  BY Began
<1>2. MayHave(p)
  BY <1>1 DEF MayHave
<1>3. \A j \in Keys : Mild(j)
  BY DEF Mild, SameFate, SameDates, SameFile, SameGiven
<1> QED
  BY <1>1, <1>2, <1>3, SMove

\* No process moves.
LEMMA SStill ==
  ASSUME IInv, IInv', SInv, UNCHANGED <<drop, dir, sess, req, reap, now>>
  PROVE  SInv'
<1>2. AlwaysOK' = AlwaysOK
  BY DEF AlwaysOK, At
<1>3. RowIdsUnique' = RowIdsUnique /\ FileIdsUnique' = FileIdsUnique
  BY DEF RowIdsUnique, FileIdsUnique
<1>4. PrivateOK' = PrivateOK
  BY DEF PrivateOK, Starts
<1>5. InsertedOK' = InsertedOK
  BY DEF InsertedOK, Starts, At, UploadEnded
<1>6. DirOK' = DirOK /\ RemovedOK' = RemovedOK /\ GivenOK' = GivenOK
  BY DEF DirOK, RemovedOK, GivenOK, HasRow, At
<1> QED
  BY <1>2, <1>3, <1>4, <1>5, <1>6 DEF SInv, RowsOK

-----------------------------------------------------------------------------
(***************************************************************************)
(* StartUpload.                                                            *)
(***************************************************************************)

\* Nobody knows the key that is drawn.
LEMMA StartValidateS ==
  ASSUME IInv, IInv', SInv, NEW h \in Handlers, NEW k \in Keys, StartValidate(h, k)
  PROVE  SInv'
<1>1. h \in Procs /\ h # Sweeper
  BY ProcsFacts
<1>2. /\ drop[k].status = "none" /\ \A p \in Procs : req[p].k # k
      /\ UNCHANGED <<now, drop, dir, sess, reap>>
      /\ Begin(h, "start_create", k)
  BY DEF StartValidate, stored
<1>3. Alone(h) /\ req'[h].pc = "start_create" /\ req'[h].k = k
  BY <1>1, <1>2, Began
<1>4. /\ ~drop[k].given /\ k \notin reap /\ k \notin {sess[t].key : t \in Tokens}
  BY <1>2, NobodyAssumption DEF IInv, EmptyOK, NoDrop, ReapOK, SessOK
<1>5. AlwaysOK'
  BY <1>1, <1>2, <1>3, ProcsFacts DEF SInv, AlwaysOK, At, Alone
<1>6. RowIdsUnique' = RowIdsUnique /\ FileIdsUnique' = FileIdsUnique
  BY <1>2 DEF RowIdsUnique, FileIdsUnique
<1>7. ASSUME RowsOK
      PROVE  RowsOK'
  <2>1. \A p \in Procs, j \in Keys : Starts(p, j)' <=> (p = h /\ j = k) \/ (p # h /\ Starts(p, j))
    BY <1>3 DEF Starts, Alone, StartSteps
  <2>2. PrivateOK'
    BY <1>2, <1>3, <1>4, <1>7, <2>1 DEF RowsOK, PrivateOK, Alone, Starts
  <2>3. InsertedOK'
    BY <1>2, <1>3, <1>7, <2>1 DEF RowsOK, InsertedOK, UploadEnded, At, Alone
  <2>4. DirOK' /\ RemovedOK' /\ GivenOK'
    BY <1>2, <1>3, <1>7 DEF RowsOK, DirOK, RemovedOK, GivenOK, HasRow, At, Alone, UploadSteps
  <2> QED
    BY <2>2, <2>3, <2>4 DEF RowsOK
<1> QED
  BY <1>5, <1>6, <1>7 DEF SInv

\* The row is inserted, pending and young.
LEMMA StartCreateS ==
  ASSUME IInv, IInv', SInv, NEW h \in Handlers, StartCreate(h)
  PROVE  SInv'
<1> DEFINE k == req[h].k
<1>1. h \in Procs /\ h # Sweeper
  BY ProcsFacts
<1>2. /\ k \in Keys
      /\ \A j \in Keys : j # k => drop'[j] = drop[j]
      /\ drop[k] = NoDrop
      /\ drop'[k].status = "pending" /\ drop'[k].id \in Nat \ {0}
      /\ drop'[k].createdAt = now /\ drop'[k].expiresAt = now + Retention
      /\ drop'[k].fid = 0
      /\ ~drop'[k].files /\ ~drop'[k].given
  BY Created
<1>3. /\ At(h, "start_create") /\ UNCHANGED <<now, dir, sess, reap>>
      /\ Goto(h, "start_files")
  BY DEF StartCreate
<1>4. Alone(h) /\ req'[h].pc = "start_files" /\ req'[h].k = k
  BY <1>1, <1>3, Went
<1>5. /\ NoDrop.id = 0 /\ NoDrop.fid = 0 /\ ~NoDrop.given /\ ~NoDrop.files
      /\ NoDrop.status = "none"
  BY DEF NoDrop
<1>6. RowIdsUnique' => RowIdsUnique
  <2> SUFFICES ASSUME RowIdsUnique', NEW i \in Keys, NEW j \in Keys, i # j,
                      drop[i].id = drop[j].id
               PROVE  drop[i].id = 0
    BY DEF RowIdsUnique
  <2>1. CASE i = k \/ j = k
    BY <1>2, <1>5, <2>1
  <2>2. CASE i # k /\ j # k
    BY <1>2, <2>2 DEF RowIdsUnique
  <2> QED
    BY <2>1, <2>2
<1>8. AlwaysOK'
  <2>1. \A j \in Keys : drop'[j].files => drop'[j].fid # 0
    BY <1>2 DEF SInv, AlwaysOK
  <2> QED
    BY <1>1, <1>3, <1>4, <2>1, ProcsFacts DEF SInv, AlwaysOK, At, Alone
<1>9. ASSUME RowIdsUnique, RowsOK
      PROVE  RowsOK'
  <2>0. Starts(h, k)
    BY <1>3 DEF Starts, At, StartSteps
  <2>1. \A p \in Procs, j \in Keys : Starts(p, j)' => Starts(p, j) /\ (p = h <=> j = k)
    <3>1. \A p \in Procs : p # h => req[p].k # k
      BY <1>1, <1>2, <1>9, <2>0 DEF RowsOK, PrivateOK
    <3> QED
      BY <1>3, <1>4, <3>1 DEF Starts, Alone, StartSteps, At
  <2>2. PrivateOK'
    <3> SUFFICES ASSUME NEW p \in Procs, NEW j \in Keys, Starts(p, j)'
                 PROVE  /\ ~drop'[j].given /\ j \notin reap'
                        /\ \A q \in Procs : q # p => req'[q].k # j
                        /\ \A t \in Tokens : sess'[t].key # j
      BY DEF PrivateOK
    <3>1. /\ Starts(p, j) /\ ~drop[j].given /\ j \notin reap
          /\ \A q \in Procs : q # p => req[q].k # j
          /\ \A t \in Tokens : sess[t].key # j
      BY <1>9, <2>1 DEF RowsOK, PrivateOK
    <3>2. \A q \in Procs : req'[q].k = req[q].k
      BY <1>4 DEF Alone
    <3> QED
      BY <1>2, <1>3, <3>1, <3>2
  <2>3. InsertedOK'
    <3> SUFFICES ASSUME NEW p \in Procs, NEW j \in Keys, Starts(p, j)', ~At(p, "start_create")'
                 PROVE  /\ drop'[j].status = "pending"
                        /\ ~UploadEnded(j, now)'
                        /\ now' < drop'[j].expiresAt
                        /\ At(p, "start_files")' => drop'[j].fid = 0
                        /\ ~At(p, "start_files")' => drop'[j].files
      BY DEF InsertedOK
    <3>1. CASE p = h
      <4>1. j = k
        BY <2>1, <3>1
      <4>2. now \in Nat
        BY DEF IInv, TypeOK
      <4>3. ~UploadEnded(j, now)' /\ now' < drop'[j].expiresAt
        BY <1>2, <1>3, <4>1, <4>2, BoundsAssumption DEF UploadEnded
      <4> QED
        BY <1>2, <1>4, <3>1, <4>1, <4>3 DEF At
    <3>2. CASE p # h
      <4>1. j # k /\ Starts(p, j) /\ req'[p] = req[p]
        BY <1>4, <2>1, <3>2 DEF Alone
      <4> QED
        BY <1>2, <1>3, <1>9, <4>1 DEF RowsOK, InsertedOK, At, UploadEnded
    <3> QED
      BY <3>1, <3>2
  <2>4. DirOK'
    BY <1>2, <1>3, <1>9 DEF RowsOK, DirOK, HasRow, IInv, TypeOK
  <2>5. RemovedOK'
    BY <1>3, <1>4, <1>9 DEF RowsOK, RemovedOK, At, Alone
  <2>6. GivenOK'
    <3>1. \A j \in Keys : drop'[j].given => drop'[j].files
      BY <1>2, <1>9 DEF RowsOK, GivenOK
    <3>2. ASSUME NEW q \in Procs, req'[q].pc \in UploadSteps
          PROVE  drop'[req'[q].k].given
      <4>1. q # h /\ req'[q] = req[q]
        BY <1>4, <3>2 DEF Alone, UploadSteps
      <4>2. drop[req[q].k].given /\ req[q].k \in Keys
        BY <1>9, <3>2, <4>1 DEF RowsOK, GivenOK, IInv, HoldOK, HoldingSteps, UploadSteps
      <4>3. req[q].k # k
        BY <1>2, <1>5, <4>2
      <4> QED
        BY <1>2, <4>1, <4>2, <4>3
    <3> QED
      BY <3>1, <3>2 DEF GivenOK
  <2> QED
    BY <2>2, <2>3, <2>4, <2>5, <2>6 DEF RowsOK
<1> QED
  BY <1>6, <1>8, <1>9 DEF SInv

\* The share's only file is added to its row.
LEMMA StartFilesS ==
  ASSUME IInv, IInv', SInv, NEW h \in Handlers, StartFiles(h)
  PROVE  SInv'
<1> DEFINE k == req[h].k
<1>1. h \in Procs /\ h # Sweeper
  BY ProcsFacts
<1>2. /\ At(h, "start_files") /\ UNCHANGED <<now, dir, sess, reap>>
      /\ k \in Keys /\ drop[k].status # "none"
  BY <1>1 DEF StartFiles, IInv, HoldOK, HoldingSteps, At
<1>3. CASE Finish(h) /\ UNCHANGED drop
  <2>1. \A j \in Keys : Mild(j)
    BY <1>3 DEF Mild, SameFate, SameDates, SameFile, SameGiven
  <2> QED
    BY <1>1, <1>2, <1>3, <2>1, SFinish
<1>4. CASE Goto(h, "start_dir")
  <2>1. Alone(h) /\ req'[h].pc = "start_dir" /\ req'[h].k = k
    BY <1>1, <1>4, Went
  <2>2. \A j \in Keys :
          /\ SameFate(j) /\ SameDates(j) /\ SameGiven(j) /\ SameBlob(j)
          /\ ~IsRow(j, RowId(h)) => SameFile(j)
          /\ IsRow(j, RowId(h)) =>
               drop'[j].files /\ drop'[j].fid \in Nat \ {0}
    BY FilesAdded
  <2>3. RowIdsUnique' = RowIdsUnique
    BY <2>2 DEF RowIdsUnique, SameDates
  <2>4. \A j \in Keys : drop'[j].files => drop'[j].fid # 0
    BY <2>2 DEF SInv, AlwaysOK, SameFile
  <2>5. AlwaysOK'
    BY <1>1, <1>2, <2>1, <2>4, ProcsFacts DEF SInv, AlwaysOK, At, Alone
  <2>6. Starts(h, k)
    BY <1>2 DEF Starts, At, StartSteps
  <2>7. ASSUME RowIdsUnique, RowsOK
        PROVE  /\ drop[k].status = "pending" /\ drop[k].fid = 0
               /\ \A j \in Keys : j # k => SameFile(j)
               /\ drop'[k].files
               /\ \A p \in Procs : p # h => req[p].k # k
               /\ \A p \in Procs, j \in Keys : Starts(p, j)' => Starts(p, j) /\ (p = h <=> j = k)
    <3>1. drop[k].status = "pending" /\ drop[k].fid = 0
      BY <1>1, <1>2, <2>6, <2>7 DEF RowsOK, InsertedOK, At
    <3>2. IsRow(k, RowId(h))
      BY <3>1 DEF IsRow, HasRow, RowId
    <3>3. \A j \in Keys : IsRow(j, RowId(h)) => j = k
      BY <1>2, <2>7, OneRow DEF RowId
    <3>4. \A p \in Procs : p # h => req[p].k # k
      BY <1>1, <1>2, <2>6, <2>7 DEF RowsOK, PrivateOK
    <3>5. \A p \in Procs, j \in Keys : Starts(p, j)' => Starts(p, j) /\ (p = h <=> j = k)
      BY <1>2, <2>1, <3>4 DEF Starts, Alone, StartSteps, At
    <3> QED
      BY <1>2, <2>2, <3>1, <3>2, <3>3, <3>4, <3>5
  <2>9. ASSUME RowIdsUnique, RowsOK
        PROVE  RowsOK'
    <3>1. PrivateOK'
      <4>1. \A q \in Procs : req'[q].k = req[q].k
        BY <2>1 DEF Alone
      <4> QED
        BY <1>2, <2>2, <2>7, <2>9, <4>1 DEF RowsOK, PrivateOK, SameGiven
    <3>2. InsertedOK'
      <4> SUFFICES ASSUME NEW p \in Procs, NEW j \in Keys, Starts(p, j)',
                          ~At(p, "start_create")'
                   PROVE  /\ drop'[j].status = "pending"
                          /\ ~UploadEnded(j, now)'
                          /\ now' < drop'[j].expiresAt
                          /\ At(p, "start_files")' => drop'[j].fid = 0
                          /\ ~At(p, "start_files")' => drop'[j].files
        BY DEF InsertedOK
      <4>1. Starts(p, j) /\ ~At(p, "start_create") /\ (p = h <=> j = k)
        BY <1>2, <2>1, <2>7, <2>9 DEF At, Alone
      <4>2. /\ drop[j].status = "pending" /\ ~UploadEnded(j, now)
            /\ now < drop[j].expiresAt
            /\ At(p, "start_files") => drop[j].fid = 0
            /\ ~At(p, "start_files") => drop[j].files
        BY <2>9, <4>1 DEF RowsOK, InsertedOK
      <4>3. drop'[j].status = "pending" /\ ~UploadEnded(j, now)' /\ now' < drop'[j].expiresAt
        BY <1>2, <2>2, <4>2 DEF SameFate, SameDates, UploadEnded
      <4>4. CASE p = h
        BY <2>1, <2>7, <2>9, <4>1, <4>3, <4>4 DEF At
      <4>5. CASE p # h
        BY <2>1, <2>7, <2>9, <4>1, <4>2, <4>3, <4>5 DEF At, Alone, SameFile
      <4> QED
        BY <4>4, <4>5
    <3>3. DirOK'
      BY <1>2, <2>2, <2>9 DEF RowsOK, DirOK, HasRow, IInv, TypeOK, SameFate
    <3>4. RemovedOK'
      BY <1>2, <2>1, <2>9 DEF RowsOK, RemovedOK, At, Alone
    <3>5. GivenOK'
      <4>1. \A j \in Keys : drop'[j].given => drop'[j].files
        BY <2>2, <2>9 DEF RowsOK, GivenOK, SameGiven, SameFile
      <4>2. \A q \in Procs : req'[q].pc \in UploadSteps =>
                               drop'[req'[q].k].given
        BY <2>1, <2>2, <2>9 DEF RowsOK, GivenOK, Alone, SameGiven, IInv, HoldOK, HoldingSteps,
           UploadSteps
      <4> QED
        BY <4>1, <4>2 DEF GivenOK
    <3> QED
      BY <3>1, <3>2, <3>3, <3>4, <3>5 DEF RowsOK
  <2> QED
    BY <2>3, <2>5, <2>9 DEF SInv
<1> QED
  BY <1>3, <1>4 DEF StartFiles

\* The directory is made while the row cannot be deleted.
LEMMA StartDirS ==
  ASSUME IInv, IInv', SInv, NEW h \in Handlers, StartDir(h)
  PROVE  SInv'
<1> DEFINE k == req[h].k
<1>1. h \in Procs /\ h # Sweeper
  BY ProcsFacts
<1>2. /\ At(h, "start_dir") /\ UNCHANGED <<now, drop, sess, reap>>
      /\ dir' = dir \cup {k} /\ Goto(h, "start_session")
      /\ k \in Keys
  BY <1>1 DEF StartDir, IInv, HoldOK, HoldingSteps, At
<1>3. Alone(h) /\ req'[h].pc = "start_session" /\ req'[h].k = k
  BY <1>1, <1>2, Went
<1>4. Starts(h, k)
  BY <1>2 DEF Starts, At, StartSteps
<1>5. \A p \in Procs, j \in Keys : Starts(p, j)' => Starts(p, j)
  BY <1>2, <1>3, <1>4 DEF Starts, Alone
<1>6. RowIdsUnique' = RowIdsUnique /\ FileIdsUnique' = FileIdsUnique
  BY <1>2 DEF RowIdsUnique, FileIdsUnique
<1>7. AlwaysOK'
  BY <1>1, <1>2, <1>3, ProcsFacts DEF SInv, AlwaysOK, At, Alone
<1>8. ASSUME RowIdsUnique, RowsOK
      PROVE  \A p \in Procs : p # h => req[p].k # k
  BY <1>1, <1>2, <1>4, <1>8 DEF RowsOK, PrivateOK
<1>9. ASSUME RowIdsUnique, RowsOK
      PROVE  RowsOK'
  <2>1. PrivateOK'
    <3>1. \A q \in Procs : req'[q].k = req[q].k
      BY <1>3 DEF Alone
    <3> QED
      BY <1>2, <1>5, <1>9, <3>1 DEF RowsOK, PrivateOK
  <2>2. InsertedOK'
    <3>1. \A p \in Procs : /\ At(p, "start_create")' = At(p, "start_create")
                           /\ p # h => At(p, "start_files")' = At(p, "start_files")
                           /\ At(h, "start_files")' = At(h, "start_files")
      BY <1>1, <1>2, <1>3 DEF At, Alone
    <3> QED
      BY <1>2, <1>5, <1>9, <3>1 DEF RowsOK, InsertedOK, UploadEnded
  <2>3. DirOK'
    <3>1. HasRow(k)
      BY <1>1, <1>2, <1>4, <1>9 DEF RowsOK, InsertedOK, At, HasRow
    <3> QED
      BY <1>2, <1>9, <3>1 DEF RowsOK, DirOK, HasRow
  <2>4. RemovedOK'
    BY <1>2, <1>3, <1>8, <1>9 DEF RowsOK, RemovedOK, At, Alone
  <2>5. GivenOK'
    BY <1>2, <1>3, <1>9 DEF RowsOK, GivenOK, Alone, UploadSteps
  <2> QED
    BY <2>1, <2>2, <2>3, <2>4, <2>5 DEF RowsOK
<1> QED
  BY <1>6, <1>7, <1>9 DEF SInv

\* The client is told of a share that has its file.
LEMMA StartSessionS ==
  ASSUME IInv, IInv', SInv, NEW h \in Handlers, StartSession(h)
  PROVE  SInv'
<1> DEFINE k == req[h].k
<1>1. h \in Procs /\ h # Sweeper
  BY ProcsFacts
<1>2. /\ At(h, "start_session") /\ UNCHANGED <<now, dir, sess, reap>> /\ Finish(h)
      /\ k \in Keys
  BY <1>1 DEF StartSession, IInv, HoldOK, HoldingSteps, At
<1>3. Alone(h) /\ req'[h].pc = "idle" /\ req'[h].k = Nobody
  BY <1>1, <1>2, Finished
<1>4. Starts(h, k)
  BY <1>2 DEF Starts, At, StartSteps
<1>5. \A j \in Keys : /\ SameFate(j) /\ SameDates(j) /\ SameFile(j) /\ SameBlob(j)
                      /\ j # k => SameGiven(j)
  BY SessionCreated
<1>6. RowIdsUnique' = RowIdsUnique /\ FileIdsUnique' = FileIdsUnique
  BY <1>5 DEF RowIdsUnique, FileIdsUnique, SameDates, SameFile
<1>7. AlwaysOK'
  BY <1>1, <1>2, <1>3, <1>5, ProcsFacts DEF SInv, AlwaysOK, At, Alone, SameFile
<1>8. \A p \in Procs, j \in Keys : Starts(p, j)' => p # h /\ Starts(p, j)
  BY <1>3 DEF Starts, Alone, StartSteps
<1>9. ASSUME RowIdsUnique, RowsOK
      PROVE  RowsOK'
  <2>1. \A p \in Procs : p # h => req[p].k # k
    BY <1>1, <1>2, <1>4, <1>9 DEF RowsOK, PrivateOK
  <2>2. \A p \in Procs, j \in Keys : Starts(p, j)' => j # k
    BY <1>8, <2>1 DEF Starts
  <2>3. PrivateOK'
    BY <1>2, <1>3, <1>5, <1>8, <1>9, <2>2, NobodyAssumption
       DEF RowsOK, PrivateOK, Alone, SameGiven
  <2>4. InsertedOK'
    BY <1>2, <1>3, <1>5, <1>8, <1>9
       DEF RowsOK, InsertedOK, Alone, At, UploadEnded, SameFate, SameDates, SameFile
  <2>5. DirOK'
    BY <1>2, <1>5, <1>9 DEF RowsOK, DirOK, HasRow, IInv, TypeOK, SameFate
  <2>6. RemovedOK'
    BY <1>2, <1>3, <1>9 DEF RowsOK, RemovedOK, At, Alone
  <2>7. GivenOK'
    <3>1. drop[k].files
      BY <1>1, <1>2, <1>4, <1>9 DEF RowsOK, InsertedOK, At
    <3>2. \A j \in Keys : drop'[j].given => drop'[j].files
      BY <1>5, <1>9, <3>1 DEF RowsOK, GivenOK, SameGiven, SameFile
    <3>3. ASSUME NEW q \in Procs, req'[q].pc \in UploadSteps
          PROVE  drop'[req'[q].k].given
      <4>1. q # h /\ req'[q] = req[q]
        BY <1>3, <3>3 DEF Alone, UploadSteps
      <4>2. req[q].k \in Keys /\ drop[req[q].k].given /\ req[q].k # k
        BY <1>9, <2>1, <3>3, <4>1 DEF RowsOK, GivenOK, IInv, HoldOK, HoldingSteps, UploadSteps
      <4> QED
        BY <1>5, <4>1, <4>2 DEF SameGiven
    <3> QED
      BY <3>2, <3>3 DEF GivenOK
  <2> QED
    BY <2>3, <2>4, <2>5, <2>6, <2>7 DEF RowsOK
<1> QED
  BY <1>6, <1>7, <1>9 DEF SInv

-----------------------------------------------------------------------------
(***************************************************************************)
(* The statements that address a row by its id.                            *)
(***************************************************************************)

\* SetReceived completes the file whose bytes the request has written.
LEMMA WriteSetS ==
  ASSUME IInv, IInv', SInv, NEW h \in Handlers, WriteSet(h)
  PROVE  SInv'
<1> DEFINE k == req[h].k
<1>1. h \in Procs
  BY ProcsFacts
<1>2. /\ At(h, "write_blob") /\ UNCHANGED <<now, dir, sess, reap>> /\ Finish(h)
      /\ k \in Keys
  BY <1>1 DEF WriteSet, IInv, HoldOK, HoldingSteps, At
<1>3. Alone(h) /\ req'[h].pc \in {"idle", "sweep_next"} /\ req'[h].k = Nobody
  BY <1>1, <1>2, Finished
<1>4. MayHave(h)
  BY <1>3, NobodyAssumption DEF MayHave, StartSteps, UploadSteps
<1>5. \A j \in Keys :
        /\ SameFate(j) /\ SameDates(j) /\ SameGiven(j) /\ SameBlob(j)
        /\ drop'[j].fid = drop[j].fid /\ drop'[j].files = drop[j].files
  BY ReceivedSet
<1>6. \A j \in Keys : Frame(j)
  BY <1>5 DEF Frame, SameBlob
<1>7. FateOK(h)
  BY <1>5 DEF FateOK, SameFate, HasRow
<1> QED
  BY <1>1, <1>2, <1>3, <1>4, <1>6, <1>7, SStep

\* Finalize publishes the share whose upload the request has resolved.
LEMMA FinalizeS ==
  ASSUME IInv, IInv', SInv, NEW h \in Handlers, Finalize(h)
  PROVE  SInv'
<1> DEFINE k == req[h].k
<1>1. h \in Procs
  BY ProcsFacts
<1>2. /\ At(h, "finish_tx") /\ UNCHANGED <<now, dir, sess, reap>> /\ Finish(h)
      /\ k \in Keys /\ drop[k].status # "none"
  BY <1>1 DEF Finalize, IInv, HoldOK, HoldingSteps, At
<1>3. Alone(h) /\ req'[h].pc \in {"idle", "sweep_next"} /\ req'[h].k = Nobody
  BY <1>1, <1>2, Finished
<1>4. MayHave(h)
  BY <1>3, NobodyAssumption DEF MayHave, StartSteps, UploadSteps
<1>5. \A j \in Keys :
        /\ SameDates(j) /\ SameFile(j) /\ SameGiven(j) /\ SameBlob(j)
        /\ \/ SameFate(j)
           \/ /\ IsRow(j, RowId(h)) /\ (drop[j].files => drop[j].received >= Parts)
              /\ drop'[j].status = "ready"
  BY Finalized
<1>6. \A j \in Keys : Frame(j)
  BY <1>5 DEF Frame, SameBlob, SameFile
<1>7. ASSUME RowIdsUnique, RowsOK
      PROVE  /\ drop[k].given /\ drop[k].files
             /\ \A j \in Keys : SameFate(j) \/ j = k
             /\ \A q \in Procs : ~Starts(q, k)
  <2>1. drop[k].given /\ drop[k].files
    BY <1>1, <1>2, <1>7 DEF RowsOK, GivenOK, At, UploadSteps
  <2>2. \A j \in Keys : SameFate(j) \/ j = k
    BY <1>2, <1>5, <1>7, OneRow DEF RowId
  <2>3. \A q \in Procs : ~Starts(q, k)
    BY <1>2, <1>7, <2>1 DEF RowsOK, PrivateOK
  <2> QED
    BY <2>1, <2>2, <2>3
<1>8. ASSUME RowIdsUnique, RowsOK
      PROVE  FateOK(h)
  <2>1. \A j \in Keys : HasRow(j) => HasRow(j)'
    BY <1>5 DEF HasRow, SameFate
  <2> QED
    BY <1>7, <1>8, <2>1 DEF FateOK, SameFate
<1> QED
  BY <1>1, <1>2, <1>3, <1>4, <1>6, <1>8, SStep

\* DeleteDrop deletes the row whose directory it has removed.
LEMMA DeleteRowS ==
  ASSUME IInv, IInv', SInv, NEW p \in Procs, DeleteRow(p)
  PROVE  SInv'
<1> DEFINE k == req[p].k
<1>2. /\ At(p, "del_row") /\ UNCHANGED <<now, dir, sess, reap>> /\ Finish(p)
      /\ k \in Keys /\ drop[k].status # "none"
  BY DEF DeleteRow, IInv, HoldOK, HoldingSteps, At
<1>3. Alone(p) /\ req'[p].pc \in {"idle", "sweep_next"} /\ req'[p].k = Nobody
  BY <1>2, Finished
<1>4. MayHave(p)
  BY <1>3, NobodyAssumption DEF MayHave, StartSteps, UploadSteps
<1>5. \A j \in Keys :
        /\ SameDates(j) /\ SameFile(j) /\ SameGiven(j) /\ SameBlob(j)
        /\ \/ ~IsRow(j, RowId(p)) /\ drop'[j].status = drop[j].status
           \/ IsRow(j, RowId(p)) /\ drop'[j].status = "gone"
  BY RowDeleted
<1>6. \A j \in Keys : Frame(j)
  BY <1>5 DEF Frame, SameBlob, SameFile
<1>7. ASSUME RowIdsUnique, RowsOK
      PROVE  FateOK(p)
  <2>1. \A j \in Keys : j # k => drop'[j].status = drop[j].status
    BY <1>2, <1>5, <1>7, OneRow DEF RowId
  <2>2. k \notin dir'
    BY <1>2, <1>7 DEF RowsOK, RemovedOK
  <2>3. \A q \in Procs : q # p => ~Starts(q, k)
    <3> SUFFICES ASSUME NEW q \in Procs, q # p, Starts(q, k)
                 PROVE  FALSE
      OBVIOUS
    <3> QED
      BY <1>2, <1>7 DEF RowsOK, PrivateOK
  <2> QED
    BY <2>1, <2>2, <2>3 DEF FateOK, HasRow
<1> QED
  BY <1>2, <1>3, <1>4, <1>6, <1>7, SStep

-----------------------------------------------------------------------------
(***************************************************************************)
(* The other steps that change more than one process.                      *)
(***************************************************************************)

\* Unlock makes a session of the share it has in hand.
LEMMA UnlockPutS ==
  ASSUME IInv, IInv', SInv, NEW h \in Handlers, NEW t \in Tokens, UnlockPut(h, t)
  PROVE  SInv'
<1> DEFINE k == req[h].k
<1>1. h \in Procs /\ h # Sweeper
  BY ProcsFacts
<1>2. /\ At(h, "unlock_put") /\ UNCHANGED <<now, drop, dir, reap>> /\ Finish(h)
      /\ k \in Keys
  BY <1>1 DEF UnlockPut, IInv, HoldOK, HoldingSteps, At, stored
<1>3. Alone(h) /\ req'[h].pc = "idle" /\ req'[h].k = Nobody
  BY <1>1, <1>2, Finished
<1>4. /\ sess'[t].key = k
      /\ \A u \in Tokens : u # t => sess'[u] = sess[u]
  BY DEF UnlockPut, NoSession, IInv, TypeOK
<1>5. \A p \in Procs, j \in Keys : Starts(p, j)' => p # h /\ Starts(p, j)
  BY <1>3 DEF Starts, Alone, StartSteps
<1>6. RowIdsUnique' = RowIdsUnique /\ FileIdsUnique' = FileIdsUnique
  BY <1>2 DEF RowIdsUnique, FileIdsUnique
<1>7. AlwaysOK'
  <2>1. k # Nobody
    BY <1>2, NobodyAssumption
  <2> QED
    BY <1>1, <1>2, <1>3, <1>4, <2>1, ProcsFacts DEF SInv, AlwaysOK, At, Alone
<1>8. ASSUME RowsOK
      PROVE  RowsOK'
  <2>1. PrivateOK'
    <3> SUFFICES ASSUME NEW p \in Procs, NEW j \in Keys, Starts(p, j)'
                 PROVE  /\ ~drop'[j].given /\ j \notin reap'
                        /\ \A q \in Procs : q # p => req'[q].k # j
                        /\ \A u \in Tokens : sess'[u].key # j
      BY DEF PrivateOK
    <3>1. /\ p # h /\ ~drop[j].given /\ j \notin reap
          /\ \A q \in Procs : q # p => req[q].k # j
          /\ \A u \in Tokens : sess[u].key # j
      BY <1>5, <1>8 DEF RowsOK, PrivateOK
    <3>2. j # k
      BY <1>1, <3>1
    <3>3. \A q \in Procs : q # p => req'[q].k # j
      BY <1>3, <3>1, NobodyAssumption DEF Alone
    <3> QED
      BY <1>2, <1>4, <3>1, <3>2, <3>3
  <2>2. InsertedOK'
    BY <1>2, <1>3, <1>5, <1>8 DEF RowsOK, InsertedOK, Alone, At, UploadEnded
  <2>3. DirOK' /\ RemovedOK' /\ GivenOK'
    BY <1>2, <1>3, <1>8 DEF RowsOK, DirOK, RemovedOK, GivenOK, HasRow, At, Alone, UploadSteps
  <2> QED
    BY <2>1, <2>2, <2>3 DEF RowsOK
<1> QED
  BY <1>6, <1>7, <1>8 DEF SInv

\* Sweep does not list a share that is being started: it is too young.
LEMMA SweepListS ==
  ASSUME IInv, IInv', SInv, SweepList
  PROVE  SInv'
<1>1. Sweeper \in Procs
  BY ProcsFacts
<1>2. /\ At(Sweeper, "sweep_list") /\ UNCHANGED <<now, drop, dir, sess>> /\ Finish(Sweeper)
      /\ reap' = Reapable(req[Sweeper].at)
  BY DEF SweepList, stored
<1>3. Alone(Sweeper) /\ req'[Sweeper].pc = "sweep_next" /\ req'[Sweeper].k = Nobody
  BY <1>1, <1>2, Finished
<1>4. \A p \in Procs, j \in Keys : Starts(p, j)' => p # Sweeper /\ Starts(p, j)
  BY <1>3 DEF Starts, Alone, StartSteps
<1>5. RowIdsUnique' = RowIdsUnique /\ FileIdsUnique' = FileIdsUnique
  BY <1>2 DEF RowIdsUnique, FileIdsUnique
<1>6. AlwaysOK'
  BY <1>2, <1>3 DEF SInv, AlwaysOK, At, Alone, StartSteps
<1>7. req[Sweeper].at <= now /\ req[Sweeper].at \in Nat /\ now \in Nat
  BY <1>1, <1>2 DEF SInv, AlwaysOK, IInv, TypeOK, Request
<1>8. ASSUME RowsOK
      PROVE  RowsOK'
  <2>1. ASSUME NEW p \in Procs, NEW j \in Keys, Starts(p, j)
        PROVE  j \notin Reapable(req[Sweeper].at)
    <3>1. drop[j] \in Drop
      BY DEF IInv, TypeOK
    <3>2. CASE At(p, "start_create")
      <4>1. drop[j].status = "none"
        BY <2>1, <3>2 DEF IInv, FreshOK, Starts
      <4> QED
        BY <4>1 DEF Reapable, HasRow
    <3>3. CASE ~At(p, "start_create")
      <4>1. drop[j].status = "pending" /\ ~UploadEnded(j, now) /\ now < drop[j].expiresAt
        BY <1>8, <2>1, <3>3 DEF RowsOK, InsertedOK
      <4>2. drop[j].expiresAt \in Nat /\ drop[j].createdAt + UploadTTL \in Nat
        BY <3>1, BoundsAssumption DEF Drop
      <4>3. ~UploadEnded(j, req[Sweeper].at) /\ ~(drop[j].expiresAt <= req[Sweeper].at)
        BY <1>7, <4>1, <4>2 DEF UploadEnded
      <4> QED
        BY <4>1, <4>3 DEF Reapable
    <3> QED
      BY <3>2, <3>3
  <2>2. PrivateOK'
    <3>1. \A p \in Procs, j \in Keys : Starts(p, j) => j \notin reap'
      BY <1>2, <2>1
    <3>2. \A q \in Procs, j \in Keys : req[q].k # j => req'[q].k # j
      BY <1>3, NobodyAssumption DEF Alone
    <3> QED
      BY <1>2, <1>4, <1>8, <3>1, <3>2 DEF RowsOK, PrivateOK
  <2>3. InsertedOK'
    BY <1>2, <1>3, <1>4, <1>8 DEF RowsOK, InsertedOK, Alone, At, UploadEnded
  <2>4. DirOK' /\ RemovedOK' /\ GivenOK'
    BY <1>2, <1>3, <1>8 DEF RowsOK, DirOK, RemovedOK, GivenOK, HasRow, At, Alone, UploadSteps
  <2> QED
    BY <2>2, <2>3, <2>4 DEF RowsOK
<1> QED
  BY <1>5, <1>6, <1>8 DEF SInv

\* A restart leaves the rows and the disk, and nobody in the middle of anything.
LEMMA RestartS ==
  ASSUME IInv, IInv', SInv, Restart
  PROVE  SInv'
<1>1. /\ UNCHANGED <<now, drop, dir, sess>>
      /\ \A p \in Procs : req'[p].pc = "idle"
  BY DEF Restart, stored, Idle
<1>2. \A p \in Procs, j \in Keys : ~Starts(p, j)'
  BY <1>1 DEF Starts, StartSteps
<1>3. RowIdsUnique' = RowIdsUnique /\ FileIdsUnique' = FileIdsUnique
  BY <1>1 DEF RowIdsUnique, FileIdsUnique
<1>4. AlwaysOK'
  BY <1>1, ProcsFacts DEF SInv, AlwaysOK, At, StartSteps
<1>5. RowsOK => RowsOK'
  BY <1>1, <1>2 DEF RowsOK, PrivateOK, InsertedOK, DirOK, RemovedOK, GivenOK, HasRow, At,
     UploadSteps
<1> QED
  BY <1>3, <1>4, <1>5 DEF SInv

\* Time passes, and no StartUpload outlives the young age of its share.
LEMMA TickS ==
  ASSUME IInv, IInv', SInv, Tick
  PROVE  SInv'
<1>1. /\ UNCHANGED <<drop, dir, sess, req, reap>> /\ now' = now + 1 /\ StartsInTime
  BY DEF Tick, stored
<1>2. now \in Nat /\ req[Sweeper].at \in Nat
  BY ProcsFacts DEF IInv, TypeOK, Request
<1>3. RowIdsUnique' = RowIdsUnique /\ FileIdsUnique' = FileIdsUnique
  BY <1>1 DEF RowIdsUnique, FileIdsUnique
<1>4. AlwaysOK'
  BY <1>1, <1>2 DEF SInv, AlwaysOK, At
<1>5. ASSUME RowsOK
      PROVE  RowsOK'
  <2>1. PrivateOK'
    BY <1>1, <1>5 DEF RowsOK, PrivateOK, Starts
  <2>2. InsertedOK'
    <3> SUFFICES ASSUME NEW p \in Procs, NEW k \in Keys, Starts(p, k)', ~At(p, "start_create")'
                 PROVE  /\ drop'[k].status = "pending"
                        /\ ~UploadEnded(k, now)'
                        /\ now' < drop'[k].expiresAt
                        /\ At(p, "start_files")' => drop'[k].fid = 0
                        /\ ~At(p, "start_files")' => drop'[k].files
      BY DEF InsertedOK
    <3>1. Starts(p, k) /\ ~At(p, "start_create")
      BY <1>1 DEF Starts, At
    <3>2. /\ drop[k].status = "pending"
          /\ At(p, "start_files") => drop[k].fid = 0
          /\ ~At(p, "start_files") => drop[k].files
      BY <1>5, <3>1 DEF RowsOK, InsertedOK
    <3>3. p \in Handlers
      <4>1. p = Sweeper => FALSE
        BY <3>1 DEF SInv, AlwaysOK, Starts
      <4> QED
        BY <4>1 DEF Procs
    <3>4. now + 1 < drop[k].createdAt + UploadTTL /\ now + 1 < drop[k].expiresAt
      BY <1>1, <3>1, <3>3 DEF StartsInTime, Starts, StartSteps, At
    <3>5. drop[k] \in Drop /\ drop[k].createdAt + UploadTTL \in Nat
      BY BoundsAssumption DEF IInv, TypeOK, Drop
    <3> QED
      BY <1>1, <1>2, <3>2, <3>4, <3>5 DEF UploadEnded, At
  <2>3. DirOK' /\ RemovedOK' /\ GivenOK'
    BY <1>1, <1>5 DEF RowsOK, DirOK, RemovedOK, GivenOK, HasRow, At
  <2> QED
    BY <2>1, <2>2, <2>3 DEF RowsOK
<1> QED
  BY <1>3, <1>4, <1>5 DEF SInv

-----------------------------------------------------------------------------
(***************************************************************************)
(* The steps that touch neither rows nor files.                            *)
(***************************************************************************)

\* Records that stay as they are.
LEMMA AllMild ==
  ASSUME drop' = drop
  PROVE  \A k \in Keys : Mild(k)
  BY DEF Mild, SameFate, SameDates, SameFile, SameGiven

\* DeleteDrop, whoever calls it.
LEMMA DeleteS ==
  ASSUME IInv, IInv', SInv, NEW p \in Procs, Delete(p)
  PROVE  SInv'
<1>1. CASE DeleteCut(p)
  <2>1. Goto(p, "del_blobs") /\ UNCHANGED <<now, drop, dir, sess, reap>>
    BY <1>1 DEF DeleteCut, stored
  <2> QED
    BY <2>1, AllMild, SGoto DEF StartSteps, UploadSteps
<1>2. CASE DeleteBlobs(p)
  <2>1. /\ Goto(p, "del_row") /\ UNCHANGED <<now, drop, sess, reap>>
        /\ dir' = dir \ {req[p].k}
    BY <1>2 DEF DeleteBlobs
  <2> QED
    BY <2>1, AllMild, SGoto DEF StartSteps, UploadSteps
<1>3. CASE DeleteBlobsFails(p)
  <2>1. Finish(p) /\ UNCHANGED <<now, drop, dir, sess, reap>>
    BY <1>3 DEF DeleteBlobsFails, stored
  <2> QED
    BY <2>1, AllMild, SFinish
<1> QED
  BY <1>1, <1>2, <1>3, DeleteRowS DEF Delete

\* The steps of Sweep.
LEMMA SweepS ==
  ASSUME IInv, IInv', SInv, Sweep
  PROVE  SInv'
<1>1. Sweeper \in Procs
  BY ProcsFacts
<1>2. CASE SweepSessions
  <2>1. /\ req' = [req EXCEPT ![Sweeper] = [Idle EXCEPT !.pc = "sweep_list", !.at = now]]
        /\ UNCHANGED <<now, drop, dir, sess, reap>>
    BY <1>2 DEF SweepSessions, stored
  <2>2. /\ Alone(Sweeper) /\ req'[Sweeper].pc = "sweep_list"
        /\ req'[Sweeper].k = Nobody /\ req'[Sweeper].at = now
    BY <1>1, <2>1 DEF Alone, Idle, IInv, TypeOK
  <2>3. now <= now
    BY DEF IInv, TypeOK
  <2>4. MayHave(Sweeper)
    BY <2>2, <2>3, NobodyAssumption DEF MayHave, StartSteps, UploadSteps
  <2> QED
    BY <1>1, <2>1, <2>2, <2>4, AllMild, SMove
<1>3. CASE SweepNext
  <2>1. UNCHANGED <<now, drop, dir, sess>>
    BY <1>3 DEF SweepNext, stored
  <2>2. ASSUME NEW k \in reap, reap' = reap \ {k}, Begin(Sweeper, "del_cut", k)
        PROVE  SInv'
    <3>1. k \in Keys /\ reap' \subseteq reap
      BY <2>2 DEF IInv, TypeOK
    <3>2. RowIdsUnique => \A q \in Procs : q # Sweeper => ~Starts(q, k)
      BY <3>1, Private
    <3> QED
      BY <1>1, <2>1, <2>2, <3>1, <3>2, SBegin DEF StartSteps, UploadSteps
  <2>3. CASE reap' = reap /\ req' = [req EXCEPT ![Sweeper] = Idle]
    <3>1. Alone(Sweeper) /\ req'[Sweeper].pc = "idle" /\ req'[Sweeper].k = Nobody
      BY <1>1, <2>3 DEF Alone, Idle, IInv, TypeOK
    <3>2. MayHave(Sweeper)
      BY <3>1, NobodyAssumption DEF MayHave, StartSteps, UploadSteps
    <3> QED
      BY <1>1, <2>1, <2>3, <3>1, <3>2, AllMild, SMove
  <2> QED
    BY <1>3, <2>2, <2>3 DEF SweepNext
<1> QED
  BY <1>1, <1>2, <1>3, SweepListS, DeleteS DEF Sweep

\* Requests that arrive.
LEMMA AcceptS ==
  ASSUME IInv, IInv', SInv, NEW h \in Handlers, Accept(h)
  PROVE  SInv'
<1>1. h \in Procs /\ h # Sweeper
  BY ProcsFacts
<1>2. ASSUME NEW k \in Keys, drop[k].given
      PROVE  RowIdsUnique => \A q \in Procs : q # h => ~Starts(q, k)
  BY <1>2, Private
<1>3. ASSUME NEW k \in Keys, WriteResolve(h, k) \/ FinishResolve(h, k) \/ CancelResolve(h, k)
      PROVE  SInv'
  <2>1. PICK step \in {"write_file", "finish_tx", "cancel_check"} :
          Begin(h, step, k) /\ drop[k].given /\ UNCHANGED <<now, drop, dir, sess, reap>>
    BY <1>3 DEF WriteResolve, FinishResolve, CancelResolve, ResolveSession, stored
  <2> QED
    BY <1>1, <1>2, <2>1, SBegin DEF StartSteps
<1>4. ASSUME NEW k \in Keys, ManageDelete(h, k) \/ UnlockRead(h, k)
      PROVE  SInv'
  <2>1. PICK step \in {"del_cut", "unlock_files"} :
          Begin(h, step, k) /\ drop[k].given /\ UNCHANGED <<now, drop, dir, sess, reap>>
    BY <1>4 DEF ManageDelete, UnlockRead, stored
  <2> QED
    BY <1>1, <1>2, <2>1, SBegin DEF StartSteps
<1>5. ASSUME NEW k \in Keys, ReportLookup(h, k)
      PROVE  SInv'
  <2>1. drop[k].given /\ UNCHANGED <<now, drop, dir, sess, reap>>
    BY <1>5 DEF ReportLookup
  <2>2. CASE Begin(h, "rep_block", k)
    BY <1>1, <1>2, <2>1, <2>2, SBegin DEF StartSteps
  <2>3. CASE UNCHANGED req
    BY <2>1, <2>3, SStill
  <2> QED
    BY <1>5, <2>2, <2>3 DEF ReportLookup
<1>6. ASSUME NEW t \in Tokens, OpenGet(h, t)
      PROVE  SInv'
  <2>1. /\ req' = [req EXCEPT ![h] = [Idle EXCEPT !.pc = "open_claim",
                                                 !.k = sess[t].key, !.t = t,
                                                 !.late = sess[t].key \in cutOff]]
        /\ UNCHANGED <<now, drop, dir, sess, reap>>
    BY <1>6 DEF OpenGet, stored
  <2>2. Alone(h) /\ req'[h].pc = "open_claim" /\ req'[h].k = sess[t].key
    BY <1>1, <2>1 DEF Alone, Idle, IInv, TypeOK
  <2>3. RowIdsUnique => \A q \in Procs, k \in Keys : q # h /\ Starts(q, k) => req'[h].k # k
    BY <2>2, Private
  <2>4. MayHave(h)
    BY <2>2, <2>3 DEF MayHave, StartSteps, UploadSteps
  <2> QED
    BY <1>1, <2>1, <2>2, <2>4, AllMild, SMove
<1>7. ASSUME NEW t \in Tokens, GetExpired(h, t) \/ Lock(h, t)
      PROVE  SInv'
  BY <1>7, SStill DEF GetExpired, Lock, stored
<1>8. ASSUME NEW t \in Tokens, SessionDelete(h, t)
      PROVE  SInv'
  <2>1. /\ req' = [req EXCEPT ![h] = [Idle EXCEPT !.pc = "sdel_read", !.t = t]]
        /\ t \in down
        /\ UNCHANGED <<now, drop, dir, sess, reap>>
    BY <1>8 DEF SessionDelete, stored
  <2>2. /\ Alone(h) /\ req'[h].pc = "sdel_read" /\ req'[h].k = Nobody /\ req'[h].t = t
    BY <1>1, <2>1 DEF Alone, Idle, IInv, TypeOK
  <2>3. sess[t].key # Nobody
    BY <2>1 DEF IInv, SessOK
  <2>4. MayHave(h)
    BY <2>2, <2>3, NobodyAssumption DEF MayHave, StartSteps, UploadSteps
  <2> QED
    BY <1>1, <2>1, <2>2, <2>4, AllMild, SMove
<1> QED
  BY <1>3, <1>4, <1>5, <1>6, <1>7, <1>8, StartValidateS DEF Accept

\* Requests that have been accepted.
LEMMA ProceedS ==
  ASSUME IInv, IInv', SInv, NEW h \in Handlers, Proceed(h)
  PROVE  SInv'
<1>1. h \in Procs /\ h # Sweeper
  BY ProcsFacts
<1>2. CASE WriteFile(h) \/ WriteOpen(h) \/ WriteBlob(h) \/ WriteRollback(h)
  <2>1. /\ \A k \in Keys : Mild(k)
        /\ \E r \in Request : StillWrites(h, r)
        /\ UNCHANGED <<now, dir, sess, reap>>
    BY <1>2, BlobTouched DEF Mild
  <2>2. PICK r \in Request : StillWrites(h, r)
    BY <2>1
  <2>3. Alone(h) /\ req'[h] = r
    BY <1>1, <2>2 DEF StillWrites, Alone, IInv, TypeOK
  <2>4. req[h].pc \in {"write_file", "write_open", "write_blob"}
    BY <1>2 DEF WriteFile, WriteOpen, WriteBlob, WriteRollback, At
  <2>5. req[h].k \in Keys /\ drop[req[h].k].status # "none"
    BY <1>1, <2>4 DEF IInv, HoldOK, HoldingSteps
  <2>6. MayHave(h)
    <3>1. CASE r.pc \in {"idle", "sweep_next"}
      <4>1. r.k = Nobody
        BY <2>2, <3>1 DEF StillWrites
      <4> QED
        BY <2>3, <3>1, <4>1, NobodyAssumption DEF MayHave, StartSteps, UploadSteps
    <3>2. CASE r.pc \in {"write_open", "write_blob"}
      <4>1. r.k \in Keys /\ drop[r.k].status # "none" /\ drop[r.k].id = RowId(h)
        BY <2>2, <3>2 DEF StillWrites
      <4>2. RowIdsUnique => r.k = req[h].k
        BY <2>5, <4>1 DEF RowId, RowIdsUnique, IInv, EmptyOK
      <4>3. RowIdsUnique => drop[req[h].k].given
        BY <1>1, <2>4 DEF SInv, RowsOK, GivenOK, UploadSteps
      <4>4. RowIdsUnique => \A q \in Procs, k \in Keys : q # h /\ Starts(q, k) => r.k # k
        BY <1>1, <4>2, Private
      <4> QED
        BY <2>3, <3>2, <4>2, <4>3, <4>4 DEF MayHave, StartSteps
    <3> QED
      BY <2>2, <3>1, <3>2 DEF StillWrites
  <2> QED
    BY <1>1, <2>1, <2>3, <2>6, SMove
<1>3. CASE CancelCheck(h)
  <2>1. UNCHANGED <<now, drop, dir, sess, reap>> /\ At(h, "cancel_check")
    BY <1>3 DEF CancelCheck, stored
  <2>2. req[h].k \in Keys /\ drop[req[h].k].status # "none"
    BY <1>1, <2>1 DEF IInv, HoldOK, HoldingSteps, At
  <2>3. ASSUME NEW k \in Keys, IsRow(k, RowId(h)), Begin(h, "del_cut", k)
        PROVE  SInv'
    <3>1. RowIdsUnique => k = req[h].k
      BY <2>2, <2>3, OneRow DEF RowId
    <3>2. RowIdsUnique => \A q \in Procs : q # h => ~Starts(q, k)
      BY <1>1, <3>1, Private
    <3> QED
      BY <1>1, <2>1, <2>3, <3>2, SBegin DEF StartSteps, UploadSteps
  <2>4. CASE Finish(h)
    BY <1>1, <2>1, <2>4, AllMild, SFinish
  <2> QED
    BY <1>3, <2>3, <2>4 DEF CancelCheck
<1>4. CASE UnlockFiles(h) \/ OpenRow(h) \/ OpenBlob(h) \/ ServeEnd(h)
  <2>1. UNCHANGED <<now, drop, dir, sess, reap>>
    BY <1>4 DEF UnlockFiles, OpenRow, OpenBlob, ServeEnd, stored
  <2>2. \/ Finish(h)
        \/ \E step \in {"unlock_put", "open_blob", "serving"} : Goto(h, step)
    BY <1>4 DEF UnlockFiles, OpenRow, OpenBlob, ServeEnd
  <2>3. CASE Finish(h)
    BY <1>1, <2>1, <2>3, AllMild, SFinish
  <2>4. ASSUME NEW step \in {"unlock_put", "open_blob", "serving"}, Goto(h, step)
        PROVE  SInv'
    BY <1>1, <2>1, <2>4, AllMild, SGoto DEF StartSteps, UploadSteps
  <2> QED
    BY <2>2, <2>3, <2>4
<1>5. CASE OpenClaim(h) \/ OpenClaimed(h)
  <2>1. /\ UNCHANGED <<now, dir, reap>>
        /\ \/ Finish(h)
           \/ \E step \in {"open_row", "open_claimed"} : Goto(h, step)
    BY <1>5 DEF OpenClaim, OpenClaimed, stored
  <2>2. \A t \in Tokens : sess'[t].key = sess[t].key
    <3>1. \/ sess' = sess
          \/ sess' = [sess EXCEPT ![req[h].t].charged = TRUE]
          \/ sess' = [sess EXCEPT ![req[h].t].claimed = TRUE]
      BY <1>5 DEF OpenClaim, OpenClaimed
    <3>2. \A t \in Tokens : sess[t] \in Session
      BY DEF IInv, TypeOK
    <3> QED
      BY <3>1, <3>2 DEF IInv, TypeOK, Session
  <2>3. \A k \in Keys : Mild(k)
    <3>1. CASE OpenClaim(h)
      BY <3>1, ClaimCounted DEF Mild, SameBlob
    <3>2. CASE OpenClaimed(h)
      BY <3>2, AllMild DEF OpenClaimed, stored
    <3> QED
      BY <1>5, <3>1, <3>2
  <2>4. CASE Finish(h)
    BY <1>1, <2>1, <2>2, <2>3, <2>4, SFinish
  <2>5. ASSUME NEW step \in {"open_row", "open_claimed"}, Goto(h, step)
        PROVE  SInv'
    BY <1>1, <2>1, <2>2, <2>3, <2>5, SGoto DEF StartSteps, UploadSteps
  <2> QED
    BY <2>1, <2>4, <2>5
<1>6. CASE ReportBlock(h) \/ ReportCut(h) \/ ReportRecord(h)
  <2>1. /\ UNCHANGED <<now, dir, sess, reap>>
        /\ \/ Finish(h)
           \/ \E step \in {"rep_cut", "rep_record"} : Goto(h, step)
    BY <1>6 DEF ReportBlock, ReportCut, ReportRecord, stored
  <2>2. \A k \in Keys : Mild(k)
    <3>1. CASE ReportBlock(h)
      BY <3>1, Blocked DEF Mild, SameRecord, SameBlob
    <3>2. CASE ReportCut(h) \/ ReportRecord(h)
      BY <3>2, AllMild DEF ReportCut, ReportRecord, stored
    <3> QED
      BY <1>6, <3>1, <3>2
  <2>3. CASE Finish(h)
    BY <1>1, <2>1, <2>2, <2>3, SFinish
  <2>4. ASSUME NEW step \in {"rep_cut", "rep_record"}, Goto(h, step)
        PROVE  SInv'
    BY <1>1, <2>1, <2>2, <2>4, SGoto DEF StartSteps, UploadSteps
  <2> QED
    BY <2>1, <2>3, <2>4
<1>7. CASE SessionDeleteRead(h)
  <2>1. UNCHANGED <<now, drop, dir, sess, reap>> /\ At(h, "sdel_read")
    BY <1>7 DEF SessionDeleteRead, stored
  <2>2. req[h].t \in Tokens /\ sess[req[h].t].key # Nobody
    BY <1>1, <2>1 DEF SInv, AlwaysOK
  <2>3. ASSUME NEW k \in Keys, IsRow(k, sess[req[h].t].id),
               req' = [req EXCEPT ![h].pc = "del_cut", ![h].k = k]
        PROVE  SInv'
    <3>1. Alone(h) /\ req'[h].pc = "del_cut" /\ req'[h].k = k
      <4>1. req \in [Procs -> Request] /\ req[h] \in Request
        BY <1>1 DEF IInv, TypeOK
      <4> QED
        BY <1>1, <2>3, <4>1 DEF Alone, Request
    <3>2. RowIdsUnique => k = sess[req[h].t].key
      <4>1. /\ sess[req[h].t].key \in Keys
            /\ sess[req[h].t].id = drop[sess[req[h].t].key].id
            /\ drop[sess[req[h].t].key].status # "none"
        BY <2>2 DEF IInv, SessOK
      <4> QED
        BY <2>3, <4>1, OneRow
    <3>3. RowIdsUnique => \A q \in Procs, j \in Keys : q # h /\ Starts(q, j) => req'[h].k # j
      BY <2>2, <3>1, <3>2, Private
    <3>4. MayHave(h)
      BY <3>1, <3>3 DEF MayHave, StartSteps, UploadSteps
    <3> QED
      BY <1>1, <2>1, <3>1, <3>4, AllMild, SMove
  <2>4. CASE Finish(h)
    BY <1>1, <2>1, <2>4, AllMild, SFinish
  <2> QED
    BY <1>7, <2>3, <2>4 DEF SessionDeleteRead
<1> QED
  BY <1>1, <1>2, <1>3, <1>4, <1>5, <1>6, <1>7, StartCreateS, StartFilesS, StartDirS,
     StartSessionS, WriteSetS, FinalizeS, UnlockPutS, DeleteS
     DEF Proceed

\* The first state, and every step.
LEMMA InitS == Init => SInv
<1> SUFFICES ASSUME Init PROVE SInv
  OBVIOUS
<1>1. /\ \A p \in Procs : req[p].pc = "idle"
      /\ \A k \in Keys : /\ ~drop[k].files /\ ~drop[k].given
                         /\ drop[k].status = "none"
      /\ dir = {}
  BY DEF Init, Idle, NoDrop
<1>2. AlwaysOK
  BY <1>1, ProcsFacts DEF AlwaysOK, At, StartSteps
<1>3. \A p \in Procs, k \in Keys : ~Starts(p, k)
  BY <1>1 DEF Starts, StartSteps
<1>4. RowsOK
  BY <1>1, <1>3 DEF RowsOK, PrivateOK, InsertedOK, DirOK, RemovedOK, GivenOK, At, UploadSteps
<1> QED
  BY <1>2, <1>4 DEF SInv

\* Every step keeps the invariant.
LEMMA NextS == IInv /\ IInv' /\ SInv /\ [Next]_vars => SInv'
<1> SUFFICES ASSUME IInv, IInv', SInv, [Next]_vars PROVE SInv'
  OBVIOUS
<1>1. CASE UNCHANGED vars
  BY <1>1, SStill DEF vars
<1>2. ASSUME NEW h \in Handlers, Disconnect(h)
      PROVE  SInv'
  <2>1. Finish(h) /\ UNCHANGED <<now, drop, dir, sess, reap>>
    BY <1>2 DEF Disconnect, stored
  <2> QED
    BY <2>1, AllMild, SFinish, ProcsFacts
<1> QED
  BY <1>1, <1>2, AcceptS, ProceedS, SweepS, RestartS, TickS DEF Next

\* The invariant of the rows and the disk.
THEOREM StorageInvariance == Spec => []SInv
<1>1. IInv /\ IInv' /\ SInv /\ [Next]_vars => SInv'
  BY NextS
<1> QED
  BY <1>1, InitS, Invariance, PTL DEF Spec

\* No directory is ever left without a row, for any number of shares, requests
\* and restarts: whatever fails or is killed half-way, Sweep will find it.
THEOREM NoOrphanedBlobs == Spec => []BlobsHaveRows
<1>1. SInv => BlobsHaveRows
  <2>1. IdsUnique => RowIdsUnique
    BY DEF IdsUnique, RowIdsUnique
  <2> QED
    BY <2>1 DEF SInv, RowsOK, DirOK, BlobsHaveRows
<1> QED
  BY <1>1, StorageInvariance, PTL
-----------------------------------------------------------------------------
(***************************************************************************)
(* The bytes of a share.  While the parts of a file arrive one at a time,  *)
(* the writer knows what the row has received and the blob holds what the  *)
(* writer thinks it does.                                                  *)
(***************************************************************************)

\* Process p has looked up k's file and has not yet recorded what it wrote.
WritingSteps == {"write_open", "write_blob"}
Writes(p, k) == req[p].pc \in WritingSteps /\ req[p].k = k

WriterOK(p, k) ==
  /\ req[p].off = drop[k].received /\ req[p].off < Parts
  /\ At(p, "write_open") => req[p].len = 0
  /\ At(p, "write_blob") => /\ req[p].off + req[p].len <= Parts
                            /\ k \in dir => drop[k].onDisk = req[p].off + req[p].len

CalmOK(k) ==
  /\ drop[k].status = "ready" => drop[k].received >= Parts
  /\ drop[k].received >= Parts /\ k \in dir => drop[k].onDisk >= Parts
  /\ \A p, q \in Procs : Writes(p, k) /\ Writes(q, k) => p = q
  /\ \A p \in Procs : Writes(p, k) => WriterOK(p, k)

KeyOK(k) == /\ ~drop[k].given => drop[k].received = 0
            /\ ~drop[k].crowded => CalmOK(k)

BytesOK == \A k \in Keys : KeyOK(k)

BInv == IdsUnique => BytesOK

\* The row ids and the file ids.
LEMMA IdsSplit == /\ IdsUnique <=> RowIdsUnique /\ FileIdsUnique
                  /\ IdsUnique' <=> RowIdsUnique' /\ FileIdsUnique'
  BY DEF IdsUnique, RowIdsUnique, FileIdsUnique

\* What a step that is not WriteParts' leaves of the bytes of k.
BytesSpared(k) ==
  /\ drop'[k].received = drop[k].received
  /\ SameBlob(k)
  /\ drop[k].given => drop'[k].given
  /\ drop'[k].status = "ready" => drop[k].status = "ready" \/ drop[k].received >= Parts
  /\ k \in dir' => \/ k \in dir
                   \/ drop[k].received < Parts /\ \A q \in Procs : ~Writes(q, k)

\* Such a step keeps what is known of k.
LEMMA KeySpared ==
  ASSUME IInv, NEW p \in Procs, Alone(p), NEW k \in Keys, KeyOK(k),
         BytesSpared(k), ~Writes(p, k)'
  PROVE  KeyOK(k)'
<1>1. ASSUME ~drop'[k].crowded PROVE CalmOK(k)'
  <2>1. CalmOK(k)
    BY <1>1 DEF KeyOK, BytesSpared, SameBlob
  <2>2. ASSUME NEW q \in Procs, Writes(q, k)'
        PROVE  req'[q] = req[q] /\ Writes(q, k)
    BY <2>2 DEF Writes, Alone
  <2>3. ASSUME NEW q \in Procs, Writes(q, k)' PROVE WriterOK(q, k)'
    <3>1. WriterOK(q, k) /\ req'[q] = req[q] /\ Writes(q, k)
      BY <2>1, <2>2, <2>3 DEF CalmOK
    <3> QED
      BY <3>1 DEF WriterOK, At, BytesSpared, SameBlob
  <2>4. \A q, r \in Procs : Writes(q, k)' /\ Writes(r, k)' => q = r
    BY <2>1, <2>2 DEF CalmOK
  <2>5. drop[k].received \in Nat /\ Parts \in Nat
    BY BoundsAssumption DEF IInv, TypeOK, Drop
  <2>6. /\ drop'[k].status = "ready" => drop'[k].received >= Parts
        /\ drop'[k].received >= Parts /\ k \in dir' => drop'[k].onDisk >= Parts
    BY <2>1, <2>5 DEF CalmOK, BytesSpared, SameBlob
  <2> QED
    BY <2>3, <2>4, <2>6 DEF CalmOK
<1> QED
  BY <1>1 DEF KeyOK, BytesSpared

\* A step that keeps it of every share, each for one reason or the other.
LEMMA BKeys ==
  ASSUME IInv, BInv, NEW p \in Procs, Alone(p),
         IdsUnique' => IdsUnique,
         IdsUnique /\ BytesOK => \A k \in Keys : \/ KeyOK(k)'
                                                 \/ BytesSpared(k) /\ ~Writes(p, k)'
  PROVE  BInv'
<1> SUFFICES ASSUME IdsUnique, BytesOK, NEW k \in Keys PROVE KeyOK(k)'
  BY DEF BInv, BytesOK
<1>1. KeyOK(k)
  BY DEF BytesOK
<1> QED
  BY <1>1, KeySpared

\* A step of a process that is not writing afterwards.
LEMMA BStep ==
  ASSUME IInv, BInv, NEW p \in Procs, Alone(p), req'[p].pc \notin WritingSteps,
         IdsUnique' => IdsUnique,
         IdsUnique /\ BytesOK => \A k \in Keys : BytesSpared(k)
  PROVE  BInv'
<1>1. \A k \in Keys : ~Writes(p, k)'
  BY DEF Writes
<1> QED
  BY <1>1, BKeys

\* Ids that do not change.
SameIds(k) == drop'[k].id = drop[k].id /\ drop'[k].fid = drop[k].fid

LEMMA IdsKept ==
  ASSUME \A k \in Keys : SameIds(k)
  PROVE  IdsUnique' <=> IdsUnique
  BY DEF SameIds, IdsUnique

\* Records and directories that do not change.
LEMMA AllSpared ==
  ASSUME drop' = drop, dir' \subseteq dir
  PROVE  /\ \A k \in Keys : BytesSpared(k)
         /\ IdsUnique' <=> IdsUnique
<1>1. \A k \in Keys : SameIds(k)
  BY DEF SameIds
<1> QED
  BY <1>1, IdsKept DEF BytesSpared, SameBlob

\* A process that goes elsewhere while the rows stay as they are.
LEMMA BMove ==
  ASSUME IInv, BInv, NEW p \in Procs, drop' = drop, dir' \subseteq dir,
         \/ Finish(p)
         \/ \E step \in Steps \ WritingSteps :
              Goto(p, step) \/ \E k \in Keys : Begin(p, step, k)
  PROVE  BInv'
<1>1. Alone(p) /\ req'[p].pc \notin WritingSteps
  BY Finished, Went, Began DEF WritingSteps
<1> QED
  BY <1>1, AllSpared, BStep

\* No process moves.
LEMMA BStill ==
  ASSUME BInv, UNCHANGED <<drop, dir, req>>
  PROVE  BInv'
<1>1. IdsUnique' <=> IdsUnique
  BY DEF IdsUnique
<1>2. BytesOK' <=> BytesOK
  BY DEF BytesOK, KeyOK, CalmOK, WriterOK, Writes, At
<1> QED
  BY <1>1, <1>2 DEF BInv

-----------------------------------------------------------------------------
\* StartUpload: nobody writes to a share that its client does not know yet.
LEMMA StartB ==
  ASSUME IInv, SInv, BInv, NEW h \in Handlers,
         StartCreate(h) \/ StartFiles(h) \/ StartDir(h) \/ StartSession(h)
  PROVE  BInv'
<1> DEFINE k == req[h].k
<1>1. h \in Procs
  BY ProcsFacts
<1>2. Alone(h) /\ req'[h].pc \notin WritingSteps
  <2>1. \/ Finish(h)
        \/ \E step \in {"start_files", "start_dir", "start_session"} : Goto(h, step)
    BY DEF StartCreate, StartFiles, StartDir, StartSession
  <2>2. CASE Finish(h)
    BY <1>1, <2>2, Finished DEF WritingSteps
  <2>3. ASSUME NEW step \in {"start_files", "start_dir", "start_session"}, Goto(h, step)
        PROVE  Alone(h) /\ req'[h].pc \notin WritingSteps
    BY <1>1, <2>3, Went DEF WritingSteps
  <2> QED
    BY <2>1, <2>2, <2>3
<1>3. CASE StartCreate(h)
  <2>1. /\ k \in Keys
        /\ \A j \in Keys : j # k => drop'[j] = drop[j]
        /\ drop[k] = NoDrop
        /\ drop'[k].status = "pending" /\ drop'[k].fid = 0
        /\ drop'[k].received = 0 /\ drop'[k].onDisk = 0 /\ drop'[k].crowded = FALSE
        /\ dir' = dir
    BY <1>3, Created DEF StartCreate
  <2>2. /\ NoDrop.id = 0 /\ NoDrop.fid = 0 /\ ~NoDrop.given /\ NoDrop.received = 0
        /\ NoDrop.onDisk = 0 /\ NoDrop.crowded = FALSE
    BY DEF NoDrop
  <2>3. \A j \in Keys : BytesSpared(j)
    BY <2>1, <2>2 DEF BytesSpared, SameBlob
  <2>4. IdsUnique' => IdsUnique
    <3> SUFFICES ASSUME IdsUnique', NEW i \in Keys, NEW j \in Keys, i # j
                 PROVE  /\ drop[i].id = drop[j].id => drop[i].id = 0
                        /\ drop[i].fid = drop[j].fid => drop[i].fid = 0
      BY DEF IdsUnique
    <3>1. CASE i = k \/ j = k
      BY <2>1, <2>2, <3>1
    <3>2. CASE i # k /\ j # k
      BY <2>1, <3>2 DEF IdsUnique
    <3> QED
      BY <3>1, <3>2
  <2> QED
    BY <1>1, <1>2, <2>3, <2>4, BStep
<1>4. StartCreate(h) \/ (k \in Keys /\ drop[k].status # "none" /\ Starts(h, k))
  BY <1>1 DEF StartFiles, StartDir, StartSession, IInv, HoldOK, HoldingSteps, At,
     Starts, StartSteps
<1>5. ASSUME IdsUnique, ~StartCreate(h)
      PROVE  /\ ~drop[k].given
             /\ \A q \in Procs : q # h => req[q].k # k
  BY <1>1, <1>4, <1>5, Private, IdsSplit
<1>6. CASE StartFiles(h)
  <2>0. dir' = dir /\ ~StartCreate(h)
    BY <1>6 DEF StartFiles, StartCreate, At
  <2>1. \A j \in Keys :
          /\ SameFate(j) /\ SameDates(j) /\ SameGiven(j) /\ SameBlob(j)
          /\ ~IsRow(j, RowId(h)) => SameFile(j)
          /\ IsRow(j, RowId(h)) => drop'[j].received = 0
    BY <1>6, FilesAdded
  <2>2. ASSUME IdsUnique PROVE \A j \in Keys : IsRow(j, RowId(h)) => j = k
    BY <1>4, <2>0, <2>2, OneRow, IdsSplit DEF RowId
  <2>3. ASSUME IdsUnique, BytesOK, NEW j \in Keys PROVE BytesSpared(j)
    <3>1. drop'[j].received = drop[j].received
      BY <1>4, <1>5, <2>0, <2>1, <2>2, <2>3 DEF BytesOK, KeyOK, SameFile
    <3> QED
      BY <2>0, <2>1, <3>1 DEF BytesSpared, SameFate, SameGiven
  <2>4. IdsUnique' => IdsUnique
    <3> SUFFICES ASSUME IdsUnique' PROVE IdsUnique
      OBVIOUS
    <3>1. RowIdsUnique
      BY <2>1, IdsSplit DEF RowIdsUnique, SameDates
    <3>2. drop[k].fid = 0
      BY <1>1, <1>4, <1>6, <2>0, <3>1 DEF SInv, RowsOK, InsertedOK, StartFiles, At
    <3>3. \A j \in Keys : j # k => drop'[j].fid = drop[j].fid
      BY <1>4, <2>0, <2>1, <3>1, OneRow DEF RowId, SameFile
    <3>4. FileIdsUnique
      BY <3>2, <3>3, IdsSplit DEF FileIdsUnique
    <3> QED
      BY <3>1, <3>4, IdsSplit
  <2> QED
    BY <1>1, <1>2, <2>3, <2>4, BStep
<1>7. CASE StartDir(h)
  <2>0. dir' = dir \cup {k} /\ drop' = drop /\ ~StartCreate(h) /\ req[h].pc = "start_dir"
    BY <1>7 DEF StartDir, StartCreate, At
  <2>1. IdsUnique' <=> IdsUnique
    BY <2>0 DEF IdsUnique
  <2>2. ASSUME IdsUnique, BytesOK, NEW j \in Keys PROVE BytesSpared(j)
    <3>1. j = k => drop[j].received < Parts /\ \A q \in Procs : ~Writes(q, j)
      BY <1>4, <1>5, <2>0, <2>2, BoundsAssumption DEF BytesOK, KeyOK, Writes, WritingSteps
    <3> QED
      BY <2>0, <3>1 DEF BytesSpared, SameBlob
  <2> QED
    BY <1>1, <1>2, <2>1, <2>2, BStep
<1>8. CASE StartSession(h)
  <2>1. \A j \in Keys : /\ SameFate(j) /\ SameDates(j) /\ SameFile(j) /\ SameBlob(j)
                        /\ j # k => SameGiven(j)
    BY <1>8, SessionCreated
  <2>2. dir' = dir /\ ~StartCreate(h)
    BY <1>8 DEF StartSession, StartCreate, At
  <2>3. IdsUnique' <=> IdsUnique
    BY <2>1, IdsKept DEF SameIds, SameDates, SameFile
  <2>4. ASSUME IdsUnique, NEW j \in Keys PROVE BytesSpared(j)
    BY <1>5, <2>1, <2>2, <2>4 DEF BytesSpared, SameFate, SameFile, SameGiven
  <2> QED
    BY <1>1, <1>2, <2>3, <2>4, BStep
<1> QED
  BY <1>3, <1>6, <1>7, <1>8

\* Finalize publishes a share whose file has been received.
LEMMA FinalizeB ==
  ASSUME IInv, SInv, BInv, NEW h \in Handlers, Finalize(h)
  PROVE  BInv'
<1> DEFINE k == req[h].k
<1>1. h \in Procs
  BY ProcsFacts
<1>2. /\ At(h, "finish_tx") /\ dir' = dir /\ Finish(h)
      /\ k \in Keys /\ drop[k].status # "none"
  BY <1>1 DEF Finalize, IInv, HoldOK, HoldingSteps, At
<1>3. Alone(h) /\ req'[h].pc \notin WritingSteps
  BY <1>1, <1>2, Finished DEF WritingSteps
<1>4. \A j \in Keys :
        /\ SameDates(j) /\ SameFile(j) /\ SameGiven(j) /\ SameBlob(j)
        /\ \/ SameFate(j)
           \/ IsRow(j, RowId(h)) /\ (drop[j].files => drop[j].received >= Parts)
  BY Finalized
<1>5. IdsUnique' <=> IdsUnique
  BY <1>4, IdsKept DEF SameIds, SameDates, SameFile
<1>6. ASSUME IdsUnique, NEW j \in Keys PROVE BytesSpared(j)
  <2>1. drop[k].files
    BY <1>1, <1>2, <1>6, IdsSplit DEF SInv, RowsOK, GivenOK, At, UploadSteps
  <2>2. IsRow(j, RowId(h)) => j = k
    BY <1>2, <1>6, OneRow, IdsSplit DEF RowId
  <2> QED
    BY <1>2, <1>4, <2>1, <2>2 DEF BytesSpared, SameFate, SameFile, SameGiven
<1> QED
  BY <1>1, <1>3, <1>5, <1>6, BStep

-----------------------------------------------------------------------------
(***************************************************************************)
(* WriteParts.                                                             *)
(***************************************************************************)

\* A step of a WriteParts for c: whatever it does to c's bytes, it does nothing
\* to those of another share.
LEMMA BWrite ==
  ASSUME IInv, BInv, NEW h \in Handlers, Alone(h), NEW c \in Keys,
         \A k \in Keys : SameIds(k) /\ (k # c => BytesSpared(k) /\ ~Writes(h, k)'),
         IdsUnique /\ KeyOK(c) => KeyOK(c)'
  PROVE  BInv'
<1>1. h \in Procs
  BY ProcsFacts
<1>2. IdsUnique' <=> IdsUnique
  BY IdsKept
<1>3. IdsUnique /\ BytesOK => \A k \in Keys : \/ KeyOK(k)'
                                              \/ BytesSpared(k) /\ ~Writes(h, k)'
  BY DEF BytesOK
<1> QED
  BY <1>1, <1>2, <1>3, BKeys

\* What a WriteParts has in hand.
LEMMA Writer ==
  ASSUME IInv, SInv, NEW h \in Handlers,
         req[h].pc \in {"write_file", "write_open", "write_blob"}
  PROVE  /\ h \in Procs
         /\ req[h].k \in Keys
         /\ drop[req[h].k] \in Drop /\ drop[req[h].k].status # "none"
         /\ req[h].off \in Nat /\ req[h].len \in Nat
         /\ RowIdsUnique => drop[req[h].k].given /\ drop[req[h].k].files
         /\ drop[req[h].k].files => drop[req[h].k].fid # 0
         /\ \A k \in Keys : Writes(h, k) => k = req[h].k
<1>1. h \in Procs
  BY ProcsFacts
<1>2. req[h] \in Request /\ drop \in [Keys -> Drop]
  BY <1>1 DEF IInv, TypeOK
<1>3. req[h].k \in Keys /\ drop[req[h].k].status # "none"
  BY <1>1 DEF IInv, HoldOK, HoldingSteps
<1>4. RowIdsUnique => drop[req[h].k].given /\ drop[req[h].k].files
  BY <1>1, <1>3 DEF SInv, RowsOK, GivenOK, UploadSteps
<1>5. drop[req[h].k].files => drop[req[h].k].fid # 0
  BY <1>3 DEF SInv, AlwaysOK
<1> QED
  BY <1>1, <1>2, <1>3, <1>4, <1>5 DEF Request, Writes

\* FileByID.
LEMMA WriteFileB ==
  ASSUME IInv, SInv, BInv, NEW h \in Handlers, WriteFile(h)
  PROVE  BInv'
<1>1. At(h, "write_file") /\ dir' = dir
  BY DEF WriteFile
<1>2. h \in Procs
  BY <1>1, Writer DEF At
<1>3. CASE Finish(h) /\ drop' = drop
  BY <1>1, <1>2, <1>3, BMove
<1>4. ASSUME NEW k \in Keys, HasFile(k), drop[k].id = RowId(h), drop[k].received < Parts,
             req' = [req EXCEPT ![h] = [Idle EXCEPT !.pc = "write_open", !.k = k,
                                                    !.off = drop[k].received]],
             drop' = [drop EXCEPT ![k].crowded =
                         @ \/ Writing(k, {"write_open", "write_blob"})]
      PROVE  BInv'
  <2>1. /\ Alone(h)
        /\ req'[h].pc = "write_open" /\ req'[h].k = k
        /\ req'[h].off = drop[k].received /\ req'[h].len = 0
    BY <1>2, <1>4 DEF IInv, TypeOK, Alone, Idle
  <2>2. drop \in [Keys -> Drop] /\ drop[k] \in Drop
    BY DEF IInv, TypeOK
  <2>3. \A j \in Keys : j # k => drop'[j] = drop[j]
    BY <1>4, <2>2
  <2>4. /\ drop'[k].crowded = (drop[k].crowded \/ Writing(k, {"write_open", "write_blob"}))
        /\ drop'[k].onDisk = drop[k].onDisk /\ drop'[k].received = drop[k].received
        /\ drop'[k].given = drop[k].given /\ drop'[k].status = drop[k].status
        /\ drop'[k].id = drop[k].id /\ drop'[k].fid = drop[k].fid
    BY <1>4, <2>2 DEF Drop
  <2>5. \A j \in Keys : SameIds(j) /\ (j # k => BytesSpared(j) /\ ~Writes(h, j)')
    BY <1>1, <2>1, <2>3, <2>4 DEF SameIds, BytesSpared, SameBlob, Writes
  <2>6. ASSUME KeyOK(k) PROVE KeyOK(k)'
    <3>1. ASSUME ~drop'[k].crowded PROVE CalmOK(k)'
      <4>1. CalmOK(k) /\ \A q \in Procs : ~Writes(q, k)
        BY <2>4, <2>6, <3>1 DEF KeyOK, Writing, Writes, WritingSteps
      <4>2. \A q \in Procs : Writes(q, k)' => q = h
        BY <2>1, <4>1 DEF Alone, Writes
      <4>3. WriterOK(h, k)'
        BY <1>4, <2>1, <2>4 DEF WriterOK, At
      <4> QED
        BY <1>1, <2>4, <4>1, <4>2, <4>3 DEF CalmOK
    <3> QED
      BY <2>4, <2>6, <3>1 DEF KeyOK
  <2> QED
    BY <2>1, <2>5, <2>6, BWrite
<1> QED
  BY <1>3, <1>4 DEF WriteFile

\* writerAt, the parts and the rollback.
LEMMA WriteBytesB ==
  ASSUME IInv, SInv, BInv, NEW h \in Handlers,
         WriteOpen(h) \/ WriteBlob(h) \/ WriteRollback(h)
  PROVE  BInv'
<1>1. req[h].pc \in WritingSteps /\ dir' = dir
  BY DEF WriteOpen, WriteBlob, WriteRollback, At, WritingSteps
<1>0. PICK k \in Keys : k = req[h].k
  BY <1>1, Writer DEF WritingSteps
<1>2. /\ h \in Procs /\ k \in Keys /\ drop[k] \in Drop
      /\ req[h].off \in Nat /\ req[h].len \in Nat
  BY <1>0, <1>1, Writer DEF WritingSteps
<1>3. drop \in [Keys -> Drop] /\ req \in [Procs -> Request] /\ req[h] \in Request
  BY <1>2 DEF IInv, TypeOK
<1>4. Writes(h, k)
  BY <1>0, <1>1 DEF Writes
<1>5. ASSUME NEW n \in Nat, drop' = [drop EXCEPT ![k].onDisk = n],
             Alone(h), req'[h].k \in {k, Nobody},
             req'[h].pc \in WritingSteps /\ WriterOK(h, k) => WriterOK(h, k)',
             req'[h].pc \in WritingSteps \/ req'[h].k = Nobody
      PROVE  BInv'
  <2>1. \A j \in Keys : j # k => drop'[j] = drop[j]
    BY <1>3, <1>5
  <2>2. /\ drop'[k].crowded = drop[k].crowded /\ drop'[k].received = drop[k].received
        /\ drop'[k].given = drop[k].given /\ drop'[k].status = drop[k].status
        /\ drop'[k].id = drop[k].id /\ drop'[k].fid = drop[k].fid
    BY <1>2, <1>3, <1>5 DEF Drop
  <2>3. \A j \in Keys : SameIds(j) /\ (j # k => BytesSpared(j) /\ ~Writes(h, j)')
    BY <1>1, <1>5, <2>1, <2>2, NobodyAssumption DEF SameIds, BytesSpared, SameBlob, Writes
  <2>4. ASSUME KeyOK(k) PROVE KeyOK(k)'
    <3>1. ASSUME ~drop'[k].crowded PROVE CalmOK(k)'
      <4>1. CalmOK(k)
        BY <2>2, <2>4, <3>1 DEF KeyOK
      <4>2. WriterOK(h, k) /\ \A q \in Procs : Writes(q, k) => q = h
        BY <1>2, <1>4, <4>1 DEF CalmOK
      <4>3. \A q \in Procs : Writes(q, k)' => q = h
        BY <1>5, <4>2 DEF Alone, Writes
      <4>4. ~(drop'[k].received >= Parts)
        BY <1>2, <2>2, <4>2, BoundsAssumption DEF WriterOK, Drop
      <4>5. Writes(h, k)' => WriterOK(h, k)'
        BY <1>5, <4>2 DEF Writes
      <4>6. drop'[k].status # "ready"
        BY <2>2, <4>1, <4>4 DEF CalmOK
      <4> QED
        BY <4>3, <4>4, <4>5, <4>6 DEF CalmOK
    <3> QED
      BY <2>2, <2>4, <3>1 DEF KeyOK
  <2> QED
    BY <1>2, <1>5, <2>3, <2>4, BWrite
<1>6. CASE Finish(h) /\ drop' = drop
  BY <1>1, <1>2, <1>6, BMove
<1>7. ASSUME k \in dir, drop' = [drop EXCEPT ![k].onDisk = req[h].off],
             Goto(h, "write_blob"), At(h, "write_open")
      PROVE  BInv'
  <2>1. /\ Alone(h) /\ req'[h].k = k /\ req'[h].pc = "write_blob"
        /\ req'[h].off = req[h].off /\ req'[h].len = req[h].len
    BY <1>0, <1>2, <1>7, Went
  <2>2. drop'[k].received = drop[k].received /\ drop'[k].onDisk = req[h].off
    BY <1>2, <1>3, <1>7 DEF Drop
  <2>3. WriterOK(h, k) => WriterOK(h, k)'
    BY <1>1, <1>2, <1>7, <2>1, <2>2, BoundsAssumption DEF WriterOK, At
  <2> QED
    BY <1>2, <1>5, <1>7, <2>1, <2>3 DEF WritingSteps
<1>8. CASE WriteOpen(h)
  BY <1>0, <1>6, <1>7, <1>8 DEF WriteOpen
<1>9. CASE WriteBlob(h)
  <2> DEFINE n == IF k \in dir /\ drop[k].onDisk = req[h].off + req[h].len
                  THEN drop[k].onDisk + 1 ELSE drop[k].onDisk
  <2>1. /\ drop' = [drop EXCEPT ![k].onDisk = n]
        /\ req' = [req EXCEPT ![h].len = @ + 1]
        /\ At(h, "write_blob") /\ req[h].off + req[h].len < Parts
    BY <1>0, <1>9 DEF WriteBlob
  <2>2. n \in Nat
    BY <1>2 DEF Drop
  <2>3. /\ Alone(h) /\ req'[h].k = k /\ req'[h].pc = "write_blob"
        /\ req'[h].off = req[h].off /\ req'[h].len = req[h].len + 1
    BY <1>0, <1>2, <1>3, <2>1 DEF Alone, Request, At
  <2>4. drop'[k].received = drop[k].received /\ drop'[k].onDisk = n
    BY <1>2, <1>3, <2>1, <2>2 DEF Drop
  <2>5. WriterOK(h, k) => WriterOK(h, k)'
    BY <1>1, <1>2, <2>1, <2>3, <2>4, BoundsAssumption DEF WriterOK, At
  <2> QED
    BY <1>5, <2>1, <2>2, <2>3, <2>5 DEF WritingSteps
<1>10. CASE WriteRollback(h)
  <2> DEFINE n == IF k \in dir /\ drop[k].onDisk > req[h].off
                  THEN req[h].off ELSE drop[k].onDisk
  <2>1. drop' = [drop EXCEPT ![k].onDisk = n] /\ Finish(h)
    BY <1>0, <1>10 DEF WriteRollback
  <2>2. n \in Nat
    BY <1>2 DEF Drop
  <2>3. /\ Alone(h) /\ req'[h].k = Nobody /\ req'[h].pc \in {"idle", "sweep_next"}
    BY <1>2, <2>1, Finished
  <2> QED
    BY <1>5, <2>1, <2>2, <2>3 DEF WritingSteps
<1> QED
  BY <1>8, <1>9, <1>10

\* SetReceived.
LEMMA WriteSetB ==
  ASSUME IInv, SInv, BInv, NEW h \in Handlers, WriteSet(h)
  PROVE  BInv'
<1>1. At(h, "write_blob") /\ dir' = dir /\ Finish(h)
  BY DEF WriteSet
<1>0. PICK k \in Keys : k = req[h].k
  BY <1>1, Writer DEF At
<1>2. /\ h \in Procs /\ k \in Keys /\ drop[k] \in Drop
      /\ req[h].off \in Nat /\ req[h].len \in Nat
      /\ RowIdsUnique => drop[k].given /\ drop[k].files
      /\ drop[k].files => drop[k].fid # 0
  BY <1>0, <1>1, Writer DEF At
<1>3. Alone(h) /\ req'[h].pc \notin WritingSteps /\ \A j \in Keys : ~Writes(h, j)'
  BY <1>1, <1>2, Finished DEF WritingSteps, Writes
<1>4. \A j \in Keys :
        /\ SameFate(j) /\ SameDates(j) /\ SameGiven(j) /\ SameBlob(j)
        /\ drop'[j].fid = drop[j].fid
        /\ \/ SameFile(j)
           \/ /\ HasFile(j) /\ drop[j].fid = drop[k].fid
              /\ drop'[j].received = req[h].off + req[h].len
  BY <1>0, ReceivedSet
<1>5. IdsUnique' <=> IdsUnique
  BY <1>4, IdsKept DEF SameIds, SameDates
<1>6. ASSUME IdsUnique, NEW j \in Keys, j # k PROVE BytesSpared(j)
  <2>1. drop[j].fid # drop[k].fid
    BY <1>2, <1>6, IdsSplit DEF FileIdsUnique
  <2> QED
    BY <1>1, <1>4, <1>6, <2>1 DEF BytesSpared, SameFate, SameFile, SameGiven
<1>7. ASSUME IdsUnique, KeyOK(k) PROVE KeyOK(k)'
  <2>1. CASE drop'[k].received = drop[k].received
    <3>1. BytesSpared(k)
      BY <1>1, <1>2, <1>4, <2>1 DEF BytesSpared, SameFate, SameGiven
    <3> QED
      BY <1>2, <1>3, <1>7, <3>1, KeySpared
  <2>2. CASE drop'[k].received = req[h].off + req[h].len
    <3>1. drop'[k].given
      BY <1>2, <1>4, <1>7, IdsSplit DEF SameGiven
    <3>2. ASSUME ~drop'[k].crowded PROVE CalmOK(k)'
      <4>1. CalmOK(k)
        BY <1>2, <1>4, <1>7, <3>2 DEF KeyOK, SameBlob
      <4>2. Writes(h, k)
        BY <1>0, <1>1 DEF Writes, WritingSteps, At
      <4>3. WriterOK(h, k) /\ \A q \in Procs : Writes(q, k) => q = h
        BY <1>2, <4>1, <4>2 DEF CalmOK
      <4>4. \A q \in Procs : ~Writes(q, k)'
        BY <1>2, <1>3, <4>3 DEF Alone, Writes
      <4>5. drop'[k].status # "ready"
        BY <1>2, <1>4, <4>1, <4>3, BoundsAssumption DEF CalmOK, WriterOK, SameFate, Drop
      <4>6. k \in dir' => drop'[k].onDisk = drop'[k].received
        BY <1>1, <1>2, <1>4, <2>2, <4>3 DEF WriterOK, SameBlob
      <4> QED
        BY <4>4, <4>5, <4>6 DEF CalmOK
    <3> QED
      BY <3>1, <3>2 DEF KeyOK
  <2> QED
    BY <1>2, <1>4, <2>1, <2>2 DEF SameFile
<1>8. IdsUnique /\ BytesOK => \A j \in Keys : \/ KeyOK(j)'
                                              \/ BytesSpared(j) /\ ~Writes(h, j)'
  BY <1>2, <1>3, <1>6, <1>7 DEF BytesOK
<1> QED
  BY <1>2, <1>3, <1>5, <1>8, BKeys

-----------------------------------------------------------------------------
\* DeleteDrop: its RemoveAll takes a directory away, its DELETE publishes nothing.
LEMMA DeleteB ==
  ASSUME IInv, BInv, NEW p \in Procs, Delete(p)
  PROVE  BInv'
<1>1. CASE DeleteCut(p) \/ DeleteBlobs(p) \/ DeleteBlobsFails(p)
  <2>1. /\ drop' = drop /\ dir' \subseteq dir
        /\ Finish(p) \/ \E step \in {"del_blobs", "del_row"} : Goto(p, step)
    BY <1>1 DEF DeleteCut, DeleteBlobs, DeleteBlobsFails, stored
  <2> QED
    BY <2>1, BMove DEF Steps, WritingSteps
<1>2. CASE DeleteRow(p)
  <2>1. Finish(p) /\ dir' = dir
    BY <1>2 DEF DeleteRow
  <2>2. Alone(p) /\ req'[p].pc \notin WritingSteps
    BY <2>1, Finished DEF WritingSteps
  <2>3. \A k \in Keys :
          /\ SameDates(k) /\ SameFile(k) /\ SameGiven(k) /\ SameBlob(k)
          /\ drop'[k].status = "ready" => drop[k].status = "ready"
    BY <1>2, RowDeleted
  <2>4. \A k \in Keys : SameIds(k) /\ BytesSpared(k)
    BY <2>1, <2>3 DEF SameIds, BytesSpared, SameDates, SameFile, SameGiven
  <2> QED
    BY <2>2, <2>4, IdsKept, BStep
<1> QED
  BY <1>1, <1>2 DEF Delete

\* Sweep.
LEMMA SweepB ==
  ASSUME IInv, BInv, Sweep
  PROVE  BInv'
<1>1. Sweeper \in Procs
  BY ProcsFacts
<1>2. CASE SweepSessions
  <2>1. drop' = drop /\ dir' = dir
    BY <1>2 DEF SweepSessions, stored
  <2>2. Alone(Sweeper) /\ req'[Sweeper].pc = "sweep_list"
    BY <1>1, <1>2 DEF SweepSessions, Alone, Idle, IInv, TypeOK
  <2> QED
    BY <1>1, <2>1, <2>2, AllSpared, BStep DEF WritingSteps
<1>3. CASE SweepList
  BY <1>1, <1>3, BMove DEF SweepList, stored
<1>4. CASE SweepNext
  <2>1. drop' = drop /\ dir' = dir
    BY <1>4 DEF SweepNext, stored
  <2>2. CASE \E k \in reap : Begin(Sweeper, "del_cut", k)
    <3>1. \E k \in Keys : Begin(Sweeper, "del_cut", k)
      BY <2>2 DEF IInv, TypeOK
    <3> QED
      BY <1>1, <2>1, <3>1, BMove DEF Steps, WritingSteps
  <2>3. CASE req' = [req EXCEPT ![Sweeper] = Idle]
    <3>1. Alone(Sweeper) /\ req'[Sweeper].pc = "idle"
      BY <1>1, <2>3 DEF Alone, Idle, IInv, TypeOK
    <3> QED
      BY <1>1, <2>1, <3>1, AllSpared, BStep DEF WritingSteps
  <2> QED
    BY <1>4, <2>2, <2>3 DEF SweepNext
<1> QED
  BY <1>1, <1>2, <1>3, <1>4, DeleteB DEF Sweep

\* Requests that arrive.
LEMMA AcceptB ==
  ASSUME IInv, BInv, NEW h \in Handlers, Accept(h)
  PROVE  BInv'
<1>1. h \in Procs
  BY ProcsFacts
<1>2. ASSUME NEW k \in Keys,
             \/ StartValidate(h, k) \/ WriteResolve(h, k) \/ FinishResolve(h, k)
             \/ CancelResolve(h, k) \/ ManageDelete(h, k) \/ UnlockRead(h, k)
      PROVE  BInv'
  <2>1. /\ drop' = drop /\ dir' = dir
        /\ \E step \in {"start_create", "write_file", "finish_tx", "cancel_check",
                        "del_cut", "unlock_files"} : Begin(h, step, k)
    BY <1>2 DEF StartValidate, WriteResolve, FinishResolve, CancelResolve, ResolveSession,
       ManageDelete, UnlockRead, stored
  <2> QED
    BY <1>1, <2>1, BMove DEF Steps, WritingSteps
<1>3. ASSUME NEW k \in Keys, ReportLookup(h, k)
      PROVE  BInv'
  <2>1. drop' = drop /\ dir' = dir
    BY <1>3 DEF ReportLookup
  <2>2. CASE Begin(h, "rep_block", k)
    BY <1>1, <2>1, <2>2, BMove DEF Steps, WritingSteps
  <2>3. CASE UNCHANGED req
    BY <2>1, <2>3, BStill
  <2> QED
    BY <1>3, <2>2, <2>3 DEF ReportLookup
<1>4. ASSUME NEW t \in Tokens, GetExpired(h, t) \/ Lock(h, t)
      PROVE  BInv'
  BY <1>4, BStill DEF GetExpired, Lock, stored
<1>5. ASSUME NEW t \in Tokens, OpenGet(h, t) \/ SessionDelete(h, t)
      PROVE  BInv'
  <2>1. drop' = drop /\ dir' = dir
    BY <1>5 DEF OpenGet, SessionDelete, stored
  <2>2. Alone(h) /\ req'[h].pc \in {"open_claim", "sdel_read"}
    BY <1>1, <1>5 DEF OpenGet, SessionDelete, Alone, Idle, IInv, TypeOK
  <2> QED
    BY <1>1, <2>1, <2>2, AllSpared, BStep DEF WritingSteps
<1> QED
  BY <1>2, <1>3, <1>4, <1>5 DEF Accept

\* The other steps of requests that have been accepted.
LEMMA ProceedB ==
  ASSUME IInv, SInv, BInv, NEW h \in Handlers, Proceed(h)
  PROVE  BInv'
<1>1. h \in Procs
  BY ProcsFacts
<1>2. CASE \/ UnlockFiles(h) \/ OpenRow(h) \/ OpenBlob(h) \/ ServeEnd(h) \/ CancelCheck(h)
           \/ OpenClaimed(h) \/ ReportCut(h) \/ ReportRecord(h)
           \/ \E t \in Tokens : UnlockPut(h, t)
  <2>1. drop' = drop /\ dir' = dir
    BY <1>2 DEF UnlockFiles, OpenRow, OpenBlob, ServeEnd, CancelCheck, OpenClaimed,
       ReportCut, ReportRecord, UnlockPut, stored
  <2>2. \/ Finish(h)
        \/ \E step \in {"unlock_put", "open_blob", "serving", "open_row", "rep_record"} :
             Goto(h, step)
        \/ \E k \in Keys : Begin(h, "del_cut", k)
    BY <1>2 DEF UnlockFiles, OpenRow, OpenBlob, ServeEnd, CancelCheck, OpenClaimed,
       ReportCut, ReportRecord, UnlockPut
  <2> QED
    BY <1>1, <2>1, <2>2, BMove DEF Steps, WritingSteps
<1>3. CASE SessionDeleteRead(h)
  <2>1. drop' = drop /\ dir' = dir
    BY <1>3 DEF SessionDeleteRead, stored
  <2>2. CASE Finish(h)
    BY <1>1, <2>1, <2>2, BMove
  <2>3. ASSUME NEW k \in Keys, req' = [req EXCEPT ![h].pc = "del_cut", ![h].k = k]
        PROVE  BInv'
    <3>1. req \in [Procs -> Request] /\ req[h] \in Request
      BY <1>1 DEF IInv, TypeOK
    <3>2. Alone(h) /\ req'[h].pc = "del_cut"
      BY <1>1, <2>3, <3>1 DEF Alone, Request
    <3> QED
      BY <1>1, <2>1, <3>2, AllSpared, BStep DEF WritingSteps
  <2> QED
    BY <1>3, <2>2, <2>3 DEF SessionDeleteRead
<1>4. CASE OpenClaim(h) \/ ReportBlock(h)
  <2>1. /\ dir' = dir
        /\ Finish(h) \/ \E step \in {"open_row", "open_claimed", "rep_cut"} : Goto(h, step)
    BY <1>4 DEF OpenClaim, ReportBlock
  <2>2. Alone(h) /\ req'[h].pc \notin WritingSteps
    <3>1. CASE Finish(h)
      BY <1>1, <3>1, Finished DEF WritingSteps
    <3>2. ASSUME NEW step \in {"open_row", "open_claimed", "rep_cut"}, Goto(h, step)
          PROVE  Alone(h) /\ req'[h].pc \notin WritingSteps
      BY <1>1, <3>2, Went DEF WritingSteps
    <3> QED
      BY <2>1, <3>1, <3>2
  <2>3. \A k \in Keys :
          SameFate(k) /\ SameDates(k) /\ SameFile(k) /\ SameGiven(k) /\ SameBlob(k)
    <3>1. CASE OpenClaim(h)
      BY <3>1, ClaimCounted
    <3>2. CASE ReportBlock(h)
      BY <3>2, Blocked DEF SameRecord
    <3> QED
      BY <1>4, <3>1, <3>2
  <2>4. \A k \in Keys : SameIds(k) /\ BytesSpared(k)
    BY <2>1, <2>3 DEF SameIds, BytesSpared, SameFate, SameDates, SameFile, SameGiven
  <2> QED
    BY <1>1, <2>2, <2>4, IdsKept, BStep
<1> QED
  BY <1>1, <1>2, <1>3, <1>4, StartB, WriteFileB, WriteBytesB, WriteSetB, FinalizeB, DeleteB
     DEF Proceed

\* The process is killed: what was being written is not being written any more.
LEMMA RestartB ==
  ASSUME IInv, BInv, Restart
  PROVE  BInv'
<1>1. /\ UNCHANGED <<drop, dir>>
      /\ \A p \in Procs, k \in Keys : ~Writes(p, k)'
  BY DEF Restart, stored, Writes, WritingSteps, Idle
<1>2. IdsUnique' <=> IdsUnique
  BY <1>1 DEF IdsUnique
<1>3. BytesOK => BytesOK'
  BY <1>1 DEF BytesOK, KeyOK, CalmOK
<1> QED
  BY <1>2, <1>3 DEF BInv

\* The first state, and every step.
LEMMA InitB == Init => BInv
<1> SUFFICES ASSUME Init, NEW k \in Keys PROVE KeyOK(k)
  BY DEF BInv, BytesOK
<1>1. /\ drop[k].received = 0 /\ drop[k].status = "none"
      /\ \A p \in Procs : ~Writes(p, k)
  BY DEF Init, NoDrop, Idle, Writes, WritingSteps
<1> QED
  BY <1>1, BoundsAssumption DEF KeyOK, CalmOK

LEMMA NextB == IInv /\ SInv /\ BInv /\ [Next]_vars => BInv'
<1> SUFFICES ASSUME IInv, SInv, BInv, [Next]_vars PROVE BInv'
  OBVIOUS
<1>1. CASE UNCHANGED vars \/ Tick
  BY <1>1, BStill DEF vars, Tick, stored
<1>2. ASSUME NEW h \in Handlers, Disconnect(h)
      PROVE  BInv'
  BY <1>2, BMove, ProcsFacts DEF Disconnect, stored
<1> QED
  BY <1>1, <1>2, AcceptB, ProceedB, SweepB, RestartB DEF Next

\* The invariant of the bytes.
THEOREM BytesInvariance == Spec => []BInv
<1>1. IInv /\ SInv /\ BInv /\ [Next]_vars => BInv'
  BY NextB
<1> QED
  BY <1>1, InitB, Invariance, StorageInvariance, PTL DEF Spec

\* No half-uploaded share is ever handed out, for any number of shares, parts,
\* requests and restarts: a published share has received its whole file and its
\* blob holds it, unless two WriteParts of the file have overlapped or SQLite has
\* given one id twice.
THEOREM NoHalfUploadedShare == Spec => []PublishedIsComplete
<1>1. BInv => PublishedIsComplete
  <2> SUFFICES ASSUME BInv, IdsUnique, NEW k \in Keys, Published(k), ~drop[k].crowded
               PROVE  Whole(k)
    BY DEF PublishedIsComplete
  <2>1. CalmOK(k)
    BY DEF BInv, BytesOK, KeyOK
  <2> QED
    BY <2>1 DEF CalmOK, Published, Whole
<1> QED
  BY <1>1, BytesInvariance, PTL

-----------------------------------------------------------------------------
(***************************************************************************)
(* What a session has paid for.  Most steps are ordinary: they leave the   *)
(* sessions alone, take shares along their lives, and let the process that *)
(* moves get hold of a session or a share only in the known ways.          *)
(***************************************************************************)

UnlockSteps == {"unlock_files", "unlock_put"}
RemoveSteps == {"cancel_check", "sdel_read", "del_cut", "del_blobs", "del_row"}

\* Some client of this instance deletes shares.
DeletingClients == Requests \cap {"cancel", "sessionDelete", "manageDelete"} # {}

\* How a step of p may change the record of k.
Ages(p, k) ==
  /\ SameCount(k)
  /\ drop[k].status # "none" => SameDates(k) /\ drop'[k].status # "none"
  /\ drop[k].lapsed => drop'[k].lapsed
  /\ \/ drop'[k].status = drop[k].status
     \/ /\ At(p, "start_create") /\ k = req[p].k /\ drop[k].status = "none"
        /\ drop'[k].status = "pending" /\ NextRowId(drop'[k].id)
     \/ /\ HasRow(k) /\ drop'[k].status = "ready"
        /\ UploadEnded(k, now) => drop'[k].lapsed
     \/ /\ At(p, "del_row") /\ IsRow(k, RowId(p)) /\ drop'[k].status = "gone"
        /\ req'[p].pc \notin RemoveSteps

\* What p may have in hand next: a session that it had or that is in the table,
\* a share to unlock that it had or that is published, a share to delete that
\* it had or that Sweep takes off its list.
Moves(p) ==
  /\ At(p, "open_claimed") => "disconnect" \in Requests
  /\ req'[p].pc # "open_claimed"
  /\ req'[p].pc \in OpenSteps => \/ req[p].pc \in OpenSteps /\ req'[p].t = req[p].t
                                 \/ req'[p].t \in down
  /\ req'[p].pc \in UnlockSteps => \/ req[p].pc \in UnlockSteps /\ req'[p].k = req[p].k
                                   \/ drop[req'[p].k].status = "ready"
  /\ req'[p].pc \in RemoveSteps =>
       IF p = Sweeper
       THEN \/ req[p].pc \in RemoveSteps /\ req'[p].k = req[p].k
            \/ req'[p].k \in reap /\ reap' = reap \ {req'[p].k}
       ELSE req[p].pc \in RemoveSteps \/ DeletingClients

\* Sweep's list only shrinks, unless it is read anew.
ListOK(p) ==
  \/ reap' \subseteq reap
  \/ p = Sweeper /\ At(p, "sweep_list") /\ reap' = Reapable(req[p].at)

Ordinary(p) ==
  /\ Alone(p) /\ UNCHANGED <<now, sess>> /\ down' \subseteq down
  /\ Moves(p) /\ ListOK(p)
  /\ \A k \in Keys : Ages(p, k)

\* Rows that are not touched age.
LEMMA RowsStill ==
  ASSUME NEW p, UNCHANGED drop
  PROVE  \A k \in Keys : Ages(p, k)
  BY DEF Ages, SameCount, SameDates

\* A process that goes on with what it has.
LEMMA GotoMoves ==
  ASSUME IInv, NEW p \in Procs, NEW step, Goto(p, step), ~At(p, "open_claimed"),
         step # "open_claimed",
         step \in OpenSteps => req[p].pc \in OpenSteps,
         step \in UnlockSteps => req[p].pc \in UnlockSteps,
         step \in RemoveSteps => req[p].pc \in RemoveSteps
  PROVE  Alone(p) /\ Moves(p)
  BY Went DEF Moves

\* A call that returns.
LEMMA FinishMoves ==
  ASSUME IInv, NEW p \in Procs, Finish(p),
         At(p, "open_claimed") => "disconnect" \in Requests
  PROVE  Alone(p) /\ Moves(p) /\ req'[p].pc \notin RemoveSteps
  BY Finished DEF Moves, OpenSteps, UnlockSteps, RemoveSteps

\* A request that begins with a share.
LEMMA BeginMoves ==
  ASSUME IInv, NEW h \in Handlers, NEW step, NEW k, Begin(h, step, k),
         ~At(h, "open_claimed"), step \notin OpenSteps,
         step \in UnlockSteps => drop[k].status = "ready",
         step \in RemoveSteps => req[h].pc \in RemoveSteps \/ DeletingClients
  PROVE  Alone(h) /\ Moves(h)
<1>1. h \in Procs /\ h # Sweeper
  BY ProcsFacts
<1> QED
  BY <1>1, Began DEF Moves, OpenSteps

\* The steps of DeleteDrop.
LEMMA DeleteO ==
  ASSUME IInv, NEW p \in Procs, Delete(p)
  PROVE  Ordinary(p)
<1> USE DEF At
<1>1. CASE DeleteCut(p)
  <2>1. /\ At(p, "del_cut") /\ Goto(p, "del_blobs") /\ UNCHANGED <<now, drop, sess, reap>>
        /\ down' \subseteq down
    BY <1>1 DEF DeleteCut, stored, WithoutDrop
  <2>2. Alone(p) /\ Moves(p)
    BY <2>1, GotoMoves DEF OpenSteps, UnlockSteps, RemoveSteps
  <2> QED
    BY <2>1, <2>2, RowsStill DEF Ordinary, ListOK
<1>2. CASE DeleteBlobs(p)
  <2>1. /\ At(p, "del_blobs") /\ Goto(p, "del_row")
        /\ UNCHANGED <<now, drop, sess, down, reap>>
    BY <1>2 DEF DeleteBlobs
  <2>2. Alone(p) /\ Moves(p)
    BY <2>1, GotoMoves DEF OpenSteps, UnlockSteps, RemoveSteps
  <2> QED
    BY <2>1, <2>2, RowsStill DEF Ordinary, ListOK
<1>3. CASE DeleteBlobsFails(p)
  <2>1. /\ At(p, "del_blobs") /\ Finish(p)
        /\ UNCHANGED <<now, drop, sess, down, reap>>
    BY <1>3 DEF DeleteBlobsFails, stored
  <2>2. Alone(p) /\ Moves(p)
    BY <2>1, FinishMoves
  <2> QED
    BY <2>1, <2>2, RowsStill DEF Ordinary, ListOK
<1>4. CASE DeleteRow(p)
  <2>1. /\ At(p, "del_row") /\ Finish(p)
        /\ UNCHANGED <<now, sess, down, reap>>
    BY <1>4 DEF DeleteRow
  <2>2. Alone(p) /\ Moves(p) /\ req'[p].pc \notin RemoveSteps
    BY <2>1, FinishMoves
  <2>3. \A k \in Keys : Ages(p, k)
    BY <1>4, <2>1, <2>2, RowDeleted DEF Ages
  <2> QED
    BY <2>1, <2>2, <2>3 DEF Ordinary, ListOK
<1> QED
  BY <1>1, <1>2, <1>3, <1>4 DEF Delete

\* The steps of Sweep.
LEMMA SweepO ==
  ASSUME IInv, Sweep
  PROVE  Ordinary(Sweeper)
<1>1. Sweeper \in Procs /\ req \in [Procs -> Request]
  BY ProcsFacts DEF IInv, TypeOK
<1>2. CASE SweepSessions
  <2>1. /\ At(Sweeper, "idle")
        /\ req' = [req EXCEPT ![Sweeper] = [Idle EXCEPT !.pc = "sweep_list", !.at = now]]
        /\ UNCHANGED <<now, drop, sess, reap>> /\ down' \subseteq down
    BY <1>2 DEF SweepSessions, stored
  <2>2. Alone(Sweeper) /\ req'[Sweeper].pc = "sweep_list"
    BY <1>1, <2>1 DEF Alone, Idle
  <2>3. Moves(Sweeper)
    BY <2>1, <2>2 DEF Moves, OpenSteps, UnlockSteps, RemoveSteps, At
  <2> QED
    BY <2>1, <2>2, <2>3, RowsStill DEF Ordinary, ListOK
<1>3. CASE SweepList
  <2>1. /\ At(Sweeper, "sweep_list") /\ Finish(Sweeper)
        /\ UNCHANGED <<now, drop, sess, down>> /\ reap' = Reapable(req[Sweeper].at)
    BY <1>3 DEF SweepList, stored
  <2>2. Alone(Sweeper) /\ Moves(Sweeper)
    BY <1>1, <2>1, FinishMoves DEF At
  <2> QED
    BY <2>1, <2>2, RowsStill DEF Ordinary, ListOK
<1>4. CASE SweepNext
  <2>1. At(Sweeper, "sweep_next") /\ UNCHANGED <<now, drop, sess, down>>
    BY <1>4 DEF SweepNext, stored
  <2>2. ASSUME NEW k \in reap, reap' = reap \ {k}, Begin(Sweeper, "del_cut", k)
        PROVE  Ordinary(Sweeper)
    <3>1. Alone(Sweeper) /\ req'[Sweeper].pc = "del_cut" /\ req'[Sweeper].k = k
      BY <1>1, <2>2, Began
    <3>2. Moves(Sweeper)
      BY <2>1, <2>2, <3>1 DEF Moves, OpenSteps, UnlockSteps, RemoveSteps, At
    <3> QED
      BY <2>1, <2>2, <3>1, <3>2, RowsStill DEF Ordinary, ListOK
  <2>3. CASE reap' = reap /\ req' = [req EXCEPT ![Sweeper] = Idle]
    <3>1. Alone(Sweeper) /\ req'[Sweeper].pc = "idle"
      BY <1>1, <2>3 DEF Alone, Idle
    <3>2. Moves(Sweeper)
      BY <2>1, <3>1 DEF Moves, OpenSteps, UnlockSteps, RemoveSteps, At
    <3> QED
      BY <2>1, <2>3, <3>1, <3>2, RowsStill DEF Ordinary, ListOK
  <2> QED
    BY <1>4, <2>2, <2>3 DEF SweepNext
<1> QED
  BY <1>1, <1>2, <1>3, <1>4, DeleteO DEF Sweep

\* Requests that arrive.
LEMMA AcceptO ==
  ASSUME IInv, NEW h \in Handlers, Accept(h)
  PROVE  Ordinary(h)
<1>1. h \in Procs /\ h # Sweeper /\ req \in [Procs -> Request]
  BY ProcsFacts DEF IInv, TypeOK
<1>2. ASSUME NEW step, NEW k \in Keys, Begin(h, step, k), At(h, "idle"),
             UNCHANGED <<now, drop, sess, down, reap>>, step \notin OpenSteps,
             step \in UnlockSteps => drop[k].status = "ready",
             step \in RemoveSteps => DeletingClients
      PROVE  Ordinary(h)
  <2>1. Alone(h) /\ Moves(h)
    BY <1>2, BeginMoves DEF At
  <2> QED
    BY <1>2, <2>1, RowsStill DEF Ordinary, ListOK
<1>3. ASSUME UNCHANGED <<now, drop, sess, req, reap>>, down' \subseteq down, At(h, "idle")
      PROVE  Ordinary(h)
  <2>1. Alone(h) /\ Moves(h)
    BY <1>3 DEF Alone, Moves, OpenSteps, UnlockSteps, RemoveSteps, At
  <2> QED
    BY <1>3, <2>1, RowsStill DEF Ordinary, ListOK
<1>4. ASSUME NEW k \in Keys, StartValidate(h, k) PROVE Ordinary(h)
  <2>1. /\ At(h, "idle") /\ Begin(h, "start_create", k)
        /\ UNCHANGED <<now, drop, sess, down, reap>>
    BY <1>4 DEF StartValidate, Arrives, stored
  <2> QED
    BY <1>2, <2>1 DEF OpenSteps, UnlockSteps, RemoveSteps
<1>5. ASSUME NEW k \in Keys, WriteResolve(h, k) PROVE Ordinary(h)
  <2>1. /\ At(h, "idle") /\ Begin(h, "write_file", k)
        /\ UNCHANGED <<now, drop, sess, down, reap>>
    BY <1>5 DEF WriteResolve, ResolveSession, Arrives, stored
  <2> QED
    BY <1>2, <2>1 DEF OpenSteps, UnlockSteps, RemoveSteps
<1>6. ASSUME NEW k \in Keys, FinishResolve(h, k) PROVE Ordinary(h)
  <2>1. /\ At(h, "idle") /\ Begin(h, "finish_tx", k)
        /\ UNCHANGED <<now, drop, sess, down, reap>>
    BY <1>6 DEF FinishResolve, ResolveSession, Arrives, stored
  <2> QED
    BY <1>2, <2>1 DEF OpenSteps, UnlockSteps, RemoveSteps
<1>7. ASSUME NEW k \in Keys, CancelResolve(h, k) PROVE Ordinary(h)
  <2>1. /\ At(h, "idle") /\ Begin(h, "cancel_check", k) /\ "cancel" \in Requests
        /\ UNCHANGED <<now, drop, sess, down, reap>>
    BY <1>7 DEF CancelResolve, ResolveSession, Arrives, stored
  <2>2. DeletingClients
    BY <2>1 DEF DeletingClients
  <2> QED
    BY <1>2, <2>1, <2>2 DEF OpenSteps, UnlockSteps
<1>8. ASSUME NEW k \in Keys, ManageDelete(h, k) PROVE Ordinary(h)
  <2>1. /\ At(h, "idle") /\ Begin(h, "del_cut", k) /\ "manageDelete" \in Requests
        /\ UNCHANGED <<now, drop, sess, down, reap>>
    BY <1>8 DEF ManageDelete, Arrives, stored
  <2>2. DeletingClients
    BY <2>1 DEF DeletingClients
  <2> QED
    BY <1>2, <2>1, <2>2 DEF OpenSteps, UnlockSteps
<1>9. ASSUME NEW k \in Keys, UnlockRead(h, k) PROVE Ordinary(h)
  <2>1. /\ At(h, "idle") /\ Begin(h, "unlock_files", k) /\ drop[k].status = "ready"
        /\ UNCHANGED <<now, drop, sess, down, reap>>
    BY <1>9 DEF UnlockRead, Arrives, Live, stored
  <2> QED
    BY <1>2, <2>1 DEF OpenSteps, RemoveSteps
<1>10. ASSUME NEW k \in Keys, ReportLookup(h, k) PROVE Ordinary(h)
  <2>1. /\ At(h, "idle")
        /\ Begin(h, "rep_block", k) \/ UNCHANGED req
        /\ UNCHANGED <<now, drop, sess, down, reap>>
    BY <1>10 DEF ReportLookup, Arrives
  <2> QED
    BY <1>2, <1>3, <2>1 DEF OpenSteps, UnlockSteps, RemoveSteps
<1>11. ASSUME NEW t \in Tokens, OpenGet(h, t) PROVE Ordinary(h)
  <2>1. /\ At(h, "idle") /\ t \in down
        /\ req' = [req EXCEPT ![h] = [Idle EXCEPT !.pc = "open_claim",
                                        !.k = sess[t].key, !.t = t,
                                        !.late = sess[t].key \in cutOff]]
        /\ UNCHANGED <<now, drop, sess, down, reap>>
    BY <1>11 DEF OpenGet, Arrives, stored
  <2>2. Alone(h) /\ req'[h].pc = "open_claim" /\ req'[h].t = t
    BY <1>1, <2>1 DEF Alone, Idle
  <2>3. Moves(h)
    BY <2>1, <2>2 DEF Moves, UnlockSteps, RemoveSteps, At
  <2> QED
    BY <2>1, <2>2, <2>3, RowsStill DEF Ordinary, ListOK
<1>12. ASSUME NEW t \in Tokens, GetExpired(h, t) \/ Lock(h, t) PROVE Ordinary(h)
  <2>1. /\ At(h, "idle") /\ UNCHANGED <<now, drop, sess, req, reap>>
        /\ down' \subseteq down
    BY <1>12 DEF GetExpired, Lock, Arrives, stored
  <2> QED
    BY <1>3, <2>1
<1>13. ASSUME NEW t \in Tokens, SessionDelete(h, t) PROVE Ordinary(h)
  <2>1. /\ At(h, "idle") /\ "sessionDelete" \in Requests
        /\ req' = [req EXCEPT ![h] = [Idle EXCEPT !.pc = "sdel_read", !.t = t]]
        /\ UNCHANGED <<now, drop, sess, down, reap>>
    BY <1>13 DEF SessionDelete, Arrives, stored
  <2>2. Alone(h) /\ req'[h].pc = "sdel_read" /\ DeletingClients
    BY <1>1, <2>1 DEF Alone, Idle, DeletingClients
  <2>3. Moves(h)
    BY <1>1, <2>1, <2>2 DEF Moves, OpenSteps, UnlockSteps, At
  <2> QED
    BY <2>1, <2>2, <2>3, RowsStill DEF Ordinary, ListOK
<1> QED
  BY <1>4, <1>5, <1>6, <1>7, <1>8, <1>9, <1>10, <1>11, <1>12, <1>13 DEF Accept

\* Requests that have been accepted, except for Unlock's session and claimOnce.
LEMMA ProceedO ==
  ASSUME IInv, NEW h \in Handlers, Proceed(h),
         ~OpenClaim(h), ~OpenClaimed(h), \A t \in Tokens : ~UnlockPut(h, t)
  PROVE  Ordinary(h)
<1>1. h \in Procs /\ h # Sweeper /\ req \in [Procs -> Request]
  BY ProcsFacts DEF IInv, TypeOK
<1>2. ASSUME NEW step, Goto(h, step), ~At(h, "open_claimed"), step # "open_claimed",
             step \in OpenSteps => req[h].pc \in OpenSteps,
             step \in UnlockSteps => req[h].pc \in UnlockSteps, step \notin RemoveSteps,
             UNCHANGED <<now, sess, reap>>, down' \subseteq down,
             \A k \in Keys : Ages(h, k)
      PROVE  Ordinary(h)
  <2>1. Alone(h) /\ Moves(h)
    BY <1>1, <1>2, GotoMoves
  <2> QED
    BY <1>2, <2>1 DEF Ordinary, ListOK
<1>3. ASSUME Finish(h), ~At(h, "open_claimed"),
             UNCHANGED <<now, sess, down, reap>>, \A k \in Keys : Ages(h, k)
      PROVE  Ordinary(h)
  <2>1. Alone(h) /\ Moves(h)
    BY <1>1, <1>3, FinishMoves
  <2> QED
    BY <1>3, <2>1 DEF Ordinary, ListOK
<1> USE DEF At
<1>4. CASE StartCreate(h)
  <2>1. At(h, "start_create") /\ Goto(h, "start_files") /\ UNCHANGED <<now, sess, down, reap>>
    BY <1>4 DEF StartCreate
  <2>2. \A k \in Keys \ {req[h].k} : Ages(h, k)
    BY <1>4, Created DEF Ages, SameCount, SameDates
  <2>3. Ages(h, req[h].k)
    <3>1. /\ drop[req[h].k] = NoDrop /\ drop'[req[h].k].downloads = 0
          /\ drop'[req[h].k].status = "pending" /\ NextRowId(drop'[req[h].k].id)
      BY <1>4, Created
    <3>2. NoDrop.downloads = 0 /\ NoDrop.status = "none" /\ ~NoDrop.lapsed
      BY DEF NoDrop
    <3> QED
      BY <2>1, <3>1, <3>2 DEF Ages, SameCount
  <2> QED
    BY <1>2, <2>1, <2>2, <2>3 DEF OpenSteps, UnlockSteps, RemoveSteps
<1>5. CASE StartFiles(h)
  <2>1. /\ At(h, "start_files") /\ UNCHANGED <<now, sess, down, reap>>
        /\ Goto(h, "start_dir") \/ Finish(h)
    BY <1>5 DEF StartFiles
  <2>2. \A k \in Keys : Ages(h, k)
    BY <1>5, FilesAdded DEF Ages, SameFate
  <2> QED
    BY <1>2, <1>3, <2>1, <2>2 DEF OpenSteps, UnlockSteps, RemoveSteps
<1>6. CASE StartDir(h)
  <2>1. /\ At(h, "start_dir") /\ UNCHANGED <<now, drop, sess, down, reap>>
        /\ Goto(h, "start_session")
    BY <1>6 DEF StartDir
  <2> QED
    BY <1>2, <2>1, RowsStill DEF OpenSteps, UnlockSteps, RemoveSteps
<1>7. CASE StartSession(h)
  <2>1. At(h, "start_session") /\ Finish(h) /\ UNCHANGED <<now, sess, down, reap>>
    BY <1>7 DEF StartSession
  <2>2. \A k \in Keys : Ages(h, k)
    BY <1>7, SessionCreated DEF Ages, SameFate
  <2> QED
    BY <1>3, <2>1, <2>2
<1>8. CASE WriteFile(h) \/ WriteOpen(h) \/ WriteBlob(h) \/ WriteRollback(h)
  <2>1. /\ \A k \in Keys : Ages(h, k)
        /\ \E r \in Request : StillWrites(h, r)
        /\ UNCHANGED <<now, sess, down, reap>>
    BY <1>8, BlobTouched DEF Ages, SameFate
  <2>2. PICK r \in Request : StillWrites(h, r)
    BY <2>1
  <2>3. /\ Alone(h) /\ req'[h] = r
        /\ ~At(h, "open_claimed")
    BY <1>1, <1>8, <2>2
       DEF StillWrites, Alone, IInv, TypeOK, WriteFile, WriteOpen, WriteBlob, WriteRollback
  <2>4. Moves(h)
    BY <2>2, <2>3 DEF StillWrites, Moves, OpenSteps, UnlockSteps, RemoveSteps
  <2> QED
    BY <2>1, <2>3, <2>4 DEF Ordinary, ListOK
<1>9. CASE WriteSet(h)
  <2>1. At(h, "write_blob") /\ Finish(h) /\ UNCHANGED <<now, sess, down, reap>>
    BY <1>9 DEF WriteSet
  <2>2. \A k \in Keys : Ages(h, k)
    BY <1>9, ReceivedSet DEF Ages, SameFate
  <2> QED
    BY <1>3, <2>1, <2>2
<1>10. CASE Finalize(h)
  <2>1. At(h, "finish_tx") /\ Finish(h) /\ UNCHANGED <<now, sess, down, reap>>
    BY <1>10 DEF Finalize
  <2>2. \A k \in Keys : Ages(h, k)
    BY <1>10, Finalized DEF Ages, SameFate, IsRow
  <2> QED
    BY <1>3, <2>1, <2>2
<1>11. CASE ReportBlock(h)
  <2>1. /\ At(h, "rep_block") /\ Goto(h, "rep_cut") /\ UNCHANGED <<now, sess, down, reap>>
    BY <1>11 DEF ReportBlock
  <2>2. \A k \in Keys : Ages(h, k)
    BY <1>11, Blocked DEF Ages, SameRecord, SameFate
  <2> QED
    BY <1>2, <2>1, <2>2 DEF OpenSteps, UnlockSteps, RemoveSteps
<1>12. CASE ReportCut(h)
  <2>1. /\ At(h, "rep_cut") /\ Goto(h, "rep_record") /\ UNCHANGED <<now, drop, sess, reap>>
        /\ down' \subseteq down
    BY <1>12 DEF ReportCut, WithoutDrop, stored
  <2> QED
    BY <1>2, <2>1, RowsStill DEF OpenSteps, UnlockSteps, RemoveSteps
<1>13. CASE ReportRecord(h) \/ ServeEnd(h)
  <2>1. /\ req[h].pc \in {"rep_record", "serving"} /\ Finish(h)
        /\ UNCHANGED <<now, drop, sess, down, reap>>
    BY <1>13 DEF ReportRecord, ServeEnd, stored
  <2> QED
    BY <1>3, <2>1, RowsStill
<1>14. CASE UnlockFiles(h)
  <2>1. /\ At(h, "unlock_files")
        /\ Goto(h, "unlock_put") \/ Finish(h)
        /\ UNCHANGED <<now, drop, sess, down, reap>>
    BY <1>14 DEF UnlockFiles, stored
  <2> QED
    BY <1>2, <1>3, <2>1, RowsStill DEF OpenSteps, UnlockSteps, RemoveSteps
<1>15. CASE OpenRow(h) \/ OpenBlob(h)
  <2>1. /\ req[h].pc \in {"open_row", "open_blob"}
        /\ Goto(h, "open_blob") \/ Goto(h, "serving") \/ Finish(h)
        /\ UNCHANGED <<now, drop, sess, down, reap>>
    BY <1>15 DEF OpenRow, OpenBlob, stored
  <2> QED
    BY <1>2, <1>3, <2>1, RowsStill DEF OpenSteps, UnlockSteps, RemoveSteps
<1>16. CASE CancelCheck(h)
  <2>1. /\ At(h, "cancel_check") /\ UNCHANGED <<now, drop, sess, down, reap>>
    BY <1>16 DEF CancelCheck, stored
  <2>2. ASSUME NEW k \in Keys, Begin(h, "del_cut", k)
        PROVE  Ordinary(h)
    <3>1. Alone(h) /\ Moves(h)
      BY <2>1, <2>2, BeginMoves DEF OpenSteps, UnlockSteps, RemoveSteps
    <3> QED
      BY <2>1, <3>1, RowsStill DEF Ordinary, ListOK
  <2> QED
    BY <1>3, <1>16, <2>1, <2>2, RowsStill DEF CancelCheck
<1>17. CASE SessionDeleteRead(h)
  <2>1. /\ At(h, "sdel_read") /\ UNCHANGED <<now, drop, sess, down, reap>>
    BY <1>17 DEF SessionDeleteRead, stored
  <2>2. ASSUME NEW k \in Keys, req' = [req EXCEPT ![h].pc = "del_cut", ![h].k = k]
        PROVE  Ordinary(h)
    <3>1. Alone(h) /\ req'[h].pc = "del_cut"
      BY <1>1, <2>2 DEF Alone, Request
    <3>2. Moves(h)
      BY <1>1, <2>1, <3>1 DEF Moves, OpenSteps, UnlockSteps, RemoveSteps
    <3> QED
      BY <2>1, <3>1, <3>2, RowsStill DEF Ordinary, ListOK
  <2> QED
    BY <1>3, <1>17, <2>1, <2>2, RowsStill DEF SessionDeleteRead
<1> QED
  BY <1>1, <1>4, <1>5, <1>6, <1>7, <1>8, <1>9, <1>10, <1>11, <1>12, <1>13, <1>14,
     <1>15, <1>16, <1>17, DeleteO DEF Proceed

\* A client that goes away.
LEMMA DisconnectO ==
  ASSUME IInv, NEW h \in Handlers, Disconnect(h)
  PROVE  Ordinary(h)
<1>1. h \in Procs
  BY ProcsFacts
<1>2. /\ "disconnect" \in Requests /\ Finish(h)
      /\ UNCHANGED <<now, drop, sess, down, reap>>
  BY DEF Disconnect, stored
<1>3. Alone(h) /\ Moves(h)
  BY <1>1, <1>2, FinishMoves
<1> QED
  BY <1>2, <1>3, RowsStill DEF Ordinary, ListOK

\* sessionTable.put.
LEMMA SessionPut ==
  ASSUME IInv, NEW h \in Handlers, NEW t \in Tokens, UnlockPut(h, t)
  PROVE  /\ At(h, "unlock_put") /\ req[h].k \in Keys /\ drop[req[h].k].status # "none"
         /\ Alone(h) /\ req'[h].pc = "idle"
         /\ sess[t].key = Nobody
         /\ sess'[t].key = req[h].k /\ ~sess'[t].charged /\ ~sess'[t].claimed
         /\ \A u \in Tokens : u # t => sess'[u] = sess[u]
         /\ down' = down \cup {t} /\ UNCHANGED <<now, drop, reap>>
<1>1. h \in Procs /\ h # Sweeper /\ sess \in [Tokens -> Session]
  BY ProcsFacts DEF IInv, TypeOK
<1>2. /\ At(h, "unlock_put") /\ Finish(h) /\ UNCHANGED <<now, drop, reap>>
      /\ sess[t].key = Nobody /\ down' = down \cup {t}
      /\ sess' = [sess EXCEPT ![t] = [NoSession EXCEPT !.key = req[h].k, !.id = RowId(h),
                                                       !.expiresAt = now + DownloadTTL]]
  BY DEF UnlockPut, stored
<1>3. req[h].k \in Keys /\ drop[req[h].k].status # "none"
  BY <1>1, <1>2 DEF IInv, HoldOK, HoldingSteps, At
<1>4. /\ sess'[t].key = req[h].k /\ ~sess'[t].charged /\ ~sess'[t].claimed
      /\ \A u \in Tokens : u # t => sess'[u] = sess[u]
  BY <1>1, <1>2 DEF NoSession
<1>5. Alone(h) /\ req'[h].pc = "idle"
  BY <1>1, <1>2, Finished
<1> QED
  BY <1>2, <1>3, <1>4, <1>5

\* A claim that succeeds: ClaimDownload's UPDATE has matched the row.
Claims(h) ==
  LET k == req[h].k
      t == req[h].t
  IN  /\ At(h, "open_claim") /\ TableFree
      /\ t \in Tokens /\ k \in Keys /\ sess[t].key = k /\ ~sess[t].claimed
      /\ drop[k].status = "ready"
      /\ Alone(h) /\ req'[h].pc = "open_claimed" /\ req'[h].t = t
      /\ sess'[t].key = k /\ sess'[t].charged /\ ~sess'[t].claimed
      /\ \A u \in Tokens : u # t => sess'[u] = sess[u]
      /\ UNCHANGED <<now, down, reap>>
      /\ \A j \in Keys : SameFate(j) /\ SameDates(j)
      /\ \A j \in Keys : j # k => SameCount(j)
      /\ drop'[k].downloads = drop[k].downloads + 1

\* claimOnce claims, or is an ordinary step.
LEMMA ClaimKinds ==
  ASSUME IInv, NEW h \in Handlers, OpenClaim(h)
  PROVE  Claims(h) \/ Ordinary(h)
<1> DEFINE k == req[h].k
           t == req[h].t
<1>1. h \in Procs /\ sess \in [Tokens -> Session]
  BY ProcsFacts DEF IInv, TypeOK
<1>2. At(h, "open_claim") /\ TableFree /\ UNCHANGED <<now, down, reap>>
  BY DEF OpenClaim
<1>3. t \in Tokens /\ k \in Keys /\ sess[t].key = k /\ sess[t] \in Session
  BY <1>1, <1>2 DEF IInv, OpenOK, OpenSteps, HoldOK, HoldingSteps, At, TypeOK
<1>4. CASE (Goto(h, "open_row") \/ Finish(h)) /\ UNCHANGED <<drop, sess>>
  <2>1. Alone(h) /\ Moves(h)
    BY <1>1, <1>2, <1>4, GotoMoves, FinishMoves DEF At, OpenSteps, UnlockSteps, RemoveSteps
  <2> QED
    BY <1>2, <1>4, <2>1, RowsStill DEF Ordinary, ListOK
<1>5. CASE /\ ~sess[t].claimed /\ Live(k) /\ Goto(h, "open_claimed")
           /\ drop' = [drop EXCEPT ![k].downloads = @ + 1]
           /\ sess' = [sess EXCEPT ![t].charged = TRUE]
  <2>1. /\ sess'[t] = [sess[t] EXCEPT !.charged = TRUE]
        /\ \A u \in Tokens : u # t => sess'[u] = sess[u]
    BY <1>1, <1>3, <1>5
  <2>2. sess'[t].key = k /\ sess'[t].charged /\ ~sess'[t].claimed
    BY <1>3, <1>5, <2>1 DEF Session
  <2>3. drop \in [Keys -> Drop] /\ drop[k] \in Drop
    BY <1>3 DEF IInv, TypeOK
  <2>4. drop'[k] = [drop[k] EXCEPT !.downloads = @ + 1]
    BY <1>3, <1>5, <2>3
  <2>5. drop'[k].downloads = drop[k].downloads + 1
    BY <2>3, <2>4 DEF Drop
  <2>6. \A j \in Keys : SameFate(j) /\ SameDates(j)
    BY ClaimCounted
  <2>7. \A j \in Keys : j # k => SameCount(j)
    BY <1>5, <2>3 DEF SameCount
  <2>8. Alone(h) /\ req'[h].pc = "open_claimed" /\ req'[h].t = t
    BY <1>1, <1>5, Went
  <2> QED
    BY <1>2, <1>3, <1>5, <2>1, <2>2, <2>5, <2>6, <2>7, <2>8 DEF Claims, Live
<1> QED
  BY <1>4, <1>5 DEF OpenClaim

\* The end of claimOnce.
LEMMA ClaimEnded ==
  ASSUME IInv, NEW h \in Handlers, OpenClaimed(h)
  PROVE  LET k == req[h].k
             t == req[h].t
         IN  /\ At(h, "open_claimed") /\ t \in Tokens /\ k \in Keys /\ sess[t].key = k
             /\ drop[k].status # "none"
             /\ Alone(h) /\ UNCHANGED <<now, drop, down, reap>>
             /\ \A u \in Tokens : u # t => sess'[u] = sess[u]
             /\ sess'[t].key = k /\ sess'[t].charged = sess[t].charged
             /\ \/ req'[h].pc = "open_row" /\ req'[h].t = t /\ sess'[t].claimed
                \/ req'[h].pc = "idle" /\ ~HasRow(k) /\ UNCHANGED sess
<1> DEFINE k == req[h].k
           t == req[h].t
<1>1. h \in Procs /\ h # Sweeper /\ sess \in [Tokens -> Session]
  BY ProcsFacts DEF IInv, TypeOK
<1>2. At(h, "open_claimed") /\ UNCHANGED <<now, drop, down, reap>>
  BY DEF OpenClaimed, stored
<1>3. /\ t \in Tokens /\ k \in Keys /\ sess[t].key = k /\ sess[t] \in Session
      /\ drop[k].status # "none"
  BY <1>1, <1>2 DEF IInv, OpenOK, OpenSteps, HoldOK, HoldingSteps, At, TypeOK
<1>4. CASE sess' = [sess EXCEPT ![t].claimed = TRUE] /\ Goto(h, "open_row")
  <2>1. /\ sess'[t] = [sess[t] EXCEPT !.claimed = TRUE]
        /\ \A u \in Tokens : u # t => sess'[u] = sess[u]
    BY <1>1, <1>3, <1>4
  <2>2. sess'[t].key = k /\ sess'[t].charged = sess[t].charged /\ sess'[t].claimed
    BY <1>3, <2>1 DEF Session
  <2>3. Alone(h) /\ req'[h].pc = "open_row" /\ req'[h].t = t
    BY <1>1, <1>4, Went
  <2> QED
    BY <1>2, <1>3, <2>1, <2>2, <2>3
<1>5. CASE Finish(h) /\ UNCHANGED sess /\ ~HasRow(k)
  <2>1. Alone(h) /\ req'[h].pc = "idle"
    BY <1>1, <1>5, Finished
  <2> QED
    BY <1>2, <1>3, <1>5, <2>1
<1> QED
  BY <1>4, <1>5 DEF OpenClaimed

\* The kinds of step.
LEMMA StepKinds ==
  ASSUME IInv, [Next]_vars
  PROVE  \/ UNCHANGED vars
         \/ \E p \in Procs : Ordinary(p)
         \/ \E h \in Handlers : \/ Claims(h)
                                \/ OpenClaimed(h)
                                \/ \E t \in Tokens : UnlockPut(h, t)
         \/ Restart
         \/ Tick
<1>1. ASSUME NEW h \in Handlers, Proceed(h)
      PROVE  Ordinary(h) \/ Claims(h) \/ OpenClaimed(h) \/ \E t \in Tokens : UnlockPut(h, t)
  BY <1>1, ProceedO, ClaimKinds
<1> QED
  BY <1>1, AcceptO, DisconnectO, SweepO, ProcsFacts DEF Next

-----------------------------------------------------------------------------
(***************************************************************************)
(* One password entry, one download.  A claim that was charged and not     *)
(* recorded cannot be made again: its claimOnce is still running, or its   *)
(* share is gone, or a restart has emptied the table.                      *)
(***************************************************************************)

\* A token that Unlock has not given out has paid nothing.
BlankOK == \A t \in Tokens : sess[t].key = Nobody => ~sess[t].charged

HalfClaimed(t) == sess[t].charged /\ ~sess[t].claimed
HalfOK ==
  \A t \in Tokens : HalfClaimed(t) =>
    \/ \E p \in Procs : At(p, "open_claimed") /\ req[p].t = t
    \/ drop[sess[t].key].status = "gone"
    \/ t \notin down /\ \A p \in Procs : req[p].pc \in OpenSteps => req[p].t # t

OInv == BlankOK /\ HalfOK /\ OneDownloadPerSession

\* A token stays blank until Unlock draws it.
LEMMA BlankKept ==
  ASSUME IInv, BlankOK, [Next]_vars
  PROVE  BlankOK'
<1>1. CASE UNCHANGED vars \/ Restart \/ Tick
  BY <1>1 DEF BlankOK, vars, Restart, Tick
<1>2. ASSUME NEW p \in Procs, Ordinary(p) PROVE BlankOK'
  BY <1>2 DEF BlankOK, Ordinary
<1>3. ASSUME NEW h \in Handlers, Claims(h) PROVE BlankOK'
  BY <1>3, NobodyAssumption DEF BlankOK, Claims
<1>4. ASSUME NEW h \in Handlers, OpenClaimed(h) PROVE BlankOK'
  BY <1>4, ClaimEnded, NobodyAssumption DEF BlankOK
<1>5. ASSUME NEW h \in Handlers, NEW t \in Tokens, UnlockPut(h, t) PROVE BlankOK'
  BY <1>5, SessionPut DEF BlankOK
<1> QED
  BY <1>1, <1>2, <1>3, <1>4, <1>5, StepKinds

\* An ordinary step, if clients do not go away.
LEMMA OrdinaryOne ==
  ASSUME IInv, OInv, "disconnect" \notin Requests, NEW p \in Procs, Ordinary(p)
  PROVE  HalfOK' /\ OneDownloadPerSession'
<1>1. /\ Alone(p) /\ UNCHANGED sess /\ down' \subseteq down /\ Moves(p)
      /\ \A k \in Keys : Ages(p, k)
  BY DEF Ordinary
<1>2. OneDownloadPerSession'
  BY <1>1 DEF OInv, OneDownloadPerSession, Ages, SameCount, Charged
<1>3. ASSUME NEW t \in Tokens, HalfClaimed(t)'
      PROVE  \/ \E q \in Procs : req'[q].pc = "open_claimed" /\ req'[q].t = t
             \/ drop'[sess'[t].key].status = "gone"
             \/ t \notin down' /\ \A q \in Procs : req'[q].pc \in OpenSteps => req'[q].t # t
  <2>1. HalfClaimed(t) /\ sess[t].key \in Keys /\ sess'[t].key = sess[t].key
    BY <1>1, <1>3 DEF HalfClaimed, OInv, BlankOK, IInv, SessOK
  <2>2. CASE \E q \in Procs : At(q, "open_claimed") /\ req[q].t = t
    <3>1. PICK q \in Procs : At(q, "open_claimed") /\ req[q].t = t
      BY <2>2
    <3>2. q # p
      BY <1>1, <3>1 DEF Moves
    <3> QED
      BY <1>1, <3>1, <3>2 DEF Alone, At
  <2>3. CASE drop[sess[t].key].status = "gone"
    BY <1>1, <2>1, <2>3 DEF Ages, HasRow, IsRow
  <2>4. CASE t \notin down /\ \A q \in Procs : req[q].pc \in OpenSteps => req[q].t # t
    BY <1>1, <2>4 DEF Alone, Moves
  <2> QED
    BY <2>1, <2>2, <2>3, <2>4 DEF OInv, HalfOK
<1> QED
  BY <1>2, <1>3 DEF HalfOK, At

\* A claim charges a session that has not paid yet.
LEMMA ClaimsOne ==
  ASSUME IInv, OInv, NEW h \in Handlers, Claims(h)
  PROVE  HalfOK' /\ OneDownloadPerSession'
<1>0. PICK k \in Keys, t \in Tokens : k = req[h].k /\ t = req[h].t
  BY DEF Claims
<1>1. h \in Procs
  BY ProcsFacts
<1>2. /\ At(h, "open_claim") /\ mu = Nobody
      /\ t \in Tokens /\ k \in Keys /\ sess[t].key = k /\ ~sess[t].claimed
      /\ drop[k].status = "ready"
      /\ Alone(h) /\ req'[h].pc = "open_claimed" /\ req'[h].t = t
      /\ sess'[t].key = k /\ sess'[t].charged /\ ~sess'[t].claimed
      /\ \A u \in Tokens : u # t => sess'[u] = sess[u]
      /\ down' = down
      /\ \A j \in Keys : SameFate(j)
      /\ \A j \in Keys : j # k => SameCount(j)
      /\ drop'[k].downloads = drop[k].downloads + 1
  BY <1>0 DEF Claims, TableFree
<1>3. \A p \in Procs : ~At(p, "open_claimed")
  BY <1>2, NobodyAssumption DEF IInv, OpenOK
<1>4. ~sess[t].charged
  BY <1>0, <1>1, <1>2, <1>3 DEF OInv, HalfOK, HalfClaimed, OpenSteps, At
<1>5. OneDownloadPerSession'
  <2>1. Charged(k)' = Charged(k) \cup {t} /\ t \notin Charged(k)
    BY <1>2, <1>4 DEF Charged
  <2>2. IsFiniteSet(Charged(k))
    BY TokensAssumption, FS_Subset DEF Charged
  <2>3. Cardinality(Charged(k)') = Cardinality(Charged(k)) + 1 /\ Cardinality(Charged(k)) \in Nat
    BY <2>1, <2>2, FS_AddElement, FS_CardinalityType
  <2>4. drop[k].downloads \in Nat /\ drop[k].downloads <= Cardinality(Charged(k))
    BY <1>2 DEF IInv, TypeOK, Drop, OInv, OneDownloadPerSession
  <2>5. drop'[k].downloads <= Cardinality(Charged(k)')
    BY <1>2, <2>3, <2>4
  <2>6. ASSUME NEW j \in Keys, j # k
        PROVE  drop'[j].downloads <= Cardinality(Charged(j)')
    <3>1. Charged(j)' = Charged(j)
      BY <1>2, <2>6 DEF Charged
    <3> QED
      BY <1>2, <2>6, <3>1 DEF OInv, OneDownloadPerSession, SameCount
  <2> QED
    BY <2>5, <2>6 DEF OneDownloadPerSession
<1>6. ASSUME NEW u \in Tokens, u # t, HalfClaimed(u)'
      PROVE  \/ drop'[sess'[u].key].status = "gone"
             \/ u \notin down' /\ \A q \in Procs : req'[q].pc \in OpenSteps => req'[q].t # u
  <2>1. HalfClaimed(u) /\ sess[u].key \in Keys /\ sess'[u].key = sess[u].key
    BY <1>2, <1>6 DEF HalfClaimed, OInv, BlankOK, IInv, SessOK
  <2>2. CASE drop[sess[u].key].status = "gone"
    BY <1>2, <2>1, <2>2 DEF SameFate
  <2>3. CASE u \notin down /\ \A q \in Procs : req[q].pc \in OpenSteps => req[q].t # u
    BY <1>2, <1>6, <2>3 DEF Alone
  <2> QED
    BY <1>3, <2>1, <2>2, <2>3 DEF OInv, HalfOK
<1> QED
  BY <1>1, <1>2, <1>5, <1>6 DEF HalfOK, At

\* The end of a claim: it is recorded, or the row has gone.
LEMMA ClaimedOne ==
  ASSUME IInv, OInv, NEW h \in Handlers, OpenClaimed(h)
  PROVE  HalfOK' /\ OneDownloadPerSession'
<1>0. PICK k \in Keys, t \in Tokens : k = req[h].k /\ t = req[h].t
  BY ClaimEnded
<1>1. h \in Procs
  BY ProcsFacts
<1>2. /\ At(h, "open_claimed") /\ t \in Tokens /\ k \in Keys /\ sess[t].key = k
      /\ drop[k].status # "none"
      /\ Alone(h) /\ drop' = drop /\ down' = down
      /\ \A u \in Tokens : u # t => sess'[u] = sess[u]
      /\ sess'[t].key = k /\ sess'[t].charged = sess[t].charged
      /\ \/ req'[h].pc = "open_row" /\ req'[h].t = t /\ sess'[t].claimed
         \/ req'[h].pc = "idle" /\ ~HasRow(k)
  BY <1>0, ClaimEnded
<1>3. \A j \in Keys : Charged(j)' = Charged(j)
  BY <1>2 DEF Charged
<1>4. OneDownloadPerSession'
  BY <1>2, <1>3 DEF OInv, OneDownloadPerSession
<1>5. HalfClaimed(t)' => drop'[sess'[t].key].status = "gone"
  <2>1. drop[k].status \in {"none", "pending", "ready", "gone"}
    BY <1>2 DEF IInv, TypeOK, Drop
  <2> QED
    BY <1>2, <2>1 DEF HalfClaimed, HasRow
<1>6. ASSUME NEW u \in Tokens, u # t, HalfClaimed(u)'
      PROVE  \/ drop'[sess'[u].key].status = "gone"
             \/ \E q \in Procs : req'[q].pc = "open_claimed" /\ req'[q].t = u
             \/ u \notin down' /\ \A q \in Procs : req'[q].pc \in OpenSteps => req'[q].t # u
  <2>1. HalfClaimed(u) /\ sess'[u].key = sess[u].key
    BY <1>2, <1>6 DEF HalfClaimed
  <2>2. CASE \E q \in Procs : At(q, "open_claimed") /\ req[q].t = u
    BY <1>0, <1>2, <1>6, <2>2 DEF Alone, At
  <2>3. CASE drop[sess[u].key].status = "gone"
    BY <1>2, <2>1, <2>3
  <2>4. CASE u \notin down /\ \A q \in Procs : req[q].pc \in OpenSteps => req[q].t # u
    BY <1>2, <1>6, <2>4 DEF Alone, OpenSteps
  <2> QED
    BY <2>1, <2>2, <2>3, <2>4 DEF OInv, HalfOK
<1> QED
  BY <1>4, <1>5, <1>6 DEF HalfOK, At

\* The session that Unlock adds has paid nothing.
LEMMA PutOne ==
  ASSUME IInv, OInv, NEW h \in Handlers, NEW t \in Tokens, UnlockPut(h, t)
  PROVE  HalfOK' /\ OneDownloadPerSession'
<1>1. h \in Procs
  BY ProcsFacts
<1>2. /\ At(h, "unlock_put") /\ Alone(h) /\ req'[h].pc = "idle"
      /\ sess[t].key = Nobody /\ ~sess[t].charged /\ ~sess'[t].charged
      /\ \A u \in Tokens : u # t => sess'[u] = sess[u]
      /\ down' = down \cup {t} /\ drop' = drop
  BY SessionPut DEF OInv, BlankOK
<1>3. \A j \in Keys : Charged(j)' = Charged(j)
  BY <1>2 DEF Charged
<1>4. OneDownloadPerSession'
  BY <1>2, <1>3 DEF OInv, OneDownloadPerSession
<1>5. ASSUME NEW u \in Tokens, HalfClaimed(u)'
      PROVE  \/ drop'[sess'[u].key].status = "gone"
             \/ \E q \in Procs : req'[q].pc = "open_claimed" /\ req'[q].t = u
             \/ u \notin down' /\ \A q \in Procs : req'[q].pc \in OpenSteps => req'[q].t # u
  <2>1. u # t /\ HalfClaimed(u) /\ sess'[u].key = sess[u].key
    BY <1>2, <1>5 DEF HalfClaimed
  <2>2. CASE \E q \in Procs : At(q, "open_claimed") /\ req[q].t = u
    BY <1>2, <2>2 DEF Alone, At
  <2>3. CASE drop[sess[u].key].status = "gone"
    BY <1>2, <2>1, <2>3
  <2>4. CASE u \notin down /\ \A q \in Procs : req[q].pc \in OpenSteps => req[q].t # u
    BY <1>2, <2>1, <2>4 DEF Alone, OpenSteps
  <2> QED
    BY <2>1, <2>2, <2>3, <2>4 DEF OInv, HalfOK
<1> QED
  BY <1>4, <1>5 DEF HalfOK, At

\* A restart loses whatever was half-way.
LEMMA RestartOne ==
  ASSUME IInv, OInv, Restart
  PROVE  HalfOK' /\ OneDownloadPerSession'
<1>1. UNCHANGED <<drop, sess>> /\ down' = {} /\ req' = [p \in Procs |-> Idle]
  BY DEF Restart, stored
<1>2. \A p \in Procs : req'[p].pc \notin OpenSteps
  BY <1>1 DEF Idle, OpenSteps
<1> QED
  BY <1>1, <1>2 DEF HalfOK, OInv, OneDownloadPerSession, Charged

\* Every step keeps the invariant, if clients do not go away.
LEMMA NextOne ==
  ASSUME IInv, OInv, "disconnect" \notin Requests, [Next]_vars
  PROVE  OInv'
<1>1. CASE UNCHANGED vars \/ Tick
  <2>1. UNCHANGED <<drop, sess, down, req>>
    BY <1>1 DEF vars, Tick, stored
  <2>2. HalfOK' = HalfOK
    BY <2>1 DEF HalfOK, HalfClaimed, At
  <2>3. OneDownloadPerSession' = OneDownloadPerSession
    BY <2>1 DEF OneDownloadPerSession, Charged
  <2> QED
    BY <2>2, <2>3, BlankKept DEF OInv
<1> QED
  BY <1>1, StepKinds, BlankKept, OrdinaryOne, ClaimsOne, ClaimedOne, PutOne, RestartOne
     DEF OInv

\* A session consumes one download of its share, for any number of shares,
\* sessions, requests and restarts, as long as no client goes away in the
\* middle of claimOnce: two requests of one session never both pay.
THEOREM OneSessionOneDownload ==
  "disconnect" \notin Requests => (Spec => []OneDownloadPerSession)
<1> SUFFICES ASSUME "disconnect" \notin Requests
             PROVE  Spec => []OneDownloadPerSession
  OBVIOUS
<1>1. Init => OInv
  <2> SUFFICES ASSUME Init PROVE OInv
    OBVIOUS
  <2>1. \A t \in Tokens : ~sess[t].charged
    BY DEF Init, NoSession
  <2>2. \A k \in Keys : drop[k].downloads = 0 /\ Charged(k) = {}
    BY <2>1 DEF Init, NoDrop, Charged
  <2>3. OneDownloadPerSession
    BY <2>2, FS_EmptySet DEF OneDownloadPerSession
  <2> QED
    BY <2>1, <2>3 DEF OInv, BlankOK, HalfOK, HalfClaimed
<1>2. IInv /\ OInv /\ [Next]_vars => OInv'
  BY NextOne
<1>3. OInv => OneDownloadPerSession
  BY DEF OInv
<1> QED
  BY <1>1, <1>2, <1>3, Invariance, PTL DEF Spec

-----------------------------------------------------------------------------
(***************************************************************************)
(* What has been paid for can be fetched.  Where no client deletes, a row  *)
(* goes only by Sweep's hand, and Sweep lists a share either when nothing  *)
(* is promised of it any more or while it is an upload nobody can unlock.  *)
(***************************************************************************)

\* The share's promise is over.
Ended(k) == \/ drop[k].expiresAt <= now
            \/ drop[k].downloads >= drop[k].maxDownloads
            \/ drop[k].lapsed

Abandoned(k) == drop[k].status = "pending" /\ UploadEnded(k, now)
Due(k) == HasRow(k) /\ (Ended(k) \/ Abandoned(k))

\* No session of k exists or is about to.
NeverUnlocked(k) ==
  /\ \A t \in Tokens : sess[t].key # k
  /\ \A p \in Procs : req[p].pc \in UnlockSteps => req[p].k # k

\* Sweep is going to delete k.
Listed(k) == \/ k \in reap
             \/ req[Sweeper].pc \in RemoveSteps /\ req[Sweeper].k = k

ListedOK == \A k \in Keys : Listed(k) => Due(k)
OnceOK == req[Sweeper].pc \in RemoveSteps => req[Sweeper].k \notin reap
CallersOK == \A h \in Handlers : req[h].pc \notin RemoveSteps
LockedOK == \A k \in Keys :
  /\ drop[k].status = "gone" => Ended(k) \/ NeverUnlocked(k)
  /\ drop[k].status = "pending" => NeverUnlocked(k)
DistinctOK == \A j, k \in Keys :
  HasRow(j) /\ HasRow(k) /\ drop[j].id = drop[k].id => j = k

FParts == ListedOK /\ OnceOK /\ CallersOK /\ LockedOK /\ DistinctOK
FInv == BlankOK /\ FParts

\* What is over stays over, in an ordinary step.
LEMMA EndedKept ==
  ASSUME NEW p \in Procs, Ordinary(p), NEW k \in Keys, drop[k].status # "none", Ended(k)
  PROVE  Ended(k)'
  BY DEF Ordinary, Ages, SameDates, SameCount, Ended

\* What is due stays due until it is deleted: an upload that is published after
\* its window is due all the same.
LEMMA DueKept ==
  ASSUME NEW p \in Procs, Ordinary(p), NEW k \in Keys, Due(k), drop'[k].status # "gone"
  PROVE  Due(k)'
<1>1. HasRow(k) /\ drop[k].status # "none" /\ UNCHANGED now
  BY DEF Due, HasRow, Ordinary
<1>2. HasRow(k)'
  BY <1>1 DEF Ordinary, Ages, HasRow
<1>3. CASE Ended(k)
  BY <1>1, <1>2, <1>3, EndedKept DEF Due
<1>4. CASE Abandoned(k)
  <2>1. Abandoned(k)' \/ drop'[k].lapsed
    BY <1>1, <1>4 DEF Abandoned, Ordinary, Ages, SameDates, UploadEnded
  <2> QED
    BY <1>2, <2>1 DEF Due, Ended
<1> QED
  BY <1>3, <1>4 DEF Due

\* Only a published share is unlocked.
LEMMA LockedKept ==
  ASSUME NEW p \in Procs, Ordinary(p), NEW k \in Keys, drop[k].status # "ready",
         NeverUnlocked(k)
  PROVE  NeverUnlocked(k)'
  BY DEF Ordinary, Moves, Alone, NeverUnlocked

\* The row that a step deletes is the one Sweep has in hand.
LEMMA SweptRow ==
  ASSUME IInv, FInv, NEW p \in Procs, Ordinary(p), NEW k \in Keys,
         drop[k].status # "gone", drop'[k].status = "gone"
  PROVE  /\ p = Sweeper /\ At(p, "del_row") /\ Due(k) /\ ~Listed(k)'
<1>1. At(p, "del_row") /\ IsRow(k, RowId(p)) /\ req'[p].pc \notin RemoveSteps
  BY DEF Ordinary, Ages
<1>2. p = Sweeper
  BY <1>1 DEF FInv, FParts, CallersOK, RemoveSteps, At, Procs
<1>3. req[p].k \in Keys /\ Listed(req[p].k)
  BY <1>1, <1>2 DEF Listed, RemoveSteps, At, IInv, HoldOK, HoldingSteps
<1>4. Due(req[p].k)
  BY <1>3 DEF FInv, FParts, ListedOK
<1>5. k = req[p].k
  BY <1>1, <1>3, <1>4 DEF Due, IsRow, RowId, FInv, FParts, DistinctOK
<1>6. k \notin reap /\ reap' \subseteq reap
  BY <1>1, <1>2, <1>5 DEF FInv, FParts, OnceOK, RemoveSteps, At, Ordinary, ListOK
<1> QED
  BY <1>1, <1>2, <1>4, <1>5, <1>6 DEF Listed

\* An ordinary step, if no client deletes.
LEMMA OrdinaryPaid ==
  ASSUME IInv, IInv', SInv, FInv, ~DeletingClients, NEW p \in Procs, Ordinary(p)
  PROVE  FParts'
<1>1. /\ Alone(p) /\ UNCHANGED <<now, sess>> /\ Moves(p) /\ ListOK(p)
      /\ \A k \in Keys : Ages(p, k)
  BY DEF Ordinary
<1>2. CallersOK'
  BY <1>1, ProcsFacts DEF FInv, FParts, CallersOK, Moves, Alone
<1>3. OnceOK'
  BY <1>1, ProcsFacts DEF FInv, FParts, OnceOK, Moves, Alone, ListOK, RemoveSteps, At
<1>4. ASSUME NEW k \in Keys, Listed(k)'
      PROVE  Due(k)'
  <2>1. CASE Listed(k)
    <3>1. Due(k)
      BY <2>1 DEF FInv, FParts, ListedOK
    <3>2. drop[k].status # "gone"
      BY <3>1 DEF Due, HasRow
    <3>3. drop'[k].status # "gone"
      BY <1>4, <3>2, SweptRow
    <3> QED
      BY <3>1, <3>3, DueKept
  <2>2. CASE ~Listed(k)
    <3>1. At(Sweeper, "sweep_list") /\ p = Sweeper /\ k \in Reapable(req[Sweeper].at)
      BY <1>1, <1>4, <2>2, ProcsFacts DEF Listed, Moves, Alone, ListOK
    <3>2. req[Sweeper].at <= now /\ req[Sweeper].at \in Nat /\ now \in Nat
      BY <3>1, ProcsFacts DEF SInv, AlwaysOK, IInv, TypeOK, Request
    <3>3. drop[k] \in Drop
      BY DEF IInv, TypeOK
    <3>4. Due(k)
      BY <3>1, <3>2, <3>3, BoundsAssumption
         DEF Reapable, Due, Ended, Abandoned, UploadEnded, Drop
    <3>5. drop'[k].status # "gone"
      BY <3>1, <3>4, SweptRow DEF Due, HasRow, At
    <3> QED
      BY <3>4, <3>5, DueKept
  <2> QED
    BY <2>1, <2>2
<1>5. ASSUME NEW k \in Keys, drop'[k].status = "gone"
      PROVE  Ended(k)' \/ NeverUnlocked(k)'
  <2>1. CASE drop[k].status = "gone"
    BY <2>1, EndedKept, LockedKept DEF FInv, FParts, LockedOK
  <2>2. CASE drop[k].status # "gone"
    <3>1. Due(k) /\ drop[k].status # "none"
      BY <1>5, <2>2, SweptRow DEF Due, HasRow
    <3>2. CASE Ended(k)
      BY <3>1, <3>2, EndedKept
    <3>3. CASE Abandoned(k)
      BY <3>3, LockedKept DEF Abandoned, FInv, FParts, LockedOK
    <3> QED
      BY <3>1, <3>2, <3>3 DEF Due
  <2> QED
    BY <2>1, <2>2
<1>6. ASSUME NEW k \in Keys, drop'[k].status = "pending"
      PROVE  NeverUnlocked(k)'
  <2>1. drop[k].status \in {"pending", "none"}
    BY <1>1, <1>6 DEF Ages
  <2>2. CASE drop[k].status = "pending"
    BY <2>2, LockedKept DEF FInv, FParts, LockedOK
  <2>3. CASE drop[k].status = "none"
    <3>1. \A t \in Tokens : sess[t].key # k
      BY <2>3, NobodyAssumption DEF IInv, SessOK
    <3>2. \A q \in Procs : req[q].pc \in UnlockSteps => req[q].k # k
      BY <2>3 DEF IInv, HoldOK, HoldingSteps, UnlockSteps
    <3> QED
      BY <2>3, <3>1, <3>2, LockedKept DEF NeverUnlocked
  <2> QED
    BY <2>1, <2>2, <2>3
<1>7. DistinctOK'
  <2> SUFFICES ASSUME NEW j \in Keys, NEW k \in Keys, HasRow(j)', HasRow(k)',
                      drop'[j].id = drop'[k].id, j # k
               PROVE  FALSE
    BY DEF DistinctOK
  <2>1. \A i \in Keys : HasRow(i)' =>
          \/ HasRow(i) /\ drop'[i].id = drop[i].id
          \/ i = req[p].k /\ drop[i].status = "none" /\ NextRowId(drop'[i].id)
    BY <1>1 DEF Ages, HasRow, SameDates
  <2>2. \A i \in Keys : drop[i].id \in Nat /\ drop'[i].id \in Nat
    BY DEF IInv, TypeOK, Drop
  <2>3. CASE HasRow(j) /\ drop'[j].id = drop[j].id /\ HasRow(k) /\ drop'[k].id = drop[k].id
    BY <2>3 DEF FInv, FParts, DistinctOK
  <2>4. CASE HasRow(j) /\ drop'[j].id = drop[j].id /\ NextRowId(drop'[k].id)
    BY <2>2, <2>4 DEF NextRowId
  <2>5. CASE HasRow(k) /\ drop'[k].id = drop[k].id /\ NextRowId(drop'[j].id)
    BY <2>2, <2>5 DEF NextRowId
  <2> QED
    BY <2>1, <2>3, <2>4, <2>5
<1> QED
  BY <1>2, <1>3, <1>4, <1>5, <1>6, <1>7 DEF FParts, ListedOK, LockedOK

\* Any other step: no row changes hands, and nobody begins to unlock or delete.
LEMMA QuietPaid ==
  ASSUME IInv, IInv', FInv, now' >= now, reap' \subseteq reap,
         \A k \in Keys : /\ SameFate(k) /\ SameDates(k)
                         /\ drop'[k].downloads >= drop[k].downloads,
         \A p \in Procs : req'[p].pc \in UnlockSteps \cup RemoveSteps => req'[p] = req[p],
         \A k \in Keys, t \in Tokens :
           drop[k].status \in {"pending", "gone"} /\ NeverUnlocked(k) => sess'[t].key # k
  PROVE  FParts'
<1>1. ASSUME NEW k \in Keys, Ended(k)
      PROVE  Ended(k)'
  <2>1. drop[k] \in Drop /\ drop'[k] \in Drop /\ now \in Nat /\ now' \in Nat
    BY DEF IInv, TypeOK
  <2> QED
    BY <1>1, <2>1 DEF Ended, SameFate, SameDates, Drop
<1>2. ASSUME NEW k \in Keys, Due(k)
      PROVE  Due(k)'
  <2>1. drop[k] \in Drop /\ drop'[k] \in Drop /\ now \in Nat /\ now' \in Nat
    BY DEF IInv, TypeOK
  <2>2. Abandoned(k) => Abandoned(k)'
    BY <2>1, BoundsAssumption DEF Abandoned, UploadEnded, SameFate, SameDates, Drop
  <2>3. HasRow(k) => HasRow(k)'
    BY DEF SameFate, HasRow
  <2> QED
    BY <1>1, <1>2, <2>2, <2>3 DEF Due
<1>3. ASSUME NEW k \in Keys, drop[k].status \in {"pending", "gone"}, NeverUnlocked(k)
      PROVE  NeverUnlocked(k)'
  BY <1>3 DEF NeverUnlocked
<1>4. \A k \in Keys : Listed(k)' => Listed(k)
  BY ProcsFacts DEF Listed
<1>5. ListedOK'
  BY <1>2, <1>4 DEF FInv, FParts, ListedOK
<1>6. OnceOK' /\ CallersOK'
  BY ProcsFacts DEF FInv, FParts, OnceOK, CallersOK
<1>7. LockedOK'
  BY <1>1, <1>3 DEF FInv, FParts, LockedOK, SameFate
<1>8. DistinctOK'
  BY DEF FInv, FParts, DistinctOK, HasRow, SameFate, SameDates
<1> QED
  BY <1>5, <1>6, <1>7, <1>8 DEF FParts

\* Every step keeps the invariant, if no client deletes.
LEMMA NextPaid ==
  ASSUME IInv, IInv', SInv, FInv, ~DeletingClients, [Next]_vars
  PROVE  FInv'
<1>0. /\ now \in Nat
      /\ \A k \in Keys : drop[k].downloads \in Nat
  BY DEF IInv, TypeOK, Drop
<1>1. ASSUME NEW h \in Handlers, Claims(h)
      PROVE  FInv'
  <2>1. /\ Alone(h) /\ req'[h].pc = "open_claimed" /\ UNCHANGED <<now, reap>>
        /\ \A u \in Tokens : sess'[u].key = sess[u].key
        /\ \A k \in Keys : SameFate(k) /\ SameDates(k)
    BY <1>1 DEF Claims
  <2>2. \A k \in Keys : drop'[k].downloads >= drop[k].downloads
    BY <1>0, <1>1 DEF Claims, SameCount
  <2> QED
    BY <1>0, <2>1, <2>2, BlankKept, QuietPaid
       DEF FInv, NeverUnlocked, UnlockSteps, RemoveSteps, Alone
<1>2. ASSUME NEW p \in Procs, Ordinary(p)
      PROVE  FInv'
  BY <1>2, BlankKept, OrdinaryPaid DEF FInv
<1>3. CASE UNCHANGED drop
  <2>1. \A k \in Keys : /\ SameFate(k) /\ SameDates(k)
                        /\ drop'[k].downloads >= drop[k].downloads
    BY <1>0, <1>3 DEF SameFate, SameDates
  <2>2. CASE UNCHANGED vars \/ Tick
    <3>1. UNCHANGED <<sess, req, reap>> /\ now' >= now
      BY <1>0, <2>2 DEF vars, Tick
    <3> QED
      BY <2>1, <3>1, BlankKept, QuietPaid DEF FInv, NeverUnlocked
  <2>3. CASE Restart
    <3>1. /\ UNCHANGED <<sess, now>> /\ reap' = {}
          /\ \A p \in Procs : req'[p].pc = "idle"
      BY <2>3 DEF Restart, Idle
    <3> QED
      BY <1>0, <2>1, <3>1, BlankKept, QuietPaid
         DEF FInv, NeverUnlocked, UnlockSteps, RemoveSteps
  <2>4. ASSUME NEW h \in Handlers, OpenClaimed(h)
        PROVE  FInv'
    <3>1. /\ Alone(h) /\ req'[h].pc \in {"open_row", "idle"} /\ UNCHANGED <<now, reap>>
          /\ \A u \in Tokens : sess'[u].key = sess[u].key
      BY <2>4, ClaimEnded
    <3> QED
      BY <1>0, <2>1, <3>1, BlankKept, QuietPaid
         DEF FInv, NeverUnlocked, UnlockSteps, RemoveSteps, Alone
  <2>5. ASSUME NEW h \in Handlers, NEW t \in Tokens, UnlockPut(h, t)
        PROVE  FInv'
    <3>1. /\ At(h, "unlock_put") /\ Alone(h) /\ req'[h].pc = "idle"
          /\ UNCHANGED <<now, reap>>
          /\ sess'[t].key = req[h].k
          /\ \A u \in Tokens : u # t => sess'[u] = sess[u]
      BY <2>5, SessionPut
    <3>2. \A k \in Keys : NeverUnlocked(k) => \A u \in Tokens : sess'[u].key # k
      BY <3>1, ProcsFacts DEF NeverUnlocked, UnlockSteps, At
    <3> QED
      BY <1>0, <2>1, <3>1, <3>2, BlankKept, QuietPaid
         DEF FInv, UnlockSteps, RemoveSteps, Alone
  <2> QED
    BY <1>1, <1>2, <2>2, <2>3, <2>4, <2>5, StepKinds
<1>4. UNCHANGED vars \/ Restart \/ Tick => UNCHANGED drop
  BY DEF vars, Restart, Tick, stored
<1>5. \A h \in Handlers : /\ OpenClaimed(h) => UNCHANGED drop
                          /\ \A t \in Tokens : UnlockPut(h, t) => UNCHANGED drop
  BY DEF OpenClaimed, UnlockPut, stored
<1> QED
  BY <1>1, <1>2, <1>3, <1>4, <1>5, StepKinds

\* What a recipient has paid for stays there to be fetched, for any number of
\* shares, sessions, requests, restarts and any time limits, where no client
\* deletes: Sweep and Report never take its row early, even when clients go
\* away half-way and row ids are given again.
THEOREM PaidCanBeFetched ==
  ~DeletingClients => (Spec => []ClaimedCanFinish)
<1> SUFFICES ASSUME ~DeletingClients PROVE Spec => []ClaimedCanFinish
  OBVIOUS
<1>1. Init => FInv
  <2> SUFFICES ASSUME Init PROVE FInv
    OBVIOUS
  <2>1. /\ \A t \in Tokens : ~sess[t].charged
        /\ \A k \in Keys : drop[k].status = "none"
        /\ \A p \in Procs : req[p].pc = "idle"
        /\ reap = {}
    BY DEF Init, NoSession, NoDrop, Idle
  <2> QED
    BY <2>1, ProcsFacts
       DEF FInv, FParts, BlankOK, ListedOK, OnceOK, CallersOK, LockedOK, DistinctOK,
           Listed, HasRow, RemoveSteps
<1>2. IInv /\ IInv' /\ SInv /\ FInv /\ [Next]_vars => FInv'
  BY NextPaid
<1>3. IInv /\ FInv => ClaimedCanFinish
  <2> SUFFICES ASSUME IInv, FInv, NEW t \in Tokens, sess[t].claimed,
                      drop[sess[t].key].expiresAt > now,
                      drop[sess[t].key].downloads < drop[sess[t].key].maxDownloads,
                      ~drop[sess[t].key].lapsed
               PROVE  HasRow(sess[t].key)
    BY DEF ClaimedCanFinish
  <2>1. sess[t].key \in Keys /\ drop[sess[t].key].status # "none"
    BY DEF IInv, ClaimOK, SessOK, FInv, BlankOK
  <2>2. drop[sess[t].key] \in Drop /\ now \in Nat
    BY <2>1 DEF IInv, TypeOK
  <2>3. ~Ended(sess[t].key) /\ ~NeverUnlocked(sess[t].key)
    BY <2>2 DEF Ended, NeverUnlocked, Drop
  <2> QED
    BY <2>1, <2>2, <2>3 DEF FInv, FParts, LockedOK, HasRow, Drop
<1> QED
  BY <1>1, <1>2, <1>3, Invariance, StorageInvariance, PTL DEF Spec

=============================================================================
