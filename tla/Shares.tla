------------------------------- MODULE Shares -------------------------------
(***************************************************************************)
(* The life of a share on the server: StartUpload, FinishUpload,           *)
(* CancelUpload, Unlock, OpenFile, DeleteBySession, ManageDelete, Report   *)
(* and Sweep of internal/service, over the SQLite tables of internal/store *)
(* (drops, upload_sessions, reports), the blob directory and the in-memory *)
(* session table.                                                          *)
(*                                                                         *)
(* Every HTTP request runs in a goroutine of its own, so each service call *)
(* is a process that takes one step per access to shared state: one SQL    *)
(* statement or transaction, one file-system call, one critical section of *)
(* sessionTable.mu.  The only critical section that contains another       *)
(* access is claimOnce, which is why mu is a variable.                     *)
(***************************************************************************)
EXTENDS Naturals, FiniteSets

CONSTANTS
  Keys,           \* share keys: NewDropKey never draws one twice
  Tokens,         \* download session tokens: NewToken never draws one twice
  Handlers,       \* concurrent HTTP requests
  Sweeper,        \* the goroutine of sweepLoop
  Nobody,         \* "no key, token or lock holder"
  Requests,       \* the kinds of request the clients of this instance send
  DeletePermissions, \* the values of StartRequest.AllowDelete they ask for
  MaxDownloads,   \* Config.MaxDownloads
  Retention,      \* StartRequest.Days, in ticks of the clock
  UploadTTL,      \* Config.UploadTTL
  DownloadTTL,    \* Config.DownloadTTL
  Quota,          \* Config.DiskQuotaBytes in shares of one unit; 0 disables
  Parts,          \* the length of a share's file, in chunk-aligned parts
  MaxId,          \* bound: largest row id
  MaxTime,        \* bound: the clock stops here
  MaxRestarts     \* bound: restarts of the server process

Procs == Handlers \cup {Sweeper}
Ids == 1..MaxId

\* "disconnect": clients that go away while their request is being served;
\* "overlap": clients that send a part before the last one has been answered.
RequestKinds == {"start", "write", "finish", "cancel", "unlock", "open", "lock",
                 "sessionDelete", "manageDelete", "report", "disconnect",
                 "overlap"}

ASSUME NobodyAssumption == Nobody \notin Keys \cup Tokens \cup Procs
ASSUME SweeperAssumption == Sweeper \notin Handlers
ASSUME RequestsAssumption == Requests \subseteq RequestKinds
ASSUME DeletePermissionsAssumption == DeletePermissions \subseteq BOOLEAN
ASSUME TokensAssumption == IsFiniteSet(Tokens)
ASSUME BoundsAssumption ==
  /\ MaxDownloads \in Nat \ {0}
  /\ Retention \in Nat \ {0}
  /\ UploadTTL \in Nat \ {0}
  /\ DownloadTTL \in Nat \ {0}
  /\ Quota \in Nat
  /\ Parts \in Nat \ {0}
  /\ MaxId \in Nat
  /\ MaxTime \in Nat
  /\ MaxRestarts \in Nat

VARIABLES
  now,       \* Service.now()
  drop,      \* the drops table, with its files and upload session, by share key
  dir,       \* the keys whose blob directory exists on disk
  reports,   \* the keys named by a row of the reports table
  sess,      \* every downloadSession object ever made, by token
  down,      \* sessionTable.m: the tokens the table still holds
  mu,        \* sessionTable.mu: the process inside claimOnce, or Nobody
  req,       \* what each process is doing
  reap,      \* Sweep: the drops it has listed and not yet deleted
  restarts,  \* restarts of the server process so far
  cutOff     \* history: shares whose block has also emptied the session table

vars == <<now, drop, dir, reports, sess, down, mu, req, reap, restarts, cutOff>>

\* What the database and the disk keep across a restart of the process.
stored == <<drop, dir, reports>>

-----------------------------------------------------------------------------
(***************************************************************************)
(* The drops table.  A record stays in drop after its row is deleted (its  *)
(* status is then "gone"), because requests keep a *store.Drop they read   *)
(* before the deletion.  files: its file row exists, with row id fid;      *)
(* received: the column of that row, in parts; onDisk: the parts its blob  *)
(* holds from the start of the file without a gap; upload: an              *)
(* upload_sessions row exists.  History: crowded, two WriteParts of its    *)
(* file have overlapped; given, StartUpload has told its client this key   *)
(* and its tokens; lapsed, it was published after the end of its upload    *)
(* window.  A share holds one file, of at least one byte: the loops of the *)
(* code over a share's files do the same thing to each.                    *)
(***************************************************************************)
NoDrop == [status |-> "none", id |-> 0, createdAt |-> 0, expiresAt |-> 0,
           maxDownloads |-> 0, downloads |-> 0, blocked |-> FALSE,
           deleteAllowed |-> FALSE, files |-> FALSE, fid |-> 0,
           received |-> 0, onDisk |-> 0, upload |-> FALSE,
           crowded |-> FALSE, given |-> FALSE, lapsed |-> FALSE]

Drop == [status : {"none", "pending", "ready", "gone"}, id : Nat,
         createdAt : Nat, expiresAt : Nat, maxDownloads : Nat, downloads : Nat,
         blocked : BOOLEAN, deleteAllowed : BOOLEAN, files : BOOLEAN,
         fid : Nat, received : Nat, onDisk : Nat, upload : BOOLEAN,
         crowded : BOOLEAN, given : BOOLEAN, lapsed : BOOLEAN]

HasRow(k) == drop[k].status \in {"pending", "ready"}

\* WHERE id = ?: the row a row id addresses now, whoever it belonged to when
\* the request read that id.
IsRow(k, i) == HasRow(k) /\ drop[k].id = i

\* Mutant of Live: the allowance is not checked.
LiveUnlimited(k) ==
  /\ drop[k].status = "ready"
  /\ drop[k].expiresAt > now
  /\ ~drop[k].blocked

\* Mutant of Live: a blocked share is like any other.
LiveBlocked(k) ==
  /\ drop[k].status = "ready"
  /\ drop[k].expiresAt > now
  /\ drop[k].downloads < drop[k].maxDownloads

\* LiveDropByKey, and the WHERE clause of ClaimDownload.
Live(k) ==
  /\ drop[k].status = "ready"
  /\ drop[k].expiresAt > now
  /\ drop[k].downloads < drop[k].maxDownloads
  /\ ~drop[k].blocked

\* UploadSessionByID of the session that uploads k.  Its expires_at is
\* created_at + UploadTTL: StartUpload reads the clock once for both.
UploadEnded(k, at) == drop[k].createdAt + UploadTTL <= at
UploadOpen(k) == drop[k].upload /\ ~UploadEnded(k, now)

\* Mutant of Reapable: only exhausted shares and abandoned uploads are listed.
ReapableNotExpired(at) ==
  {k \in Keys : /\ HasRow(k)
                /\ ~drop[k].blocked
                /\ \/ /\ drop[k].status = "ready"
                      /\ drop[k].downloads >= drop[k].maxDownloads
                   \/ /\ drop[k].status = "pending"
                      /\ UploadEnded(k, at)}

\* Mutant of Reapable: blocked shares are listed too.
ReapableBlocked(at) ==
  {k \in Keys : /\ HasRow(k)
                /\ \/ drop[k].expiresAt <= at
                   \/ /\ drop[k].status = "ready"
                      /\ drop[k].downloads >= drop[k].maxDownloads
                   \/ /\ drop[k].status = "pending"
                      /\ UploadEnded(k, at)}

\* Mutant of Reapable: shares with one download left are listed too.
ReapableOneLeft(at) ==
  {k \in Keys : /\ HasRow(k)
                /\ ~drop[k].blocked
                /\ \/ drop[k].expiresAt <= at
                   \/ /\ drop[k].status = "ready"
                      /\ drop[k].downloads + 1 >= drop[k].maxDownloads
                   \/ /\ drop[k].status = "pending"
                      /\ UploadEnded(k, at)}

\* Reapable: the rows a Sweep that read the clock at `at` must delete.
Reapable(at) ==
  {k \in Keys : /\ HasRow(k)
                /\ ~drop[k].blocked
                /\ \/ drop[k].expiresAt <= at
                   \/ /\ drop[k].status = "ready"
                      /\ drop[k].downloads >= drop[k].maxDownloads
                   \/ /\ drop[k].status = "pending"
                      /\ UploadEnded(k, at)}

\* Stats: the shares whose bytes count against the disk quota.
Counted == {k \in Keys : /\ drop[k].status = "ready"
                         /\ drop[k].expiresAt > now
                         /\ ~drop[k].blocked}

\* validateStart for a well-formed request of one unit: its other checks refuse a
\* malformed one, and StartCreate draws the limit from what they let through.
QuotaAllows == Quota > 0 => Cardinality(Counted) + 1 <= Quota

\* The row id SQLite gives the next INSERT: drops.id is an INTEGER PRIMARY KEY
\* without AUTOINCREMENT, so it is one more than the largest id in the table.
NextRowId(i) ==
  /\ \A k \in Keys : HasRow(k) => drop[k].id < i
  /\ i = 1 \/ \E k \in Keys : HasRow(k) /\ drop[k].id = i - 1

\* The same for files.id.
HasFile(k) == HasRow(k) /\ drop[k].files

NextFileId(i) ==
  /\ \A k \in Keys : HasFile(k) => drop[k].fid < i
  /\ i = 1 \/ \E k \in Keys : HasFile(k) /\ drop[k].fid = i - 1

-----------------------------------------------------------------------------
(***************************************************************************)
(* The session table.  charged is history: this session's claim has        *)
(* already added one to the share's downloads.                             *)
(***************************************************************************)
NoSession == [key |-> Nobody, id |-> 0, expiresAt |-> 0, claimed |-> FALSE,
              charged |-> FALSE]

Session == [key : Keys \cup {Nobody}, id : Nat, expiresAt : Nat,
            claimed : BOOLEAN, charged : BOOLEAN]

\* deleteByDrop(id): what the table holds once every session of that row id
\* has been removed.
WithoutDrop(i) == {t \in down : sess[t].id # i}

\* What a process holds between its steps: the share and the session it works
\* for, the clock reading it took, and for a WriteParts the received it read
\* and the parts it has written since.  late is history: an OpenFile that began
\* after the share was cut off.
Idle == [pc |-> "idle", k |-> Nobody, t |-> Nobody, at |-> 0, off |-> 0,
         len |-> 0, late |-> FALSE]

Steps == {"idle",
          "start_create", "start_files", "start_dir", "start_session",
          "write_file", "write_open", "write_blob", "finish_tx", "cancel_check",
          "unlock_files", "unlock_put",
          "open_claim", "open_claimed", "open_row", "open_blob", "serving",
          "sdel_read", "del_cut", "del_blobs", "del_row",
          "rep_block", "rep_cut", "rep_record",
          "sweep_list", "sweep_next"}

\* The steps that begin with a SQL call under the request's context or with
\* the reading of its body: they fail when the client has gone away.
ClientSteps == {"start_create", "start_files", "start_session", "write_file",
                "write_blob", "finish_tx", "cancel_check", "unlock_files",
                "open_claim", "open_claimed", "open_row", "sdel_read",
                "del_row", "rep_block", "rep_record"}

Request == [pc : Steps, k : Keys \cup {Nobody}, t : Tokens \cup {Nobody},
            at : Nat, off : Nat, len : Nat, late : BOOLEAN]

At(p, step) == req[p].pc = step
Goto(p, step) == req' = [req EXCEPT ![p].pc = step]
Begin(p, step, k) ==
  req' = [req EXCEPT ![p] = [Idle EXCEPT !.pc = step, !.k = k]]

\* The service call returns.  Sweep goes on to the next drop of its list.
Finish(p) ==
  req' = [req EXCEPT ![p] = [Idle EXCEPT !.pc = IF p = Sweeper THEN "sweep_next"
                                                              ELSE "idle"]]

\* A client's request of this kind reaches an idle handler.
Arrives(h, kind) == kind \in Requests /\ At(h, "idle")

\* The row id this process read with its share and carries from step to step.
RowId(p) == drop[req[p].k].id

\* No process is inside claimOnce, the one critical section with SQL in it, so
\* the session table's mutex can be taken.
TableFree == mu = Nobody

Init ==
  /\ now = 0
  /\ drop = [k \in Keys |-> NoDrop]
  /\ dir = {}
  /\ reports = {}
  /\ sess = [t \in Tokens |-> NoSession]
  /\ down = {}
  /\ mu = Nobody
  /\ req = [p \in Procs |-> Idle]
  /\ reap = {}
  /\ restarts = 0
  /\ cutOff = {}

-----------------------------------------------------------------------------
(***************************************************************************)
(* StartUpload.  Its client learns the key, the tokens and the password    *)
(* only when it returns.                                                   *)
(***************************************************************************)

\* validateStart, with its quota check, and uniqueKey: k is a key no share has
\* had and no other StartUpload has drawn.
StartValidate(h, k) ==
  /\ Arrives(h, "start")
  /\ QuotaAllows
  /\ drop[k].status = "none"
  /\ \A p \in Procs : req[p].k # k
  /\ Begin(h, "start_create", k)
  /\ UNCHANGED <<now, stored, sess, down, mu, reap, restarts, cutOff>>

\* CreateDrop, with the download limit and delete permission the client asked.
StartCreate(h) ==
  /\ At(h, "start_create")
  /\ \E i \in Ids, limit \in 1..MaxDownloads, del \in DeletePermissions :
       /\ NextRowId(i)
       /\ drop' = [drop EXCEPT ![req[h].k] =
                     [NoDrop EXCEPT !.status = "pending", !.id = i,
                                    !.createdAt = now,
                                    !.expiresAt = now + Retention,
                                    !.maxDownloads = limit,
                                    !.deleteAllowed = del]]
  /\ Goto(h, "start_files")
  /\ UNCHANGED <<now, dir, reports, sess, down, mu, reap, restarts, cutOff>>

\* AddFile and SetBlobPath.  The foreign key wants some row with that id.
StartFiles(h) ==
  /\ At(h, "start_files")
  /\ IF \E k \in Keys : IsRow(k, RowId(h))
     THEN /\ \E i \in Ids :
               /\ NextFileId(i)
               /\ drop' = [k \in Keys |->
                             IF IsRow(k, RowId(h))
                             THEN [drop[k] EXCEPT !.files = TRUE, !.fid = i,
                                                  !.received = 0]
                             ELSE drop[k]]
          /\ Goto(h, "start_dir")
     ELSE Finish(h) /\ UNCHANGED drop
  /\ UNCHANGED <<now, dir, reports, sess, down, mu, reap, restarts, cutOff>>

\* MkdirAll of the share's blob directory.
StartDir(h) ==
  /\ At(h, "start_dir")
  /\ dir' = dir \cup {req[h].k}
  /\ Goto(h, "start_session")
  /\ UNCHANGED <<now, drop, reports, sess, down, mu, reap, restarts, cutOff>>

\* CreateUploadSession, and the answer to the client.
StartSession(h) ==
  /\ At(h, "start_session")
  /\ drop' = IF \E k \in Keys : IsRow(k, RowId(h))
             THEN [k \in Keys |->
                     [drop[k] EXCEPT !.upload = @ \/ IsRow(k, RowId(h)),
                                     !.given = @ \/ k = req[h].k]]
             ELSE drop
  /\ Finish(h)
  /\ UNCHANGED <<now, dir, reports, sess, down, mu, reap, restarts, cutOff>>

-----------------------------------------------------------------------------
(***************************************************************************)
(* The upload session's requests.  A WriteParts sends as many parts of the *)
(* file as its body holds; what a part is on disk, and what overlapping    *)
(* calls do to the sealed stream, is the subject of module PartWriter.     *)
(***************************************************************************)

\* resolveSession succeeds for the client that uploads k.
ResolveSession(h, kind, step, k) ==
  /\ Arrives(h, kind)
  /\ drop[k].given
  /\ UploadOpen(k)
  /\ Begin(h, step, k)
  /\ UNCHANGED <<now, stored, sess, down, mu, reap, restarts, cutOff>>

\* A WriteParts for k is at one of these steps.
Writing(k, steps) == \E p \in Procs : req[p].k = k /\ req[p].pc \in steps

WriteResolve(h, k) ==
  /\ Writing(k, {"write_file", "write_open", "write_blob"}) => "overlap" \in Requests
  /\ ResolveSession(h, "write", "write_file", k)

\* FileByID, with the row ids of the upload session: it returns for a complete
\* file, and the client's offset must be what the row has received.
WriteFile(h) ==
  /\ At(h, "write_file")
  /\ LET Target(k) == /\ HasFile(k)
                      /\ drop[k].id = RowId(h)
                      /\ drop[k].fid = drop[req[h].k].fid
                      /\ drop[k].received < Parts
     IN  \/ \E k \in Keys :
              /\ Target(k)
              /\ req' = [req EXCEPT ![h] = [Idle EXCEPT !.pc = "write_open", !.k = k,
                                                        !.off = drop[k].received]]
              /\ drop' = [drop EXCEPT ![k].crowded =
                             @ \/ Writing(k, {"write_open", "write_blob"})]
         \/ (\A k \in Keys : ~Target(k)) /\ Finish(h) /\ UNCHANGED drop
  /\ UNCHANGED <<now, dir, reports, sess, down, mu, reap, restarts, cutOff>>

\* os.OpenFile, which needs the directory, and writerAt: a first part truncates
\* the blob, a later one must continue what the blob holds.
WriteOpen(h) ==
  /\ At(h, "write_open")
  /\ LET k == req[h].k
         off == req[h].off
     IN  \/ /\ k \in dir
            /\ off = 0 \/ off = drop[k].onDisk
            /\ drop' = [drop EXCEPT ![k].onDisk = off]
            /\ Goto(h, "write_blob")
         \/ /\ k \notin dir \/ (off # 0 /\ off # drop[k].onDisk)
            /\ Finish(h)
            /\ UNCHANGED drop
  /\ UNCHANGED <<now, dir, reports, sess, down, mu, reap, restarts, cutOff>>

\* io.Copy seals and writes the next part, into a file that may have been
\* unlinked since it was opened.
WriteBlob(h) ==
  /\ At(h, "write_blob")
  /\ req[h].off + req[h].len < Parts
  /\ drop' = [drop EXCEPT ![req[h].k].onDisk =
                 IF req[h].k \in dir /\ @ = req[h].off + req[h].len THEN @ + 1 ELSE @]
  /\ req' = [req EXCEPT ![h].len = @ + 1]
  /\ UNCHANGED <<now, dir, reports, sess, down, mu, reap, restarts, cutOff>>

\* The body does not end on a chunk boundary: Truncate to the old length.
WriteRollback(h) ==
  /\ At(h, "write_blob")
  /\ req[h].off + req[h].len < Parts
  /\ drop' = [drop EXCEPT ![req[h].k].onDisk =
                 IF req[h].k \in dir /\ @ > req[h].off THEN req[h].off ELSE @]
  /\ Finish(h)
  /\ UNCHANGED <<now, dir, reports, sess, down, mu, reap, restarts, cutOff>>


\* The body has ended.  Close or FlushFull, Sync and SetReceived: UPDATE files
\* ... WHERE id = ?, whoever has that row by now, whatever it has received.
WriteSet(h) ==
  /\ At(h, "write_blob")
  /\ drop' = [k \in Keys |->
                IF HasFile(k) /\ drop[k].fid = drop[req[h].k].fid
                THEN [drop[k] EXCEPT !.received = req[h].off + req[h].len]
                ELSE drop[k]]
  /\ Finish(h)
  /\ UNCHANGED <<now, dir, reports, sess, down, mu, reap, restarts, cutOff>>

FinishResolve(h, k) == ResolveSession(h, "finish", "finish_tx", k)

\* Mutant of Finalize: a share is published whatever it has received.
FinalizeUnchecked(h) ==
  /\ At(h, "finish_tx")
  /\ drop' = [k \in Keys |->
                IF IsRow(k, RowId(h))
                THEN [drop[k] EXCEPT !.status = "ready", !.upload = FALSE,
                                     !.lapsed = @ \/ UploadEnded(k, now)]
                ELSE drop[k]]
  /\ Finish(h)
  /\ UNCHANGED <<now, dir, reports, sess, down, mu, reap, restarts, cutOff>>

\* Finalize.  It counts the incomplete files of that row id: none, for a row
\* without files.  It does not look at the upload window again.
Finalize(h) ==
  /\ At(h, "finish_tx")
  /\ drop' = [k \in Keys |->
                IF /\ IsRow(k, RowId(h))
                   /\ drop[k].files => drop[k].received >= Parts
                THEN [drop[k] EXCEPT !.status = "ready", !.upload = FALSE,
                                     !.lapsed = @ \/ UploadEnded(k, now)]
                ELSE drop[k]]
  /\ Finish(h)
  /\ UNCHANGED <<now, dir, reports, sess, down, mu, reap, restarts, cutOff>>

CancelResolve(h, k) == ResolveSession(h, "cancel", "cancel_check", k)

\* CancelUpload deletes the row with that id, if it is still pending.
CancelCheck(h) ==
  /\ At(h, "cancel_check")
  /\ \/ \E k \in Keys : /\ IsRow(k, RowId(h))
                        /\ drop[k].status = "pending"
                        /\ Begin(h, "del_cut", k)
     \/ /\ ~ \E k \in Keys : IsRow(k, RowId(h)) /\ drop[k].status = "pending"
        /\ Finish(h)
  /\ UNCHANGED <<now, stored, sess, down, mu, reap, restarts, cutOff>>

-----------------------------------------------------------------------------
(***************************************************************************)
(* DeleteDrop: the session table, then the bytes, then the row.  It is     *)
(* called by CancelUpload, ManageDelete, DeleteBySession and Sweep.        *)
(***************************************************************************)

\* ManageDelete: resolveManage finds the sender's share, whatever its status.
ManageDelete(h, k) ==
  /\ Arrives(h, "manageDelete")
  /\ drop[k].given
  /\ HasRow(k)
  /\ Begin(h, "del_cut", k)
  /\ UNCHANGED <<now, stored, sess, down, mu, reap, restarts, cutOff>>

\* DeleteBySession reads its session...
SessionDelete(h, t) ==
  /\ Arrives(h, "sessionDelete")
  /\ TableFree
  /\ t \in down
  /\ now <= sess[t].expiresAt
  /\ req' = [req EXCEPT ![h] = [Idle EXCEPT !.pc = "sdel_read", !.t = t]]
  /\ UNCHANGED <<now, stored, sess, down, mu, reap, restarts, cutOff>>

\* ... and then the drop that the session's row id addresses.
SessionDeleteRead(h) ==
  /\ At(h, "sdel_read")
  /\ LET Target(k) == IsRow(k, sess[req[h].t].id) /\ drop[k].deleteAllowed
     IN  \/ \E k \in Keys : /\ Target(k)
                            /\ req' = [req EXCEPT ![h].pc = "del_cut", ![h].k = k]
         \/ (\A k \in Keys : ~Target(k)) /\ Finish(h)
  /\ UNCHANGED <<now, stored, sess, down, mu, reap, restarts, cutOff>>

\* deleteByDrop.
DeleteCut(p) ==
  /\ At(p, "del_cut")
  /\ TableFree
  /\ down' = WithoutDrop(RowId(p))
  /\ Goto(p, "del_blobs")
  /\ UNCHANGED <<now, stored, sess, mu, reap, restarts, cutOff>>

\* os.RemoveAll succeeds.
DeleteBlobs(p) ==
  /\ At(p, "del_blobs")
  /\ dir' = dir \ {req[p].k}
  /\ Goto(p, "del_row")
  /\ UNCHANGED <<now, drop, reports, sess, down, mu, reap, restarts, cutOff>>

\* Mutant of DeleteBlobsFails: the error is ignored and the row deleted.
DeleteBlobsIgnored(p) ==
  /\ At(p, "del_blobs")
  /\ Goto(p, "del_row")
  /\ UNCHANGED <<now, stored, sess, down, mu, reap, restarts, cutOff>>

\* os.RemoveAll fails: DeleteDrop returns the error and the row stays.
DeleteBlobsFails(p) ==
  /\ At(p, "del_blobs")
  /\ Finish(p)
  /\ UNCHANGED <<now, stored, sess, down, mu, reap, restarts, cutOff>>

\* DELETE FROM drops WHERE id = ?, which cascades to files and sessions.
DeleteRow(p) ==
  /\ At(p, "del_row")
  /\ drop' = [k \in Keys |->
                IF IsRow(k, RowId(p))
                THEN [drop[k] EXCEPT !.status = "gone", !.upload = FALSE]
                ELSE drop[k]]
  /\ Finish(p)
  /\ UNCHANGED <<now, dir, reports, sess, down, mu, reap, restarts, cutOff>>

-----------------------------------------------------------------------------
(***************************************************************************)
(* Unlock and the download session.                                        *)
(***************************************************************************)

\* Unlock with the right password: LiveDropByKey.
UnlockRead(h, k) ==
  /\ Arrives(h, "unlock")
  /\ drop[k].given
  /\ Live(k)
  /\ Begin(h, "unlock_files", k)
  /\ UNCHANGED <<now, stored, sess, down, mu, reap, restarts, cutOff>>

\* Files(drop.ID): the names of another share's files do not decrypt, and a row
\* that is gone has none.
UnlockFiles(h) ==
  /\ At(h, "unlock_files")
  /\ IF \E k \in Keys \ {req[h].k} : IsRow(k, RowId(h)) /\ drop[k].files
     THEN Finish(h)
     ELSE Goto(h, "unlock_put")
  /\ UNCHANGED <<now, stored, sess, down, mu, reap, restarts, cutOff>>

\* NewToken and sessionTable.put.
UnlockPut(h, t) ==
  /\ At(h, "unlock_put")
  /\ TableFree
  /\ sess[t].key = Nobody
  /\ sess' = [sess EXCEPT ![t] = [NoSession EXCEPT !.key = req[h].k,
                                                   !.id = RowId(h),
                                                   !.expiresAt = now + DownloadTTL]]
  /\ down' = down \cup {t}
  /\ Finish(h)
  /\ UNCHANGED <<now, stored, mu, reap, restarts, cutOff>>

\* Lock.
Lock(h, t) ==
  /\ Arrives(h, "lock")
  /\ TableFree
  /\ t \in down
  /\ down' = down \ {t}
  /\ UNCHANGED <<now, stored, sess, mu, req, reap, restarts, cutOff>>

\* sessionTable.get of an expired session: it is dropped, and OpenFile,
\* DeleteBySession, SessionFiles and IssueTicket answer "not found".
GetExpired(h, t) ==
  /\ \E kind \in {"open", "sessionDelete"} : Arrives(h, kind)
  /\ TableFree
  /\ t \in down
  /\ now > sess[t].expiresAt
  /\ down' = down \ {t}
  /\ UNCHANGED <<now, stored, sess, mu, req, reap, restarts, cutOff>>

\* OpenFile: sessionTable.get of a live session.  From here on the request
\* holds the session object, whether or not the table still does.
OpenGet(h, t) ==
  /\ Arrives(h, "open")
  /\ TableFree
  /\ t \in down
  /\ now <= sess[t].expiresAt
  /\ req' = [req EXCEPT ![h] = [Idle EXCEPT !.pc = "open_claim",
                                            !.k = sess[t].key, !.t = t,
                                            !.late = sess[t].key \in cutOff]]
  /\ UNCHANGED <<now, stored, sess, down, mu, reap, restarts, cutOff>>

\* Mutant of OpenClaim: downloads counts down instead of up.
OpenClaimCountsDown(h) ==
  /\ At(h, "open_claim")
  /\ TableFree
  /\ ~sess[req[h].t].claimed
  /\ Live(req[h].k)
  /\ drop' = [drop EXCEPT ![req[h].k].downloads = @ - 1]
  /\ sess' = [sess EXCEPT ![req[h].t].charged = TRUE]
  /\ mu' = h
  /\ Goto(h, "open_claimed")
  /\ UNCHANGED <<now, dir, reports, down, reap, restarts, cutOff>>

\* Mutant of OpenClaim: claimed is tested and the claim made without mu.
OpenClaimUnlocked(h) ==
  /\ At(h, "open_claim")
  /\ IF sess[req[h].t].claimed
     THEN Goto(h, "open_row") /\ UNCHANGED <<drop, sess>>
     ELSE /\ Live(req[h].k)
          /\ drop' = [drop EXCEPT ![req[h].k].downloads = @ + 1]
          /\ sess' = [sess EXCEPT ![req[h].t].charged = TRUE]
          /\ Goto(h, "open_claimed")
  /\ UNCHANGED <<now, dir, reports, down, mu, reap, restarts, cutOff>>

\* claimOnce takes mu.  A session that has claimed goes on; for another one
\* ClaimDownload's UPDATE runs under mu, and OpenFile fails if it matches no
\* row.
OpenClaim(h) ==
  /\ At(h, "open_claim")
  /\ TableFree
  /\ LET k == req[h].k
         t == req[h].t
     IN  \/ /\ sess[t].claimed
            /\ Goto(h, "open_row")
            /\ UNCHANGED <<drop, sess, mu>>
         \/ /\ ~sess[t].claimed
            /\ Live(k)
            /\ drop' = [drop EXCEPT ![k].downloads = @ + 1]
            /\ sess' = [sess EXCEPT ![t].charged = TRUE]
            /\ mu' = h
            /\ Goto(h, "open_claimed")
         \/ /\ ~sess[t].claimed
            /\ ~Live(k)
            /\ Finish(h)
            /\ UNCHANGED <<drop, sess, mu>>
  /\ UNCHANGED <<now, dir, reports, down, reap, restarts, cutOff>>

\* Still under mu, ClaimDownload reads the row back; if it has been deleted in
\* between, the claim fails and the session stays unclaimed.
OpenClaimed(h) ==
  /\ At(h, "open_claimed")
  /\ mu' = Nobody
  /\ \/ /\ HasRow(req[h].k)
        /\ sess' = [sess EXCEPT ![req[h].t].claimed = TRUE]
        /\ Goto(h, "open_row")
     \/ /\ ~HasRow(req[h].k)
        /\ Finish(h)
        /\ UNCHANGED sess
  /\ UNCHANGED <<now, stored, down, reap, restarts, cutOff>>

\* FileByID(sess.dropID, ...) finds the file's row, and the decryption of the file's name, which
\* fails for a file of any share but the session's.
OpenRow(h) ==
  /\ At(h, "open_row")
  /\ IF IsRow(req[h].k, sess[req[h].t].id) /\ HasFile(req[h].k)
     THEN Goto(h, "open_blob")
     ELSE Finish(h)
  /\ UNCHANGED <<now, stored, sess, down, mu, reap, restarts, cutOff>>

\* os.Open of the blob.  Once it is open, removing it does not stop the reader.
OpenBlob(h) ==
  /\ At(h, "open_blob")
  /\ IF req[h].k \in dir THEN Goto(h, "serving") ELSE Finish(h)
  /\ UNCHANGED <<now, stored, sess, down, mu, reap, restarts, cutOff>>

\* The reader is drained or the client goes away; the file is closed.
ServeEnd(h) ==
  /\ At(h, "serving")
  /\ Finish(h)
  /\ UNCHANGED <<now, stored, sess, down, mu, reap, restarts, cutOff>>

-----------------------------------------------------------------------------
(***************************************************************************)
(* Report.                                                                 *)
(***************************************************************************)

\* DropByKey.  For a key it does not find, only CreateReport is left.
ReportLookup(h, k) ==
  /\ Arrives(h, "report")
  /\ drop[k].given
  /\ \/ /\ HasRow(k)
        /\ Begin(h, "rep_block", k)
        /\ UNCHANGED reports
     \/ /\ ~HasRow(k)
        /\ reports' = reports \cup {k}
        /\ UNCHANGED req
  /\ UNCHANGED <<now, drop, dir, sess, down, mu, reap, restarts, cutOff>>

\* BlockDrop.
ReportBlock(h) ==
  /\ At(h, "rep_block")
  /\ drop' = [k \in Keys |-> IF IsRow(k, RowId(h))
                             THEN [drop[k] EXCEPT !.blocked = TRUE]
                             ELSE drop[k]]
  /\ Goto(h, "rep_cut")
  /\ UNCHANGED <<now, dir, reports, sess, down, mu, reap, restarts, cutOff>>

\* Mutant of ReportCut: the sessions opened before the block stay.
ReportCutNothing(h) ==
  /\ At(h, "rep_cut")
  /\ TableFree
  /\ cutOff' = cutOff \cup {k \in Keys : IsRow(k, RowId(h)) /\ drop[k].blocked}
  /\ Goto(h, "rep_record")
  /\ UNCHANGED <<now, stored, sess, down, mu, reap, restarts>>

\* deleteByDrop.
ReportCut(h) ==
  /\ At(h, "rep_cut")
  /\ TableFree
  /\ down' = WithoutDrop(RowId(h))
  /\ cutOff' = cutOff \cup {k \in Keys : IsRow(k, RowId(h)) /\ drop[k].blocked}
  /\ Goto(h, "rep_record")
  /\ UNCHANGED <<now, stored, sess, mu, reap, restarts>>

\* CreateReport.  The report names the row id it read, and the foreign key
\* refuses an id that no row has any more.
ReportRecord(h) ==
  /\ At(h, "rep_record")
  /\ reports' = IF \E k \in Keys : IsRow(k, RowId(h))
                THEN reports \cup {req[h].k}
                ELSE reports
  /\ Finish(h)
  /\ UNCHANGED <<now, drop, dir, sess, down, mu, reap, restarts, cutOff>>

-----------------------------------------------------------------------------
(***************************************************************************)
(* Sweep, called by sweepLoop on a ticker.                                 *)
(***************************************************************************)

\* Mutant of SweepSessions: expired sessions wait for their next use.
SweepSessionsLazily ==
  /\ At(Sweeper, "idle")
  /\ TableFree
  /\ req' = [req EXCEPT ![Sweeper] = [Idle EXCEPT !.pc = "sweep_list", !.at = now]]
  /\ UNCHANGED <<now, stored, sess, down, mu, reap, restarts, cutOff>>

\* The expired sessions leave the table.
SweepSessions ==
  /\ At(Sweeper, "idle")
  /\ TableFree
  /\ down' = {t \in down : now <= sess[t].expiresAt}
  /\ req' = [req EXCEPT ![Sweeper] = [Idle EXCEPT !.pc = "sweep_list", !.at = now]]
  /\ UNCHANGED <<now, stored, sess, mu, reap, restarts, cutOff>>

\* Reapable: the drops are read once, for the whole pass.
SweepList ==
  /\ At(Sweeper, "sweep_list")
  /\ reap' = Reapable(req[Sweeper].at)
  /\ Finish(Sweeper)
  /\ UNCHANGED <<now, stored, sess, down, mu, restarts, cutOff>>

\* The next drop of the list goes to DeleteDrop, errors only being counted.
SweepNext ==
  /\ At(Sweeper, "sweep_next")
  /\ \/ \E k \in reap : /\ reap' = reap \ {k}
                        /\ Begin(Sweeper, "del_cut", k)
     \/ /\ reap = {}
        /\ req' = [req EXCEPT ![Sweeper] = Idle]
        /\ UNCHANGED reap
  /\ UNCHANGED <<now, stored, sess, down, mu, restarts, cutOff>>

-----------------------------------------------------------------------------
(***************************************************************************)
(* The environment.                                                        *)
(***************************************************************************)

\* The client of a request goes away: its context is cancelled and the next
\* SQL call or read of the body fails.  claimOnce releases mu by a deferred call.
Disconnect(h) ==
  /\ "disconnect" \in Requests
  /\ req[h].pc \in ClientSteps
  /\ mu' = IF mu = h THEN Nobody ELSE mu
  /\ Finish(h)
  /\ UNCHANGED <<now, stored, sess, down, reap, restarts, cutOff>>

\* The server process is killed and started again: the sessions and whatever
\* was being served are lost, the database and the disk are not.
Restart ==
  /\ restarts < MaxRestarts
  /\ restarts' = restarts + 1
  /\ down' = {}
  /\ mu' = Nobody
  /\ req' = [p \in Procs |-> Idle]
  /\ reap' = {}
  /\ UNCHANGED <<now, stored, sess, cutOff>>

\* Assumed of the environment: StartUpload, a few statements long, outlives
\* neither the upload window nor the retention of the row it has inserted.
StartsInTime ==
  \A h \in Handlers :
    req[h].pc \in {"start_files", "start_dir", "start_session"} =>
      /\ now + 1 < drop[req[h].k].createdAt + UploadTTL
      /\ now + 1 < drop[req[h].k].expiresAt

Tick ==
  /\ now < MaxTime
  /\ StartsInTime
  /\ now' = now + 1
  /\ UNCHANGED <<stored, sess, down, mu, req, reap, restarts, cutOff>>

-----------------------------------------------------------------------------
Delete(p) ==
  DeleteCut(p) \/ DeleteBlobs(p) \/ DeleteBlobsFails(p) \/ DeleteRow(p)

\* A request arrives.
Accept(h) ==
  \/ \E k \in Keys :
       \/ StartValidate(h, k) \/ WriteResolve(h, k) \/ FinishResolve(h, k)
       \/ CancelResolve(h, k) \/ ManageDelete(h, k) \/ UnlockRead(h, k)
       \/ ReportLookup(h, k)
  \/ \E t \in Tokens :
       OpenGet(h, t) \/ GetExpired(h, t) \/ Lock(h, t) \/ SessionDelete(h, t)

\* A request that has been accepted takes its next step.
Proceed(h) ==
  \/ StartCreate(h) \/ StartFiles(h) \/ StartDir(h) \/ StartSession(h)
  \/ WriteFile(h) \/ WriteOpen(h) \/ WriteBlob(h) \/ WriteRollback(h) \/ WriteSet(h)
  \/ Finalize(h) \/ CancelCheck(h)
  \/ UnlockFiles(h) \/ \E t \in Tokens : UnlockPut(h, t)
  \/ OpenClaim(h) \/ OpenClaimed(h) \/ OpenRow(h) \/ OpenBlob(h) \/ ServeEnd(h)
  \/ ReportBlock(h) \/ ReportCut(h) \/ ReportRecord(h)
  \/ SessionDeleteRead(h) \/ Delete(h)

Sweep == SweepSessions \/ SweepList \/ SweepNext \/ Delete(Sweeper)

Next ==
  \/ \E h \in Handlers : Accept(h) \/ Proceed(h) \/ Disconnect(h)
  \/ Sweep
  \/ Restart
  \/ Tick

Spec == Init /\ [][Next]_vars

\* Time passes, goroutines run, the ticker of sweepLoop fires, and a directory
\* that can be removed is removed sooner or later.
Fairness ==
  /\ WF_vars(Tick)
  /\ \A h \in Handlers : WF_vars(Proceed(h))
  /\ WF_vars(Sweep)
  /\ SF_vars(DeleteBlobs(Sweeper))

FairSpec == Spec /\ Fairness

-----------------------------------------------------------------------------
(***************************************************************************)
(* Properties.                                                             *)
(***************************************************************************)

\* Every variable keeps its type.
TypeOK ==
  /\ now \in Nat
  /\ drop \in [Keys -> Drop]
  /\ dir \subseteq Keys
  /\ reports \subseteq Keys
  /\ sess \in [Tokens -> Session]
  /\ down \subseteq Tokens
  /\ mu \in Procs \cup {Nobody}
  /\ req \in [Procs -> Request]
  /\ reap \subseteq Keys
  /\ restarts \in Nat
  /\ cutOff \subseteq Keys

Charged(k) == {t \in Tokens : sess[t].key = k /\ sess[t].charged}
Claimed(k) == {t \in Tokens : sess[t].key = k /\ sess[t].claimed}

\* However its requests interleave, disconnect and are cut by a restart, a
\* share never lets more sessions at its bytes than the download limit its
\* sender chose: a request that serves bytes has claimed, and at most
\* maxDownloads sessions ever claim (ClaimDownload and claimOnce).
ServedWithinAllowance ==
  /\ \A h \in Handlers : At(h, "serving") => sess[req[h].t].claimed
  /\ \A k \in Keys : Cardinality(Claimed(k)) <= drop[k].maxDownloads

\* One password entry (a session) consumes one download, however many of its
\* requests run at once: downloads never exceeds the number of sessions that
\* have claimed one (claimOnce holds mu over ClaimDownload).
OneDownloadPerSession ==
  \A k \in Keys : drop[k].downloads <= Cardinality(Charged(k))

\* Blocking stops downloads at once: an OpenFile that begins after Report has
\* blocked the share and emptied the session table never serves a byte, even
\* for a session that an Unlock in flight added afterwards.
BlockCutsOff ==
  \A h \in Handlers : At(h, "serving") => ~req[h].late

\* No two shares, past or present, have had the same row id, nor their files.
IdsUnique ==
  \A j, k \in Keys : j # k =>
    /\ drop[j].id = drop[k].id => drop[j].id = 0
    /\ drop[j].fid = drop[k].fid => drop[j].fid = 0

Published(k) == drop[k].status = "ready"

\* Its row has received the whole file, and the blob, if it is there, holds it.
Whole(k) ==
  /\ drop[k].received >= Parts
  /\ k \in dir => drop[k].onDisk >= Parts

\* Finalize never hands out a half-uploaded share, and nothing makes a published
\* one incomplete again, however WriteParts is cut short, resumed or rolled back
\* and FinishUpload, CancelUpload, ManageDelete and Sweep overlap with it: unless
\* two WriteParts of the file have overlapped (each may then truncate, or
\* record a length, behind the other's back) or SQLite has given one id twice.
PublishedIsComplete ==
  IdsUnique => \A k \in Keys : Published(k) /\ ~drop[k].crowded => Whole(k)

\* The same without the proviso on ids, as the comment of Finalize claims it.
NeverHalfUploaded ==
  \A k \in Keys : Published(k) /\ ~drop[k].crowded => drop[k].files /\ Whole(k)

\* Every blob directory has a row that Sweep will find it by, whatever fails,
\* overlaps or is killed between the steps of StartUpload and DeleteDrop, as
\* long as SQLite has not given one row id to two shares.
BlobsHaveRows ==
  IdsUnique => \A k \in dir : HasRow(k)

\* A blocked share that Sweep has neither listed nor begun to delete.
Held(k) ==
  /\ HasRow(k)
  /\ drop[k].blocked
  /\ k \notin reap
  /\ req[Sweeper].k # k

\* One of its own clients has had DeleteDrop called for k.
ClientDeletes(k) ==
  \E h \in Handlers : /\ req[h].pc \in {"del_cut", "del_blobs", "del_row"}
                      /\ req[h].k = k

\* Blocking holds a share for review.  Once a share is blocked that Sweep had not
\* listed before, its row, its block and its bytes stay, and no later Sweep ever
\* lists it, through its expiry, the publication, cancellation and deletion of
\* other shares and a restart: only a delete by its own sender or recipient takes
\* it away, unless SQLite has given one row id twice (Reapable, Sweep, Report).
BlockedIsKept ==
  [][\A k \in Keys : Held(k) /\ IdsUnique /\ ~ClientDeletes(k)
                       => Held(k)' /\ (k \in dir => k \in dir')]_vars

\* A recipient who has paid for a download can go on fetching the share's files
\* while the session, the share's retention and its downloads last: no sweep,
\* report, lock or restart takes the row away before that (in instances whose
\* clients do not delete).  The claim of the last download ends the promise:
\* it makes the share reapable.  There is none for a share that was published
\* after its upload window: a Sweep may have listed it as abandoned before.
ClaimedCanFinish ==
  \A t \in Tokens :
    LET k == sess[t].key
        Unfinished == /\ sess[t].claimed
                      /\ now <= sess[t].expiresAt
                      /\ drop[k].expiresAt > now
                      /\ drop[k].downloads < drop[k].maxDownloads
                      /\ ~drop[k].lapsed
    IN  Unfinished => HasRow(k)

\* Retention is a promise: the bytes of a share past its expiry disappear,
\* though deletions fail and the server restarts, unless the share is blocked
\* (or a row id was given twice).
RetentionKept ==
  \A k \in Keys :
    (k \in dir /\ drop[k].expiresAt <= now)
      ~> (k \notin dir \/ drop[k].blocked \/ ~IdsUnique)

\* A download session leaves memory once it has expired, even if nobody uses
\* it again.
SessionsSwept ==
  \A t \in Tokens :
    (t \in down /\ sess[t].expiresAt < now) ~> (t \notin down)

=============================================================================
