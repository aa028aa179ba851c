# A formal model of securefile

TLA+ modules, TLC runs and TLAPS proofs for the file-sharing service in `src/`:
what its server does with a share from `StartUpload` to the sweep, how a file is
received and sealed part by part, how it is read back, singly and in archives,
what keeps its clients within their rate, and how the process starts and stops.
`PROJECT.json` lists the components, the runs, the
definitions with the source lines they model, the hazards and the theorems.

## 1. The system

A sender uploads files into a *share* (a `drops` row, `files` rows and a
directory of sealed blobs) and hands its key and password to a recipient, who
unlocks it, gets a *download session* in the server's memory, and fetches the
files. The server forgets a share when its retention or its downloads are used
up.

| Component | State | Operations | Interacts with |
|---|---|---|---|
| share lifecycle (`internal/service`, `internal/store`) | SQLite tables, blob directories | `StartUpload`, `WriteParts`, `FinishUpload`, `CancelUpload`, `Unlock`, `OpenFile`, `DeleteBySession`, `ManageDelete`, `DeleteDrop` | everything below |
| download sessions (`session.go`) | map of sessions, one mutex | `put`, `get`, `delete`, `deleteByDrop`, `sweep`, `claimOnce` | `claimOnce` runs SQL under the mutex |
| reports (`report.go`) | `reports`, `drops.blocked_at` | `Report` | blocks a share and empties its sessions |
| sweeper (`main.go`, `sweep.go`) | the list of one pass | `Sweep` on a ticker | `DeleteDrop`, sessions, tickets |
| part writer (`upload.go`, `cryptobox/stream.go`, `resume.go`) | `files.received`, the blob | `WriteParts`, `writerAt`, `Writer`, `InspectPartial` | disk and database, not atomically |
| upload clients (`upload.js`, `uploader.c`) | offset, counters | send, retry, re-sync, finish | the part writer, over a network |
| ranged download (`transfer.go`, `seek.go`, `stream.go`) | position in the blob | `parseRange`, `OpenAt`, `Reader` | blobs that may be damaged |
| rate limiter (`ratelimit.go`) | one bucket per address | `allow`, `sweep` | guards unlocks, uploads, reports |
| client address (`clientip.go`) | none | `resolve` | reverse proxies; says whose bucket pays |
| download tickets (`ticket.go`, `transfer.go`) | map of tickets, one mutex | `IssueTicket`, `redeem`, `StatTicket`, `OpenTicket`, `sweep` | name sessions they may outlive |
| ZIP archive (`zip.go`) | the entries so far | `WriteArchive`, `SafeFileName`, `uniqueEntryName` | one `OpenFile` per file |
| startup and shutdown (`main.go`, `store.go`, `schema.sql`) | schema, key file, open requests | `run`, `Open`, `migrate`, `loadOrCreateKey` | systemd, signals, kills |

Every HTTP request is a goroutine. Nothing serialises two requests for one share
except SQLite (one connection, so statements and transactions are atomic) and
the session table's mutex. Hard to test, and what the properties are about:

* requests that carry a row id, a session object or a list of shares from one
  step to the next while other requests change what it refers to. `drops.id` is
  an `INTEGER PRIMARY KEY` without `AUTOINCREMENT`: SQLite gives an id again
  after the newest row is deleted;
* steps that change two stores (disk and database, database and session table)
  and can be cut between them by an error, a disconnecting client (the SQL runs
  under the request's context) or a kill of the process;
* retries of parts whose answer was lost;
* tickets that outlive their session, and an archive that opens its files one
  after the other while the session, the share or the ticket ends;
* a start that is killed halfway, of a database that an earlier version made, and
  a stop with requests in flight;
* clock readings taken outside a mutex;
* the arithmetic of chunks, parts and ranges.

What makes each component correct: a share is served to no more sessions than
its sender allowed; a session pays once; a block takes effect at once and holds;
only whole files are published; no bytes are left where the sweep cannot find
them; expired bytes and sessions disappear; what was acknowledged is on disk
and decrypts; a client stops; a download is exactly what was asked for or
visibly fails; a probe costs nothing; an archive is whole or visibly broken; an
address stays within its rate, and a request counts for the address it came
from; the server comes back after a kill, with its whole schema and its old key.

## 2. The modules

| Module | Models | Composes |
|---|---|---|
| `Shares` | lifecycle, sessions, reports, sweeper | |
| `SharesProofs` | theorems about downloads, reports and types | extends `Shares` |
| `LifecycleProofs` | theorems about rows, bytes and what sessions pay | extends `SharesProofs` |
| `Permits` | what downloads promise, abstractly | |
| `SharesPermits`, `PermitsProofs` | the refinement mapping, its proof | `Shares`, instance of `Permits` |
| `PartWriter` | one file of an upload on the server | |
| `Uploader` | either client, or any other, against that server | extends `PartWriter` |
| `UploaderProofs` | theorems about both, for one request at a time | extends `Uploader` |
| `RangeDownload`, `RangeDownloadProofs` | one GET of a file, its theorems | |
| `Tickets`, `TicketsProofs` | downloads and archives by ticket, their theorems | |
| `Limiter` | the token bucket | |
| `Gate`, `GateProofs` | whose bucket a request behind proxies takes from, theorems about both | extends `Limiter` |
| `Boot`, `BootProofs` | the life of the process, its theorems | |
| `MC*` | what TLC needs: symmetry sets, small sets of data | extend the above |

### Shares

A process is a request (`Handlers`) or the sweeper; `req[p].pc` is the step it
is at, and each step is one access to shared state: one SQL statement or
transaction, one file-system call, one critical section of the session table.
The prefixes of the steps name the service call (`start_`, `write_`, `finish_`,
`cancel_`, `unlock_`, `open_`, `sdel_`, `del_`, `rep_`, `sweep_`).

* `drop[k]` is the row of share `k` with its file row and its upload session. The
  record outlives the row (`status = "gone"`) because requests keep the
  `*store.Drop` they have read. Statements that say `WHERE id = ?` go through
  `IsRow(k, i)`, so they hit whatever row has that id *now*; `NextRowId` and
  `NextFileId` give ids the way SQLite does.
* `dir` is the set of blob directories, `reports` the keys in the reports table.
* `sess` holds every session object ever made, `down` the tokens in the table: a
  request keeps using the object after the table has dropped it.
* `mu` is held across steps only by `claimOnce` (`OpenClaim`, `OpenClaimed`);
  every other critical section of the table is one step and waits for it.
* `Disconnect` ends a request at any step that begins with SQL under its
  context or with a read of its body; `Restart` loses memory and keeps the
  database and the disk; `DeleteBlobsFails` is a failing `RemoveAll`.
* History variables and fields: `cutOff` (shares whose block has also emptied the
  table), `late` (an `OpenFile` that began after that), `charged`, `crowded` (two
  `WriteParts` of the file have overlapped), `given`, `lapsed` (published after the
  end of its upload window).
* `received` is `files.received` and `onDisk` what the blob holds, in parts.
  `WriteParts` is a step for the session, one for the file row (`WriteFile`), one
  for `OpenFile` and `writerAt` (`WriteOpen`: a first part truncates the blob, a
  later one must fit what is there), one per part of the body (`WriteBlob`), and
  `SetReceived`, which writes the new length over whatever the row says
  (`WriteSet`), or the rollback of a part that ends inside a chunk
  (`WriteRollback`). A deletion may come between any two: bytes then go into an
  unlinked file.

A share has one file, of `Parts` chunk-aligned parts: the code's loops do the same
to each file. Passwords are right; a wrong one changes nothing. Keys and tokens are
never drawn twice. What the chunks of a part are, and what a torn one does, is in
`PartWriter`. Clients that send a part before the last one was answered are the
request kind `"overlap"`. A clock reading and the statement or critical section it is passed
to are one step, except in `Sweep`, which carries its reading to `Reapable`.

One assumption on the environment is built into `Tick` (`StartsInTime`): the
few statements of `StartUpload` outlive neither the upload window (a day by
default) nor the retention of the row they have inserted. Without it the sweep
could delete a share that is still being created.

### Permits and SharesPermits

`Permits` says what a sender may expect of downloads, without tables, statements
or mutexes: a share has an allowance; a permit is granted while a visitor is at
the door, never beyond the allowance, never taken back; only a visitor with a
permit is served; after a revocation nobody new is admitted. `SharesPermits`
maps `Shares` onto it. A permit is a *claimed* session object, which may have
left the table; a share is revoked when its block has also emptied the table; a
request inside `OpenFile` is at the door until it serves. An `OpenFile` that
began after the cut-off is away: that it never gets further is what the mapping
makes `Permits` demand.

### PartWriter and Uploader

Lengths are in units of which `ChunkSize` make a chunk. A blob is a header with
a nonce prefix and a sequence of cells, one per sealed chunk, each saying with
which nonce it was sealed and where in the file its bytes come from; `Readable`
is what `Reader` accepts and yields in full. A request takes one step per system
call: `Stat`, truncate (at offset 0, or where `Stat` has shown a torn tail), header,
each chunk, the last chunk with `Sync`, and `SetReceived`. Faults (`BodyFails`,
`WriteTears`, `FlushFails`, `SetFails`, `Crash`) may come between any two of them; a
write that fails in `FlushFull` is rolled back, any other torn chunk stays. In `PartWriter` itself clients send any body at any
offset; `Uploader` has them beside the loops of the two clients, which send one
part at a time, may lose answers, retry, re-sync on 409 and finish. The third
kind of client ("other") sends any body at any offset, one request at a time; it
reads no answers.

Outside the model: the cancel button and the Windows client's `DELETE` after a
failure (`CancelUpload` is in `Shares`), and a lost answer to the last `finish`,
after which both clients report a failure.

### RangeDownload

`Init` picks any `Range` header, any size, and a blob that may have lost its
tail or hold one damaged chunk. Then `parseRange`, `OpenAt` (seek, decrypt and
discard) and the `Reader`/`CopyN` loop run. `Asked` is the meaning of the header,
stated apart from the code. Headers that `parseRange` does not take (another unit,
several ranges, no numbers) are `Unsupported`. `HEAD` and the ticket lookup are in `Tickets`.

### Limiter

Tokens are counted in units of what one tick refills, so that they are integers:
a request costs `Cost` units. `allow` and `sweep` are two steps each, because
they read the clock before they lock. A request whose peer address cannot be
parsed passes without a token (`ratelimit.go:41-43`); no TCP connection has such a
peer, and the model has no such request.

### Gate

`Gate` puts `clientIPResolver` before that bucket. A request is its TCP peer, the
real-IP header and the hops of `X-Forwarded-For`. Clients write both headers as
they like; each trusted proxy on the way appends whoever connected to it, and
where a real-IP header is configured the first one sets it. Hosts may appear in
their IPv4-mapped spelling, which no trusted prefix contains. `AccountedTo` is
every address a client's requests can resolve to, and `Arrive` calls `allow` with
one of them. `handleStartUpload`, `handleUnlock` and `handleReport` do this each
with a limiter of its own; the model is one of them.

### Tickets

The sessions of one published share and the tickets issued with them. A request
(`req[h]`) steps through `handleIssueTicket`, `handleDownload` or `handleArchive`,
one step per critical section, statement or system call: a download redeems its
ticket twice (`StatTicket`, `OpenTicket`), an archive redeems it twice and then
calls `OpenFile` for each file. A `HEAD` of the archive (`zipHead`) does all of this
too: the pattern `GET /zip/{ticket}` matches it, and `handleArchive` does not look
at the method. `claimOnce` with `ClaimDownload` is one step here
and two in `Shares`. Lock, expiry, the block, the cut-off, the deletion of blobs
and row, and the sweeps come in between. `late` notes that the ticket or the session
had already ended when the transfer began, or the session when an archive turned
to its next file; `asked` notes for which sessions a file was asked for with `GET`
or the archive with either method.

A file name is a directory part and a base; a base is a stem followed by the
numbers in parentheses after it. `SafeFileName` drops the directory and calls an
empty base "file"; `uniqueEntryName` appends a number. Characters, extensions and
the limit of 200 bytes are left out.

### Boot

One process at a time, from `Start` to `Exit` or `Kill` and again. `made` and
`columns` are the schema as it is on disk; `Init` lets it be any first part of the
script and of the migrated columns, as earlier versions and interrupted starts
leave it. Statements commit one by one; `Signal` cancels the context they run
under. The key file is created (`CreateKey`) before it is written (`WriteKey`),
as `os.WriteFile` does. `hashed` collects the keys that recorded uploader hashes
were made with. While `Shutdown` drains, a connection accepted before may still
send its request (`Accept`). That `run` closes the store only after `Shutdown` has
returned is the order of two lines and no property of its own; requests that
outlive the 30 seconds of `Shutdown` meet a closed store.

Kills are kills of the process: what it has written stays. A power failure, after
which an unsynced key file may be empty or gone, is outside the model. The
sweeper after a restart is in `Shares`.

## 3. Runs that pass

| Run | Properties | Instance |
|---|---|---|
| `downloads` | `TypeOK`, `ServedWithinAllowance`, `OneDownloadPerSession`, `BlockCutsOff`, `PublishedIsComplete`, `ClaimedCanFinish`, `ImplementsPermits` | 1 share of 2 parts, 2 sessions, 2 requests, limit up to 2, an upload window shorter than the retention, 1 restart, time 0..2 |
| `lifecycle` | `BlobsHaveRows`, `BlockedIsKept` | 2 shares, 2 requests that start, cancel, delete and report, disconnections, 1 restart, time 0..1 |
| `retention` | `PublishedIsComplete`, `RetentionKept`, `SessionsSwept` | 1 share of 2 parts, 1 session, 1 request of any kind beside the sweeper, 1 restart, time 0..4, fairness |
| `uploads` | `TypeOK`, `ReceivedIsStored`, `CompleteIsReadable`, `DoneIsReadable`, `UploadEnds` | three kinds of client, a file that ends inside its last chunk, bodies of every length up to two chunks and longer than the file, 3 faults, fairness |
| `rate` | `RateBound`, `Attributed` | 2 requests and the sweep, a client behind up to 2 proxies, headers of its own with up to 2 foreign, mapped or unreadable hops, with and without a real-IP header, time 0..5 |
| `ranges` | `DoneIsExact`, `NothingElseSent`, `RefusedIsEmpty`, `WholeFileCompletes` | sizes 0..7, chunks of 3, positions 0..8, every truncation, one damaged chunk |
| `tickets` | `ProbesAreFree`, `EndedServesNothing`, `ArchiveWhole`, `EntryNamesDistinct`, `TicketsSwept` | 3 files whose names all come out as "file", 1 session, 1 ticket, 2 requests, time 0..3, fairness |
| `boot` | `SchemaComplete`, `OneKey`, `ServesAgain` | 61 databases, 2 requests, 4 faults, fairness |

What they show, beyond the names:

* `ImplementsPermits` sums up the download side: whatever requests, their
  disconnections, the sweep and restarts do to one another, the permit counter
  is all that a sender and a recipient can see.
* `ClaimedCanFinish` says that the sweep never takes a share from a session on
  account of a claim that left downloads over.
* `PublishedIsComplete` is not kept by `Finalize` alone: a `WriteParts` that has
  opened the blob before may truncate, roll back or set `received` afterwards. It
  holds because a published file is complete, so that `WriteParts` returns early,
  and because the one request that completed it has nothing left to write.
  `downloads` has two requests for this, `retention` every way to delete a share
  while its parts are written.
* `BlockedIsKept` needs two shares: the sweep deletes one of them, and requests
  cancel or delete it, while the other is blocked and expires.
* `ProbesAreFree` is what `StatTicket` is for. `EndedServesNothing` holds because
  `OpenFile` looks the session up again for every file (the ticket is not looked
  up again once an archive has begun, and is not promised to be), and `ArchiveWhole` because
  `WriteArchive` returns before `Close` when one file fails.
* `Attributed` is stated on the calls of the limiter: in front of `RateBound`, it
  says that the rate is a client's and not a header's.
* `OneKey` has two halves: the hashes were made with one key, *and* the key file
  still holds it. Together they say that a torn file is only ever found before
  the first hash, so that removing it loses nothing.

The bounds are the smallest at which the races happen. Two requests and the
sweeper are enough for every pair of calls to overlap, and a third actor is
always there (the sweeper or the restart). Two shares are needed for a row id to
pass from one to the other, two sessions for a download limit to be contended,
a limit of two for a wrong extra charge to be possible. Time goes far enough for
an upload window, a session and a retention to end while a request is in flight,
and, in `retention`, for a session to expire after its share is gone. Files span
more than two chunks and end inside a chunk or on its boundary. Three files are
needed for a name to come up a third time, and a ticket that ends before its
session, a session that ends before the clock. Four faults let a start be killed
in the schema, in the migrations and in the key file before it succeeds.
Two parts are needed for a file to be resumed, rolled back and complete in turn.
`lifecycle` leaves publication out, which `BlobsHaveRows` and `BlockedIsKept` do not
look at (the theorems have it): an upload in progress can be reported as well.
`lifecycle` is the largest, with about 1.7 million states; `downloads` has 1.3 million.

`PublishedIsComplete` is about files whose `WriteParts` did not overlap (no passing
run has `"overlap"`; `id_reuse` has, and `two_writers` shows the overlap itself,
chunk by chunk). `PublishedIsComplete`, `BlobsHaveRows`, `BlockedIsKept` and
`RetentionKept` have the proviso `IdsUnique`: no row id was given twice. Run `id_reuse` shows why
it is needed.

**Fairness** (`FairSpec`): time passes, an accepted request goes on (goroutines
are scheduled and SQL calls return), the sweeper's ticker fires (`sweepLoop` never
exits while the server runs), and a `RemoveAll` that is tried again and again
succeeds in the end (strong fairness of `DeleteBlobs(Sweeper)`, the only
assumption about the disk). No request has to arrive, no client has to
disconnect, nothing has to fail. `UploadSpec`: the client and the server take
their next step; faults are never bound to happen. `RangeDownload`: the handler
runs to its end. `Tickets`: the clock goes on and the sweep's ticker fires.
`Boot`: systemd (`Restart=on-failure`, or the restart of `deploy/update.sh`) starts
the process, and its start and its stop go on; no request is obliged to end,
which is what the timeout of `Shutdown` is for, and no operator to remove a file.

`CHECK_DEADLOCK FALSE` stands in the runs whose system may stop: an upload or a
download that is over, a clock at its bound.

## 4. Runs that disagree with the repository's words

Each checks what a comment or the README says and finds a counterexample.

* `id_reuse` (`NeverHalfUploaded`): a `FinishUpload` that resolved its session,
  then lost its share to a `CancelUpload`, finalises the row that a new
  `StartUpload` has inserted with the same id and no file yet.
* `disconnect_charge` (`OneDownloadPerSession`): the client goes away between the
  `UPDATE` and the `SELECT` of `ClaimDownload`; the download is counted, the
  session stays unclaimed and pays again.
* `two_writers` (`CompleteIsReadable`): two requests with the same offset pass
  the check; the second truncates or overwrites what the first has sealed.
* `interrupted` (`InterruptedContinues`): a part after the first fails once whole
  chunks are on disk. `WriteParts` insists on `files.received`, `writerAt` on the
  longer file, and the upload cannot go on.

The same models show, without runs of their own:

* the id of a deleted share can also reach another share through the second of
  two overlapping `DeleteDrop`s, which leaves the new share's directory without
  a row, and through a session put by an `Unlock` in flight, with which
  `DeleteBySession` then deletes the new share;
* a share that is reported after `Reapable` has listed it is deleted (hence
  `BlockedIsKept` begins where no list holds the share), and `ManageDelete` does
  not look at the block at all;
* an `OpenFile` of a session that has already paid, which got its session object
  before the cut, opens its blob and serves it after the report, although
  `report.go:47` says that "Blocking stops all downloads at once" (`BlockCutsOff`
  speaks of requests that begin after the cut);
* a `HEAD` of `/zip/{ticket}` spends a download, although `transfer.go:23-24` says that
  "a HEAD request [...] must not spend one of the share's downloads" and
  `download.go:236-239` that a "download manager's probe" would otherwise spend "a
  recipient's single allowed retrieval" (hence `ProbesAreFree` lets a `HEAD` of the
  archive count as asking for it);
* a `Range` header of another unit, with several ranges or with numbers that
  `ParseInt` does not take is answered with 416, although the comment of
  `parseRange` (`transfer.go:101-102`) says that an "unparseable-but-ignorable header
  yields the whole file" (hence `RefusedIsEmpty` leaves `Unsupported` headers out);
* an archive goes on after its ticket has expired: `WriteArchive` redeems it only
  at its start (`zip.go:18`);
* after the signal `sweepLoop` may delete bytes whose row it can no longer delete;
  the row is listed again after the restart (`RetentionKept` is about bytes);
* `validateStart` counts published shares only, so uploads in progress together
  can pass the quota;
* a share deleted while it is reported makes `CreateReport` fail on its foreign
  key, and the report is lost;
* `upload_run` resets `attempts` on every 409 before comparing it, so in the
  situation of `interrupted` it never stops (hence `UploadEnds` is about the
  browser);
* the claim of the last download makes the share reapable, and the next sweep
  deletes it and the session under a recipient who is still fetching, although
  `download.go:146-148` says such a share "can still be fetched in full" (hence the
  proviso of `ClaimedCanFinish`, a download left over);
* `FinishUpload` looks at the upload window before `Finalize`, and `Finalize` does
  not look again: a share that the sweep has just listed as an abandoned upload can
  still be published, unlocked and paid for, and is then deleted by the pass under
  way (hence the proviso `lapsed` of `ClaimedCanFinish`; the attempt to prove the
  property without it is how this came to light);
* of the files "a", "a" and "a (2)" two become the entry "a (2)", although
  `zip.go:94-95` says that neither of two equal names overwrites the other (hence
  the proviso of `EntryNamesDistinct`);
* an archive begun while its share is deleted can close without an entry: `Files`
  of a share that is gone is an empty list and no error (hence the exception in
  `ArchiveWhole`);
* a start that dies between the creation and the writing of the key file leaves a
  file that every later start refuses (hence the exception in `ServesAgain`);
* an empty file asked for without a `Range` header is announced as one byte
  (hence the exception in `WholeFileCompletes`).

## 5. What is proved

For any number of shares, sessions, requests, restarts and any bounds on time
(`SharesProofs`):

* `TypeCorrect`: `Spec => []TypeOK`.
* `DownloadLimit`: `Spec => []ServedWithinAllowance`.
* `BlockingStopsDownloads`: `Spec => []BlockCutsOff`.
* `BlockedIsHeld`: `Spec => BlockedIsKept`.

They rest on `Invariance`, `Spec => []IInv`. None of the properties is inductive:

* `CountOK` says that `downloads` is at least the number of sessions charged and
  at most the limit; `ClaimOK` that whoever has claimed was charged. A session is
  charged in one step and claims in a later one, and a disconnection between them
  breaks the equality, so the invariant is an inequality, and it is on charged
  sessions, not on claimed ones.
* `CutOffOK` says what is left of a share that has been cut off: no claimed
  session in the table, nobody inside `claimOnce`, and every late `OpenFile`
  still before its claim with an unclaimed session. That `claimOnce` holds `mu`
  while `deleteByDrop` needs it is what makes this inductive.
* `SessOK`, `OpenOK`, `HoldOK`, `FreshOK`, `ReapOK` and `EmptyOK` tie sessions,
  requests, drawn keys and the sweep's list to shares that exist or existed.

`BlockedIsHeld` is a statement about steps: of a share that is held, the sweeper has
neither the key on its list nor in hand, `Reapable` does not list it, every
statement by row id reaches another row while ids are unique, and whoever removes a
directory is deleting the share it belongs to.

The proof of `Invariance` has one lemma for each action that changes what the invariant is about
(`StartCreateOK`, `UnlockPutOK`, `OpenClaimOK`, `OpenClaimedOK`, `ReportCutOK`)
and treats the others together (`Move`, `RowUpdates`: a step that keeps every
row's id and counters).

`LifecycleProofs` goes on from `IInv`, for any number of shares, sessions,
requests and restarts:

* `NoOrphanedBlobs` (`BlobsHaveRows`) rests on `SInv`: `AlwaysOK` whatever the row
  ids, `RowsOK` while no share has inherited one. An id that is given twice is never
  taken back, so the implication is inductive. `PrivateOK` is the centre of it: until
  `StartUpload` has answered, no other request, session or sweep has its share in
  hand, so `DeleteDrop` cannot come between its row and its directory; that the
  sweep does not list it is what `StartsInTime` is needed for.
* `NoHalfUploadedShare` (`PublishedIsComplete`) rests on `BInv` beside it, for any
  kinds of request, overlapping ones included, and any number of parts. The
  property says nothing of requests, and it is they that could break it. `KeyOK`
  says of every file that was never written by two requests at once: at most one
  request has it in hand; what that one has found and appended is on disk, ahead of
  `received`, which is still what it found; a file that has received everything
  has everything on disk and no request that could truncate it; and a published
  one has received everything. A step of one share's upload leaves the bytes of the
  others alone because file ids are unique, and an overlap, once noted in
  `crowded`, stays noted.
* `OneSessionOneDownload` (`OneDownloadPerSession`) is proved where `Requests` has
  no `"disconnect"`; with it the property is false, which is what run
  `disconnect_charge` shows. `HalfOK` says that a charge that the session does not
  know of cannot be made again: its `claimOnce` is still running and holds `mu`, or
  the share is gone, or a restart has emptied the table and nobody holds the
  session's object.
* `PaidCanBeFetched` (`ClaimedCanFinish`) is proved where no client deletes shares
  (`cancel`, `sessionDelete`, `manageDelete`): a sender may of course delete what a
  recipient is fetching. Disconnections, reports, restarts and reused ids are in.
  `ListedOK` says that whatever the sweep is about to delete is due, and remains
  due until then; `LockedOK` that a share that is gone had ended or was never
  unlocked; `DistinctOK` that two rows of the table at one time have two ids, which
  is all that SQLite promises.

A step is looked at once for the last two (`StepKinds`): it is an ordinary step of one
process, a claim, the end of a claim, a put, a tick or a restart, and `Ordinary`
says how an ordinary step may change a record.

`UploaderProofs` proves `UploadTypes` (`TypeOK`), `AcknowledgedIsStored`
(`ReceivedIsStored`), `CompleteIsWhole` (`CompleteIsReadable`) and `DoneIsWhole`
(`DoneIsReadable`) of `UploadSpec`, for any size of chunks, parts, bodies and files,
any of the three clients and any number of faults, where the requests for a file
do not overlap (`OneWriter`). Run `two_writers` shows that they must not. The
invariant `PInv` says of the blob that every cell but the last is a whole chunk
(`Shaped`, which makes what `AlignDown` leaves predictable) and that it begins with
exactly the chunks that `received` counts (`StoredOK`), and of a request what it
has added: while it copies, the blob is what was acknowledged and what this
request has sealed, and nothing else (`CopyOK`), and when it waits for
`SetReceived`, the new length is already there (`SetOK`). A fault at any of these
points leaves a blob that `StoredOK` still describes. `UInv` adds that a client
that is done has met `received >= Size`. The lemmas on `PutCell`, `TruncateTo` and
`WholeCells` (`Appended`, `Truncated`, `WholeKept`) and the arithmetic of chunks
(`ChunkTimes`, `ChunkDiv`) carry it.

`RangeDownloadProofs` proves `DownloadIsExact` (`DoneIsExact`), `NothingElse`
(`NothingElseSent`) and `RefusedAsksNothing` (`RefusedIsEmpty`, which is about
headers with one well-formed range) for any size, chunk size, header, truncation and
damage. The invariant follows a cursor: what is sent
is an interval that begins where the range does (`SentOK`), what the reader has
decrypted begins where that ends (`OutOK`), and what `parseRange` has found is what
the header asks for (`RangeOK`), but for the empty file.

`GateProofs` proves `RateLimited`, `Spec => []RateBound`, for any capacity,
cost, number of addresses and requests. The invariant weighs what has been
granted in the window together with what the bucket holds *now* (`AccountOK`);
`SolventOK` bounds how far an out-of-order reading can take a bucket into debt,
which is what lets `sweep` drop a full bucket without giving anything away. For the
gate it proves `GateImplementsLimiter`, `GateSpec => Spec`, so that `RateBound` holds
behind proxies too (`GateRateLimited`), and `RequestsAttributed` (`Attributed`), for
any hosts, any number of proxies on the way and any text in the headers: from the
right, the hops are those that trusted proxies have appended, and the first one
that no trusted proxy has is the client.

`PermitsProofs` proves `SharesImplementPermits`, `Spec => ImplementsPermits`. Most
steps are quiet: they change nothing the mapping looks at. `OpenClaimed` is a
`Grant`, and that the allowance has room is read off `CountOK` and `ClaimOK`: the
claimed sessions are charged ones, and the one now claiming is charged and not
yet claimed, so they are strictly fewer than the limit. `ReportCut` is a `Revoke`;
a request that comes to serve was at the door, and not late, because of `CutOffOK`;
a restart is a `Clear`. The proof needs no invariant beyond `IInv`.

`TicketsProofs` proves `ProbesNeverCharge` (`ProbesAreFree`), `EndedIsEnded`
(`EndedServesNothing`), `ClosedIsWhole` (`ArchiveWhole`) and `EntriesNeverCollide`
(`EntryNamesDistinct`) for any number of sessions, tickets, requests and files. Each needs to say more of a request than
the property does: `LateOK` that a late request's session has ended, which no step
ever takes back, so that the lookup in `OpenGet` stops it; `AskedOK` that every
request on its way to a claim has asked for its file or for the archive, from the
moment it arrives;
`ArchiveOK` that while an archive is written its entries are the files up to some
`k` (`Made(k)`) and its list the files after it (`Left(k)`), shifted by the one file
being copied. `Lists` proves what `Head`, `Tail` and `Append` do to these. For the
names, a file has strictly more namesakes before it than the namesake before it
has (`NamesakesGrow`), and a number tells two names apart or their stems do
(`NumbersTellApart`).

`BootProofs` proves `RequestsMeetWholeSchema` (`SchemaComplete`) and
`HashesComparable` (`OneKey`) for any keys, requests and number of kills and failing
calls. `ScriptOK` and `MigrateOK` say that whatever a
start has passed, of the script and then of the migrations, is on disk, though it
may have been put there by another start; `KeyOK` that the key file holds the key
from the moment a request can be accepted, and that the first hash comes later;
`ActiveOK` that there are requests only after the whole start.

Assumptions: the constants are what their names say (`BoundsAssumption` and the
others, evaluated by TLC in every run), and tokens are finite in number.

Only model-checked: everything about liveness (`RetentionKept`, `SessionsSwept`,
`UploadEnds`, `WholeFileCompletes`, `TicketsSwept`, `ServesAgain`), which the prover
does not handle. Every invariant of a passing run, `BlockedIsKept` and
`ImplementsPermits` are theorems as well.

## 6. Not modelled

Size limits (`geomLimit` is floating point), password hashing and key wrapping,
usage statistics (best effort; a repeated `FinishUpload` counts twice), admin
and legacy subsystems (stubs in this tree), flags and environment variables,
pages, languages and the tray client.

## 7. Running it

    tlc -workers 2 -config MCShares_downloads.cfg MCShares
    tlc -workers 2 -config MCTickets_tickets.cfg MCTickets
    tlapm SharesProofs.tla
    tlapm LifecycleProofs.tla

and so on for the other configurations and the other `*Proofs` modules.

## 8. Plan

Done: `Shares` with its abstract specification `Permits`, `PartWriter`, `Uploader`,
`Limiter` and `Gate`, `RangeDownload`, `Tickets`, `Boot`, and the theorems above.
Next, in this order:

1. An append-only file that `PartWriter` implements for one writer, with the
   acknowledged length as its only state that a client sees.
2. The safety that the liveness properties rest on: a share past its expiry
   remains reapable or listed until it is gone, and an upload's counters only grow
   between two acknowledged parts.
3. `Collector`: the Windows client's `handoff` and `own_and_collect`, and the idle
   exit of its local server: a path that was handed over is sent by somebody,
   and the process does not end under a send.
