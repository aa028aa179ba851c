------------------------------ MODULE Tickets -------------------------------
(***************************************************************************)
(* Downloads by ticket: IssueTicket, redeem, StatTicket and OpenTicket of  *)
(* internal/service, handleDownload and handleArchive of internal/httpd,   *)
(* and WriteArchive with the entry names it makes up.                      *)
(*                                                                         *)
(* The sessions are those of one published share, unlocked before the      *)
(* behaviour begins; they end by Lock, by expiry, or when a report or a    *)
(* deletion empties the table.  Every step is one critical section of a    *)
(* table, one SQL statement or one file-system call.  What Shares says of  *)
(* claimOnce in two steps is one here.                                     *)
(***************************************************************************)
EXTENDS Naturals, Sequences, FiniteSets

CONSTANTS
  Sessions,    \* tokens of the share's sessions
  Ids,         \* ticket ids: NewToken never draws one twice
  Handlers,    \* concurrent HTTP requests
  NFiles,      \* files of the share, in upload order
  Singles,     \* the files that are also asked for one by one
  NameLists,   \* what the sender's browser may have called the files
  Limit,       \* the share's download limit
  SessionTTL,  \* Config.DownloadTTL
  TicketTTL,   \* ticketTTL
  MaxTime      \* bound: the clock stops here

Files == 1..NFiles
ZipTicket == 0   \* the file id -1 of the code

\* A name is a directory part and what path.Base leaves of it.  The base is a
\* sequence, its stem and the numbers in parentheses after it: <<1>> for "a",
\* <<1, 2>> for "a (2)", and <<>> for what is empty once dots and blanks are
\* trimmed.
ASSUME TicketsAssumption ==
  /\ Sessions # {} /\ Ids # {}
  /\ NFiles \in Nat \ {0}
  /\ Singles \subseteq Files
  /\ \A l \in NameLists : l \in Seq([dir : BOOLEAN, base : Seq(Nat)]) /\ Len(l) = NFiles
  /\ Limit \in Nat
  /\ SessionTTL \in Nat \ {0}
  /\ TicketTTL \in Nat \ {0}
  /\ MaxTime \in Nat

VARIABLES
  now,      \* Service.now()
  names,    \* the share's file names
  share,    \* its row, blobs, downloads left, and whether it may be claimed
  sess,     \* the downloadSession objects
  down,     \* sessionTable.m
  tickets,  \* every ticket ever issued
  table,    \* ticketTable.m: the ids it still holds
  req,      \* what each request is doing
  asked     \* history: sessions with which a body or an archive has been asked for

vars == <<now, names, share, sess, down, tickets, table, req, asked>>

-----------------------------------------------------------------------------
(***************************************************************************)
(* The tables.                                                             *)
(***************************************************************************)
AnyId == CHOOSE id \in Ids : TRUE
AnySession == CHOOSE t \in Sessions : TRUE

NoTicket == [session |-> AnySession, file |-> ZipTicket,
             expiresAt |-> 0, issued |-> FALSE]

\* sessionTable.get: it finds a live session, and drops an expired one.
Gets(t) == t \in down /\ now <= sess[t].expiresAt
AfterGet(t) == IF now > sess[t].expiresAt THEN down \ {t} ELSE down

\* redeem: it finds a ticket, again and again until it expires.
Redeems(id) == id \in table /\ now <= tickets[id].expiresAt
AfterRedeem(id) == IF now > tickets[id].expiresAt THEN table \ {id} ELSE table

\* What the recipient may no longer use.
SessionEnded(t) == t \notin down \/ now > sess[t].expiresAt
TicketEnded(id) ==
  \/ id \notin table
  \/ now > tickets[id].expiresAt
  \/ SessionEnded(tickets[id].session)

-----------------------------------------------------------------------------
(***************************************************************************)
(* The entry names of an archive.                                          *)
(***************************************************************************)

\* SafeFileName: the directory and the tail go, and what has no name left is
\* called "file".
FileStem == 0
SafeFileName(n) == IF n.base = <<>> THEN <<FileStem>> ELSE n.base

\* Mutant of Used: the map only remembers that a name was there.
UsedOnce(entries, name) ==
  IF \E j \in DOMAIN entries : SafeFileName(names[entries[j]]) = name THEN 1 ELSE 0

\* used[name]: how often the name has come up among the entries so far.
Used(entries, name) ==
  Cardinality({j \in DOMAIN entries : SafeFileName(names[entries[j]]) = name})

\* uniqueEntryName for entry j.
EntryName(entries, j) ==
  LET name == SafeFileName(names[entries[j]])
      n == Used(SubSeq(entries, 1, j - 1), name)
  IN  IF n = 0 THEN name ELSE Append(name, n + 1)

-----------------------------------------------------------------------------
(***************************************************************************)
(* A request: its session, its ticket and what it is (a "get" or a "head"  *)
(* of a file, a "badrange", a GET of an archive, "zip", or a HEAD of one,  *)
(* "zipHead"), or the file it wants a ticket for; for an archive the files *)
(* still listed and the entries created.  late is history: what this       *)
(* transfer needs had ended when it, or the file of an archive it is at,   *)
(* began.                                                                  *)
(***************************************************************************)

\* The pattern "GET /zip/{ticket}" also matches HEAD, and handleArchive does not
\* look at the method: only the body it writes goes nowhere.
Archives == {"zip", "zipHead"}

Idle == [pc |-> "idle", id |-> AnyId, t |-> AnySession, file |-> ZipTicket, kind |-> "get",
         listed |-> <<>>, entries |-> <<>>, late |-> FALSE]

At(h, step) == req[h].pc = step
Goto(h, step) == req' = [req EXCEPT ![h].pc = step]
Return(h) == req' = [req EXCEPT ![h] = Idle]

\* The request goes on if ok, and is answered with an error if not.
Check(h, ok, step) == IF ok THEN Goto(h, step) ELSE Return(h)

Init ==
  /\ now = 0
  /\ names \in NameLists
  /\ share = [row |-> TRUE, dir |-> TRUE, open |-> TRUE, cut |-> FALSE, left |-> Limit]
  /\ sess = [t \in Sessions |-> [expiresAt |-> SessionTTL, claimed |-> FALSE]]
  /\ down = Sessions
  /\ tickets = [id \in Ids |-> NoTicket]
  /\ table = {}
  /\ req = [h \in Handlers |-> Idle]
  /\ asked = {}

-----------------------------------------------------------------------------
(***************************************************************************)
(* handleIssueTicket and IssueTicket.                                      *)
(***************************************************************************)
IssueGet(h, t, f) ==
  /\ At(h, "idle")
  /\ down' = AfterGet(t)
  /\ req' = IF Gets(t)
            THEN [req EXCEPT ![h] =
                    [Idle EXCEPT !.pc = IF f = ZipTicket THEN "issue_put" ELSE "issue_row",
                                 !.t = t, !.file = f]]
            ELSE req
  /\ UNCHANGED <<now, names, share, sess, tickets, table, asked>>

\* FileByID.
IssueRow(h) ==
  /\ At(h, "issue_row")
  /\ Check(h, share.row, "issue_put")
  /\ UNCHANGED <<now, names, share, sess, down, tickets, table, asked>>

\* A fresh id goes into the table.
IssuePut(h, id) ==
  /\ At(h, "issue_put")
  /\ ~tickets[id].issued
  /\ tickets' = [tickets EXCEPT ![id] = [session |-> req[h].t, file |-> req[h].file,
                                         expiresAt |-> now + TicketTTL, issued |-> TRUE]]
  /\ table' = table \cup {id}
  /\ Return(h)
  /\ UNCHANGED <<now, names, share, sess, down, asked>>

-----------------------------------------------------------------------------
(***************************************************************************)
(* handleDownload.                                                         *)
(***************************************************************************)

\* A request with this ticket arrives and redeems it.
Arrive(h, id, kind, step) ==
  /\ At(h, "idle")
  /\ tickets[id].issued
  /\ table' = AfterRedeem(id)
  /\ req' = IF Redeems(id) /\ (kind \notin Archives => tickets[id].file # ZipTicket)
            THEN [req EXCEPT ![h] =
                    [Idle EXCEPT !.pc = step, !.id = id, !.t = tickets[id].session,
                                 !.kind = kind, !.late = TicketEnded(id)]]
            ELSE req
  /\ asked' = IF kind \in {"get"} \cup Archives THEN asked \cup {tickets[id].session}
                                                ELSE asked
  /\ UNCHANGED <<now, names, share, sess, down, tickets>>

\* StatTicket: redeem, get, FileByID.
StatTicket(h, id, kind) == Arrive(h, id, kind, "stat_get")

StatGet(h) ==
  /\ At(h, "stat_get")
  /\ down' = AfterGet(req[h].t)
  /\ Check(h, Gets(req[h].t), "stat_row")
  /\ UNCHANGED <<now, names, share, sess, tickets, table, asked>>

\* Mutant of StatRow: the body is opened before the method is looked at.
StatRowOpens(h) ==
  /\ At(h, "stat_row")
  /\ Check(h, share.row /\ req[h].kind # "badrange", "open_redeem")
  /\ UNCHANGED <<now, names, share, sess, down, tickets, table, asked>>

\* ... then parseRange, and the end of a HEAD request.
StatRow(h) ==
  /\ At(h, "stat_row")
  /\ Check(h, share.row /\ req[h].kind = "get", "open_redeem")
  /\ UNCHANGED <<now, names, share, sess, down, tickets, table, asked>>

\* OpenTicket redeems again.
OpenTicket(h) ==
  /\ At(h, "open_redeem")
  /\ table' = AfterRedeem(req[h].id)
  /\ Check(h, Redeems(req[h].id), "open_get")
  /\ UNCHANGED <<now, names, share, sess, down, tickets, asked>>

-----------------------------------------------------------------------------
(***************************************************************************)
(* OpenFile, for a download and for each file of an archive.               *)
(***************************************************************************)

\* Mutant of OpenGet: whoever has a ticket has a session.
OpenGetUnchecked(h) ==
  /\ At(h, "open_get")
  /\ Goto(h, "open_claim")
  /\ UNCHANGED <<now, names, share, sess, down, tickets, table, asked>>

\* The session is looked up, whatever has been looked up before.
OpenGet(h) ==
  /\ At(h, "open_get")
  /\ down' = AfterGet(req[h].t)
  /\ Check(h, Gets(req[h].t), "open_claim")
  /\ UNCHANGED <<now, names, share, sess, tickets, table, asked>>

\* claimOnce and ClaimDownload.
OpenClaim(h) ==
  /\ At(h, "open_claim")
  /\ LET t == req[h].t
         claims == share.row /\ share.open /\ share.left > 0
     IN  \/ /\ sess[t].claimed
            /\ Goto(h, "open_row")
            /\ UNCHANGED <<share, sess>>
         \/ /\ ~sess[t].claimed
            /\ claims
            /\ share' = [share EXCEPT !.left = @ - 1]
            /\ sess' = [sess EXCEPT ![t].claimed = TRUE]
            /\ Goto(h, "open_row")
         \/ /\ ~sess[t].claimed
            /\ ~claims
            /\ Return(h)
            /\ UNCHANGED <<share, sess>>
  /\ UNCHANGED <<now, names, down, tickets, table, asked>>

\* FileByID.
OpenRow(h) ==
  /\ At(h, "open_row")
  /\ Check(h, share.row, "open_blob")
  /\ UNCHANGED <<now, names, share, sess, down, tickets, table, asked>>

\* Mutant of OpenBlob: an archive skips a file that cannot be opened.
OpenBlobSkips(h) ==
  /\ At(h, "open_blob")
  /\ IF share.dir THEN Goto(h, "serving")
     ELSE IF req[h].kind \in Archives
     THEN req' = [req EXCEPT ![h].pc = "zip_next",
                             ![h].listed = Tail(@),
                             ![h].entries = SubSeq(@, 1, Len(@) - 1)]
     ELSE Return(h)
  /\ UNCHANGED <<now, names, share, sess, down, tickets, table, asked>>

\* os.Open.
OpenBlob(h) ==
  /\ At(h, "open_blob")
  /\ Check(h, share.dir, "serving")
  /\ UNCHANGED <<now, names, share, sess, down, tickets, table, asked>>

\* The file has been copied: a download is over, an archive goes on.
Served(h) ==
  /\ At(h, "serving")
  /\ IF req[h].kind \in Archives
     THEN req' = [req EXCEPT ![h].pc = "zip_next", ![h].listed = Tail(@)]
     ELSE Return(h)
  /\ UNCHANGED <<now, names, share, sess, down, tickets, table, asked>>

-----------------------------------------------------------------------------
(***************************************************************************)
(* handleArchive and WriteArchive.                                         *)
(***************************************************************************)

\* TicketSession: any ticket will do here.
TicketSession(h, id, kind) == Arrive(h, id, kind, "zip_redeem")

\* WriteArchive redeems again, and wants an archive's ticket.
ZipRedeem(h) ==
  /\ At(h, "zip_redeem")
  /\ table' = AfterRedeem(req[h].id)
  /\ Check(h, Redeems(req[h].id) /\ tickets[req[h].id].file = ZipTicket, "zip_get")
  /\ UNCHANGED <<now, names, share, sess, down, tickets, asked>>

\* SessionFiles: get ...
ZipGet(h) ==
  /\ At(h, "zip_get")
  /\ down' = AfterGet(req[h].t)
  /\ Check(h, Gets(req[h].t), "zip_list")
  /\ UNCHANGED <<now, names, share, sess, tickets, table, asked>>

\* ... and Files, which finds nothing once the row is gone.
ZipList(h) ==
  /\ At(h, "zip_list")
  /\ req' = [req EXCEPT ![h].pc = "zip_next",
                        ![h].listed = IF share.row THEN [i \in Files |-> i] ELSE <<>>]
  /\ UNCHANGED <<now, names, share, sess, down, tickets, table, asked>>

\* The next entry is created and its file opened; after the last one Close
\* writes the directory of the archive.
ZipNext(h) ==
  /\ At(h, "zip_next")
  /\ IF req[h].listed # <<>>
     THEN req' = [req EXCEPT ![h].pc = "open_get",
                             ![h].entries = Append(@, Head(req[h].listed)),
                             ![h].late = @ \/ SessionEnded(req[h].t)]
     ELSE Goto(h, "closed")
  /\ UNCHANGED <<now, names, share, sess, down, tickets, table, asked>>

\* The handler returns.
ZipDone(h) ==
  /\ At(h, "closed")
  /\ Return(h)
  /\ UNCHANGED <<now, names, share, sess, down, tickets, table, asked>>

-----------------------------------------------------------------------------
(***************************************************************************)
(* What else happens.                                                      *)
(***************************************************************************)

\* A client goes away, or a statement or a read of a blob fails: an error return.
Fails(h) ==
  /\ req[h].pc \notin {"idle", "closed"}
  /\ Return(h)
  /\ UNCHANGED <<now, names, share, sess, down, tickets, table, asked>>

\* Lock.
Lock(t) ==
  /\ t \in down
  /\ down' = down \ {t}
  /\ UNCHANGED <<now, names, share, sess, tickets, table, req, asked>>

\* Report blocks the share, or its retention ends.
Block ==
  /\ share.open
  /\ share' = [share EXCEPT !.open = FALSE]
  /\ UNCHANGED <<now, names, sess, down, tickets, table, req, asked>>

\* deleteByDrop, of Report and of DeleteDrop.
Cut ==
  /\ ~share.cut
  /\ share' = [share EXCEPT !.cut = TRUE]
  /\ down' = {}
  /\ UNCHANGED <<now, names, sess, tickets, table, req, asked>>

\* DeleteDrop goes on: RemoveAll, then the row.
RemoveBlobs ==
  /\ share.cut
  /\ share.dir
  /\ share' = [share EXCEPT !.dir = FALSE]
  /\ UNCHANGED <<now, names, sess, down, tickets, table, req, asked>>

DeleteRow ==
  /\ ~share.dir
  /\ share.row
  /\ share' = [share EXCEPT !.row = FALSE]
  /\ UNCHANGED <<now, names, sess, down, tickets, table, req, asked>>

\* Sweep: the sessions, under one mutex ...
SweepSessions ==
  /\ down' = {t \in down : now <= sess[t].expiresAt}
  /\ UNCHANGED <<now, names, share, sess, tickets, table, req, asked>>

\* Mutant of SweepTickets: expired tickets wait for their next use.
SweepTicketsLazily == UNCHANGED vars

\* ... and the tickets, under another.  It passes both the clock reading it
\* has taken just before; the two calls follow each other within a tick.
SweepTickets ==
  /\ table' = {id \in table : now <= tickets[id].expiresAt}
  /\ UNCHANGED <<now, names, share, sess, down, tickets, req, asked>>

Tick ==
  /\ now < MaxTime
  /\ now' = now + 1
  /\ UNCHANGED <<names, share, sess, down, tickets, table, req, asked>>

-----------------------------------------------------------------------------
Accept(h) ==
  \/ \E t \in Sessions, f \in Singles \cup {ZipTicket} : IssueGet(h, t, f)
  \/ \E id \in Ids :
       \/ \E kind \in {"get", "head", "badrange"} : StatTicket(h, id, kind)
       \/ \E kind \in Archives : TicketSession(h, id, kind)

Proceed(h) ==
  \/ IssueRow(h) \/ \E id \in Ids : IssuePut(h, id)
  \/ StatGet(h) \/ StatRow(h) \/ OpenTicket(h)
  \/ OpenGet(h) \/ OpenClaim(h) \/ OpenRow(h) \/ OpenBlob(h) \/ Served(h)
  \/ ZipRedeem(h) \/ ZipGet(h) \/ ZipList(h) \/ ZipNext(h) \/ ZipDone(h)

Sweep == SweepSessions \/ SweepTickets

Next ==
  \/ \E h \in Handlers : Accept(h) \/ Proceed(h) \/ Fails(h)
  \/ \E t \in Sessions : Lock(t)
  \/ Block \/ Cut \/ RemoveBlobs \/ DeleteRow
  \/ Sweep
  \/ Tick

\* The clock goes on and the ticker of sweepLoop fires.
Fairness == WF_vars(Tick) /\ WF_vars(SweepTickets)

Spec == Init /\ [][Next]_vars /\ Fairness

-----------------------------------------------------------------------------
(***************************************************************************)
(* Properties.                                                             *)
(***************************************************************************)

\* Probing a file costs nothing: whatever HEAD requests and refused ranges of
\* files, issued and abandoned tickets have been sent for a session, it has
\* claimed a download only if somebody asked for a file's body or for the archive
\* with it (handleDownload, StatTicket).  A HEAD of the archive is no such probe:
\* handleArchive answers it like a GET and claims.
ProbesAreFree == \A t \in Sessions : sess[t].claimed => t \in asked

\* A ticket is worth no more than its session: no transfer is served that begins
\* after its ticket has expired or its session was locked, expired or cut off by
\* a report or a deletion, nor any file that an archive comes to after its
\* session has ended (redeem, OpenFile).  The ticket of an archive that has begun
\* may expire: WriteArchive redeems it only once.
EndedServesNothing == \A h \in Handlers : At(h, "serving") => ~req[h].late

\* An archive that closes, so that the recipient's tools accept it, is whole:
\* every file of the share is in it once and in order, through concurrent
\* deletions, reports, locks and expiry.  The exception is a share whose row
\* disappears between the look at the session and the list of its files: the
\* archive is then empty (WriteArchive, SessionFiles).
ArchiveWhole ==
  \A h \in Handlers : At(h, "closed") =>
    \/ req[h].entries = [i \in Files |-> i]
    \/ req[h].entries = <<>> /\ ~share.row

\* A file that comes with a name of the form that uniqueEntryName makes up.
Numbered(name) == Len(name) > 1

\* No entry of an archive overwrites another on extraction, though files share
\* a name or come to share one when it is made safe, as long as no file arrives
\* under a name that is itself numbered (uniqueEntryName, SafeFileName).
EntryNamesDistinct ==
  (\A f \in Files : ~Numbered(SafeFileName(names[f]))) =>
    \A h \in Handlers :
      LET entries == req[h].entries
      IN  \A i, j \in DOMAIN entries :
            EntryName(entries, i) = EntryName(entries, j) => i = j

\* Tickets do not pile up: an expired one leaves the table though nobody ever
\* uses it again (Sweep).
TicketsSwept ==
  \A id \in Ids :
    (id \in table /\ tickets[id].expiresAt < now) ~> (id \notin table)

=============================================================================
