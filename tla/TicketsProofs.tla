---------------------------- MODULE TicketsProofs ---------------------------
(***************************************************************************)
(* Theorems about Tickets, for any number of sessions, tickets, requests   *)
(* and files.                                                              *)
(***************************************************************************)
EXTENDS Tickets, SequenceTheorems, FiniteSetTheorems, TLAPS

Steps == {"idle", "issue_row", "issue_put", "stat_get", "stat_row", "open_redeem",
          "open_get", "open_claim", "open_row", "open_blob", "serving",
          "zip_redeem", "zip_get", "zip_list", "zip_next", "closed"}
Kinds == {"get", "head", "badrange"} \cup Archives

Request == [pc : Steps, id : Ids, t : Sessions, file : Nat, kind : Kinds,
            listed : Seq(Nat), entries : Seq(Nat), late : BOOLEAN]

TypeInv ==
  /\ now \in Nat
  /\ sess \in [Sessions -> [expiresAt : Nat, claimed : BOOLEAN]]
  /\ down \subseteq Sessions
  /\ tickets \in [Ids -> [session : Sessions, file : Nat, expiresAt : Nat, issued : BOOLEAN]]
  /\ table \subseteq Ids
  /\ req \in [Handlers -> Request]
  /\ share \in [row : BOOLEAN, dir : BOOLEAN, open : BOOLEAN, cut : BOOLEAN, left : Nat]

\* Steps after the session was looked up for the file, and all the steps of a
\* request that has asked for a body.
Inside == {"open_claim", "open_row", "open_blob", "serving"}
Opening == {"open_get"} \cup Inside
Fetching == {"open_redeem", "zip_redeem", "zip_get", "zip_list", "zip_next", "closed"}
              \cup Opening

\* A transfer that began too late has no session, and never gets past the look
\* at it.
LateOK(h) ==
  /\ req[h].late => SessionEnded(req[h].t)
  /\ req[h].pc \in Inside => ~req[h].late

\* Whoever may come to claim a download has asked for a body.
AskedOK(h) ==
  /\ req[h].pc \in {"stat_get", "stat_row"} /\ req[h].kind = "get" => req[h].t \in asked
  /\ req[h].pc \in Fetching => req[h].t \in asked

\* The entries of an archive and the files still listed, after k entries.
Made(k) == [i \in 1..k |-> i]
Left(k) == [i \in 1..(NFiles - k) |-> k + i]

ArchiveOK(h) ==
  /\ req[h].pc = "open_redeem" => req[h].kind = "get"
  /\ req[h].pc \in {"zip_redeem", "zip_get", "zip_list"} => req[h].entries = <<>>
  /\ req[h].pc = "zip_next" =>
       \/ req[h].entries = <<>> /\ req[h].listed = <<>> /\ ~share.row
       \/ \E k \in 0..NFiles : req[h].entries = Made(k) /\ req[h].listed = Left(k)
  /\ req[h].pc \in Opening /\ req[h].kind \in Archives =>
       \E k \in 0..(NFiles - 1) : req[h].entries = Made(k + 1) /\ req[h].listed = Left(k)
  /\ req[h].pc = "closed" =>
       \/ req[h].entries = Made(NFiles)
       \/ req[h].entries = <<>> /\ ~share.row

RequestOK(h) == LateOK(h) /\ AskedOK(h) /\ ArchiveOK(h)

IInv == TypeInv /\ ProbesAreFree /\ \A h \in Handlers : RequestOK(h)

-----------------------------------------------------------------------------
(***************************************************************************)
(* The lists.                                                              *)
(***************************************************************************)

\* Taking the next file from the list, and what is left of it at either end.
LEMMA Lists ==
  /\ Made(0) = <<>> /\ Made(0) \in Seq(Nat)
  /\ Left(0) = Made(NFiles)
  /\ \A k \in 0..NFiles : Made(k) \in Seq(Nat) /\ Left(k) \in Seq(Nat)
  /\ \A k \in 0..NFiles : Left(k) = <<>> <=> k = NFiles
  /\ \A k \in 0..(NFiles - 1) : /\ Head(Left(k)) = k + 1
                                /\ Tail(Left(k)) = Left(k + 1)
                                /\ Append(Made(k), k + 1) = Made(k + 1)
<1> USE TicketsAssumption
<1>1. Made(0) = <<>> /\ Made(0) \in Seq(Nat)
  BY DEF Made
<1>2. Left(0) = Made(NFiles)
  BY DEF Left, Made
<1>3. \A k \in 0..NFiles : Made(k) \in Seq(Nat) /\ Left(k) \in Seq(Nat)
  BY DEF Left, Made
<1>4. \A k \in 0..NFiles : Len(Left(k)) = NFiles - k
  BY DEF Left
<1>5. \A k \in 0..NFiles : Left(k) = <<>> <=> k = NFiles
  <2>1. \A q \in Seq(Nat) : q = <<>> <=> Len(q) = 0
    BY EmptySeq
  <2>2. \A k \in 0..NFiles : Left(k) = <<>> <=> Len(Left(k)) = 0
    BY <2>1, <1>3
  <2> QED
    BY <2>2, <1>4
<1>6. ASSUME NEW k \in 0..(NFiles - 1)
      PROVE  /\ Head(Left(k)) = k + 1
             /\ Tail(Left(k)) = Left(k + 1)
             /\ Append(Made(k), k + 1) = Made(k + 1)
  <2> DEFINE l == Left(k)
             m == Left(k + 1)
  <2>1. k \in 0..NFiles /\ k + 1 \in 0..NFiles
    OBVIOUS
  <2>2. /\ l \in Seq(Nat) /\ Len(l) = NFiles - k
        /\ m \in Seq(Nat) /\ Len(m) = NFiles - (k + 1)
    BY <1>3, <1>4, <2>1
  <2>3. /\ \A i \in 1..(NFiles - k) : l[i] = k + i
        /\ \A i \in 1..(NFiles - (k + 1)) : m[i] = k + 1 + i
    BY DEF Left
  <2> HIDE DEF l, m
  <2>4. l # <<>>
    BY <2>2, EmptySeq
  <2>5. /\ Head(l) = l[1]
        /\ Tail(l) \in Seq(Nat)
        /\ Len(Tail(l)) = Len(l) - 1
        /\ \A i \in 1..Len(Tail(l)) : Tail(l)[i] = l[i + 1]
    BY <2>2, <2>4, HeadTailProperties
  <2>6. Head(l) = k + 1
    BY <2>2, <2>3, <2>5
  <2>7. Len(Tail(l)) = Len(m)
    BY <2>2, <2>5
  <2>8. \A i \in 1..Len(Tail(l)) : Tail(l)[i] = m[i]
    BY <2>2, <2>3, <2>5
  <2>9. Tail(l) = m
    BY <2>2, <2>5, <2>7, <2>8, SeqEqual
  <2>10. Head(Left(k)) = k + 1
    BY <2>6 DEF l
  <2>11. Tail(Left(k)) = Left(k + 1)
    BY <2>9 DEF l, m
  <2>12. Append(Made(k), k + 1) = Made(k + 1)
    BY DEF Made
  <2> QED
    BY <2>10, <2>11, <2>12
<1> QED
  BY <1>1, <1>2, <1>3, <1>5, <1>6

\* An idle request owes nothing.
LEMMA IdleType == Idle \in Request /\ Idle.pc = "idle" /\ ~Idle.late
<1>1. AnyId \in Ids /\ AnySession \in Sessions
  BY TicketsAssumption DEF AnyId, AnySession
<1>2. Idle \in Request
  BY <1>1 DEF Idle, Request, Steps, Kinds, ZipTicket
<1>3. Idle.pc = "idle"
  BY DEF Idle
<1>4. Idle.late = FALSE
  BY DEF Idle
<1> QED
  BY <1>2, <1>3, <1>4

\* A request that is answered, or goes on to a step nothing is said about.
LEMMA ReturnOK ==
  ASSUME IInv, NEW h \in Handlers, Return(h), UNCHANGED <<now, sess, share, asked>>,
         down' \subseteq down, table' \subseteq table, UNCHANGED tickets
  PROVE  IInv'
<1> USE DEF IInv, TypeInv
<1>1. req' = [req EXCEPT ![h] = Idle]
  BY DEF Return
<1>2. TypeInv'
  BY <1>1, IdleType
<1>3. ProbesAreFree'
  BY DEF ProbesAreFree
<1>4. ASSUME NEW g \in Handlers PROVE RequestOK(g)'
  <2>1. CASE g = h
    BY <2>1, <1>1, IdleType DEF RequestOK, LateOK, AskedOK, ArchiveOK, Inside, Opening, Fetching
  <2>2. CASE g # h
    BY <2>2, <1>1 DEF RequestOK, LateOK, AskedOK, ArchiveOK, SessionEnded
  <2> QED
    BY <2>1, <2>2
<1> QED
  BY <1>2, <1>3, <1>4

\* Whatever ends sessions, tickets or the share keeps what is said of requests.
LEMMA EnvironmentOK ==
  ASSUME IInv, UNCHANGED <<sess, tickets, req, asked>>,
         down' \subseteq down, table' \subseteq table, now' \in Nat, now <= now',
         share' \in [row : BOOLEAN, dir : BOOLEAN, open : BOOLEAN, cut : BOOLEAN, left : Nat],
         ~share.row => ~share'.row
  PROVE  IInv'
<1> USE DEF IInv, TypeInv
<1>1. TypeInv' /\ ProbesAreFree'
  BY DEF ProbesAreFree
<1>2. ASSUME NEW g \in Handlers PROVE RequestOK(g)'
  <2>1. req[g].t \in Sessions /\ sess[req[g].t].expiresAt \in Nat
    BY DEF Request
  <2>2. SessionEnded(req[g].t) => SessionEnded(req[g].t)'
    BY <2>1 DEF SessionEnded
  <2>3. LateOK(g)' /\ AskedOK(g)'
    BY <2>2 DEF RequestOK, LateOK, AskedOK
  <2>4. ArchiveOK(g)'
    BY DEF RequestOK, ArchiveOK
  <2> QED
    BY <2>3, <2>4 DEF RequestOK
<1> QED
  BY <1>1, <1>2


-----------------------------------------------------------------------------
\* The invariant holds when the sessions have been unlocked.
LEMMA InitOK == Init => IInv
<1> SUFFICES ASSUME Init PROVE IInv
  OBVIOUS
<1>1. AnySession \in Sessions
  BY TicketsAssumption DEF AnySession
<1>2. SessionTTL \in Nat /\ Limit \in Nat
  BY TicketsAssumption
<1>3. TypeInv
  BY <1>1, <1>2, IdleType DEF Init, TypeInv, NoTicket, ZipTicket
<1>4. ProbesAreFree
  BY DEF Init, ProbesAreFree
<1>5. \A h \in Handlers : RequestOK(h)
  BY IdleType DEF Init, RequestOK, LateOK, AskedOK, ArchiveOK, Inside, Opening, Fetching
<1> QED
  BY <1>3, <1>4, <1>5 DEF IInv

\* A request goes on to its next step, with nothing else about it changed.
LEMMA GotoOK ==
  ASSUME IInv, NEW h \in Handlers, NEW step \in Steps, Goto(h, step),
         UNCHANGED <<now, sess, share, tickets, asked>>,
         down' \subseteq down, table' \subseteq table,
         step \in Fetching => req[h].t \in asked,
         step = "stat_row" => req[h].pc = "stat_get",
         step \in Inside => ~req[h].late,
         step \notin {"stat_get", "zip_next", "closed"},
         step = "open_redeem" => req[h].kind = "get",
         step \in {"zip_redeem", "zip_get", "zip_list"} => req[h].entries = <<>>,
         step \in Opening => req[h].pc \in Opening \/ req[h].kind \notin Archives
  PROVE  IInv'
<1> USE DEF IInv, TypeInv
<1>1. req' = [req EXCEPT ![h].pc = step]
  BY DEF Goto
<1>2. TypeInv'
  BY <1>1 DEF Request
<1>3. ProbesAreFree'
  BY DEF ProbesAreFree
<1>4. ASSUME NEW g \in Handlers PROVE RequestOK(g)'
  <2>1. CASE g = h
    <3>1. /\ req'[h].pc = step /\ req'[h].t = req[h].t /\ req'[h].kind = req[h].kind
          /\ req'[h].late = req[h].late /\ req'[h].entries = req[h].entries
          /\ req'[h].listed = req[h].listed
      BY <1>1 DEF Request
    <3>2. LateOK(h)'
      BY <3>1 DEF RequestOK, LateOK, SessionEnded
    <3>3. AskedOK(h)'
      BY <3>1 DEF RequestOK, AskedOK
    <3>4. ArchiveOK(h)'
      BY <3>1 DEF RequestOK, ArchiveOK, Opening, Inside
    <3> QED
      BY <2>1, <3>2, <3>3, <3>4 DEF RequestOK
  <2>2. CASE g # h
    BY <2>2, <1>1 DEF RequestOK, LateOK, AskedOK, ArchiveOK, SessionEnded
  <2> QED
    BY <2>1, <2>2
<1> QED
  BY <1>2, <1>3, <1>4


\* A request begins: it asks for a ticket.
LEMMA IssueGetOK ==
  ASSUME IInv, NEW h \in Handlers, NEW t \in Sessions,
         NEW f \in Singles \cup {ZipTicket}, IssueGet(h, t, f)
  PROVE  IInv'
<1> USE DEF IInv, TypeInv
<1>1. f \in Nat
  BY TicketsAssumption DEF Files, ZipTicket
<1>2. down' \subseteq down
  BY DEF IssueGet, AfterGet
<1>3. CASE Gets(t)
  <2> DEFINE step == IF f = ZipTicket THEN "issue_put" ELSE "issue_row"
             r == [Idle EXCEPT !.pc = step, !.t = t, !.file = f]
  <2>1. req' = [req EXCEPT ![h] = r]
    BY <1>3 DEF IssueGet
  <2>2. r \in Request /\ r.pc \in {"issue_put", "issue_row"} /\ r.late = FALSE
    BY <1>1, IdleType DEF Request, Steps
  <2> HIDE DEF r
  <2>3. TypeInv' /\ ProbesAreFree'
    BY <1>2, <2>1, <2>2 DEF IssueGet, ProbesAreFree
  <2>4. ASSUME NEW g \in Handlers PROVE RequestOK(g)'
    <3>1. CASE g = h
      <4>1. req'[g] = r
        BY <2>1, <3>1
      <4> QED
        BY <4>1, <2>2 DEF RequestOK, LateOK, AskedOK, ArchiveOK, Inside, Opening, Fetching
    <3>2. CASE g # h
      BY <1>2, <2>1, <3>2
        DEF IssueGet, RequestOK, LateOK, AskedOK, ArchiveOK, SessionEnded
    <3> QED
      BY <3>1, <3>2
  <2> QED
    BY <2>3, <2>4
<1>4. CASE ~Gets(t)
  BY <1>2, <1>4, EnvironmentOK DEF IssueGet
<1> QED
  BY <1>3, <1>4

\* The ticket is put into the table.
LEMMA IssuePutOK ==
  ASSUME IInv, NEW h \in Handlers, NEW id \in Ids, IssuePut(h, id)
  PROVE  IInv'
<1> USE DEF IInv, TypeInv
<1>1. req' = [req EXCEPT ![h] = Idle]
  BY DEF IssuePut, Return
<1>2. TypeInv'
  <2>1. req[h].t \in Sessions /\ req[h].file \in Nat
    BY DEF Request
  <2>2. now + TicketTTL \in Nat
    BY TicketsAssumption
  <2> QED
    BY <1>1, <2>1, <2>2, IdleType DEF IssuePut
<1>3. ProbesAreFree'
  BY DEF ProbesAreFree, IssuePut
<1>4. ASSUME NEW g \in Handlers PROVE RequestOK(g)'
  <2>1. CASE g = h
    BY <2>1, <1>1, IdleType
      DEF RequestOK, LateOK, AskedOK, ArchiveOK, Inside, Opening, Fetching
  <2>2. CASE g # h
    BY <2>2, <1>1 DEF IssuePut, RequestOK, LateOK, AskedOK, ArchiveOK, SessionEnded
  <2> QED
    BY <2>1, <2>2
<1> QED
  BY <1>2, <1>3, <1>4

\* A request with a ticket begins.
LEMMA ArriveOK ==
  ASSUME IInv, NEW h \in Handlers, NEW id \in Ids, NEW kind \in Kinds,
         NEW step \in {"stat_get", "zip_redeem"}, step = "zip_redeem" <=> kind \in Archives,
         Arrive(h, id, kind, step)
  PROVE  IInv'
<1> USE DEF IInv, TypeInv
<1> DEFINE t == tickets[id].session
<1>1. t \in Sessions /\ tickets[id].expiresAt \in Nat
  OBVIOUS
<1>2. /\ table' \subseteq table /\ asked \subseteq asked'
      /\ kind \in {"get"} \cup Archives => t \in asked'
  BY DEF Arrive, AfterRedeem
<1>3. UNCHANGED <<now, share, sess, down, tickets>>
  BY DEF Arrive
<1>4. ProbesAreFree'
  BY <1>2, <1>3 DEF ProbesAreFree
<1>5. \A g \in Handlers : req'[g] = req[g] => RequestOK(g)'
  BY <1>2, <1>3 DEF RequestOK, LateOK, AskedOK, ArchiveOK, SessionEnded
<1>6. CASE req' = req
  BY <1>2, <1>3, <1>4, <1>5, <1>6
<1>7. CASE Redeems(id) /\ req' # req
  <2> DEFINE r == [Idle EXCEPT !.pc = step, !.id = id, !.t = t,
                               !.kind = kind, !.late = TicketEnded(id)]
  <2>1. req' = [req EXCEPT ![h] = r]
    BY <1>7 DEF Arrive
  <2>2. TicketEnded(id) => SessionEnded(t)
    BY <1>1, <1>7 DEF TicketEnded, Redeems
  <2>3. TicketEnded(id) \in BOOLEAN
    BY DEF TicketEnded, SessionEnded
  <2>4. /\ r \in Request /\ r.pc = step /\ r.t = t /\ r.kind = kind
        /\ r.late = TicketEnded(id) /\ r.entries = <<>>
    BY <1>1, <2>3, IdleType DEF Request, Steps, Idle
  <2> HIDE DEF r
  <2>5. req'[h] = r
    BY <2>1
  <2>6. RequestOK(h)'
    <3>1. LateOK(h)'
      BY <1>3, <2>2, <2>4, <2>5 DEF LateOK, Inside, SessionEnded
    <3>2. AskedOK(h)'
      BY <1>2, <2>4, <2>5 DEF AskedOK, Fetching, Opening, Inside
    <3>3. ArchiveOK(h)'
      BY <2>4, <2>5 DEF ArchiveOK, Opening, Inside
    <3> QED
      BY <3>1, <3>2, <3>3 DEF RequestOK
  <2>7. \A g \in Handlers : g # h => req'[g] = req[g]
    BY <2>1
  <2>8. TypeInv'
    BY <1>2, <1>3, <2>1, <2>4
  <2> QED
    BY <1>4, <1>5, <2>6, <2>7, <2>8
<1> QED
  BY <1>6, <1>7 DEF Arrive

-----------------------------------------------------------------------------
(***************************************************************************)
(* The steps of a download.                                                *)
(***************************************************************************)

\* The steps that go on or are answered with an error, one lookup each.
LEMMA StatOK ==
  ASSUME IInv, NEW h \in Handlers,
         IssueRow(h) \/ StatGet(h) \/ StatRow(h) \/ OpenTicket(h)
  PROVE  IInv'
<1> USE DEF Check, At
<1>1. RequestOK(h)
  BY DEF IInv
<1>2. CASE IssueRow(h)
  BY <1>2, GotoOK, ReturnOK DEF IssueRow, Steps, Fetching, Opening, Inside
<1>3. CASE StatGet(h)
  <2>1. down' \subseteq down
    BY <1>3 DEF StatGet, AfterGet
  <2> QED
    BY <1>3, <2>1, GotoOK, ReturnOK DEF StatGet, Steps, Fetching, Opening, Inside
<1>4. CASE StatRow(h)
  <2>1. req[h].kind = "get" => req[h].t \in asked
    BY <1>1, <1>4 DEF StatRow, RequestOK, AskedOK
  <2> QED
    BY <1>4, <2>1, GotoOK, ReturnOK DEF StatRow, Steps, Opening, Inside
<1>5. CASE OpenTicket(h)
  <2>1. req[h].t \in asked /\ req[h].kind = "get"
    BY <1>1, <1>5 DEF OpenTicket, RequestOK, AskedOK, ArchiveOK, Fetching
  <2>2. table' \subseteq table
    BY <1>5 DEF OpenTicket, AfterRedeem
  <2> QED
    BY <1>5, <2>1, <2>2, GotoOK, ReturnOK DEF OpenTicket, Steps, Inside, Archives
<1> QED
  BY <1>2, <1>3, <1>4, <1>5

\* The look at the session stops whoever is late; the rest goes on inside.
LEMMA OpenOK ==
  ASSUME IInv, NEW h \in Handlers, OpenGet(h) \/ OpenRow(h) \/ OpenBlob(h)
  PROVE  IInv'
<1> USE DEF Check, At
<1>1. RequestOK(h) /\ req[h].t \in asked
  BY DEF IInv, RequestOK, AskedOK, Fetching, Opening, Inside, OpenGet, OpenRow, OpenBlob
<1>2. CASE OpenGet(h)
  <2>1. Gets(req[h].t) => ~req[h].late
    <3>1. req[h].t \in Sessions /\ now \in Nat /\ sess[req[h].t].expiresAt \in Nat
      BY DEF IInv, TypeInv, Request
    <3> QED
      BY <1>1, <3>1 DEF Gets, RequestOK, LateOK, SessionEnded
  <2>2. down' \subseteq down
    BY <1>2 DEF OpenGet, AfterGet
  <2> QED
    BY <1>1, <1>2, <2>1, <2>2, GotoOK, ReturnOK DEF OpenGet, Steps, Opening, Inside
<1>3. CASE OpenRow(h)
  <2>1. ~req[h].late
    BY <1>1, <1>3 DEF OpenRow, RequestOK, LateOK, Inside
  <2> QED
    BY <1>1, <1>3, <2>1, GotoOK, ReturnOK DEF OpenRow, Steps, Opening, Inside
<1>4. CASE OpenBlob(h)
  <2>1. ~req[h].late
    BY <1>1, <1>4 DEF OpenBlob, RequestOK, LateOK, Inside
  <2> QED
    BY <1>1, <1>4, <2>1, GotoOK, ReturnOK DEF OpenBlob, Steps, Opening, Inside
<1> QED
  BY <1>2, <1>3, <1>4

\* A claim is paid for a session whose body has been asked for.
LEMMA OpenClaimOK ==
  ASSUME IInv, NEW h \in Handlers, OpenClaim(h)
  PROVE  IInv'
<1> DEFINE t == req[h].t
<1>1. At(h, "open_claim") /\ UNCHANGED <<now, names, down, tickets, table, asked>>
  BY DEF OpenClaim
<1>2. t \in asked /\ ~req[h].late /\ t \in Sessions
  BY <1>1 DEF At, IInv, TypeInv, Request, RequestOK, AskedOK, LateOK, Fetching, Opening, Inside
<1>3. CASE Goto(h, "open_row") /\ UNCHANGED <<share, sess>>
  BY <1>1, <1>2, <1>3, GotoOK DEF At, Steps, Opening, Inside
<1>4. CASE Return(h) /\ UNCHANGED <<share, sess>>
  BY <1>1, <1>4, ReturnOK
<1>5. CASE /\ share.left > 0
           /\ share' = [share EXCEPT !.left = @ - 1]
           /\ sess' = [sess EXCEPT ![t].claimed = TRUE]
           /\ Goto(h, "open_row")
  <2> USE DEF IInv, TypeInv
  <2>1. req' = [req EXCEPT ![h].pc = "open_row"]
    BY <1>5 DEF Goto
  <2>2. share' \in [row : BOOLEAN, dir : BOOLEAN, open : BOOLEAN, cut : BOOLEAN, left : Nat]
        /\ share'.row = share.row
    BY <1>5
  <2>3. sess' \in [Sessions -> [expiresAt : Nat, claimed : BOOLEAN]]
    BY <1>5
  <2>4. req' \in [Handlers -> Request]
    <3>1. req[h] \in Request /\ "open_row" \in Steps
      BY DEF Steps
    <3>2. [req[h] EXCEPT !.pc = "open_row"] \in Request
      BY <3>1 DEF Request
    <3> QED
      BY <2>1, <3>2
  <2>5. TypeInv'
    BY <1>1, <2>2, <2>3, <2>4
  <2>6. ProbesAreFree'
    BY <1>1, <1>2, <1>5 DEF ProbesAreFree
  <2>7. \A s \in Sessions : sess'[s].expiresAt = sess[s].expiresAt
    BY <1>5
  <2>8. \A s \in Sessions : SessionEnded(s)' <=> SessionEnded(s)
    BY <1>1, <2>7 DEF SessionEnded
  <2>9. ASSUME NEW g \in Handlers PROVE RequestOK(g)'
    <3>1. /\ req'[g].t = req[g].t /\ req'[g].kind = req[g].kind
          /\ req'[g].late = req[g].late /\ req'[g].entries = req[g].entries
          /\ req'[g].listed = req[g].listed /\ req[g].t \in Sessions
          /\ g # h => req'[g].pc = req[g].pc
          /\ g = h => req'[g].pc = "open_row" /\ req[g].pc = "open_claim"
      BY <1>1, <2>1 DEF Request, At
    <3>2. LateOK(g)'
      BY <1>2, <2>8, <3>1 DEF RequestOK, LateOK
    <3>3. AskedOK(g)'
      BY <1>1, <1>2, <3>1 DEF RequestOK, AskedOK
    <3>4. ArchiveOK(g)'
      BY <2>2, <3>1 DEF RequestOK, ArchiveOK, Opening, Inside
    <3> QED
      BY <3>2, <3>3, <3>4 DEF RequestOK
  <2> QED
    BY <2>5, <2>6, <2>9
<1> QED
  BY <1>3, <1>4, <1>5 DEF OpenClaim

-----------------------------------------------------------------------------
(***************************************************************************)
(* The steps of an archive.                                                *)
(***************************************************************************)

\* A request changes while everything else stands still.
LEMMA UpdateOK ==
  ASSUME IInv, NEW h \in Handlers, NEW r \in Request, req' = [req EXCEPT ![h] = r],
         UNCHANGED <<now, sess, share, tickets, asked, down, table>>, RequestOK(h)'
  PROVE  IInv'
<1> USE DEF IInv, TypeInv
<1>1. TypeInv' /\ ProbesAreFree'
  BY DEF ProbesAreFree
<1>2. ASSUME NEW g \in Handlers, g # h PROVE RequestOK(g)'
  BY <1>2 DEF RequestOK, LateOK, AskedOK, ArchiveOK, SessionEnded
<1> QED
  BY <1>1, <1>2

\* The lookups before the files are listed.
LEMMA ZipLookupOK ==
  ASSUME IInv, NEW h \in Handlers, ZipRedeem(h) \/ ZipGet(h)
  PROVE  IInv'
<1> USE DEF Check, At
<1>1. req[h].t \in asked /\ req[h].entries = <<>>
  BY DEF IInv, RequestOK, AskedOK, ArchiveOK, Fetching, ZipRedeem, ZipGet
<1>2. down' \subseteq down /\ table' \subseteq table
  BY DEF ZipRedeem, ZipGet, AfterGet, AfterRedeem
<1> QED
  BY <1>1, <1>2, GotoOK, ReturnOK DEF ZipRedeem, ZipGet, Steps, Opening, Inside

\* The list begins with every file, or is empty because the row is gone.
LEMMA ZipListOK ==
  ASSUME IInv, NEW h \in Handlers, ZipList(h)
  PROVE  IInv'
<1> DEFINE l == IF share.row THEN Left(0) ELSE <<>>
           r == [req[h] EXCEPT !.pc = "zip_next", !.listed = l]
<1>1. [i \in Files |-> i] = Left(0)
  BY Lists DEF Files, Made
<1>2. 0 \in 0..NFiles /\ l \in Seq(Nat)
  BY Lists, TicketsAssumption
<1>3. req[h] \in Request /\ req \in [Handlers -> Request]
  BY DEF IInv, TypeInv
<1>4. req' = [req EXCEPT ![h] = r]
  BY <1>1, <1>3 DEF ZipList, Request
<1>5. r \in Request
  BY <1>2, <1>3 DEF Request, Steps
<1>6. /\ r.pc = "zip_next" /\ r.listed = l /\ r.entries = req[h].entries
      /\ r.t = req[h].t /\ r.late = req[h].late
  BY <1>3 DEF Request
<1>7. req'[h] = r
  BY <1>3, <1>4
<1> HIDE DEF r
<1>8. RequestOK(h)'
  <2>1. RequestOK(h) /\ req[h].pc = "zip_list"
    BY DEF IInv, ZipList, At
  <2>2. UNCHANGED <<now, sess, share, down, asked>>
    BY DEF ZipList
  <2>3. LateOK(h)'
    BY <1>6, <1>7, <2>1, <2>2 DEF RequestOK, LateOK, SessionEnded, Inside
  <2>4. AskedOK(h)'
    BY <1>6, <1>7, <2>1, <2>2 DEF RequestOK, AskedOK, Fetching
  <2>5. req[h].entries = Made(0)
    BY <2>1, Lists DEF RequestOK, ArchiveOK
  <2>6. ArchiveOK(h)'
    BY <1>2, <1>6, <1>7, <2>2, <2>5, Lists DEF ArchiveOK, Opening, Inside
  <2> QED
    BY <2>3, <2>4, <2>6 DEF RequestOK
<1> QED
  BY <1>4, <1>5, <1>8, UpdateOK DEF ZipList

\* The next file moves from the list to the entries, or the archive closes.
LEMMA ZipNextOK ==
  ASSUME IInv, NEW h \in Handlers, ZipNext(h)
  PROVE  IInv'
<1>1. req[h] \in Request /\ req \in [Handlers -> Request]
  BY DEF IInv, TypeInv
<1>2. RequestOK(h) /\ req[h].pc = "zip_next" /\ req[h].t \in asked
  BY DEF IInv, ZipNext, At, RequestOK, AskedOK, Fetching
<1>3. UNCHANGED <<now, sess, share, tickets, asked, down, table>>
  BY DEF ZipNext
<1>4. CASE req[h].listed # <<>>
  <2>1. PICK k \in 0..NFiles : req[h].entries = Made(k) /\ req[h].listed = Left(k)
    BY <1>2, <1>4 DEF RequestOK, ArchiveOK
  <2>2. k \in 0..(NFiles - 1) /\ k + 1 \in 0..NFiles
    BY <1>4, <2>1, Lists, TicketsAssumption
  <2> DEFINE late == req[h].late \/ SessionEnded(req[h].t)
             r == [req[h] EXCEPT !.pc = "open_get", !.entries = Made(k + 1),
                                 !.late = late]
  <2>3. Append(req[h].entries, Head(req[h].listed)) = Made(k + 1)
    BY <2>1, <2>2, Lists
  <2>4. req' = [req EXCEPT ![h] = r]
    BY <1>1, <1>4, <2>3 DEF ZipNext, Request
  <2>5. late \in BOOLEAN /\ Made(k + 1) \in Seq(Nat)
    BY <2>2, Lists DEF SessionEnded
  <2>6. r \in Request
    BY <1>1, <2>5 DEF Request, Steps
  <2>7. /\ r.pc = "open_get" /\ r.listed = Left(k) /\ r.entries = Made(k + 1)
        /\ r.t = req[h].t /\ r.late = late
    BY <1>1, <2>1 DEF Request
  <2>8. req'[h] = r
    BY <1>1, <2>4
  <2> HIDE DEF r
  <2>9. RequestOK(h)'
    <3>1. LateOK(h)'
      BY <1>2, <1>3, <2>7, <2>8 DEF RequestOK, LateOK, SessionEnded, Inside
    <3>2. AskedOK(h)'
      BY <1>2, <1>3, <2>7, <2>8 DEF AskedOK
    <3>3. ArchiveOK(h)'
      BY <2>2, <2>7, <2>8 DEF ArchiveOK
    <3> QED
      BY <3>1, <3>2, <3>3 DEF RequestOK
  <2> QED
    BY <1>3, <2>4, <2>6, <2>9, UpdateOK
<1>5. CASE req[h].listed = <<>>
  <2> DEFINE r == [req[h] EXCEPT !.pc = "closed"]
  <2>1. req' = [req EXCEPT ![h] = r]
    BY <1>1, <1>5 DEF ZipNext, Goto, Request
  <2>2. r \in Request
    BY <1>1 DEF Request, Steps
  <2>3. /\ r.pc = "closed" /\ r.entries = req[h].entries
        /\ r.t = req[h].t /\ r.late = req[h].late
    BY <1>1 DEF Request
  <2>4. req'[h] = r
    BY <1>1, <2>1
  <2> HIDE DEF r
  <2>5. \/ req[h].entries = Made(NFiles)
        \/ req[h].entries = <<>> /\ ~share.row
    BY <1>2, <1>5, Lists DEF RequestOK, ArchiveOK
  <2>6. RequestOK(h)'
    <3>1. LateOK(h)'
      BY <1>2, <1>3, <2>3, <2>4 DEF RequestOK, LateOK, SessionEnded, Inside
    <3>2. AskedOK(h)'
      BY <1>2, <1>3, <2>3, <2>4 DEF AskedOK
    <3>3. ArchiveOK(h)'
      BY <1>3, <2>3, <2>4, <2>5 DEF ArchiveOK, Opening, Inside
    <3> QED
      BY <3>1, <3>2, <3>3 DEF RequestOK
  <2> QED
    BY <1>3, <2>1, <2>2, <2>6, UpdateOK
<1> QED
  BY <1>4, <1>5

\* A file has been copied: it leaves the list of an archive.
LEMMA ServedOK ==
  ASSUME IInv, NEW h \in Handlers, Served(h)
  PROVE  IInv'
<1>1. req[h] \in Request /\ req \in [Handlers -> Request]
  BY DEF IInv, TypeInv
<1>2. RequestOK(h) /\ req[h].pc = "serving"
  BY DEF IInv, Served, At
<1>3. UNCHANGED <<now, sess, share, tickets, asked, down, table>>
  BY DEF Served
<1>4. CASE req[h].kind \in Archives
  <2>1. PICK k \in 0..(NFiles - 1) : req[h].entries = Made(k + 1) /\ req[h].listed = Left(k)
    BY <1>2, <1>4 DEF RequestOK, ArchiveOK, Opening, Inside
  <2>2. k + 1 \in 0..NFiles
    BY TicketsAssumption
  <2> DEFINE r == [req[h] EXCEPT !.pc = "zip_next", !.listed = Left(k + 1)]
  <2>3. Tail(req[h].listed) = Left(k + 1) /\ Left(k + 1) \in Seq(Nat)
    BY <2>1, <2>2, Lists
  <2>4. req' = [req EXCEPT ![h] = r]
    BY <1>1, <1>4, <2>3 DEF Served, Request
  <2>5. r \in Request
    BY <1>1, <2>3 DEF Request, Steps
  <2>6. /\ r.pc = "zip_next" /\ r.listed = Left(k + 1) /\ r.entries = Made(k + 1)
        /\ r.t = req[h].t /\ r.late = req[h].late
    BY <1>1, <2>1 DEF Request
  <2>7. req'[h] = r
    BY <1>1, <2>4
  <2> HIDE DEF r
  <2>8. RequestOK(h)'
    <3>1. LateOK(h)'
      BY <1>2, <1>3, <2>6, <2>7 DEF RequestOK, LateOK, SessionEnded, Inside
    <3>2. AskedOK(h)'
      BY <1>2, <1>3, <2>6, <2>7 DEF RequestOK, AskedOK, Fetching, Opening, Inside
    <3>3. ArchiveOK(h)'
      BY <2>2, <2>6, <2>7 DEF ArchiveOK, Opening, Inside
    <3> QED
      BY <3>1, <3>2, <3>3 DEF RequestOK
  <2> QED
    BY <1>3, <2>4, <2>5, <2>8, UpdateOK
<1>5. CASE req[h].kind \notin Archives
  BY <1>5, ReturnOK DEF Served
<1> QED
  BY <1>4, <1>5

-----------------------------------------------------------------------------
\* Every step keeps the invariant.
LEMMA NextOK == IInv /\ [Next]_vars => IInv'
<1> SUFFICES ASSUME IInv, [Next]_vars PROVE IInv'
  OBVIOUS
<1>1. ASSUME NEW h \in Handlers, Accept(h) PROVE IInv'
  <2>1. CASE \E t \in Sessions, f \in Singles \cup {ZipTicket} : IssueGet(h, t, f)
    BY <2>1, IssueGetOK
  <2>2. ASSUME NEW id \in Ids, NEW kind \in {"get", "head", "badrange"},
               StatTicket(h, id, kind)
        PROVE  IInv'
    BY <2>2, ArriveOK DEF StatTicket, Kinds, Archives
  <2>3. ASSUME NEW id \in Ids, NEW kind \in Archives, TicketSession(h, id, kind)
        PROVE  IInv'
    BY <2>3, ArriveOK DEF TicketSession, Kinds
  <2> QED
    BY <1>1, <2>1, <2>2, <2>3 DEF Accept
<1>2. ASSUME NEW h \in Handlers, Proceed(h) PROVE IInv'
  <2>1. CASE ZipDone(h)
    BY <2>1, ReturnOK DEF ZipDone
  <2> QED
    BY <1>2, <2>1, IssuePutOK, StatOK, OpenOK, OpenClaimOK, ServedOK,
       ZipLookupOK, ZipListOK, ZipNextOK DEF Proceed
<1>3. ASSUME NEW h \in Handlers, Fails(h) PROVE IInv'
  BY <1>3, ReturnOK DEF Fails
<1>4. now \in Nat /\ share \in [row : BOOLEAN, dir : BOOLEAN, open : BOOLEAN,
                                cut : BOOLEAN, left : Nat]
  BY DEF IInv, TypeInv
<1>5. ASSUME NEW t \in Sessions, Lock(t) PROVE IInv'
  BY <1>4, <1>5, EnvironmentOK DEF Lock
<1>6. CASE Block
  <2>1. /\ share' \in [row : BOOLEAN, dir : BOOLEAN, open : BOOLEAN,
                        cut : BOOLEAN, left : Nat]
        /\ ~share.row => ~share'.row
    BY <1>4, <1>6 DEF Block
  <2>2. down' \subseteq down /\ UNCHANGED <<now, sess, tickets, table, req, asked>>
    BY <1>6 DEF Block
  <2> QED
    BY <1>4, <2>1, <2>2, EnvironmentOK
<1>7. CASE Cut
  <2>1. /\ share' \in [row : BOOLEAN, dir : BOOLEAN, open : BOOLEAN,
                        cut : BOOLEAN, left : Nat]
        /\ ~share.row => ~share'.row
    BY <1>4, <1>7 DEF Cut
  <2>2. down' \subseteq down /\ UNCHANGED <<now, sess, tickets, table, req, asked>>
    BY <1>7 DEF Cut
  <2> QED
    BY <1>4, <2>1, <2>2, EnvironmentOK
<1>8. CASE RemoveBlobs
  <2>1. /\ share' \in [row : BOOLEAN, dir : BOOLEAN, open : BOOLEAN,
                        cut : BOOLEAN, left : Nat]
        /\ ~share.row => ~share'.row
    BY <1>4, <1>8 DEF RemoveBlobs
  <2>2. down' \subseteq down /\ UNCHANGED <<now, sess, tickets, table, req, asked>>
    BY <1>8 DEF RemoveBlobs
  <2> QED
    BY <1>4, <2>1, <2>2, EnvironmentOK
<1>9. CASE DeleteRow
  <2>1. /\ share' \in [row : BOOLEAN, dir : BOOLEAN, open : BOOLEAN,
                        cut : BOOLEAN, left : Nat]
        /\ ~share.row => ~share'.row
    BY <1>4, <1>9 DEF DeleteRow
  <2>2. down' \subseteq down /\ UNCHANGED <<now, sess, tickets, table, req, asked>>
    BY <1>9 DEF DeleteRow
  <2> QED
    BY <1>4, <2>1, <2>2, EnvironmentOK
<1>10. CASE Sweep
  BY <1>4, <1>10, EnvironmentOK DEF Sweep, SweepSessions, SweepTickets
<1>11. CASE Tick
  BY <1>4, <1>11, EnvironmentOK DEF Tick
<1>12. CASE UNCHANGED vars
  BY <1>4, <1>12, EnvironmentOK DEF vars
<1> QED
  BY <1>1, <1>2, <1>3, <1>5, <1>6, <1>7, <1>8, <1>9, <1>10, <1>11, <1>12 DEF Next

\* The inductive invariant of tickets and archives.
THEOREM Invariance == Spec => []IInv
BY InitOK, NextOK, PTL DEF Spec

\* A session that has claimed a download was asked for a body, for any number of
\* sessions, tickets and requests: StatTicket and IssueTicket never charge.
THEOREM ProbesNeverCharge == Spec => []ProbesAreFree
<1>1. IInv => ProbesAreFree
  BY DEF IInv
<1> QED
  BY <1>1, Invariance, PTL

\* Nothing is served to a transfer that began after its ticket or its session had
\* ended: OpenFile looks the session up again, and an ended session stays ended.
THEOREM EndedIsEnded == Spec => []EndedServesNothing
<1>1. IInv => EndedServesNothing
  BY DEF IInv, EndedServesNothing, RequestOK, LateOK, Inside, At
<1> QED
  BY <1>1, Invariance, PTL

\* An archive that WriteArchive closes holds every file once and in order, however
\* many files the share has, or none when its row was gone before they were listed.
THEOREM ClosedIsWhole == Spec => []ArchiveWhole
<1>1. Made(NFiles) = [i \in Files |-> i]
  BY DEF Made, Files
<1>2. IInv => ArchiveWhole
  BY <1>1 DEF IInv, ArchiveWhole, RequestOK, ArchiveOK, At
<1> QED
  BY <1>2, Invariance, PTL

-----------------------------------------------------------------------------
(***************************************************************************)
(* The entry names.                                                        *)
(***************************************************************************)

\* The entries of a request are the first files of the share, and the names do
\* not change.
EntriesOK ==
  /\ names \in NameLists
  /\ \A h \in Handlers : \E k \in 0..NFiles : req[h].entries = Made(k)

\* A request starts over, or keeps its entries.
LEMMA KeptEntries ==
  ASSUME IInv, EntriesOK, UNCHANGED names,
         NEW h \in Handlers, NEW s, req' = [req EXCEPT ![h] = s],
         s.entries = <<>> \/ s.entries = req[h].entries
  PROVE  EntriesOK'
<1>1. req \in [Handlers -> Request]
  BY DEF IInv, TypeInv
<1>2. \E k \in 0..NFiles : s.entries = Made(k)
  <2>1. CASE s.entries = req[h].entries
    BY <2>1 DEF EntriesOK
  <2>2. CASE s.entries = <<>>
    <3>1. 0 \in 0..NFiles /\ s.entries = Made(0)
      BY <2>2, Lists, TicketsAssumption
    <3> QED
      BY <3>1
  <2> QED
    BY <2>1, <2>2
<1>3. ASSUME NEW g \in Handlers
      PROVE  \E k \in 0..NFiles : req'[g].entries = Made(k)
  <2>1. CASE g = h
    BY <1>1, <1>2, <2>1
  <2>2. CASE g # h
    BY <1>1, <2>2 DEF EntriesOK
  <2> QED
    BY <2>1, <2>2
<1> QED
  BY <1>3 DEF EntriesOK

\* WriteArchive creates the entry of the next file on its list.
LEMMA ZipNextEntries ==
  ASSUME IInv, EntriesOK, NEW h \in Handlers, ZipNext(h)
  PROVE  EntriesOK'
<1>1. req \in [Handlers -> Request] /\ req[h] \in Request /\ UNCHANGED names
  BY DEF IInv, TypeInv, ZipNext
<1>2. RequestOK(h) /\ req[h].pc = "zip_next"
  BY DEF IInv, ZipNext, At
<1>3. CASE req[h].listed # <<>>
  <2>1. PICK k \in 0..NFiles : req[h].entries = Made(k) /\ req[h].listed = Left(k)
    BY <1>2, <1>3 DEF RequestOK, ArchiveOK
  <2>2. k \in 0..(NFiles - 1) /\ k + 1 \in 0..NFiles
    BY <1>3, <2>1, Lists, TicketsAssumption
  <2>3. Append(req[h].entries, Head(req[h].listed)) = Made(k + 1)
    BY <2>1, <2>2, Lists
  <2>4. ASSUME NEW g \in Handlers
        PROVE  \E n \in 0..NFiles : req'[g].entries = Made(n)
    <3>1. CASE g = h
      <4>1. req'[g].entries = Made(k + 1)
        BY <1>1, <1>3, <2>3, <3>1 DEF ZipNext, Request
      <4> QED
        BY <2>2, <4>1
    <3>2. CASE g # h
      <4>1. req'[g] = req[g]
        BY <1>1, <1>3, <3>2 DEF ZipNext
      <4> QED
        BY <4>1 DEF EntriesOK
    <3> QED
      BY <3>1, <3>2
  <2> QED
    BY <1>1, <2>4 DEF EntriesOK
<1>4. CASE req[h].listed = <<>>
  <2> DEFINE s == [req[h] EXCEPT !.pc = "closed"]
  <2>1. req' = [req EXCEPT ![h] = s] /\ s.entries = req[h].entries
    BY <1>1, <1>4 DEF ZipNext, Goto, Request
  <2> QED
    BY <1>1, <2>1, KeptEntries
<1> QED
  BY <1>3, <1>4

\* Every step keeps the entries a beginning of the list of files.
LEMMA EntriesNext ==
  ASSUME IInv, EntriesOK, [Next]_vars
  PROVE  EntriesOK'
<1>1. req \in [Handlers -> Request]
  BY DEF IInv, TypeInv
<1>2. Idle.entries = <<>>
  BY DEF Idle
<1>3. CASE UNCHANGED <<names, req>>
  BY <1>3 DEF EntriesOK
<1>4. ASSUME NEW h \in Handlers, Return(h), UNCHANGED names PROVE EntriesOK'
  BY <1>2, <1>4, KeptEntries DEF Return
<1>5. ASSUME NEW h \in Handlers, NEW step, Goto(h, step), UNCHANGED names
      PROVE  EntriesOK'
  <2> DEFINE s == [req[h] EXCEPT !.pc = step]
  <2>1. req' = [req EXCEPT ![h] = s] /\ s.entries = req[h].entries
    BY <1>1, <1>5 DEF Goto, Request
  <2> QED
    BY <1>5, <2>1, KeptEntries
<1>6. ASSUME NEW h \in Handlers, NEW ok, NEW step, Check(h, ok, step), UNCHANGED names
      PROVE  EntriesOK'
  <2>1. Goto(h, step) \/ Return(h)
    BY <1>6 DEF Check
  <2> QED
    BY <1>4, <1>5, <1>6, <2>1
<1>7. ASSUME NEW h \in Handlers, Accept(h) PROVE EntriesOK'
  <2>1. ASSUME NEW t \in Sessions, NEW f, IssueGet(h, t, f) PROVE EntriesOK'
    <3> DEFINE s == [Idle EXCEPT !.pc = IF f = ZipTicket THEN "issue_put" ELSE "issue_row",
                                 !.t = t, !.file = f]
    <3>1. s.entries = <<>>
      BY DEF Idle
    <3>2. UNCHANGED names /\ (req' = [req EXCEPT ![h] = s] \/ req' = req)
      BY <2>1 DEF IssueGet
    <3> QED
      BY <1>3, <3>1, <3>2, KeptEntries
  <2>2. ASSUME NEW id \in Ids, NEW kind, NEW step, Arrive(h, id, kind, step)
        PROVE  EntriesOK'
    <3> DEFINE s == [Idle EXCEPT !.pc = step, !.id = id, !.t = tickets[id].session,
                                 !.kind = kind, !.late = TicketEnded(id)]
    <3>1. s.entries = <<>>
      BY DEF Idle
    <3>2. UNCHANGED names /\ (req' = [req EXCEPT ![h] = s] \/ req' = req)
      BY <2>2 DEF Arrive
    <3> QED
      BY <1>3, <3>1, <3>2, KeptEntries
  <2> QED
    BY <1>7, <2>1, <2>2 DEF Accept, StatTicket, TicketSession
<1>8. ASSUME NEW h \in Handlers, Proceed(h) PROVE EntriesOK'
  <2>1. CASE ZipNext(h)
    BY <2>1, ZipNextEntries
  <2>2. CASE ZipList(h)
    <3> DEFINE s == [req[h] EXCEPT !.pc = "zip_next",
                       !.listed = IF share.row THEN [i \in Files |-> i] ELSE <<>>]
    <3>1. req' = [req EXCEPT ![h] = s] /\ s.entries = req[h].entries
      BY <1>1, <2>2 DEF ZipList, Request
    <3>2. UNCHANGED names
      BY <2>2 DEF ZipList
    <3> QED
      BY <3>1, <3>2, KeptEntries
  <2>3. CASE Served(h)
    <3>1. CASE req[h].kind \in Archives
      <4> DEFINE s == [req[h] EXCEPT !.pc = "zip_next", !.listed = Tail(req[h].listed)]
      <4>1. req' = [req EXCEPT ![h] = s] /\ s.entries = req[h].entries
        BY <1>1, <2>3, <3>1 DEF Served, Request
      <4>2. UNCHANGED names
        BY <2>3 DEF Served
      <4> QED
        BY <4>1, <4>2, KeptEntries
    <3>2. CASE req[h].kind \notin Archives
      BY <1>4, <2>3, <3>2 DEF Served
    <3> QED
      BY <3>1, <3>2
  <2>4. CASE IssueRow(h) \/ StatGet(h) \/ StatRow(h) \/ OpenTicket(h) \/ OpenGet(h)
    BY <1>6, <2>4 DEF IssueRow, StatGet, StatRow, OpenTicket, OpenGet
  <2>5. CASE OpenRow(h) \/ OpenBlob(h) \/ ZipRedeem(h) \/ ZipGet(h)
    BY <1>6, <2>5 DEF OpenRow, OpenBlob, ZipRedeem, ZipGet
  <2>6. CASE OpenClaim(h)
    <3>1. UNCHANGED names /\ (Goto(h, "open_row") \/ Return(h))
      BY <2>6 DEF OpenClaim
    <3> QED
      BY <1>4, <1>5, <3>1
  <2>7. CASE ZipDone(h) \/ \E id \in Ids : IssuePut(h, id)
    BY <1>4, <2>7 DEF ZipDone, IssuePut
  <2> QED
    BY <1>8, <2>1, <2>2, <2>3, <2>4, <2>5, <2>6, <2>7 DEF Proceed
<1>9. ASSUME NEW h \in Handlers, Fails(h) PROVE EntriesOK'
  BY <1>4, <1>9 DEF Fails
<1>10. CASE \/ \E t \in Sessions : Lock(t)
            \/ Block \/ Cut \/ RemoveBlobs \/ DeleteRow \/ Sweep \/ Tick \/ UNCHANGED vars
  BY <1>3, <1>10 DEF Lock, Block, Cut, RemoveBlobs, DeleteRow, Sweep, SweepSessions,
     SweepTickets, Tick, vars
<1> QED
  BY <1>7, <1>8, <1>9, <1>10 DEF Next

\* The name SafeFileName makes of file f, and the files before f that have it too.
SafeName(f) == SafeFileName(names[f])
Namesakes(f, name) == {i \in 1..(f - 1) : SafeName(i) = name}

\* A name without a number is its stem alone.
LEMMA StemAlone ==
  ASSUME names \in NameLists, NEW f \in Files, ~Numbered(SafeName(f))
  PROVE  SafeName(f) \in Seq(Nat) /\ Len(SafeName(f)) = 1
<1>1. names \in Seq([dir : BOOLEAN, base : Seq(Nat)]) /\ Len(names) = NFiles
  BY TicketsAssumption
<1>2. names[f] \in [dir : BOOLEAN, base : Seq(Nat)]
  BY <1>1, ElementOfSeq DEF Files
<1> DEFINE b == names[f].base
<1>3. b \in Seq(Nat) /\ Len(b) \in Nat
  BY <1>2
<1> HIDE DEF b
<1>4. CASE b = <<>>
  <2>1. SafeName(f) = <<0>>
    BY <1>4 DEF SafeName, SafeFileName, FileStem, b
  <2> QED
    BY <2>1
<1>5. CASE b # <<>>
  <2>1. SafeName(f) = b
    BY <1>5 DEF SafeName, SafeFileName, b
  <2>2. Len(b) # 0
    BY <1>3, <1>5, EmptySeq
  <2>3. ~(Len(b) > 1)
    BY <2>1 DEF Numbered
  <2>4. \A x \in Nat : x # 0 /\ ~(x > 1) => x = 1
    OBVIOUS
  <2>5. Len(b) = 1
    BY <1>3, <2>2, <2>3, <2>4
  <2> QED
    BY <1>3, <2>1, <2>5
<1> QED
  BY <1>4, <1>5

\* uniqueEntryName counts the namesakes that came before.
LEMMA EntryNameOf ==
  ASSUME NEW k \in 0..NFiles, NEW j \in 1..k
  PROVE  EntryName(Made(k), j) =
           LET n == Cardinality(Namesakes(j, SafeName(j)))
           IN  IF n = 0 THEN SafeName(j) ELSE Append(SafeName(j), n + 1)
<1>1. NFiles \in Nat /\ k \in Nat /\ j \in Nat /\ j - 1 \in 0..k /\ j >= 1
  BY TicketsAssumption
<1>2. Made(k)[j] = j /\ Made(k) \in Seq(Nat) /\ Len(Made(k)) = k
  BY <1>1 DEF Made
<1>3. SubSeq(Made(k), 1, j - 1) = Made(j - 1)
  <2>1. SubSeq(Made(k), 1, j - 1) = [i \in 1..(j - 1) |-> Made(k)[i]]
    BY <1>1, <1>2
  <2>2. \A i \in 1..(j - 1) : Made(k)[i] = i
    BY <1>1 DEF Made
  <2> QED
    BY <2>1, <2>2 DEF Made
<1>4. DOMAIN Made(j - 1) = 1..(j - 1) /\ \A i \in 1..(j - 1) : Made(j - 1)[i] = i
  BY <1>1 DEF Made
<1>5. Used(Made(j - 1), SafeName(j)) = Cardinality(Namesakes(j, SafeName(j)))
  <2>1. {i \in DOMAIN Made(j - 1) : SafeFileName(names[Made(j - 1)[i]]) = SafeName(j)}
          = Namesakes(j, SafeName(j))
    BY <1>4 DEF Namesakes, SafeName
  <2> QED
    BY <2>1 DEF Used
<1> QED
  BY <1>2, <1>3, <1>5 DEF EntryName, SafeName

\* Every namesake has one more before it than the last.
LEMMA NamesakesGrow ==
  ASSUME NEW i \in Nat, NEW j \in Nat, i < j, i >= 1, SafeName(i) = SafeName(j)
  PROVE  /\ Cardinality(Namesakes(i, SafeName(i))) \in Nat
         /\ Cardinality(Namesakes(j, SafeName(j))) \in Nat
         /\ Cardinality(Namesakes(i, SafeName(i))) # Cardinality(Namesakes(j, SafeName(j)))
<1> DEFINE S == Namesakes(j, SafeName(j))
           T == Namesakes(i, SafeName(i))
<1>1. IsFiniteSet(1..(j - 1))
  BY FS_Interval
<1>2. S \in SUBSET (1..(j - 1)) /\ T \in SUBSET S /\ i \in S /\ i \notin T
  BY DEF Namesakes
<1> HIDE DEF S, T
<1>3. IsFiniteSet(S)
  BY <1>1, <1>2, FS_Subset
<1>4. IsFiniteSet(T) /\ (Cardinality(S) = Cardinality(T) => S = T)
  BY <1>2, <1>3, FS_Subset
<1>5. Cardinality(S) \in Nat /\ Cardinality(T) \in Nat
  BY <1>3, <1>4, FS_CardinalityType
<1>6. Cardinality(T) # Cardinality(S)
  BY <1>2, <1>4
<1> QED
  BY <1>5, <1>6 DEF S, T

\* A stem and a number.
LEMMA AppendedNumber ==
  ASSUME NEW c \in Seq(Nat), NEW x \in Nat
  PROVE  Len(c) = 1 => /\ Len(Append(c, x)) = 2
                       /\ Append(c, x)[1] = c[1]
                       /\ Append(c, x)[2] = x
<1>1. /\ Len(Append(c, x)) = Len(c) + 1
      /\ \A i \in 1..Len(c) : Append(c, x)[i] = c[i]
      /\ Append(c, x)[Len(c) + 1] = x
  BY AppendProperties
<1> QED
  BY <1>1

\* A number after a stem tells names apart, and no stem passes for a numbered name.
LEMMA NumbersTellApart ==
  ASSUME NEW a \in Seq(Nat), NEW b \in Seq(Nat), Len(a) = 1, Len(b) = 1,
         NEW m \in Nat, NEW n \in Nat,
         (IF m = 0 THEN a ELSE Append(a, m + 1)) = (IF n = 0 THEN b ELSE Append(b, n + 1))
  PROVE  a = b /\ m = n
<1>1. /\ Len(Append(a, m + 1)) = 2 /\ Len(Append(b, n + 1)) = 2
      /\ Append(a, m + 1)[1] = a[1] /\ Append(a, m + 1)[2] = m + 1
      /\ Append(b, n + 1)[1] = b[1] /\ Append(b, n + 1)[2] = n + 1
  BY AppendedNumber
<1>2. CASE m = 0
  BY <1>1, <1>2
<1>3. CASE n = 0
  BY <1>1, <1>3
<1>4. CASE m # 0 /\ n # 0
  <2>1. a[1] = b[1] /\ m = n
    BY <1>1, <1>4
  <2>2. a = b
    BY <2>1, SeqEqual
  <2> QED
    BY <2>1, <2>2
<1> QED
  BY <1>2, <1>3, <1>4

\* No entry of an archive overwrites another, for any list of names that are not
\* numbered themselves, however many files share one (uniqueEntryName).
THEOREM EntriesNeverCollide == Spec => []EntryNamesDistinct
<1>1. EntriesOK => EntryNamesDistinct
  <2> SUFFICES ASSUME EntriesOK, \A f \in Files : ~Numbered(SafeFileName(names[f])),
                      NEW h \in Handlers,
                      NEW i \in DOMAIN req[h].entries, NEW j \in DOMAIN req[h].entries,
                      EntryName(req[h].entries, i) = EntryName(req[h].entries, j)
               PROVE  i = j
    BY DEF EntryNamesDistinct
  <2>1. PICK k \in 0..NFiles : req[h].entries = Made(k)
    BY DEF EntriesOK
  <2>2. i \in 1..k /\ j \in 1..k /\ i \in Files /\ j \in Files
    BY <2>1, TicketsAssumption DEF Made, Files
  <2> DEFINE m == Cardinality(Namesakes(i, SafeName(i)))
             n == Cardinality(Namesakes(j, SafeName(j)))
  <2>3. (IF m = 0 THEN SafeName(i) ELSE Append(SafeName(i), m + 1))
          = (IF n = 0 THEN SafeName(j) ELSE Append(SafeName(j), n + 1))
    BY <2>1, <2>2, EntryNameOf
  <2>4. /\ SafeName(i) \in Seq(Nat) /\ Len(SafeName(i)) = 1
        /\ SafeName(j) \in Seq(Nat) /\ Len(SafeName(j)) = 1
    BY <2>2, StemAlone DEF EntriesOK, SafeName
  <2>5. m \in Nat /\ n \in Nat
    <3>1. \A f \in Files : IsFiniteSet(1..(f - 1)) /\ Namesakes(f, SafeName(f)) \in SUBSET (1..(f - 1))
      BY FS_Interval DEF Namesakes, Files
    <3> QED
      BY <2>2, <3>1, FS_Subset, FS_CardinalityType
  <2> HIDE DEF m, n
  <2>6. SafeName(i) = SafeName(j) /\ m = n
    BY <2>3, <2>4, <2>5, NumbersTellApart
  <2>7. i \in Nat /\ j \in Nat /\ i >= 1 /\ j >= 1
    BY <2>2
  <2>8. ~(i < j) /\ ~(j < i)
    BY <2>6, <2>7, NamesakesGrow DEF m, n
  <2> QED
    BY <2>7, <2>8
<1>2. Init => EntriesOK
  <2> SUFFICES ASSUME Init PROVE EntriesOK
    OBVIOUS
  <2>1. \A h \in Handlers : req[h].entries = Made(0)
    BY Lists DEF Init, Idle
  <2> QED
    BY <2>1, TicketsAssumption DEF Init, EntriesOK
<1>3. IInv /\ EntriesOK /\ [Next]_vars => EntriesOK'
  BY EntriesNext
<1>4. Spec => []EntriesOK
  BY <1>2, <1>3, Invariance, PTL DEF Spec
<1> QED
  BY <1>1, <1>4, PTL

=============================================================================
