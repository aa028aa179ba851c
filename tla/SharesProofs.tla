---------------------------- MODULE SharesProofs ----------------------------
(***************************************************************************)
(* Proofs about Shares, for any number of shares, sessions, handlers and   *)
(* restarts and any time bounds.                                           *)
(***************************************************************************)
EXTENDS Shares, FiniteSetTheorems, TLAPS

-----------------------------------------------------------------------------
(***************************************************************************)
(* The inductive invariant, in parts.                                      *)
(***************************************************************************)

\* The steps at which a process holds a share that has been inserted.
HoldingSteps == {"start_files", "start_dir", "start_session", "write_file",
                 "write_open", "write_blob", "finish_tx", "cancel_check", "unlock_files", "unlock_put",
                 "open_claim", "open_claimed", "open_row", "open_blob",
                 "serving", "del_cut", "del_blobs", "del_row", "rep_block",
                 "rep_cut", "rep_record"}

OpenSteps == {"open_claim", "open_claimed", "open_row", "open_blob", "serving"}

\* The steps of OpenFile past claimOnce.
ServingSteps == {"open_row", "open_blob", "serving"}

\* A key without a share has an empty record, and a share has a row id.
EmptyOK ==
  \A k \in Keys : /\ drop[k].status = "none" => drop[k] = NoDrop
                  /\ drop[k].status # "none" => drop[k].id # 0

\* A process that holds a share holds one that exists or existed.
HoldOK ==
  \A p \in Procs : req[p].pc \in HoldingSteps =>
                     req[p].k \in Keys /\ drop[req[p].k].status # "none"

\* A key that StartUpload has drawn is still unused, and drawn by it alone.
FreshOK ==
  \A p \in Procs : At(p, "start_create") =>
    /\ req[p].k \in Keys
    /\ drop[req[p].k].status = "none"
    /\ \A q \in Procs : At(q, "start_create") /\ req[q].k = req[p].k => q = p

\* What Sweep has listed exists or existed.
ReapOK == \A k \in reap : drop[k].status # "none"

\* A session names a share, by its key and by its row id; the table holds only
\* sessions that Unlock has made.
SessOK ==
  /\ \A t \in Tokens : sess[t].key # Nobody =>
       /\ sess[t].key \in Keys
       /\ sess[t].id = drop[sess[t].key].id
       /\ drop[sess[t].key].status # "none"
  /\ \A t \in down : sess[t].key # Nobody

\* An OpenFile holds a session of its share; inside claimOnce it holds mu.
OpenOK ==
  \A p \in Procs :
    /\ req[p].pc \in OpenSteps => req[p].t \in Tokens /\ sess[req[p].t].key = req[p].k
    /\ At(p, "open_claimed") => mu = p

\* What a share that has been cut off still has: no claimed session in the
\* table, and no OpenFile that could claim one.
CutOffOK ==
  /\ \A k \in cutOff : drop[k].blocked /\ drop[k].status # "none"
  /\ \A t \in down : sess[t].key \in cutOff => ~sess[t].claimed
  /\ \A p \in Procs : At(p, "open_claimed") => req[p].k \notin cutOff
  /\ \A p \in Procs : req[p].late =>
       /\ At(p, "open_claim")
       /\ req[p].k \in cutOff
       /\ ~sess[req[p].t].claimed

\* A share's downloads counter covers every session that has been charged.
CountOK ==
  \A k \in Keys : /\ Cardinality(Charged(k)) <= drop[k].downloads
                  /\ drop[k].downloads <= drop[k].maxDownloads

\* A session that has claimed was charged, and past claimOnce it has claimed.
ClaimOK ==
  /\ \A t \in Tokens : sess[t].claimed => sess[t].charged
  /\ \A p \in Procs :
       /\ At(p, "open_claimed") => sess[req[p].t].charged
       /\ req[p].pc \in ServingSteps => sess[req[p].t].claimed

IInv == /\ TypeOK /\ EmptyOK /\ HoldOK /\ FreshOK /\ ReapOK /\ SessOK
        /\ OpenOK /\ CutOffOK /\ CountOK /\ ClaimOK

-----------------------------------------------------------------------------
(***************************************************************************)
(* What the building blocks of the actions do.                             *)
(***************************************************************************)

\* Goto changes the step of one process and nothing else it holds.
LEMMA GotoFacts ==
  ASSUME TypeOK, NEW p \in Procs, NEW step \in Steps, Goto(p, step)
  PROVE  \E r \in Request : /\ req' = [req EXCEPT ![p] = r]
                            /\ r.pc = step /\ r.k = req[p].k
                            /\ r.t = req[p].t /\ r.late = req[p].late
<1>1. req[p] \in Request
  BY DEF TypeOK
<1>2. [req[p] EXCEPT !.pc = step] \in Request
  BY <1>1 DEF Request
<1>3. req' = [req EXCEPT ![p] = [req[p] EXCEPT !.pc = step]]
  BY DEF Goto
<1> QED
  BY <1>1, <1>2, <1>3 DEF Request

\* Begin starts a process afresh with a share.
LEMMA BeginFacts ==
  ASSUME TypeOK, NEW p \in Procs, NEW step \in Steps, NEW k \in Keys,
         Begin(p, step, k)
  PROVE  \E r \in Request : /\ req' = [req EXCEPT ![p] = r]
                            /\ r.pc = step /\ r.k = k /\ ~r.late
<1>1. [Idle EXCEPT !.pc = step, !.k = k] \in Request
  BY DEF Idle, Request
<1>2. /\ [Idle EXCEPT !.pc = step, !.k = k].pc = step
      /\ [Idle EXCEPT !.pc = step, !.k = k].k = k
      /\ ~[Idle EXCEPT !.pc = step, !.k = k].late
  BY DEF Idle
<1> QED
  BY <1>1, <1>2 DEF Begin

\* Finish leaves a process with nothing in hand.
LEMMA FinishFacts ==
  ASSUME TypeOK, NEW p \in Procs, Finish(p)
  PROVE  \E r \in Request : /\ req' = [req EXCEPT ![p] = r]
                            /\ r.pc \in {"idle", "sweep_next"} /\ ~r.late
<1>1. [Idle EXCEPT !.pc = "sweep_next"] \in Request
  BY DEF Idle, Request, Steps
<1>2. [Idle EXCEPT !.pc = "idle"] \in Request
  BY DEF Idle, Request, Steps
<1> QED
  BY <1>1, <1>2 DEF Finish, Idle

\* What an action may do to the drops: leave an unused key alone, keep a
\* share's row id and its counts, never lift a block and never forget that a
\* share existed.
Keeps(k) ==
  \/ drop'[k] = drop[k]
  \/ /\ drop[k].status # "none"
     /\ drop'[k].status # "none"
     /\ drop'[k].id = drop[k].id
     /\ drop'[k].downloads = drop[k].downloads
     /\ drop'[k].maxDownloads = drop[k].maxDownloads
     /\ drop[k].blocked => drop'[k].blocked

DropStep == drop' \in [Keys -> Drop] /\ \A k \in Keys : Keeps(k)

\* A step that leaves the drops alone keeps them.
LEMMA SameDrop == ASSUME TypeOK, drop' = drop PROVE DropStep
  BY DEF TypeOK, DropStep, Keeps

\* What a process may hold next.
MayHold(r) ==
  /\ r.pc # "start_create"
  /\ r.pc # "open_claimed"
  /\ r.pc \in HoldingSteps => r.k \in Keys /\ drop[r.k].status # "none"
  /\ r.pc \in OpenSteps => r.t \in Tokens /\ sess[r.t].key = r.k
  /\ r.pc \in ServingSteps => sess[r.t].claimed
  /\ r.late => /\ r.pc = "open_claim"
               /\ r.k \in cutOff
               /\ ~sess[r.t].claimed

\* Most steps: the drops change within DropStep, sessions may only leave the
\* table, and one process moves on.
LEMMA Move ==
  ASSUME IInv, NEW p \in Procs, NEW r \in Request,
         DropStep, MayHold(r),
         req' = [req EXCEPT ![p] = r],
         down' \subseteq down,
         UNCHANGED <<sess, cutOff>>,
         mu' = mu \/ (mu' = Nobody /\ mu = p),
         now' \in Nat, restarts' \in Nat, dir' \subseteq Keys,
         reports' \subseteq Keys, reap' \subseteq Keys,
         \A k \in reap' : drop[k].status # "none"
  PROVE  IInv'
<1> USE DEF IInv
<1>1. req' \in [Procs -> Request]
  BY DEF TypeOK
<1>2. /\ req'[p] = r
      /\ \A q \in Procs : q # p => req'[q] = req[q]
  BY DEF TypeOK
<1>3. TypeOK'
  BY <1>1 DEF TypeOK, DropStep
<1>4. EmptyOK'
  BY DEF EmptyOK, DropStep, Keeps
<1>5. \A k \in Keys : /\ drop[k].status # "none" => drop'[k].status # "none"
                      /\ drop[k].status = "none" => drop'[k].status = "none"
                      /\ drop'[k].id = drop[k].id
                      /\ drop[k].blocked => drop'[k].blocked
  BY DEF DropStep, Keeps
<1>6. HoldOK'
  BY <1>2, <1>5 DEF HoldOK, MayHold
<1>7. FreshOK'
  BY <1>2, <1>5 DEF FreshOK, MayHold, At
<1>8. ReapOK'
  BY <1>5 DEF ReapOK
<1>9. SessOK'
  BY <1>5 DEF SessOK, TypeOK
<1>10. OpenOK'
  BY <1>2 DEF OpenOK, MayHold, At
<1>11. CutOffOK'
  BY <1>2, <1>5 DEF CutOffOK, MayHold, At, TypeOK
<1>12. \A k \in Keys : /\ Charged(k)' = Charged(k)
                       /\ drop'[k].downloads = drop[k].downloads
                       /\ drop'[k].maxDownloads = drop[k].maxDownloads
  BY DEF DropStep, Keeps, Charged
<1>13. CountOK'
  BY <1>12 DEF CountOK
<1>14. ClaimOK'
  BY <1>2 DEF ClaimOK, MayHold, At
<1> QED
  BY <1>3, <1>4, <1>6, <1>7, <1>8, <1>9, <1>10, <1>11, <1>13, <1>14

\* The steps in which no request moves: time, Lock, an expired get.
LEMMA Still ==
  ASSUME IInv, UNCHANGED <<drop, sess, cutOff, mu, req, reap, dir, restarts>>,
         down' \subseteq down, now' \in Nat, reports' \subseteq Keys
  PROVE  IInv'
<1> USE DEF IInv
<1>1. TypeOK' /\ EmptyOK' /\ HoldOK' /\ FreshOK' /\ ReapOK' /\ OpenOK'
  BY DEF TypeOK, EmptyOK, HoldOK, FreshOK, ReapOK, OpenOK, At
<1>2. SessOK' /\ CutOffOK'
  BY DEF SessOK, CutOffOK, At
<1>3. CountOK' /\ ClaimOK'
  BY DEF CountOK, ClaimOK, Charged, At
<1> QED
  BY <1>1, <1>2, <1>3

-----------------------------------------------------------------------------
(***************************************************************************)
(* The actions that only read: they move one process on.                   *)
(***************************************************************************)

\* A request begins with a share that exists or existed.
LEMMA BeginStep ==
  ASSUME IInv, NEW p \in Procs, NEW step \in Steps, NEW k \in Keys,
         Begin(p, step, k),
         step \notin OpenSteps, step # "start_create",
         drop[k].status # "none",
         down' \subseteq down, reap' \subseteq reap,
         UNCHANGED <<now, stored, sess, mu, restarts, cutOff>>
  PROVE  IInv'
<1>1. TypeOK
  BY DEF IInv
<1>2. PICK r \in Request : /\ req' = [req EXCEPT ![p] = r]
                           /\ r.pc = step /\ r.k = k /\ ~r.late
  BY <1>1, BeginFacts
<1>3. MayHold(r)
  BY <1>2 DEF MayHold, OpenSteps, ServingSteps
<1>4. DropStep
  BY <1>1, SameDrop DEF stored
<1>5. /\ now' \in Nat /\ restarts' \in Nat /\ dir' \subseteq Keys
      /\ reports' \subseteq Keys /\ reap' \subseteq Keys
      /\ \A j \in reap' : drop[j].status # "none"
  BY DEF IInv, TypeOK, ReapOK, stored
<1> QED
  BY <1>2, <1>3, <1>4, <1>5, Move DEF stored

\* A service call returns, whatever it did to the drops, the disk and the table.
LEMMA FinishStep ==
  ASSUME IInv, NEW p \in Procs, Finish(p), DropStep,
         down' \subseteq down, dir' \subseteq Keys, reports' \subseteq Keys,
         reap' \subseteq Keys, \A k \in reap' : drop[k].status # "none",
         mu' = mu \/ (mu' = Nobody /\ mu = p),
         UNCHANGED <<now, sess, restarts, cutOff>>
  PROVE  IInv'
<1>1. TypeOK
  BY DEF IInv
<1>2. PICK r \in Request : /\ req' = [req EXCEPT ![p] = r]
                           /\ r.pc \in {"idle", "sweep_next"} /\ ~r.late
  BY <1>1, FinishFacts
<1>3. MayHold(r)
  BY <1>2 DEF MayHold, OpenSteps, HoldingSteps, ServingSteps
<1>4. now' \in Nat /\ restarts' \in Nat
  BY <1>1 DEF TypeOK
<1> QED
  BY <1>2, <1>3, <1>4, Move

\* A process goes on to a step of the same call.
LEMMA GotoStep ==
  ASSUME IInv, NEW p \in Procs, NEW step \in HoldingSteps, Goto(p, step), DropStep,
         req[p].pc \in HoldingSteps,
         step # "open_claimed",
         step \in OpenSteps => req[p].pc \in OpenSteps,
         step \in ServingSteps => sess[req[p].t].claimed,
         ~req[p].late,
         down' \subseteq down, dir' \subseteq Keys, reports' \subseteq Keys,
         mu' = mu \/ (mu' = Nobody /\ mu = p),
         UNCHANGED <<now, sess, reap, restarts, cutOff>>
  PROVE  IInv'
<1>1. TypeOK /\ HoldOK /\ OpenOK /\ ReapOK
  BY DEF IInv
<1>2. step \in Steps
  BY DEF HoldingSteps, Steps
<1>3. PICK r \in Request : /\ req' = [req EXCEPT ![p] = r]
                           /\ r.pc = step /\ r.k = req[p].k
                           /\ r.t = req[p].t /\ r.late = req[p].late
  BY <1>1, <1>2, GotoFacts
<1>4. MayHold(r)
  BY <1>1, <1>3 DEF MayHold, HoldOK, OpenOK, HoldingSteps
<1>5. /\ now' \in Nat /\ restarts' \in Nat /\ reap' \subseteq Keys
      /\ \A k \in reap' : drop[k].status # "none"
  BY <1>1 DEF TypeOK, ReapOK
<1> QED
  BY <1>3, <1>4, <1>5, Move

-----------------------------------------------------------------------------
(***************************************************************************)
(* The actions, one lemma for each that needs an argument of its own.      *)
(***************************************************************************)

\* Who the processes are.
LEMMA ProcsFacts == /\ Handlers \subseteq Procs
                    /\ Sweeper \in Procs
                    /\ \A h \in Handlers : h # Sweeper
                    /\ \A p \in Procs : p # Nobody
  BY NobodyAssumption, SweeperAssumption DEF Procs

\* The key that StartUpload draws is in nobody's hands.
LEMMA StartValidateOK ==
  ASSUME IInv, NEW h \in Handlers, NEW k \in Keys, StartValidate(h, k)
  PROVE  IInv'
<1> USE DEF IInv
<1>1. h \in Procs
  BY ProcsFacts
<1>2. PICK r \in Request : /\ req' = [req EXCEPT ![h] = r]
                           /\ r.pc = "start_create" /\ r.k = k /\ ~r.late
  BY <1>1, BeginFacts DEF StartValidate, Steps
<1>3. /\ req' \in [Procs -> Request]
      /\ req'[h] = r
      /\ \A q \in Procs : q # h => req'[q] = req[q]
  BY <1>1, <1>2 DEF TypeOK
<1>4. UNCHANGED <<now, drop, dir, reports, sess, down, mu, reap, restarts, cutOff>>
  BY DEF StartValidate, stored
<1>5. drop[k].status = "none" /\ \A q \in Procs : req[q].k # k
  BY DEF StartValidate
<1>6. TypeOK'
  BY <1>3, <1>4 DEF TypeOK
<1>7. EmptyOK' /\ ReapOK' /\ SessOK'
  BY <1>4 DEF EmptyOK, ReapOK, SessOK
<1>8. HoldOK'
  BY <1>2, <1>3, <1>4 DEF HoldOK, HoldingSteps
<1>9. FreshOK'
  BY <1>2, <1>3, <1>4, <1>5 DEF FreshOK, At
<1>10. OpenOK'
  BY <1>2, <1>3, <1>4 DEF OpenOK, OpenSteps, At
<1>11. CutOffOK'
  BY <1>2, <1>3, <1>4 DEF CutOffOK, At
<1>12. CountOK'
  BY <1>4 DEF CountOK, Charged
<1>13. ClaimOK'
  BY <1>2, <1>3, <1>4 DEF ClaimOK, ServingSteps, At
<1> QED
  BY <1>6, <1>7, <1>8, <1>9, <1>10, <1>11, <1>12, <1>13

\* CreateDrop writes the record of a key that no session, process or block
\* knows of.
LEMMA StartCreateOK ==
  ASSUME IInv, NEW h \in Handlers, StartCreate(h)
  PROVE  IInv'
<1> USE DEF IInv
<1> DEFINE k == req[h].k
<1>1. h \in Procs
  BY ProcsFacts
<1>2. k \in Keys /\ drop[k].status = "none"
  BY <1>1 DEF StartCreate, FreshOK
<1>3. PICK i \in Ids, limit \in 1..MaxDownloads, del \in DeletePermissions :
        drop' = [drop EXCEPT ![k] =
                  [NoDrop EXCEPT !.status = "pending", !.id = i,
                                 !.createdAt = now,
                                 !.expiresAt = now + Retention,
                                 !.maxDownloads = limit,
                                 !.deleteAllowed = del]]
  BY DEF StartCreate
<1>4. /\ i \in Nat /\ limit \in Nat /\ del \in BOOLEAN
      /\ now \in Nat /\ now + Retention \in Nat
  BY BoundsAssumption, DeletePermissionsAssumption DEF Ids, TypeOK
<1>4a. i # 0
  BY BoundsAssumption DEF Ids
<1>5. [NoDrop EXCEPT !.status = "pending", !.id = i, !.createdAt = now,
                     !.expiresAt = now + Retention, !.maxDownloads = limit,
                     !.deleteAllowed = del] \in Drop
  BY <1>4 DEF NoDrop, Drop
<1>6. /\ drop' \in [Keys -> Drop]
      /\ drop'[k].status = "pending"
      /\ drop'[k].id = i
      /\ drop'[k].downloads = 0
      /\ drop'[k].maxDownloads = limit
      /\ \A j \in Keys : j # k => drop'[j] = drop[j]
  BY <1>2, <1>3, <1>5 DEF TypeOK, NoDrop
<1>7. PICK r \in Request : /\ req' = [req EXCEPT ![h] = r]
                           /\ r.pc = "start_files" /\ r.k = k
                           /\ r.t = req[h].t /\ r.late = req[h].late
  BY <1>1, GotoFacts DEF StartCreate, Steps
<1>8. /\ req' \in [Procs -> Request]
      /\ req'[h] = r
      /\ \A q \in Procs : q # h => req'[q] = req[q]
  BY <1>1, <1>7 DEF TypeOK
<1>9. UNCHANGED <<now, dir, reports, sess, down, mu, reap, restarts, cutOff>>
  BY DEF StartCreate
<1>10. TypeOK'
  BY <1>6, <1>8, <1>9 DEF TypeOK
<1>11. EmptyOK'
  BY <1>4a, <1>6 DEF EmptyOK
<1>12. HoldOK'
  BY <1>2, <1>6, <1>7, <1>8 DEF HoldOK
<1>13. FreshOK'
  BY <1>1, <1>6, <1>7, <1>8 DEF FreshOK, At, StartCreate
<1>14. ReapOK'
  BY <1>2, <1>6, <1>9 DEF ReapOK, TypeOK
<1>15. SessOK'
  BY <1>2, <1>6, <1>9 DEF SessOK
<1>16. OpenOK'
  BY <1>7, <1>8, <1>9 DEF OpenOK, OpenSteps, At
<1>17. ~r.late
  BY <1>1, <1>7 DEF CutOffOK, At, StartCreate
<1>18. CutOffOK'
  BY <1>2, <1>6, <1>7, <1>8, <1>9, <1>17 DEF CutOffOK, At, TypeOK
<1>19. PICK c \in Keys : c = k
  BY <1>2
<1>20. CountOK'
  <2>1. \A u \in Tokens : sess[u].key # c
    BY <1>2, <1>19, NobodyAssumption DEF SessOK
  <2>2. /\ \A j \in Keys : Charged(j)' = Charged(j)
        /\ Charged(c) = {}
    BY <1>9, <2>1 DEF Charged
  <2>3. /\ Cardinality(Charged(c)') = 0
        /\ drop'[c].downloads = 0 /\ drop'[c].maxDownloads \in Nat
    BY <1>4, <1>6, <1>19, <2>2, FS_EmptySet
  <2>4. ASSUME NEW j \in Keys, j # c
        PROVE  /\ Cardinality(Charged(j)') <= drop'[j].downloads
               /\ drop'[j].downloads <= drop'[j].maxDownloads
    BY <1>6, <1>19, <2>2, <2>4 DEF CountOK
  <2> QED
    BY <2>3, <2>4 DEF CountOK
<1>21. ClaimOK'
  BY <1>7, <1>8, <1>9 DEF ClaimOK, ServingSteps, At
<1> QED
  BY <1>10, <1>11, <1>12, <1>13, <1>14, <1>15, <1>16, <1>18, <1>20, <1>21

\* The session that Unlock adds is unclaimed, whatever happened to its share.
LEMMA UnlockPutOK ==
  ASSUME IInv, NEW h \in Handlers, NEW t \in Tokens, UnlockPut(h, t)
  PROVE  IInv'
<1> USE DEF IInv
<1> DEFINE k == req[h].k
           s == [NoSession EXCEPT !.key = k, !.id = RowId(h),
                                  !.expiresAt = now + DownloadTTL]
<1>1. h \in Procs
  BY ProcsFacts
<1>2. k \in Keys /\ drop[k].status # "none"
  BY <1>1 DEF UnlockPut, At, HoldOK, HoldingSteps
<1>3. drop[k].id \in Nat /\ now + DownloadTTL \in Nat
  BY <1>2, BoundsAssumption DEF TypeOK, Drop
<1>4. /\ s \in Session
      /\ s.key = k /\ s.id = drop[k].id /\ ~s.claimed /\ ~s.charged
  BY <1>2, <1>3 DEF NoSession, Session, RowId
<1>5. sess' = [sess EXCEPT ![t] = s]
  BY DEF UnlockPut
<1> HIDE DEF s
<1>6. /\ sess' \in [Tokens -> Session]
      /\ sess'[t] = s
      /\ \A u \in Tokens : u # t => sess'[u] = sess[u]
  BY <1>4, <1>5 DEF TypeOK
<1>7. PICK r \in Request : /\ req' = [req EXCEPT ![h] = r]
                           /\ r.pc \in {"idle", "sweep_next"} /\ ~r.late
  BY <1>1, FinishFacts DEF UnlockPut
<1>8. /\ req' \in [Procs -> Request]
      /\ req'[h] = r
      /\ \A q \in Procs : q # h => req'[q] = req[q]
  BY <1>1, <1>7 DEF TypeOK
<1>9. /\ UNCHANGED <<now, drop, dir, reports, mu, reap, restarts, cutOff>>
      /\ down' = down \cup {t}
      /\ sess[t].key = Nobody
  BY DEF UnlockPut, stored
<1>10. TypeOK'
  BY <1>6, <1>8, <1>9 DEF TypeOK
<1>11. EmptyOK' /\ ReapOK'
  BY <1>9 DEF EmptyOK, ReapOK
<1>12. HoldOK'
  BY <1>7, <1>8, <1>9 DEF HoldOK, HoldingSteps
<1>13. FreshOK'
  BY <1>7, <1>8, <1>9 DEF FreshOK, At
<1>14. k # Nobody
  BY <1>2, NobodyAssumption
<1>15. SessOK'
  BY <1>2, <1>4, <1>6, <1>9, <1>14 DEF SessOK, TypeOK
<1>16. \A q \in Procs : req[q].pc \in OpenSteps => req[q].t # t
  BY <1>9, NobodyAssumption DEF OpenOK, HoldOK, OpenSteps, HoldingSteps
<1>17. OpenOK'
  BY <1>6, <1>7, <1>8, <1>9, <1>16 DEF OpenOK, OpenSteps, At
<1>18. \A u \in down' : sess'[u].key \in cutOff' => ~sess'[u].claimed
  BY <1>4, <1>6, <1>9 DEF CutOffOK, TypeOK
<1>19. \A q \in Procs : req'[q].late =>
          req'[q].pc = "open_claim" /\ req'[q].k \in cutOff'
            /\ ~sess'[req'[q].t].claimed
  BY <1>6, <1>7, <1>8, <1>9, <1>16 DEF CutOffOK, OpenOK, OpenSteps, At
<1>20. \A q \in Procs : req'[q].pc = "open_claimed" => req'[q].k \notin cutOff'
  BY <1>7, <1>8, <1>9 DEF CutOffOK, At
<1>21. CutOffOK'
  BY <1>9, <1>18, <1>19, <1>20 DEF CutOffOK, At
<1>22. \A j \in Keys : Charged(j)' = Charged(j)
  BY <1>4, <1>6, <1>9, NobodyAssumption DEF Charged
<1>23. CountOK'
  BY <1>9, <1>22 DEF CountOK
<1>24. ClaimOK'
  BY <1>4, <1>6, <1>7, <1>8, <1>16 DEF ClaimOK, OpenSteps, ServingSteps, At, OpenOK
<1> QED
  BY <1>10, <1>11, <1>12, <1>13, <1>15, <1>17, <1>21, <1>23, <1>24

\* claimOnce.  A late OpenFile holds an unclaimed session of a blocked share,
\* so it neither passes for claimed nor claims.
LEMMA OpenClaimOK ==
  ASSUME IInv, NEW h \in Handlers, OpenClaim(h)
  PROVE  IInv'
<1> USE DEF IInv
<1> DEFINE k == req[h].k
           t == req[h].t
<1>1. h \in Procs /\ h # Nobody
  BY ProcsFacts
<1>2. /\ k \in Keys /\ drop[k].status # "none"
      /\ t \in Tokens /\ sess[t].key = k
      /\ req[h].pc = "open_claim"
  BY <1>1 DEF OpenClaim, At, HoldOK, HoldingSteps, OpenOK, OpenSteps
<1>3. /\ UNCHANGED <<now, dir, reports, down, reap, restarts, cutOff>>
      /\ mu = Nobody
  BY DEF OpenClaim, TableFree
<1>4. CASE sess[t].claimed /\ Goto(h, "open_row") /\ UNCHANGED <<drop, sess, mu>>
  <2>1. ~req[h].late
    BY <1>1, <1>4 DEF CutOffOK
  <2>2. DropStep
    BY <1>4, SameDrop
  <2> QED
    BY <1>1, <1>2, <1>3, <1>4, <2>1, <2>2, GotoStep
       DEF TypeOK, HoldingSteps, OpenSteps
<1>5. CASE ~sess[t].claimed /\ Finish(h) /\ UNCHANGED <<drop, sess, mu>>
  <2>1. DropStep
    BY <1>5, SameDrop
  <2> QED
    BY <1>1, <1>3, <1>5, <2>1, FinishStep DEF TypeOK, ReapOK
<1>6. CASE /\ ~sess[t].claimed
           /\ Live(k)
           /\ drop' = [drop EXCEPT ![k].downloads = @ + 1]
           /\ sess' = [sess EXCEPT ![t].charged = TRUE]
           /\ mu' = h
           /\ Goto(h, "open_claimed")
  <2>1. ~drop[k].blocked
    BY <1>6 DEF Live
  <2>2. k \notin cutOff /\ ~req[h].late
    BY <1>1, <2>1 DEF CutOffOK
  <2>3. [drop[k] EXCEPT !.downloads = @ + 1] \in Drop
    <3>1. drop[k] \in Drop
      BY <1>2 DEF TypeOK
    <3>2. drop[k].downloads + 1 \in Nat
      BY <3>1 DEF Drop
    <3> QED
      BY <3>1, <3>2 DEF Drop
  <2>4. /\ drop' \in [Keys -> Drop]
        /\ drop'[k] = [drop[k] EXCEPT !.downloads = @ + 1]
        /\ \A j \in Keys : j # k => drop'[j] = drop[j]
    BY <1>2, <1>6, <2>3 DEF TypeOK
  <2>5. \A j \in Keys : /\ drop'[j].status = drop[j].status
                        /\ drop'[j].id = drop[j].id
                        /\ drop'[j].blocked = drop[j].blocked
    BY <1>2, <2>4 DEF TypeOK, Drop
  <2>6. [sess[t] EXCEPT !.charged = TRUE] \in Session
    BY <1>2 DEF TypeOK, Session
  <2>7. /\ sess' \in [Tokens -> Session]
        /\ sess'[t] = [sess[t] EXCEPT !.charged = TRUE]
        /\ \A u \in Tokens : u # t => sess'[u] = sess[u]
    BY <1>2, <1>6, <2>6 DEF TypeOK
  <2>8. \A u \in Tokens : /\ sess'[u].key = sess[u].key
                          /\ sess'[u].id = sess[u].id
                          /\ sess'[u].claimed = sess[u].claimed
    BY <1>2, <2>7 DEF TypeOK, Session
  <2>9. PICK r \in Request : /\ req' = [req EXCEPT ![h] = r]
                             /\ r.pc = "open_claimed" /\ r.k = k
                             /\ r.t = t /\ r.late = req[h].late
    BY <1>1, <1>6, GotoFacts DEF Steps
  <2>10. /\ req' \in [Procs -> Request]
         /\ req'[h] = r
         /\ \A q \in Procs : q # h => req'[q] = req[q]
    BY <1>1, <2>9 DEF TypeOK
  <2>11. TypeOK'
    BY <1>1, <1>3, <1>6, <2>4, <2>7, <2>10 DEF TypeOK
  <2>12. EmptyOK'
    BY <1>2, <2>4 DEF EmptyOK, TypeOK, Drop
  <2>13. HoldOK'
    BY <1>2, <2>5, <2>9, <2>10 DEF HoldOK
  <2>14. FreshOK'
    BY <2>5, <2>9, <2>10 DEF FreshOK, At
  <2>15. ReapOK'
    BY <1>3, <2>5 DEF ReapOK, TypeOK
  <2>16. SessOK'
    BY <1>3, <2>5, <2>8 DEF SessOK, TypeOK
  <2>17. OpenOK'
    BY <1>1, <1>2, <1>3, <1>6, <2>8, <2>9, <2>10, ProcsFacts DEF OpenOK, OpenSteps, At
  <2>18. \A q \in Procs : req'[q].late =>
            req'[q].pc = "open_claim" /\ req'[q].k \in cutOff'
              /\ ~sess'[req'[q].t].claimed
    BY <1>3, <2>2, <2>8, <2>9, <2>10 DEF CutOffOK, OpenOK, OpenSteps, At
  <2>19. CutOffOK'
    BY <1>3, <2>2, <2>5, <2>8, <2>9, <2>10, <2>18 DEF CutOffOK, At, TypeOK
  <2>20. PICK c \in Keys : c = k
    BY <1>2
  <2>21. PICK u \in Tokens : u = t
    BY <1>2
  <2>22. /\ Charged(c)' = Charged(c) \cup {u}
         /\ \A j \in Keys : j # c => Charged(j)' = Charged(j)
    <3>1. sess'[u].charged
      BY <2>7, <2>21 DEF TypeOK, Session
    <3>2. \A v \in Tokens : (sess'[v].key = c /\ sess'[v].charged)
                             <=> (sess[v].key = c /\ sess[v].charged) \/ v = u
      BY <1>2, <2>7, <2>8, <2>20, <2>21, <3>1
    <3>3. \A v \in Tokens : v # u => sess'[v] = sess[v]
      BY <2>7, <2>21
    <3>4. \A j \in Keys : j # c => sess[u].key # j /\ sess'[u].key # j
      BY <1>2, <2>8, <2>20, <2>21
    <3> QED
      BY <3>2, <3>3, <3>4 DEF Charged
  <2>23. /\ Cardinality(Charged(c)') <= Cardinality(Charged(c)) + 1
         /\ Cardinality(Charged(c)) \in Nat
         /\ Cardinality(Charged(c)') \in Nat
    <3>1. IsFiniteSet(Charged(c))
      BY TokensAssumption, FS_Subset DEF Charged
    <3>2. /\ IsFiniteSet(Charged(c) \cup {u})
          /\ Cardinality(Charged(c) \cup {u}) =
               IF u \in Charged(c) THEN Cardinality(Charged(c))
                                   ELSE Cardinality(Charged(c)) + 1
      BY <3>1, FS_AddElement
    <3>3. Cardinality(Charged(c)) \in Nat
      BY <3>1, FS_CardinalityType
    <3> QED
      BY <2>22, <3>2, <3>3
  <2>24. CountOK'
    <3>1. /\ drop'[c].downloads = drop[c].downloads + 1
          /\ drop'[c].maxDownloads = drop[c].maxDownloads
          /\ drop[c].downloads < drop[c].maxDownloads
          /\ drop[c].downloads \in Nat /\ drop[c].maxDownloads \in Nat
      BY <1>6, <2>4, <2>20 DEF TypeOK, Drop, Live
    <3>2. /\ Cardinality(Charged(c)') <= drop'[c].downloads
          /\ drop'[c].downloads <= drop'[c].maxDownloads
      BY <2>23, <3>1 DEF CountOK
    <3>3. ASSUME NEW j \in Keys, j # c
          PROVE  /\ Cardinality(Charged(j)') <= drop'[j].downloads
                 /\ drop'[j].downloads <= drop'[j].maxDownloads
      BY <2>4, <2>20, <2>22, <3>3 DEF CountOK
    <3> QED
      BY <3>2, <3>3 DEF CountOK
  <2>25. sess'[t].charged /\ \A v \in Tokens : sess[v].charged => sess'[v].charged
    BY <1>2, <2>7 DEF TypeOK, Session
  <2>26. ClaimOK'
    BY <1>2, <2>8, <2>9, <2>10, <2>25 DEF ClaimOK, OpenOK, OpenSteps, ServingSteps, At
  <2> QED
    BY <2>11, <2>12, <2>13, <2>14, <2>15, <2>16, <2>17, <2>19, <2>24, <2>26
<1> QED
  BY <1>4, <1>5, <1>6 DEF OpenClaim

\* The claim ends under mu, before any block can empty the table.
LEMMA OpenClaimedOK ==
  ASSUME IInv, NEW h \in Handlers, OpenClaimed(h)
  PROVE  IInv'
<1> USE DEF IInv
<1> DEFINE k == req[h].k
           t == req[h].t
<1>1. h \in Procs
  BY ProcsFacts
<1>2. /\ k \in Keys /\ drop[k].status # "none"
      /\ t \in Tokens /\ sess[t].key = k
      /\ req[h].pc = "open_claimed"
      /\ mu = h /\ k \notin cutOff /\ ~req[h].late
  BY <1>1 DEF OpenClaimed, At, HoldOK, HoldingSteps, OpenOK, OpenSteps, CutOffOK
<1>3. /\ UNCHANGED <<now, drop, dir, reports, down, reap, restarts, cutOff>>
      /\ mu' = Nobody
  BY DEF OpenClaimed, stored
<1>4. DropStep
  BY <1>3, SameDrop
<1>5. CASE Finish(h) /\ UNCHANGED sess
  BY <1>1, <1>2, <1>3, <1>4, <1>5, FinishStep DEF TypeOK, ReapOK
<1>6. CASE sess' = [sess EXCEPT ![t].claimed = TRUE] /\ Goto(h, "open_row")
  <2>1. [sess[t] EXCEPT !.claimed = TRUE] \in Session
    BY <1>2 DEF TypeOK, Session
  <2>2. /\ sess' \in [Tokens -> Session]
        /\ sess'[t] = [sess[t] EXCEPT !.claimed = TRUE]
        /\ \A u \in Tokens : u # t => sess'[u] = sess[u]
    BY <1>2, <1>6, <2>1 DEF TypeOK
  <2>3. \A u \in Tokens : /\ sess'[u].key = sess[u].key
                          /\ sess'[u].id = sess[u].id
                          /\ sess[u].key # k => sess'[u].claimed = sess[u].claimed
    BY <1>2, <2>2 DEF TypeOK, Session
  <2>4. PICK r \in Request : /\ req' = [req EXCEPT ![h] = r]
                             /\ r.pc = "open_row" /\ r.k = k
                             /\ r.t = t /\ r.late = req[h].late
    BY <1>1, <1>6, GotoFacts DEF Steps
  <2>5. /\ req' \in [Procs -> Request]
        /\ req'[h] = r
        /\ \A q \in Procs : q # h => req'[q] = req[q]
    BY <1>1, <2>4 DEF TypeOK
  <2>6. TypeOK'
    BY <1>3, <2>2, <2>5 DEF TypeOK
  <2>7. EmptyOK' /\ ReapOK'
    BY <1>3 DEF EmptyOK, ReapOK
  <2>8. HoldOK'
    BY <1>2, <1>3, <2>4, <2>5 DEF HoldOK
  <2>9. FreshOK'
    BY <1>3, <2>4, <2>5 DEF FreshOK, At
  <2>10. SessOK'
    BY <1>3, <2>3 DEF SessOK, TypeOK
  <2>11. OpenOK'
    BY <1>1, <1>2, <2>3, <2>4, <2>5 DEF OpenOK, OpenSteps, At
  <2>12. \A q \in Procs : req'[q].late =>
            req'[q].pc = "open_claim" /\ req'[q].k \in cutOff'
              /\ ~sess'[req'[q].t].claimed
    BY <1>2, <1>3, <2>3, <2>4, <2>5 DEF CutOffOK, OpenOK, OpenSteps, At
  <2>13. CutOffOK'
    BY <1>2, <1>3, <2>3, <2>4, <2>5, <2>12 DEF CutOffOK, At, TypeOK
  <2>14. /\ sess[t].charged
         /\ \A u \in Tokens : sess'[u].charged = sess[u].charged
    BY <1>1, <1>2, <2>2 DEF ClaimOK, At, TypeOK, Session
  <2>15. CountOK'
    BY <1>3, <2>3, <2>14 DEF CountOK, Charged
  <2>16. /\ sess'[t].claimed
         /\ \A u \in Tokens : sess[u].claimed => sess'[u].claimed
         /\ \A u \in Tokens : u # t => sess'[u].claimed = sess[u].claimed
    BY <1>2, <2>2 DEF TypeOK, Session
  <2>17. ClaimOK'
    BY <1>2, <2>4, <2>5, <2>14, <2>16 DEF ClaimOK, OpenOK, OpenSteps, ServingSteps, At
  <2> QED
    BY <2>6, <2>7, <2>8, <2>9, <2>10, <2>11, <2>13, <2>15, <2>17
<1> QED
  BY <1>5, <1>6 DEF OpenClaimed

\* Emptying the table after the block: the sessions of the share carry its row
\* id and all go, and mu is free, so no claim of theirs is half-way.
LEMMA ReportCutOK ==
  ASSUME IInv, NEW h \in Handlers, ReportCut(h)
  PROVE  IInv'
<1> USE DEF IInv
<1> DEFINE new == {j \in Keys : IsRow(j, RowId(h)) /\ drop[j].blocked}
<1>1. h \in Procs
  BY ProcsFacts
<1>2. /\ UNCHANGED <<now, drop, dir, reports, sess, mu, reap, restarts>>
      /\ mu = Nobody
      /\ down' = {t \in down : sess[t].id # RowId(h)}
      /\ cutOff' = cutOff \cup new
  BY DEF ReportCut, stored, TableFree, WithoutDrop
<1>3. PICK r \in Request : /\ req' = [req EXCEPT ![h] = r]
                           /\ r.pc = "rep_record" /\ r.k = req[h].k
                           /\ r.t = req[h].t /\ r.late = req[h].late
  BY <1>1, GotoFacts DEF Steps, ReportCut
<1>4. /\ req' \in [Procs -> Request]
      /\ req'[h] = r
      /\ \A q \in Procs : q # h => req'[q] = req[q]
  BY <1>1, <1>3 DEF TypeOK
<1>5. \A j \in new : drop[j].blocked /\ drop[j].status # "none" /\ drop[j].id = RowId(h)
  BY DEF IsRow, HasRow
<1>6. TypeOK'
  BY <1>2, <1>4 DEF TypeOK
<1>7. EmptyOK' /\ ReapOK'
  BY <1>2 DEF EmptyOK, ReapOK
<1>8. HoldOK'
  BY <1>1, <1>2, <1>3, <1>4 DEF HoldOK, HoldingSteps, At, ReportCut
<1>9. FreshOK'
  BY <1>2, <1>3, <1>4 DEF FreshOK, At
<1>10. SessOK'
  BY <1>2 DEF SessOK
<1>11. OpenOK'
  BY <1>2, <1>3, <1>4 DEF OpenOK, OpenSteps, At
<1>12. \A t \in down' : sess'[t].key \in cutOff' => ~sess'[t].claimed
  BY <1>2, <1>5, NobodyAssumption DEF CutOffOK, SessOK, TypeOK
<1>13. ~r.late
  BY <1>1, <1>3 DEF CutOffOK, At, ReportCut
<1>14. \A q \in Procs : req[q].pc # "open_claimed"
  BY <1>2, ProcsFacts DEF OpenOK, At
<1>15. CutOffOK'
  BY <1>2, <1>3, <1>4, <1>5, <1>12, <1>13, <1>14 DEF CutOffOK, At
<1>16. CountOK'
  BY <1>2 DEF CountOK, Charged
<1>17. ClaimOK'
  BY <1>2, <1>3, <1>4 DEF ClaimOK, ServingSteps, At
<1> QED
  BY <1>6, <1>7, <1>8, <1>9, <1>10, <1>11, <1>15, <1>16, <1>17

\* The UPDATE and DELETE statements stay within DropStep.
LEMMA RowUpdates ==
  ASSUME IInv, NEW p \in Procs,
         \/ StartFiles(p) \/ StartSession(p) \/ WriteSet(p) \/ Finalize(p)
         \/ DeleteRow(p) \/ ReportBlock(p)
  PROVE  DropStep
<1> USE DEF IInv
<1>1. \A k \in Keys :
        /\ \A n \in Nat : [drop[k] EXCEPT !.received = n] \in Drop
        /\ [drop[k] EXCEPT !.status = "gone", !.upload = FALSE] \in Drop
        /\ [drop[k] EXCEPT !.blocked = TRUE] \in Drop
  <2> SUFFICES ASSUME NEW k \in Keys
               PROVE  /\ \A n \in Nat : [drop[k] EXCEPT !.received = n] \in Drop
                      /\ [drop[k] EXCEPT !.status = "gone", !.upload = FALSE] \in Drop
                      /\ [drop[k] EXCEPT !.blocked = TRUE] \in Drop
    OBVIOUS
  <2>1. drop[k] \in Drop
    BY DEF TypeOK
  <2>2. \A d \in Drop : /\ \A n \in Nat : [d EXCEPT !.received = n] \in Drop
                       /\ [d EXCEPT !.status = "gone", !.upload = FALSE] \in Drop
                       /\ [d EXCEPT !.blocked = TRUE] \in Drop
    <3> SUFFICES ASSUME NEW d \in Drop
                 PROVE  /\ \A n \in Nat : [d EXCEPT !.received = n] \in Drop
                        /\ [d EXCEPT !.status = "gone", !.upload = FALSE] \in Drop
                        /\ [d EXCEPT !.blocked = TRUE] \in Drop
      OBVIOUS
    <3>1. \A n \in Nat : [d EXCEPT !.received = n] \in Drop
      BY DEF Drop
    <3>2. [d EXCEPT !.status = "gone", !.upload = FALSE] \in Drop
      BY DEF Drop
    <3>3. [d EXCEPT !.blocked = TRUE] \in Drop
      BY DEF Drop
    <3> QED
      BY <3>1, <3>2, <3>3
  <2> QED
    BY <2>1, <2>2
<1>6. \A k \in Keys, i \in Ids :
        [drop[k] EXCEPT !.files = TRUE, !.fid = i, !.received = 0] \in Drop
  <2>1. Ids \subseteq Nat
    BY BoundsAssumption DEF Ids
  <2>2. \A k \in Keys : drop[k] \in Drop
    BY DEF TypeOK
  <2> QED
    BY <2>1, <2>2 DEF Drop
<1>2. \A k \in Keys, b, c \in BOOLEAN :
        /\ [drop[k] EXCEPT !.upload = b, !.given = c] \in Drop
        /\ [drop[k] EXCEPT !.status = "ready", !.upload = FALSE, !.lapsed = b] \in Drop
  <2>1. \A k \in Keys : drop[k] \in Drop
    BY DEF TypeOK
  <2> QED
    BY <2>1 DEF Drop
<1>3. CASE StartFiles(p) \/ WriteSet(p) \/ Finalize(p) \/ DeleteRow(p) \/ ReportBlock(p)
  <2>1. \A k \in Keys :
          \/ drop'[k] = drop[k]
          \/ /\ HasRow(k)
             /\ \/ \E i \in Ids : drop'[k] = [drop[k] EXCEPT !.files = TRUE, !.fid = i,
                                                             !.received = 0]
                \/ \E n \in Nat : drop'[k] = [drop[k] EXCEPT !.received = n]
                \/ \E b \in BOOLEAN : drop'[k] = [drop[k] EXCEPT !.status = "ready",
                                                 !.upload = FALSE, !.lapsed = b]
                \/ drop'[k] = [drop[k] EXCEPT !.status = "gone", !.upload = FALSE]
                \/ drop'[k] = [drop[k] EXCEPT !.blocked = TRUE]
    <3>1. CASE StartFiles(p)
      BY <3>1 DEF StartFiles, IsRow
    <3>2. CASE Finalize(p)
      <4>1. \A k \in Keys : (drop[k].lapsed \/ UploadEnded(k, now)) \in BOOLEAN
        BY DEF TypeOK, Drop, UploadEnded
      <4> QED
        BY <3>2, <4>1 DEF Finalize, IsRow
    <3>3. CASE DeleteRow(p)
      BY <3>3 DEF DeleteRow, IsRow
    <3>4. CASE ReportBlock(p)
      BY <3>4 DEF ReportBlock, IsRow
    <3>5. CASE WriteSet(p)
      <4>1. req[p].off + req[p].len \in Nat
        BY DEF TypeOK, Request
      <4> QED
        BY <3>5, <4>1 DEF WriteSet, HasFile
    <3> QED
      BY <1>3, <3>1, <3>2, <3>3, <3>4, <3>5
  <2>2. drop' = [k \in Keys |-> drop'[k]]
    <3>1. CASE StartFiles(p)
      BY <3>1 DEF StartFiles, TypeOK
    <3>2. CASE WriteSet(p) \/ Finalize(p) \/ DeleteRow(p) \/ ReportBlock(p)
      BY <3>2 DEF WriteSet, Finalize, DeleteRow, ReportBlock
    <3> QED
      BY <1>3, <3>1, <3>2
  <2>3. \A k \in Keys : drop[k] \in Drop
    BY DEF TypeOK
  <2>4. ASSUME NEW k \in Keys PROVE drop'[k] \in Drop
    <3>1. CASE drop'[k] = drop[k]
      BY <2>3, <3>1
    <3>2. ASSUME NEW i \in Ids,
                 drop'[k] = [drop[k] EXCEPT !.files = TRUE, !.fid = i, !.received = 0]
          PROVE  drop'[k] \in Drop
      BY <1>6, <3>2
    <3>3. ASSUME NEW b \in BOOLEAN,
                 drop'[k] = [drop[k] EXCEPT !.status = "ready", !.upload = FALSE,
                                            !.lapsed = b]
          PROVE  drop'[k] \in Drop
      BY <1>2, <3>3
    <3>4. ASSUME NEW n \in Nat, drop'[k] = [drop[k] EXCEPT !.received = n]
          PROVE  drop'[k] \in Drop
      BY <1>1, <3>4
    <3> QED
      BY <1>1, <2>1, <3>1, <3>2, <3>3, <3>4
  <2>5. ASSUME NEW k \in Keys PROVE Keeps(k)
    <3>1. drop[k] \in Drop
      BY <2>3
    <3>2. ASSUME NEW i \in Ids,
                 drop'[k] = [drop[k] EXCEPT !.files = TRUE, !.fid = i, !.received = 0],
                 HasRow(k)
          PROVE  Keeps(k)
      BY <3>1, <3>2 DEF Keeps, HasRow, Drop
    <3>3. ASSUME NEW b \in BOOLEAN,
                 drop'[k] = [drop[k] EXCEPT !.status = "ready", !.upload = FALSE,
                                            !.lapsed = b]
          PROVE  Keeps(k)
      BY <2>1, <3>1, <3>3 DEF Keeps, HasRow, Drop
    <3>4. CASE drop'[k] = [drop[k] EXCEPT !.status = "gone", !.upload = FALSE]
      BY <2>1, <3>1, <3>4 DEF Keeps, HasRow, Drop
    <3>5. CASE drop'[k] = [drop[k] EXCEPT !.blocked = TRUE]
      BY <2>1, <3>1, <3>5 DEF Keeps, HasRow, Drop
    <3>6. ASSUME NEW n \in Nat, drop'[k] = [drop[k] EXCEPT !.received = n], HasRow(k)
          PROVE  Keeps(k)
      BY <3>1, <3>6 DEF Keeps, HasRow, Drop
    <3> QED
      BY <2>1, <3>2, <3>3, <3>4, <3>5, <3>6 DEF Keeps
  <2>6. drop' \in [Keys -> Drop]
    BY <2>2, <2>4
  <2> QED
    BY <2>5, <2>6 DEF DropStep
<1>4. CASE StartSession(p)
  <2>1. req[p].k \in Keys /\ drop[req[p].k].status # "none"
    BY <1>4 DEF StartSession, At, HoldOK, HoldingSteps
  <2>2. CASE drop' = drop
    BY <2>2, SameDrop
  <2>3. CASE drop' = [k \in Keys |->
                       [drop[k] EXCEPT !.upload = @ \/ IsRow(k, RowId(p)),
                                       !.given = @ \/ k = req[p].k]]
    <3>1. \A k \in Keys : /\ (drop[k].upload \/ IsRow(k, RowId(p))) \in BOOLEAN
                          /\ (drop[k].given \/ k = req[p].k) \in BOOLEAN
                          /\ drop[k].upload \in BOOLEAN
                          /\ drop[k].given \in BOOLEAN
      BY DEF TypeOK, Drop, IsRow, HasRow
    <3>2. drop' \in [Keys -> Drop]
      BY <1>2, <2>3, <3>1
    <3>3. \A k \in Keys : /\ drop'[k].status = drop[k].status
                          /\ drop'[k].id = drop[k].id
                          /\ drop'[k].blocked = drop[k].blocked
                          /\ drop'[k].downloads = drop[k].downloads
                          /\ drop'[k].maxDownloads = drop[k].maxDownloads
      BY <2>3 DEF TypeOK, Drop
    <3>4. \A k \in Keys : drop[k].status = "none" => drop'[k] = drop[k]
      <4> SUFFICES ASSUME NEW k \in Keys, drop[k].status = "none"
                   PROVE  drop'[k] = drop[k]
        OBVIOUS
      <4>1. ~IsRow(k, RowId(p)) /\ k # req[p].k
        BY <2>1 DEF IsRow, HasRow
      <4>2. (drop[k].upload \/ IsRow(k, RowId(p))) = drop[k].upload
        BY <3>1, <4>1
      <4>3. (drop[k].given \/ k = req[p].k) = drop[k].given
        BY <3>1, <4>1
      <4>4. drop'[k] = [drop[k] EXCEPT !.upload = drop[k].upload,
                                       !.given = drop[k].given]
        BY <2>3, <4>2, <4>3
      <4>5. drop[k] \in Drop
        BY DEF TypeOK
      <4> QED
        BY <4>4, <4>5 DEF Drop
    <3> QED
      BY <3>2, <3>3, <3>4 DEF DropStep, Keeps
  <2> QED
    BY <1>4, <2>2, <2>3 DEF StartSession
<1> QED
  BY <1>3, <1>4

\* The steps of WriteParts before SetReceived change what is on disk, and who is
\* writing, but no row.
RowsSpared ==
  /\ drop' \in [Keys -> Drop]
  /\ \A j \in Keys : drop'[j] # drop[j] =>
       /\ drop[j].status # "none"
       /\ \E n \in Nat, b \in BOOLEAN :
            drop'[j] = [drop[j] EXCEPT !.onDisk = n, !.crowded = b]

StillWrites(p, r) ==
  /\ req' = [req EXCEPT ![p] = r]
  /\ r.pc \in {"write_open", "write_blob", "idle", "sweep_next"}
  /\ ~r.late
  /\ IF r.pc \in {"write_open", "write_blob"}
     THEN r.k \in Keys /\ drop[r.k].status # "none" /\ drop[r.k].id = RowId(p)
     ELSE r.k = Nobody

LEMMA OneBlob ==
  ASSUME TypeOK, NEW k \in Keys, drop[k].status # "none",
         NEW n \in Nat, NEW b \in BOOLEAN,
         drop' = [drop EXCEPT ![k] = [drop[k] EXCEPT !.onDisk = n, !.crowded = b]]
  PROVE  RowsSpared
<1>1. drop \in [Keys -> Drop]
  BY DEF TypeOK
<1>2. [drop[k] EXCEPT !.onDisk = n, !.crowded = b] \in Drop
  BY <1>1 DEF Drop
<1> QED
  BY <1>1, <1>2 DEF RowsSpared

LEMMA WriteSteps ==
  ASSUME TypeOK, HoldOK, NEW p \in Procs, ~req[p].late,
         WriteFile(p) \/ WriteOpen(p) \/ WriteBlob(p) \/ WriteRollback(p)
  PROVE  /\ RowsSpared
         /\ \E r \in Request : StillWrites(p, r)
         /\ UNCHANGED <<now, dir, reports, sess, down, mu, reap, restarts, cutOff>>
<1> USE DEF At
<1> DEFINE c == req[p].k
<1>1. c \in Keys /\ drop[c].status # "none" /\ drop[c] \in Drop /\ req[p] \in Request
  BY DEF HoldOK, HoldingSteps, TypeOK, WriteFile, WriteOpen, WriteBlob, WriteRollback
<1>2. \A j \in Keys : /\ drop[j] \in Drop /\ drop[j].onDisk \in Nat
                      /\ drop[j].crowded \in BOOLEAN /\ drop[j].received \in Nat
  BY DEF TypeOK, Drop
<1>3. /\ UNCHANGED <<now, dir, reports, sess, down, mu, reap, restarts, cutOff>>
      /\ drop \in [Keys -> Drop] /\ req \in [Procs -> Request]
  BY DEF TypeOK, WriteFile, WriteOpen, WriteBlob, WriteRollback
<1>4. ASSUME Finish(p) PROVE \E r \in Request : StillWrites(p, r)
  <2>1. /\ [Idle EXCEPT !.pc = "sweep_next"] \in Request
        /\ [Idle EXCEPT !.pc = "idle"] \in Request
    BY DEF Idle, Request, Steps
  <2> QED
    BY <1>4, <2>1 DEF StillWrites, Finish, Idle
<1>5. ASSUME UNCHANGED drop PROVE RowsSpared
  BY <1>3, <1>5 DEF RowsSpared
<1>6. ASSUME NEW n \in Nat, drop' = [drop EXCEPT ![c].onDisk = n] PROVE RowsSpared
  <2>1. [drop[c] EXCEPT !.onDisk = n]
          = [drop[c] EXCEPT !.onDisk = n, !.crowded = drop[c].crowded]
    BY <1>1 DEF Drop
  <2>2. drop' = [drop EXCEPT ![c] = [drop[c] EXCEPT !.onDisk = n]]
    BY <1>1, <1>3, <1>6
  <2> QED
    BY <1>1, <1>2, <2>1, <2>2, OneBlob
<1>7. ASSUME NEW k \in Keys, HasFile(k), drop[k].id = RowId(p),
             drop' = [drop EXCEPT ![k].crowded =
                        @ \/ Writing(k, {"write_open", "write_blob"})],
             req' = [req EXCEPT ![p] = [Idle EXCEPT !.pc = "write_open", !.k = k,
                                                    !.off = drop[k].received]]
      PROVE  RowsSpared /\ \E r \in Request : StillWrites(p, r)
  <2> DEFINE b == drop[k].crowded \/ Writing(k, {"write_open", "write_blob"})
             r == [Idle EXCEPT !.pc = "write_open", !.k = k, !.off = drop[k].received]
  <2>1. b \in BOOLEAN
    BY <1>2 DEF Writing
  <2>2. drop' = [drop EXCEPT ![k] = [drop[k] EXCEPT !.onDisk = drop[k].onDisk,
                                                    !.crowded = b]]
    <3>1. [drop[k] EXCEPT !.crowded = b]
            = [drop[k] EXCEPT !.onDisk = drop[k].onDisk, !.crowded = b]
      BY <1>2 DEF Drop
    <3>2. drop' = [drop EXCEPT ![k] = [drop[k] EXCEPT !.crowded = b]]
      BY <1>2, <1>3, <1>7 DEF Drop
    <3> QED
      BY <3>1, <3>2
  <2>3. r \in Request /\ r.pc = "write_open" /\ r.k = k /\ ~r.late
    BY <1>2 DEF Idle, Request, Steps
  <2>4. req' = [req EXCEPT ![p] = r] /\ drop[k].status # "none"
    BY <1>7 DEF HasFile, HasRow
  <2> HIDE DEF r, b
  <2>5. RowsSpared
    BY <1>2, <2>1, <2>2, <2>4, OneBlob
  <2>6. StillWrites(p, r)
    BY <1>7, <2>3, <2>4 DEF StillWrites
  <2> QED
    BY <2>3, <2>5, <2>6
<1>8. CASE WriteFile(p)
  <2>1. CASE Finish(p) /\ UNCHANGED drop
    BY <1>3, <1>4, <1>5, <2>1
  <2>2. CASE ~(Finish(p) /\ UNCHANGED drop)
    <3>1. PICK k \in Keys :
            /\ HasFile(k) /\ drop[k].id = RowId(p)
            /\ req' = [req EXCEPT ![p] = [Idle EXCEPT !.pc = "write_open", !.k = k,
                                                      !.off = drop[k].received]]
            /\ drop' = [drop EXCEPT ![k].crowded =
                           @ \/ Writing(k, {"write_open", "write_blob"})]
      BY <1>8, <2>2 DEF WriteFile
    <3> QED
      BY <1>3, <1>7, <3>1
  <2> QED
    BY <2>1, <2>2
<1>9. CASE WriteOpen(p)
  <2>1. CASE Finish(p) /\ UNCHANGED drop
    BY <1>3, <1>4, <1>5, <2>1
  <2>2. CASE drop' = [drop EXCEPT ![c].onDisk = req[p].off] /\ Goto(p, "write_blob")
    <3>1. RowsSpared
      BY <1>1, <1>6, <2>2 DEF Request
    <3>2. PICK r \in Request : /\ req' = [req EXCEPT ![p] = r]
                               /\ r.pc = "write_blob" /\ r.k = req[p].k
                               /\ r.t = req[p].t /\ r.late = req[p].late
      BY <2>2, GotoFacts DEF Steps
    <3>3. StillWrites(p, r)
      BY <1>1, <3>2 DEF StillWrites, RowId
    <3> QED
      BY <1>3, <3>1, <3>3
  <2> QED
    BY <1>9, <2>1, <2>2 DEF WriteOpen
<1>10. CASE WriteBlob(p)
  <2> DEFINE n == IF c \in dir /\ drop[c].onDisk = req[p].off + req[p].len
                  THEN drop[c].onDisk + 1 ELSE drop[c].onDisk
             r == [req[p] EXCEPT !.len = req[p].len + 1]
  <2>1. n \in Nat
    BY <1>1, <1>2
  <2>2. drop' = [drop EXCEPT ![c].onDisk = n]
    BY <1>10 DEF WriteBlob
  <2>3. RowsSpared
    BY <1>6, <2>1, <2>2
  <2>4. r \in Request /\ r.pc = "write_blob" /\ r.k = c /\ r.late = req[p].late
    BY <1>1, <1>10 DEF Request, WriteBlob
  <2>5. req' = [req EXCEPT ![p] = r]
    BY <1>1, <1>3, <1>10 DEF WriteBlob
  <2>6. StillWrites(p, r)
    BY <1>1, <2>4, <2>5 DEF StillWrites, RowId
  <2> QED
    BY <1>3, <2>3, <2>4, <2>6
<1>11. CASE WriteRollback(p)
  <2> DEFINE n == IF c \in dir /\ drop[c].onDisk > req[p].off
                  THEN req[p].off ELSE drop[c].onDisk
  <2>1. n \in Nat
    BY <1>1, <1>2 DEF Request
  <2>2. drop' = [drop EXCEPT ![c].onDisk = n]
    BY <1>11 DEF WriteRollback
  <2> QED
    BY <1>3, <1>4, <1>6, <1>11, <2>1, <2>2 DEF WriteRollback
<1> QED
  BY <1>8, <1>9, <1>10, <1>11

\* DeleteDrop, for every caller.
LEMMA DeleteOK ==
  ASSUME IInv, NEW p \in Procs, Delete(p)
  PROVE  IInv'
<1>1. TypeOK /\ ReapOK
  BY DEF IInv
<1>2. ~req[p].late
  BY DEF IInv, CutOffOK, At, Delete, DeleteCut, DeleteBlobs, DeleteBlobsFails, DeleteRow
<1>3. CASE DeleteCut(p)
  <2>1. DropStep
    BY <1>1, <1>3, SameDrop DEF DeleteCut, stored
  <2> QED
    BY <1>1, <1>2, <1>3, <2>1, GotoStep
       DEF DeleteCut, stored, WithoutDrop, At, HoldingSteps, OpenSteps, ServingSteps, TypeOK
<1>4. CASE DeleteBlobs(p)
  <2>1. DropStep
    BY <1>1, <1>4, SameDrop DEF DeleteBlobs
  <2> QED
    BY <1>1, <1>2, <1>4, <2>1, GotoStep
       DEF DeleteBlobs, At, HoldingSteps, OpenSteps, ServingSteps, TypeOK
<1>5. CASE DeleteBlobsFails(p)
  <2>1. DropStep
    BY <1>1, <1>5, SameDrop DEF DeleteBlobsFails, stored
  <2> QED
    BY <1>1, <1>5, <2>1, FinishStep DEF DeleteBlobsFails, stored, TypeOK, ReapOK
<1>6. CASE DeleteRow(p)
  BY <1>1, <1>6, RowUpdates, FinishStep DEF DeleteRow, TypeOK, ReapOK
<1> QED
  BY <1>3, <1>4, <1>5, <1>6 DEF Delete

\* The rest of the requests in flight.
LEMMA ProceedOK ==
  ASSUME IInv, NEW h \in Handlers, Proceed(h)
  PROVE  IInv'
<1>1. TypeOK /\ ReapOK /\ h \in Procs
  BY ProcsFacts DEF IInv
<1>2. ~At(h, "open_claim") => ~req[h].late
  BY <1>1 DEF IInv, CutOffOK
<1>16. req[h].pc \in ServingSteps => sess[req[h].t].claimed
  BY <1>1 DEF IInv, ClaimOK
<1>3. CASE StartFiles(h)
  <2>1. DropStep
    BY <1>1, <1>3, RowUpdates
  <2>2. CASE Goto(h, "start_dir")
    BY <1>1, <1>2, <1>3, <2>1, <2>2, GotoStep
       DEF StartFiles, At, HoldingSteps, OpenSteps, ServingSteps, TypeOK
  <2>3. CASE Finish(h)
    BY <1>1, <1>3, <2>1, <2>3, FinishStep DEF StartFiles, TypeOK, ReapOK
  <2> QED
    BY <1>3, <2>2, <2>3 DEF StartFiles
<1>4. CASE StartDir(h)
  <2>1. DropStep
    BY <1>1, <1>4, SameDrop DEF StartDir
  <2>2. dir' \subseteq Keys
    BY <1>1, <1>4 DEF StartDir, TypeOK, IInv, HoldOK, HoldingSteps, At
  <2> QED
    BY <1>1, <1>2, <1>4, <2>1, <2>2, GotoStep
       DEF StartDir, At, HoldingSteps, OpenSteps, ServingSteps, TypeOK
<1>5. CASE StartSession(h)
  BY <1>1, <1>5, RowUpdates, FinishStep DEF StartSession, TypeOK, ReapOK
<1>6. CASE WriteSet(h)
  BY <1>1, <1>6, RowUpdates, FinishStep DEF WriteSet, TypeOK, ReapOK
<1>17. CASE WriteFile(h) \/ WriteOpen(h) \/ WriteBlob(h) \/ WriteRollback(h)
  <2>1. ~req[h].late
    BY <1>2, <1>17 DEF At, WriteFile, WriteOpen, WriteBlob, WriteRollback
  <2>2. /\ RowsSpared
        /\ \E r \in Request : StillWrites(h, r)
        /\ UNCHANGED <<now, dir, reports, sess, down, mu, reap, restarts, cutOff>>
    BY <1>1, <1>17, <2>1, WriteSteps DEF IInv
  <2>3. PICK r \in Request : StillWrites(h, r)
    BY <2>2
  <2>4. DropStep
    <3>1. ASSUME NEW j \in Keys, drop'[j] # drop[j] PROVE Keeps(j)
      <4>1. drop[j] \in Drop /\ drop[j].status # "none"
        BY <1>1, <2>2, <3>1 DEF RowsSpared, TypeOK
      <4>2. PICK n \in Nat, b \in BOOLEAN :
              drop'[j] = [drop[j] EXCEPT !.onDisk = n, !.crowded = b]
        BY <2>2, <3>1 DEF RowsSpared
      <4> QED
        BY <4>1, <4>2 DEF Keeps, Drop
    <3> QED
      BY <2>2, <3>1 DEF RowsSpared, DropStep, Keeps
  <2>5. MayHold(r)
    BY <2>3 DEF StillWrites, MayHold, HoldingSteps, OpenSteps, ServingSteps
  <2> QED
    BY <1>1, <2>2, <2>3, <2>4, <2>5, Move DEF StillWrites, TypeOK, ReapOK
<1>7. CASE Finalize(h)
  BY <1>1, <1>7, RowUpdates, FinishStep DEF Finalize, TypeOK, ReapOK
<1>8. CASE CancelCheck(h)
  <2>1. DropStep /\ UNCHANGED <<now, drop, dir, reports, sess, down, mu, reap, restarts, cutOff>>
    BY <1>1, <1>8, SameDrop DEF CancelCheck, stored
  <2>2. ASSUME NEW k \in Keys, IsRow(k, RowId(h)), Begin(h, "del_cut", k)
        PROVE  IInv'
    BY <1>1, <2>1, <2>2, BeginStep
       DEF stored, Steps, OpenSteps, IsRow, HasRow
  <2>3. CASE Finish(h)
    BY <1>1, <2>1, <2>3, FinishStep DEF TypeOK, ReapOK
  <2> QED
    BY <1>8, <2>2, <2>3 DEF CancelCheck
<1>9. CASE UnlockFiles(h)
  <2>1. DropStep /\ UNCHANGED <<now, drop, dir, reports, sess, down, mu, reap, restarts, cutOff>>
    BY <1>1, <1>9, SameDrop DEF UnlockFiles, stored
  <2>2. CASE Goto(h, "unlock_put")
    BY <1>1, <1>2, <1>9, <2>1, <2>2, GotoStep
       DEF UnlockFiles, At, HoldingSteps, OpenSteps, ServingSteps, TypeOK
  <2>3. CASE Finish(h)
    BY <1>1, <2>1, <2>3, FinishStep DEF TypeOK, ReapOK
  <2> QED
    BY <1>9, <2>2, <2>3 DEF UnlockFiles
<1>10. CASE OpenRow(h)
  <2>1. DropStep /\ UNCHANGED <<now, drop, dir, reports, sess, down, mu, reap, restarts, cutOff>>
    BY <1>1, <1>10, SameDrop DEF OpenRow, stored
  <2>2. CASE Goto(h, "open_blob")
    BY <1>1, <1>2, <1>10, <1>16, <2>1, <2>2, GotoStep
       DEF OpenRow, At, HoldingSteps, OpenSteps, ServingSteps, TypeOK
  <2>3. CASE Finish(h)
    BY <1>1, <2>1, <2>3, FinishStep DEF TypeOK, ReapOK
  <2> QED
    BY <1>10, <2>2, <2>3 DEF OpenRow
<1>11. CASE OpenBlob(h)
  <2>1. DropStep /\ UNCHANGED <<now, drop, dir, reports, sess, down, mu, reap, restarts, cutOff>>
    BY <1>1, <1>11, SameDrop DEF OpenBlob, stored
  <2>2. CASE Goto(h, "serving")
    BY <1>1, <1>2, <1>11, <1>16, <2>1, <2>2, GotoStep
       DEF OpenBlob, At, HoldingSteps, OpenSteps, ServingSteps, TypeOK
  <2>3. CASE Finish(h)
    BY <1>1, <2>1, <2>3, FinishStep DEF TypeOK, ReapOK
  <2> QED
    BY <1>11, <2>2, <2>3 DEF OpenBlob
<1>12. CASE ServeEnd(h)
  <2>1. DropStep
    BY <1>1, <1>12, SameDrop DEF ServeEnd, stored
  <2> QED
    BY <1>1, <1>12, <2>1, FinishStep DEF ServeEnd, stored, TypeOK, ReapOK
<1>13. CASE ReportBlock(h)
  BY <1>1, <1>2, <1>13, RowUpdates, GotoStep
     DEF ReportBlock, At, HoldingSteps, OpenSteps, ServingSteps, TypeOK
<1>14. CASE ReportRecord(h)
  <2>1. DropStep
    BY <1>1, <1>14, SameDrop DEF ReportRecord
  <2>2. reports' \subseteq Keys
    BY <1>1, <1>14 DEF ReportRecord, TypeOK, IInv, HoldOK, HoldingSteps, At
  <2> QED
    BY <1>1, <1>14, <2>1, <2>2, FinishStep DEF ReportRecord, TypeOK, ReapOK
<1>15. CASE SessionDeleteRead(h)
  <2>1. DropStep /\ UNCHANGED <<now, drop, dir, reports, sess, down, mu, reap, restarts, cutOff>>
    BY <1>1, <1>15, SameDrop DEF SessionDeleteRead, stored
  <2>2. ASSUME NEW k \in Keys, IsRow(k, sess[req[h].t].id),
               req' = [req EXCEPT ![h].pc = "del_cut", ![h].k = k]
        PROVE  IInv'
    <3> DEFINE r == [req[h] EXCEPT !.pc = "del_cut", !.k = k]
    <3>1. req[h] \in Request
      BY <1>1 DEF TypeOK
    <3>2. r \in Request /\ r.pc = "del_cut" /\ r.k = k /\ r.late = req[h].late
      BY <3>1 DEF Request, Steps
    <3>3. req' = [req EXCEPT ![h] = r]
      BY <1>1, <2>2 DEF TypeOK
    <3>4. MayHold(r)
      BY <1>2, <1>15, <2>2, <3>2
         DEF MayHold, OpenSteps, ServingSteps, IsRow, HasRow, At, SessionDeleteRead
    <3> QED
      BY <1>1, <2>1, <3>2, <3>3, <3>4, Move DEF TypeOK, ReapOK
  <2>3. CASE Finish(h)
    BY <1>1, <2>1, <2>3, FinishStep DEF TypeOK, ReapOK
  <2> QED
    BY <1>15, <2>2, <2>3 DEF SessionDeleteRead
<1> QED
  BY <1>1, <1>3, <1>4, <1>5, <1>6, <1>7, <1>8, <1>9, <1>10, <1>11, <1>12, <1>13,
     <1>14, <1>15, <1>17, StartCreateOK, UnlockPutOK, OpenClaimOK, OpenClaimedOK,
     ReportCutOK, DeleteOK
     DEF Proceed

\* Requests that arrive.
LEMMA AcceptOK ==
  ASSUME IInv, NEW h \in Handlers, Accept(h)
  PROVE  IInv'
<1>1. TypeOK /\ ReapOK /\ EmptyOK /\ SessOK /\ h \in Procs
  BY ProcsFacts DEF IInv
<1>2. ASSUME NEW k \in Keys, WriteResolve(h, k) \/ FinishResolve(h, k) \/ CancelResolve(h, k)
      PROVE  IInv'
  <2>1. PICK step \in {"write_file", "finish_tx", "cancel_check"} :
          /\ Begin(h, step, k)
          /\ drop[k].upload
          /\ UNCHANGED <<now, stored, sess, down, mu, reap, restarts, cutOff>>
    BY <1>2 DEF WriteResolve, FinishResolve, CancelResolve, ResolveSession, UploadOpen
  <2>2. drop[k].status # "none"
    <3>1. drop[k].status = "none" => drop[k] = NoDrop
      BY <1>1, <1>2 DEF EmptyOK
    <3> QED
      BY <2>1, <3>1 DEF NoDrop
  <2> QED
    BY <1>1, <2>1, <2>2, BeginStep DEF Steps, OpenSteps
<1>3. ASSUME NEW k \in Keys, ManageDelete(h, k)
      PROVE  IInv'
  BY <1>1, <1>3, BeginStep DEF ManageDelete, HasRow, Steps, OpenSteps
<1>4. ASSUME NEW k \in Keys, UnlockRead(h, k)
      PROVE  IInv'
  BY <1>1, <1>4, BeginStep DEF UnlockRead, Live, Steps, OpenSteps
<1>5. ASSUME NEW k \in Keys, ReportLookup(h, k)
      PROVE  IInv'
  <2>1. CASE HasRow(k) /\ Begin(h, "rep_block", k) /\ UNCHANGED reports
    BY <1>1, <1>5, <2>1, BeginStep
       DEF ReportLookup, HasRow, Steps, OpenSteps, stored
  <2>2. CASE reports' = reports \cup {k} /\ UNCHANGED req
    BY <1>1, <1>5, <2>2, Still DEF ReportLookup, TypeOK
  <2> QED
    BY <1>5, <2>1, <2>2 DEF ReportLookup
<1>6. ASSUME NEW t \in Tokens, OpenGet(h, t)
      PROVE  IInv'
  <2> DEFINE r == [Idle EXCEPT !.pc = "open_claim", !.k = sess[t].key, !.t = t,
                               !.late = sess[t].key \in cutOff]
  <2>1. /\ t \in down
        /\ req' = [req EXCEPT ![h] = r]
        /\ UNCHANGED <<now, drop, dir, reports, sess, down, mu, reap, restarts, cutOff>>
    BY <1>6 DEF OpenGet, stored
  <2>2. sess[t].key \in Keys /\ drop[sess[t].key].status # "none"
    BY <1>1, <2>1 DEF SessOK
  <2>3. (sess[t].key \in cutOff) \in BOOLEAN
    OBVIOUS
  <2>4. /\ r \in Request
        /\ r.pc = "open_claim" /\ r.k = sess[t].key /\ r.t = t
        /\ r.late => sess[t].key \in cutOff
    BY <2>2, <2>3 DEF Idle, Request, Steps
  <2> HIDE DEF r
  <2>5. sess[t].key \in cutOff => ~sess[t].claimed
    BY <2>1 DEF IInv, CutOffOK
  <2>6. MayHold(r)
    BY <2>2, <2>4, <2>5 DEF MayHold, ServingSteps
  <2>7. DropStep
    BY <1>1, <2>1, SameDrop
  <2> QED
    BY <1>1, <2>1, <2>4, <2>6, <2>7, Move DEF TypeOK, ReapOK
<1>7. ASSUME NEW t \in Tokens, GetExpired(h, t) \/ Lock(h, t)
      PROVE  IInv'
  BY <1>1, <1>7, Still DEF GetExpired, Lock, stored, TypeOK
<1>8. ASSUME NEW t \in Tokens, SessionDelete(h, t)
      PROVE  IInv'
  <2> DEFINE r == [Idle EXCEPT !.pc = "sdel_read", !.t = t]
  <2>1. /\ req' = [req EXCEPT ![h] = r]
        /\ UNCHANGED <<now, drop, dir, reports, sess, down, mu, reap, restarts, cutOff>>
    BY <1>8 DEF SessionDelete, stored
  <2>2. r \in Request /\ r.pc = "sdel_read" /\ ~r.late
    BY DEF Idle, Request, Steps
  <2>3. MayHold(r)
    BY <2>2 DEF MayHold, HoldingSteps, OpenSteps, ServingSteps
  <2>4. DropStep
    BY <1>1, <2>1, SameDrop
  <2> QED
    BY <1>1, <2>1, <2>2, <2>3, <2>4, Move DEF TypeOK, ReapOK
<1> QED
  BY <1>2, <1>3, <1>4, <1>5, <1>6, <1>7, <1>8, StartValidateOK DEF Accept

\* Sweep.
LEMMA SweepOK ==
  ASSUME IInv, Sweep
  PROVE  IInv'
<1>1. TypeOK /\ ReapOK /\ Sweeper \in Procs
  BY ProcsFacts DEF IInv
<1>2. CASE SweepSessions
  <2> DEFINE r == [Idle EXCEPT !.pc = "sweep_list", !.at = now]
  <2>1. /\ req' = [req EXCEPT ![Sweeper] = r]
        /\ down' \subseteq down
        /\ UNCHANGED <<now, drop, dir, reports, sess, mu, reap, restarts, cutOff>>
    BY <1>2 DEF SweepSessions, stored
  <2>2. r \in Request /\ r.pc = "sweep_list" /\ ~r.late
    BY <1>1 DEF Idle, Request, Steps, TypeOK
  <2>3. MayHold(r)
    BY <2>2 DEF MayHold, HoldingSteps, OpenSteps, ServingSteps
  <2>4. DropStep
    BY <1>1, <2>1, SameDrop
  <2> QED
    BY <1>1, <2>1, <2>2, <2>3, <2>4, Move DEF TypeOK, ReapOK
<1>3. CASE SweepList
  <2>1. reap' \subseteq Keys /\ \A k \in reap' : drop[k].status # "none"
    BY <1>3 DEF SweepList, Reapable, HasRow
  <2>2. DropStep
    BY <1>1, <1>3, SameDrop DEF SweepList, stored
  <2> QED
    BY <1>1, <1>3, <2>1, <2>2, FinishStep DEF SweepList, stored, TypeOK
<1>4. CASE SweepNext
  <2>1. ASSUME NEW k \in reap, reap' = reap \ {k}, Begin(Sweeper, "del_cut", k)
        PROVE  IInv'
    <3>1. k \in Keys /\ drop[k].status # "none" /\ reap' \subseteq reap
      BY <1>1, <2>1 DEF TypeOK, ReapOK
    <3> QED
      BY <1>1, <1>4, <2>1, <3>1, BeginStep DEF SweepNext, Steps, OpenSteps
  <2>2. CASE req' = [req EXCEPT ![Sweeper] = Idle] /\ UNCHANGED reap
    <3>1. Idle \in Request /\ Idle.pc = "idle" /\ ~Idle.late
      BY DEF Idle, Request, Steps
    <3>2. MayHold(Idle)
      BY <3>1 DEF MayHold, HoldingSteps, OpenSteps, ServingSteps
    <3>3. DropStep
      BY <1>1, <1>4, SameDrop DEF SweepNext, stored
    <3> QED
      BY <1>1, <1>4, <2>2, <3>1, <3>2, <3>3, Move DEF SweepNext, stored, TypeOK, ReapOK
  <2> QED
    BY <1>4, <2>1, <2>2 DEF SweepNext
<1> QED
  BY <1>1, <1>2, <1>3, <1>4, DeleteOK DEF Sweep

\* Clients that go away, restarts and time.
LEMMA EnvironmentOK ==
  ASSUME IInv, (\E h \in Handlers : Disconnect(h)) \/ Restart \/ Tick
  PROVE  IInv'
<1>1. TypeOK /\ ReapOK
  BY DEF IInv
<1>2. ASSUME NEW h \in Handlers, Disconnect(h)
      PROVE  IInv'
  <2>1. DropStep
    BY <1>1, <1>2, SameDrop DEF Disconnect, stored
  <2> QED
    BY <1>1, <1>2, <2>1, FinishStep, ProcsFacts DEF Disconnect, stored, TypeOK, ReapOK
<1>3. CASE Restart
  <2>1. /\ req' = [p \in Procs |-> Idle]
        /\ down' = {} /\ reap' = {} /\ mu' = Nobody
        /\ restarts' = restarts + 1
        /\ UNCHANGED <<now, drop, dir, reports, sess, cutOff>>
    BY <1>3 DEF Restart, stored
  <2>2. Idle \in Request /\ Idle.pc = "idle" /\ ~Idle.late
    BY DEF Idle, Request, Steps
  <2>3. TypeOK'
    BY <1>1, <2>1, <2>2 DEF TypeOK
  <2>4. EmptyOK' /\ HoldOK' /\ FreshOK' /\ ReapOK' /\ SessOK'
    BY <2>1, <2>2 DEF IInv, EmptyOK, HoldOK, FreshOK, ReapOK, SessOK, At, HoldingSteps
  <2>5. OpenOK' /\ CutOffOK' /\ CountOK' /\ ClaimOK'
    BY <2>1, <2>2 DEF IInv, OpenOK, CutOffOK, CountOK, ClaimOK, Charged, At,
       OpenSteps, ServingSteps
  <2> QED
    BY <2>3, <2>4, <2>5 DEF IInv
<1>4. CASE Tick
  BY <1>1, <1>4, Still DEF Tick, stored, TypeOK
<1> QED
  BY <1>2, <1>3, <1>4

\* The first state.
LEMMA InitOK == Init => IInv
<1> SUFFICES ASSUME Init PROVE IInv
  OBVIOUS
<1>1. /\ Idle \in Request /\ Idle.pc = "idle" /\ ~Idle.late
      /\ NoDrop \in Drop
      /\ NoSession \in Session /\ NoSession.key = Nobody
      /\ ~NoSession.charged /\ ~NoSession.claimed
      /\ NoDrop.downloads = 0 /\ NoDrop.maxDownloads = 0
  BY DEF Idle, Request, Steps, NoDrop, Drop, NoSession, Session
<1>2. TypeOK
  BY <1>1 DEF Init, TypeOK
<1>3. \A k \in Keys : Charged(k) = {}
  BY <1>1 DEF Init, Charged
<1>4. CountOK
  BY <1>1, <1>3, FS_EmptySet DEF Init, CountOK
<1>5a. EmptyOK
  BY DEF Init, EmptyOK, NoDrop
<1>5. HoldOK /\ FreshOK /\ ReapOK /\ SessOK
  BY <1>1 DEF Init, HoldOK, FreshOK, ReapOK, SessOK, At, HoldingSteps
<1>6. OpenOK /\ CutOffOK /\ ClaimOK
  BY <1>1 DEF Init, OpenOK, CutOffOK, ClaimOK, At, OpenSteps, ServingSteps
<1> QED
  BY <1>2, <1>4, <1>5a, <1>5, <1>6 DEF IInv

\* Every step.
LEMMA NextOK == IInv /\ [Next]_vars => IInv'
<1> SUFFICES ASSUME IInv, [Next]_vars PROVE IInv'
  OBVIOUS
<1>1. CASE UNCHANGED vars
  BY <1>1, Still DEF vars, IInv, TypeOK
<1> QED
  BY <1>1, AcceptOK, ProceedOK, SweepOK, EnvironmentOK DEF Next

-----------------------------------------------------------------------------
\* The invariant holds of every behaviour, and with it the type invariant.
THEOREM Invariance == Spec => []IInv
  BY InitOK, NextOK, PTL DEF Spec

\* Type correctness of Shares: no interleaving of service calls, disconnects
\* and restarts takes a variable out of its type.
THEOREM TypeCorrect == Spec => []TypeOK
<1>1. IInv => TypeOK
  BY DEF IInv
<1> QED
  BY <1>1, Invariance, PTL

\* Report's "blocking stops all downloads at once", for any number of shares,
\* sessions and requests: an OpenFile that begins after the block and the
\* emptying of the session table never serves.
THEOREM BlockingStopsDownloads == Spec => []BlockCutsOff
<1>1. IInv => BlockCutsOff
  BY ProcsFacts DEF IInv, CutOffOK, BlockCutsOff, At
<1> QED
  BY <1>1, Invariance, PTL

\* The download limit, for any number of shares, sessions and requests: bytes
\* are served only to sessions that have claimed, and no more of a share's
\* sessions ever claim than its sender allowed.
THEOREM DownloadLimit == Spec => []ServedWithinAllowance
<1>1. IInv => ServedWithinAllowance
  <2> SUFFICES ASSUME IInv PROVE ServedWithinAllowance
    OBVIOUS
  <2>1. \A h \in Handlers : At(h, "serving") => sess[req[h].t].claimed
    BY ProcsFacts DEF IInv, ClaimOK, ServingSteps, At
  <2>2. ASSUME NEW k \in Keys
        PROVE  Cardinality(Claimed(k)) <= drop[k].maxDownloads
    <3>1. IsFiniteSet(Charged(k))
      BY TokensAssumption, FS_Subset DEF Charged
    <3>2. Claimed(k) \subseteq Charged(k)
      BY DEF IInv, ClaimOK, Claimed, Charged
    <3>3. /\ IsFiniteSet(Claimed(k))
          /\ Cardinality(Claimed(k)) <= Cardinality(Charged(k))
      BY <3>1, <3>2, FS_Subset
    <3>4. Cardinality(Claimed(k)) \in Nat /\ Cardinality(Charged(k)) \in Nat
      BY <3>1, <3>3, FS_CardinalityType
    <3>5. drop[k].downloads \in Nat /\ drop[k].maxDownloads \in Nat
      BY DEF IInv, TypeOK, Drop
    <3> QED
      BY <3>3, <3>4, <3>5 DEF IInv, CountOK
  <2> QED
    BY <2>1, <2>2 DEF ServedWithinAllowance
<1> QED
  BY <1>1, Invariance, PTL

\* One step of Sweep, which addresses its rows by id.
LEMMA SweepStepSpares ==
  ASSUME IInv, Sweep, NEW k \in Keys, Held(k), IdsUnique
  PROVE  Held(k)'
<1> USE NobodyAssumption DEF Held, HasRow
<1>1. /\ Sweeper \in Procs
      /\ req[Sweeper] \in Request
      /\ req \in [Procs -> Request]
      /\ Idle.k = Nobody
      /\ drop \in [Keys -> Drop]
  BY ProcsFacts DEF IInv, TypeOK, Idle
<1>2. CASE SweepSessions
  BY <1>1, <1>2 DEF SweepSessions, stored
<1>3. CASE SweepList
  BY <1>1, <1>3 DEF SweepList, Finish, stored, Reapable
<1>4. CASE SweepNext
  <2>1. /\ UNCHANGED drop
        /\ \/ \E j \in reap : reap' = reap \ {j} /\ Begin(Sweeper, "del_cut", j)
           \/ reap' = reap /\ req' = [req EXCEPT ![Sweeper] = Idle]
    BY <1>4 DEF SweepNext, stored
  <2>2. CASE reap' = reap /\ req' = [req EXCEPT ![Sweeper] = Idle]
    BY <1>1, <2>1, <2>2
  <2>3. ASSUME NEW j \in reap, reap' = reap \ {j}, Begin(Sweeper, "del_cut", j)
        PROVE  Held(k)'
    <3>1. req'[Sweeper].k = j
      BY <1>1, <2>3 DEF Begin, Idle
    <3> QED
      BY <2>1, <2>3, <3>1
  <2> QED
    BY <2>1, <2>2, <2>3
<1>5. CASE DeleteCut(Sweeper) \/ DeleteBlobs(Sweeper)
  BY <1>1, <1>5 DEF DeleteCut, DeleteBlobs, Goto, stored, Request
<1>6. CASE DeleteBlobsFails(Sweeper)
  BY <1>1, <1>6 DEF DeleteBlobsFails, Finish, stored
<1>7. CASE DeleteRow(Sweeper)
  <2>1. /\ req[Sweeper].k \in Keys
        /\ req[Sweeper].k # k
        /\ drop[k].id # 0
    BY <1>1, <1>7 DEF DeleteRow, At, IInv, HoldOK, HoldingSteps, EmptyOK
  <2>2. ~IsRow(k, RowId(Sweeper))
    BY <2>1 DEF IsRow, RowId, IdsUnique
  <2> QED
    <3>1. drop'[k] = drop[k]
      BY <1>1, <1>7, <2>2 DEF DeleteRow
    <3>2. reap' = reap /\ req'[Sweeper].k = Nobody
      BY <1>1, <1>7 DEF DeleteRow, Finish, Idle
    <3> QED
      BY <3>1, <3>2
<1> QED
  BY <1>2, <1>3, <1>4, <1>5, <1>6, <1>7 DEF Sweep, Delete

\* It leaves the bytes alone, too.
LEMMA SweepStepSparesBytes ==
  ASSUME Sweep, NEW k \in Keys, Held(k), k \in dir
  PROVE  k \in dir'
<1>1. CASE DeleteBlobs(Sweeper)
  BY <1>1 DEF DeleteBlobs, Held
<1>2. CASE ~DeleteBlobs(Sweeper)
  BY <1>2 DEF Sweep, SweepSessions, SweepList, SweepNext, Delete, DeleteCut,
     DeleteBlobsFails, DeleteRow, stored
<1> QED
  BY <1>1, <1>2

\* A request is one handler's: the sweeper and its list do not move.
LEMMA SweeperStill ==
  ASSUME IInv, NEW h \in Handlers, Accept(h) \/ Proceed(h) \/ Disconnect(h)
  PROVE  reap' = reap /\ req'[Sweeper] = req[Sweeper]
<1>1. h \in Procs /\ h # Sweeper /\ Sweeper \in Procs /\ req \in [Procs -> Request]
  BY ProcsFacts DEF IInv, TypeOK
<1>2. ASSUME \/ Finish(h)
             \/ \E step \in Steps : Goto(h, step) \/ \E k \in Keys : Begin(h, step, k)
             \/ \E r : req' = [req EXCEPT ![h] = r]
             \/ req' = req
      PROVE  req'[Sweeper] = req[Sweeper]
  BY <1>1, <1>2 DEF Finish, Goto, Begin
<1>3. CASE Accept(h)
  BY <1>2, <1>3 DEF Accept, StartValidate, WriteResolve, FinishResolve, CancelResolve,
     ResolveSession, ManageDelete, UnlockRead, ReportLookup, OpenGet, GetExpired, Lock,
     SessionDelete, Steps
<1>4. CASE Disconnect(h)
  BY <1>2, <1>4 DEF Disconnect
<1>5. CASE \/ StartCreate(h) \/ StartFiles(h) \/ StartDir(h) \/ StartSession(h)
           \/ WriteSet(h) \/ WriteRollback(h) \/ Finalize(h) \/ CancelCheck(h)
           \/ UnlockFiles(h) \/ (\E t \in Tokens : UnlockPut(h, t)) \/ Delete(h)
  BY <1>2, <1>5 DEF StartCreate, StartFiles, StartDir, StartSession, WriteSet, WriteRollback,
     Finalize, CancelCheck, UnlockFiles, UnlockPut, Delete, DeleteCut, DeleteBlobs,
     DeleteBlobsFails, DeleteRow, Steps
<1>6. CASE \/ OpenClaim(h) \/ OpenClaimed(h) \/ OpenRow(h) \/ OpenBlob(h) \/ ServeEnd(h)
           \/ ReportBlock(h) \/ ReportCut(h) \/ ReportRecord(h)
  BY <1>2, <1>6 DEF OpenClaim, OpenClaimed, OpenRow, OpenBlob, ServeEnd, ReportBlock,
     ReportCut, ReportRecord, Steps
<1>7. CASE WriteFile(h) \/ WriteOpen(h) \/ WriteBlob(h)
  BY <1>1, <1>7 DEF WriteFile, WriteOpen, WriteBlob, Finish, Goto
<1>8. CASE SessionDeleteRead(h)
  BY <1>1, <1>8 DEF SessionDeleteRead, Finish
<1> QED
  BY <1>3, <1>4, <1>5, <1>6, <1>7, <1>8 DEF Proceed

\* A request leaves a row and its block alone, unless it deletes that share.
LEMMA RequestSpares ==
  ASSUME IInv, NEW h \in Handlers, Accept(h) \/ Proceed(h) \/ Disconnect(h),
         NEW k \in Keys, HasRow(k), drop[k].blocked, IdsUnique, ~ClientDeletes(k)
  PROVE  HasRow(k)' /\ drop'[k].blocked
<1>1. h \in Procs /\ drop \in [Keys -> Drop] /\ drop[k] \in Drop
  BY ProcsFacts DEF IInv, TypeOK
<1>2. CASE drop'[k] = drop[k]
  BY <1>2 DEF HasRow
<1>3. CASE \/ \E i \in Ids : drop'[k] = [drop[k] EXCEPT !.files = TRUE, !.fid = i,
                                                        !.received = 0]
           \/ \E b, c : drop'[k] = [drop[k] EXCEPT !.upload = b, !.given = c]
           \/ \E n : drop'[k] = [drop[k] EXCEPT !.received = n]
           \/ \E n : drop'[k] = [drop[k] EXCEPT !.downloads = n]
           \/ \E n, b : drop'[k] = [drop[k] EXCEPT !.onDisk = n, !.crowded = b]
           \/ \E b : drop'[k] = [drop[k] EXCEPT !.status = "ready", !.upload = FALSE,
                                                !.lapsed = b]
           \/ drop'[k] = [drop[k] EXCEPT !.blocked = TRUE]
  BY <1>1, <1>3 DEF HasRow, Drop
<1>4. CASE Accept(h) \/ Disconnect(h)
  BY <1>2, <1>4 DEF Accept, StartValidate, WriteResolve, FinishResolve, CancelResolve,
     ResolveSession, ManageDelete, UnlockRead, ReportLookup, OpenGet, GetExpired, Lock,
     SessionDelete, Disconnect, stored
<1>5. CASE StartCreate(h)
  <2>1. req[h].k # k
    BY <1>1, <1>5 DEF IInv, FreshOK, StartCreate, HasRow
  <2> QED
    BY <1>1, <1>2, <1>5, <2>1 DEF StartCreate
<1>6. CASE StartFiles(h)
  BY <1>2, <1>3, <1>6 DEF StartFiles
<1>7. CASE StartSession(h)
  BY <1>2, <1>3, <1>7 DEF StartSession
<1>8. CASE WriteSet(h) \/ ReportBlock(h)
  BY <1>2, <1>3, <1>8 DEF WriteSet, ReportBlock
<1>9. CASE Finalize(h)
  BY <1>2, <1>3, <1>9 DEF Finalize
<1>10. CASE OpenClaim(h)
  <2>1. drop' = drop \/ drop' = [drop EXCEPT ![req[h].k].downloads = @ + 1]
    BY <1>10 DEF OpenClaim
  <2>2. drop'[k] = drop[k] \/ drop'[k] = [drop[k] EXCEPT !.downloads = drop[k].downloads + 1]
    BY <1>1, <2>1
  <2> QED
    BY <1>2, <1>3, <2>2
<1>11. CASE WriteFile(h) \/ WriteOpen(h) \/ WriteBlob(h) \/ WriteRollback(h)
  <2>1. TypeOK /\ HoldOK /\ ~req[h].late
    BY <1>1, <1>11 DEF IInv, CutOffOK, At, WriteFile, WriteOpen, WriteBlob, WriteRollback
  <2>2. RowsSpared
    BY <1>1, <1>11, <2>1, WriteSteps
  <2> QED
    BY <1>2, <1>3, <2>2 DEF RowsSpared
<1>12. CASE DeleteRow(h)
  <2>1. /\ req[h].k \in Keys
        /\ req[h].k # k
        /\ drop[k].id # 0
    BY <1>1, <1>12 DEF DeleteRow, At, ClientDeletes, HasRow, IInv, HoldOK, HoldingSteps, EmptyOK
  <2>2. ~IsRow(k, RowId(h))
    BY <2>1 DEF IsRow, RowId, IdsUnique
  <2> QED
    BY <1>2, <1>12, <2>2 DEF DeleteRow
<1>13. CASE \/ StartDir(h) \/ CancelCheck(h) \/ UnlockFiles(h)
            \/ (\E t \in Tokens : UnlockPut(h, t)) \/ OpenClaimed(h) \/ OpenRow(h)
            \/ OpenBlob(h) \/ ServeEnd(h) \/ ReportCut(h) \/ ReportRecord(h)
            \/ SessionDeleteRead(h) \/ DeleteCut(h) \/ DeleteBlobs(h) \/ DeleteBlobsFails(h)
  BY <1>2, <1>13 DEF StartDir, CancelCheck, UnlockFiles, UnlockPut, OpenClaimed, OpenRow,
     OpenBlob, ServeEnd, ReportCut, ReportRecord, SessionDeleteRead, DeleteCut, DeleteBlobs,
     DeleteBlobsFails, stored
<1> QED
  BY <1>4, <1>5, <1>6, <1>7, <1>8, <1>9, <1>10, <1>11, <1>12, <1>13 DEF Proceed, Delete

\* Its bytes as well.
LEMMA RequestSparesBytes ==
  ASSUME NEW h \in Handlers, Accept(h) \/ Proceed(h) \/ Disconnect(h),
         NEW k \in Keys, ~ClientDeletes(k), k \in dir
  PROVE  k \in dir'
<1>1. CASE DeleteBlobs(h)
  BY <1>1 DEF DeleteBlobs, ClientDeletes, At
<1>2. CASE Accept(h) \/ Disconnect(h)
  BY <1>2 DEF Accept, StartValidate, WriteResolve, FinishResolve, CancelResolve,
     ResolveSession, ManageDelete, UnlockRead, ReportLookup, OpenGet, GetExpired, Lock,
     SessionDelete, Disconnect, stored
<1>3. CASE \/ StartCreate(h) \/ StartFiles(h) \/ StartDir(h) \/ StartSession(h)
           \/ WriteFile(h) \/ WriteOpen(h) \/ WriteBlob(h) \/ WriteRollback(h) \/ WriteSet(h)
           \/ Finalize(h) \/ CancelCheck(h)
           \/ UnlockFiles(h) \/ \E t \in Tokens : UnlockPut(h, t)
  BY <1>3 DEF StartCreate, StartFiles, StartDir, StartSession, WriteFile, WriteOpen,
     WriteBlob, WriteRollback, WriteSet, Finalize, CancelCheck, UnlockFiles, UnlockPut, stored
<1>4. CASE \/ OpenClaim(h) \/ OpenClaimed(h) \/ OpenRow(h) \/ OpenBlob(h) \/ ServeEnd(h)
           \/ ReportBlock(h) \/ ReportCut(h) \/ ReportRecord(h)
           \/ SessionDeleteRead(h) \/ DeleteCut(h) \/ DeleteBlobsFails(h) \/ DeleteRow(h)
  BY <1>4 DEF OpenClaim, OpenClaimed, OpenRow, OpenBlob, ServeEnd, ReportBlock, ReportCut,
     ReportRecord, SessionDeleteRead, DeleteCut, DeleteBlobsFails, DeleteRow, stored
<1> QED
  BY <1>1, <1>2, <1>3, <1>4 DEF Proceed, Delete

\* Blocking holds a share for review, for any number of shares, requests and
\* restarts: its row, its block and its bytes stay until its own sender or
\* recipient deletes it, unless Sweep had listed it before the block or SQLite
\* has given one row id twice.
THEOREM BlockedIsHeld == Spec => BlockedIsKept
<1>1. ASSUME IInv, [Next]_vars, NEW k \in Keys, Held(k), IdsUnique, ~ClientDeletes(k)
      PROVE  Held(k)' /\ (k \in dir => k \in dir')
  <2>1. ASSUME NEW h \in Handlers, Accept(h) \/ Proceed(h) \/ Disconnect(h)
        PROVE  Held(k)' /\ (k \in dir => k \in dir')
    <3>1. HasRow(k)' /\ drop'[k].blocked
      BY <1>1, <2>1, RequestSpares DEF Held
    <3>2. reap' = reap /\ req'[Sweeper] = req[Sweeper]
      BY <1>1, <2>1, SweeperStill
    <3>3. k \in dir => k \in dir'
      BY <1>1, <2>1, RequestSparesBytes
    <3> QED
      BY <1>1, <3>1, <3>2, <3>3 DEF Held
  <2>2. CASE Sweep
    BY <1>1, <2>2, SweepStepSpares, SweepStepSparesBytes
  <2>3. CASE Restart
    <3>1. req'[Sweeper].k = Nobody /\ reap' = {} /\ drop' = drop /\ dir' = dir
      BY <2>3, ProcsFacts DEF Restart, Idle, stored
    <3> QED
      BY <1>1, <3>1, NobodyAssumption DEF Held, HasRow
  <2>4. CASE Tick \/ UNCHANGED vars
    BY <1>1, <2>4 DEF Tick, vars, stored, Held, HasRow
  <2> QED
    BY <1>1, <2>1, <2>2, <2>3, <2>4 DEF Next
<1>2. IInv /\ [Next]_vars =>
        [\A k \in Keys : Held(k) /\ IdsUnique /\ ~ClientDeletes(k)
                           => Held(k)' /\ (k \in dir => k \in dir')]_vars
  BY <1>1
<1> QED
  BY <1>2, Invariance, PTL DEF Spec, BlockedIsKept

=============================================================================
