---------------------------- MODULE PermitsProofs ---------------------------
(***************************************************************************)
(* The proof that Shares implements Permits, from the invariant of         *)
(* SharesProofs: every step of a service call is a step of Permits or      *)
(* changes nothing there.                                                  *)
(***************************************************************************)
EXTENDS SharesPermits, SharesProofs

\* A step of Permits, or a stutter.
PStep == P!Next \/ UNCHANGED P!vars

\* Steps that grant nothing, revoke nothing and move one process, which leaves
\* or stays where it is.
LEMMA Quiet ==
  ASSUME IInv, NEW p \in Procs, NEW r \in Request,
         req' = [req EXCEPT ![p] = r],
         Visit(r) = Visit(req[p]) \/ Visit(r) = P!Away,
         \A k \in Keys : drop'[k].maxDownloads = drop[k].maxDownloads,
         Holders' = Holders, UNCHANGED cutOff
  PROVE  PStep
<1>1. Allowances' = Allowances
  BY DEF Allowances
<1>2. /\ req \in [Procs -> Request]
      /\ \A q \in Procs : req'[q] = IF q = p THEN r ELSE req[q]
  BY DEF IInv, TypeOK
<1>3. \A h \in Handlers : Visits'[h] = IF h = p THEN Visit(r) ELSE Visits[h]
  BY <1>2, ProcsFacts DEF Visits
<1>4. CASE p \in Handlers /\ Visit(r) = P!Away
  <2>1. Visits' = [Visits EXCEPT ![p] = P!Away]
    BY <1>3, <1>4 DEF Visits
  <2> QED
    BY <1>1, <1>4, <2>1 DEF PStep, P!Next, P!Leave
<1>5. CASE p \notin Handlers \/ Visit(r) = Visit(req[p])
  <2>1. \A h \in Handlers : Visits'[h] = Visits[h]
    BY <1>3, <1>5 DEF Visits
  <2>2. Visits' = Visits
    BY <2>1 DEF Visits
  <2> QED
    BY <1>1, <2>2 DEF PStep, P!vars
<1> QED
  BY <1>4, <1>5

\* Steps that leave the requests alone too.
LEMMA NoVisit ==
  ASSUME UNCHANGED <<drop, sess, req, cutOff>>
  PROVE  PStep
  BY DEF PStep, P!vars, Allowances, Holders, Claimed, Visits

\* What keeps the holders: no session's claim or share changes.
LEMMA SameSessions ==
  ASSUME UNCHANGED sess
  PROVE  Holders' = Holders
  BY DEF Holders, Claimed

\* A service call begins.
LEMMA BeginQuiet ==
  ASSUME IInv, NEW p \in Procs, NEW step \in Steps, NEW k \in Keys,
         Begin(p, step, k), step \notin OpenSteps,
         UNCHANGED <<drop, sess, cutOff>>
  PROVE  PStep
<1>1. PICK r \in Request : req' = [req EXCEPT ![p] = r] /\ r.pc = step
  BY BeginFacts DEF IInv
<1>2. Visit(r) = P!Away
  BY <1>1 DEF Visit, DoorSteps, OpenSteps, P!Away
<1> QED
  BY <1>1, <1>2, Quiet, SameSessions

\* A service call returns.
LEMMA FinishQuiet ==
  ASSUME IInv, NEW p \in Procs, Finish(p), DropStep, UNCHANGED <<sess, cutOff>>
  PROVE  PStep
<1>1. PICK r \in Request : req' = [req EXCEPT ![p] = r] /\ r.pc \in {"idle", "sweep_next"}
  BY FinishFacts DEF IInv
<1>2. Visit(r) = P!Away
  BY <1>1 DEF Visit, DoorSteps, P!Away
<1> QED
  BY <1>1, <1>2, Quiet, SameSessions DEF DropStep, Keeps

\* A service call goes on, at the door or away from it.
LEMMA GotoQuiet ==
  ASSUME IInv, NEW p \in Procs, NEW step \in Steps, Goto(p, step),
         step # "serving",
         step \in DoorSteps => req[p].pc \in DoorSteps,
         \A k \in Keys : drop'[k].maxDownloads = drop[k].maxDownloads,
         Holders' = Holders, UNCHANGED cutOff
  PROVE  PStep
<1>1. PICK r \in Request : /\ req' = [req EXCEPT ![p] = r]
                           /\ r.pc = step /\ r.k = req[p].k
                           /\ r.t = req[p].t /\ r.late = req[p].late
  BY GotoFacts DEF IInv
<1>2. Visit(r) = Visit(req[p]) \/ Visit(r) = P!Away
  BY <1>1 DEF Visit, DoorSteps, P!Away
<1> QED
  BY <1>1, <1>2, Quiet

-----------------------------------------------------------------------------
\* CreateDrop offers the share.
LEMMA StartCreateOffers ==
  ASSUME IInv, NEW h \in Handlers, StartCreate(h)
  PROVE  PStep
<1>1. h \in Procs /\ TypeOK
  BY ProcsFacts DEF IInv
<1>2. PICK n \in 1..MaxDownloads :
        \E i \in Ids, del \in DeletePermissions :
          drop' = [drop EXCEPT ![req[h].k] =
                     [NoDrop EXCEPT !.status = "pending", !.id = i,
                                    !.createdAt = now,
                                    !.expiresAt = now + Retention,
                                    !.maxDownloads = n,
                                    !.deleteAllowed = del]]
  BY DEF StartCreate
<1> DEFINE k == req[h].k
<1>3. k \in Keys /\ drop[k].maxDownloads = 0
  BY <1>1 DEF StartCreate, At, IInv, FreshOK, EmptyOK, NoDrop
<1>4. Allowances' = [Allowances EXCEPT ![k] = n]
  <2>1. drop'[k].maxDownloads = n /\ \A j \in Keys : j # k => drop'[j] = drop[j]
    BY <1>1, <1>2, <1>3 DEF TypeOK, NoDrop
  <2> QED
    BY <1>3, <2>1 DEF Allowances
<1>5. Holders' = Holders /\ UNCHANGED cutOff
  BY SameSessions DEF StartCreate
<1>6. Visits' = Visits
  <2>1. PICK r \in Request : req' = [req EXCEPT ![h] = r] /\ r.pc = "start_files"
    BY <1>1, GotoFacts DEF StartCreate, Steps
  <2>2. Visit(r) = Visit(req[h])
    BY <2>1 DEF StartCreate, At, Visit, DoorSteps
  <2> QED
    BY <1>1, <2>1, <2>2, ProcsFacts DEF Visits, TypeOK
<1> QED
  BY <1>3, <1>4, <1>5, <1>6 DEF PStep, P!Next, P!Offer, Allowances

\* OpenFile's get admits the request, unless the share is cut off.
LEMMA OpenGetEnters ==
  ASSUME IInv, NEW h \in Handlers, NEW t \in Tokens, OpenGet(h, t)
  PROVE  PStep
<1> DEFINE k == sess[t].key
           r == [Idle EXCEPT !.pc = "open_claim", !.k = k, !.t = t,
                             !.late = k \in cutOff]
<1>1. h \in Procs /\ TypeOK /\ k \in Keys
  BY ProcsFacts DEF IInv, SessOK, OpenGet
<1>2. /\ req' = [req EXCEPT ![h] = r]
      /\ req[h].pc = "idle"
      /\ UNCHANGED <<drop, sess, cutOff>>
  BY DEF OpenGet, Arrives, At, stored
<1>0. (k \in cutOff) \in BOOLEAN
  OBVIOUS
<1>3. /\ r \in Request /\ r.pc = "open_claim" /\ r.k = k /\ r.t = t
      /\ r.late => k \in cutOff
      /\ k \in cutOff => r.late
  BY <1>0, <1>1 DEF Idle, Request, Steps
<1>4. CASE k \in cutOff
  <2>1. Visit(r) = P!Away
    BY <1>3, <1>4 DEF Visit, DoorSteps, P!Away
  <2> QED
    BY <1>1, <1>2, <1>3, <2>1, Quiet, SameSessions
<1>5. CASE k \notin cutOff
  <2>1. Visit(r) = [place |-> "door", key |-> k, token |-> t]
    BY <1>3, <1>5 DEF Visit, DoorSteps
  <2>2. Visits[h] = P!Away
    BY <1>2 DEF Visits, Visit, DoorSteps, P!Away
  <2>3. Visits' = [Visits EXCEPT ![h] = [place |-> "door", key |-> k, token |-> t]]
    BY <1>1, <1>2, <2>1, ProcsFacts DEF Visits, TypeOK
  <2>4. UNCHANGED <<Allowances, Holders, cutOff>>
    BY <1>2, SameSessions DEF Allowances
  <2> QED
    BY <1>1, <1>5, <2>2, <2>3, <2>4 DEF PStep, P!Next, P!Enter
<1> QED
  BY <1>4, <1>5

\* sessionTable.put makes a session that holds nothing.
LEMMA UnlockPutQuiet ==
  ASSUME IInv, NEW h \in Handlers, NEW t \in Tokens, UnlockPut(h, t)
  PROVE  PStep
<1>1. h \in Procs /\ TypeOK
  BY ProcsFacts DEF IInv
<1>2. /\ sess[t].key = Nobody
      /\ sess'[t].claimed = FALSE
      /\ \A u \in Tokens : u # t => sess'[u] = sess[u]
  BY <1>1 DEF UnlockPut, TypeOK, NoSession
<1>3. \A k \in Keys : Claimed(k)' = Claimed(k)
  BY <1>2, NobodyAssumption DEF Claimed
<1>4. Holders' = Holders
  BY <1>3 DEF Holders
<1>5. PICK r \in Request : req' = [req EXCEPT ![h] = r] /\ r.pc \in {"idle", "sweep_next"}
  BY <1>1, FinishFacts DEF UnlockPut
<1>6. Visit(r) = P!Away
  BY <1>5 DEF Visit, DoorSteps, P!Away
<1> QED
  BY <1>1, <1>4, <1>5, <1>6, Quiet DEF UnlockPut, stored

\* ClaimDownload's UPDATE charges the session: not yet a grant.
LEMMA OpenClaimQuiet ==
  ASSUME IInv, NEW h \in Handlers, OpenClaim(h)
  PROVE  PStep
<1> DEFINE k == req[h].k
           t == req[h].t
<1>1. /\ h \in Procs /\ TypeOK
      /\ k \in Keys /\ t \in Tokens
      /\ req[h].pc = "open_claim"
  BY ProcsFacts DEF IInv, OpenClaim, At, HoldOK, HoldingSteps, OpenOK, OpenSteps
<1>2. CASE Finish(h) /\ UNCHANGED <<drop, sess>>
  BY <1>1, <1>2, FinishQuiet, SameDrop DEF OpenClaim
<1>3. CASE Goto(h, "open_row") /\ UNCHANGED <<drop, sess>>
  BY <1>1, <1>3, GotoQuiet, SameSessions DEF OpenClaim, Steps, DoorSteps
<1>4. CASE /\ drop' = [drop EXCEPT ![k].downloads = @ + 1]
           /\ sess' = [sess EXCEPT ![t].charged = TRUE]
           /\ Goto(h, "open_claimed")
  <2>1. \A j \in Keys : drop'[j].maxDownloads = drop[j].maxDownloads
    BY <1>1, <1>4 DEF TypeOK, Drop
  <2>2. \A u \in Tokens : sess'[u].key = sess[u].key /\ sess'[u].claimed = sess[u].claimed
    BY <1>1, <1>4 DEF TypeOK, Session
  <2>3. Holders' = Holders
    BY <2>2 DEF Holders, Claimed
  <2> QED
    BY <1>1, <1>4, <2>1, <2>3, GotoQuiet DEF OpenClaim, Steps, DoorSteps
<1> QED
  BY <1>2, <1>3, <1>4 DEF OpenClaim

\* claimOnce marks the session as claimed: the grant.  The session is among the
\* charged ones, which downloads counts, and was not yet a holder.
LEMMA OpenClaimedGrants ==
  ASSUME IInv, NEW h \in Handlers, OpenClaimed(h)
  PROVE  PStep
<1>0. PICK k \in Keys, t \in Tokens : k = req[h].k /\ t = req[h].t
  BY ProcsFacts DEF IInv, OpenClaimed, At, HoldOK, HoldingSteps, OpenOK, OpenSteps
<1>1. /\ h \in Procs /\ TypeOK /\ req[h].pc = "open_claimed"
      /\ sess[t].key = k
      /\ k \notin cutOff
      /\ sess[t].charged
      /\ UNCHANGED <<drop, cutOff>>
  BY <1>0, ProcsFacts DEF IInv, OpenClaimed, At, OpenOK, OpenSteps,
     CutOffOK, ClaimOK, stored
<1>2. CASE Finish(h) /\ UNCHANGED sess
  BY <1>1, <1>2, FinishQuiet, SameDrop
<1>3. CASE sess' = [sess EXCEPT ![t].claimed = TRUE] /\ Goto(h, "open_row")
  <2>1. /\ \A u \in Tokens : sess'[u].key = sess[u].key
        /\ sess'[t].claimed
        /\ \A u \in Tokens : u # t => sess'[u].claimed = sess[u].claimed
    BY <1>1, <1>3 DEF TypeOK, Session
  <2>2. CASE sess[t].claimed
    <3>1. \A u \in Tokens : sess'[u].claimed = sess[u].claimed
      BY <1>1, <1>3, <2>2 DEF TypeOK, Session
    <3>2. Holders' = Holders
      BY <2>1, <3>1 DEF Holders, Claimed
    <3> QED
      BY <1>1, <1>3, <3>2, GotoQuiet DEF Steps, DoorSteps
  <2>3. CASE ~sess[t].claimed
    <3>1. Claimed(k)' = Claimed(k) \cup {t}
      BY <1>1, <2>1 DEF Claimed
    <3>2. \A j \in Keys : j # k => Claimed(j)' = Claimed(j)
      BY <1>1, <2>1 DEF Claimed
    <3>3. Holders' = [Holders EXCEPT ![k] = @ \cup {t}]
      BY <1>1, <3>1, <3>2 DEF Holders
    <3>4. Cardinality(Claimed(k)) < drop[k].maxDownloads
      <4>1. IsFiniteSet(Charged(k)) /\ IsFiniteSet(Claimed(k))
        BY TokensAssumption, FS_Subset DEF Charged, Claimed
      <4>2. /\ Claimed(k) \cup {t} \subseteq Charged(k)
            /\ t \notin Claimed(k)
        BY <1>1, <2>3 DEF IInv, ClaimOK, Claimed, Charged
      <4>3. Cardinality(Claimed(k) \cup {t}) = Cardinality(Claimed(k)) + 1
        BY <4>1, <4>2, FS_AddElement
      <4>4. Cardinality(Claimed(k) \cup {t}) <= Cardinality(Charged(k))
        BY <4>1, <4>2, FS_Subset
      <4>5. /\ Cardinality(Claimed(k)) \in Nat /\ Cardinality(Charged(k)) \in Nat
            /\ drop[k].downloads \in Nat /\ drop[k].maxDownloads \in Nat
        BY <1>1, <4>1, FS_CardinalityType DEF TypeOK, Drop
      <4>6. /\ Cardinality(Charged(k)) <= drop[k].downloads
            /\ drop[k].downloads <= drop[k].maxDownloads
        BY <1>1 DEF IInv, CountOK
      <4> QED
        BY <4>3, <4>4, <4>5, <4>6
    <3>5. Visits' = Visits
      <4>1. PICK r \in Request : /\ req' = [req EXCEPT ![h] = r]
                                 /\ r.pc = "open_row" /\ r.k = k
                                 /\ r.t = t /\ r.late = req[h].late
        BY <1>0, <1>1, <1>3, GotoFacts DEF Steps
      <4>2. Visit(r) = Visit(req[h])
        BY <1>0, <1>1, <4>1 DEF Visit, DoorSteps
      <4> QED
        BY <1>1, <4>1, <4>2, ProcsFacts DEF Visits, TypeOK
    <3>6. Allowances' = Allowances
      BY <1>1 DEF Allowances
    <3>7. Allowances[k] = drop[k].maxDownloads /\ Holders[k] = Claimed(k)
      BY <1>1 DEF Allowances, Holders
    <3>9. Cardinality(Holders[k]) < Allowances[k]
      BY <3>4, <3>7
    <3>10. k \notin cutOff /\ cutOff' = cutOff
      BY <1>1
    <3>11. \E v \in Handlers : Visits[v] = [place |-> "door", key |-> k, token |-> t]
      <4>1. ~req[h].late
        BY <1>1 DEF IInv, CutOffOK, At
      <4>2. Visits[h] = [place |-> "door", key |-> k, token |-> t]
        BY <1>0, <1>1, <4>1 DEF Visits, Visit, DoorSteps
      <4> QED
        BY <4>2
    <3>8. P!Grant(k, t)
      BY <3>3, <3>5, <3>6, <3>9, <3>10, <3>11 DEF P!Grant, P!Cardinality, Cardinality
    <3> QED
      BY <3>8 DEF PStep, P!Next
  <2> QED
    BY <2>2, <2>3
<1> QED
  BY <1>0, <1>2, <1>3 DEF OpenClaimed

\* os.Open of the blob: the request is served, with a session that has claimed.
LEMMA OpenBlobServes ==
  ASSUME IInv, NEW h \in Handlers, OpenBlob(h)
  PROVE  PStep
<1> DEFINE k == req[h].k
           t == req[h].t
<1>1. /\ h \in Procs /\ TypeOK /\ req[h].pc = "open_blob"
      /\ k \in Keys /\ t \in Tokens /\ sess[t].key = k
      /\ sess[t].claimed /\ ~req[h].late
      /\ UNCHANGED <<drop, sess, cutOff>>
  BY ProcsFacts DEF IInv, OpenBlob, At, HoldOK, HoldingSteps, OpenOK, OpenSteps,
     CutOffOK, ClaimOK, ServingSteps, stored
<1>2. CASE Finish(h)
  BY <1>1, <1>2, FinishQuiet, SameDrop
<1>3. CASE Goto(h, "serving")
  <2>1. PICK r \in Request : /\ req' = [req EXCEPT ![h] = r]
                             /\ r.pc = "serving" /\ r.k = k /\ r.t = t
    BY <1>1, <1>3, GotoFacts DEF Steps
  <2>2. /\ Visits[h] = [place |-> "door", key |-> k, token |-> t]
        /\ Visit(r) = [place |-> "inside", key |-> k, token |-> t]
    BY <1>1, <2>1 DEF Visits, Visit, DoorSteps
  <2>3. Visits' = [Visits EXCEPT ![h].place = "inside"]
    <3>1. [Visits[h] EXCEPT !.place = "inside"] = Visit(r)
      BY <2>2
    <3>2. Visits' = [Visits EXCEPT ![h] = Visit(r)]
      BY <1>1, <2>1, ProcsFacts DEF Visits, TypeOK
    <3> QED
      BY <3>1, <3>2
  <2>4. UNCHANGED <<Allowances, Holders, cutOff>>
    BY <1>1, SameSessions DEF Allowances
  <2>5. t \in Holders[k]
    BY <1>1 DEF Holders, Claimed
  <2>6. Visits[h].place = "door" /\ Visits[h].key = k /\ Visits[h].token = t
    BY <2>2
  <2>7. P!Serve(h)
    BY <2>3, <2>4, <2>5, <2>6 DEF P!Serve
  <2> QED
    BY <2>7 DEF PStep, P!Next
<1> QED
  BY <1>2, <1>3 DEF OpenBlob

\* deleteByDrop after BlockDrop: the share is revoked.
LEMMA ReportCutRevokes ==
  ASSUME IInv, NEW h \in Handlers, ReportCut(h)
  PROVE  PStep
<1> DEFINE ks == {k \in Keys : IsRow(k, RowId(h)) /\ drop[k].blocked}
<1>1. /\ h \in Procs /\ TypeOK /\ req[h].pc = "rep_cut"
      /\ cutOff' = cutOff \cup ks
      /\ UNCHANGED <<drop, sess>>
  BY ProcsFacts DEF IInv, ReportCut, At, stored
<1>2. PICK r \in Request : req' = [req EXCEPT ![h] = r] /\ r.pc = "rep_record"
  BY <1>1, GotoFacts DEF ReportCut, Steps
<1>3. Visit(r) = Visit(req[h])
  BY <1>1, <1>2 DEF Visit, DoorSteps
<1>4. Visits' = Visits
  BY <1>1, <1>2, <1>3, ProcsFacts DEF Visits, TypeOK
<1>5. UNCHANGED <<Allowances, Holders>>
  BY <1>1, SameSessions DEF Allowances
<1>6. ks \in SUBSET Keys
  OBVIOUS
<1> QED
  BY <1>1, <1>4, <1>5, <1>6 DEF PStep, P!Next, P!Revoke

-----------------------------------------------------------------------------
\* A request arrives.
LEMMA AcceptSim ==
  ASSUME IInv, NEW h \in Handlers, Accept(h)
  PROVE  PStep
<1>1. h \in Procs /\ TypeOK
  BY ProcsFacts DEF IInv
<1>2. ASSUME NEW k \in Keys,
             \/ StartValidate(h, k) \/ WriteResolve(h, k) \/ FinishResolve(h, k)
             \/ CancelResolve(h, k) \/ ManageDelete(h, k) \/ UnlockRead(h, k)
      PROVE  PStep
  <2>1. PICK step \in Steps \ OpenSteps :
          Begin(h, step, k) /\ UNCHANGED <<drop, sess, cutOff>>
    BY <1>2 DEF StartValidate, WriteResolve, FinishResolve, CancelResolve,
       ResolveSession, ManageDelete, UnlockRead, stored, Steps, OpenSteps
  <2> QED
    BY <1>1, <2>1, BeginQuiet
<1>3. ASSUME NEW k \in Keys, ReportLookup(h, k)
      PROVE  PStep
  <2>1. CASE Begin(h, "rep_block", k)
    BY <1>1, <1>3, <2>1, BeginQuiet DEF ReportLookup, Steps, OpenSteps
  <2>2. CASE UNCHANGED req
    BY <1>3, <2>2, NoVisit DEF ReportLookup
  <2> QED
    BY <1>3, <2>1, <2>2 DEF ReportLookup
<1>4. ASSUME NEW t \in Tokens, GetExpired(h, t) \/ Lock(h, t)
      PROVE  PStep
  BY <1>4, NoVisit DEF GetExpired, Lock, stored
<1>5. ASSUME NEW t \in Tokens, SessionDelete(h, t)
      PROVE  PStep
  <2> DEFINE r == [Idle EXCEPT !.pc = "sdel_read", !.t = t]
  <2>1. r \in Request /\ r.pc = "sdel_read"
    BY DEF Idle, Request, Steps
  <2>2. Visit(r) = P!Away
    BY <2>1 DEF Visit, DoorSteps, P!Away
  <2> QED
    BY <1>1, <1>5, <2>1, <2>2, Quiet, SameSessions DEF SessionDelete, stored
<1> QED
  BY <1>2, <1>3, <1>4, <1>5, OpenGetEnters DEF Accept

\* DeleteDrop.
LEMMA DeleteSim ==
  ASSUME IInv, NEW p \in Procs, Delete(p)
  PROVE  PStep
<1>1. TypeOK
  BY DEF IInv
<1>2. CASE DeleteCut(p) \/ DeleteBlobs(p)
  <2>1. PICK step \in {"del_blobs", "del_row"} :
          Goto(p, step) /\ UNCHANGED <<drop, sess, cutOff>>
    BY <1>2 DEF DeleteCut, DeleteBlobs, stored
  <2> QED
    BY <2>1, GotoQuiet, SameSessions DEF Steps, DoorSteps
<1>3. CASE DeleteBlobsFails(p)
  BY <1>1, <1>3, FinishQuiet, SameDrop DEF DeleteBlobsFails, stored
<1>4. CASE DeleteRow(p)
  BY <1>4, FinishQuiet, RowUpdates DEF DeleteRow
<1> QED
  BY <1>2, <1>3, <1>4 DEF Delete

\* A request goes on.
LEMMA ProceedSim ==
  ASSUME IInv, NEW h \in Handlers, Proceed(h)
  PROVE  PStep
<1>1. h \in Procs /\ TypeOK
  BY ProcsFacts DEF IInv
<1>2. CASE StartSession(h) \/ WriteSet(h) \/ Finalize(h)
  BY <1>1, <1>2, RowUpdates, FinishQuiet DEF StartSession, WriteSet, Finalize
<1>3. CASE StartFiles(h) \/ ReportBlock(h)
  <2>1. DropStep
    BY <1>1, <1>3, RowUpdates
  <2>2. CASE Finish(h)
    BY <1>1, <1>3, <2>1, <2>2, FinishQuiet DEF StartFiles, ReportBlock
  <2>3. ASSUME NEW step \in {"start_dir", "rep_cut"}, Goto(h, step)
        PROVE  PStep
    <3>1. \A k \in Keys : drop'[k].maxDownloads = drop[k].maxDownloads
      BY <2>1 DEF DropStep, Keeps
    <3>2. UNCHANGED <<sess, cutOff>>
      BY <1>3 DEF StartFiles, ReportBlock
    <3> QED
      BY <1>1, <2>3, <3>1, <3>2, GotoQuiet, SameSessions DEF Steps, DoorSteps
  <2> QED
    BY <1>3, <2>2, <2>3 DEF StartFiles, ReportBlock
<1>8. CASE WriteFile(h) \/ WriteOpen(h) \/ WriteBlob(h) \/ WriteRollback(h)
  <2>1. ~req[h].late /\ HoldOK
    BY <1>1, <1>8 DEF IInv, CutOffOK, At, WriteFile, WriteOpen, WriteBlob, WriteRollback
  <2>2. /\ RowsSpared
        /\ \E r \in Request : StillWrites(h, r)
        /\ UNCHANGED <<sess, cutOff>>
    BY <1>1, <1>8, <2>1, WriteSteps
  <2>3. PICK r \in Request : StillWrites(h, r)
    BY <2>2
  <2>4. Visit(r) = P!Away
    BY <2>3 DEF StillWrites, Visit, DoorSteps, P!Away
  <2>5. ASSUME NEW k \in Keys PROVE drop'[k].maxDownloads = drop[k].maxDownloads
    <3>1. drop[k] \in Drop
      BY <1>1 DEF TypeOK
    <3>2. drop'[k] # drop[k] => \E n \in Nat, b \in BOOLEAN :
            drop'[k] = [drop[k] EXCEPT !.onDisk = n, !.crowded = b]
      BY <2>2 DEF RowsSpared
    <3> QED
      BY <3>1, <3>2 DEF Drop
  <2> QED
    BY <1>1, <2>2, <2>3, <2>4, <2>5, Quiet, SameSessions DEF StillWrites
<1>4. CASE ServeEnd(h) \/ ReportRecord(h)
  BY <1>1, <1>4, FinishQuiet, SameDrop DEF ServeEnd, ReportRecord, stored
<1>5. CASE StartDir(h) \/ UnlockFiles(h) \/ OpenRow(h)
  <2>1. UNCHANGED <<drop, sess, cutOff>>
    BY <1>5 DEF StartDir, UnlockFiles, OpenRow, stored
  <2>2. CASE Finish(h)
    BY <1>1, <2>1, <2>2, FinishQuiet, SameDrop
  <2>3. ASSUME NEW step \in {"start_session", "unlock_put"}, Goto(h, step)
        PROVE  PStep
    BY <1>1, <2>1, <2>3, GotoQuiet, SameSessions DEF Steps, DoorSteps
  <2>4. CASE OpenRow(h) /\ Goto(h, "open_blob")
    BY <1>1, <2>1, <2>4, GotoQuiet, SameSessions DEF Steps, DoorSteps, OpenRow, At
  <2> QED
    BY <1>5, <2>2, <2>3, <2>4 DEF StartDir, UnlockFiles, OpenRow
<1>6. CASE CancelCheck(h)
  <2>1. CASE Finish(h)
    BY <1>1, <1>6, <2>1, FinishQuiet, SameDrop DEF CancelCheck, stored
  <2>2. ASSUME NEW k \in Keys, Begin(h, "del_cut", k)
        PROVE  PStep
    BY <1>1, <1>6, <2>2, BeginQuiet DEF CancelCheck, stored, Steps, OpenSteps
  <2> QED
    BY <1>6, <2>1, <2>2 DEF CancelCheck
<1>7. CASE SessionDeleteRead(h)
  <2>1. CASE Finish(h)
    BY <1>1, <1>7, <2>1, FinishQuiet, SameDrop DEF SessionDeleteRead, stored
  <2>2. ASSUME NEW k \in Keys,
               req' = [req EXCEPT ![h].pc = "del_cut", ![h].k = k]
        PROVE  PStep
    <3> DEFINE r == [req[h] EXCEPT !.pc = "del_cut", !.k = k]
    <3>1. req' = [req EXCEPT ![h] = r]
      BY <1>1, <2>2 DEF TypeOK
    <3>2. r \in Request /\ r.pc = "del_cut"
      BY <1>1 DEF TypeOK, Request, Steps
    <3>3. Visit(r) = P!Away
      BY <3>2 DEF Visit, DoorSteps, P!Away
    <3> QED
      BY <1>1, <1>7, <3>1, <3>2, <3>3, Quiet, SameSessions DEF SessionDeleteRead, stored
  <2> QED
    BY <1>7, <2>1, <2>2 DEF SessionDeleteRead
<1> QED
  BY <1>1, <1>2, <1>3, <1>4, <1>5, <1>6, <1>7, <1>8, StartCreateOffers, UnlockPutQuiet,
     OpenClaimQuiet, OpenClaimedGrants, OpenBlobServes, ReportCutRevokes, DeleteSim
     DEF Proceed

\* The sweep is no visitor.
LEMMA SweepSim ==
  ASSUME IInv, Sweep
  PROVE  PStep
<1>1. CASE SweepSessions \/ SweepList \/ SweepNext
  <2>1. /\ UNCHANGED <<drop, sess, cutOff>>
        /\ \A h \in Handlers : req'[h] = req[h]
    BY <1>1, ProcsFacts DEF SweepSessions, SweepList, SweepNext, Finish, Begin, stored,
       IInv, TypeOK
  <2>2. Visits' = Visits
    BY <2>1 DEF Visits
  <2> QED
    BY <2>1, <2>2, SameSessions DEF PStep, P!vars, Allowances
<1> QED
  BY <1>1, DeleteSim, ProcsFacts DEF Sweep

\* Disconnections, restarts and time.
LEMMA EnvironmentSim ==
  ASSUME IInv, (\E h \in Handlers : Disconnect(h)) \/ Restart \/ Tick
  PROVE  PStep
<1>1. ASSUME NEW h \in Handlers, Disconnect(h)
      PROVE  PStep
  BY <1>1, FinishQuiet, SameDrop, ProcsFacts DEF Disconnect, stored, IInv
<1>2. CASE Restart
  <2>1. UNCHANGED <<Allowances, Holders, cutOff>>
    BY <1>2, SameSessions DEF Restart, stored, Allowances
  <2>2. \A h \in Handlers : Visit(req'[h]) = P!Away
    BY <1>2, ProcsFacts DEF Restart, Idle, Visit, DoorSteps, P!Away
  <2>3. Visits' = [h \in Handlers |-> P!Away]
    BY <2>2 DEF Visits
  <2> QED
    BY <2>1, <2>3 DEF PStep, P!Next, P!Clear
<1>3. CASE Tick
  BY <1>3, NoVisit DEF Tick, stored
<1> QED
  BY <1>1, <1>2, <1>3

\* Shares implements Permits, for any number of shares, sessions, requests and
\* restarts: claimOnce, ClaimDownload, OpenFile and Report, however they
\* interleave with everything else, hand out no more permits than the sender
\* allowed, serve only holders, and admit nobody once a share is cut off.
THEOREM SharesImplementPermits == Spec => ImplementsPermits
<1>1. Init => P!Init
  <2> SUFFICES ASSUME Init PROVE P!Init
    OBVIOUS
  <2>1. Allowances = [k \in Keys |-> 0] /\ cutOff = {}
    BY DEF Init, Allowances, NoDrop
  <2>2. Holders = [k \in Keys |-> {}]
    BY DEF Init, Holders, Claimed, NoSession
  <2>3. \A h \in Handlers : Visit(req[h]) = P!Away
    BY ProcsFacts DEF Init, Idle, Visit, DoorSteps, P!Away
  <2>4. Visits = [h \in Handlers |-> P!Away]
    BY <2>3 DEF Visits
  <2> QED
    BY <2>1, <2>2, <2>4 DEF P!Init
<1>2. IInv /\ [Next]_vars => [P!Next]_P!vars
  <2> SUFFICES ASSUME IInv, [Next]_vars PROVE PStep
    BY DEF PStep
  <2>1. CASE UNCHANGED vars
    BY <2>1, NoVisit DEF vars
  <2> QED
    BY <2>1, AcceptSim, ProceedSim, SweepSim, EnvironmentSim DEF Next
<1> QED
  BY <1>1, <1>2, Invariance, PTL DEF Spec, P!Spec, ImplementsPermits

=============================================================================
