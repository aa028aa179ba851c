---------------------------- MODULE SharesPermits ---------------------------
(***************************************************************************)
(* Shares implements Permits: a claimed session is a holder, a share that  *)
(* Report has blocked and whose sessions it has removed is revoked, and a  *)
(* request inside OpenFile is a visitor.                                   *)
(***************************************************************************)
EXTENDS Shares

\* What a request is to Permits.  An OpenFile that began after the cut-off is
\* not let in: it counts as away, unless it came to serve.
DoorSteps == {"open_claim", "open_claimed", "open_row", "open_blob"}

Visit(r) ==
  IF r.pc = "serving"
  THEN [place |-> "inside", key |-> r.k, token |-> r.t]
  ELSE IF r.pc \in DoorSteps /\ ~r.late
  THEN [place |-> "door", key |-> r.k, token |-> r.t]
  ELSE [place |-> "away", key |-> Nobody, token |-> Nobody]

Allowances == [k \in Keys |-> drop[k].maxDownloads]
Holders == [k \in Keys |-> Claimed(k)]
Visits == [h \in Handlers |-> Visit(req[h])]

P == INSTANCE Permits WITH
       Visitors <- Handlers, MaxAllowance <- MaxDownloads, None <- Nobody,
       allowance <- Allowances, holders <- Holders, revoked <- cutOff,
       visit <- Visits

\* Whatever its requests, their disconnections, the sweep and the restarts do
\* to one another, the server keeps the promise of Permits: it hands out no
\* more permits for a share than its sender allowed, takes none back, serves
\* only with one, and admits nobody after a share is cut off (claimOnce,
\* ClaimDownload, OpenFile and Report together).
ImplementsPermits == P!Spec

=============================================================================
