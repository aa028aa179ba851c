------------------------------ MODULE Permits -------------------------------
(***************************************************************************)
(* What the server promises the sender of a share, apart from how it keeps *)
(* the promise.  A share is offered with an allowance.  A recipient's      *)
(* token becomes a holder, for good, while a visitor is at the door with   *)
(* it and fewer tokens than the allowance hold; a visitor is served with a *)
(* token that holds; and once a share is revoked nobody enters for it and  *)
(* no token becomes a holder.                                              *)
(***************************************************************************)
EXTENDS Naturals, FiniteSets

CONSTANTS
  Keys,      \* shares
  Tokens,    \* recipients' tokens
  Visitors,  \* requests
  MaxAllowance, \* the largest allowance a sender may ask for
  None       \* the key and the token of a visitor that is away

VARIABLES
  allowance,  \* tokens a share admits; 0 before it is offered
  holders,    \* the tokens that have been admitted to a share
  revoked,    \* the shares that admit nobody any more
  visit       \* where each visitor is, for which share and with which token

vars == <<allowance, holders, revoked, visit>>

Away == [place |-> "away", key |-> None, token |-> None]

Init ==
  /\ allowance = [k \in Keys |-> 0]
  /\ holders = [k \in Keys |-> {}]
  /\ revoked = {}
  /\ visit = [v \in Visitors |-> Away]

Offer(k, n) ==
  /\ allowance[k] = 0
  /\ allowance' = [allowance EXCEPT ![k] = n]
  /\ UNCHANGED <<holders, revoked, visit>>

Enter(v, k, t) ==
  /\ visit[v] = Away
  /\ k \notin revoked
  /\ visit' = [visit EXCEPT ![v] = [place |-> "door", key |-> k, token |-> t]]
  /\ UNCHANGED <<allowance, holders, revoked>>

Grant(k, t) ==
  /\ k \notin revoked
  /\ \E v \in Visitors : visit[v] = [place |-> "door", key |-> k, token |-> t]
  /\ Cardinality(holders[k]) < allowance[k]
  /\ holders' = [holders EXCEPT ![k] = @ \cup {t}]
  /\ UNCHANGED <<allowance, revoked, visit>>

Serve(v) ==
  /\ visit[v].place = "door"
  /\ visit[v].token \in holders[visit[v].key]
  /\ visit' = [visit EXCEPT ![v].place = "inside"]
  /\ UNCHANGED <<allowance, holders, revoked>>

Leave(v) ==
  /\ visit' = [visit EXCEPT ![v] = Away]
  /\ UNCHANGED <<allowance, holders, revoked>>

Revoke(ks) ==
  /\ revoked' = revoked \cup ks
  /\ UNCHANGED <<allowance, holders, visit>>

\* Everybody is sent away at once.
Clear ==
  /\ visit' = [v \in Visitors |-> Away]
  /\ UNCHANGED <<allowance, holders, revoked>>

Next ==
  \/ \E k \in Keys : \/ \E n \in 1..MaxAllowance : Offer(k, n)
                     \/ \E t \in Tokens : Grant(k, t)
                     \/ \E v \in Visitors, t \in Tokens : Enter(v, k, t)
  \/ \E v \in Visitors : Serve(v) \/ Leave(v)
  \/ \E ks \in SUBSET Keys : Revoke(ks)
  \/ Clear

Spec == Init /\ [][Next]_vars

=============================================================================
