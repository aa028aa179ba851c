------------------------------ MODULE MCShares ------------------------------
(***************************************************************************)
(* Instances of Shares for TLC.  The cfg of each run picks the requests    *)
(* its clients send and the number of shares, sessions and handlers.       *)
(***************************************************************************)
EXTENDS SharesPermits, TLC

\* Handlers, and the keys and tokens drawn at random, are interchangeable.
Interchangeable ==
  Permutations(Handlers) \cup Permutations(Keys) \cup Permutations(Tokens)
=============================================================================
