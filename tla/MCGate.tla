------------------------------- MODULE MCGate -------------------------------
(***************************************************************************)
(* Instances of Gate for TLC.                                              *)
(***************************************************************************)
EXTENDS Gate, TLC

CONSTANTS c1, c2, p1, p2

AllAddresses == [host : {c1, c2, p1, p2}, mapped : BOOLEAN]

\* A client may claim another client, a proxy in either spelling, or nonsense.
SomeTexts == {Garbage, Plain(c2), Plain(p1), [host |-> p1, mapped |-> TRUE]}

\* Nothing tells handlers apart.
SameHandlers == Permutations(Handlers)
=============================================================================
