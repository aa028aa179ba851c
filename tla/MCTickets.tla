------------------------------ MODULE MCTickets -----------------------------
(***************************************************************************)
(* Instances of Tickets for TLC.                                           *)
(***************************************************************************)
EXTENDS Tickets, TLC

\* "..", "x/file" and "file": three files that come to share one name.
dots == [dir |-> FALSE, base |-> <<>>]
dirFile == [dir |-> TRUE, base |-> <<FileStem>>]
file == [dir |-> FALSE, base |-> <<FileStem>>]

SomeLists == {<<dots, dirFile, file>>}
=============================================================================
