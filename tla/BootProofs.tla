----------------------------- MODULE BootProofs -----------------------------
(***************************************************************************)
(* Theorems about Boot, for any keys, requests and number of faults.       *)
(***************************************************************************)
EXTENDS Boot, FiniteSetTheorems, TLAPS

Up == {"serving", "draining", "closed"}
Opened == {"key", "write"} \cup Up

BootType ==
  /\ pc \in {"down", "script", "migrate", "index"} \cup Opened
  /\ at \in Nat \ {0}
  /\ made \subseteq Objects
  /\ columns \subseteq Columns
  /\ hashed \subseteq Keys

\* What is done of the list that run is working through, and of those before.
ScriptOK ==
  /\ pc = "script" => at <= Len(Script) /\ Upto(Script, at - 1) \subseteq made
  /\ pc \in {"migrate", "index"} \cup Opened => Upto(Script, Len(Script)) \subseteq made
MigrateOK ==
  /\ pc = "migrate" => at <= Len(Adds) /\ Upto(Adds, at - 1) \subseteq columns
  /\ pc \in {"index"} \cup Opened => Columns \subseteq columns
IndexOK == pc \in Opened => "drops_manage_hash" \in made

\* The key in use is the one in the file, and was there before any hash.
KeyOK ==
  /\ pc \in Up => key \in Keys /\ keyFile = key
  /\ pc = "write" => key \in Keys /\ keyFile = "torn"
  /\ hashed # {} => hashed = {keyFile}

ActiveOK == active # {} => pc \in Up

IInv == BootType /\ ScriptOK /\ MigrateOK /\ IndexOK /\ KeyOK /\ ActiveOK

-----------------------------------------------------------------------------
(***************************************************************************)
(* The two lists.                                                          *)
(***************************************************************************)

\* The script and the list of migrations are not empty.
LEMMA Lengths == /\ Len(Script) \in Nat /\ Len(Script) > 0
                 /\ Len(Adds) \in Nat /\ Len(Adds) > 0
BY DEF Script, Adds

\* One more statement of a list is one more of the things it makes.
LEMMA UptoNext ==
  ASSUME NEW s, NEW n \in Nat \ {0}
  PROVE  Upto(s, n) = Upto(s, n - 1) \cup {s[n]}
BY DEF Upto

\* Nothing is made by no statement.
LEMMA UptoZero == ASSUME NEW s PROVE Upto(s, 0) = {}
BY DEF Upto

\* A longer part of a list makes more.
LEMMA UptoGrows ==
  ASSUME NEW s, NEW m \in Nat, NEW n \in Nat, n <= m
  PROVE  Upto(s, n) \subseteq Upto(s, m)
BY DEF Upto

\* Every column of CREATE TABLE drops is one of those that migrate looks for.
LEMMA CreatedKnown == Created \subseteq Columns
<1>1. /\ Len(Adds) = 5
      /\ Adds[1] = "delete_allowed" /\ Adds[2] = "uploader_ip"
      /\ Adds[4] = "kind" /\ Adds[5] = "manage_hash"
  BY DEF Adds
<1> QED
  BY <1>1 DEF Created, Columns, Upto

-----------------------------------------------------------------------------
\* The invariant holds of every data directory a start may find.
LEMMA InitOK == Init => IInv
<1> SUFFICES ASSUME Init PROVE IInv
  OBVIOUS
<1>1. PICK n \in 0..Len(Script), c \in 0..Len(Adds) :
        made = Upto(Script, n) /\ columns = Upto(Adds, c)
  BY DEF Init
<1>2. made \subseteq Objects /\ columns \subseteq Columns
  BY <1>1, Lengths, UptoGrows DEF Objects, Columns
<1> QED
  BY <1>2 DEF Init, IInv, BootType, ScriptOK, MigrateOK, IndexOK, KeyOK, ActiveOK,
              Up, Opened

\* A process that is gone leaves the database and the key file as they were.
LEMMA ExitOK ==
  ASSUME IInv, Exits, UNCHANGED <<database, keyFile>>
  PROVE  IInv'
BY DEF IInv, BootType, ScriptOK, MigrateOK, IndexOK, KeyOK, ActiveOK, Up, Opened,
       Exits, Goto, database

\* A statement of the schema.
LEMMA ApplySchemaOK == ASSUME IInv, ApplySchema PROVE IInv'
<1> USE DEF IInv, BootType, Opened, Up
<1>1. at \in 1..Len(Script) /\ Upto(Script, at - 1) \subseteq made
  BY Lengths DEF ApplySchema, ScriptOK
<1>2. Upto(Script, at) \subseteq made'
  BY <1>1, UptoNext DEF ApplySchema
<1>3. Script[at] \in Objects
  BY <1>1 DEF Objects, Upto
<1>4. made' \subseteq Objects /\ columns' \subseteq Columns
  BY <1>3, CreatedKnown DEF ApplySchema
<1>5. \/ pc' = "script" /\ at' = at + 1 /\ at < Len(Script)
      \/ pc' = "migrate" /\ at' = 1 /\ at = Len(Script)
  BY <1>1, Lengths DEF ApplySchema, Next1, Goto
<1>6. ScriptOK'
  BY <1>1, <1>2, <1>5, Lengths DEF ScriptOK
<1>7. MigrateOK'
  BY <1>5, Lengths, UptoZero DEF MigrateOK
<1>8. IndexOK' /\ KeyOK' /\ ActiveOK'
  BY <1>5 DEF IndexOK, KeyOK, ActiveOK, ApplySchema, memory
<1> QED
  BY <1>1, <1>4, <1>5, <1>6, <1>7, <1>8 DEF ApplySchema

\* A migration.
LEMMA MigrateStepOK == ASSUME IInv, Migrate PROVE IInv'
<1> USE DEF IInv, BootType, Opened, Up
<1>1. at \in 1..Len(Adds) /\ Upto(Adds, at - 1) \subseteq columns
  BY Lengths DEF Migrate, MigrateOK
<1>2. columns' = columns \cup {Adds[at]}
  BY DEF Migrate, HasColumn
<1>3. Upto(Adds, at) \subseteq columns'
  BY <1>1, <1>2, UptoNext
<1>4. columns' \subseteq Columns
  BY <1>1, <1>2 DEF Columns, Upto
<1>5. \/ pc' = "migrate" /\ at' = at + 1 /\ at < Len(Adds)
      \/ pc' = "index" /\ at' = 1 /\ at = Len(Adds)
  BY <1>1, Lengths DEF Migrate, Next1, Goto
<1>6. MigrateOK'
  BY <1>1, <1>3, <1>5, Lengths DEF MigrateOK, Columns
<1>7. ScriptOK' /\ IndexOK' /\ KeyOK' /\ ActiveOK'
  BY <1>5 DEF ScriptOK, IndexOK, KeyOK, ActiveOK, Migrate, memory
<1> QED
  BY <1>1, <1>4, <1>5, <1>6, <1>7 DEF Migrate

\* Every step keeps the invariant.
LEMMA NextOK == ASSUME IInv, [Next]_vars PROVE IInv'
<1> USE DEF IInv, BootType, ScriptOK, MigrateOK, IndexOK, KeyOK, ActiveOK, Up, Opened
<1>1. CASE Start
  BY <1>1, Lengths, UptoZero DEF Start, Goto, database, memory
<1>2. CASE ApplySchema
  BY <1>2, ApplySchemaOK
<1>3. CASE Migrate
  BY <1>3, MigrateStepOK
<1>4. CASE CreateIndex
  BY <1>4 DEF CreateIndex, Goto, memory, Objects
<1>5. CASE StartFails \/ KeyUnreadable \/ WriteKeyFails \/ Exit \/ Kill
  BY <1>5, ExitOK DEF StartFails, KeyUnreadable, WriteKeyFails, Exit, Kill
<1>6. CASE LoadKey
  BY <1>6 DEF LoadKey, Goto, database
<1>7. CASE CreateKey
  <2>1. hashed = {}
    BY <1>7, BootAssumption DEF CreateKey
  <2> QED
    BY <1>7, <2>1 DEF CreateKey, Goto, database
<1>8. CASE WriteKey
  <2>1. hashed = {}
    BY <1>8, BootAssumption DEF WriteKey
  <2> QED
    BY <1>8, <2>1 DEF WriteKey, Goto, database, memory
<1>9. CASE RemoveKey
  <2>1. hashed = {}
    BY <1>9, BootAssumption DEF RemoveKey
  <2> QED
    BY <1>9, <2>1 DEF RemoveKey, database, memory
<1>10. CASE \E r \in Requests : Accept(r) \/ Finish(r)
  BY <1>10 DEF Accept, Finish, database
<1>11. CASE \E r \in Requests : RecordUploader(r)
  BY <1>11 DEF RecordUploader, memory
<1>12. CASE Signal
  BY <1>12 DEF Signal, database
<1>13. CASE Shutdown \/ ShutdownDone
  BY <1>13 DEF Shutdown, ShutdownDone, Goto, database, memory
<1>14. CASE ListenFails \/ ShutdownTimeout
  BY <1>14 DEF ListenFails, ShutdownTimeout, Goto, database, memory
<1>15. CASE UNCHANGED vars
  BY <1>15 DEF vars
<1> QED
  BY <1>1, <1>2, <1>3, <1>4, <1>5, <1>6, <1>7, <1>8, <1>9, <1>10, <1>11, <1>12,
     <1>13, <1>14, <1>15 DEF Next, Starting, Stopping

\* The invariant holds in every state of every behaviour: through any number of
\* starts, kills, signals and failing calls (run, Open, loadOrCreateKey).
THEOREM Invariance == Spec => []IInv
<1>1. Init => IInv
  BY InitOK
<1>2. IInv /\ [Next]_vars => IInv'
  BY NextOK
<1> QED
  BY <1>1, <1>2, PTL DEF Spec

-----------------------------------------------------------------------------
\* No request ever meets a database that lacks a table, an index or a column,
\* whatever the database was and wherever starts were killed (Open, migrate).
THEOREM RequestsMeetWholeSchema == Spec => []SchemaComplete
<1>1. IInv => SchemaComplete
  BY DEF IInv, BootType, ScriptOK, MigrateOK, IndexOK, ActiveOK, Up, Opened,
         SchemaComplete, Objects
<1> QED
  BY <1>1, Invariance, PTL

\* All uploader hashes are made with one key, and the key file holds it
\* (loadOrCreateKey).
THEOREM HashesComparable == Spec => []OneKey
<1>1. IInv => OneKey
  <2> SUFFICES ASSUME IInv PROVE OneKey
    OBVIOUS
  <2>1. hashed = {} \/ hashed = {keyFile}
    BY DEF IInv, KeyOK
  <2>2. Cardinality(hashed) = 0 \/ Cardinality(hashed) = 1
    BY <2>1, FS_EmptySet, FS_Singleton
  <2> QED
    BY <2>1, <2>2 DEF OneKey
<1> QED
  BY <1>1, Invariance, PTL

=============================================================================
