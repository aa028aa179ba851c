-------------------------------- MODULE Boot --------------------------------
(***************************************************************************)
(* The life of the server process: run and loadOrCreateKey of              *)
(* cmd/securefile/main.go, Open, migrate and hasColumn of internal/store,  *)
(* from the start by systemd to the exit, over and over.  What outlives    *)
(* the process is the database schema, the key file and the hashes of      *)
(* uploaders' addresses in the database.                                   *)
(*                                                                         *)
(* Every SQL statement commits by itself and a kill undoes the one that    *)
(* runs.  A signal cancels the context the statements of Open run under.   *)
(***************************************************************************)
EXTENDS Naturals, Sequences, FiniteSets

CONSTANTS
  Keys,       \* what rand.Read may draw
  Requests,   \* concurrent HTTP requests
  MaxFaults,  \* bound on kills, signals and failing calls
  None

ASSUME BootAssumption ==
  /\ MaxFaults \in Nat
  /\ IsFiniteSet(Keys) /\ Cardinality(Keys) > MaxFaults
  /\ None \notin Keys
  /\ {"absent", "torn"} \cap Keys = {}

\* schema.sql, statement by statement.
Script == <<"drops", "drops_expires_at", "drops_status", "files", "files_drop_id",
            "upload_sessions", "upload_sessions_expires_at", "reports",
            "reports_status", "usage_daily">>

\* The columns of drops that a database made by an earlier version may lack,
\* and the ones that CREATE TABLE drops makes today.
Adds == <<"delete_allowed", "uploader_ip", "blocked_at", "kind", "manage_hash">>
Created == {"delete_allowed", "uploader_ip", "kind", "manage_hash"}

VARIABLES
  pc,         \* where run is; "down": there is no process
  at,         \* the statement of Script or the column of Adds it has come to
  made,       \* database: tables and indexes
  columns,    \* database: columns of drops, those of Adds
  hashed,     \* database: the keys that uploader_hash values were made with
  keyFile,    \* "absent", "torn" (not 32 bytes of hex), or the key it holds
  key,        \* Options.IPHashKey
  drawn,      \* history: keys drawn so far
  cancelled,  \* a signal has cancelled ctx
  active,     \* requests being handled
  faults

vars == <<pc, at, made, columns, hashed, keyFile, key, drawn, cancelled, active, faults>>
database == <<made, columns, hashed>>
memory == <<key, cancelled, active>>

Upto(s, n) == {s[i] : i \in 1..n}
Objects == Upto(Script, Len(Script)) \cup {"drops_manage_hash"}
Columns == Upto(Adds, Len(Adds))

\* No database yet, or one of an earlier version or an interrupted start: it has
\* a first part of the script and of the columns.
Init ==
  /\ pc = "down"
  /\ at = 1
  /\ \E n \in 0..Len(Script), c \in 0..Len(Adds) :
       /\ n = 0 => c = 0
       /\ made = Upto(Script, n)
       /\ columns = Upto(Adds, c)
  /\ hashed = {}
  /\ keyFile = "absent"
  /\ key = None
  /\ drawn = {}
  /\ cancelled = FALSE
  /\ active = {}
  /\ faults = 0

\* run goes on to the next step, or to the next one of a list.
Goto(step) == pc' = step /\ at' = 1
Next1(list, after) ==
  IF at < Len(list) THEN pc' = pc /\ at' = at + 1 ELSE Goto(after)

\* The process is gone, and what it held in memory with it.
Exits ==
  /\ Goto("down")
  /\ key' = None
  /\ cancelled' = FALSE
  /\ active' = {}

Fault == faults < MaxFaults /\ faults' = faults + 1

-----------------------------------------------------------------------------
(***************************************************************************)
(* Start.                                                                  *)
(***************************************************************************)

\* systemd starts the process: Restart=on-failure, or the operator.
Start ==
  /\ pc = "down"
  /\ Goto("script")
  /\ UNCHANGED <<database, memory, keyFile, drawn, faults>>

\* Open: CREATE ... IF NOT EXISTS, which never alters a table.
ApplySchema ==
  /\ pc = "script"
  /\ ~cancelled
  /\ made' = made \cup {Script[at]}
  /\ columns' = IF Script[at] = "drops" /\ "drops" \notin made THEN Created ELSE columns
  /\ Next1(Script, "migrate")
  /\ UNCHANGED <<hashed, memory, keyFile, drawn, faults>>

\* hasColumn.
HasColumn(c) == c \in columns

\* Mutant of Migrate: a column that is there ends the loop.
MigrateUntilFound ==
  /\ pc = "migrate"
  /\ ~cancelled
  /\ IF HasColumn(Adds[at])
     THEN Goto("index") /\ columns' = columns
     ELSE Next1(Adds, "index") /\ columns' = columns \cup {Adds[at]}
  /\ UNCHANGED <<made, hashed, memory, keyFile, drawn, faults>>

\* Mutant of Migrate: hasColumn is not asked, and ALTER TABLE fails if it is there.
MigrateUnguarded ==
  /\ pc = "migrate"
  /\ ~cancelled
  /\ IF HasColumn(Adds[at])
     THEN Exits /\ columns' = columns
     ELSE /\ Next1(Adds, "index")
          /\ columns' = columns \cup {Adds[at]}
          /\ UNCHANGED memory
  /\ UNCHANGED <<made, hashed, keyFile, drawn, faults>>

\* migrate: ALTER TABLE, unless the column is there.
Migrate ==
  /\ pc = "migrate"
  /\ ~cancelled
  /\ columns' = IF HasColumn(Adds[at]) THEN columns ELSE columns \cup {Adds[at]}
  /\ Next1(Adds, "index")
  /\ UNCHANGED <<made, hashed, memory, keyFile, drawn, faults>>

\* ... and then the index over a column that older databases lacked.
CreateIndex ==
  /\ pc = "index"
  /\ ~cancelled
  /\ HasColumn("manage_hash")
  /\ made' = made \cup {"drops_manage_hash"}
  /\ Goto("key")
  /\ UNCHANGED <<columns, hashed, memory, keyFile, drawn, faults>>

\* A statement finds its context cancelled, or a column that it names missing.
Refused ==
  /\ pc \in {"script", "migrate", "index"}
  /\ cancelled \/ (pc = "index" /\ ~HasColumn("manage_hash"))

\* Open fails, or later service.New or the read of the key file: run returns.
StartFails ==
  /\ pc \in {"script", "migrate", "index", "key"}
  /\ IF Refused THEN UNCHANGED faults ELSE Fault
  /\ Exits
  /\ UNCHANGED <<database, keyFile, drawn>>

\* loadOrCreateKey: the file holds a key ...
LoadKey ==
  /\ pc = "key"
  /\ keyFile \in Keys
  /\ key' = keyFile
  /\ Goto("serving")
  /\ UNCHANGED <<database, cancelled, active, keyFile, drawn, faults>>

\* ... or it is there and holds none, and run returns ...
KeyUnreadable ==
  /\ pc = "key"
  /\ keyFile = "torn"
  /\ Exits
  /\ UNCHANGED <<database, keyFile, drawn, faults>>

\* ... or there is no such file: os.WriteFile creates it ...
CreateKey ==
  /\ pc = "key"
  /\ keyFile = "absent"
  /\ \E k \in Keys \ drawn : key' = k /\ drawn' = drawn \cup {k}
  /\ keyFile' = "torn"
  /\ Goto("write")
  /\ UNCHANGED <<database, cancelled, active, faults>>

\* ... and writes it.
WriteKey ==
  /\ pc = "write"
  /\ keyFile' = key
  /\ Goto("serving")
  /\ UNCHANGED <<database, memory, drawn, faults>>

\* Mutant of WriteKeyFails: the error of WriteFile is dropped.
WriteKeyIgnored ==
  /\ pc = "write"
  /\ Fault
  /\ Goto("serving")
  /\ UNCHANGED <<database, memory, keyFile, drawn>>

\* The disk is full, say: run returns the error, and the file stays.
WriteKeyFails ==
  /\ pc = "write"
  /\ Fault
  /\ Exits
  /\ UNCHANGED <<database, keyFile, drawn>>

\* The operator removes a key file that keeps the server from starting.
RemoveKey ==
  /\ pc = "down"
  /\ keyFile = "torn"
  /\ keyFile' = "absent"
  /\ UNCHANGED <<pc, at, database, memory, drawn, faults>>

-----------------------------------------------------------------------------
(***************************************************************************)
(* Service.                                                                *)
(***************************************************************************)
\* A request begins.  While Shutdown waits, only on a connection that was accepted
\* before and has not sent one yet.
Accept(r) ==
  /\ pc \in {"serving", "draining"}
  /\ r \notin active
  /\ active' = active \cup {r}
  /\ UNCHANGED <<pc, at, database, key, cancelled, keyFile, drawn, faults>>

\* handleStartUpload records whose upload it is, while the database is open.
RecordUploader(r) ==
  /\ r \in active
  /\ pc \in {"serving", "draining"}
  /\ hashed' = hashed \cup {key}
  /\ UNCHANGED <<pc, at, made, columns, memory, keyFile, drawn, faults>>

Finish(r) ==
  /\ r \in active
  /\ active' = active \ {r}
  /\ UNCHANGED <<pc, at, database, key, cancelled, keyFile, drawn, faults>>

-----------------------------------------------------------------------------
(***************************************************************************)
(* Stop.                                                                   *)
(***************************************************************************)

\* SIGTERM or an interrupt; NotifyContext swallows any further one.
Signal ==
  /\ pc # "down"
  /\ ~cancelled
  /\ Fault
  /\ cancelled' = TRUE
  /\ UNCHANGED <<pc, at, database, key, active, keyFile, drawn>>

\* The select of run: ctx is done, and Shutdown accepts no more connections.
Shutdown ==
  /\ pc = "serving"
  /\ cancelled
  /\ Goto("draining")
  /\ UNCHANGED <<database, memory, keyFile, drawn, faults>>

\* The select of run: ListenAndServe has failed.
ListenFails ==
  /\ pc = "serving"
  /\ Fault
  /\ Goto("closed")
  /\ UNCHANGED <<database, memory, keyFile, drawn>>

\* Shutdown returns when the last request has been answered, and the deferred
\* st.Close runs ...
ShutdownDone ==
  /\ pc = "draining"
  /\ active = {}
  /\ Goto("closed")
  /\ UNCHANGED <<database, memory, keyFile, drawn, faults>>

\* ... or after 30 seconds.
ShutdownTimeout ==
  /\ pc = "draining"
  /\ active # {}
  /\ Goto("closed")
  /\ UNCHANGED <<database, memory, keyFile, drawn, faults>>

\* main returns.
Exit ==
  /\ pc = "closed"
  /\ Exits
  /\ UNCHANGED <<database, keyFile, drawn, faults>>

\* A crash, an OOM kill, a kill -9.
Kill ==
  /\ pc # "down"
  /\ Fault
  /\ Exits
  /\ UNCHANGED <<database, keyFile, drawn>>

-----------------------------------------------------------------------------
Starting == \/ Start \/ ApplySchema \/ Migrate \/ CreateIndex \/ StartFails
            \/ LoadKey \/ KeyUnreadable \/ CreateKey \/ WriteKey \/ WriteKeyFails

Stopping == Shutdown \/ ShutdownDone \/ ShutdownTimeout \/ Exit

Next ==
  \/ Starting \/ Stopping
  \/ RemoveKey \/ Signal \/ ListenFails \/ Kill
  \/ \E r \in Requests : Accept(r) \/ RecordUploader(r) \/ Finish(r)

\* The process and systemd go on; no request is ever obliged to end.
Fairness == WF_vars(Starting) /\ WF_vars(Stopping)

Spec == Init /\ [][Next]_vars /\ Fairness

-----------------------------------------------------------------------------
(***************************************************************************)
(* Properties.                                                             *)
(***************************************************************************)

\* Requests only ever meet the whole schema: whatever version made the database
\* and wherever earlier starts were killed, every table, index and column the
\* statements name is there once the server accepts requests (Open, migrate).
SchemaComplete == active # {} => made = Objects /\ columns = Columns

\* Any two recorded hashes can be compared: they were made with one key, which
\* the key file still holds whenever the process dies or is stopped, so that
\* even an operator who removes a torn file never splits the record
\* (loadOrCreateKey).
OneKey ==
  /\ Cardinality(hashed) <= 1
  /\ hashed # {} => hashed = {keyFile}

\* From any database of any version, after any kills, failures and signals, the
\* server comes back and serves, unless a start died while it wrote its first
\* key file (run, Open, loadOrCreateKey).
ServesAgain == []<>(pc = "serving" \/ keyFile = "torn")

=============================================================================
