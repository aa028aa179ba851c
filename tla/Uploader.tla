------------------------------ MODULE Uploader ------------------------------
(***************************************************************************)
(* The sender's side of an upload, composed with PartWriter: the browser's *)
(* startUpload and sendPartWithRetry (web/static/upload.js) and the        *)
(* Windows client's upload_run (clients/windows/uploader.c).               *)
(*                                                                         *)
(* A client sends one part at a time and waits for the answer.  An answer  *)
(* may be lost after the server has done the work.  A third client, of     *)
(* somebody else's making, sends any body at any offset and never minds    *)
(* the answer: the server may not rely on the manners of the other two.    *)
(* Requests that overlap are left to the instances of PartWriter itself.   *)
(***************************************************************************)
EXTENDS PartWriter

CONSTANTS
  Clients,      \* of this instance: "browser", "windows", "other"
  PartSize,     \* StartResult.PartSize
  MaxAttempts,  \* MAX_ATTEMPTS of both clients
  MaxResyncs    \* the 3 of startUpload's resyncs > 3

ASSUME ClientAssumption == /\ Clients \subseteq {"browser", "windows", "other"}
                           /\ PartSize \in Nat \ {0}
                           /\ PartSize % ChunkSize = 0
                           /\ MaxAttempts \in Nat \ {0}
                           /\ MaxResyncs \in Nat

VARIABLES
  client,    \* which of them sends the file
  state,     \* "sending", "waiting", "finishing", or how the upload ended
  offset,    \* the client's offset into the file
  attempts,  \* transport failures counted against MaxAttempts
  resyncs,   \* the browser's resyncs
  reply      \* the answer on its way to the client

allVars == <<received, blob, req, faults,
             client, state, offset, attempts, resyncs, reply>>

\* "ok": 200 with the new length; "conflict": 409 with the expected offset;
\* "failed": a 5xx, a timeout or a broken connection.
Answer(kind, n) == [kind |-> kind, offset |-> n]
NoAnswer == Answer("none", 0)

UploadInit ==
  /\ Init
  /\ client \in Clients
  /\ state = "sending"
  /\ offset = 0
  /\ attempts = 0
  /\ resyncs = 0
  /\ reply = NoAnswer

-----------------------------------------------------------------------------
\* The next part is sent; WriteParts takes it, or answers at once.
SendPart(h) ==
  /\ client # "other"
  /\ state = "sending"
  /\ offset < Size
  /\ state' = "waiting"
  /\ \/ /\ WriteParts(h, offset, PartSize)
        /\ UNCHANGED reply
     \/ /\ ~Accepts(offset)
        /\ reply' = Answer(IF received >= Size THEN "ok" ELSE "conflict", received)
        /\ UNCHANGED vars
  /\ UNCHANGED <<client, offset, attempts, resyncs>>

\* The other client sends what it likes; what WriteParts refuses changes nothing.
SendAny(h) ==
  /\ client = "other"
  /\ \E off \in 0..Size, body \in Bodies : WriteParts(h, off, body)
  /\ UNCHANGED <<client, state, offset, attempts, resyncs, reply>>

\* An answer is on its way to a client that listens.
Replies(a) == reply' = IF client = "other" THEN NoAnswer ELSE a

\* The server goes on with the part, and answers when it is done with it:
\* handleWritePart.
ServePart(h) ==
  /\ Proceed(h)
  /\ \/ ~At(h, "idle")' /\ UNCHANGED reply
     \/ /\ At(h, "idle")'
        /\ Replies(IF At(h, "set") THEN Answer("ok", received')
                   ELSE IF At(h, "inspect") /\ blob.prefix # 0
                        THEN Answer("conflict", ChunkSize * req[h].stat)
                   ELSE Answer("failed", 0))
  /\ UNCHANGED <<client, state, offset, attempts, resyncs>>

\* The part fails on the server, or the server is killed.
PartFails ==
  /\ Crash \/ \E h \in Handlers : Fails(h)
  /\ Replies(Answer("failed", 0))
  /\ UNCHANGED <<client, state, offset, attempts, resyncs>>

\* The answer is lost on its way.
LoseAnswer ==
  /\ Fault
  /\ reply.kind \in {"ok", "conflict"}
  /\ reply' = Answer("failed", 0)
  /\ UNCHANGED <<received, blob, req, client, state, offset, attempts, resyncs>>

-----------------------------------------------------------------------------
\* The client has dealt with its answer and goes on at offset n.
GoOn(n) ==
  /\ offset' = n
  /\ state' = IF n < Size THEN "sending" ELSE "finishing"
  /\ reply' = NoAnswer

GiveUp ==
  /\ state' = "failed"
  /\ reply' = NoAnswer
  /\ UNCHANGED <<offset, attempts, resyncs>>

\* Mutant of Resynced: a re-sync backwards is not counted.
ResyncedUncounted ==
  /\ state = "waiting"
  /\ client = "browser"
  /\ reply.kind = "conflict"
  /\ GoOn(reply.offset)
  /\ attempts' = 0
  /\ UNCHANGED resyncs

\* startUpload, after a 409: a re-sync that does not advance is counted, and
\* one too many ends the upload.
Resynced ==
  /\ state = "waiting"
  /\ client = "browser"
  /\ reply.kind = "conflict"
  /\ \/ /\ reply.offset > offset
        /\ GoOn(reply.offset)
        /\ attempts' = 0
        /\ UNCHANGED resyncs
     \/ /\ reply.offset <= offset
        /\ resyncs < MaxResyncs
        /\ resyncs' = resyncs + 1
        /\ GoOn(reply.offset)
        /\ attempts' = 0
     \/ /\ reply.offset <= offset
        /\ resyncs = MaxResyncs
        /\ GiveUp

\* startUpload, after a 200.
Advanced ==
  /\ state = "waiting"
  /\ client = "browser"
  /\ reply.kind = "ok"
  /\ GoOn(reply.offset)
  /\ attempts' = 0
  /\ resyncs' = 0

\* upload_run, after a 200 or a 409: attempts is reset before it is compared.
Answered ==
  /\ state = "waiting"
  /\ client = "windows"
  /\ reply.kind \in {"ok", "conflict"}
  /\ LET tried == IF reply.offset <= offset THEN 1 ELSE 0
     IN  IF tried >= MaxAttempts THEN GiveUp
         ELSE GoOn(reply.offset) /\ attempts' = tried
  /\ UNCHANGED resyncs

\* The same part is sent again after a failure, up to MaxAttempts in all.
Retry ==
  /\ state = "waiting"
  /\ reply.kind = "failed"
  /\ \/ /\ attempts + 1 < MaxAttempts
        /\ attempts' = attempts + 1
        /\ GoOn(offset)
        /\ UNCHANGED resyncs
     \/ /\ attempts + 1 >= MaxAttempts
        /\ GiveUp

\* POST finish: Finalize publishes the share if it counts as complete.
FinishUpload ==
  /\ state = "finishing"
  /\ state' = IF received >= Size THEN "done" ELSE "failed"
  /\ UNCHANGED <<offset, attempts, resyncs, reply>>

ClientStep ==
  /\ Resynced \/ Advanced \/ Answered \/ Retry \/ FinishUpload
  /\ UNCHANGED vars
  /\ UNCHANGED client

UploadNext ==
  \/ \E h \in Handlers : SendPart(h) \/ SendAny(h) \/ ServePart(h)
  \/ PartFails
  \/ LoseAnswer
  \/ ClientStep

\* Our clients and the server keep going; failures are never bound to happen.
UploadFairness ==
  /\ \A h \in Handlers : WF_allVars(SendPart(h)) /\ WF_allVars(ServePart(h))
  /\ WF_allVars(ClientStep)

UploadSpec == UploadInit /\ [][UploadNext]_allVars /\ UploadFairness

-----------------------------------------------------------------------------
\* Every upload from the browser comes to an end, whatever the server answers: a
\* client that cannot agree with the server on an offset stops rather than loop
\* forever (startUpload).
UploadEnds == client = "browser" => <>(state \in {"done", "failed"})

\* An upload that is interrupted, fewer times than the client retries, continues
\* where it stopped and is published in the end.
InterruptedContinues == <>(state = "done")

\* A client that has been told its share is published can rely on it: the bytes
\* on disk are the whole of its file, through every failure and retry.
DoneIsReadable == state = "done" => Readable(blob, Size)

=============================================================================
