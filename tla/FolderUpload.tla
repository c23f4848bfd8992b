---------------------------- MODULE FolderUpload ----------------------------
(***************************************************************************)
(* Code uploaded from the browser, a folder in batches or a ZIP in one     *)
(* request: the page (api.ts uploadRepoFolder), the row of the repository, *)
(* the session in the memory of the backend, the workspace on disk         *)
(* (local_upload_service.py, upload_session.py, upload_normalizer.py,      *)
(* api/v1/knowledge_engine.py), and the deletion of the repository         *)
(* meanwhile (knowledge_cleanup_service.py).                               *)
(*                                                                         *)
(* The page sends one batch at a time.  The row a request inserts is       *)
(* committed when its handler is over, which may be after the page has the *)
(* response.                                                               *)
(***************************************************************************)
EXTENDS Naturals

CONSTANTS
  Uploads,
  Batches,   \* bound: batches of a folder
  PerBatch,  \* bound: files of a batch (the page: 150)
  MaxFile,   \* bound: size of a file
  MaxBytes   \* max_upload_bytes, for one session

UploadAssumption ==
  /\ Batches \in Nat \ {0} /\ PerBatch \in Nat \ {0}
  /\ MaxFile \in Nat \ {0} /\ MaxBytes \in Nat

VARIABLES
  kind,      \* "folder" or "zip"
  client,    \* the page: "new", "waiting" for a response, "ready" to send, "loaded" or "failed"
  batch,     \* the batch it sent last
  request,   \* where the handler is; "none"
  left,      \* files of the batch still to write
  session,   \* in memory: whether get_session finds it, bytes_written, files_written
  row,       \* "none", "flushed" or "committed"
  path,      \* the row has its path, which makes it a repository one can scan
  files,     \* files in the workspace
  bytes,     \* what they take on disk
  cleaning   \* the deletion of the workspace is scheduled

vars == <<kind, client, batch, request, left, session, row, path, files, bytes, cleaning>>

NoSession == [there |-> FALSE, bytes |-> 0, files |-> 0]

Init ==
  /\ kind \in [Uploads -> {"folder", "zip"}]
  /\ client = [u \in Uploads |-> "new"] /\ batch = [u \in Uploads |-> 0]
  /\ request = [u \in Uploads |-> "none"] /\ left = [u \in Uploads |-> 0]
  /\ session = [u \in Uploads |-> NoSession]
  /\ row = [u \in Uploads |-> "none"] /\ path = [u \in Uploads |-> FALSE]
  /\ files = [u \in Uploads |-> 0] /\ bytes = [u \in Uploads |-> 0]
  /\ cleaning = [u \in Uploads |-> FALSE]

Last(u) == batch[u] = Batches

\* MUTANT: the page goes on with the next batch
GoesOn(u) == IF Last(u) THEN "failed" ELSE "ready"
\* A response that is not ok ends the loop of the page.
Gives(u) == "failed"

\* The handler raises: its transaction is rolled back, with the row if it is the first one; the
\* files it wrote stay.
Raise(u) ==
  /\ client' = [client EXCEPT ![u] = Gives(u)]
  /\ request' = [request EXCEPT ![u] = "none"] /\ left' = [left EXCEPT ![u] = 0]
  /\ row' = [row EXCEPT ![u] = IF @ = "flushed" /\ batch[u] = 1 THEN "none" ELSE @]

\* The row, the workspace and the session are there from the first request on.
Open(u) ==
  /\ client[u] = "new"
  /\ client' = [client EXCEPT ![u] = "waiting"] /\ batch' = [batch EXCEPT ![u] = 1]
  /\ request' = [request EXCEPT ![u] = "write"] /\ left' = [left EXCEPT ![u] = PerBatch]
  /\ row' = [row EXCEPT ![u] = "flushed"]
  /\ session' = [session EXCEPT ![u].there = (kind[u] = "folder")]
  /\ UNCHANGED <<kind, path, files, bytes, cleaning>>

\* The first batch is only followed by another one when the page has the session's name.
NextBatch(u) ==
  /\ client[u] = "ready"
  /\ batch' = [batch EXCEPT ![u] = @ + 1]
  /\ IF session[u].there
     THEN /\ client' = [client EXCEPT ![u] = "waiting"]
          /\ request' = [request EXCEPT ![u] = "write"] /\ left' = [left EXCEPT ![u] = PerBatch]
     ELSE /\ client' = [client EXCEPT ![u] = "failed"]
          /\ UNCHANGED <<request, left>>
  /\ UNCHANGED <<kind, session, row, path, files, bytes, cleaning>>

\* _stream_upload_to_disk: what the session holds, and the file
TooMuch(u, size) == session[u].bytes + size > MaxBytes

\* The folder of a file is made when it is not there, after a deletion of the workspace too.
WriteFile(u, size) ==
  /\ request[u] = "write" /\ left[u] > 0 /\ ~TooMuch(u, size)
  /\ left' = [left EXCEPT ![u] = @ - 1]
  /\ session' = [session EXCEPT ![u].bytes = @ + size, ![u].files = @ + 1]
  /\ files' = [files EXCEPT ![u] = @ + 1] /\ bytes' = [bytes EXCEPT ![u] = @ + size]
  /\ UNCHANGED <<kind, client, batch, request, row, path, cleaning>>

\* The part that fits stays on disk and is not counted.
FileTooBig(u, size) ==
  /\ kind[u] = "folder" /\ request[u] = "write" /\ left[u] > 0 /\ TooMuch(u, size)
  /\ bytes' = [bytes EXCEPT ![u] = @ + (MaxBytes - session[u].bytes)]
  /\ Raise(u)
  /\ UNCHANGED <<kind, batch, session, path, files, cleaning>>

\* The handler of a batch is over, and the page may have its answer before the commit.
BatchDone(u) ==
  /\ kind[u] = "folder" /\ request[u] = "write" /\ left[u] = 0 /\ ~Last(u)
  /\ request' = [request EXCEPT ![u] = "none"]
  /\ client' = [client EXCEPT ![u] = "ready"]
  /\ UNCHANGED <<kind, batch, left, session, row, path, files, bytes, cleaning>>

CommitRow(u) ==
  /\ row[u] = "flushed" /\ (request[u] = "none" \/ batch[u] > 1)
  /\ row' = [row EXCEPT ![u] = "committed"]
  /\ UNCHANGED <<kind, client, batch, request, left, session, path, files, bytes, cleaning>>

-----------------------------------------------------------------------------
(* The end of an upload *)

\* The row as the last request sees it: committed, or its own
Visible(u) == row[u] = "committed" \/ (row[u] = "flushed" /\ batch[u] = 1)

\* finalize_folder_session up to the row
BeginFinalize(u) ==
  /\ kind[u] = "folder" /\ request[u] = "write" /\ left[u] = 0 /\ Last(u)
  /\ session[u].there /\ session[u].files > 0 /\ Visible(u)
  /\ request' = [request EXCEPT ![u] = "normalize"]
  /\ UNCHANGED <<kind, client, batch, left, session, row, path, files, bytes, cleaning>>

\* The session is gone, or the row is not to be seen: nothing is cleaned up.
FinalizeRefused(u) ==
  /\ kind[u] = "folder" /\ request[u] = "write" /\ left[u] = 0 /\ Last(u)
  /\ ~(session[u].there /\ session[u].files > 0 /\ Visible(u))
  /\ Raise(u)
  /\ UNCHANGED <<kind, batch, session, path, files, bytes, cleaning>>

\* normalize_salesforce_upload moves the files, and the path is committed.
Finalize(u) ==
  /\ request[u] = "normalize" /\ Visible(u)
  /\ row' = [row EXCEPT ![u] = "committed"] /\ path' = [path EXCEPT ![u] = TRUE]
  /\ session' = [session EXCEPT ![u] = NoSession]
  /\ client' = [client EXCEPT ![u] = "loaded"] /\ request' = [request EXCEPT ![u] = "none"]
  /\ UNCHANGED <<kind, batch, left, files, bytes, cleaning>>

Wiped(u) == files' = [files EXCEPT ![u] = 0] /\ bytes' = [bytes EXCEPT ![u] = 0]

\* No Salesforce code in it: all of it goes.
NoCode(u) ==
  /\ request[u] = "normalize" /\ Visible(u)
  /\ row' = [row EXCEPT ![u] = "none"] /\ Wiped(u)
  /\ session' = [session EXCEPT ![u] = NoSession]
  /\ client' = [client EXCEPT ![u] = "failed"] /\ request' = [request EXCEPT ![u] = "none"]
  /\ UNCHANGED <<kind, batch, left, path, cleaning>>

\* The row was deleted meanwhile: the commit fails, and so does the deletion in the handler of
\* that exception, which leaves the session.
RowVanished(u) ==
  /\ request[u] = "normalize" /\ ~Visible(u)
  /\ Wiped(u)
  /\ client' = [client EXCEPT ![u] = "failed"] /\ request' = [request EXCEPT ![u] = "none"]
  /\ UNCHANGED <<kind, batch, left, session, row, path, cleaning>>

\* create_from_zip
ZipDone(u) ==
  /\ kind[u] = "zip" /\ request[u] = "write" /\ left[u] = 0
  /\ row' = [row EXCEPT ![u] = "committed"] /\ path' = [path EXCEPT ![u] = TRUE]
  /\ client' = [client EXCEPT ![u] = "loaded"] /\ request' = [request EXCEPT ![u] = "none"]
  /\ UNCHANGED <<kind, batch, left, session, files, bytes, cleaning>>

\* Too big, not a ZIP, a path that leads out of the workspace, no Salesforce code
ZipFails(u) ==
  /\ kind[u] = "zip" /\ request[u] = "write"
  /\ row' = [row EXCEPT ![u] = "none"] /\ Wiped(u)
  /\ client' = [client EXCEPT ![u] = "failed"] /\ request' = [request EXCEPT ![u] = "none"]
  /\ left' = [left EXCEPT ![u] = 0]
  /\ UNCHANGED <<kind, batch, session, path, cleaning>>

-----------------------------------------------------------------------------
(* Meanwhile *)

\* KnowledgeCleanupService.delete_repo: the row is listed as soon as it is committed.
DeleteRepo(u) ==
  /\ row[u] = "committed"
  /\ row' = [row EXCEPT ![u] = "none"] /\ path' = [path EXCEPT ![u] = FALSE]
  /\ cleaning' = [cleaning EXCEPT ![u] = TRUE]
  /\ UNCHANGED <<kind, client, batch, request, left, session, files, bytes>>

\* cleanup_repo_artifacts, in the background
Clean(u) ==
  /\ cleaning[u]
  /\ Wiped(u)
  /\ cleaning' = [cleaning EXCEPT ![u] = FALSE]
  /\ UNCHANGED <<kind, client, batch, request, left, session, row, path>>

\* SESSION_TTL_SECONDS have passed; a handler that has the session goes on with it.
Expire(u) ==
  /\ session[u].there
  /\ session' = [session EXCEPT ![u].there = FALSE]
  /\ UNCHANGED <<kind, client, batch, request, left, row, path, files, bytes, cleaning>>

\* The backend stops and starts: what was under way is rolled back, sessions and tasks are lost.
Restart ==
  /\ session' = [u \in Uploads |-> NoSession]
  /\ client' = [u \in Uploads |-> IF client[u] = "waiting" THEN "failed" ELSE client[u]]
  /\ request' = [u \in Uploads |-> "none"] /\ left' = [u \in Uploads |-> 0]
  /\ row' = [u \in Uploads |-> IF row[u] = "flushed" THEN "none" ELSE row[u]]
  /\ cleaning' = [u \in Uploads |-> FALSE]
  /\ UNCHANGED <<kind, batch, path, files, bytes>>

Next ==
  \/ \E u \in Uploads :
       \/ Open(u) \/ NextBatch(u) \/ BatchDone(u) \/ CommitRow(u)
       \/ BeginFinalize(u) \/ FinalizeRefused(u) \/ Finalize(u) \/ NoCode(u) \/ RowVanished(u)
       \/ ZipDone(u) \/ ZipFails(u) \/ DeleteRepo(u) \/ Clean(u) \/ Expire(u)
       \/ \E size \in 1..MaxFile : WriteFile(u, size) \/ FileTooBig(u, size)
  \/ Restart

Spec == Init /\ [][Next]_vars

-----------------------------------------------------------------------------
(* Properties *)

UploadTypeOK ==
  /\ kind \in [Uploads -> {"folder", "zip"}]
  /\ client \in [Uploads -> {"new", "waiting", "ready", "loaded", "failed"}]
  /\ batch \in [Uploads -> 0..Batches] /\ left \in [Uploads -> 0..PerBatch]
  /\ request \in [Uploads -> {"none", "write", "normalize"}]
  /\ session \in [Uploads -> [there : BOOLEAN, bytes : Nat, files : Nat]]
  /\ row \in [Uploads -> {"none", "flushed", "committed"}] /\ path \in [Uploads -> BOOLEAN]
  /\ files \in [Uploads -> Nat] /\ bytes \in [Uploads -> Nat] /\ cleaning \in [Uploads -> BOOLEAN]

\* A repository that can be scanned has every file of the folder, whatever failed, expired, was
\* deleted or restarted on the way.
ScannableIsWhole ==
  \A u \in Uploads : kind[u] = "folder" /\ path[u] => files[u] = Batches * PerBatch
=============================================================================
