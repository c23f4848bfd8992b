------------------------------ MODULE Services ------------------------------
(***************************************************************************)
(* The event stream and the other services, each on its own: the initial   *)
(* state chooses one of them.  If it is not the stream, this one stays in  *)
(* its initial state; the variables of the others stay 0.                  *)
(***************************************************************************)
EXTENDS EventStream

CONSTANTS
  Runs, Pages, Creators, Accounts, Limit,                \* AccountRotation
  Flows, Requests, Old,                                  \* SalesforceOrgs
  Queries, Browsing, MaxIssued,                          \* SoqlSessions
  Uploads, Batches, PerBatch, MaxFile, MaxBytes,         \* FolderUpload
  Streams, Scans, PerScan, BufferMax, QueueMax,          \* ScanEvents
  Deployments, Clients, Changes, MaxCalls,               \* LlmRouter
  Folders, Root, Nested, ForceApp, Generic, Modules, Syncs,      \* RepoScopes
  Nobody, None

VARIABLES
  part,
  there, writer, run, page, picks, overlapped, total, creator, crowd, query,
  flow, stored, org, holder, req, crossed, raced,
  auth, cache, lock, issued, logins, dropped, soql, accepted,
  kind, client, batch, request, left, session, path, files, bytes, cleaning, repo,
  ends, scans, running, queue, state, full, progressed, recent, passed,
  s, up, cached, pc, want, held, todo, ok, changes, calls, row,
  tree, scope, asked, status, syncs, same

R == INSTANCE AccountRotation
O == INSTANCE SalesforceOrgs
Q == INSTANCE SoqlSessions WITH query <- soql, alive <- accepted
U == INSTANCE FolderUpload WITH row <- repo
S == INSTANCE ScanEvents WITH published <- progressed, buffer <- recent, got <- passed
M == INSTANCE LlmRouter
P == INSTANCE RepoScopes WITH fresh <- same

ASSUME ServicesAssumption ==
  /\ R!RotationAssumption
  /\ O!OrgsAssumption
  /\ Q!SessionsAssumption
  /\ U!UploadAssumption
  /\ S!ScanEventsAssumption
  /\ M!RouterAssumption
  /\ P!ScopesAssumption

rotation == <<there, writer, run, page, picks, overlapped, total, creator, crowd, query>>
orgs == <<flow, stored, org, holder, req, crossed, raced>>
sessions == <<auth, cache, lock, issued, logins, dropped, soql, accepted>>
upload == <<kind, client, batch, request, left, session, path, files, bytes, cleaning, repo>>
progress == <<ends, scans, running, queue, state, full, progressed, recent, passed>>
models == <<s, up, cached, pc, want, held, todo, ok, changes, calls, row>>
scopes == <<tree, scope, asked, status, syncs, same>>
all == <<part, vars, rotation, orgs, sessions, upload, progress, models, scopes>>

RotationOff ==
  /\ there = 0 /\ writer = 0 /\ run = 0 /\ page = 0 /\ picks = 0 /\ overlapped = 0 /\ total = 0
  /\ creator = 0 /\ crowd = 0 /\ query = 0
OrgsOff ==
  /\ flow = 0 /\ stored = 0 /\ org = 0 /\ holder = 0 /\ req = 0 /\ crossed = 0 /\ raced = 0
SessionsOff ==
  /\ auth = 0 /\ cache = 0 /\ lock = 0 /\ issued = 0 /\ logins = 0 /\ dropped = 0 /\ soql = 0
  /\ accepted = 0
UploadOff ==
  /\ kind = 0 /\ client = 0 /\ batch = 0 /\ request = 0 /\ left = 0 /\ session = 0 /\ path = 0
  /\ files = 0 /\ bytes = 0 /\ cleaning = 0 /\ repo = 0
ProgressOff ==
  /\ ends = 0 /\ scans = 0 /\ running = 0 /\ queue = 0 /\ state = 0 /\ full = 0 /\ progressed = 0
  /\ recent = 0 /\ passed = 0
ModelsOff ==
  /\ s = 0 /\ up = 0 /\ cached = 0 /\ pc = 0 /\ want = 0 /\ held = 0 /\ todo = 0
  /\ ok = 0 /\ changes = 0 /\ calls = 0 /\ row = 0
ScopesOff ==
  /\ tree = 0 /\ scope = 0 /\ asked = 0 /\ status = 0 /\ syncs = 0 /\ same = 0

ServicesInit ==
  /\ part \in {"events", "rotation", "orgs", "sessions", "upload", "progress", "models", "scopes"}
  /\ Init
  /\ IF part = "rotation" THEN R!Init ELSE RotationOff
  /\ IF part = "orgs" THEN O!Init ELSE OrgsOff
  /\ IF part = "sessions" THEN Q!Init ELSE SessionsOff
  /\ IF part = "upload" THEN U!Init ELSE UploadOff
  /\ IF part = "progress" THEN S!Init ELSE ProgressOff
  /\ IF part = "models" THEN M!Init ELSE ModelsOff
  /\ IF part = "scopes" THEN P!Init ELSE ScopesOff

Step(service, A, own) == IF part = service THEN A ELSE UNCHANGED own

ServicesNext ==
  /\ UNCHANGED part
  /\ Step("events", Next, vars)
  /\ Step("rotation", R!Next, rotation)
  /\ Step("orgs", O!Next, orgs)
  /\ Step("sessions", Q!Next, sessions)
  /\ Step("upload", U!Next, upload)
  /\ Step("progress", S!Next, progress)
  /\ Step("models", M!Next, models)
  /\ Step("scopes", P!Next, scopes)

\* The fairness of the stream; the others have none.
ServicesSpec == ServicesInit /\ [][ServicesNext]_all /\ Fairness

-----------------------------------------------------------------------------
(* The properties of the services, of the same names there; those of the   *)
(* stream are its own.                                                     *)

\* AccountRotation: the accounts of a query are used in turn.
RoundRobin == part = "rotation" => R!RoundRobin
\* AccountRotation: creations that do not overlap keep the limit.
LimitByOverlap == part = "rotation" => R!LimitByOverlap
\* SalesforceOrgs: a flow creates one org at most.
OneOrgPerFlow == part = "orgs" => O!OneOrgPerFlow
\* SalesforceOrgs: a project has one default org at most.
OneDefault == part = "orgs" => O!OneDefault
\* SalesforceOrgs: an update that was answered is stored.
UpdatesKept == part = "orgs" => O!UpdatesKept
\* SoqlSessions: a query is sent again with another session.
RetryIsFresh == part = "sessions" => Q!RetryIsFresh
\* FolderUpload: what can be scanned is the whole folder.
ScannableIsWhole == part = "upload" => U!ScannableIsWhole
\* ScanEvents: a stream has no gap and no repetition.
Gapless == part = "progress" => S!Gapless
\* LlmRouter: what is reported available is what the calls use, but for the roles of ReportedByOther.
ReportIsOfTheModelUsed == part = "models" => M!ReportIsOfTheModelUsed
\* RepoScopes: a module scans the folder that was chosen for it.
ModuleHasItsFolder == part = "scopes" => P!ModuleHasItsFolder
\* RepoScopes: what is offered can be made a module.
OffersAreValid == part = "scopes" => P!OffersAreValid
\* The type invariants.
TypesOK ==
  /\ TypeOK
  /\ part = "rotation" => R!RotationTypeOK
  /\ part = "orgs" => O!OrgsTypeOK
  /\ part = "sessions" => Q!SessionsTypeOK
  /\ part = "upload" => U!UploadTypeOK
  /\ part = "progress" => S!ScanEventsTypeOK
  /\ part = "models" => M!RouterTypeOK
  /\ part = "scopes" => P!ScopesTypeOK
=============================================================================
