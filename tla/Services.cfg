SPECIFICATION ServicesSpec
CONSTANTS
  Sockets = {w1, w2}  Publishers = {e1, e2}  Capacity = 1  MaxEvents = 2
  Runs = {r1, r2, r3}  Pages = {p1}  Creators = {c1, c2}  Accounts = 2  Limit = 2
  Flows = {f1}  Requests = {t1, t2}  Old = {o1, o2}
  Queries = {q1, q2, q3}  Browsing = {q3}  MaxIssued = 4
  Uploads = {u1}  Batches = 3  PerBatch = 2  MaxFile = 3  MaxBytes = 7
  Streams = {s1, s2}  Scans = 2  PerScan = 3  BufferMax = 2  QueueMax = 3
  Deployments <- MCDeployments  Clients = {d1}  Changes = 1  MaxCalls = 2
  Folders <- MCFolders  Root = "p"  Nested = TRUE  ForceApp = "force-app"  Modules = {m1}  Syncs = 1
  Generic = {"force-app", "lwc", "classes"}
  Nobody = nobody  None = none
INVARIANT RoundRobin
INVARIANT LimitByOverlap
INVARIANT OneOrgPerFlow
INVARIANT OneDefault
INVARIANT UpdatesKept
INVARIANT RetryIsFresh
INVARIANT ScannableIsWhole
INVARIANT Gapless
INVARIANT ReportIsOfTheModelUsed
INVARIANT ModuleHasItsFolder
INVARIANT OffersAreValid
INVARIANT NothingMissed
PROPERTY GoneAreForgotten
PROPERTY Served
\* every service may have nothing left to do
CHECK_DEADLOCK FALSE
