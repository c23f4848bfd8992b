----------------------------- MODULE KnowledgeScan -----------------------------
(***************************************************************************)
(* The background jobs of one knowledge module: scans and rebuilds of its  *)
(* vector index, its deletion with the cleanup that follows, and what they *)
(* leave in the four places that hold a module: its row, the rows of its   *)
(* entities (both in PostgreSQL), the graph (Neo4j), the vectors (Chroma). *)
(*                                                                         *)
(* The entities one scan writes are a generation, named by the job.  Only  *)
(* the transaction of a job is isolated, so locks matter: rows deleted and *)
(* not committed make another DELETE wait, and rows inserted and not       *)
(* committed, which refer to the module, make the deletion of the module   *)
(* wait.  A statement fails only because the module's row is gone; the     *)
(* graph, the embeddings, git and the extraction may fail at any time.     *)
(***************************************************************************)
EXTENDS Naturals, FiniteSets

CONSTANTS
    MaxJobs,   \* bound on the jobs of the workload
    MaxLive,   \* bound on those under way at once
    Kinds,     \* of jobs: "scan", "empty" (a scan that finds no component), "reindex"
    MaxCrashes \* bound on the restarts of the server

ASSUME JobsAssumption    == MaxJobs \in Nat
ASSUME KindsAssumption   == Kinds \subseteq {"scan", "empty", "reindex"}
ASSUME CrashesAssumption == MaxCrashes \in Nat

Jobs     == 1..MaxJobs
Statuses == {"pending", "scanning", "completed", "failed"}
Writing  == {"insert", "graph", "write", "vectors", "index", "finish", "failed"}
PCs      == {"new", "begin", "sync", "mark", "extract", "replace", "deleting", "done"} \cup Writing

VARIABLES
    status,     \* KnowledgeModule.scan_status, "deleted" without the row
    ents,       \* generations of KnowledgeEntity rows, as committed
    graph,      \* generations with nodes in the graph
    vectors,    \* generations with documents in the collection
    pc,         \* per job: the await at which it is suspended
    kind,       \* per job, "none" before it is started
    sees,       \* per job: scan_status in the identity map of its session
    docs,       \* per job: the generations it (re)indexes
    gone,       \* per job: the generations its DELETE is for
    put,        \* jobs with entities inserted and not committed
    cleaner,    \* of the artifacts of the deleted module
    announced,  \* jobs that published scan_completed or scan_failed
    overlapped, \* history: two jobs were under way at once
    crashes     \* restarts so far

stores == <<status, ents, graph, vectors>>
jobs   == <<pc, kind, sees, docs, gone, put>>
vars   == <<stores, jobs, cleaner, announced, overlapped, crashes>>

TypeOK ==
    /\ status \in Statuses \cup {"deleted"}
    /\ ents \subseteq Jobs /\ graph \subseteq Jobs /\ vectors \subseteq Jobs
    /\ pc \in [Jobs -> PCs]
    /\ kind \in [Jobs -> Kinds \cup {"none"}]
    /\ sees \in [Jobs -> Statuses]
    /\ docs \in [Jobs -> SUBSET Jobs]
    /\ gone \in [Jobs -> SUBSET Jobs]
    /\ put \subseteq Jobs
    /\ cleaner \in {"off", "graph", "vectors", "partly", "done", "gaveUp"}
    /\ announced \subseteq Jobs
    /\ overlapped \in BOOLEAN
    /\ crashes \in 0..MaxCrashes

Init ==
    /\ status = "pending" /\ ents = {} /\ graph = {} /\ vectors = {}
    /\ pc = [j \in Jobs |-> "new"]
    /\ kind = [j \in Jobs |-> "none"]
    /\ sees = [j \in Jobs |-> "pending"]
    /\ docs = [j \in Jobs |-> {}] /\ gone = [j \in Jobs |-> {}] /\ put = {}
    /\ cleaner = "off" /\ announced = {} /\ overlapped = FALSE /\ crashes = 0

Live == {j \in Jobs : pc[j] \notin {"new", "done"}}

-----------------------------------------------------------------------------
(* The session of a job.                                                   *)

Goto(j, place) == pc' = [pc EXCEPT ![j] = place]

\* What a commit leaves of the status when the job assigns s to it: what the
\* session does not see changing is not written.
Flushed(j, s) == IF sees[j] = s THEN status ELSE s

\* Generations whose rows a job's uncommitted DELETE has locked.
Locked(j) == IF pc[j] \in Writing THEN gone[j] ELSE {}

Committed(j) == (ents \ Locked(j)) \cup (IF j \in put THEN {j} ELSE {})

\* The job ends and closes its session; what is not committed is rolled back.
Close(j) ==
    /\ Goto(j, "done")
    /\ sees' = [sees EXCEPT ![j] = "pending"]
    /\ docs' = [docs EXCEPT ![j] = {}] /\ gone' = [gone EXCEPT ![j] = {}]
    /\ put' = put \ {j}

Announce(j) == announced' = announced \cup {j}

-----------------------------------------------------------------------------
(* The requests.                                                           *)

\* POST scan or reindex-vectors: the module is there, nothing else is asked.
StartJob(j) ==
    /\ pc[j] = "new" /\ \A i \in Jobs : i < j => pc[i] # "new"
    /\ Cardinality(Live) < MaxLive
    /\ status # "deleted"
    /\ Goto(j, "begin") /\ \E k \in Kinds : kind' = [kind EXCEPT ![j] = k]
    /\ overlapped' = (overlapped \/ Live # {})
    /\ UNCHANGED <<stores, sees, docs, gone, put, cleaner, announced, crashes>>

\* DELETE module: its transaction waits for the rows of those of the jobs.
DeleteModule ==
    /\ status # "deleted"
    /\ put = {} /\ \A j \in Jobs : Locked(j) \cap ents = {}
    /\ status' = "deleted" /\ ents' = {}
    /\ cleaner' = "graph"
    /\ UNCHANGED <<graph, vectors, jobs, announced, overlapped, crashes>>

\* cleanup_module_artifacts, after the response; what fails is logged.
CleanGraph ==
    /\ cleaner = "graph"
    /\ \/ graph' = {} /\ cleaner' = "vectors"
       \/ UNCHANGED graph /\ cleaner' = "partly"
    /\ UNCHANGED <<status, ents, vectors, jobs, announced, overlapped, crashes>>

CleanVectors ==
    /\ cleaner \in {"vectors", "partly"}
    /\ \/ vectors' = {} /\ cleaner' = IF cleaner = "vectors" THEN "done" ELSE "gaveUp"
       \/ UNCHANGED vectors /\ cleaner' = "gaveUp"
    /\ UNCHANGED <<status, ents, graph, jobs, announced, overlapped, crashes>>

-----------------------------------------------------------------------------
(* A job.                                                                  *)

Same == UNCHANGED <<kind, cleaner, overlapped, crashes>>

\* The module is loaded; reindex_vectors takes its entities along.
Load(j) ==
    /\ pc[j] = "begin" /\ status # "deleted"
    /\ kind[j] = "reindex" => ents # {}
    /\ sees' = [sees EXCEPT ![j] = status]
    /\ docs' = [docs EXCEPT ![j] = CASE kind[j] = "scan"    -> {j}
                                     [] kind[j] = "empty"   -> {}
                                     [] kind[j] = "reindex" -> ents]
    /\ Goto(j, IF kind[j] = "reindex" THEN "mark" ELSE "sync")
    /\ Same /\ UNCHANGED <<stores, gone, put, announced>>

\* "Module not found", "No entities found for this module".
LoadNothing(j) ==
    /\ pc[j] = "begin"
    /\ \/ status = "deleted" /\ UNCHANGED status
       \/ status # "deleted" /\ kind[j] = "reindex" /\ ents = {} /\ status' = "failed"
    /\ Close(j) /\ Announce(j)
    /\ Same /\ UNCHANGED <<ents, graph, vectors>>

\* Git has the branch, the scope has files.
Sync(j) ==
    /\ pc[j] = "sync" /\ Goto(j, "mark")
    /\ Same /\ UNCHANGED <<stores, sees, docs, gone, put, announced>>

\* Mutant: a module that keeps its status has nothing to announce.
SyncFailsQuietly(j) ==
    /\ pc[j] = "sync"
    /\ \/ sees[j] = "completed" /\ UNCHANGED <<status, announced>>
       \/ status # "deleted" /\ status' = Flushed(j, "failed") /\ Announce(j)
    /\ Close(j)
    /\ Same /\ UNCHANGED <<ents, graph, vectors>>

\* They do not: the preflight check writes FAILED, a failed sync leaves a
\* COMPLETED module as it is.
SyncFails(j) ==
    /\ pc[j] = "sync"
    /\ \/ sees[j] = "completed" /\ UNCHANGED status
       \/ status # "deleted" /\ status' = Flushed(j, "failed")
    /\ Close(j) /\ Announce(j)
    /\ Same /\ UNCHANGED <<ents, graph, vectors>>

\* update_status(SCANNING), which reads the row again, and a commit.
Mark(j) ==
    /\ pc[j] = "mark" /\ status # "deleted"
    /\ status' = Flushed(j, "scanning")
    /\ sees' = [sees EXCEPT ![j] = status']
    /\ Goto(j, IF kind[j] = "reindex" THEN "vectors" ELSE "extract")
    /\ Same /\ UNCHANGED <<ents, graph, vectors, docs, gone, put, announced>>

\* Files and dependencies are extracted; the two commits of interim stats.
Extract(j) ==
    /\ pc[j] = "extract" /\ status # "deleted"
    /\ status' = Flushed(j, "scanning") /\ sees' = [sees EXCEPT ![j] = "scanning"]
    /\ Goto(j, "replace")
    /\ Same /\ UNCHANGED <<ents, graph, vectors, docs, gone, put, announced>>

\* delete_by_module: the statement is for the rows that are there ...
DeleteOld(j) ==
    /\ pc[j] = "replace"
    /\ gone' = [gone EXCEPT ![j] = ents]
    /\ Goto(j, "deleting")
    /\ Same /\ UNCHANGED <<stores, sees, docs, put, announced>>

\* Mutant: the old entities stay.
DeletedNothing(j) ==
    /\ pc[j] = "deleting"
    /\ gone' = [gone EXCEPT ![j] = {}]
    /\ Goto(j, "insert")
    /\ Same /\ UNCHANGED <<stores, sees, docs, put, announced>>

\* ... and waits until no other transaction has them locked.
DeletedOld(j) ==
    /\ pc[j] = "deleting"
    /\ \A i \in Jobs \ {j} : Locked(i) \cap gone[j] \cap ents = {}
    /\ gone' = [gone EXCEPT ![j] = gone[j] \cap ents]
    /\ Goto(j, "insert")
    /\ Same /\ UNCHANGED <<stores, sees, docs, put, announced>>

\* Mutant: the entities are committed before the graph is written.
InsertAndCommit(j) ==
    /\ pc[j] = "insert" /\ (kind[j] = "scan" => status # "deleted")
    /\ ents' = (ents \ gone[j]) \cup (IF kind[j] = "scan" THEN {j} ELSE {})
    /\ gone' = [gone EXCEPT ![j] = {}]
    /\ Goto(j, "graph")
    /\ Same /\ UNCHANGED <<status, graph, vectors, sees, docs, put, announced>>

\* The components are summarized and inserted, if there are any.
Insert(j) ==
    /\ pc[j] = "insert"
    /\ \/ kind[j] = "scan" /\ status # "deleted" /\ put' = put \cup {j}
       \/ kind[j] = "empty" /\ UNCHANGED put
    /\ Goto(j, "graph")
    /\ Same /\ UNCHANGED <<stores, sees, docs, gone, announced>>

ClearGraph(j) ==
    /\ pc[j] = "graph"
    /\ graph' = {}
    /\ Goto(j, "write")
    /\ Same /\ UNCHANGED <<status, ents, vectors, sees, docs, gone, put, announced>>

\* write_module_graph and write_brain_graph merge nodes by name: those of
\* another generation become this one's, if they have the same names.
GraphWritten(j) == graph' = {j} \/ graph' = graph \cup {j}

WriteGraph(j) ==
    /\ pc[j] = "write"
    /\ GraphWritten(j)
    /\ Goto(j, "vectors")
    /\ Same /\ UNCHANGED <<status, ents, vectors, sees, docs, gone, put, announced>>

\* Mutant: documents are added to what the collection has.
CollectionKept(j) ==
    /\ pc[j] = "vectors"
    /\ Goto(j, "index")
    /\ Same /\ UNCHANGED <<stores, sees, docs, gone, put, announced>>

\* index_entities begins with an empty collection ...
ResetCollection(j) ==
    /\ pc[j] = "vectors"
    /\ vectors' = {}
    /\ Goto(j, "index")
    /\ Same /\ UNCHANGED <<status, ents, graph, sees, docs, gone, put, announced>>

\* ... and fills it in a thread.
Index(j) ==
    /\ pc[j] = "index"
    /\ vectors' = vectors \cup docs[j]
    /\ Goto(j, "finish")
    /\ Same /\ UNCHANGED <<status, ents, graph, sees, docs, gone, put, announced>>

\* COMPLETED and everything the transaction did.
Finish(j) ==
    /\ pc[j] = "finish" /\ status # "deleted"
    /\ status' = Flushed(j, "completed") /\ ents' = Committed(j)
    /\ Close(j) /\ Announce(j)
    /\ Same /\ UNCHANGED <<graph, vectors>>

\* Something raises, in the middle of what it does.  What index_entities
\* raises in a scan is caught, which leads to the same end.
Raise(j) ==
    /\ \/ pc[j] \in {"extract", "insert", "graph", "vectors"} /\ UNCHANGED <<graph, vectors>>
       \/ pc[j] = "write" /\ (UNCHANGED graph \/ GraphWritten(j)) /\ UNCHANGED vectors
       \/ pc[j] = "index" /\ vectors' \in {vectors, vectors \cup docs[j]} /\ UNCHANGED graph
    /\ Goto(j, "failed")
    /\ Same /\ UNCHANGED <<status, ents, sees, docs, gone, put, announced>>

\* Mutant: the failure is announced and the row forgotten.
FailOnlyAnnounced(j) ==
    /\ pc[j] = "failed" /\ status # "deleted"
    /\ ents' = Committed(j)
    /\ Close(j) /\ Announce(j)
    /\ Same /\ UNCHANGED <<status, graph, vectors>>

\* "except Exception": FAILED is committed, with what the transaction did.
Fail(j) ==
    /\ pc[j] = "failed" /\ status # "deleted"
    /\ status' = Flushed(j, "failed") /\ ents' = Committed(j)
    /\ Close(j) /\ Announce(j)
    /\ Same /\ UNCHANGED <<graph, vectors>>

\* The row is gone: a flush fails, and after it every handler, as nobody
\* rolls the session back.
Lost(j) ==
    /\ status = "deleted"
    /\ \/ pc[j] \in {"sync", "mark", "extract", "finish", "failed"}
       \/ pc[j] = "insert" /\ kind[j] = "scan"
    /\ Close(j)
    /\ Same /\ UNCHANGED <<stores, announced>>

Step(j) ==
    \/ Load(j) \/ LoadNothing(j) \/ Sync(j) \/ SyncFails(j) \/ Mark(j)
    \/ Extract(j) \/ DeleteOld(j) \/ DeletedOld(j) \/ Insert(j)
    \/ ClearGraph(j) \/ WriteGraph(j) \/ ResetCollection(j) \/ Index(j) \/ Finish(j)
    \/ Raise(j) \/ Fail(j) \/ Lost(j)

\* The server restarts: jobs, transactions and the cleanup are gone.
Restart ==
    /\ crashes < MaxCrashes /\ crashes' = crashes + 1
    /\ pc' = [j \in Jobs |-> IF pc[j] = "new" THEN "new" ELSE "done"]
    /\ sees' = [j \in Jobs |-> "pending"]
    /\ docs' = [j \in Jobs |-> {}] /\ gone' = [j \in Jobs |-> {}] /\ put' = {}
    /\ cleaner' = IF cleaner \in {"graph", "vectors", "partly"} THEN "gaveUp" ELSE cleaner
    /\ UNCHANGED <<stores, kind, announced, overlapped>>

Next ==
    \/ \E j \in Jobs : StartJob(j) \/ Step(j)
    \/ DeleteModule \/ CleanGraph \/ CleanVectors
    \/ Restart

Spec == Init /\ [][Next]_vars

\* The event loop resumes every job, and git, the models, the graph and the
\* collection answer or fail.
FairSpec == Spec /\ \A j \in Jobs : WF_vars(Step(j))

-----------------------------------------------------------------------------
(* Properties.                                                             *)

\* When jobs come one at a time, the entities of a module are those of one
\* scan: a job that fails or dies in the middle never mixes two.
OneGeneration == ~overlapped => \A g, h \in ents : g = h

\* When jobs come one at a time, each hit of a search in a COMPLETED module is
\* one of its entities, whatever jobs before the last left half-done.
HitsAreEntities == status = "completed" /\ ~overlapped => vectors \subseteq ents

\* The same of the graph, as long as no reindex has declared COMPLETED a module
\* whose graph a failed scan left behind.
NodesAreEntities ==
    status = "completed" /\ ~overlapped /\ (\A j \in Jobs : kind[j] # "reindex")
        => \A g \in graph : kind[g] = "scan" => g \in ents

\* When a module is deleted and the cleanup did not fail, nothing of it is left
\* in the graph and in the vectors, whatever scans were under way: the deletion
\* waits for one that may have written there, and one that has not yet fails
\* before it does.  Scans without a component and reindex jobs hold no lock.
DeletedLeavesNothing ==
    cleaner = "done" /\ (\A j \in Jobs : kind[j] \in {"scan", "none"})
        => graph = {} /\ vectors = {}

\* Who follows the events of a job hears of its end, however it ends, unless
\* the module is deleted or the server restarts.
EndAnnounced ==
    status # "deleted" /\ crashes = 0 => \A j \in Jobs : pc[j] = "done" => j \in announced

\* No module stays SCANNING, unless the server restarts.
ScanningEnds == status = "scanning" /\ crashes = 0 ~> status # "scanning" \/ crashes > 0
=============================================================================
