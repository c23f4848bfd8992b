------------------------- MODULE KnowledgeScan_proofs -------------------------
(***************************************************************************)
(* Theorems about KnowledgeScan, for any number of jobs of any kinds, any  *)
(* number of them under way at once and any number of restarts.            *)
(***************************************************************************)
EXTENDS KnowledgeScan, TLAPS

-----------------------------------------------------------------------------
(* Type correctness.                                                       *)

\* A job has a kind from its start, and nothing to lose before it.
Kinded ==
    \A j \in Jobs :
        /\ pc[j] # "new" => kind[j] \in Kinds
        /\ pc[j] = "new" => kind[j] = "none" /\ gone[j] = {} /\ j \notin graph

LEMMA FlushedType ==
    ASSUME TypeOK, status # "deleted", NEW j \in Jobs, NEW s \in Statuses
    PROVE  Flushed(j, s) \in Statuses
  BY DEF TypeOK, Flushed

LEMMA CommittedType ==
    ASSUME TypeOK, NEW j \in Jobs
    PROVE  Committed(j) \subseteq Jobs
  BY DEF TypeOK, Committed

LEMMA CloseType ==
    ASSUME TypeOK, NEW j \in Jobs, Close(j)
    PROVE  /\ pc' \in [Jobs -> PCs] /\ sees' \in [Jobs -> Statuses]
           /\ docs' \in [Jobs -> SUBSET Jobs] /\ gone' \in [Jobs -> SUBSET Jobs]
           /\ put' \subseteq Jobs
  BY DEF TypeOK, Close, Goto, PCs, Statuses

LEMMA StepType ==
    ASSUME TypeOK, Kinded, NEW j \in Jobs, Step(j)
    PROVE  TypeOK'
  <1> USE DEF Same, stores
  <1>0. /\ status \in Statuses \cup {"deleted"}
        /\ ents \subseteq Jobs /\ graph \subseteq Jobs /\ vectors \subseteq Jobs
        /\ pc \in [Jobs -> PCs] /\ kind \in [Jobs -> Kinds \cup {"none"}]
        /\ sees \in [Jobs -> Statuses]
        /\ docs \in [Jobs -> SUBSET Jobs] /\ gone \in [Jobs -> SUBSET Jobs]
        /\ put \subseteq Jobs /\ announced \subseteq Jobs
        /\ announced \cup {j} \subseteq Jobs
    BY DEF TypeOK
  <1>1. CASE Load(j)
    <2>1. [docs EXCEPT ![j] = CASE kind[j] = "scan"    -> {j}
                                [] kind[j] = "empty"   -> {}
                                [] kind[j] = "reindex" -> ents]
             \in [Jobs -> SUBSET Jobs] \/ kind[j] \notin {"scan", "empty", "reindex"}
      BY <1>0
    <2>2. kind[j] \in {"scan", "empty", "reindex"}
      BY <1>1, KindsAssumption DEF Load, Kinded
    <2> QED
      BY <1>1, <2>1, <2>2 DEF Load, TypeOK, Goto, PCs
  <1>2. CASE LoadNothing(j)
    BY <1>0, <1>2, CloseType DEF LoadNothing, TypeOK, Announce, Statuses
  <1>3. CASE Sync(j)
    BY <1>3 DEF Sync, TypeOK, Goto, PCs
  <1>4. CASE SyncFails(j)
    <2>1. "failed" \in Statuses
      BY DEF Statuses
    <2> QED
      BY <1>0, <1>4, <2>1, CloseType, FlushedType DEF SyncFails, TypeOK, Announce
  <1>5. CASE Mark(j)
    <2>1. "scanning" \in Statuses
      BY DEF Statuses
    <2>2. status' \in Statuses
      BY <1>5, <2>1, FlushedType DEF Mark
    <2>3. sees' \in [Jobs -> Statuses]
      BY <1>0, <1>5, <2>2 DEF Mark
    <2>4. pc' \in [Jobs -> PCs]
      BY <1>0, <1>5 DEF Mark, Goto, PCs, Writing
    <2> QED
      BY <1>5, <2>2, <2>3, <2>4 DEF Mark, TypeOK
  <1>6. CASE Extract(j)
    <2>1. "scanning" \in Statuses
      BY DEF Statuses
    <2>2. status' \in Statuses
      BY <1>6, <2>1, FlushedType DEF Extract
    <2>3. pc' \in [Jobs -> PCs]
      BY <1>0, <1>6 DEF Extract, Goto, PCs
    <2> QED
      BY <1>6, <2>1, <2>2, <2>3 DEF Extract, TypeOK
  <1>7. CASE DeleteOld(j)
    BY <1>7 DEF DeleteOld, TypeOK, Goto, PCs
  <1>8. CASE DeletedOld(j)
    <2>1. gone[j] \cap ents \subseteq Jobs
      BY <1>0
    <2>2. gone' \in [Jobs -> SUBSET Jobs]
      BY <1>0, <1>8, <2>1 DEF DeletedOld
    <2>3. pc' \in [Jobs -> PCs]
      BY <1>0, <1>8 DEF DeletedOld, Goto, PCs, Writing
    <2> QED
      BY <1>8, <2>2, <2>3 DEF DeletedOld, TypeOK
  <1>9. CASE Insert(j)
    BY <1>9 DEF Insert, TypeOK, Goto, PCs, Writing
  <1>10. CASE ClearGraph(j)
    BY <1>10 DEF ClearGraph, TypeOK, Goto, PCs, Writing
  <1>11. CASE WriteGraph(j)
    BY <1>11 DEF WriteGraph, GraphWritten, TypeOK, Goto, PCs, Writing
  <1>12. CASE ResetCollection(j)
    BY <1>12 DEF ResetCollection, TypeOK, Goto, PCs, Writing
  <1>13. CASE Index(j)
    BY <1>13 DEF Index, TypeOK, Goto, PCs, Writing
  <1>14. CASE Finish(j)
    <2>1. "completed" \in Statuses
      BY DEF Statuses
    <2> QED
      BY <1>0, <1>14, <2>1, CloseType, FlushedType, CommittedType DEF Finish, TypeOK, Announce
  <1>15. CASE Raise(j)
    <2>1. graph' \subseteq Jobs /\ vectors' \subseteq Jobs
      BY <1>0, <1>15 DEF Raise, GraphWritten
    <2> QED
      BY <1>15, <2>1 DEF Raise, TypeOK, Goto, PCs, Writing
  <1>16. CASE Fail(j)
    <2>1. "failed" \in Statuses
      BY DEF Statuses
    <2> QED
      BY <1>0, <1>16, <2>1, CloseType, FlushedType, CommittedType DEF Fail, TypeOK, Announce
  <1>17. CASE Lost(j)
    BY <1>17, CloseType DEF Lost, TypeOK
  <1> QED
    BY <1>1, <1>2, <1>3, <1>4, <1>5, <1>6, <1>7, <1>8, <1>9, <1>10, <1>11, <1>12, <1>13,
       <1>14, <1>15, <1>16, <1>17 DEF Step

\* A step of a job.
LEMMA StepKinded ==
    ASSUME TypeOK, Kinded, NEW j \in Jobs, Step(j)
    PROVE  Kinded'
  <1> USE DEF Same, stores, Kinded, Goto
  <1>1. kind' = kind /\ pc[j] # "new" /\ pc'[j] # "new"
    BY DEF TypeOK, Step, Load, LoadNothing, Sync, SyncFails, Mark, Extract, DeleteOld,
           DeletedOld, Insert, ClearGraph, WriteGraph, ResetCollection, Index, Finish,
           Raise, Fail, Lost, Close
  <1>2. \A i \in Jobs \ {j} : pc'[i] = pc[i] /\ gone'[i] = gone[i]
    BY DEF TypeOK, Step, Load, LoadNothing, Sync, SyncFails, Mark, Extract, DeleteOld,
           DeletedOld, Insert, ClearGraph, WriteGraph, ResetCollection, Index, Finish,
           Raise, Fail, Lost, Close
  <1>3. graph' \subseteq graph \cup {j}
    BY DEF Step, Load, LoadNothing, Sync, SyncFails, Mark, Extract, DeleteOld,
           DeletedOld, Insert, ClearGraph, WriteGraph, ResetCollection, Index, Finish,
           Raise, Fail, Lost, GraphWritten
  <1> QED
    BY <1>1, <1>2, <1>3

LEMMA InitTypeOK == Init => TypeOK /\ Kinded
  <1> SUFFICES ASSUME Init PROVE TypeOK /\ Kinded
    OBVIOUS
  <1>1. crashes \in 0..MaxCrashes
    BY CrashesAssumption DEF Init
  <1> QED
    BY <1>1 DEF Init, TypeOK, Kinded, Statuses, PCs

LEMMA NextTypeOK == TypeOK /\ Kinded /\ [Next]_vars => TypeOK' /\ Kinded'
  <1> SUFFICES ASSUME TypeOK, Kinded, [Next]_vars PROVE TypeOK' /\ Kinded'
    OBVIOUS
  <1>1. ASSUME NEW j \in Jobs, StartJob(j) PROVE TypeOK' /\ Kinded'
    BY <1>1 DEF StartJob, stores, TypeOK, Kinded, Goto, PCs
  <1>2. ASSUME NEW j \in Jobs, Step(j) PROVE TypeOK' /\ Kinded'
    BY <1>2, StepType, StepKinded
  <1>3. CASE DeleteModule
    BY <1>3 DEF DeleteModule, TypeOK, Kinded, jobs
  <1>4. CASE CleanGraph
    BY <1>4 DEF CleanGraph, TypeOK, Kinded, jobs
  <1>5. CASE CleanVectors
    BY <1>5 DEF CleanVectors, TypeOK, Kinded, jobs
  <1>6. CASE Restart
    BY <1>6, CrashesAssumption DEF Restart, TypeOK, Kinded, stores, PCs, Statuses
  <1>7. CASE UNCHANGED vars
    BY <1>7 DEF vars, stores, jobs, TypeOK, Kinded
  <1> QED
    BY <1>1, <1>2, <1>3, <1>4, <1>5, <1>6, <1>7 DEF Next

\* Every state the jobs of a module can reach is well typed: in particular
\* scan_status is one of ScanStatus as long as the module has a row.
THEOREM TypeCorrect == Spec => []TypeOK
  <1>1. Init => TypeOK /\ Kinded
    BY InitTypeOK
  <1>2. TypeOK /\ Kinded /\ [Next]_vars => TypeOK' /\ Kinded'
    BY NextTypeOK
  <1> QED
    BY <1>1, <1>2, PTL DEF Spec

-----------------------------------------------------------------------------
(* What a step of a job leaves alone.                                      *)

LEMMA Frame ==
    ASSUME TypeOK, NEW j \in Jobs, Step(j)
    PROVE  /\ UNCHANGED <<kind, cleaner, overlapped, crashes>>
           /\ pc[j] \notin {"new", "done"}
           /\ \A i \in Jobs \ {j} : /\ pc'[i] = pc[i] /\ gone'[i] = gone[i]
                                    /\ i \in put' <=> i \in put
           /\ status' = "deleted" <=> status = "deleted"
  <1> USE DEF Same, stores
  <1>1. UNCHANGED <<kind, cleaner, overlapped, crashes>> /\ pc[j] \notin {"new", "done"}
    BY DEF Step, Load, LoadNothing, Sync, SyncFails, Mark, Extract, DeleteOld,
           DeletedOld, Insert, ClearGraph, WriteGraph, ResetCollection, Index, Finish,
           Raise, Fail, Lost
  <1>2. \A i \in Jobs \ {j} : pc'[i] = pc[i] /\ gone'[i] = gone[i] /\ (i \in put' <=> i \in put)
    BY DEF TypeOK, Step, Load, LoadNothing, Sync, SyncFails, Mark, Extract, DeleteOld,
           DeletedOld, Insert, ClearGraph, WriteGraph, ResetCollection, Index, Finish,
           Raise, Fail, Lost, Close, Goto
  <1>3. status' = "deleted" <=> status = "deleted"
    BY DEF Step, Load, LoadNothing, Sync, SyncFails, Mark, Extract, DeleteOld,
           DeletedOld, Insert, ClearGraph, WriteGraph, ResetCollection, Index, Finish,
           Raise, Fail, Lost, Flushed
  <1> QED
    BY <1>1, <1>2, <1>3

-----------------------------------------------------------------------------
(* The end of every job is announced.                                      *)

LEMMA NextEndAnnounced == TypeOK /\ EndAnnounced /\ [Next]_vars => EndAnnounced'
  <1> SUFFICES ASSUME TypeOK, EndAnnounced, [Next]_vars PROVE EndAnnounced'
    OBVIOUS
  <1> USE DEF EndAnnounced
  <1>1. ASSUME NEW j \in Jobs, StartJob(j) PROVE EndAnnounced'
    BY <1>1 DEF StartJob, stores, TypeOK, Goto
  <1>2. ASSUME NEW j \in Jobs, Step(j) PROVE EndAnnounced'
    <2>1. announced \subseteq announced'
      BY <1>2 DEF Step, Load, LoadNothing, Sync, SyncFails, Mark, Extract, DeleteOld,
             DeletedOld, Insert, ClearGraph, WriteGraph, ResetCollection, Index, Finish,
             Raise, Fail, Lost, Announce, Same
    <2>2. pc'[j] = "done" => status = "deleted" \/ j \in announced'
      BY <1>2 DEF TypeOK, Step, Load, LoadNothing, Sync, SyncFails, Mark, Extract, DeleteOld,
             DeletedOld, Insert, ClearGraph, WriteGraph, ResetCollection, Index, Finish,
             Raise, Fail, Lost, Announce, Goto
    <2> QED
      BY <1>2, <2>1, <2>2, Frame
  <1>3. CASE DeleteModule
    BY <1>3 DEF DeleteModule
  <1>4. CASE CleanGraph
    BY <1>4 DEF CleanGraph, jobs
  <1>5. CASE CleanVectors
    BY <1>5 DEF CleanVectors, jobs
  <1>6. CASE Restart
    BY <1>6, CrashesAssumption DEF Restart, TypeOK
  <1>7. CASE UNCHANGED vars
    BY <1>7 DEF vars, stores, jobs
  <1> QED
    BY <1>1, <1>2, <1>3, <1>4, <1>5, <1>6, <1>7 DEF Next

\* A job that ended in a run of the server has published scan_completed or
\* scan_failed, unless its module is gone: whichever handler ends it.
THEOREM EndIsAnnounced == Spec => []EndAnnounced
  <1>1. Init => TypeOK /\ Kinded /\ EndAnnounced
    BY InitTypeOK DEF Init, EndAnnounced
  <1>2. TypeOK /\ Kinded /\ EndAnnounced /\ [Next]_vars => TypeOK' /\ Kinded' /\ EndAnnounced'
    BY NextTypeOK, NextEndAnnounced
  <1> QED
    BY <1>1, <1>2, PTL DEF Spec

-----------------------------------------------------------------------------
(* The locks, the deletion and what it leaves.                             *)

\* Which jobs hold what: uncommitted entities belong to scans that are past
\* the insertion, and while there are any the module has its row.
Locks ==
    /\ \A j \in put : pc[j] \in Writing /\ kind[j] = "scan"
    /\ \A j \in Jobs : kind[j] = "scan" /\ pc[j] \in {"graph", "write", "vectors", "index", "finish"}
                         => j \in put
    /\ \A j \in Jobs : kind[j] = "reindex"
                         => gone[j] = {} /\ pc[j] \notin {"sync", "extract", "replace", "deleting",
                                                          "insert", "graph", "write"}
    /\ put # {} => status # "deleted"
    /\ cleaner # "off" <=> status = "deleted"

LEMMA StepLocks ==
    ASSUME TypeOK, Kinded, Locks, NEW j \in Jobs, Step(j)
    PROVE  Locks'
  <1> USE DEF Same, stores, Goto
  <1>1. j \in put' => pc'[j] \in Writing /\ kind[j] = "scan"
    BY DEF TypeOK, Locks, Step, Load, LoadNothing, Sync, SyncFails, Mark, Extract, DeleteOld,
           DeletedOld, Insert, ClearGraph, WriteGraph, ResetCollection, Index, Finish,
           Raise, Fail, Lost, Close, Writing
  <1>2. kind[j] = "scan" /\ pc'[j] \in {"graph", "write", "vectors", "index", "finish"}
          => j \in put'
    BY DEF TypeOK, Locks, Step, Load, LoadNothing, Sync, SyncFails, Mark, Extract, DeleteOld,
           DeletedOld, Insert, ClearGraph, WriteGraph, ResetCollection, Index, Finish,
           Raise, Fail, Lost, Close, Writing
  <1>3. kind[j] = "reindex"
          => gone'[j] = {} /\ pc'[j] \notin {"sync", "extract", "replace", "deleting",
                                             "insert", "graph", "write"}
    BY DEF TypeOK, Locks, Step, Load, LoadNothing, Sync, SyncFails, Mark, Extract, DeleteOld,
           DeletedOld, Insert, ClearGraph, WriteGraph, ResetCollection, Index, Finish,
           Raise, Fail, Lost, Close
  <1>4. put' # {} => status' # "deleted"
    <2>1. put' # put => put' \subseteq put \/ status # "deleted"
      BY DEF Step, Load, LoadNothing, Sync, SyncFails, Mark, Extract, DeleteOld,
             DeletedOld, Insert, ClearGraph, WriteGraph, ResetCollection, Index, Finish,
             Raise, Fail, Lost, Close
    <2> QED
      BY <2>1, Frame DEF Locks
  <1>f. /\ UNCHANGED <<kind, cleaner>> /\ (status' = "deleted" <=> status = "deleted")
        /\ \A i \in Jobs \ {j} : /\ pc'[i] = pc[i] /\ gone'[i] = gone[i]
                                 /\ i \in put' <=> i \in put
    BY Frame
  <1>5. put' \subseteq Jobs
    BY StepType DEF TypeOK
  <1>6. \A i \in put' : pc'[i] \in Writing /\ kind'[i] = "scan"
    BY <1>1, <1>5, <1>f DEF Locks
  <1>7. \A i \in Jobs : kind'[i] = "scan" /\ pc'[i] \in {"graph", "write", "vectors", "index", "finish"}
                        => i \in put'
    BY <1>2, <1>f DEF Locks
  <1>8. \A i \in Jobs : kind'[i] = "reindex"
                        => gone'[i] = {} /\ pc'[i] \notin {"sync", "extract", "replace", "deleting",
                                                           "insert", "graph", "write"}
    BY <1>3, <1>f DEF Locks
  <1>9. cleaner' # "off" <=> status' = "deleted"
    BY <1>f DEF Locks
  <1> QED
    BY <1>4, <1>6, <1>7, <1>8, <1>9 DEF Locks

LEMMA NextLocks == TypeOK /\ Kinded /\ Locks /\ [Next]_vars => Locks'
  <1> SUFFICES ASSUME TypeOK, Kinded, Locks, [Next]_vars PROVE Locks'
    OBVIOUS
  <1>1. ASSUME NEW j \in Jobs, StartJob(j) PROVE Locks'
    <2>1. /\ \A i \in Jobs \ {j} : pc'[i] = pc[i] /\ kind'[i] = kind[i]
          /\ pc'[j] = "begin" /\ gone[j] = {} /\ pc[j] = "new"
          /\ UNCHANGED <<gone, put, status, cleaner>>
      BY <1>1 DEF StartJob, stores, TypeOK, Kinded, Goto
    <2>2. j \notin put
      BY <2>1 DEF Locks, Writing
    <2> QED
      BY <2>1, <2>2 DEF Locks, TypeOK
  <1>2. ASSUME NEW j \in Jobs, Step(j) PROVE Locks'
    BY <1>2, StepLocks
  <1>3. CASE DeleteModule
    BY <1>3 DEF DeleteModule, Locks, jobs
  <1>4. CASE CleanGraph
    BY <1>4 DEF CleanGraph, Locks, jobs
  <1>5. CASE CleanVectors
    BY <1>5 DEF CleanVectors, Locks, jobs
  <1>6. CASE Restart
    BY <1>6 DEF Restart, Locks, TypeOK, stores
  <1>7. CASE UNCHANGED vars
    BY <1>7 DEF vars, stores, jobs, Locks
  <1> QED
    BY <1>1, <1>2, <1>3, <1>4, <1>5, <1>6, <1>7 DEF Next

\* What the cleanup removed stays removed.
Cleaned ==
    (\A j \in Jobs : kind[j] \in {"scan", "none"})
        => /\ cleaner \in {"vectors", "done"} => graph = {}
           /\ cleaner = "done" => vectors = {}

LEMMA NextCleaned == TypeOK /\ Kinded /\ Locks /\ Cleaned /\ [Next]_vars => Cleaned'
  <1> SUFFICES ASSUME TypeOK, Kinded, Locks, Cleaned, [Next]_vars PROVE Cleaned'
    OBVIOUS
  <1>1. ASSUME NEW j \in Jobs, StartJob(j) PROVE Cleaned'
    <2>1. cleaner' = "off"
      BY <1>1 DEF StartJob, Locks
    <2> QED
      BY <2>1 DEF Cleaned
  <1>2. ASSUME NEW j \in Jobs, Step(j) PROVE Cleaned'
    <2>1. SUFFICES ASSUME \A i \in Jobs : kind[i] \in {"scan", "none"}, cleaner # "off"
                   PROVE  graph' \subseteq graph /\ vectors' \subseteq vectors
      BY <1>2, Frame DEF Cleaned
    <2>2. put = {}
      BY <2>1 DEF Locks
    <2>3. kind[j] = "scan"
      BY <1>2, <2>1, Frame, KindsAssumption DEF Kinded
    <2>4. pc[j] \notin {"graph", "write", "vectors", "index", "finish"}
      BY <2>2, <2>3 DEF Locks
    <2> QED
      BY <1>2, <2>4 DEF Step, Load, LoadNothing, Sync, SyncFails, Mark, Extract, DeleteOld,
             DeletedOld, Insert, ClearGraph, WriteGraph, ResetCollection, Index, Finish,
             Raise, Fail, Lost, Same, stores
  <1>3. CASE DeleteModule
    BY <1>3 DEF DeleteModule, Cleaned
  <1>4. CASE CleanGraph
    BY <1>4 DEF CleanGraph, Cleaned, jobs
  <1>5. CASE CleanVectors
    BY <1>5 DEF CleanVectors, Cleaned, jobs
  <1>6. CASE Restart
    BY <1>6 DEF Restart, Cleaned, stores
  <1>7. CASE UNCHANGED vars
    BY <1>7 DEF vars, stores, jobs, Cleaned
  <1> QED
    BY <1>1, <1>2, <1>3, <1>4, <1>5, <1>6, <1>7 DEF Next

\* Whatever scans were under way when a module was deleted, a cleanup that did
\* not fail has the last word: a scan that may still write to the graph or the
\* vectors has uncommitted entities, for which the deletion waits.
THEOREM DeletionIsClean == Spec => []DeletedLeavesNothing
  <1>1. Init => TypeOK /\ Kinded /\ Locks /\ Cleaned
    BY InitTypeOK DEF Init, Locks, Cleaned
  <1>2. TypeOK /\ Kinded /\ Locks /\ Cleaned /\ [Next]_vars
          => TypeOK' /\ Kinded' /\ Locks' /\ Cleaned'
    BY NextTypeOK, NextLocks, NextCleaned
  <1>3. Cleaned => DeletedLeavesNothing
    BY DEF Cleaned, DeletedLeavesNothing
  <1> QED
    BY <1>1, <1>2, <1>3, PTL DEF Spec

-----------------------------------------------------------------------------
(* A job that is alone.                                                    *)

Marked == Writing \cup {"extract", "replace", "deleting"}

Alone == ~overlapped => \A i, j \in Live : i = j

\* What a job that is alone knows of the stores where it is: the status, the
\* entities its DELETE is for, the graph and the vectors it has just cleared.
Knows(j) ==
    /\ pc[j] \in {"sync", "mark"} => status \in {sees[j], "deleted"}
    /\ pc[j] \in Marked => status \in {"scanning", "deleted"}
    /\ pc[j] \in {"deleting", "insert"} => ents \subseteq gone[j]
    /\ j \in put => ents \subseteq gone[j]
    /\ pc[j] \in Marked \cup {"mark", "sync"} /\ kind[j] = "scan" => docs[j] = {j}
    /\ pc[j] \in Marked \cup {"mark", "sync"} /\ kind[j] = "empty" => docs[j] = {}
    /\ pc[j] \in Marked \cup {"mark"} /\ kind[j] = "reindex"
         => status = "deleted" \/ docs[j] \subseteq ents
    /\ pc[j] = "write" => graph = {}
    /\ pc[j] \in {"vectors", "index", "finish"} /\ kind[j] # "reindex" => graph \subseteq {j}
    /\ pc[j] = "index" => vectors = {}
    /\ pc[j] = "finish" => vectors \subseteq docs[j]

\* The inductive invariant: what jobs know, and the three properties of the
\* stores of a module whose jobs come one at a time.
Solo == ~overlapped => \A j \in Jobs : Knows(j)

OneByOne == TypeOK /\ Kinded /\ Locks /\ Alone /\ Solo

LEMMA NextAlone == TypeOK /\ Alone /\ [Next]_vars => Alone'
  <1> SUFFICES ASSUME TypeOK, Alone, [Next]_vars PROVE Alone'
    OBVIOUS
  <1> USE DEF Alone, Live
  <1>1. ASSUME NEW j \in Jobs, StartJob(j) PROVE Alone'
    BY <1>1 DEF StartJob, TypeOK, Goto
  <1>2. ASSUME NEW j \in Jobs, Step(j) PROVE Alone'
    BY <1>2, Frame
  <1>3. CASE DeleteModule
    BY <1>3 DEF DeleteModule, jobs
  <1>4. CASE CleanGraph
    BY <1>4 DEF CleanGraph, jobs
  <1>5. CASE CleanVectors
    BY <1>5 DEF CleanVectors, jobs
  <1>6. CASE Restart
    BY <1>6 DEF Restart
  <1>7. CASE UNCHANGED vars
    BY <1>7 DEF vars, jobs
  <1> QED
    BY <1>1, <1>2, <1>3, <1>4, <1>5, <1>6, <1>7 DEF Next

\* Who is not under way knows nothing.
LEMMA IdleKnows ==
    ASSUME Locks, NEW j \in Jobs, pc[j] \in {"new", "begin", "done"}
    PROVE  Knows(j)
  BY DEF Locks, Knows, Marked, Writing

LEMMA StepKnows ==
    ASSUME OneByOne, ~overlapped, NEW j \in Jobs, Step(j)
    PROVE  Knows(j)'
  <1> USE DEF Same, stores, Goto
  <1>0. TypeOK /\ Knows(j) /\ Locks /\ Kinded /\ Locks'
    BY StepLocks DEF OneByOne, Solo
  <1>t. TypeOK'
    BY StepType DEF OneByOne
  <1>m. Marked = {"insert", "graph", "write", "vectors", "index", "finish", "failed",
                  "extract", "replace", "deleting"}
    BY DEF Marked, Writing
  <1>1. CASE Load(j)
    <2>1. kind[j] \in {"scan", "empty", "reindex"}
      BY <1>0, <1>1, KindsAssumption DEF Load, Kinded
    <2>2. /\ pc'[j] = IF kind[j] = "reindex" THEN "mark" ELSE "sync"
          /\ sees'[j] = status /\ status' = status /\ ents' = ents /\ kind' = kind /\ put' = put
          /\ docs'[j] = CASE kind[j] = "scan"    -> {j}
                          [] kind[j] = "empty"   -> {}
                          [] kind[j] = "reindex" -> ents
      BY <1>0, <1>1 DEF Load, TypeOK
    <2>3. j \notin put
      BY <1>0, <1>1 DEF Load, Locks, Writing
    <2> QED
      BY <1>m, <2>1, <2>2, <2>3 DEF Knows
  <1>2. CASE LoadNothing(j)
    BY <1>0, <1>2, <1>t, IdleKnows DEF LoadNothing, Close, TypeOK, Knows, Marked, Writing
  <1>3. CASE Sync(j)
    BY <1>0, <1>3, <1>m DEF Sync, TypeOK, Knows, Locks
  <1>4. CASE SyncFails(j)
    BY <1>0, <1>4 DEF SyncFails, Close, TypeOK, Knows, Marked, Writing
  <1>5. CASE Mark(j)
    <2>1. status' = "scanning"
      BY <1>0, <1>5 DEF Mark, Knows, Flushed
    <2>2. /\ pc'[j] = IF kind[j] = "reindex" THEN "vectors" ELSE "extract"
          /\ kind' = kind /\ docs' = docs /\ ents' = ents /\ put' = put /\ graph' = graph
          /\ pc[j] = "mark" /\ status # "deleted"
      BY <1>0, <1>5 DEF Mark, TypeOK
    <2>3. j \notin put
      BY <1>0, <2>2 DEF Locks, Writing
    <2> QED
      BY <1>0, <1>m, <2>1, <2>2, <2>3 DEF Knows
  <1>6. CASE Extract(j)
    <2>1. status' = "scanning"
      BY <1>0, <1>m, <1>6 DEF Extract, Knows, Flushed
    <2>2. /\ pc'[j] = "replace" /\ pc[j] = "extract"
          /\ kind' = kind /\ docs' = docs /\ ents' = ents /\ put' = put
      BY <1>0, <1>6 DEF Extract, TypeOK
    <2>3. j \notin put /\ kind[j] # "reindex"
      BY <1>0, <2>2 DEF Locks, Writing
    <2> QED
      BY <1>0, <1>m, <2>1, <2>2, <2>3 DEF Knows
  <1>7. CASE DeleteOld(j)
    BY <1>0, <1>7, <1>m DEF DeleteOld, TypeOK, Knows, Locks, Writing
  <1>8. CASE DeletedOld(j)
    BY <1>0, <1>8, <1>m DEF DeletedOld, TypeOK, Knows, Locks, Writing
  <1>9. CASE Insert(j)
    BY <1>0, <1>9, <1>m DEF Insert, TypeOK, Knows, Locks
  <1>10. CASE ClearGraph(j)
    BY <1>0, <1>10, <1>m DEF ClearGraph, TypeOK, Knows, Locks
  <1>11. CASE WriteGraph(j)
    BY <1>0, <1>11, <1>m DEF WriteGraph, GraphWritten, TypeOK, Knows, Locks
  <1>12. CASE ResetCollection(j)
    BY <1>0, <1>12, <1>m DEF ResetCollection, TypeOK, Knows, Locks
  <1>13. CASE Index(j)
    BY <1>0, <1>13, <1>m DEF Index, TypeOK, Knows, Locks
  <1>14. CASE Finish(j)
    BY <1>0, <1>14 DEF Finish, Close, TypeOK, Knows, Marked, Writing
  <1>15. CASE Raise(j)
    <2>1. /\ pc'[j] = "failed" /\ pc[j] \in Marked
          /\ UNCHANGED <<status, ents, kind, docs, gone, put>>
      BY <1>0, <1>15, <1>m DEF Raise, TypeOK
    <2> QED
      BY <1>0, <1>m, <2>1 DEF Knows
  <1>16. CASE Fail(j)
    BY <1>0, <1>16 DEF Fail, Close, TypeOK, Knows, Marked, Writing
  <1>17. CASE Lost(j)
    BY <1>0, <1>17 DEF Lost, Close, TypeOK, Knows, Marked, Writing
  <1> QED
    BY <1>1, <1>2, <1>3, <1>4, <1>5, <1>6, <1>7, <1>8, <1>9, <1>10, <1>11, <1>12, <1>13,
       <1>14, <1>15, <1>16, <1>17 DEF Step

\* When one job is under way, the others know nothing.
LEMMA OthersIdle ==
    ASSUME TypeOK, Alone, ~overlapped, NEW j \in Live, NEW i \in Jobs \ {j}
    PROVE  pc[i] \in {"new", "done"}
  BY DEF Alone, Live

LEMMA NextSolo == OneByOne /\ [Next]_vars => Solo'
  <1> SUFFICES ASSUME OneByOne, [Next]_vars, ~overlapped', NEW i \in Jobs PROVE Knows(i)'
    BY DEF Solo
  <1>0. TypeOK /\ Locks /\ Kinded /\ Alone /\ Solo /\ Locks'
    BY NextLocks DEF OneByOne
  <1>1. ASSUME NEW j \in Jobs, StartJob(j) PROVE Knows(i)'
    <2>1. Live = {} /\ put' = put
      BY <1>1 DEF StartJob
    <2>2. pc'[i] \in {"new", "begin", "done"}
      BY <1>0, <1>1, <2>1 DEF StartJob, Goto, TypeOK, Live
    <2>3. i \notin put'
      BY <1>0, <2>2 DEF Locks, Writing
    <2> QED
      BY <2>2, <2>3 DEF Knows, Marked, Writing
  <1>2. ASSUME NEW j \in Jobs, Step(j) PROVE Knows(i)'
    <2>1. ~overlapped /\ j \in Live
      BY <1>0, <1>2, Frame DEF Live
    <2>2. CASE i = j
      BY <1>2, <2>1, <2>2, StepKnows
    <2>3. CASE i # j
      <3>1. pc'[i] \in {"new", "done"}
        BY <1>0, <1>2, <2>1, <2>3, OthersIdle, Frame
      <3>2. i \notin put'
        BY <1>0, <3>1 DEF Locks, Writing
      <3> QED
        BY <3>1, <3>2 DEF Knows, Marked, Writing
    <2> QED
      BY <2>2, <2>3
  <1>3. CASE DeleteModule
    BY <1>0, <1>3 DEF DeleteModule, Solo, Knows, jobs, Marked, Writing
  <1>4. CASE CleanGraph
    BY <1>0, <1>4 DEF CleanGraph, Solo, Knows, jobs
  <1>5. CASE CleanVectors
    BY <1>0, <1>5 DEF CleanVectors, Solo, Knows, jobs
  <1>6. CASE Restart
    BY <1>0, <1>6 DEF Restart, Knows, Marked, Writing
  <1>7. CASE UNCHANGED vars
    BY <1>0, <1>7 DEF vars, stores, jobs, Solo, Knows
  <1> QED
    BY <1>1, <1>2, <1>3, <1>4, <1>5, <1>6, <1>7 DEF Next

LEMMA InitOneByOne == Init => OneByOne
  <1> SUFFICES ASSUME Init PROVE OneByOne
    OBVIOUS
  <1>1. Locks
    BY DEF Init, Locks
  <1>2. Alone
    BY DEF Init, Alone, Live
  <1>3. Solo
    BY <1>1, IdleKnows DEF Init, Solo
  <1> QED
    BY <1>1, <1>2, <1>3, InitTypeOK DEF OneByOne

LEMMA NextOneByOne == OneByOne /\ [Next]_vars => OneByOne'
  BY NextTypeOK, NextLocks, NextAlone, NextSolo DEF OneByOne

-----------------------------------------------------------------------------
(* The stores of a module whose jobs come one at a time.                   *)

\* What a job commits, and what the stores are when it does.
LEMMA Commits ==
    ASSUME OneByOne, ~overlapped, NEW j \in Jobs, pc[j] \in {"finish", "failed"}
    PROVE  /\ j \in put => Committed(j) = {j}
           /\ j \notin put => Committed(j) \subseteq ents
           /\ kind[j] = "reindex" => Committed(j) = ents
  <1>1. Locks /\ Knows(j) /\ Locked(j) = gone[j]
    BY DEF OneByOne, Solo, Locked, Writing
  <1>2. j \in put => ents \subseteq gone[j] /\ kind[j] = "scan"
    BY <1>1 DEF Knows, Locks
  <1>3. kind[j] = "reindex" => gone[j] = {}
    BY <1>1 DEF Locks
  <1> QED
    BY <1>1, <1>2, <1>3 DEF Committed

\* Entities change when a job commits and when the module is deleted.
LEMMA EntsChange ==
    ASSUME OneByOne, NEW j \in Jobs, Step(j), ents' # ents
    PROVE  pc[j] \in {"finish", "failed"} /\ ents' = Committed(j)
  BY DEF Step, Load, LoadNothing, Sync, SyncFails, Mark, Extract, DeleteOld,
         DeletedOld, Insert, ClearGraph, WriteGraph, ResetCollection, Index, Finish,
         Raise, Fail, Lost, Same, stores

LEMMA NextOneGeneration == OneByOne /\ OneGeneration /\ [Next]_vars => OneGeneration'
  <1> SUFFICES ASSUME OneByOne, OneGeneration, [Next]_vars PROVE OneGeneration'
    OBVIOUS
  <1> USE DEF OneGeneration
  <1>1. ASSUME NEW j \in Jobs, StartJob(j) PROVE OneGeneration'
    BY <1>1 DEF StartJob, stores
  <1>2. ASSUME NEW j \in Jobs, Step(j) PROVE OneGeneration'
    <2>1. CASE ents' = ents
      BY <1>2, <2>1, Frame DEF OneByOne
    <2>2. CASE overlapped
      BY <1>2, <2>2, Frame DEF OneByOne
    <2>3. CASE ents' # ents /\ ~overlapped
      BY <1>2, <2>3, Commits, EntsChange
    <2> QED
      BY <2>1, <2>2, <2>3 DEF OneByOne, TypeOK
  <1>3. CASE DeleteModule
    BY <1>3 DEF DeleteModule
  <1>4. CASE CleanGraph
    BY <1>4 DEF CleanGraph
  <1>5. CASE CleanVectors
    BY <1>5 DEF CleanVectors
  <1>6. CASE Restart
    BY <1>6 DEF Restart, stores
  <1>7. CASE UNCHANGED vars
    BY <1>7 DEF vars, stores
  <1> QED
    BY <1>1, <1>2, <1>3, <1>4, <1>5, <1>6, <1>7 DEF Next

\* Scans that come one at a time never mix their entities, wherever they fail
\* or the server dies: old rows are deleted and new ones inserted in one
\* transaction.
THEOREM Generations == Spec => []OneGeneration
  <1>1. Init => OneByOne /\ OneGeneration
    BY InitOneByOne DEF Init, OneGeneration
  <1>2. OneByOne /\ OneGeneration /\ [Next]_vars => OneByOne' /\ OneGeneration'
    BY NextOneByOne, NextOneGeneration
  <1> QED
    BY <1>1, <1>2, PTL DEF Spec

\* A step of a job that is alone makes the module COMPLETED or leaves a
\* COMPLETED module's stores alone.
LEMMA Completes ==
    ASSUME OneByOne, ~overlapped, NEW j \in Jobs, Step(j), status' = "completed"
    PROVE  \/ Finish(j)
           \/ status = "completed" /\ UNCHANGED <<ents, graph>> /\ vectors' \subseteq vectors
  <1> USE DEF Same, stores
  <1>0. Knows(j)
    BY DEF OneByOne, Solo
  <1>m. Marked = {"insert", "graph", "write", "vectors", "index", "finish", "failed",
                  "extract", "replace", "deleting"}
    BY DEF Marked, Writing
  <1>1. CASE Load(j) \/ Sync(j)
    BY <1>1 DEF Load, Sync
  <1>2. CASE LoadNothing(j)
    BY <1>2 DEF LoadNothing
  <1>3. CASE SyncFails(j)
    BY <1>0, <1>3 DEF SyncFails, Flushed, Knows
  <1>4. CASE Mark(j)
    BY <1>0, <1>4 DEF Mark, Flushed, Knows
  <1>5. CASE pc[j] \in Marked /\ UNCHANGED status
    BY <1>0, <1>5 DEF Knows
  <1>6. CASE Extract(j)
    BY <1>0, <1>6, <1>m DEF Extract, Flushed, Knows
  <1>7. CASE Fail(j)
    BY <1>0, <1>7, <1>m DEF Fail, Flushed, Knows
  <1>8. CASE Lost(j)
    BY <1>8 DEF Lost
  <1>9. CASE DeleteOld(j) \/ DeletedOld(j) \/ Insert(j) \/ ClearGraph(j) \/ WriteGraph(j)
               \/ ResetCollection(j) \/ Index(j) \/ Raise(j)
    BY <1>5, <1>9, <1>m DEF DeleteOld, DeletedOld, Insert, ClearGraph, WriteGraph,
       ResetCollection, Index, Raise
  <1> QED
    BY <1>1, <1>2, <1>3, <1>4, <1>6, <1>7, <1>8, <1>9 DEF Step

LEMMA NextHits == OneByOne /\ HitsAreEntities /\ [Next]_vars => HitsAreEntities'
  <1> SUFFICES ASSUME OneByOne, HitsAreEntities, [Next]_vars,
                      status' = "completed", ~overlapped'
               PROVE  vectors' \subseteq ents'
    BY DEF HitsAreEntities
  <1> USE DEF HitsAreEntities
  <1>1. ASSUME NEW j \in Jobs, StartJob(j) PROVE vectors' \subseteq ents'
    BY <1>1 DEF StartJob, stores
  <1>2. ASSUME NEW j \in Jobs, Step(j) PROVE vectors' \subseteq ents'
    <2>1. ~overlapped
      BY <1>2, Frame DEF OneByOne
    <2>2. CASE Finish(j)
      <3>1. /\ pc[j] = "finish" /\ ents' = Committed(j) /\ vectors' = vectors
            /\ status # "deleted" /\ Knows(j) /\ Locks /\ Kinded
        BY <2>1, <2>2 DEF Finish, OneByOne, Solo
      <3>2. vectors \subseteq docs[j] /\ pc[j] \in Marked
        BY <3>1 DEF Knows, Marked, Writing
      <3>3. CASE kind[j] = "scan"
        BY <2>1, <3>1, <3>2, <3>3, Commits DEF Knows, Locks
      <3>4. CASE kind[j] = "empty"
        BY <3>1, <3>2, <3>4 DEF Knows
      <3>5. CASE kind[j] = "reindex"
        BY <2>1, <3>1, <3>2, <3>5, Commits DEF Knows
      <3> QED
        BY <3>1, <3>3, <3>4, <3>5, KindsAssumption DEF Kinded
    <2> QED
      BY <1>2, <2>1, <2>2, Completes
  <1>3. CASE DeleteModule
    BY <1>3 DEF DeleteModule
  <1>4. CASE CleanGraph
    BY <1>4 DEF CleanGraph
  <1>5. CASE CleanVectors
    BY <1>5 DEF CleanVectors
  <1>6. CASE Restart
    BY <1>6 DEF Restart, stores
  <1>7. CASE UNCHANGED vars
    BY <1>7 DEF vars, stores
  <1> QED
    BY <1>1, <1>2, <1>3, <1>4, <1>5, <1>6, <1>7 DEF Next

\* When jobs come one at a time, what a search of a COMPLETED module finds is
\* still there, whatever earlier jobs left half-done in the collection.
THEOREM SearchIsSound == Spec => []HitsAreEntities
  <1>1. Init => OneByOne /\ HitsAreEntities
    BY InitOneByOne DEF Init, HitsAreEntities
  <1>2. OneByOne /\ HitsAreEntities /\ [Next]_vars => OneByOne' /\ HitsAreEntities'
    BY NextOneByOne, NextHits
  <1> QED
    BY <1>1, <1>2, PTL DEF Spec

LEMMA NextNodes == OneByOne /\ NodesAreEntities /\ [Next]_vars => NodesAreEntities'
  <1> SUFFICES ASSUME OneByOne, NodesAreEntities, [Next]_vars,
                      status' = "completed", ~overlapped',
                      \A i \in Jobs : kind'[i] # "reindex",
                      NEW g \in graph', kind'[g] = "scan"
               PROVE  g \in ents'
    BY DEF NodesAreEntities
  <1> USE DEF NodesAreEntities
  <1>1. ASSUME NEW j \in Jobs, StartJob(j) PROVE g \in ents'
    <2>1. kind[j] = "none" /\ j \notin graph /\ kind \in [Jobs -> Kinds \cup {"none"}]
      BY <1>1 DEF StartJob, OneByOne, Kinded, TypeOK
    <2>2. UNCHANGED <<status, ents, graph>> /\ ~overlapped /\ g \in graph
      BY <1>1 DEF StartJob, stores
    <2>3. \A i \in Jobs \ {j} : kind'[i] = kind[i]
      BY <1>1, <2>1 DEF StartJob
    <2>4. g \in Jobs \ {j}
      BY <2>1, <2>2 DEF OneByOne, TypeOK
    <2>5. \A i \in Jobs : kind[i] # "reindex"
      BY <2>1, <2>3
    <2> QED
      BY <2>2, <2>3, <2>4, <2>5
  <1>2. ASSUME NEW j \in Jobs, Step(j) PROVE g \in ents'
    <2>1. ~overlapped /\ kind' = kind
      BY <1>2, Frame DEF OneByOne
    <2>2. CASE Finish(j)
      <3>1. /\ pc[j] = "finish" /\ ents' = Committed(j) /\ graph' = graph
            /\ Knows(j) /\ Locks
        BY <2>1, <2>2 DEF Finish, OneByOne, Solo
      <3>2. g = j /\ kind[j] = "scan"
        BY <2>1, <3>1 DEF Knows
      <3> QED
        BY <2>1, <3>1, <3>2, Commits DEF Locks
    <2> QED
      BY <1>2, <2>1, <2>2, Completes
  <1>3. CASE DeleteModule
    BY <1>3 DEF DeleteModule
  <1>4. CASE CleanGraph
    BY <1>4 DEF CleanGraph, jobs
  <1>5. CASE CleanVectors
    BY <1>5 DEF CleanVectors, jobs
  <1>6. CASE Restart
    BY <1>6 DEF Restart, stores
  <1>7. CASE UNCHANGED vars
    BY <1>7 DEF vars, stores, jobs
  <1> QED
    BY <1>1, <1>2, <1>3, <1>4, <1>5, <1>6, <1>7 DEF Next

\* When scans come one at a time, the nodes that scans wrote to the graph of a
\* COMPLETED module are of its entities.
THEOREM GraphIsSound == Spec => []NodesAreEntities
  <1>1. Init => OneByOne /\ NodesAreEntities
    BY InitOneByOne DEF Init, NodesAreEntities
  <1>2. OneByOne /\ NodesAreEntities /\ [Next]_vars => OneByOne' /\ NodesAreEntities'
    BY NextOneByOne, NextNodes
  <1> QED
    BY <1>1, <1>2, PTL DEF Spec

=============================================================================
