--------------------------- MODULE AccountRotation ---------------------------
(***************************************************************************)
(* The saved account queries of a project: created, edited and deleted on  *)
(* their page (account_query_service.py, the page account-queries), and    *)
(* one of them used by runs, each taking the next of the accounts it       *)
(* returns (account_query_resolver.py, execution_service.py).              *)
(*                                                                         *)
(* The database shows what is committed, and lets one transaction at a     *)
(* time change a row.  Runs and pages hold what they read before.          *)
(***************************************************************************)
EXTENDS Naturals, FiniteSets

CONSTANTS
  Runs,      \* executions that use the query
  Pages,     \* browser pages on which the query is edited
  Creators,  \* requests that create a query
  Accounts,  \* number of accounts the query returns
  Limit,     \* MAX_PER_PROJECT
  Nobody

RotationAssumption ==
  /\ Accounts \in Nat \ {0} /\ Limit \in Nat \ {0}
  /\ Nobody \notin Runs

VARIABLES
  query,      \* next_account_index of the committed row; the other hints travel with it
  there,      \* the row exists
  writer,     \* the run whose transaction changed the row and did not end yet
  run,        \* of each run: what it read, what it picked, where it is
  page,       \* of each page: what it loaded, where it is
  total,      \* committed queries of the project
  creator,    \* of each creation: how far it is
  picks,      \* number of runs that took an account and kept the cursor (history)
  overlapped, \* two runs had the query at once, or a page saved it (history)
  crowd       \* the most creations there were under way at once (history)

rotation == <<query, there, writer, run, page, picks, overlapped>>
library == <<total, creator, crowd>>
vars == <<rotation, library>>

Indices == 0..(Accounts - 1)
Holding == {r \in Runs : run[r].pc \in {"read", "flushed"}}
Under == {c \in Creators : creator[c] \in {"counted", "inserted"}}

Init ==
  /\ query = 0
  /\ there = TRUE /\ writer = Nobody
  /\ run = [r \in Runs |-> [pc |-> "new", cursor |-> 0]]
  /\ page = [p \in Pages |-> [pc |-> "new", cursor |-> 0]]
  /\ picks = [i \in Indices |-> 0] /\ overlapped = FALSE
  /\ total = 1 /\ creator = [c \in Creators |-> "new"] /\ crowd = 0

-----------------------------------------------------------------------------
(* Runs *)

\* _hydrate_library_state: the run goes on without a query that is gone.
Hydrate(r) ==
  /\ run[r].pc = "new"
  /\ run' = [run EXCEPT ![r] = IF there THEN [pc |-> "read", cursor |-> query]
                                       ELSE [@ EXCEPT !.pc = "done"]]
  /\ overlapped' = (overlapped \/ (there /\ Holding # {}))
  /\ UNCHANGED <<query, there, writer, page, picks, library>>

\* MUTANT: the index, and not the cursor, is counted on from the last row
PickIndexShort(cursor) == cursor % (IF Accounts > 1 THEN Accounts - 1 ELSE 1)

\* The index a run takes: the cursor it read, modulo the rows it got.
PickIndex(cursor) == cursor % Accounts

\* The hints as they were read, with the next cursor.
NextCursor(cursor) == cursor + 1

\* The query is run in Salesforce, which may fail or find nothing.
ResolveFails(r) ==
  /\ run[r].pc = "read"
  /\ run' = [run EXCEPT ![r].pc = "done"]
  /\ UNCHANGED <<query, there, writer, page, picks, overlapped, library>>

\* resolve_account_query: the row is written over, whatever it holds by now.  It waits for the
\* transaction of another run.
Resolve(r) ==
  /\ run[r].pc = "read" /\ there /\ writer = Nobody
  /\ writer' = r
  /\ run' = [run EXCEPT ![r].pc = "flushed"]
  /\ UNCHANGED <<query, there, page, picks, overlapped, library>>

\* A scenario commits at once, a test pack with its next report.
CommitPick(r) ==
  /\ writer = r
  /\ query' = NextCursor(run[r].cursor)
  /\ writer' = Nobody
  /\ picks' = [picks EXCEPT ![PickIndex(run[r].cursor)] = @ + 1]
  /\ run' = [run EXCEPT ![r].pc = "done"]
  /\ UNCHANGED <<there, page, overlapped, library>>

\* A run that breaks off before it commits leaves the cursor.
RollbackPick(r) ==
  /\ writer = r
  /\ writer' = Nobody
  /\ run' = [run EXCEPT ![r].pc = "done"]
  /\ UNCHANGED <<query, there, page, picks, overlapped, library>>

-----------------------------------------------------------------------------
(* The page *)

LoadPage(p) ==
  /\ page[p].pc = "new" /\ there
  /\ page' = [page EXCEPT ![p] = [pc |-> "shown", cursor |-> query]]
  /\ UNCHANGED <<query, there, writer, run, picks, overlapped, library>>

\* AccountQueryService.update with all the hints of the form, the cursor it loaded among them
SavePage(p) ==
  /\ page[p].pc = "shown" /\ there /\ writer = Nobody
  /\ query' = page[p].cursor
  /\ page' = [page EXCEPT ![p].pc = "done"]
  /\ overlapped' = TRUE
  /\ UNCHANGED <<there, writer, run, picks, library>>

\* AccountQueryService.delete
DeleteQuery ==
  /\ there /\ writer = Nobody
  /\ there' = FALSE /\ total' = total - 1
  /\ UNCHANGED <<query, writer, run, page, picks, overlapped, creator, crowd>>

-----------------------------------------------------------------------------
(* Creation *)

Advance(c, place) ==
  /\ creator' = [creator EXCEPT ![c] = place]
  /\ UNCHANGED <<rotation>>

\* MUTANT: nobody counts
CountNothing(c) ==
  /\ creator[c] = "new"
  /\ Advance(c, "counted")
  /\ LET n == Cardinality(Under) + 1
     IN crowd' = IF n > crowd THEN n ELSE crowd
  /\ UNCHANGED total

\* AccountQueryService._count
CountQueries(c) ==
  /\ creator[c] = "new"
  /\ Advance(c, IF total < Limit THEN "counted" ELSE "refused")
  /\ LET n == Cardinality(Under) + 1
     IN crowd' = IF total < Limit /\ n > crowd THEN n ELSE crowd
  /\ UNCHANGED total

InsertQuery(c) ==
  /\ creator[c] = "counted"
  /\ Advance(c, "inserted")
  /\ UNCHANGED <<total, crowd>>

CommitQuery(c) ==
  /\ creator[c] = "inserted"
  /\ Advance(c, "created")
  /\ total' = total + 1
  /\ UNCHANGED crowd

-----------------------------------------------------------------------------
Next ==
  \/ \E r \in Runs : Hydrate(r) \/ ResolveFails(r) \/ Resolve(r) \/ CommitPick(r) \/ RollbackPick(r)
  \/ \E p \in Pages : LoadPage(p) \/ SavePage(p)
  \/ DeleteQuery
  \/ \E c \in Creators : CountQueries(c) \/ InsertQuery(c) \/ CommitQuery(c)

Spec == Init /\ [][Next]_vars

-----------------------------------------------------------------------------
(* Properties *)

RotationTypeOK ==
  /\ query \in Nat /\ there \in BOOLEAN
  /\ writer \in Runs \union {Nobody}
  /\ run \in [Runs -> [pc : {"new", "read", "flushed", "done"}, cursor : Nat]]
  /\ page \in [Pages -> [pc : {"new", "shown", "done"}, cursor : Nat]]
  /\ picks \in [Indices -> Nat] /\ overlapped \in BOOLEAN
  /\ total \in Nat /\ crowd \in Nat
  /\ creator \in [Creators -> {"new", "counted", "inserted", "created", "refused"}]

\* "pick one via round-robin cursor, persist next index": as long as no two runs have the query at
\* once and nobody saves it on its page, no account is used twice more than another, and those
\* used once more come first.
RoundRobin ==
  ~overlapped => \A i, j \in Indices : i < j => picks[j] <= picks[i] /\ picks[i] <= picks[j] + 1

\* Creations that overlap can pass the check together; each one that does adds at most one query
\* to the limit.
LimitByOverlap ==
  total <= Limit + (IF crowd = 0 THEN 0 ELSE crowd - 1)

=============================================================================
