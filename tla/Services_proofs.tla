-------------------------- MODULE Services_proofs --------------------------
(***************************************************************************)
(* What each of the services keeps, for any number of runs, requests,      *)
(* uploads, streams, queries, calls and modules: an invariant of each, the *)
(* facts that every step of the service preserves it, and the theorems     *)
(* about Services that follow.                                             *)
(***************************************************************************)
EXTENDS Services, FiniteSetTheorems, SequenceTheorems, TLAPS

-----------------------------------------------------------------------------
(* AccountRotation.                                                        *)

\* The number of elements, as the service counts it.
LEMMA SameNumber == \A V : R!Cardinality(V) = Cardinality(V)
  BY DEF Cardinality, R!Cardinality

-----------------------------------------------------------------------------
(* Types *)

\* The query that can be deleted was counted, and creations come one by one.
RotationTypes ==
  /\ R!RotationTypeOK
  /\ there => total >= 1
  /\ IsFiniteSet(R!Under)

LEMMA RotationInit == R!RotationAssumption /\ R!Init => RotationTypes
  <1> SUFFICES ASSUME R!RotationAssumption, R!Init PROVE RotationTypes
    OBVIOUS
  <1>1. R!Under = {}
    BY DEF R!Init, R!Under
  <1>2. R!RotationTypeOK
    BY DEF R!RotationAssumption, R!Init, R!RotationTypeOK
  <1> QED BY <1>1, <1>2, FS_EmptySet DEF R!Init, RotationTypes

\* Creations that start, end, or stay as they are.
LEMMA UnderAfter ==
  ASSUME creator \in [Creators -> {"new", "counted", "inserted", "created", "refused"}],
         NEW c \in Creators, NEW place, creator' = [creator EXCEPT ![c] = place]
  PROVE  R!Under' = IF place \in {"counted", "inserted"} THEN R!Under \union {c} ELSE R!Under \ {c}
  BY DEF R!Under

LEMMA UnderFinite ==
  ASSUME creator \in [Creators -> {"new", "counted", "inserted", "created", "refused"}],
         IsFiniteSet(R!Under), NEW c \in Creators, NEW place, creator' = [creator EXCEPT ![c] = place]
  PROVE  IsFiniteSet(R!Under)'
  <1>1. IsFiniteSet(R!Under \union {c}) /\ IsFiniteSet(R!Under \ {c})
    BY FS_AddElement, FS_RemoveElement
  <1>2. R!Under' = R!Under \union {c} \/ R!Under' = R!Under \ {c}
    BY UnderAfter
  <1> QED BY <1>1, <1>2

LEMMA RotationTyped ==
  ASSUME R!RotationAssumption, RotationTypes, [R!Next]_R!vars
  PROVE  RotationTypes'
  <1>0. UNCHANGED creator => IsFiniteSet(R!Under)'
    BY DEF RotationTypes, R!Under
  <1> USE DEF RotationTypes, R!RotationTypeOK, R!rotation, R!library
  <1>1. ASSUME NEW r \in Runs, R!Hydrate(r) PROVE RotationTypes'
    BY <1>0, <1>1 DEF R!Hydrate
  <1>2. ASSUME NEW r \in Runs, R!ResolveFails(r) PROVE RotationTypes'
    BY <1>0, <1>2 DEF R!ResolveFails
  <1>3. ASSUME NEW r \in Runs, R!Resolve(r) PROVE RotationTypes'
    BY <1>0, <1>3 DEF R!Resolve
  <1>4. ASSUME NEW r \in Runs, R!CommitPick(r) PROVE RotationTypes'
    <2>1. run[r].cursor \in Nat /\ R!PickIndex(run[r].cursor) \in R!Indices
      BY DEF R!RotationAssumption, R!PickIndex, R!Indices
    <2> QED BY <1>0, <1>4, <2>1 DEF R!CommitPick, R!NextCursor
  <1>5. ASSUME NEW r \in Runs, R!RollbackPick(r) PROVE RotationTypes'
    BY <1>0, <1>5 DEF R!RollbackPick
  <1>6. ASSUME NEW p \in Pages, R!LoadPage(p) PROVE RotationTypes'
    BY <1>0, <1>6 DEF R!LoadPage
  <1>7. ASSUME NEW p \in Pages, R!SavePage(p) PROVE RotationTypes'
    BY <1>0, <1>7 DEF R!SavePage
  <1>8. CASE R!DeleteQuery
    <2>1. total \in Nat /\ total >= 1 /\ total' = total - 1 /\ ~there'
      BY <1>8 DEF R!DeleteQuery
    <2>2. total' \in Nat
      BY <2>1
    <2> QED BY <1>0, <1>8, <2>1, <2>2 DEF R!DeleteQuery, R!Indices
  <1>9. ASSUME NEW c \in Creators, R!CountQueries(c) PROVE RotationTypes'
    <2>1. Cardinality(R!Under) \in Nat
      BY FS_CardinalityType
    <2>2. IsFiniteSet(R!Under)'
      BY <1>9, UnderFinite DEF R!CountQueries, R!Advance
    <2> QED BY <1>9, <2>1, <2>2 DEF R!CountQueries, R!Advance
  <1>10. ASSUME NEW c \in Creators, R!InsertQuery(c) PROVE RotationTypes'
    BY <1>10, UnderFinite DEF R!InsertQuery, R!Advance
  <1>11. ASSUME NEW c \in Creators, R!CommitQuery(c) PROVE RotationTypes'
    <2>1. total \in Nat /\ total' = total + 1
      BY <1>11 DEF R!CommitQuery
    <2>2. IsFiniteSet(R!Under)'
      BY <1>11, UnderFinite DEF R!CommitQuery, R!Advance
    <2> QED BY <1>11, <2>1, <2>2 DEF R!CommitQuery, R!Advance
  <1>12. CASE UNCHANGED R!vars
    BY <1>0, <1>12 DEF R!vars
  <1> QED
    BY <1>1, <1>2, <1>3, <1>4, <1>5, <1>6, <1>7, <1>8, <1>9, <1>10, <1>11, <1>12 DEF R!Next

-----------------------------------------------------------------------------
(* The accounts are used in turn *)

\* Counting on by one: the remainder grows, or starts again with the next quotient.
LEMMA NextRemainder ==
  ASSUME NEW n \in Nat \ {0}, NEW q \in Nat
  PROVE  /\ q % n \in 0..(n - 1) /\ q \div n \in Nat
         /\ q % n = n - 1 => (q + 1) % n = 0 /\ (q + 1) \div n = q \div n + 1
         /\ q % n # n - 1 => (q + 1) % n = (q % n) + 1 /\ (q + 1) \div n = q \div n
  <1>1. q % n \in 0..(n - 1) /\ q \div n \in Nat /\ q = n * (q \div n) + (q % n)
    OBVIOUS
  <1>2. /\ (q + 1) % n \in 0..(n - 1) /\ (q + 1) \div n \in Nat
        /\ q + 1 = n * ((q + 1) \div n) + ((q + 1) % n)
    OBVIOUS
  <1> QED BY <1>1, <1>2

\* How often the account of an index was used when the cursor is q.
Turns(q, i) == q \div Accounts + (IF i < q % Accounts THEN 1 ELSE 0)

LEMMA NextTurn ==
  ASSUME R!RotationAssumption, NEW q \in Nat, NEW i \in R!Indices
  PROVE  /\ Turns(q, i) \in Nat
         /\ Turns(q + 1, i) = Turns(q, i) + (IF i = q % Accounts THEN 1 ELSE 0)
  <1>1. Accounts \in Nat \ {0} /\ i \in 0..(Accounts - 1)
    BY DEF R!RotationAssumption, R!Indices
  <1>2. /\ q % Accounts \in 0..(Accounts - 1) /\ q \div Accounts \in Nat
        /\ q % Accounts = Accounts - 1 => (q + 1) % Accounts = 0
                  /\ (q + 1) \div Accounts = q \div Accounts + 1
        /\ q % Accounts # Accounts - 1 =>
             (q + 1) % Accounts = (q % Accounts) + 1 /\ (q + 1) \div Accounts = q \div Accounts
    BY <1>1, NextRemainder
  <1> QED BY <1>1, <1>2 DEF Turns

\* As long as nobody overlapped: one run at most holds the query, it read the cursor that is stored, and
\* the accounts were used as that cursor says.
InTurn ==
  ~overlapped =>
    /\ \A r, p \in R!Holding : r = p
    /\ \A r \in R!Holding : run[r].cursor = query
    /\ \A i \in R!Indices : picks[i] = Turns(query, i)

\* The run whose transaction is open has flushed its pick.
Flushed == \A r \in Runs : writer = r => run[r].pc = "flushed"

\* Together they are inductive.
RotationInv == RotationTypes /\ Flushed /\ InTurn

LEMMA TurnInit == R!RotationAssumption /\ R!Init => RotationInv
  <1> SUFFICES ASSUME R!RotationAssumption, R!Init PROVE RotationInv
    OBVIOUS
  <1>1. R!Holding = {}
    BY DEF R!Init, R!Holding
  <1>2. \A i \in R!Indices : Turns(0, i) = 0
    <2>1. 0 % Accounts = 0 /\ 0 \div Accounts = 0
      BY DEF R!RotationAssumption
    <2> QED BY <2>1 DEF Turns, R!Indices, R!RotationAssumption
  <1> QED BY <1>1, <1>2, RotationInit DEF R!Init, RotationInv, InTurn, Flushed, R!RotationAssumption

LEMMA TurnKept ==
  ASSUME R!RotationAssumption, RotationInv, [R!Next]_R!vars
  PROVE  Flushed' /\ InTurn'
  <1> USE DEF RotationInv, RotationTypes, R!RotationTypeOK, Flushed, InTurn, R!Holding
  <1>1. ASSUME NEW r \in Runs, R!Hydrate(r) PROVE Flushed' /\ InTurn'
    BY <1>1 DEF R!Hydrate
  <1>2. ASSUME NEW r \in Runs, R!ResolveFails(r) PROVE Flushed' /\ InTurn'
    BY <1>2 DEF R!ResolveFails
  <1>3. ASSUME NEW r \in Runs, R!Resolve(r) PROVE Flushed' /\ InTurn'
    BY <1>3 DEF R!Resolve
  <1>4. ASSUME NEW r \in Runs, R!CommitPick(r) PROVE Flushed' /\ InTurn'
    <2>1. Flushed'
      BY <1>4 DEF R!CommitPick, R!RotationAssumption
    <2>2. ASSUME ~overlapped' PROVE InTurn'
      <3>1. ~overlapped /\ r \in R!Holding /\ run[r].cursor = query
        BY <1>4, <2>2 DEF R!CommitPick
      <3>2. R!Holding' = {}
        BY <1>4, <3>1 DEF R!CommitPick
      <3>3. ASSUME NEW i \in R!Indices PROVE picks'[i] = Turns(query', i)
        <4>1. query % Accounts \in R!Indices /\ query' = query + 1
          BY <1>4, <3>1 DEF R!CommitPick, R!NextCursor, R!RotationAssumption, R!Indices
        <4>2. picks' = [picks EXCEPT ![query % Accounts] = @ + 1]
          BY <1>4, <3>1 DEF R!CommitPick, R!PickIndex
        <4>3. picks[i] = Turns(query, i)
          BY <3>1
        <4> QED BY <4>1, <4>2, <4>3, NextTurn
      <3> QED BY <3>2, <3>3 DEF R!Indices
    <2> QED BY <2>1, <2>2
  <1>5. ASSUME NEW r \in Runs, R!RollbackPick(r) PROVE Flushed' /\ InTurn'
    BY <1>5 DEF R!RollbackPick, R!RotationAssumption
  <1>6. ASSUME NEW p \in Pages, R!LoadPage(p) PROVE Flushed' /\ InTurn'
    BY <1>6 DEF R!LoadPage
  <1>7. ASSUME NEW p \in Pages, R!SavePage(p) PROVE Flushed' /\ InTurn'
    BY <1>7 DEF R!SavePage
  <1>8. CASE R!DeleteQuery
    BY <1>8 DEF R!DeleteQuery
  <1>9. ASSUME NEW c \in Creators, R!CountQueries(c) \/ R!InsertQuery(c) \/ R!CommitQuery(c)
        PROVE  Flushed' /\ InTurn'
    BY <1>9 DEF R!CountQueries, R!InsertQuery, R!CommitQuery, R!Advance, R!rotation
  <1>10. CASE UNCHANGED R!vars
    BY <1>10 DEF R!vars, R!rotation
  <1> QED
    BY <1>1, <1>2, <1>3, <1>4, <1>5, <1>6, <1>7, <1>8, <1>9, <1>10 DEF R!Next

LEMMA TurnsApart == R!RotationAssumption /\ RotationInv => R!RoundRobin
  <1> SUFFICES ASSUME R!RotationAssumption, RotationInv, ~overlapped,
                      NEW i \in R!Indices, NEW j \in R!Indices, i < j
               PROVE  picks[j] <= picks[i] /\ picks[i] <= picks[j] + 1
    BY DEF R!RoundRobin
  <1>1. picks[i] = Turns(query, i) /\ picks[j] = Turns(query, j)
    BY DEF RotationInv, InTurn
  <1>2. query \in Nat /\ Accounts \in Nat \ {0} /\ i \in Nat /\ j \in Nat
    BY DEF RotationInv, RotationTypes, R!RotationTypeOK, R!RotationAssumption, R!Indices
  <1>3. query % Accounts \in Nat /\ query \div Accounts \in Nat
    BY <1>2
  <1> QED BY <1>1, <1>2, <1>3 DEF Turns

-----------------------------------------------------------------------------
(* The limit of queries *)

\* What is counted and not committed yet is within what the overlap allows.
Room == total + Cardinality(R!Under) <= Limit + (IF crowd = 0 THEN 0 ELSE crowd - 1)

\* It is inductive: a creation counts what is committed before it adds its own.
LimitInv == RotationTypes /\ Room

LEMMA LimitKept ==
  ASSUME R!RotationAssumption, LimitInv, [R!Next]_R!vars
  PROVE  Room'
  <1>0. /\ total \in Nat /\ Cardinality(R!Under) \in Nat /\ Limit \in Nat /\ crowd \in Nat
        /\ creator \in [Creators -> {"new", "counted", "inserted", "created", "refused"}]
        /\ IsFiniteSet(R!Under) /\ (there => total >= 1)
    BY FS_CardinalityType DEF LimitInv, RotationTypes, R!RotationTypeOK, R!RotationAssumption
  <1>1. UNCHANGED creator => R!Under' = R!Under
    BY DEF R!Under
  <1>2. UNCHANGED R!library => Room'
    BY <1>1 DEF LimitInv, Room, R!library
  <1>3. CASE R!DeleteQuery
    <2>1. R!Under' = R!Under /\ total' = total - 1 /\ crowd' = crowd
      BY <1>1, <1>3 DEF R!DeleteQuery
    <2> QED BY <1>0, <2>1 DEF LimitInv, Room
  <1>4. ASSUME NEW c \in Creators, R!CountQueries(c) PROVE Room'
    <2>0. c \notin R!Under
      BY <1>4 DEF R!CountQueries, R!Under
    <2>1. CASE total < Limit
      <3>1. R!Under' = R!Under \union {c}
        BY <1>0, <1>4, <2>1, UnderAfter DEF R!CountQueries, R!Advance
      <3>2. Cardinality(R!Under') = Cardinality(R!Under) + 1
        BY <1>0, <2>0, <3>1, FS_AddElement
      <3>3. /\ crowd' \in Nat /\ crowd' >= Cardinality(R!Under) + 1 /\ total' = total
        BY <1>0, <1>4, <2>1, SameNumber DEF R!CountQueries
      <3> QED BY <1>0, <2>1, <3>2, <3>3 DEF Room
    <2>2. CASE ~(total < Limit)
      <3>1. R!Under' = R!Under \ {c}
        BY <1>0, <1>4, <2>2, UnderAfter DEF R!CountQueries, R!Advance
      <3>2. R!Under' = R!Under /\ crowd' = crowd /\ total' = total
        BY <1>4, <2>0, <2>2, <3>1 DEF R!CountQueries
      <3> QED BY <3>2 DEF LimitInv, Room
    <2> QED BY <2>1, <2>2
  <1>5. ASSUME NEW c \in Creators, R!InsertQuery(c) PROVE Room'
    <2>1. R!Under' = R!Under \union {c} /\ c \in R!Under
      BY <1>0, <1>5, UnderAfter DEF R!InsertQuery, R!Advance, R!Under
    <2>2. R!Under' = R!Under
      BY <2>1
    <2> QED BY <1>5, <2>2 DEF R!InsertQuery, LimitInv, Room
  <1>6. ASSUME NEW c \in Creators, R!CommitQuery(c) PROVE Room'
    <2>1. R!Under' = R!Under \ {c} /\ c \in R!Under
      BY <1>0, <1>6, UnderAfter DEF R!CommitQuery, R!Advance, R!Under
    <2>2. Cardinality(R!Under') = Cardinality(R!Under) - 1
      BY <1>0, <2>1, FS_RemoveElement
    <2> QED BY <1>0, <1>6, <2>2 DEF R!CommitQuery, LimitInv, Room
  <1>7. R!DeleteQuery \/ (\E c \in Creators : R!CountQueries(c) \/ R!InsertQuery(c) \/ R!CommitQuery(c))
        \/ UNCHANGED R!library
    BY DEF R!Next, R!vars, R!library, R!Hydrate, R!ResolveFails, R!Resolve, R!CommitPick,
       R!RollbackPick, R!LoadPage,
           R!SavePage
  <1> QED BY <1>2, <1>3, <1>4, <1>5, <1>6, <1>7

LEMMA LimitInit ==
  ASSUME R!RotationAssumption, R!Init
  PROVE  LimitInv
  <1>1. R!Under = {}
    BY DEF R!Init, R!Under
  <1> QED BY <1>1, RotationInit, FS_EmptySet DEF R!Init, LimitInv, Room, R!RotationAssumption

LEMMA RoomSuffices ==
  ASSUME R!RotationAssumption, LimitInv
  PROVE  R!LimitByOverlap
  BY FS_CardinalityType
    DEF LimitInv, Room, R!LimitByOverlap, RotationTypes, R!RotationTypeOK, R!RotationAssumption

-----------------------------------------------------------------------------
(* FolderUpload.                                                           *)

\* The files of n batches.
Sent(n) == n * PerBatch

LEMMA SentMore ==
  ASSUME U!UploadAssumption, NEW n \in Nat
  PROVE  Sent(n) \in Nat /\ Sent(n + 1) = Sent(n) + PerBatch /\ Sent(0) = 0 /\ Sent(1) = PerBatch
  BY DEF U!UploadAssumption, Sent

\* The page waits exactly while a handler works.
Places(u) ==
  /\ client[u] = "waiting" <=> request[u] # "none"
  /\ client[u] = "new" => batch[u] = 0 /\ repo[u] = "none" /\ files[u] = 0 /\ ~cleaning[u]
  /\ client[u] = "ready" => batch[u] # Batches
  /\ client[u] = "waiting" => batch[u] # 0
  /\ request[u] = "normalize" => left[u] = 0 /\ batch[u] = Batches
  /\ session[u].bytes <= MaxBytes

\* A folder whose row is there has on disk what was sent; once it can be scanned, that is all.
Stored(u) ==
  /\ repo[u] # "none" =>
       /\ ~cleaning[u]
       /\ client[u] = "ready" => files[u] = Sent(batch[u])
       /\ client[u] = "waiting" => files[u] + left[u] = Sent(batch[u])
  /\ path[u] => repo[u] = "committed" /\ client[u] = "loaded" /\ files[u] = Sent(Batches)

\* Together they are inductive.
UploadInv ==
  /\ U!UploadTypeOK
  /\ \A u \in Uploads : Places(u)
  /\ \A u \in Uploads : kind[u] = "folder" => Stored(u)

LEMMA UploadInit == U!UploadAssumption /\ U!Init => UploadInv
  BY SentMore DEF U!UploadAssumption, U!Init, UploadInv, U!UploadTypeOK, Places, Stored, U!NoSession

\* What a workspace holds in memory of its upload.
Sessions == [there : BOOLEAN, bytes : Nat, files : Nat]

LEMMA SessionThere ==
  ASSUME session \in [Uploads -> Sessions], NEW u \in Uploads, NEW b \in BOOLEAN
  PROVE  [session EXCEPT ![u].there = b] \in [Uploads -> Sessions]
  BY DEF Sessions

LEMMA SessionGrows ==
  ASSUME session \in [Uploads -> Sessions], NEW u \in Uploads, NEW size \in Nat
  PROVE  [session EXCEPT ![u].bytes = @ + size, ![u].files = @ + 1] \in [Uploads -> Sessions]
  <1>1. session[u] \in Sessions
    OBVIOUS
  <1>2. session[u].bytes + size \in Nat /\ session[u].files + 1 \in Nat
    BY <1>1 DEF Sessions
  <1> DEFINE a == session[u].bytes + size
             b == session[u].files + 1
             grown == [session[u] EXCEPT !.bytes = a, !.files = b]
  <1>3. a \in Nat /\ b \in Nat
    BY <1>2
  <1> HIDE DEF a, b
  <1>4. grown \in Sessions
    BY <1>1, <1>3 DEF Sessions
  <1>5. [session EXCEPT ![u].bytes = a, ![u].files = b] \in [Uploads -> Sessions]
    BY <1>4, <1>3 DEF Sessions
  <1> QED
    BY <1>5 DEF a, b

LEMMA SessionTyped ==
  ASSUME U!UploadAssumption, session \in [Uploads -> Sessions], [U!Next]_U!vars
  PROVE  session' \in [Uploads -> Sessions]
  <1>0. U!NoSession \in Sessions
    BY DEF U!NoSession, Sessions
  <1>1. ASSUME NEW u \in Uploads, U!Open(u) PROVE session' \in [Uploads -> Sessions]
    <2>1. (kind[u] = "folder") \in BOOLEAN
      OBVIOUS
    <2>2. session' = [session EXCEPT ![u].there = (kind[u] = "folder")]
      BY <1>1 DEF U!Open
    <2> DEFINE b == kind[u] = "folder"
    <2>3. b \in BOOLEAN
      OBVIOUS
    <2>4. session' = [session EXCEPT ![u].there = b]
      BY <2>2
    <2> HIDE DEF b
    <2> QED BY <2>3, <2>4, SessionThere
  <1>2. ASSUME NEW u \in Uploads, U!Expire(u) PROVE session' \in [Uploads -> Sessions]
    BY <1>2, SessionThere DEF U!Expire
  <1>3. ASSUME NEW u \in Uploads, NEW size \in 1..MaxFile, U!WriteFile(u, size)
        PROVE  session' \in [Uploads -> Sessions]
    <2>1. size \in Nat
      BY DEF U!UploadAssumption
    <2>2. session' = [session EXCEPT ![u].bytes = @ + size, ![u].files = @ + 1]
      BY <1>3 DEF U!WriteFile
    <2>3. [session EXCEPT ![u].bytes = @ + size, ![u].files = @ + 1] \in [Uploads -> Sessions]
      BY <2>1, SessionGrows
    <2> QED BY <2>2, <2>3, Zenon
  <1>4. ASSUME NEW u \in Uploads, U!Finalize(u) \/ U!NoCode(u) PROVE session' \in [Uploads -> Sessions]
    BY <1>4, <1>0 DEF U!Finalize, U!NoCode
  <1>5. CASE U!Restart
    BY <1>5, <1>0 DEF U!Restart
  <1>6. ASSUME NEW u \in Uploads,
               U!NextBatch(u) \/ U!BatchDone(u) \/ U!CommitRow(u) \/ U!BeginFinalize(u)
               \/ U!FinalizeRefused(u) \/ U!RowVanished(u) \/ U!ZipDone(u) \/ U!ZipFails(u)
               \/ U!DeleteRepo(u) \/ U!Clean(u)
        PROVE  session' \in [Uploads -> Sessions]
    BY <1>6 DEF U!NextBatch, U!BatchDone, U!CommitRow, U!BeginFinalize, U!FinalizeRefused,
       U!RowVanished,
       U!ZipDone, U!ZipFails, U!DeleteRepo, U!Clean
  <1>7. ASSUME NEW u \in Uploads, NEW size \in 1..MaxFile, U!FileTooBig(u, size)
        PROVE  session' \in [Uploads -> Sessions]
    BY <1>7 DEF U!FileTooBig
  <1>8. CASE UNCHANGED U!vars
    BY <1>8 DEF U!vars
  <1> QED
    BY <1>1, <1>2, <1>3, <1>4, <1>5, <1>6, <1>7, <1>8 DEF U!Next

\* The other parts of the type invariant: what holds names, what holds numbers, the flags
Named ==
  /\ kind \in [Uploads -> {"folder", "zip"}]
  /\ client \in [Uploads -> {"new", "waiting", "ready", "loaded", "failed"}]
  /\ request \in [Uploads -> {"none", "write", "normalize"}]
  /\ repo \in [Uploads -> {"none", "flushed", "committed"}]

\* What holds numbers.
Counted ==
  /\ batch \in [Uploads -> 0..Batches] /\ left \in [Uploads -> 0..PerBatch]
  /\ files \in [Uploads -> Nat] /\ bytes \in [Uploads -> Nat]

\* The flags.
Flagged == path \in [Uploads -> BOOLEAN] /\ cleaning \in [Uploads -> BOOLEAN]

LEMMA NamedTyped == ASSUME Named, [U!Next]_U!vars PROVE Named'
  <1> USE DEF Named
  <1>1. ASSUME NEW u \in Uploads, U!Open(u) \/ U!NextBatch(u) \/ U!BatchDone(u)
            \/ U!CommitRow(u) PROVE Named'
    BY <1>1 DEF U!Open, U!NextBatch, U!BatchDone, U!CommitRow
  <1>2. ASSUME NEW u \in Uploads, U!BeginFinalize(u) PROVE Named'
    BY <1>2 DEF U!BeginFinalize
  <1>3. ASSUME NEW u \in Uploads, U!Raise(u), kind' = kind PROVE Named'
    BY <1>3 DEF U!Raise, U!Gives
  <1>4. ASSUME NEW u \in Uploads, U!Finalize(u) \/ U!NoCode(u) \/ U!RowVanished(u) \/ U!ZipDone(u)
            \/ U!ZipFails(u)
        PROVE  Named'
    BY <1>4 DEF U!Finalize, U!NoCode, U!RowVanished, U!ZipDone, U!ZipFails
  <1>5. ASSUME NEW u \in Uploads, U!DeleteRepo(u) \/ U!Clean(u) \/ U!Expire(u) PROVE Named'
    BY <1>5 DEF U!DeleteRepo, U!Clean, U!Expire
  <1>6. ASSUME NEW u \in Uploads, NEW size \in 1..MaxFile, U!WriteFile(u, size) PROVE Named'
    BY <1>6 DEF U!WriteFile
  <1>7. CASE U!Restart
    BY <1>7 DEF U!Restart
  <1>8. CASE UNCHANGED U!vars
    BY <1>8 DEF U!vars
  <1>9. ASSUME NEW u \in Uploads, U!FinalizeRefused(u) PROVE Named'
    BY <1>9, <1>3 DEF U!FinalizeRefused
  <1>10. ASSUME NEW u \in Uploads, NEW size \in 1..MaxFile, U!FileTooBig(u, size) PROVE Named'
    BY <1>10, <1>3 DEF U!FileTooBig
  <1> QED
    BY <1>1, <1>2, <1>4, <1>5, <1>6, <1>7, <1>8, <1>9, <1>10 DEF U!Next

LEMMA FlaggedTyped == ASSUME Flagged, [U!Next]_U!vars PROVE Flagged'
  <1>1. ASSUME NEW u \in Uploads, U!Finalize(u) \/ U!ZipDone(u)
            \/ U!DeleteRepo(u) PROVE path' \in [Uploads -> BOOLEAN]
    BY <1>1 DEF Flagged, U!Finalize, U!ZipDone, U!DeleteRepo
  <1>2. ASSUME NEW u \in Uploads, U!DeleteRepo(u) \/ U!Clean(u) PROVE cleaning' \in [Uploads -> BOOLEAN]
    BY <1>2 DEF Flagged, U!DeleteRepo, U!Clean
  <1>3. U!Restart => cleaning' \in [Uploads -> BOOLEAN]
    BY DEF U!Restart
  <1>4. path' = path \/ \E u \in Uploads : U!Finalize(u) \/ U!ZipDone(u) \/ U!DeleteRepo(u)
    BY DEF U!Next, U!vars, U!Open, U!NextBatch, U!BatchDone, U!CommitRow, U!BeginFinalize,
       U!FinalizeRefused,
       U!NoCode, U!RowVanished, U!ZipFails, U!Clean, U!Expire, U!WriteFile, U!FileTooBig, U!Restart
  <1>5. cleaning' = cleaning \/ U!Restart \/ \E u \in Uploads : U!DeleteRepo(u) \/ U!Clean(u)
    BY DEF U!Next, U!vars, U!Open, U!NextBatch, U!BatchDone, U!CommitRow, U!BeginFinalize,
       U!FinalizeRefused,
       U!NoCode, U!RowVanished, U!ZipFails, U!Finalize, U!ZipDone, U!Expire, U!WriteFile, U!FileTooBig
  <1> QED
    BY <1>1, <1>2, <1>3, <1>4, <1>5 DEF Flagged

LEMMA CountedTyped ==
  ASSUME U!UploadAssumption, UploadInv, [U!Next]_U!vars
  PROVE  Counted'
  <1>0. Counted /\ Batches \in Nat /\ PerBatch \in Nat
    BY DEF Counted, UploadInv, U!UploadTypeOK, U!UploadAssumption
  <1> USE <1>0 DEF Counted
  <1>1. ASSUME NEW u \in Uploads, U!Open(u) PROVE Counted'
    <2>1. batch' \in [Uploads -> 0..Batches]
      BY <1>1 DEF U!Open, U!UploadAssumption
    <2>2. left' \in [Uploads -> 0..PerBatch] /\ UNCHANGED <<files, bytes>>
      BY <1>1 DEF U!Open
    <2> QED BY <2>1, <2>2
  <1>8. ASSUME NEW u \in Uploads, U!BatchDone(u) \/ U!CommitRow(u) \/ U!BeginFinalize(u)
            \/ U!Finalize(u) \/ U!ZipDone(u)
        PROVE  Counted'
    BY <1>8 DEF U!BatchDone, U!CommitRow, U!BeginFinalize, U!Finalize, U!ZipDone
  <1>9. ASSUME NEW u \in Uploads, U!NoCode(u) \/ U!RowVanished(u) \/ U!ZipFails(u) PROVE Counted'
    BY <1>9 DEF U!NoCode, U!RowVanished, U!ZipFails, U!Wiped
  <1>2. ASSUME NEW u \in Uploads, U!NextBatch(u) PROVE Counted'
    <2>1. batch[u] \in 0..Batches /\ batch[u] # Batches
      BY <1>2 DEF U!NextBatch, Places, UploadInv, U!UploadTypeOK
    <2>2. batch' = [batch EXCEPT ![u] = @ + 1]
      BY <1>2 DEF U!NextBatch
    <2>3. batch[u] + 1 \in 0..Batches
      <3> DEFINE b == batch[u]
      <3>1. b \in 0..Batches /\ b # Batches
        BY <2>1
      <3> HIDE DEF b
      <3>2. b + 1 \in 0..Batches
        BY <3>1
      <3> QED BY <3>2 DEF b
    <2>4. batch' \in [Uploads -> 0..Batches]
      BY <2>2, <2>3
    <2>5. left' \in [Uploads -> 0..PerBatch] /\ UNCHANGED <<files, bytes>>
      BY <1>2 DEF U!NextBatch
    <2> QED BY <2>4, <2>5
  <1>3. ASSUME NEW u \in Uploads, U!FinalizeRefused(u) \/ U!DeleteRepo(u) \/ U!Clean(u)
            \/ U!Expire(u) PROVE Counted'
    BY <1>3 DEF U!FinalizeRefused, U!Raise, U!DeleteRepo, U!Clean, U!Expire, U!Wiped
  <1>4. ASSUME NEW u \in Uploads, NEW size \in 1..MaxFile, U!WriteFile(u, size) PROVE Counted'
    BY <1>4 DEF U!WriteFile
  <1>5. ASSUME NEW u \in Uploads, NEW size \in 1..MaxFile, U!FileTooBig(u, size) PROVE Counted'
    <2>1. session[u].bytes \in Nat /\ session[u].bytes <= MaxBytes
      BY DEF Places, UploadInv, U!UploadTypeOK
    <2>2. MaxBytes - session[u].bytes \in Nat
      BY <2>1 DEF U!UploadAssumption
    <2> QED BY <1>5, <2>2 DEF U!FileTooBig, U!Raise
  <1>6. CASE U!Restart
    BY <1>6 DEF U!Restart
  <1>7. CASE UNCHANGED U!vars
    BY <1>7 DEF U!vars
  <1> QED
    BY <1>1, <1>2, <1>3, <1>4, <1>5, <1>6, <1>7, <1>8, <1>9 DEF U!Next

LEMMA UploadTyped ==
  ASSUME U!UploadAssumption, UploadInv, [U!Next]_U!vars
  PROVE  U!UploadTypeOK'
  BY CountedTyped, NamedTyped, FlaggedTyped, SessionTyped
     DEF Counted, Named, Flagged, Sessions, UploadInv, U!UploadTypeOK

LEMMA PlacesKept ==
  ASSUME U!UploadAssumption, UploadInv, [U!Next]_U!vars, NEW v \in Uploads
  PROVE  Places(v)'
  <1> USE DEF Places, UploadInv, U!UploadTypeOK, U!UploadAssumption
  <1>1. ASSUME NEW u \in Uploads, U!Open(u) PROVE Places(v)'
    BY <1>1 DEF U!Open
  <1>2. ASSUME NEW u \in Uploads, U!NextBatch(u) PROVE Places(v)'
    BY <1>2 DEF U!NextBatch
  <1>3. ASSUME NEW u \in Uploads, U!BatchDone(u) \/ U!CommitRow(u) PROVE Places(v)'
    BY <1>3 DEF U!BatchDone, U!CommitRow, U!Last
  <1>4. ASSUME NEW u \in Uploads, U!BeginFinalize(u) PROVE Places(v)'
    BY <1>4 DEF U!BeginFinalize, U!Last
  <1>5. ASSUME NEW u \in Uploads, U!FinalizeRefused(u) PROVE Places(v)'
    BY <1>5 DEF U!FinalizeRefused, U!Raise, U!Gives
  <1>6. ASSUME NEW u \in Uploads, U!Finalize(u) \/ U!NoCode(u) \/ U!RowVanished(u) PROVE Places(v)'
    BY <1>6 DEF U!Finalize, U!NoCode, U!RowVanished, U!Wiped, U!NoSession
  <1>7. ASSUME NEW u \in Uploads, U!ZipDone(u) \/ U!ZipFails(u) PROVE Places(v)'
    BY <1>7 DEF U!ZipDone, U!ZipFails, U!Wiped
  <1>8. ASSUME NEW u \in Uploads, U!DeleteRepo(u) \/ U!Clean(u) PROVE Places(v)'
    BY <1>8 DEF U!DeleteRepo, U!Clean, U!Wiped
  <1>9. ASSUME NEW u \in Uploads, U!Expire(u) PROVE Places(v)'
    BY <1>9 DEF U!Expire
  <1>10. ASSUME NEW u \in Uploads, NEW size \in 1..MaxFile, U!WriteFile(u, size) PROVE Places(v)'
    BY <1>10 DEF U!WriteFile, U!TooMuch
  <1>11. ASSUME NEW u \in Uploads, NEW size \in 1..MaxFile, U!FileTooBig(u, size) PROVE Places(v)'
    BY <1>11 DEF U!FileTooBig, U!Raise, U!Gives
  <1>12. CASE U!Restart
    BY <1>12 DEF U!Restart, U!NoSession
  <1>13. CASE UNCHANGED U!vars
    BY <1>13 DEF U!vars
  <1> QED
    BY <1>1, <1>2, <1>3, <1>4, <1>5, <1>6, <1>7, <1>8, <1>9, <1>10, <1>11, <1>12, <1>13 DEF U!Next

LEMMA StoredKept ==
  ASSUME U!UploadAssumption, UploadInv, [U!Next]_U!vars, NEW v \in Uploads, kind'[v] = "folder"
  PROVE  Stored(v)'
  <1> USE DEF Places, Stored, UploadInv, U!UploadTypeOK, U!UploadAssumption
  <1>1. ASSUME NEW u \in Uploads, U!Open(u) PROVE Stored(v)'
    <2>1. Sent(1) = PerBatch /\ PerBatch \in Nat
      BY SentMore
    <2>2. kind' = kind /\ cleaning' = cleaning /\ files' = files /\ path' = path
      BY <1>1 DEF U!Open
    <2>3. CASE v = u
      <3>1. ~path[u] /\ ~cleaning[u] /\ files[u] = 0
        BY <1>1, <2>2, <2>3 DEF U!Open
      <3>2. client'[u] = "waiting" /\ left'[u] = PerBatch /\ batch'[u] = 1
        BY <1>1 DEF U!Open
      <3> QED BY <2>1, <2>2, <2>3, <3>1, <3>2
    <2>4. CASE v # u
      <3>1. client'[v] = client[v] /\ batch'[v] = batch[v] /\ left'[v] = left[v] /\ repo'[v] = repo[v]
        BY <1>1, <2>4 DEF U!Open
      <3> QED BY <2>2, <3>1
    <2> QED BY <2>3, <2>4
  <1>2. ASSUME NEW u \in Uploads, U!NextBatch(u) PROVE Stored(v)'
    <2>1. kind' = kind /\ repo' = repo /\ cleaning' = cleaning /\ files' = files /\ path' = path
      BY <1>2 DEF U!NextBatch
    <2>2. CASE v = u
      <3>1. Sent(batch[u] + 1) = Sent(batch[u]) + PerBatch /\ Sent(batch[u]) \in Nat
        BY SentMore
      <3>2. client[u] = "ready" /\ ~path[u] /\ batch'[u] = batch[u] + 1
        BY <1>2, <2>1, <2>2 DEF U!NextBatch
      <3>3. \/ client'[u] = "waiting" /\ left'[u] = PerBatch
            \/ client'[u] = "failed"
        BY <1>2 DEF U!NextBatch
      <3> QED BY <2>1, <2>2, <3>1, <3>2, <3>3
    <2>3. CASE v # u
      <3>1. client'[v] = client[v] /\ batch'[v] = batch[v] /\ left'[v] = left[v]
        BY <1>2, <2>3 DEF U!NextBatch
      <3> QED BY <2>1, <3>1
    <2> QED BY <2>2, <2>3
  <1>3. ASSUME NEW u \in Uploads, U!BatchDone(u) \/ U!CommitRow(u) PROVE Stored(v)'
    BY <1>3 DEF U!BatchDone, U!CommitRow
  <1>4. ASSUME NEW u \in Uploads, U!BeginFinalize(u) PROVE Stored(v)'
    BY <1>4 DEF U!BeginFinalize
  <1>5. ASSUME NEW u \in Uploads, U!FinalizeRefused(u) PROVE Stored(v)'
    BY <1>5 DEF U!FinalizeRefused, U!Raise, U!Gives
  <1>6. ASSUME NEW u \in Uploads, U!Finalize(u) PROVE Stored(v)'
    <2>1. kind' = kind /\ cleaning' = cleaning /\ files' = files /\ left' = left /\ batch' = batch
      BY <1>6 DEF U!Finalize
    <2>2. CASE v = u
      <3>1. repo[u] # "none" /\ client[u] = "waiting" /\ left[u] = 0 /\ batch[u] = Batches
        BY <1>6 DEF U!Finalize, U!Visible
      <3>2. repo'[u] = "committed" /\ path'[u] /\ client'[u] = "loaded"
        BY <1>6 DEF U!Finalize
      <3> QED BY <2>1, <2>2, <3>1, <3>2
    <2>3. CASE v # u
      <3>1. client'[v] = client[v] /\ repo'[v] = repo[v] /\ path'[v] = path[v]
        BY <1>6, <2>3 DEF U!Finalize
      <3> QED BY <2>1, <3>1
    <2> QED BY <2>2, <2>3
  <1>14. ASSUME NEW u \in Uploads, U!NoCode(u) PROVE Stored(v)'
    BY <1>14 DEF U!NoCode, U!Wiped
  <1>15. ASSUME NEW u \in Uploads, U!RowVanished(u) PROVE Stored(v)'
    BY <1>15 DEF U!RowVanished, U!Wiped, U!Visible
  <1>7. ASSUME NEW u \in Uploads, U!ZipDone(u) \/ U!ZipFails(u) PROVE Stored(v)'
    <2>1. v # u /\ kind' = kind
      BY <1>7 DEF U!ZipDone, U!ZipFails
    <2>2. /\ repo'[v] = repo[v] /\ path'[v] = path[v] /\ files'[v] = files[v] /\ left'[v] = left[v]
          /\ client'[v] = client[v] /\ batch'[v] = batch[v] /\ cleaning'[v] = cleaning[v]
      BY <1>7, <2>1 DEF U!ZipDone, U!ZipFails, U!Wiped
    <2> QED BY <2>1, <2>2
  <1>8. ASSUME NEW u \in Uploads, U!DeleteRepo(u) \/ U!Clean(u) PROVE Stored(v)'
    BY <1>8 DEF U!DeleteRepo, U!Clean, U!Wiped
  <1>9. ASSUME NEW u \in Uploads, U!Expire(u) PROVE Stored(v)'
    BY <1>9 DEF U!Expire
  <1>10. ASSUME NEW u \in Uploads, NEW size \in 1..MaxFile, U!WriteFile(u, size) PROVE Stored(v)'
    BY <1>10 DEF U!WriteFile
  <1>11. ASSUME NEW u \in Uploads, NEW size \in 1..MaxFile, U!FileTooBig(u, size) PROVE Stored(v)'
    BY <1>11 DEF U!FileTooBig, U!Raise, U!Gives
  <1>12. CASE U!Restart
    BY <1>12 DEF U!Restart
  <1>13. CASE UNCHANGED U!vars
    BY <1>13 DEF U!vars
  <1> QED
    BY <1>1, <1>2, <1>3, <1>4, <1>5, <1>6, <1>7, <1>8, <1>9, <1>10, <1>11, <1>12, <1>13,
       <1>14, <1>15 DEF U!Next

LEMMA UploadStep ==
  ASSUME U!UploadAssumption, UploadInv, [U!Next]_U!vars
  PROVE  UploadInv'
  BY UploadTyped, PlacesKept, StoredKept DEF UploadInv

LEMMA StoredSuffices == UploadInv => U!ScannableIsWhole
  BY DEF UploadInv, Stored, Sent, U!ScannableIsWhole

-----------------------------------------------------------------------------
(* ScanEvents.                                                             *)

\* The numbers of the sequence follow one another up to n.
UpTo(q, n) == \A i \in 1..Len(q) : q[i] = n - Len(q) + i

\* The numbers of the sequence follow one another.
InARow(q) == \A i \in 1..(Len(q) - 1) : q[i + 1] = q[i] + 1

\* The types of the buffer and of the streams.
EventsTyped ==
  /\ progressed \in Nat /\ recent \in Seq(Nat)
  /\ queue \in [Streams -> Seq(Nat)] /\ passed \in [Streams -> Seq(Nat)]
  /\ state \in [Streams -> {"new", "open", "over"}]

\* What waits ends with the newest event, what was passed on ends where that begins.
Follows(d) ==
  /\ state[d] = "new" => queue[d] = <<>> /\ passed[d] = <<>>
  /\ state[d] = "open" => UpTo(queue[d], progressed) /\ UpTo(passed[d], progressed - Len(queue[d]))
  /\ state[d] = "over" => queue[d] = <<>> /\ InARow(passed[d])

\* Together they are inductive, for the streams whose queue was never full.
EventsInv ==
  /\ EventsTyped
  /\ UpTo(recent, progressed)
  /\ \A d \in Streams : d \notin full => Follows(d)

\* The next number is appended; the first one is taken off.
LEMMA UpToAppend ==
  ASSUME NEW q \in Seq(Nat), NEW n \in Int, n + 1 \in Nat, UpTo(q, n)
  PROVE  UpTo(Append(q, n + 1), n + 1) /\ Append(q, n + 1) \in Seq(Nat)
  BY DEF UpTo

LEMMA UpToTail ==
  ASSUME NEW q \in Seq(Nat), q # <<>>, NEW n \in Int, UpTo(q, n)
  PROVE  /\ UpTo(Tail(q), n) /\ Tail(q) \in Seq(Nat) /\ Len(Tail(q)) = Len(q) - 1
         /\ Head(q) = n - Len(q) + 1 /\ Head(q) \in Nat
  <1>1. Len(q) \in Nat /\ Len(q) > 0 /\ Head(q) = q[1]
    BY EmptySeq
  <1>2. \A i \in 1..Len(Tail(q)) : Tail(q)[i] = q[i + 1]
    BY HeadTailProperties
  <1>3. Len(Tail(q)) = Len(q) - 1 /\ Tail(q) \in Seq(Nat) /\ Head(q) \in Nat
    BY HeadTailProperties
  <1> QED BY <1>1, <1>2, <1>3 DEF UpTo

LEMMA UpToInARow ==
  ASSUME NEW q \in Seq(Nat), NEW n \in Int, UpTo(q, n)
  PROVE  InARow(q)
  <1> SUFFICES ASSUME NEW i \in 1..(Len(q) - 1) PROVE q[i + 1] = q[i] + 1
    BY DEF InARow
  <1>1. Len(q) \in Nat /\ i \in 1..Len(q) /\ i + 1 \in 1..Len(q) /\ i \in Nat
    OBVIOUS
  <1>2. q[i] = n - Len(q) + i /\ q[i + 1] = n - Len(q) + (i + 1)
    BY <1>1 DEF UpTo
  <1> QED BY <1>1, <1>2

\* The part of a buffer that is kept ends where it ended.
LEMMA UpToNewest ==
  ASSUME S!ScanEventsAssumption, NEW b \in Seq(Nat), NEW n \in Int, UpTo(b, n)
  PROVE  UpTo(S!Newest(b), n) /\ S!Newest(b) \in Seq(Nat)
  <1> DEFINE m == IF Len(b) > BufferMax THEN Len(b) - BufferMax + 1 ELSE 1
  <1>1. Len(b) \in Nat /\ m \in 1..(Len(b) + 1)
    BY DEF S!ScanEventsAssumption
  <1> HIDE DEF m
  <1>2. /\ SubSeq(b, m, Len(b)) \in Seq(Nat)
        /\ Len(SubSeq(b, m, Len(b))) = Len(b) - m + 1
        /\ \A i \in 1..(Len(b) - m + 1) : SubSeq(b, m, Len(b))[i] = b[m + i - 1]
    <2>1. \A i \in m..Len(b) : b[i] \in Nat
      BY <1>1
    <2> QED BY <1>1, <2>1, SubSeqProperties
  <1>3. UpTo(SubSeq(b, m, Len(b)), n)
    BY <1>1, <1>2 DEF UpTo
  <1> QED BY <1>2, <1>3 DEF S!Newest, m

LEMMA EventsInit == S!Init => EventsInv
  BY DEF S!Init, EventsInv, EventsTyped, UpTo, Follows

LEMMA PublishKeeps ==
  ASSUME S!ScanEventsAssumption, EventsInv, NEW end \in BOOLEAN, S!Publish(end)
  PROVE  EventsInv'
  <1>1. progressed' = progressed + 1 /\ UNCHANGED <<state, passed>> /\ full \subseteq full'
    BY DEF S!Publish
  <1>2. recent' = S!Newest(Append(recent, progressed + 1))
    BY DEF S!Publish
  <1>3. UpTo(recent', progressed') /\ recent' \in Seq(Nat) /\ progressed' \in Nat
    <2>1. recent \in Seq(Nat) /\ progressed \in Nat /\ progressed + 1 \in Nat
              /\ UpTo(recent, progressed)
      BY DEF EventsInv, EventsTyped
    <2>2. UpTo(Append(recent, progressed + 1), progressed + 1)
              /\ Append(recent, progressed + 1) \in Seq(Nat)
      BY <2>1, UpToAppend
    <2>3. UpTo(S!Newest(Append(recent, progressed + 1)), progressed + 1)
          /\ S!Newest(Append(recent, progressed + 1)) \in Seq(Nat)
      <3> DEFINE b == Append(recent, progressed + 1)
                 n == progressed + 1
      <3>1. b \in Seq(Nat) /\ n \in Int /\ UpTo(b, n)
        BY <2>1, <2>2
      <3> HIDE DEF b, n
      <3>2. UpTo(S!Newest(b), n) /\ S!Newest(b) \in Seq(Nat)
        BY <3>1, UpToNewest
      <3> QED BY <3>2 DEF b, n
    <2> QED BY <1>1, <1>2, <2>1, <2>3
  <1>4. \A d \in Streams :
          \/ state[d] = "open" /\ queue'[d] = Append(queue[d], progressed + 1)
          \/ (state[d] # "open" \/ d \in full') /\ queue'[d] = queue[d]
    BY DEF S!Publish
  <1>5. queue' \in [Streams -> Seq(Nat)]
    <2>1. queue' = [d \in Streams |-> queue'[d]]
      BY DEF S!Publish
    <2>2. ASSUME NEW d \in Streams PROVE queue'[d] \in Seq(Nat)
      <3>1. queue[d] \in Seq(Nat) /\ progressed + 1 \in Nat
        BY DEF EventsInv, EventsTyped
      <3>2. Append(queue[d], progressed + 1) \in Seq(Nat)
        BY <3>1
      <3> QED BY <1>4, <3>1, <3>2
    <2> QED BY <2>1, <2>2
  <1>6. ASSUME NEW d \in Streams, d \notin full' PROVE Follows(d)'
    <2>1. d \notin full /\ Follows(d)
      BY <1>1, <1>6 DEF EventsInv
    <2>2. CASE state[d] = "open"
      <3>1. queue'[d] = Append(queue[d], progressed + 1)
        BY <1>4, <1>6, <2>2
      <3>2. queue[d] \in Seq(Nat) /\ progressed \in Nat
        BY DEF EventsInv, EventsTyped
      <3>3. UpTo(queue'[d], progressed')
        BY <1>1, <2>1, <2>2, <3>1, <3>2, UpToAppend DEF Follows
      <3>4. Len(queue'[d]) = Len(queue[d]) + 1 /\ Len(queue[d]) \in Nat
        BY <3>1, <3>2
      <3>5. progressed' - Len(queue'[d]) = progressed - Len(queue[d])
        BY <1>1, <3>2, <3>4
      <3> QED BY <1>1, <2>1, <2>2, <3>3, <3>5 DEF Follows
    <2>3. CASE state[d] # "open"
      <3>1. queue'[d] = queue[d]
        BY <1>4, <2>3
      <3> QED BY <1>1, <2>1, <2>3, <3>1 DEF Follows
    <2> QED BY <2>2, <2>3
  <1> QED
    BY <1>1, <1>3, <1>5, <1>6 DEF EventsInv, EventsTyped

LEMMA PassOnKeeps ==
  ASSUME EventsInv, NEW d \in Streams, S!PassOn(d)
  PROVE  EventsInv'
  <1> USE DEF EventsInv, EventsTyped
  <1>0. /\ queue[d] \in Seq(Nat) /\ queue[d] # <<>> /\ passed[d] \in Seq(Nat) /\ progressed \in Nat
        /\ state[d] = "open" /\ UNCHANGED <<progressed, recent, full>>
    BY DEF S!PassOn
  <1> DEFINE e == Head(queue[d])
  <1>1. e \in Nat /\ Tail(queue[d]) \in Seq(Nat) /\ Len(Tail(queue[d])) = Len(queue[d]) - 1
    BY <1>0, HeadTailProperties
  <1>2. passed' = [passed EXCEPT ![d] = Append(@, e)]
    BY DEF S!PassOn
  <1>3. \/ state' = [state EXCEPT ![d] = "over"] /\ queue' = [queue EXCEPT ![d] = <<>>]
        \/ state' = state /\ queue' = [queue EXCEPT ![d] = Tail(@)]
    BY DEF S!PassOn
  <1> HIDE DEF e
  <1>4. EventsTyped'
    <2>1. <<>> \in Seq(Nat)
      BY EmptySeq
    <2>2. Append(passed[d], e) \in Seq(Nat)
      BY <1>0, <1>1
    <2> QED BY <1>0, <1>1, <1>2, <1>3, <2>1, <2>2
  <1>5. ASSUME NEW v \in Streams, v \notin full PROVE Follows(v)'
    <2>1. Follows(v)
      BY <1>5
    <2>2. CASE v = d
      <3>1. /\ UpTo(queue[d], progressed) /\ UpTo(passed[d], progressed - Len(queue[d]))
        BY <1>0, <2>1, <2>2 DEF Follows
      <3>2. UpTo(Tail(queue[d]), progressed) /\ e = progressed - Len(queue[d]) + 1
                /\ Len(queue[d]) \in Nat
        BY <1>0, <3>1, UpToTail DEF e
      <3>3. UpTo(Append(passed[d], e), progressed - Len(Tail(queue[d])))
        <4> DEFINE n == progressed - Len(queue[d])
        <4>1. n \in Int /\ e = n + 1 /\ n + 1 = progressed - Len(Tail(queue[d])) /\ n + 1 \in Nat
          BY <1>0, <1>1, <3>2
        <4>2. UpTo(passed[d], n)
          BY <3>1
        <4> HIDE DEF n
        <4>3. UpTo(Append(passed[d], n + 1), n + 1)
          BY <1>0, <4>1, <4>2, UpToAppend
        <4> QED BY <4>1, <4>3
      <3>4. InARow(Append(passed[d], e))
        <4>1. Append(passed[d], e) \in Seq(Nat) /\ progressed - Len(Tail(queue[d])) \in Int
          BY <1>0, <1>1, <3>2
        <4> QED BY <3>3, <4>1, UpToInARow
      <3>5. passed'[d] = Append(passed[d], e)
        BY <1>0, <1>2
      <3>6. \/ state'[d] = "over" /\ queue'[d] = <<>>
            \/ state'[d] = "open" /\ queue'[d] = Tail(queue[d])
        BY <1>0, <1>3
      <3> QED BY <1>0, <2>2, <3>2, <3>3, <3>4, <3>5, <3>6 DEF Follows
    <2>3. CASE v # d
      <3>1. queue'[v] = queue[v] /\ passed'[v] = passed[v] /\ state'[v] = state[v]
        BY <1>2, <1>3, <2>3
      <3> QED BY <1>0, <2>1, <3>1 DEF Follows
    <2> QED BY <2>2, <2>3
  <1>6. UpTo(recent, progressed)'
    BY <1>0
  <1> QED BY <1>0, <1>4, <1>5, <1>6

LEMMA EventsKept ==
  ASSUME S!ScanEventsAssumption, EventsInv, [S!Next]_S!vars
  PROVE  EventsInv'
  <1>1. CASE S!StartScan
    BY <1>1 DEF S!StartScan, EventsInv, EventsTyped, Follows
  <1>2. ASSUME NEW d \in Streams, S!Subscribe(d) PROVE EventsInv'
    <2>1. /\ state[d] = "new" /\ state' = [state EXCEPT ![d] = "open"]
          /\ queue' = [queue EXCEPT ![d] = recent] /\ UNCHANGED <<progressed, recent, passed, full>>
      BY <1>2 DEF S!Subscribe
    <2>2. EventsTyped'
      BY <2>1 DEF EventsInv, EventsTyped
    <2>3. ASSUME NEW v \in Streams, v \notin full PROVE Follows(v)'
      <3>1. Follows(v)
        BY <2>3 DEF EventsInv
      <3>2. CASE v = d
        <4>1. passed'[d] = <<>> /\ state'[d] = "open" /\ queue'[d] = recent
          BY <2>1, <3>1, <3>2 DEF Follows, EventsInv, EventsTyped
        <4>2. UpTo(passed'[d], progressed - Len(recent))
          BY <4>1 DEF UpTo
        <4> QED BY <2>1, <3>2, <4>1, <4>2 DEF Follows, EventsInv
      <3>3. CASE v # d
        <4>1. queue'[v] = queue[v] /\ passed'[v] = passed[v] /\ state'[v] = state[v]
          BY <2>1, <3>3 DEF EventsInv, EventsTyped
        <4> QED BY <2>1, <3>1, <4>1 DEF Follows
      <3> QED BY <3>2, <3>3
    <2>4. UpTo(recent, progressed)'
      BY <2>1 DEF EventsInv
    <2> QED BY <2>1, <2>2, <2>3, <2>4 DEF EventsInv
  <1>3. ASSUME NEW d \in Streams, S!Leave(d) PROVE EventsInv'
    <2>1. /\ state[d] = "open" /\ state' = [state EXCEPT ![d] = "over"]
          /\ queue' = [queue EXCEPT ![d] = <<>>] /\ UNCHANGED <<progressed, recent, passed, full>>
      BY <1>3 DEF S!Leave
    <2>2. EventsTyped'
      BY <2>1, EmptySeq DEF EventsInv, EventsTyped
    <2>3. ASSUME NEW v \in Streams, v \notin full PROVE Follows(v)'
      <3>1. Follows(v)
        BY <2>3 DEF EventsInv
      <3>2. CASE v = d
        <4>1. passed[d] \in Seq(Nat) /\ progressed - Len(queue[d]) \in Int
                  /\ UpTo(passed[d], progressed - Len(queue[d]))
          BY <2>1, <3>1, <3>2 DEF Follows, EventsInv, EventsTyped
        <4>2. InARow(passed[d])
          BY <4>1, UpToInARow
        <4>3. state'[d] = "over" /\ queue'[d] = <<>> /\ passed' = passed
          BY <2>1 DEF EventsInv, EventsTyped
        <4> QED BY <3>2, <4>2, <4>3 DEF Follows
      <3>3. CASE v # d
        <4>1. queue'[v] = queue[v] /\ passed'[v] = passed[v] /\ state'[v] = state[v]
          BY <2>1, <3>3 DEF EventsInv, EventsTyped
        <4> QED BY <2>1, <3>1, <4>1 DEF Follows
      <3> QED BY <3>2, <3>3
    <2>4. UpTo(recent, progressed)'
      BY <2>1 DEF EventsInv
    <2> QED BY <2>1, <2>2, <2>3, <2>4 DEF EventsInv
  <1>4. CASE UNCHANGED S!vars
    BY <1>4 DEF S!vars, EventsInv, EventsTyped, Follows
  <1> QED
    BY <1>1, <1>2, <1>3, <1>4, PublishKeeps, PassOnKeeps DEF S!Next

LEMMA EventsInvGapless == EventsInv => S!Gapless
  <1> SUFFICES ASSUME EventsInv, NEW d \in Streams, d \notin full
               PROVE  LET whole == passed[d] \o queue[d]
                      IN /\ \A i \in 1..(Len(whole) - 1) : whole[i + 1] = whole[i] + 1
                         /\ state[d] = "open" /\ whole # <<>> => S!Last(whole) = progressed
    BY DEF S!Gapless
  <1> DEFINE g == passed[d]
             q == queue[d]
             a == g \o q
  <1>1. /\ g \in Seq(Nat) /\ q \in Seq(Nat) /\ progressed \in Nat /\ Follows(d)
        /\ state[d] \in {"new", "open", "over"}
    BY DEF EventsInv, EventsTyped
  <1>2. Len(a) = Len(g) + Len(q) /\ a \in Seq(Nat) /\ Len(g) \in Nat /\ Len(q) \in Nat
        /\ \A i \in 1..(Len(g) + Len(q)) : a[i] = IF i <= Len(g) THEN g[i] ELSE q[i - Len(g)]
    <2> HIDE DEF g, q
    <2>1. g \in Seq(Nat) /\ q \in Seq(Nat) /\ Len(g) \in Nat /\ Len(q) \in Nat
      BY <1>1
    <2> QED BY <2>1, ConcatProperties
  <1>3. CASE state[d] = "open"
    <2>1. UpTo(q, progressed) /\ UpTo(g, progressed - Len(q))
      BY <1>1, <1>3 DEF Follows
    <2> HIDE DEF g, q
    <2>2. UpTo(a, progressed)
      <3> HIDE DEF a
      <3> SUFFICES ASSUME NEW i \in 1..Len(a) PROVE a[i] = progressed - Len(a) + i
        BY DEF UpTo
      <3>1. CASE i <= Len(g)
        <4>1. i \in 1..Len(g) /\ a[i] = g[i]
          BY <1>2, <3>1
        <4>2. g[i] = (progressed - Len(q)) - Len(g) + i
          BY <2>1, <4>1 DEF UpTo
        <4> QED BY <1>1, <1>2, <4>1, <4>2
      <3>2. CASE i > Len(g)
        <4>1. i - Len(g) \in 1..Len(q)
          BY <1>2, <3>2
        <4>2. q[i - Len(g)] = progressed - Len(q) + (i - Len(g))
          BY <2>1, <4>1 DEF UpTo
        <4>3. a[i] = q[i - Len(g)]
          BY <1>2, <3>2
        <4> QED BY <1>1, <1>2, <4>2, <4>3
      <3>3. i \in Nat
        BY <1>2
      <3> QED BY <1>2, <3>1, <3>2, <3>3
    <2>3. InARow(a)
      <3>1. a \in Seq(Nat) /\ progressed \in Int
        BY <1>1, <1>2
      <3> HIDE DEF a
      <3> QED BY <3>1, <2>2, UpToInARow
    <2>4. a # <<>> => S!Last(a) = progressed
      <3> HIDE DEF a
      <3> SUFFICES ASSUME a # <<>> PROVE a[Len(a)] = progressed
        BY DEF S!Last
      <3>1. Len(a) \in 1..Len(a)
        BY <1>2, EmptySeq
      <3>2. a[Len(a)] = progressed - Len(a) + Len(a)
        BY <2>2, <3>1 DEF UpTo
      <3> QED BY <1>1, <1>2, <3>2
    <2> QED BY <2>3, <2>4 DEF InARow, g, q
  <1>4. CASE state[d] # "open"
    <2>1. q = <<>> /\ InARow(g)
      <3>1. InARow(<<>>)
        BY DEF InARow
      <3> QED BY <1>1, <1>4, <3>1 DEF Follows
    <2>2. a = g
      BY <1>1, <2>1, ConcatEmptySeq
    <2> QED BY <1>4, <2>1, <2>2 DEF InARow
  <1> QED BY <1>3, <1>4

-----------------------------------------------------------------------------
(* RepoScopes.                                                             *)

\* The names there are.
Names == {Root} \union UNION {P!ToSet(f) : f \in Folders}
\* The paths that can be written with them.
Paths == Seq(Names)
\* Its first name is not taken for that of the project's folder.
Bare(p) == Len(p) > 1 => p[1] # Root

\* A path is a prefix of another one when their first names agree.
LEMMA PrefixElements ==
  ASSUME NEW w \in Paths, NEW t \in Paths
  PROVE  P!IsPrefix(w, t) <=> Len(w) <= Len(t) /\ \A i \in 1..Len(w) : w[i] = t[i]
  <1>0. w \in Seq(Names) /\ t \in Seq(Names) /\ Len(w) \in Nat /\ Len(t) \in Nat
    BY DEF Paths
  <1>1. CASE Len(w) > Len(t)
    BY <1>0, <1>1 DEF P!IsPrefix
  <1>2. CASE Len(w) <= Len(t)
    <2>1. SubSeq(w, 1, Len(w)) = w
      BY <1>0, SubSeqFull
    <2>2. /\ SubSeq(t, 1, Len(w)) \in Seq(Names) /\ Len(SubSeq(t, 1, Len(w))) = Len(w)
          /\ \A i \in 1..Len(w) : SubSeq(t, 1, Len(w))[i] = t[i]
      <3>1. \A i \in 1..Len(w) : t[i] \in Names
        BY <1>0, <1>2
      <3>2. /\ SubSeq(t, 1, Len(w)) \in Seq(Names)
            /\ Len(SubSeq(t, 1, Len(w))) = IF 1 <= Len(w) THEN Len(w) - 1 + 1 ELSE 0
            /\ \A i \in 1..(Len(w) - 1 + 1) : SubSeq(t, 1, Len(w))[i] = t[1 + i - 1]
        BY <1>0, <3>1, SubSeqProperties
      <3> QED BY <1>0, <3>2
    <2>3. SubSeq(t, 1, Len(w)) = w <=> \A i \in 1..Len(w) : w[i] = t[i]
      BY <1>0, <2>2, SeqEqual
    <2> QED BY <1>2, <2>1, <2>3 DEF P!IsPrefix
  <1> QED BY <1>0, <1>1, <1>2

LEMMA EndOf ==
  ASSUME NEW p \in Paths, NEW i \in 1..Len(p)
  PROVE  /\ SubSeq(p, i, Len(p)) \in Paths /\ Len(SubSeq(p, i, Len(p))) = Len(p) - i + 1
         /\ \A j \in 1..(Len(p) - i + 1) : SubSeq(p, i, Len(p))[j] = p[i + j - 1]
  <1>1. p \in Seq(Names) /\ Len(p) \in Nat /\ i \in Int
    BY DEF Paths
  <1>2. \A j \in i..Len(p) : p[j] \in Names
    BY <1>1
  <1> QED BY <1>1, <1>2, SubSeqProperties DEF Paths

LEMMA FirstIsOne ==
  ASSUME NEW p, NEW end \in Int, NEW i \in P!FirstForceApp(p, end)
  PROVE  /\ P!TailFrom(p, P!FirstForceApp(p, end)) = SubSeq(p, i, Len(p))
         /\ i \in 1..end /\ p[i] = ForceApp /\ \A j \in 1..(i - 1) : p[j] # ForceApp
  <1>1. i \in 1..end /\ p[i] = ForceApp /\ \A j \in 1..(i - 1) : p[j] # ForceApp
    BY DEF P!FirstForceApp
  <1>2. ASSUME NEW k \in P!FirstForceApp(p, end) PROVE k = i
    <2>1. k \in 1..end /\ p[k] = ForceApp /\ \A j \in 1..(k - 1) : p[j] # ForceApp
      BY <1>2 DEF P!FirstForceApp
    <2>2. ~(k < i) /\ ~(i < k)
      BY <1>1, <2>1
    <2> QED BY <1>1, <2>1, <2>2
  <1>3. (CHOOSE k \in P!FirstForceApp(p, end) : TRUE) = i
    BY <1>2
  <1> QED BY <1>1, <1>3 DEF P!TailFrom

\* What is kept of a path from force-app on is a path.
LEMMA TailIsPath ==
  ASSUME NEW p \in Paths
  PROVE  P!ForceAppTail(p) \in Paths
  <1>1. CASE P!FirstForceApp(p, Len(p) - 1) = {}
    BY <1>1 DEF P!ForceAppTail, P!TailFrom
  <1>2. ASSUME NEW i \in P!FirstForceApp(p, Len(p) - 1)
        PROVE  P!ForceAppTail(p) \in Paths
    <2>1. Len(p) \in Nat
      BY DEF Paths
    <2>2. P!ForceAppTail(p) = SubSeq(p, i, Len(p)) /\ i \in 1..Len(p)
      BY <2>1, FirstIsOne DEF P!ForceAppTail
    <2> QED BY <2>2, EndOf
  <1> QED BY <1>1, <1>2

\* Keeping it twice is keeping it once.
LEMMA TailOnce ==
  ASSUME NEW p \in Paths
  PROVE  P!ForceAppTail(P!ForceAppTail(p)) = P!ForceAppTail(p)
  <1>0. Len(p) \in Nat
    BY DEF Paths
  <1>1. CASE P!FirstForceApp(p, Len(p) - 1) = {}
    BY <1>1 DEF P!ForceAppTail, P!TailFrom
  <1>2. ASSUME NEW i \in P!FirstForceApp(p, Len(p) - 1)
        PROVE  P!ForceAppTail(P!ForceAppTail(p)) = P!ForceAppTail(p)
    <2> DEFINE t == SubSeq(p, i, Len(p))
    <2>1. P!ForceAppTail(p) = t /\ i \in 1..(Len(p) - 1) /\ p[i] = ForceApp
      BY <1>0, FirstIsOne DEF P!ForceAppTail
    <2>2. /\ t \in Paths /\ Len(t) = Len(p) - i + 1
          /\ \A j \in 1..(Len(p) - i + 1) : t[j] = p[i + j - 1]
      BY <1>0, <2>1, EndOf
    <2> HIDE DEF t
    <2>3. t[1] = ForceApp /\ Len(t) - 1 \in Int /\ 1 \in 1..(Len(t) - 1)
      BY <1>0, <2>1, <2>2
    <2>4. 1 \in P!FirstForceApp(t, Len(t) - 1)
      BY <2>3 DEF P!FirstForceApp
    <2>5. P!ForceAppTail(t) = SubSeq(t, 1, Len(t))
      BY <2>3, <2>4, FirstIsOne DEF P!ForceAppTail
    <2>6. SubSeq(t, 1, Len(t)) = t
      BY <2>2, SubSeqFull DEF Paths
    <2> QED BY <2>1, <2>5, <2>6
  <1> QED BY <1>1, <1>2

\* The name of the project's folder in front leaves a path, and the same end from force-app on unless
\* that end began with it.
LEMMA NameIsCut ==
  ASSUME NEW p \in Paths
  PROVE  /\ P!StripName(p) \in Paths
         /\ Bare(P!ForceAppTail(p)) => P!ForceAppTail(P!StripName(p)) = P!ForceAppTail(p)
  <1>1. CASE ~(Len(p) > 1 /\ p[1] = Root)
    BY <1>1 DEF P!StripName
  <1>2. CASE Len(p) > 1 /\ p[1] = Root
    <2> DEFINE q == Tail(p)
    <2>0. P!StripName(p) = q /\ p \in Seq(Names) /\ Len(p) \in Nat
      BY <1>2 DEF P!StripName, Paths
    <2>1. /\ q \in Seq(Names) /\ Len(q) = Len(p) - 1
          /\ \A j \in 1..Len(q) : q[j] = p[j + 1]
      BY <1>2, <2>0
    <2> HIDE DEF q
    <2>2. ASSUME Bare(P!ForceAppTail(p)) PROVE P!ForceAppTail(q) = P!ForceAppTail(p)
      <3>1. P!FirstForceApp(p, Len(p) - 1) # {}
        BY <1>2, <2>2 DEF Bare, P!ForceAppTail, P!TailFrom
      <3>2. PICK i \in P!FirstForceApp(p, Len(p) - 1) : TRUE
        BY <3>1
      <3>3. /\ P!ForceAppTail(p) = SubSeq(p, i, Len(p)) /\ i \in 1..(Len(p) - 1) /\ p[i] = ForceApp
            /\ \A j \in 1..(i - 1) : p[j] # ForceApp
        BY <2>0, <3>2, FirstIsOne DEF P!ForceAppTail
      <3>4. i # 1
        <4>1. SubSeq(p, 1, Len(p)) = p
          BY <2>0, SubSeqFull
        <4> QED BY <1>2, <2>2, <3>3, <4>1 DEF Bare
      <3>5. i - 1 \in P!FirstForceApp(q, Len(q) - 1)
        <4>1. i - 1 \in 1..(Len(q) - 1) /\ q[i - 1] = ForceApp
          BY <2>0, <2>1, <3>3, <3>4
        <4>2. ASSUME NEW j \in 1..((i - 1) - 1) PROVE q[j] # ForceApp
          <5>1. j \in 1..Len(q) /\ j + 1 \in 1..(i - 1)
            BY <2>0, <2>1, <3>3
          <5> QED BY <2>1, <3>3, <5>1
        <4> QED BY <3>3, <4>1, <4>2 DEF P!FirstForceApp
      <3>6. P!ForceAppTail(q) = SubSeq(q, i - 1, Len(q))
        BY <2>0, <2>1, <3>5, FirstIsOne DEF P!ForceAppTail
      <3>7. /\ SubSeq(p, i, Len(p)) \in Paths /\ Len(SubSeq(p, i, Len(p))) = Len(p) - i + 1
            /\ \A j \in 1..(Len(p) - i + 1) : SubSeq(p, i, Len(p))[j] = p[i + j - 1]
        <4>1. i \in 1..Len(p)
          BY <2>0, <3>3
        <4> QED BY <4>1, EndOf
      <3>8. /\ SubSeq(q, i - 1, Len(q)) \in Paths /\ Len(SubSeq(q, i - 1, Len(q))) = Len(q) - (i - 1) + 1
            /\ \A j \in 1..(Len(q) - (i - 1) + 1) : SubSeq(q, i - 1, Len(q))[j] = q[(i - 1) + j - 1]
        <4>1. i - 1 \in 1..Len(q) /\ q \in Paths
          BY <2>0, <2>1, <3>3, <3>4 DEF Paths
        <4> QED BY <4>1, EndOf
      <3> DEFINE a == SubSeq(p, i, Len(p))
                 b == SubSeq(q, i - 1, Len(q))
      <3>9. a \in Seq(Names) /\ b \in Seq(Names) /\ Len(a) = Len(b) /\ Len(a) = Len(p) - i + 1
        BY <2>0, <2>1, <3>3, <3>7, <3>8 DEF Paths
      <3>10. ASSUME NEW j \in 1..Len(a) PROVE a[j] = b[j]
        <4>1. a[j] = p[i + j - 1] /\ b[j] = q[(i - 1) + j - 1]
          BY <2>0, <2>1, <3>3, <3>7, <3>8, <3>9
        <4>2. (i - 1) + j - 1 \in 1..Len(q)
          BY <2>0, <2>1, <3>3, <3>4, <3>9
        <4>3. q[(i - 1) + j - 1] = p[((i - 1) + j - 1) + 1] /\ ((i - 1) + j - 1) + 1 = i + j - 1
          <5>1. \A k \in 1..Len(q) : q[k] = p[k + 1]
            BY <2>1
          <5>2. ((i - 1) + j - 1) + 1 = i + j - 1
            BY <3>3, <3>9, <2>0
          <5> QED BY <4>2, <5>1, <5>2
        <4> QED BY <4>1, <4>3
      <3> HIDE DEF a, b
      <3>11. a = b
        BY <3>9, <3>10, SeqEqual
      <3> QED BY <3>3, <3>6, <3>11 DEF a, b
    <2> QED BY <2>0, <2>1, <2>2 DEF Paths
  <1> QED BY <1>1, <1>2

\* A repaired path is kept from force-app on.  A path that does not begin with the name of the project's
\* folder from there on stays what it is when it is repaired again.
LEMMA RepairKeeps ==
  ASSUME NEW p \in Paths
  PROVE  /\ P!Repair(p) \in Paths /\ P!ForceAppTail(P!Repair(p)) = P!Repair(p)
         /\ Bare(P!ForceAppTail(p)) =>
              P!Repair(p) = P!ForceAppTail(p) /\ P!Repair(P!Repair(p)) = P!Repair(p)
  <1>1. ASSUME NEW q \in Paths
        PROVE  P!StripRoot(q) \in Paths
                 /\ (Bare(P!ForceAppTail(q)) => P!ForceAppTail(P!StripRoot(q)) = P!ForceAppTail(q))
    <2> DEFINE r == P!StripName(q)
    <2>1. r \in Paths /\ (Bare(P!ForceAppTail(q)) => P!ForceAppTail(r) = P!ForceAppTail(q))
      BY NameIsCut
    <2> HIDE DEF r
    <2>2. /\ P!StripName(r) \in Paths
          /\ Bare(P!ForceAppTail(r)) => P!ForceAppTail(P!StripName(r)) = P!ForceAppTail(r)
      BY <2>1, NameIsCut
    <2> QED BY <2>1, <2>2 DEF P!StripRoot, r
  <1>2. P!Repair(p) \in Paths /\ P!ForceAppTail(P!Repair(p)) = P!Repair(p)
    BY <1>1, TailIsPath, TailOnce DEF P!Repair
  <1>3. ASSUME Bare(P!ForceAppTail(p))
        PROVE  P!Repair(p) = P!ForceAppTail(p) /\ P!Repair(P!Repair(p)) = P!Repair(p)
    <2>1. P!Repair(p) = P!ForceAppTail(p)
      BY <1>1, <1>3 DEF P!Repair
    <2>2. Bare(P!ForceAppTail(P!Repair(p)))
      BY <1>2, <1>3, <2>1
    <2>3. P!Repair(P!Repair(p)) = P!ForceAppTail(P!Repair(p))
      BY <1>1, <1>2, <2>2 DEF P!Repair
    <2> QED BY <1>2, <2>1, <2>3
  <1> QED BY <1>2, <1>3

\* The folders of a folder's path are paths.
LEMMA PlacesArePaths ==
  ASSUME P!ScopesAssumption, NEW d \in P!Places
  PROVE  d \in Paths /\ d # <<>>
  <1>0. PICK f \in Folders : \E k \in 1..Len(f) : d = SubSeq(f, 1, k)
    BY DEF P!Places, P!PathsOf
  <1>1. PICK n \in 1..Len(f) : d = SubSeq(f, 1, n)
    BY <1>0
  <1>2. f \in Seq(P!ToSet(f))
    BY DEF P!ScopesAssumption
  <1>3. f \in Paths /\ Len(f) \in Nat
    <2>1. P!ToSet(f) \subseteq Names
      BY DEF Names
    <2> QED BY <1>2, <2>1, SeqMonotonic DEF Paths
  <1>4. n \in Int /\ \A i \in 1..n : f[i] \in Names
    BY <1>3 DEF Paths
  <1>5. d \in Seq(Names) /\ Len(d) = IF 1 <= n THEN n - 1 + 1 ELSE 0
    BY <1>1, <1>4, SubSeqProperties
  <1>6. Len(d) = n /\ n > 0
    BY <1>3, <1>5
  <1> QED BY <1>5, <1>6, EmptySeq DEF Paths

LEMMA DirectoriesArePlaces == tree \subseteq Folders => P!Directories \subseteq P!Places
  BY DEF P!Directories, P!Places, P!PathsOf

\* A scope and what it becomes when it is repaired have the same files.
LEMMA PreflightSame ==
  ASSUME NEW p \in Paths, Bare(P!ForceAppTail(p))
  PROVE  /\ P!Preflight(P!Repair(p)) = P!Preflight(p)
         /\ P!Preflight(p) = {f \in tree : P!Matches(f, P!Repair(p))}
  BY RepairKeeps DEF P!Preflight

LEMMA CloneIsPath == <<Root>> \in Paths
  BY DEF Names, Paths

\* What a request for a folder becomes is the folder's path from force-app on.
LEMMA RequestKeeps ==
  ASSUME P!ScopesAssumption, NEW d \in P!Places, NEW p \in P!PathsFor(d), Bare(P!ForceAppTail(d))
  PROVE  P!Repair(p) = P!ForceAppTail(d)
  <1>1. d \in Seq(Names) /\ d # <<>> /\ d \in Paths
    BY PlacesArePaths DEF Paths
  <1>2. CASE p = d
    BY <1>1, <1>2, RepairKeeps
  <1>3. CASE p = <<Root>> \o d
    <2>1. <<Root>> \in Seq(Names) /\ d \in Seq(Names) /\ Len(d) \in Nat \ {0}
      BY <1>1, CloneIsPath, EmptySeq DEF Paths
    <2>2. Len(p) > 1 /\ p[1] = Root /\ Tail(p) = d
      BY <1>3, <2>1
    <2>3. P!StripName(p) = d
      BY <2>2 DEF P!StripName
    <2>4. P!ForceAppTail(P!StripName(d)) = P!ForceAppTail(d)
      BY <1>1, NameIsCut
    <2> QED BY <2>3, <2>4 DEF P!Repair, P!StripRoot
  <1> QED BY <1>2, <1>3 DEF P!PathsFor

LEMMA RequestIsPath ==
  ASSUME P!ScopesAssumption, NEW d \in P!Places \union {<<>>}, NEW p \in P!PathsFor(d)
  PROVE  p \in Paths /\ d \in Paths
  <1>1. d \in Seq(Names) /\ <<Root>> \in Seq(Names)
    BY PlacesArePaths, CloneIsPath, EmptySeq DEF Paths
  <1>2. <<Root>> \o d \in Seq(Names)
    BY <1>1, ConcatProperties
  <1> QED BY <1>1, <1>2 DEF P!PathsFor, Paths

LEMMA FolderIsPath ==
  ASSUME P!ScopesAssumption, NEW f \in Folders
  PROVE  f \in Paths
  <1>1. f \in Seq(P!ToSet(f))
    BY DEF P!ScopesAssumption
  <1>2. P!ToSet(f) \subseteq Names
    BY DEF Names
  <1> QED BY <1>1, <1>2, SeqMonotonic DEF Paths

\* A file in a folder is matched by the path of the folder from force-app on.
LEMMA UnderMatches ==
  ASSUME P!ScopesAssumption, NEW d \in P!Places, NEW f \in Folders, P!Within(f, d)
  PROVE  P!Matches(f, P!ForceAppTail(d))
  <1>1. d \in Paths /\ Len(d) \in Nat /\ f \in Paths /\ Len(f) \in Nat
    BY PlacesArePaths, FolderIsPath DEF Paths
  <1>2. P!ForceAppTail(P!ForceAppTail(d)) = P!ForceAppTail(d)
    BY <1>1, TailOnce
  <1>3. Len(d) <= Len(f) /\ \A i \in 1..Len(d) : d[i] = f[i]
    BY <1>1, PrefixElements DEF P!Within
  <1>4. CASE P!FirstForceApp(d, Len(d) - 1) = {}
    <2>1. P!ForceAppTail(d) = d
      BY <1>4 DEF P!ForceAppTail, P!TailFrom
    <2> QED BY <2>1 DEF P!Matches
  <1>5. ASSUME NEW i \in P!FirstForceApp(d, Len(d) - 1) PROVE P!Matches(f, P!ForceAppTail(d))
    <2> DEFINE t == SubSeq(d, i, Len(d))
               g == SubSeq(f, i, Len(f))
    <2>1. P!ForceAppTail(d) = t /\ i \in 1..(Len(d) - 1) /\ d[i] = ForceApp
              /\ \A j \in 1..(i - 1) : d[j] # ForceApp
      BY <1>1, FirstIsOne DEF P!ForceAppTail
    <2>2. i \in P!FirstForceApp(f, Len(f))
      <3>1. i \in 1..Len(f) /\ f[i] = ForceApp
        BY <1>1, <1>3, <2>1
      <3>2. ASSUME NEW j \in 1..(i - 1) PROVE f[j] # ForceApp
        <4>1. j \in 1..Len(d)
          BY <1>1, <2>1
        <4>2. d[j] = f[j] /\ d[j] # ForceApp
          BY <1>3, <2>1, <4>1
        <4> QED BY <4>2
      <3> QED BY <3>1, <3>2 DEF P!FirstForceApp
    <2>3. P!FileTail(f) = g /\ i \in 1..Len(f)
      BY <1>1, <2>2, FirstIsOne DEF P!FileTail
    <2>4. /\ t \in Paths /\ Len(t) = Len(d) - i + 1
          /\ \A j \in 1..(Len(d) - i + 1) : t[j] = d[i + j - 1]
      BY <1>1, <2>1, EndOf
    <2>5. /\ g \in Paths /\ Len(g) = Len(f) - i + 1
          /\ \A j \in 1..(Len(f) - i + 1) : g[j] = f[i + j - 1]
      BY <1>1, <2>3, EndOf
    <2> HIDE DEF t, g
    <2>6. ASSUME NEW j \in 1..Len(t) PROVE t[j] = g[j]
      <3>1. i + j - 1 \in 1..Len(d) /\ j \in 1..(Len(f) - i + 1)
        BY <1>1, <1>3, <2>1, <2>4
      <3> QED BY <1>3, <2>4, <2>5, <3>1
    <2>7. P!IsPrefix(t, g)
      <3>1. Len(t) <= Len(g)
        BY <1>1, <1>3, <2>1, <2>4, <2>5
      <3> QED BY <2>4, <2>5, <2>6, <3>1, PrefixElements
    <2> QED BY <1>2, <2>1, <2>3, <2>7 DEF P!Matches, P!Within
  <1> QED BY <1>4, <1>5

\* And the other way round: what is matched is in the folder, or in one with the same end.
LEMMA MatchesUnder ==
  ASSUME P!ScopesAssumption, NEW d \in P!Places, NEW f \in Folders, P!Matches(f, P!ForceAppTail(d))
  PROVE  P!Within(f, d) \/ P!Within(P!FileTail(f), P!ForceAppTail(d))
  <1>1. d \in Paths /\ Len(d) \in Nat /\ f \in Paths /\ f \in Seq(Names) /\ Len(f) \in Nat
    BY PlacesArePaths, FolderIsPath DEF Paths
  <1> DEFINE t == P!ForceAppTail(d)
  <1>2. t \in Paths /\ Len(t) \in Nat /\ P!ForceAppTail(t) = t
    BY <1>1, TailIsPath, TailOnce DEF Paths
  <1>3. CASE P!FirstForceApp(d, Len(d) - 1) = {}
    BY <1>2, <1>3 DEF P!Matches, P!ForceAppTail, P!TailFrom
  <1>4. ASSUME NEW i \in P!FirstForceApp(d, Len(d) - 1), P!Within(f, t) PROVE P!Within(P!FileTail(f), t)
    <2>1. t = SubSeq(d, i, Len(d)) /\ i \in 1..(Len(d) - 1) /\ d[i] = ForceApp
      BY <1>1, FirstIsOne DEF P!ForceAppTail
    <2>2. Len(t) = Len(d) - i + 1 /\ t[1] = d[i + 1 - 1]
      <3>1. i \in 1..Len(d) /\ 1 \in 1..(Len(d) - i + 1)
        BY <1>1, <2>1
      <3> HIDE DEF t
      <3> QED BY <1>1, <2>1, <3>1, EndOf
    <2> HIDE DEF t
    <2>3. t[1] = ForceApp /\ 1 \in 1..Len(t)
      BY <1>1, <2>1, <2>2
    <2>4. Len(t) <= Len(f) /\ f[1] = t[1]
      BY <1>1, <1>2, <1>4, <2>3, PrefixElements DEF P!Within
    <2>5. 1 \in P!FirstForceApp(f, Len(f))
      BY <1>1, <1>2, <2>3, <2>4 DEF P!FirstForceApp
    <2>6. P!FileTail(f) = SubSeq(f, 1, Len(f))
      <3>1. Len(f) \in Int
        BY <1>1
      <3> QED BY <2>5, <3>1, FirstIsOne DEF P!FileTail
    <2> QED BY <1>1, <1>4, <2>6, SubSeqFull
  <1> HIDE DEF t
  <1>5. P!Within(P!FileTail(f), t) \/ P!Within(f, t)
    BY <1>2 DEF P!Matches, t
  <1>6. CASE P!FirstForceApp(d, Len(d) - 1) # {}
    BY <1>4, <1>5, <1>6 DEF t
  <1> QED BY <1>3, <1>6

\* The files of the path of a folder from force-app on, when that does not begin with the name of the
\* project's folder.
LEMMA FilesOf ==
  ASSUME P!ScopesAssumption, tree \subseteq Folders, NEW d \in P!Places, Bare(P!ForceAppTail(d))
  PROVE  P!Preflight(P!ForceAppTail(d)) =
           {f \in tree : P!Within(f, d) \/ P!Within(P!FileTail(f), P!ForceAppTail(d))}
  <1> DEFINE t == P!ForceAppTail(d)
  <1>1. t \in Paths /\ P!ForceAppTail(t) = t /\ Bare(P!ForceAppTail(t))
    BY PlacesArePaths, TailIsPath, TailOnce
  <1>2. P!Repair(t) = t /\ P!Repair(P!Repair(t)) = t
    BY <1>1, RepairKeeps
  <1>3. P!Preflight(t) = {f \in tree : P!Matches(f, t)}
    BY <1>2 DEF P!Preflight
  <1>4. ASSUME NEW f \in tree
        PROVE  P!Matches(f, t) <=> P!Within(f, d) \/ P!Within(P!FileTail(f), t)
    <2>1. f \in Folders
      OBVIOUS
    <2>2. P!Within(P!FileTail(f), t) => P!Matches(f, t)
      BY <1>1 DEF P!Matches
    <2> QED BY <2>1, <2>2, UnderMatches, MatchesUnder
  <1> QED BY <1>3, <1>4

-----------------------------------------------------------------------------
\* A module of the tree it was created from has a scope that stays, its folder's from force-app on.
Kept(m) ==
  /\ status[m] \in {"pending", "indexed"}
  /\ asked[m] \in P!Places /\ scope[m] = P!ForceAppTail(asked[m])
  /\ P!Preflight(scope[m]) # {}

\* It is inductive: a module whose folder has changed since, or is not told from the project's by its
\* name, is not spoken of.
ScopeInv ==
  /\ tree \subseteq Folders
  /\ scope \in [Modules -> Paths] /\ asked \in [Modules -> Paths]
  /\ same \in [Modules -> BOOLEAN] /\ status \in [Modules -> {"none", "pending", "indexed", "failed"}]
  /\ \A m \in Modules : same[m] /\ asked[m] # <<>> /\ Bare(P!ForceAppTail(asked[m])) => Kept(m)

LEMMA ScopeInit == P!Init => ScopeInv
  <1> SUFFICES ASSUME P!Init PROVE ScopeInv
    OBVIOUS
  <1>1. <<>> \in Paths
    BY EmptySeq DEF Paths
  <1> QED BY <1>1 DEF P!Init, ScopeInv

\* A module that is created, again or for the first time.
LEMMA CreateKeeps ==
  ASSUME P!ScopesAssumption, ScopeInv, NEW m \in Modules, NEW d \in P!Places \union {<<>>},
         NEW p \in P!PathsFor(d), P!Create(m, d, p)
  PROVE  ScopeInv'
  <1> DEFINE r == P!Repair(p)
  <1>1. /\ scope' = [scope EXCEPT ![m] = P!Repair(r)] /\ asked' = [asked EXCEPT ![m] = d]
        /\ same' = [same EXCEPT ![m] = TRUE] /\ status' = [status EXCEPT ![m] = "pending"]
        /\ tree' = tree /\ P!Preflight(r) # {}
    BY DEF P!Create, P!Valid
  <1>2. P!Repair(r) \in Paths /\ d \in Paths
    BY RequestIsPath, RepairKeeps
  <1>3. ASSUME d # <<>>, Bare(P!ForceAppTail(d))
        PROVE  d \in P!Places /\ r = P!ForceAppTail(d) /\ P!Repair(r) = r
    <2>1. d \in P!Places /\ d \in Paths
      BY <1>2, <1>3
    <2>2. r = P!ForceAppTail(d)
      BY <1>3, <2>1, RequestKeeps
    <2>3. r \in Paths /\ P!ForceAppTail(r) = r
      BY <2>1, <2>2, TailIsPath, TailOnce
    <2> HIDE DEF r
    <2>4. P!Repair(r) = P!ForceAppTail(r)
      BY <1>3, <2>2, <2>3, RepairKeeps
    <2> QED BY <2>1, <2>2, <2>3, <2>4
  <1> HIDE DEF r
  <1>4. \A q : P!Preflight(q)' = P!Preflight(q)
    BY <1>1 DEF P!Preflight
  <1>5. ASSUME NEW n \in Modules, same'[n], asked'[n] # <<>>, Bare(P!ForceAppTail(asked'[n]))
        PROVE  Kept(n)'
    <2>1. P!Preflight(scope[n])' = P!Preflight(scope'[n])
      BY <1>1 DEF P!Preflight
    <2>2. CASE n = m
      <3>1. scope'[n] = P!Repair(r) /\ asked'[n] = d /\ status'[n] = "pending"
        BY <1>1, <2>2 DEF ScopeInv
      <3> QED BY <1>1, <1>3, <1>5, <2>1, <3>1 DEF Kept
    <2>3. CASE n # m
      <3>1. scope'[n] = scope[n] /\ asked'[n] = asked[n] /\ status'[n] = status[n] /\ same[n]
        BY <1>1, <1>5, <2>3 DEF ScopeInv
      <3>2. Kept(n)
        BY <1>5, <3>1 DEF ScopeInv
      <3> QED BY <2>1, <3>1, <3>2 DEF Kept
    <2> QED BY <2>2, <2>3
  <1>6. /\ scope' \in [Modules -> Paths] /\ asked' \in [Modules -> Paths]
        /\ same' \in [Modules -> BOOLEAN]
        /\ status' \in [Modules -> {"none", "pending", "indexed", "failed"}]
    BY <1>1, <1>2 DEF ScopeInv
  <1>7. \A n \in Modules :
           (same[n] /\ asked[n] # <<>> /\ Bare(P!ForceAppTail(asked[n])) => Kept(n))'
    BY <1>5 DEF Bare
  <1> QED BY <1>1, <1>6, <1>7 DEF ScopeInv

\* A scan stores the repaired scope, or fails.
LEMMA ScanKeeps ==
  ASSUME P!ScopesAssumption, ScopeInv, NEW m \in Modules, P!Scan(m)
  PROVE  ScopeInv'
  <1>1. /\ scope' = [scope EXCEPT ![m] = P!Repair(@)] /\ UNCHANGED <<tree, asked, same>>
        /\ status' = [status EXCEPT ![m] = IF P!Preflight(scope[m]) = {} THEN "failed" ELSE "indexed"]
    BY DEF P!Scan
  <1>2. P!Repair(scope[m]) \in Paths
    BY RepairKeeps DEF ScopeInv
  <1>3. ASSUME NEW n \in Modules, same'[n], asked'[n] # <<>>, Bare(P!ForceAppTail(asked'[n]))
        PROVE  Kept(n)'
    <2>1. Kept(n)
      BY <1>1, <1>3 DEF ScopeInv
    <2>2. P!Repair(scope[n]) = scope[n]
      <3>1. asked[n] \in Paths /\ scope[n] = P!ForceAppTail(asked[n]) /\ Bare(scope[n])
        BY <1>1, <1>3, <2>1 DEF Kept, ScopeInv
      <3>2. scope[n] \in Paths /\ P!ForceAppTail(scope[n]) = scope[n]
        BY <3>1, TailIsPath, TailOnce
      <3> QED BY <3>1, <3>2, RepairKeeps
    <2>3. scope'[n] = scope[n] /\ status'[n] \in {"pending", "indexed"} /\ asked'[n] = asked[n]
      BY <1>1, <2>1, <2>2 DEF Kept, ScopeInv
    <2>4. P!Preflight(scope[n])' = P!Preflight(scope'[n])
      BY <1>1 DEF P!Preflight
    <2>5. P!Preflight(scope'[n]) = P!Preflight(scope[n])
      BY <2>3
    <2> QED BY <2>1, <2>3, <2>4, <2>5 DEF Kept
  <1>4. scope' \in [Modules -> Paths]
    BY <1>1, <1>2 DEF ScopeInv
  <1>5. status' \in [Modules -> {"none", "pending", "indexed", "failed"}]
    BY <1>1 DEF ScopeInv
  <1>6. \A n \in Modules :
           (same[n] /\ asked[n] # <<>> /\ Bare(P!ForceAppTail(asked[n])) => Kept(n))'
    BY <1>3 DEF Bare
  <1> QED BY <1>1, <1>4, <1>5, <1>6 DEF ScopeInv

LEMMA ScopeKept ==
  ASSUME P!ScopesAssumption, ScopeInv, [P!Next]_P!vars
  PROVE  ScopeInv'
  <1>1. CASE P!Sync
    <2>1. /\ tree' \subseteq Folders /\ same' = [m \in Modules |-> FALSE]
          /\ UNCHANGED <<scope, asked, status>>
      BY <1>1 DEF P!Sync
    <2> QED BY <2>1 DEF ScopeInv
  <1>2. CASE UNCHANGED P!vars
    <2>1. \A n \in Modules : Kept(n)' <=> Kept(n)
      BY <1>2 DEF P!vars, Kept, P!Preflight
    <2> QED BY <1>2, <2>1 DEF P!vars, ScopeInv
  <1> QED BY <1>1, <1>2, CreateKeeps, ScanKeeps DEF P!Next

\* A folder that is offered, and not taken for another one, is repaired to one with files.
LEMMA OffersValid ==
  ASSUME P!ScopesAssumption, tree \subseteq Folders
  PROVE  P!OffersAreValid
  <1>1. ASSUME NEW e \in Paths, P!Preflight(e) # {}, Bare(P!ForceAppTail(P!Repair(e)))
        PROVE  P!Valid(P!Repair(P!Repair(e)))
    <2> DEFINE q == P!Repair(e)
    <2>1. q \in Paths /\ P!ForceAppTail(q) = q
      BY RepairKeeps
    <2>2. P!Repair(q) = q
      BY <1>1, <2>1, RepairKeeps
    <2>3. P!Preflight(q) = P!Preflight(e)
      BY <2>2 DEF P!Preflight
    <2> QED BY <1>1, <2>2, <2>3 DEF P!Valid
  <1>2. ASSUME NEW d \in P!Discovered, ~P!CutAgain(d) PROVE P!Valid(P!Repair(d))
    <2>1. d \in P!Places /\ P!Preflight(d) # {} /\ d \in Paths
      BY DirectoriesArePlaces, PlacesArePaths DEF P!Discovered, P!Features
    <2>2. Bare(P!ForceAppTail(d))
      BY <1>2 DEF P!CutAgain, Bare
    <2> QED BY <2>1, <2>2, PreflightSame DEF P!Valid
  <1>3. ASSUME NEW p \in P!Requestable, NEW q \in P!Suggestions(P!Repair(p)), ~P!CutAgain(q)
        PROVE  P!Valid(P!Repair(q))
    <2>1. Bare(P!ForceAppTail(q))
      BY <1>3 DEF P!CutAgain, Bare
    <2>2. CASE q \in P!ChildSuggestions(P!Repair(p))
      <3>1. PICK e \in P!Places : q = P!Repair(e) /\ P!Preflight(e) # {}
        BY <2>2 DEF P!ChildSuggestions, P!Children
      <3> QED BY <1>1, <2>1, <3>1, PlacesArePaths
    <2>3. CASE q \in P!ParentSuggestions(P!Repair(P!Repair(p)))
      <3> DEFINE r == P!Repair(P!Repair(p))
      <3>1. r \in Paths
        <4>1. p \in Paths
          BY RequestIsPath DEF P!Requestable
        <4> QED BY <4>1, RepairKeeps
      <3> HIDE DEF r
      <3>2. Len(r) > 1 /\ P!Preflight(P!Front(r)) # {} /\ q = P!Repair(P!Front(r))
        BY <2>3 DEF P!ParentSuggestions, r
      <3>3. P!Front(r) \in Paths
        <4>1. r \in Seq(Names) /\ Len(r) \in Nat
          BY <3>1 DEF Paths
        <4>2. \A i \in 1..(Len(r) - 1) : r[i] \in Names
          BY <4>1
        <4>3. SubSeq(r, 1, Len(r) - 1) \in Seq(Names)
          BY <3>2, <4>1, <4>2, SubSeqProperties
        <4> QED BY <4>3 DEF P!Front, Paths
      <3> QED BY <1>1, <2>1, <3>2, <3>3
    <2> QED BY <2>2, <2>3 DEF P!Suggestions
  <1> QED BY <1>2, <1>3 DEF P!OffersAreValid

LEMMA ScopesSuffice ==
  ASSUME P!ScopesAssumption, ScopeInv
  PROVE  P!ModuleHasItsFolder
  <1> SUFFICES ASSUME NEW m \in Modules, same[m], asked[m] # <<>>, ~P!CutAgain(asked[m])
               PROVE  /\ P!Preflight(scope[m]) =
                           {f \in tree : \/ P!Within(f, asked[m])
                                         \/ P!Within(P!FileTail(f), P!ForceAppTail(asked[m]))}
                      /\ status[m] # "failed"
    BY DEF P!ModuleHasItsFolder
  <1>1. Bare(P!ForceAppTail(asked[m]))
    BY DEF P!CutAgain, Bare
  <1>2. Kept(m)
    BY <1>1 DEF ScopeInv
  <1> QED BY <1>1, <1>2, FilesOf DEF Kept, ScopeInv

-----------------------------------------------------------------------------
(* SoqlSessions.                                                           *)

-----------------------------------------------------------------------------
(* Types; sessions are numbered as they are issued. *)

\* The cache and the queries hold sessions that were issued.
Numbered ==
  /\ 2 <= issued /\ cache <= issued
  /\ \A q \in Queries : soql[q].session <= issued /\ soql[q].refused <= issued
                          /\ soql[q].token <= issued

\* Together they are inductive.
SessionsInv == Q!SessionsTypeOK /\ Numbered

LEMMA SessionsInit == Q!SessionsAssumption /\ Q!Init => SessionsInv
  BY DEF Q!SessionsAssumption, Q!Init, SessionsInv, Q!SessionsTypeOK, Numbered, Q!Stored, Q!Sid

\* What a query can hold.
QueryRecords == [pc : {"resolve", "lock", "login", "send", "answered", "failed"},
            session : 0..MaxIssued, refused : 0..MaxIssued, token : 1..MaxIssued]

\* A query goes on to another place, with sessions that were issued.
LEMMA QueryGoesOn ==
  ASSUME Q!SessionsAssumption, SessionsInv,
         issued' = issued, auth' = auth, lock' = lock, accepted' = accepted, logins' = logins,
         cache' \in 0..issued, dropped' \in Nat,
         NEW q \in Queries, soql' \in [Queries -> QueryRecords],
         \A o \in Queries : o # q => soql'[o] = soql[o],
         soql'[q].session <= issued, soql'[q].refused <= issued, soql'[q].token <= issued
  PROVE  SessionsInv'
  <1> USE DEF SessionsInv, Q!SessionsTypeOK, Q!SessionsAssumption
  <1>1. Q!SessionsTypeOK'
    BY DEF Numbered, QueryRecords
  <1>2. soql \in [Queries -> QueryRecords] /\ soql'[q] \in QueryRecords
    BY DEF QueryRecords
  <1>3. \A o \in Queries : soql'[o].session <= issued /\ soql'[o].refused <= issued
                             /\ soql'[o].token <= issued
    BY DEF Numbered
  <1>4. Numbered'
    BY <1>3 DEF Numbered
  <1> QED
    BY <1>1, <1>4

LEMMA SessionsTyped ==
  ASSUME Q!SessionsAssumption, SessionsInv, [Q!Next]_Q!vars
  PROVE  SessionsInv'
  <1> USE DEF SessionsInv, Q!SessionsTypeOK, Numbered, Q!SessionsAssumption
  <1>0. soql \in [Queries -> QueryRecords] /\ Q!Sid \in 0..MaxIssued /\ Q!Sid <= issued
    BY DEF QueryRecords, Q!Sid
  <1>1. ASSUME NEW q \in Queries, Q!Resolve(q) PROVE SessionsInv'
    <2>1. soql' \in [Queries -> QueryRecords]
      <3>1. CASE q \in Browsing
        <4>1. soql' = [soql EXCEPT ![q].pc = "send", ![q].session = Q!Sid]
          BY <1>1, <3>1 DEF Q!Resolve
        <4> QED
          BY <1>0, <4>1 DEF QueryRecords
      <3>2. CASE q \notin Browsing
        BY <1>0, <1>1, <3>2 DEF Q!Resolve, QueryRecords
      <3> QED
        BY <3>1, <3>2
    <2>2. /\ \A o \in Queries : o # q => soql'[o] = soql[o]
          /\ soql'[q].session \in {Q!Sid, soql[q].session} /\ soql'[q].refused = soql[q].refused
          /\ soql'[q].token = soql[q].token
      BY <1>0, <1>1 DEF Q!Resolve, QueryRecords
    <2> QED
      BY <1>0, <1>1, <2>1, <2>2, QueryGoesOn DEF Q!Resolve
  <1>2. ASSUME NEW q \in Queries, Q!UseCached(q) PROVE SessionsInv'
    BY <1>2 DEF Q!UseCached, Q!Enters
  <1>3. ASSUME NEW q \in Queries, Q!UseStored(q) PROVE SessionsInv'
    <2>1. soql[q].token \in 1..MaxIssued /\ soql[q].token <= issued
      OBVIOUS
    <2>2. soql' \in [Queries -> QueryRecords]
      <3>1. soql[q].token \in 0..MaxIssued
        BY <2>1
      <3>2. soql' = [soql EXCEPT ![q].pc = "send", ![q].session = soql[q].token]
        BY <1>3 DEF Q!UseStored
      <3> HIDE DEF SessionsInv, Q!SessionsTypeOK, Numbered
      <3> QED
        BY <1>0, <3>1, <3>2 DEF QueryRecords
    <2>3. /\ \A o \in Queries : o # q => soql'[o] = soql[o]
          /\ soql'[q].session = soql[q].token /\ soql'[q].refused = soql[q].refused
          /\ soql'[q].token = soql[q].token
      BY <1>0, <1>3 DEF Q!UseStored, QueryRecords
    <2>4. cache' \in 0..issued
      BY <1>3, <2>1 DEF Q!UseStored
    <2> QED
      BY <1>3, <2>1, <2>2, <2>3, <2>4, QueryGoesOn DEF Q!UseStored
  <1>4. ASSUME NEW q \in Queries, Q!BeginLogin(q) PROVE SessionsInv'
    BY <1>4 DEF Q!BeginLogin, Q!Enters
  <1>5. ASSUME NEW q \in Queries, Q!LoggedIn(q) PROVE SessionsInv'
    BY <1>5 DEF Q!LoggedIn
  <1>6. ASSUME NEW q \in Queries, Q!LoginFails(q) PROVE SessionsInv'
    BY <1>6 DEF Q!LoginFails
  <1>7. ASSUME NEW q \in Queries, Q!Answered(q) \/ Q!RefusedAgain(q) PROVE SessionsInv'
    BY <1>7 DEF Q!Answered, Q!RefusedAgain
  <1>8. ASSUME NEW q \in Queries, Q!Refused(q) PROVE SessionsInv'
    <2>1. soql' \in [Queries -> QueryRecords]
      <3>1. soql[q].session \in 0..MaxIssued
        OBVIOUS
      <3>2. soql' = [soql EXCEPT ![q].pc = IF auth = "refresh" THEN "lock" ELSE "resolve",
                                  ![q].refused = soql[q].session]
        BY <1>8 DEF Q!Refused
      <3> HIDE DEF SessionsInv, Q!SessionsTypeOK, Numbered
      <3> QED
        BY <1>0, <3>1, <3>2 DEF QueryRecords
    <2>2. /\ \A o \in Queries : o # q => soql'[o] = soql[o]
          /\ soql'[q].session = soql[q].session /\ soql'[q].refused = soql[q].session
          /\ soql'[q].token = soql[q].token
      BY <1>0, <1>8 DEF Q!Refused, QueryRecords
    <2>3. cache' = 0 /\ dropped' \in Nat
      BY <1>8 DEF Q!Refused, Q!Invalidate
    <2> QED
      BY <1>8, <2>1, <2>2, <2>3, QueryGoesOn DEF Q!Refused
  <1>9. CASE Q!RunsOut
    BY <1>9 DEF Q!RunsOut
  <1>10. ASSUME NEW n \in 1..MaxIssued, Q!Revoke(n) PROVE SessionsInv'
    BY <1>10 DEF Q!Revoke
  <1>11. CASE UNCHANGED Q!vars
    BY <1>11 DEF Q!vars
  <1> QED
    BY <1>1, <1>2, <1>3, <1>4, <1>5, <1>6, <1>7, <1>8, <1>9, <1>10, <1>11 DEF Q!Next

-----------------------------------------------------------------------------
(* The second try *)

\* Once a query was refused, the cache never holds its session again where there are credentials to
\* log in with: what gets into it is issued later.  A token that can be refreshed is, at once.
Refreshed ==
  /\ auth = "credentials" => \A q \in Queries : Q!Again(q) => cache # soql[q].refused
  /\ auth = "refresh" => \A q \in Queries : Q!Again(q) => soql[q].pc # "resolve"

\* Together they are inductive: the cache is what a second try takes its session from.
Retries == SessionsInv /\ Refreshed /\ Q!RetryIsFresh

LEMMA RetriesKept ==
  ASSUME Q!SessionsAssumption, Retries, [Q!Next]_Q!vars
  PROVE  Refreshed' /\ Q!RetryIsFresh'
  <1> USE DEF Retries, SessionsInv, Q!SessionsTypeOK, Refreshed, Q!RetryIsFresh, Q!Again
  <1>1. ASSUME NEW q \in Queries, Q!Resolve(q) PROVE Refreshed' /\ Q!RetryIsFresh'
    BY <1>1 DEF Q!Resolve
  <1>2. ASSUME NEW q \in Queries, Q!UseCached(q) PROVE Refreshed' /\ Q!RetryIsFresh'
    BY <1>2 DEF Q!UseCached, Q!Enters, Q!Forced
  <1>3. ASSUME NEW q \in Queries, Q!UseStored(q) PROVE Refreshed' /\ Q!RetryIsFresh'
    BY <1>3 DEF Q!UseStored, Q!Enters, Q!Forced
  <1>4. ASSUME NEW q \in Queries, Q!BeginLogin(q) PROVE Refreshed' /\ Q!RetryIsFresh'
    BY <1>4 DEF Q!BeginLogin
  <1>5. ASSUME NEW q \in Queries, Q!LoggedIn(q) PROVE Refreshed' /\ Q!RetryIsFresh'
    BY <1>5 DEF Q!LoggedIn, Numbered
  <1>6. ASSUME NEW q \in Queries, Q!LoginFails(q) PROVE Refreshed' /\ Q!RetryIsFresh'
    BY <1>6 DEF Q!LoginFails
  <1>7. ASSUME NEW q \in Queries, Q!Answered(q) \/ Q!RefusedAgain(q)
        PROVE  Refreshed' /\ Q!RetryIsFresh'
    BY <1>7 DEF Q!Answered, Q!RefusedAgain
  <1>8. ASSUME NEW q \in Queries, Q!Refused(q) PROVE Refreshed' /\ Q!RetryIsFresh'
    BY <1>8 DEF Q!Refused, Q!Invalidate
  <1>9. CASE Q!RunsOut
    BY <1>9 DEF Q!RunsOut
  <1>10. ASSUME NEW n \in 1..MaxIssued, Q!Revoke(n) PROVE Refreshed' /\ Q!RetryIsFresh'
    BY <1>10 DEF Q!Revoke
  <1>11. CASE UNCHANGED Q!vars
    BY <1>11 DEF Q!vars
  <1> QED
    BY <1>1, <1>2, <1>3, <1>4, <1>5, <1>6, <1>7, <1>8, <1>9, <1>10, <1>11 DEF Q!Next

-----------------------------------------------------------------------------
(* Logins *)

\* The queries that wait to have a token refreshed, or are having it.
Refreshing == {q \in Queries : Q!Again(q) /\ soql[q].pc \in {"lock", "login"}}

\* With credentials, whoever logs in holds the lock while the cache is empty; with a token, a query
\* refreshes it once, after it was refused.
LoginsMade ==
  /\ \A q \in Queries : soql[q].pc = "login" <=> lock = q
  /\ auth = "credentials" =>
       /\ lock # Nobody => cache = 0
       /\ logins <= dropped + (IF cache # 0 THEN 1 ELSE 0)
  /\ auth = "oauth" => lock = Nobody /\ logins = 0
  /\ auth = "refresh" =>
       /\ \A q \in Queries : soql[q].pc = "login" => Q!Again(q)
       /\ IsFiniteSet(Refreshing)
       /\ logins + Cardinality(Refreshing) <= dropped

\* Together they are inductive.
CountInv == Retries /\ LoginsMade

LEMMA InitCounted == Q!SessionsAssumption /\ Q!Init => LoginsMade
  <1> SUFFICES ASSUME Q!SessionsAssumption, Q!Init PROVE LoginsMade
    OBVIOUS
  <1>1. Refreshing = {}
    BY DEF Q!Init, Refreshing, Q!Again
  <1> QED
    BY <1>1, FS_EmptySet DEF Q!Init, LoginsMade, Q!SessionsAssumption

\* Nothing is logged in, and nobody starts or stops waiting for it.
LEMMA SameCount ==
  ASSUME Q!SessionsAssumption, CountInv, auth' = auth, lock' = lock, logins' = logins, dropped' \in Nat,
         \/ cache' = cache /\ dropped' = dropped
         \/ cache' = 0 /\ dropped' = dropped + 1
         \/ auth # "credentials" /\ dropped' = dropped,
         \A q \in Queries : soql'[q].pc = "login" <=> soql[q].pc = "login",
         auth = "refresh" => \A q \in Queries : soql[q].pc = "login" => soql'[q].refused = soql[q].refused,
         auth = "refresh" => Refreshing' = Refreshing
  PROVE  LoginsMade'
  <1> USE DEF CountInv, LoginsMade, Retries, SessionsInv, Q!SessionsTypeOK
  <1>1. ASSUME auth = "credentials" PROVE LoginsMade'
    <2>1. cache \in Nat /\ cache' \in Nat /\ logins \in Nat /\ dropped \in Nat
      BY <1>1 DEF Q!SessionsAssumption
    <2>2. (lock # Nobody => cache = 0) /\ logins <= dropped + (IF cache # 0 THEN 1 ELSE 0)
      BY <1>1
    <2>3. (lock # Nobody => cache' = 0) /\ logins <= dropped' + (IF cache' # 0 THEN 1 ELSE 0)
      <3> HIDE DEF CountInv, LoginsMade, Retries, SessionsInv, Q!SessionsTypeOK
      <3>1. CASE cache' = cache /\ dropped' = dropped
        BY <2>2, <3>1
      <3>2. CASE cache' = 0 /\ dropped' = dropped + 1
        <4>1. (IF cache # 0 THEN 1 ELSE 0) \in {0, 1}
          OBVIOUS
        <4>2. logins <= dropped + 1
          BY <2>1, <2>2, <4>1
        <4> QED
          BY <2>1, <3>2, <4>2
      <3> QED
        BY <1>1, <3>1, <3>2
    <2> QED
      BY <1>1, <2>3
  <1>2. auth = "oauth" => LoginsMade'
    OBVIOUS
  <1>3. auth = "refresh" => Cardinality(Refreshing) \in Nat
    BY FS_CardinalityType
  <1>4. auth = "refresh" => LoginsMade'
    BY <1>3 DEF Q!Again
  <1> QED
    BY <1>1, <1>2, <1>4
LEMMA CountKept ==
  ASSUME Q!SessionsAssumption, CountInv, [Q!Next]_Q!vars
  PROVE  LoginsMade'
  <1> USE DEF CountInv, Retries, SessionsInv, Q!SessionsTypeOK
  <1>1. ASSUME NEW q \in Queries,
               Q!Resolve(q) \/ Q!UseCached(q) \/ Q!UseStored(q) \/ Q!Answered(q) \/ Q!RefusedAgain(q)
        PROVE  LoginsMade'
    <2>1. auth' = auth /\ lock' = lock /\ logins' = logins /\ dropped' = dropped
      BY <1>1 DEF Q!Resolve, Q!UseCached, Q!UseStored, Q!Answered, Q!RefusedAgain
    <2>2. cache' = cache \/ auth # "credentials"
      BY <1>1 DEF Q!Resolve, Q!UseCached, Q!UseStored, Q!Answered, Q!RefusedAgain
    <2> DEFINE Steady == \A o \in Queries : /\ soql'[o].pc = "login" <=> soql[o].pc = "login"
                                            /\ soql'[o].refused = soql[o].refused
               Waits(o) == auth = "refresh" /\ Q!Again(o) /\ soql[o].pc \in {"lock", "login"}
    <2>3. Steady /\ ~Waits(q) /\ ~Waits(q)'
      <3>1. CASE Q!Resolve(q)
        BY <2>1, <3>1 DEF Q!Resolve, Q!Again, Refreshed
      <3>2. CASE Q!UseCached(q)
        BY <2>1, <3>2 DEF Q!UseCached, Q!Enters, Q!Forced, Q!Again, Refreshed
      <3>3. CASE Q!UseStored(q)
        BY <2>1, <3>3 DEF Q!UseStored, Q!Enters, Q!Forced, Q!Again, Refreshed
      <3>4. CASE Q!Answered(q)
        BY <2>1, <3>4 DEF Q!Answered, Q!Again, Refreshed
      <3>5. CASE Q!RefusedAgain(q)
        BY <2>1, <3>5 DEF Q!RefusedAgain, Q!Again, Refreshed
      <3> QED
        BY <1>1, <3>1, <3>2, <3>3, <3>4, <3>5
    <2>4. \A o \in Queries : o # q => soql'[o] = soql[o]
      BY <1>1 DEF Q!Resolve, Q!UseCached, Q!UseStored, Q!Answered, Q!RefusedAgain
    <2>5. ASSUME auth = "refresh" PROVE Refreshing' = Refreshing
      <3>1. \A o \in Queries : o \in Refreshing' <=> o \in Refreshing
        BY <2>1, <2>3, <2>4, <2>5 DEF Refreshing, Q!Again
      <3> QED
        BY <3>1 DEF Refreshing
    <2> QED
      BY <2>1, <2>2, <2>3, <2>5, SameCount
  <1>2. ASSUME NEW q \in Queries, Q!BeginLogin(q) PROVE LoginsMade'
    <2>1. /\ lock = Nobody /\ lock' = q /\ q # Nobody /\ soql[q].pc = "lock"
          /\ UNCHANGED <<auth, cache, logins, dropped>>
          /\ (cache = 0 /\ auth = "credentials") \/ Q!Forced(q)
      BY <1>2 DEF Q!BeginLogin, Q!Enters, Q!SessionsAssumption
    <2>2. /\ soql'[q].pc = "login" /\ soql'[q].refused = soql[q].refused
          /\ \A o \in Queries : o # q => soql'[o] = soql[o]
      BY <1>2 DEF Q!BeginLogin
    <2>3. Refreshing' = Refreshing
      BY <2>1, <2>2 DEF Refreshing, Q!Again
    <2>4. \A o \in Queries : soql'[o].pc = "login" <=> lock' = o
      BY <2>1, <2>2 DEF LoginsMade, Q!SessionsAssumption
    <2> QED
      BY <2>1, <2>2, <2>3, <2>4 DEF LoginsMade, Q!Forced, Q!Again
  <1>3. ASSUME NEW q \in Queries, Q!LoggedIn(q) PROVE LoginsMade'
    <2>1. /\ soql[q].pc = "login" /\ lock = q /\ lock' = Nobody /\ q # Nobody
          /\ logins' = logins + 1 /\ cache' = issued + 1 /\ UNCHANGED <<auth, dropped>>
      BY <1>3 DEF Q!LoggedIn, LoginsMade, Q!SessionsAssumption
    <2>2. /\ soql'[q].pc = "send" /\ soql'[q].refused = soql[q].refused
          /\ \A o \in Queries : o # q => soql'[o] = soql[o]
      BY <1>3 DEF Q!LoggedIn
    <2>3. \A o \in Queries : soql'[o].pc = "login" <=> lock' = o
      BY <2>1, <2>2 DEF LoginsMade, Q!SessionsAssumption
    <2>4. ASSUME auth = "credentials" PROVE LoginsMade'
      <3>1. cache' # 0 /\ logins' <= dropped' + 1
        BY <2>1, <2>4 DEF LoginsMade
      <3> QED
        BY <2>1, <2>3, <2>4, <3>1 DEF LoginsMade
    <2>5. ASSUME auth = "refresh" PROVE LoginsMade'
      <3>1. q \in Refreshing /\ Refreshing' = Refreshing \ {q}
        BY <2>1, <2>2, <2>5 DEF Refreshing, Q!Again, LoginsMade
      <3>2. IsFiniteSet(Refreshing') /\ Cardinality(Refreshing') = Cardinality(Refreshing) - 1
        BY <2>5, <3>1, FS_RemoveElement DEF LoginsMade
      <3>3. Cardinality(Refreshing) \in Nat /\ logins + Cardinality(Refreshing) <= dropped
        BY <2>5, FS_CardinalityType DEF LoginsMade
      <3>4. logins' + Cardinality(Refreshing') <= dropped'
        BY <2>1, <3>2, <3>3
      <3>5. \A o \in Queries : soql'[o].pc = "login" => Q!Again(o)'
        BY <2>2, <2>5 DEF LoginsMade, Q!Again
      <3> QED
        BY <2>1, <2>3, <2>5, <3>2, <3>4, <3>5 DEF LoginsMade
    <2>6. auth # "oauth"
      BY <2>1 DEF LoginsMade
    <2> QED
      BY <2>4, <2>5, <2>6
  <1>4. ASSUME NEW q \in Queries, Q!LoginFails(q) PROVE LoginsMade'
    <2>1. /\ soql[q].pc = "login" /\ lock = q /\ lock' = Nobody /\ q # Nobody
          /\ UNCHANGED <<auth, cache, logins, dropped>>
      BY <1>4 DEF Q!LoginFails, LoginsMade, Q!SessionsAssumption
    <2>2. /\ soql'[q].pc = "failed" /\ soql'[q].refused = soql[q].refused
          /\ \A o \in Queries : o # q => soql'[o] = soql[o]
      BY <1>4 DEF Q!LoginFails
    <2>3. \A o \in Queries : soql'[o].pc = "login" <=> lock' = o
      BY <2>1, <2>2 DEF LoginsMade, Q!SessionsAssumption
    <2>4. ASSUME auth = "refresh" PROVE LoginsMade'
      <3>1. q \in Refreshing /\ Refreshing' = Refreshing \ {q}
        BY <2>1, <2>2, <2>4 DEF Refreshing, Q!Again, LoginsMade
      <3>2. IsFiniteSet(Refreshing') /\ Cardinality(Refreshing') = Cardinality(Refreshing) - 1
        BY <2>4, <3>1, FS_RemoveElement DEF LoginsMade
      <3>3. Cardinality(Refreshing) \in Nat /\ logins + Cardinality(Refreshing) <= dropped
        BY <2>4, FS_CardinalityType DEF LoginsMade
      <3>4. logins' + Cardinality(Refreshing') <= dropped'
        BY <2>1, <3>2, <3>3
      <3>5. \A o \in Queries : soql'[o].pc = "login" => Q!Again(o)'
        BY <2>2, <2>4 DEF LoginsMade, Q!Again
      <3> QED
        BY <2>1, <2>3, <2>4, <3>2, <3>4, <3>5 DEF LoginsMade
    <2> QED
      BY <2>1, <2>3, <2>4 DEF LoginsMade
  <1>5. ASSUME NEW q \in Queries, Q!Refused(q) PROVE LoginsMade'
    <2>1. /\ soql[q].pc = "send" /\ ~Q!Again(q) /\ cache' = 0 /\ dropped' = dropped + 1
          /\ UNCHANGED <<auth, lock, logins>>
      BY <1>5 DEF Q!Refused, Q!Invalidate
    <2>2. /\ soql'[q].pc = (IF auth = "refresh" THEN "lock" ELSE "resolve")
          /\ soql'[q].refused = soql[q].session
          /\ \A o \in Queries : o # q => soql'[o] = soql[o]
      BY <1>5 DEF Q!Refused
    <2>3. \A o \in Queries : soql'[o].pc = "login" <=> lock' = o
      BY <2>1, <2>2 DEF LoginsMade
    <2>4. ASSUME auth = "refresh" PROVE LoginsMade'
      <3>1. q \notin Refreshing /\ Refreshing' \in {Refreshing, Refreshing \union {q}}
        BY <2>1, <2>2, <2>4 DEF Refreshing, Q!Again
      <3>2. IsFiniteSet(Refreshing') /\ Cardinality(Refreshing') <= Cardinality(Refreshing) + 1
        <4>1. Cardinality(Refreshing) \in Nat
          BY <2>4, FS_CardinalityType DEF LoginsMade
        <4>2. IsFiniteSet(Refreshing)
          BY <2>4 DEF LoginsMade
        <4>3. /\ IsFiniteSet(Refreshing \union {q})
              /\ Cardinality(Refreshing \union {q}) = Cardinality(Refreshing) + 1
          BY <3>1, <4>2, FS_AddElement
        <4>4. CASE Refreshing' = Refreshing
          BY <4>1, <4>2, <4>4
        <4>5. CASE Refreshing' = Refreshing \union {q}
          BY <4>1, <4>3, <4>5
        <4> QED
          BY <3>1, <4>4, <4>5
      <3>3. Cardinality(Refreshing) \in Nat /\ Cardinality(Refreshing') \in Nat
              /\ logins + Cardinality(Refreshing) <= dropped
        BY <2>4, <3>2, FS_CardinalityType DEF LoginsMade
      <3>4. logins' + Cardinality(Refreshing') <= dropped'
        BY <2>1, <3>2, <3>3
      <3>5. \A o \in Queries : soql'[o].pc = "login" => Q!Again(o)'
        BY <2>2, <2>4 DEF LoginsMade, Q!Again
      <3> QED
        BY <2>1, <2>3, <2>4, <3>2, <3>4, <3>5 DEF LoginsMade
    <2>5. ASSUME auth = "credentials" PROVE LoginsMade'
      <3>1. logins' <= dropped' + 0
        <4>1. (IF cache # 0 THEN 1 ELSE 0) \in {0, 1}
          OBVIOUS
        <4> QED
          BY <2>1, <2>5, <4>1 DEF LoginsMade
      <3> QED
        BY <2>1, <2>3, <2>5, <3>1 DEF LoginsMade
    <2> QED
      BY <2>1, <2>3, <2>4, <2>5 DEF LoginsMade
  <1>6. CASE Q!RunsOut
    BY <1>6, SameCount DEF Q!RunsOut, Refreshing, Q!Again
  <1>7. ASSUME NEW n \in 1..MaxIssued, Q!Revoke(n) PROVE LoginsMade'
    BY <1>7, SameCount DEF Q!Revoke, Refreshing, Q!Again
  <1>8. CASE UNCHANGED Q!vars
    BY <1>8, SameCount DEF Q!vars, Refreshing, Q!Again
  <1> QED
    BY <1>1, <1>2, <1>3, <1>4, <1>5, <1>6, <1>7, <1>8 DEF Q!Next

LEMMA CountSuffices == ASSUME CountInv PROVE Q!LoginsShared
  <1>1. logins \in Nat /\ dropped \in Nat /\ auth \in {"credentials", "oauth", "refresh"}
    BY DEF CountInv, Retries, SessionsInv, Q!SessionsTypeOK
  <1>2. CASE auth = "refresh"
    <2>1. Cardinality(Refreshing) \in Nat /\ logins + Cardinality(Refreshing) <= dropped
      BY <1>2, FS_CardinalityType DEF CountInv, LoginsMade
    <2> QED
      BY <1>1, <2>1 DEF Q!LoginsShared
  <1>3. CASE auth # "refresh"
    BY <1>1, <1>3 DEF CountInv, LoginsMade, Q!LoginsShared
  <1> QED
    BY <1>2, <1>3

LEMMA RetriesInit == Q!SessionsAssumption /\ Q!Init => Retries
  BY SessionsInit DEF Q!Init, Retries, Refreshed, Q!RetryIsFresh, Q!Again

LEMMA CountInit == Q!SessionsAssumption /\ Q!Init => CountInv
  BY RetriesInit, InitCounted DEF CountInv

-----------------------------------------------------------------------------
(* LlmRouter.                                                              *)

-----------------------------------------------------------------------------
(* Types *)

LEMMA AskedAreEndpoints == \A m : M!Asked(m) \subseteq M!Endpoints
  BY DEF M!Asked, M!Endpoints

LEMMA AgentModeIsMode == ASSUME M!RouterTypeOK PROVE M!AgentMode \in M!Modes
  BY DEF M!RouterTypeOK, M!AgentMode, M!Settings

LEMMA RouterInit == M!RouterAssumption /\ M!Init => M!RouterTypeOK
  BY DEF M!RouterAssumption, M!Init, M!RouterTypeOK, M!Endpoints, M!Modes

LEMMA RouterTyped ==
  ASSUME M!RouterAssumption, M!RouterTypeOK, [M!Next]_M!vars
  PROVE  M!RouterTypeOK'
  <1> USE DEF M!RouterTypeOK
  <1>1. CASE M!ServerChanges
    BY <1>1 DEF M!ServerChanges, M!RouterAssumption
  <1>2. CASE M!Expire
    BY <1>2 DEF M!Expire
  <1>3. ASSUME NEW c \in Clients, M!LoadRow(c) PROVE M!RouterTypeOK'
    <2>1. row' \in M!Modes
      BY <1>3 DEF M!LoadRow, M!Settings
    <2>2. calls' \in 0..MaxCalls
      BY <1>3 DEF M!LoadRow, M!RouterAssumption
    <2> QED
      BY <1>3, <2>1, <2>2 DEF M!LoadRow, M!Step
  <1>4. ASSUME NEW c \in Clients, M!CacheLoaded(c) PROVE M!RouterTypeOK'
    BY <1>4 DEF M!CacheLoaded, M!Step
  <1>5. ASSUME NEW c \in Clients, M!Save(c) PROVE M!RouterTypeOK'
    BY <1>5 DEF M!Save, M!Step
  <1>6. ASSUME NEW c \in Clients, M!CacheSaved(c) PROVE M!RouterTypeOK'
    BY <1>6 DEF M!CacheSaved, M!Step
  <1>7. ASSUME NEW c \in Clients, M!BeginHealth(c) PROVE M!RouterTypeOK'
    BY <1>7, AgentModeIsMode, AskedAreEndpoints DEF M!BeginHealth, M!Step
  <1>8. ASSUME NEW c \in Clients, M!Ask(c) PROVE M!RouterTypeOK'
    BY <1>8 DEF M!Ask
  <1>9. ASSUME NEW c \in Clients, M!Report(c) PROVE M!RouterTypeOK'
    BY <1>9 DEF M!Report, M!Step
  <1>10. CASE UNCHANGED M!vars
    BY <1>10 DEF M!vars
  <1> QED
    BY <1>1, <1>2, <1>3, <1>4, <1>5, <1>6, <1>7, <1>8, <1>9, <1>10 DEF M!Next

-----------------------------------------------------------------------------
(* A model for every task *)

-----------------------------------------------------------------------------
(* The report *)

\* What a request has still to ask, and what answered it, is what it asks in its mode.
Answers ==
  \A c \in Clients : pc[c] = "asking" => todo[c] \union ok[c] \subseteq M!Asked(held[c])

\* The next endpoint is one of those that are left.
LEMMA FirstIsLeft ==
  ASSUME NEW T \in SUBSET {"base", "nvidia", "brain", "rca", "vision"}, T # {}
  PROVE  M!First(T) \in T
  <1> DEFINE Leads(i) == M!Order[i] \in T /\ \A j \in 1..i - 1 : M!Order[j] \notin T
  <1>1. M!Order[1] = "base" /\ M!Order[2] = "nvidia" /\ M!Order[3] = "brain" /\ M!Order[4] = "rca"
          /\ M!Order[5] = "vision"
    BY DEF M!Order
  <1>2. \E i \in 1..5 : Leads(i)
    <2>1. CASE "base" \in T
      <3>1. Leads(1)
        BY <1>1, <2>1
      <3> QED
        BY <3>1
    <2>2. CASE "base" \notin T /\ "nvidia" \in T
      <3>1. Leads(2)
        BY <1>1, <2>2
      <3> QED
        BY <3>1
    <2>3. CASE "base" \notin T /\ "nvidia" \notin T /\ "brain" \in T
      <3>1. Leads(3)
        BY <1>1, <2>3
      <3> QED
        BY <3>1
    <2>4. CASE T \subseteq {"rca", "vision"} /\ "rca" \in T
      <3>1. Leads(4)
        BY <1>1, <2>4
      <3> QED
        BY <3>1
    <2>5. CASE T = {"vision"}
      <3>1. Leads(5)
        BY <1>1, <2>5
      <3> QED
        BY <3>1
    <2> QED
      BY <2>1, <2>2, <2>3, <2>4, <2>5
  <1>3. M!First(T) = M!Order[CHOOSE i \in 1..5 : Leads(i)]
    BY DEF M!First
  <1>4. Leads(CHOOSE i \in 1..5 : Leads(i))
    BY <1>2
  <1> QED
    BY <1>3, <1>4

LEMMA OpenAiIsNotAsked == \A m : M!Asked(m) \subseteq {"base", "nvidia", "brain", "rca", "vision"}
  BY DEF M!Asked

LEMMA AnswersKept ==
  ASSUME M!RouterTypeOK, Answers, [M!Next]_M!vars
  PROVE  Answers'
  <1> USE DEF M!RouterTypeOK, Answers
  <1> DEFINE Same == s' = s /\ held' = held /\ todo' = todo /\ ok' = ok
  <1>1. s' = s => \A m : M!Asked(m)' = M!Asked(m)
    BY DEF M!Asked, M!OnNvidia, M!Cloud
  <1>2. Same /\ (\A d \in Clients : pc'[d] = "asking" => pc[d] = "asking") => Answers'
    BY DEF M!Asked, M!OnNvidia, M!Cloud
  <1>3. CASE M!ServerChanges \/ M!Expire \/ UNCHANGED M!vars
    BY <1>2, <1>3 DEF M!ServerChanges, M!Expire, M!vars
  <1>4. ASSUME NEW c \in Clients, M!LoadRow(c) \/ M!Report(c) PROVE Answers'
    BY <1>4 DEF M!LoadRow, M!Report, M!Step, M!Asked, M!OnNvidia, M!Cloud
  <1>5. ASSUME NEW c \in Clients, M!CacheLoaded(c) PROVE Answers'
    <2>1. Same /\ pc' = [pc EXCEPT ![c] = IF want[c] = None THEN "health" ELSE "save"]
      BY <1>5 DEF M!CacheLoaded, M!Step
    <2> QED
      BY <1>2, <2>1
  <1>6. ASSUME NEW c \in Clients, M!Save(c) \/ M!CacheSaved(c) PROVE Answers'
    BY <1>2, <1>6 DEF M!Save, M!CacheSaved, M!Step
  <1>7. ASSUME NEW c \in Clients, M!BeginHealth(c) PROVE Answers'
    <2>1. s' = s /\ pc' = [pc EXCEPT ![c] = "asking"] /\ held' = [held EXCEPT ![c] = M!AgentMode]
            /\ todo' = [todo EXCEPT ![c] = M!Asked(M!AgentMode)] /\ ok' = [ok EXCEPT ![c] = {}]
      BY <1>7 DEF M!BeginHealth, M!Step
    <2> QED
      BY <2>1 DEF M!Asked, M!OnNvidia, M!Cloud
  <1>8. ASSUME NEW c \in Clients, M!Ask(c) PROVE Answers'
    <2> DEFINE e == M!First(todo[c])
    <2>1. pc[c] = "asking" /\ todo[c] # {} /\ s' = s /\ pc' = pc /\ held' = held
            /\ todo' = [todo EXCEPT ![c] = @ \ {e}]
            /\ ok' = [ok EXCEPT ![c] = @ \union ({e} \intersect up)]
      BY <1>8 DEF M!Ask
    <2>2. e \in todo[c]
      BY <2>1, FirstIsLeft, OpenAiIsNotAsked
    <2> HIDE DEF e
    <2>3. todo'[c] \union ok'[c] \subseteq todo[c] \union ok[c]
      BY <2>1, <2>2
    <2>4. \A d \in Clients : d # c => todo'[d] = todo[d] /\ ok'[d] = ok[d]
      BY <2>1
    <2>5. \A d \in Clients : pc[d] = "asking" => todo'[d] \union ok'[d] \subseteq M!Asked(held[d])
      BY <2>1, <2>3, <2>4
    <2> QED
      BY <1>1, <2>1, <2>5
  <1> QED
    BY <1>3, <1>4, <1>5, <1>6, <1>7, <1>8 DEF M!Next

\* What is reported, role by role: the endpoint of the report answered only if that of the calls did.
LEMMA AnswersSuffice == M!RouterTypeOK /\ Answers => M!ReportIsOfTheModelUsed
  <1> SUFFICES ASSUME M!RouterTypeOK, Answers, NEW c \in Clients, pc[c] = "asking"
               PROVE  LET mode == held[c]
                      IN /\ \A role \in M!Roles \ M!ReportedByOther(mode) :
                              M!ReportedOf(role, mode) \in ok[c] => M!CalledFor(role, mode) \in ok[c]
                         /\ M!Needed(mode) \subseteq ok[c] =>
                              \A role \in M!Roles \ {"automation"} : M!CalledFor(role, mode) \in ok[c]
    BY DEF M!ReportIsOfTheModelUsed
  <1> DEFINE mode == held[c]
  <1>1. "nvidia" \in ok[c] => M!OnNvidia
    BY DEF Answers, M!Asked
  <1>2. s.routing \in {"hybrid", "local", "cloud"} /\ s.scan \in {"nvidia", "lmstudio"}
          /\ s.key \in BOOLEAN
    BY DEF M!RouterTypeOK, M!Settings
  <1>3. ASSUME NEW role \in M!Roles \ M!ReportedByOther(mode), M!ReportedOf(role, mode) \in ok[c]
        PROVE  M!CalledFor(role, mode) \in ok[c]
    <2>1. CASE role = "scan"
      BY <1>1, <1>2, <1>3, <2>1
      DEF M!Roles, M!ReportedByOther, M!ReportedOf, M!CalledFor, M!ScanAsked, M!BrainLlm, M!OnNvidia, M!Cloud
    <2>2. CASE role = "chat"
      BY <1>1, <1>2, <1>3, <2>2
      DEF M!ReportedOf, M!CalledFor, M!ChatAsked, M!ChatAgentLlm, M!BrainLlm, M!OnNvidia, M!Cloud
    <2>3. CASE role = "analysis"
      BY <1>1, <1>2, <1>3, <2>3
      DEF M!ReportedOf, M!CalledFor, M!AnalysisAsked, M!AnalysisLlm, M!BrainLlm, M!OnNvidia, M!Cloud
    <2>4. CASE role = "vision"
      BY <1>1, <1>2, <1>3, <2>4
      DEF M!Roles, M!ReportedByOther, M!ReportedOf, M!CalledFor, M!AnalysisAsked, M!VisionLlm, M!BrainLlm,
          M!OnNvidia, M!Cloud
    <2>5. CASE role = "automation"
      BY <1>1, <1>2, <1>3, <2>5
      DEF M!Roles, M!ReportedByOther, M!ReportedOf, M!CalledFor, M!ChatAsked, M!AutomationLlm, M!OnNvidia,
          M!Cloud
    <2> QED
      BY <1>3, <2>1, <2>2, <2>3, <2>4, <2>5 DEF M!Roles
  <1>4. ASSUME M!Needed(mode) \subseteq ok[c], NEW role \in M!Roles \ {"automation"}
        PROVE  M!CalledFor(role, mode) \in ok[c]
    <2>1. CASE M!Cloud
      BY <1>1, <1>2, <1>4, <2>1
      DEF M!Roles, M!CalledFor, M!ChatAgentLlm, M!AnalysisLlm, M!VisionLlm, M!BrainLlm, M!Cloud, M!Needed
    <2>2. CASE ~M!Cloud
      <3>1. s.routing = "local" /\ ~M!OnNvidia
        BY <1>2, <2>2 DEF M!Cloud, M!OnNvidia
      <3> QED
        BY <1>4, <2>2, <3>1
        DEF M!Roles, M!CalledFor, M!ChatAgentLlm, M!AnalysisLlm, M!VisionLlm, M!BrainLlm, M!Needed, M!Asked
    <2> QED
      BY <2>1, <2>2
  <1> QED
    BY <1>3, <1>4

LEMMA ModelsSuffice == M!RouterTypeOK => M!ConfiguredHasModel
  BY DEF M!RouterTypeOK, M!ConfiguredHasModel, M!Configured, M!ChatLlm, M!AnalysisLlm, M!AutomationLlm,
         M!ChatAgentLlm, M!BrainLlm, M!ProviderLlm, M!OnNvidia, M!Cloud, M!Settings, M!Modes

LEMMA AnswersInit == M!Init => Answers
  BY DEF M!Init, Answers

-----------------------------------------------------------------------------
(* SalesforceOrgs.  Its proofs are a module of their own, here with the    *)
(* variables of Services: the same definitions, of other names.            *)

\* The theorems about one project's orgs, at the orgs of Services; the two instances of SalesforceOrgs
\* say the same.
OP == INSTANCE SalesforceOrgs_proofs

LEMMA SameNext == O!Next <=> OP!Next
  BY DEF O!oauth, OP!oauth, O!rows, OP!rows, O!history, OP!history, O!Orgs, OP!Orgs, O!Kinds,
       OP!Kinds, O!Creations, OP!Creations, O!Writers, OP!Writers, O!NoRow, OP!NoRow, O!There,
       OP!There, O!Defaults, OP!Defaults, O!Busy, OP!Busy, O!Flagging, OP!Flagging, O!Writing,
       OP!Writing, O!Over, OP!Over, O!StartFlow, OP!StartFlow, O!SentBack, OP!SentBack, O!Expire,
       OP!Expire, O!Start, OP!Start, O!PostCallback, OP!PostCallback, O!TakeState, OP!TakeState,
       O!Pop, OP!Pop, O!Exchange, OP!Exchange, O!CreateOrg, OP!CreateOrg, O!MakeDefault,
       OP!MakeDefault, O!UpdateCredentials, OP!UpdateCredentials, O!Validate, OP!Validate,
       O!Checked, OP!Checked, O!DeleteOrg, OP!DeleteOrg, O!Go, OP!Go, O!Hold, OP!Hold, O!Free,
       OP!Free, O!Insert, OP!Insert, O!Dirty, OP!Dirty, O!Flush, OP!Flush, O!Others, OP!Others,
       O!Clear, OP!Clear, O!Lock, OP!Lock, O!Written, OP!Written, O!After, OP!After, O!Commit,
       OP!Commit, O!Release, OP!Release, O!RollBack, OP!RollBack, O!Restart, OP!Restart, O!Next,
       OP!Next

LEMMA SameInit == O!Init <=> OP!Init
  BY DEF O!Init, OP!Init, O!NoRow, OP!NoRow, O!Orgs, OP!Orgs

LEMMA SameOneOrg == O!OneOrgPerFlow <=> OP!OneOrgPerFlow
  BY DEF O!OneOrgPerFlow, OP!OneOrgPerFlow, O!Made, OP!Made, O!Cardinality, OP!Cardinality

LEMMA SameDefault == O!OneDefault <=> OP!OneDefault
  BY DEF O!OneDefault, OP!OneDefault, O!Defaults, OP!Defaults, O!There, OP!There, O!Orgs,
       OP!Orgs, O!Cardinality, OP!Cardinality

LEMMA SameUpdates == O!UpdatesKept <=> OP!UpdatesKept
  BY DEF O!UpdatesKept, OP!UpdatesKept

LEMMA SameAssumption == O!OrgsAssumption <=> OP!OrgsAssumption
  BY DEF O!OrgsAssumption, OP!OrgsAssumption

-----------------------------------------------------------------------------
(* The services of Services.  A step is a step of the service that was     *)
(* chosen, or none of it; the service that was chosen stays.               *)

\* The initial state is one of the service that was chosen.
LEMMA OwnInit ==
  ASSUME ServicesInit
  PROVE  /\ part = "rotation" => R!Init
         /\ part = "orgs" => OP!Init
         /\ part = "sessions" => Q!Init
         /\ part = "upload" => U!Init
         /\ part = "progress" => S!Init
         /\ part = "models" => M!Init
         /\ part = "scopes" => P!Init
  BY SameInit DEF ServicesInit

\* A step is one of the service that was chosen, or changes nothing of it.
LEMMA OwnStep ==
  ASSUME [ServicesNext]_all
  PROVE  /\ part' = part
         /\ part = "rotation" => [R!Next]_R!vars
         /\ part = "orgs" => [OP!Next]_OP!vars
         /\ part = "sessions" => [Q!Next]_Q!vars
         /\ part = "upload" => [U!Next]_U!vars
         /\ part = "progress" => [S!Next]_S!vars
         /\ part = "models" => [M!Next]_M!vars
         /\ part = "scopes" => [P!Next]_P!vars
  <1>1. CASE UNCHANGED all
    BY <1>1 DEF all, rotation, R!vars, R!rotation, R!library, sessions, Q!vars, upload, U!vars,
       progress, S!vars, models, M!vars, scopes, P!vars, orgs, OP!vars, OP!oauth, OP!rows,
       OP!history
  <1>2. CASE ServicesNext
    BY <1>2, SameNext DEF ServicesNext, Step
  <1> QED BY <1>1, <1>2

\* Runs that do not overlap use the accounts of a query in turn, however many there are of either
\* (account_query_resolver.py, resolve_account_query).
THEOREM AccountsInTurn == ServicesSpec => []RoundRobin
  <1> DEFINE Inv == part = "rotation" => RotationInv
  <1>1. ServicesInit => Inv
    BY OwnInit, ServicesAssumption, TurnInit
  <1>2. Inv /\ [ServicesNext]_all => Inv'
    BY OwnStep, ServicesAssumption, TurnKept, RotationTyped DEF RotationInv
  <1>3. Inv => RoundRobin
    BY ServicesAssumption, TurnsApart DEF RoundRobin
  <1> HIDE DEF Inv
  <1> QED BY <1>1, <1>2, <1>3, PTL DEF ServicesSpec

\* The limit of saved queries is passed by the creations that overlap at most, whatever their number
\* (account_query_service.py, create).
THEOREM LimitHolds == ServicesSpec => []LimitByOverlap
  <1> DEFINE Inv == part = "rotation" => LimitInv
  <1>1. ServicesInit => Inv
    BY OwnInit, ServicesAssumption, LimitInit
  <1>2. Inv /\ [ServicesNext]_all => Inv'
    BY OwnStep, ServicesAssumption, LimitKept, RotationTyped DEF LimitInv
  <1>3. Inv => LimitByOverlap
    BY ServicesAssumption, RoomSuffices DEF LimitByOverlap
  <1> HIDE DEF Inv
  <1> QED BY <1>1, <1>2, <1>3, PTL DEF ServicesSpec

\* However often a callback page is loaded and whatever fails, a flow of OAuth creates one org
\* (salesforce_oauth.py, the one-shot state).
THEOREM OneOrgOfAFlow == ServicesSpec => []OneOrgPerFlow
  <1> DEFINE Own == part = "orgs"
  <1>1. ServicesInit /\ Own => OP!Init
    BY OwnInit
  <1>2. [ServicesNext]_all /\ Own => Own' /\ [OP!Next]_OP!vars
    BY OwnStep
  <1>3. [ServicesNext]_all /\ ~Own => ~Own'
    BY OwnStep
  <1>4. OP!Spec => []OP!OneOrgPerFlow
    BY SameAssumption, ServicesAssumption, OP!FlowMakesOne
  <1>5. ~Own \/ OP!OneOrgPerFlow => OneOrgPerFlow
    BY SameOneOrg DEF OneOrgPerFlow
  <1> HIDE DEF Own
  <1> QED BY <1>1, <1>2, <1>3, <1>4, <1>5, PTL DEF ServicesSpec, OP!Spec

\* A project has one default org at most, unless the creation of a default overlapped another
\* request about it (salesforce_org_repository.py, clear_default_for_project).
THEOREM OneDefaultOrg == ServicesSpec => []OneDefault
  <1> DEFINE Own == part = "orgs"
  <1>1. ServicesInit /\ Own => OP!Init
    BY OwnInit
  <1>2. [ServicesNext]_all /\ Own => Own' /\ [OP!Next]_OP!vars
    BY OwnStep
  <1>3. [ServicesNext]_all /\ ~Own => ~Own'
    BY OwnStep
  <1>4. OP!Spec => []OP!OneDefault
    BY SameAssumption, ServicesAssumption, OP!DefaultIsSingle
  <1>5. ~Own \/ OP!OneDefault => OneDefault
    BY SameDefault DEF OneDefault
  <1> HIDE DEF Own
  <1> QED BY <1>1, <1>2, <1>3, <1>4, <1>5, PTL DEF ServicesSpec, OP!Spec

\* An update of credentials that was answered is in what is stored, unless another request that had
\* read the credentials before wrote them after it (salesforce_service.py, update_org, validate_org).
THEOREM UpdatesAreKept == ServicesSpec => []UpdatesKept
  <1> DEFINE Own == part = "orgs"
  <1>1. ServicesInit /\ Own => OP!Init
    BY OwnInit
  <1>2. [ServicesNext]_all /\ Own => Own' /\ [OP!Next]_OP!vars
    BY OwnStep
  <1>3. [ServicesNext]_all /\ ~Own => ~Own'
    BY OwnStep
  <1>4. OP!Spec => []OP!UpdatesKept
    BY SameAssumption, ServicesAssumption, OP!CredentialsKept
  <1>5. ~Own \/ OP!UpdatesKept => UpdatesKept
    BY SameUpdates DEF UpdatesKept
  <1> HIDE DEF Own
  <1> QED BY <1>1, <1>2, <1>3, <1>4, <1>5, PTL DEF ServicesSpec, OP!Spec

\* The sessions and the queries stay within their types.
THEOREM SessionsTypes == ServicesSpec => [](part = "sessions" => Q!SessionsTypeOK)
  <1> DEFINE Inv == part = "sessions" => SessionsInv
  <1>1. ServicesInit => Inv
    BY OwnInit, ServicesAssumption, SessionsInit
  <1>2. Inv /\ [ServicesNext]_all => Inv'
    BY OwnStep, ServicesAssumption, SessionsTyped
  <1>3. Inv => (part = "sessions" => Q!SessionsTypeOK)
    BY ServicesAssumption DEF SessionsInv
  <1> HIDE DEF Inv
  <1> QED BY <1>1, <1>2, <1>3, PTL DEF ServicesSpec

\* A query that Salesforce refused is sent again with another session, whatever the other queries
\* of the org do to the cache meanwhile (salesforce_query.py, _raw_query, _invalidate, _get_session).
THEOREM SecondTryIsFresh == ServicesSpec => []RetryIsFresh
  <1> DEFINE Inv == part = "sessions" => Retries
  <1>1. ServicesInit => Inv
    BY OwnInit, ServicesAssumption, RetriesInit
  <1>2. Inv /\ [ServicesNext]_all => Inv'
    BY OwnStep, ServicesAssumption, SessionsTyped, RetriesKept DEF Retries
  <1>3. Inv => RetryIsFresh
    BY ServicesAssumption DEF Retries, RetryIsFresh
  <1> HIDE DEF Inv
  <1> QED BY <1>1, <1>2, <1>3, PTL DEF ServicesSpec

\* Queries that need a session at the same time share one: at most one login at first, and one for
\* each time the cached session ran out or a query was refused (salesforce_query.py, _token_lock).
THEOREM LoginsCounted == ServicesSpec => [](part = "sessions" => Q!LoginsShared)
  <1> DEFINE Inv == part = "sessions" => CountInv
  <1>1. ServicesInit => Inv
    BY OwnInit, ServicesAssumption, CountInit
  <1>2. Inv /\ [ServicesNext]_all => Inv'
    BY OwnStep, ServicesAssumption, SessionsTyped, RetriesKept, CountKept DEF CountInv, Retries
  <1>3. Inv => (part = "sessions" => Q!LoginsShared)
    BY ServicesAssumption, CountSuffices
  <1> HIDE DEF Inv
  <1> QED BY <1>1, <1>2, <1>3, PTL DEF ServicesSpec

\* A folder that can be scanned is on disk as it was sent, whole, however its batches, a timeout, a
\* deletion or a restart come (local_upload_service.py, upload_session.py).
THEOREM ScannedIsWhole == ServicesSpec => []ScannableIsWhole
  <1> DEFINE Inv == part = "upload" => UploadInv
  <1>1. ServicesInit => Inv
    BY OwnInit, ServicesAssumption, UploadInit
  <1>2. Inv /\ [ServicesNext]_all => Inv'
    BY OwnStep, ServicesAssumption, UploadStep
  <1>3. Inv => ScannableIsWhole
    BY ServicesAssumption, StoredSuffices DEF ScannableIsWhole
  <1> HIDE DEF Inv
  <1> QED BY <1>1, <1>2, <1>3, PTL DEF ServicesSpec

\* What a stream of progress has passed on has no gap and no repetition, and while it is open it
\* reaches the last event (knowledge_engine/events.py).
THEOREM StreamsAreGapless == ServicesSpec => []Gapless
  <1> DEFINE Inv == part = "progress" => EventsInv
  <1>1. ServicesInit => Inv
    BY OwnInit, ServicesAssumption, EventsInit
  <1>2. Inv /\ [ServicesNext]_all => Inv'
    BY OwnStep, ServicesAssumption, EventsKept
  <1>3. Inv => Gapless
    BY ServicesAssumption, EventsInvGapless DEF Gapless
  <1> HIDE DEF Inv
  <1> QED BY <1>1, <1>2, <1>3, PTL DEF ServicesSpec

\* The settings, the caches and the requests to /config/brain stay within their types.
THEOREM RouterTypes == ServicesSpec => [](part = "models" => M!RouterTypeOK)
  <1> DEFINE Inv == part = "models" => M!RouterTypeOK
  <1>1. ServicesInit => Inv
    BY OwnInit, ServicesAssumption, RouterInit
  <1>2. Inv /\ [ServicesNext]_all => Inv'
    BY OwnStep, ServicesAssumption, RouterTyped
  <1>3. Inv => (part = "models" => M!RouterTypeOK)
    BY ServicesAssumption
  <1> HIDE DEF Inv
  <1> QED BY <1>1, <1>2, <1>3, PTL DEF ServicesSpec

\* Wherever the settings count as configured, in whatever mode the agents are, a question, an
\* analysis and the automation each find a model (llm.py, is_llm_configured, against what
\* brain_llm_router.py chooses).
THEOREM ModelForEach == ServicesSpec => [](part = "models" => M!ConfiguredHasModel)
  <1> DEFINE Inv == part = "models" => M!RouterTypeOK
  <1>1. ServicesInit => Inv
    BY OwnInit, ServicesAssumption, RouterInit
  <1>2. Inv /\ [ServicesNext]_all => Inv'
    BY OwnStep, ServicesAssumption, RouterTyped
  <1>3. Inv => (part = "models" => M!ConfiguredHasModel)
    BY ServicesAssumption, ModelsSuffice
  <1> HIDE DEF Inv
  <1> QED BY <1>1, <1>2, <1>3, PTL DEF ServicesSpec

\* What check_brain_llm_health reports as available is on an endpoint that answered and that the calls of
\* that mode use, but for the roles that are reported by another endpoint than they call (ReportedByOther),
\* whichever servers come and go and whoever sets the mode while it asks (brain_llm_router.py).
THEOREM ReportTrue == ServicesSpec => []ReportIsOfTheModelUsed
  <1> DEFINE Inv == part = "models" => (M!RouterTypeOK /\ Answers)
  <1>1. ServicesInit => Inv
    BY OwnInit, ServicesAssumption, RouterInit, AnswersInit
  <1>2. Inv /\ [ServicesNext]_all => Inv'
    BY OwnStep, ServicesAssumption, RouterTyped, AnswersKept
  <1>3. Inv => ReportIsOfTheModelUsed
    BY ServicesAssumption, AnswersSuffice DEF ReportIsOfTheModelUsed
  <1> HIDE DEF Inv
  <1> QED BY <1>1, <1>2, <1>3, PTL DEF ServicesSpec

\* Over any folders, those with the name of the project's folder in them included: a module scans the
\* files of the folder that was chosen for it, and of one with the same path from force-app on, however
\* often its scope was repaired, unless the path that is kept begins with that name; whatever is
\* synchronised between (repo_scanner.py, repo_path_resolver.py).
THEOREM ScopesKeepFolders == ServicesSpec => []ModuleHasItsFolder
  <1> DEFINE Inv == part = "scopes" => ScopeInv
  <1>1. ServicesInit => Inv
    BY OwnInit, ServicesAssumption, ScopeInit
  <1>2. Inv /\ [ServicesNext]_all => Inv'
    BY OwnStep, ServicesAssumption, ScopeKept
  <1>3. Inv => ModuleHasItsFolder
    BY ServicesAssumption, ScopesSuffice DEF ModuleHasItsFolder
  <1> HIDE DEF Inv
  <1> QED BY <1>1, <1>2, <1>3, PTL DEF ServicesSpec

\* What the page offers as the folder of a module passes the check of the request that creates it,
\* unless it begins with the name of the project's folder from force-app on (repo_scanner.py against
\* knowledge_repo_service.py).
THEOREM OffersHold == ServicesSpec => []OffersAreValid
  <1> DEFINE Inv == part = "scopes" => ScopeInv
  <1>1. ServicesInit => Inv
    BY OwnInit, ServicesAssumption, ScopeInit
  <1>2. Inv /\ [ServicesNext]_all => Inv'
    BY OwnStep, ServicesAssumption, ScopeKept
  <1>3. Inv => OffersAreValid
    BY ServicesAssumption, OffersValid DEF ScopeInv, OffersAreValid
  <1> HIDE DEF Inv
  <1> QED BY <1>1, <1>2, <1>3, PTL DEF ServicesSpec
=============================================================================
