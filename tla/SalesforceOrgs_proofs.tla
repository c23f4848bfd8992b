------------------------ MODULE SalesforceOrgs_proofs ------------------------
(***************************************************************************)
(* Theorems about SalesforceOrgs, for any flows, any number of requests    *)
(* and any orgs a project has.                                             *)
(***************************************************************************)
EXTENDS SalesforceOrgs, FiniteSetTheorems, TLAPS

-----------------------------------------------------------------------------
(* Types, and what the place of a request says of its kind *)

\* A row, what a request keeps, and a flow.
Rows == [there : BOOLEAN, default : BOOLEAN, updates : SUBSET Requests]
Records == [kind : Kinds, on : Orgs \union Flows \union {None}, flag : BOOLEAN, pc : Places,
            seen : Rows, aim : SUBSET Orgs]
Flow == [state : {"new", "pending", "gone"}, back : BOOLEAN]

\* The types, more exactly than OrgsTypeOK states them.
Types ==
  /\ flow \in [Flows -> Flow] /\ stored \in Flows \union {None}
  /\ org \in [Orgs -> Rows] /\ holder \in [Orgs -> Requests \union {None}]
  /\ req \in [Requests -> Records]
  /\ crossed \in BOOLEAN /\ raced \subseteq Orgs

\* Only a callback exchanges, only a creation inserts, and the others have an org.
Shape ==
  \A t \in Requests :
    /\ req[t].pc \in {"pop", "exchange"} => req[t].kind = "callback"
    /\ req[t].pc = "insert" => req[t].kind \in Creations
    /\ req[t].pc \in {"check", "flush"} => req[t].kind \notin Creations
    /\ Busy(t) /\ req[t].kind \notin Creations => req[t].on \in Orgs

\* Together they are inductive.
TypeInv == Types /\ Shape

LEMMA TypesOK == Types => OrgsTypeOK
  BY DEF Types, OrgsTypeOK, Rows, Records, Flow

LEMMA Values ==
  /\ NoRow \in Rows
  /\ {"new", "pop", "exchange", "insert", "clear", "locks", "check", "flush", "commit", "made",
      "done"} = Places
  /\ {"callback", "create", "default", "credentials", "validate", "delete"} = Kinds
  /\ None \in Orgs \union Flows \union {None}
  BY DEF NoRow, Rows, Places, Kinds

LEMMA OverTyped ==
  ASSUME Types, NEW t \in Requests, NEW place \in {"made", "done"}
  PROVE  /\ Over(t, place) \in Records
         /\ Over(t, place).pc = place /\ Over(t, place).kind = req[t].kind
         /\ Over(t, place).on = IF place = "made" THEN req[t].on ELSE None
  <1>1. req[t] \in Records
    BY DEF Types
  <1> QED
    BY <1>1, Values DEF Over, Records, Places

\* One request goes on.
LEMMA GoesOn ==
  ASSUME TypeInv, NEW t \in Requests, NEW r \in Records, req' = [req EXCEPT ![t] = r],
         r.pc \in {"pop", "exchange"} => r.kind = "callback",
         r.pc = "insert" => r.kind \in Creations,
         r.pc \in {"check", "flush"} => r.kind \notin Creations,
         r.pc \notin {"new", "done", "made"} /\ r.kind \notin Creations => r.on \in Orgs
  PROVE  req' \in [Requests -> Records] /\ Shape'
  BY DEF TypeInv, Types, Shape, Busy

LEMMA InitTypes == Init => TypeInv
  <1> SUFFICES ASSUME Init PROVE TypeInv
    OBVIOUS
  <1>1. flow \in [Flows -> Flow] /\ stored \in Flows \union {None}
    BY DEF Init, Flow
  <1>2. org \in [Orgs -> Rows]
    <2>1. PICK d \in Old : org = [o \in Orgs |-> IF o \in Old
                                                 THEN [NoRow EXCEPT !.there = TRUE, !.default = (o = d)]
                                                 ELSE NoRow]
      BY DEF Init
    <2>2. \A o \in Orgs : [NoRow EXCEPT !.there = TRUE, !.default = (o = d)] \in Rows
      <3>1. \A o \in Orgs : (o = d) \in BOOLEAN
        OBVIOUS
      <3>2. \A b \in BOOLEAN : [NoRow EXCEPT !.there = TRUE, !.default = b] \in Rows
        BY DEF NoRow, Rows
      <3> QED
        BY <3>1, <3>2
    <2> QED
      BY <2>1, <2>2, Values
  <1>3. holder \in [Orgs -> Requests \union {None}] /\ crossed \in BOOLEAN /\ raced \subseteq Orgs
    BY DEF Init
  <1>4. req \in [Requests -> Records]
    <2>1. [kind |-> "create", on |-> None, flag |-> FALSE, pc |-> "new", seen |-> NoRow,
           aim |-> {}] \in Records
      BY Values DEF Records, Kinds, Places
    <2> QED
      BY <2>1 DEF Init
  <1>5. Shape
    BY DEF Init, Shape, Busy
  <1> QED
    BY <1>1, <1>2, <1>3, <1>4, <1>5 DEF TypeInv, Types

-----------------------------------------------------------------------------
(* What each action does to the requests *)

\* A request that starts.
LEMMA Starts ==
  ASSUME TypeInv, NEW t \in Requests, NEW kind \in Kinds, NEW on \in Orgs \union Flows \union {None},
         NEW flag \in BOOLEAN, NEW place \in {"pop", "insert", "check", "flush"},
         place = "pop" => kind = "callback", place = "insert" => kind \in Creations,
         place \in {"check", "flush"} => kind \notin Creations /\ on \in Orgs,
         Start(t, kind, on, flag, place)
  PROVE  /\ req' \in [Requests -> Records] /\ Shape'
         /\ req[t].pc = "new"
         /\ req'[t].kind = kind /\ req'[t].on = on /\ req'[t].flag = flag /\ req'[t].pc = place
         /\ on \in Orgs => req'[t].seen = org[on]
         /\ req'[t].aim = {}
         /\ \A u \in Requests : u # t => req'[u] = req[u]
  <1> DEFINE seen == IF on \in Orgs THEN org[on] ELSE NoRow
             r == [kind |-> kind, on |-> on, flag |-> flag, pc |-> place, seen |-> seen, aim |-> {}]
  <1>1. req[t].pc = "new" /\ req' = [req EXCEPT ![t] = r]
    BY DEF Start
  <1>2. seen \in Rows
    BY Values DEF TypeInv, Types
  <1>3. r \in Records /\ r.kind = kind /\ r.on = on /\ r.flag = flag /\ r.pc = place
          /\ r.seen = seen /\ r.aim = {}
    <2> HIDE DEF seen
    <2> QED
      BY <1>2, Values DEF Records
  <1>4. on \in Orgs => r.seen = org[on]
    BY <1>3
  <1> HIDE DEF r, seen
  <1>5. req \in [Requests -> Records]
    BY DEF TypeInv, Types
  <1>6. req'[t] = r /\ \A u \in Requests : u # t => req'[u] = req[u]
    BY <1>1, <1>5
  <1>7. r.kind \notin Creations /\ r.pc \notin {"new", "done", "made"} => r.on \in Orgs
    BY <1>3 DEF Creations
  <1>8. req' \in [Requests -> Records] /\ Shape'
    BY <1>1, <1>3, <1>7, GoesOn
  <1> QED
    BY <1>1, <1>3, <1>4, <1>6, <1>8

\* A request goes on to another place, and may aim at other orgs.
Moved(t, place) ==
  /\ req' \in [Requests -> Records]
  /\ req'[t].kind = req[t].kind /\ req'[t].on = req[t].on /\ req'[t].flag = req[t].flag
  /\ req'[t].seen = req[t].seen /\ req'[t].pc = place
  /\ \A u \in Requests : u # t => req'[u] = req[u]

LEMMA Moves ==
  ASSUME TypeInv, NEW t \in Requests, NEW place \in Places, req' = [req EXCEPT ![t].pc = place]
  PROVE  Moved(t, place) /\ req'[t].aim = req[t].aim
  <1>1. req \in [Requests -> Records]
    BY DEF TypeInv, Types
  <1> QED
    BY <1>1 DEF Moved, Records

LEMMA MovesAiming ==
  ASSUME TypeInv, NEW t \in Requests, NEW place \in Places, NEW aim \in SUBSET Orgs,
         req' = [req EXCEPT ![t].pc = place, ![t].aim = aim]
  PROVE  Moved(t, place) /\ req'[t].aim = aim
  <1>1. req \in [Requests -> Records]
    BY DEF TypeInv, Types
  <1> QED
    BY <1>1 DEF Moved, Records

LEMMA MovedKeepsShape ==
  ASSUME TypeInv, NEW t \in Requests, NEW place \in Places, Moved(t, place), Busy(t),
         place \notin {"pop", "check"},
         place \in {"exchange", "insert"} => req[t].kind = "callback",
         place = "flush" => req[t].kind \notin Creations
  PROVE  Shape'
  BY DEF TypeInv, Shape, Busy, Creations, Moved

\* A request that is over.
LEMMA Ends ==
  ASSUME TypeInv, NEW t \in Requests, NEW place \in {"made", "done"},
         req' = [req EXCEPT ![t] = Over(t, place)]
  PROVE  /\ req' \in [Requests -> Records] /\ Shape'
         /\ req'[t].pc = place /\ req'[t].kind = req[t].kind
         /\ req'[t].on = IF place = "made" THEN req[t].on ELSE None
         /\ \A u \in Requests : u # t => req'[u] = req[u]
  <1> DEFINE r == Over(t, place)
  <1>1. /\ r \in Records /\ r.pc = place /\ r.kind = req[t].kind
        /\ r.on = IF place = "made" THEN req[t].on ELSE None
    BY OverTyped DEF TypeInv
  <1>2. req \in [Requests -> Records] /\ req' = [req EXCEPT ![t] = r]
    BY DEF TypeInv, Types
  <1> HIDE DEF r
  <1>3. req' \in [Requests -> Records] /\ Shape'
    BY <1>1, <1>2, GoesOn
  <1>4. req'[t] = r /\ \A u \in Requests : u # t => req'[u] = req[u]
    BY <1>2
  <1> QED
    BY <1>1, <1>3, <1>4

\* Requests that an exception or a restart ends.
LEMMA Releases ==
  ASSUME TypeInv, NEW ts \in SUBSET Requests, Release(ts)
  PROVE  /\ req' \in [Requests -> Records] /\ Shape'
         /\ holder' \in [Orgs -> Requests \union {None}]
         /\ \A o \in Orgs : holder'[o] = IF holder[o] \in ts THEN None ELSE holder[o]
         /\ \A u \in ts : req'[u].pc = "done"
         /\ \A u \in Requests \ ts : req'[u] = req[u]
  <1>1. req' = [t \in Requests |-> IF t \in ts THEN Over(t, "done") ELSE req[t]]
          /\ holder' = [o \in Orgs |-> IF holder[o] \in ts THEN None ELSE holder[o]]
    BY DEF Release
  <1>2. req \in [Requests -> Records] /\ holder \in [Orgs -> Requests \union {None}]
    BY DEF TypeInv, Types
  <1>3. \A t \in Requests : Over(t, "done") \in Records /\ Over(t, "done").pc = "done"
    BY OverTyped DEF TypeInv
  <1>4. req' \in [Requests -> Records]
    BY <1>1, <1>2, <1>3
  <1>5. holder' \in [Orgs -> Requests \union {None}]
    BY <1>1, <1>2
  <1>6. /\ \A u \in ts : req'[u].pc = "done"
        /\ \A u \in Requests \ ts : req'[u] = req[u]
    BY <1>1, <1>3
  <1>7. Shape'
    <2> SUFFICES ASSUME NEW u \in Requests
                 PROVE  /\ req'[u].pc \in {"pop", "exchange"} => req'[u].kind = "callback"
                        /\ req'[u].pc = "insert" => req'[u].kind \in Creations
                        /\ req'[u].pc \in {"check", "flush"} => req'[u].kind \notin Creations
                        /\ Busy(u)' /\ req'[u].kind \notin Creations => req'[u].on \in Orgs
      BY DEF Shape
    <2>1. CASE u \in ts
      BY <1>6, <2>1 DEF Busy
    <2>2. CASE u \notin ts
      BY <1>6, <2>2 DEF TypeInv, Shape, Busy
    <2> QED
      BY <2>1, <2>2
  <1> QED
    BY <1>1, <1>4, <1>5, <1>6, <1>7

\* The requests of the orgs' pages that are about an org there is.
OfOrg(t, o) ==
  MakeDefault(t, o) \/ UpdateCredentials(t, o) \/ Validate(t, o) \/ DeleteOrg(t, o)

LEMMA OfOrgStarts ==
  ASSUME TypeInv, NEW t \in Requests, NEW o \in Orgs, OfOrg(t, o)
  PROVE  /\ req' \in [Requests -> Records] /\ Shape'
         /\ o \in There /\ req[t].pc = "new" /\ req'[t].on = o /\ req'[t].seen = org[o]
         /\ req'[t].kind \in Kinds \ Creations /\ req'[t].pc \in {"check", "flush"}
         /\ req'[t].flag <=> req'[t].kind = "default"
         /\ \A u \in Requests : u # t => req'[u] = req[u]
         /\ UNCHANGED <<oauth, rows>>
  <1>1. CASE MakeDefault(t, o)
    <2>1. Start(t, "default", o, TRUE, "flush") /\ o \in There /\ UNCHANGED <<oauth, rows>>
      BY <1>1 DEF MakeDefault
    <2>2. "default" \in Kinds \ Creations
      BY DEF Kinds, Creations
    <2> QED
      BY <2>1, <2>2, Starts DEF Creations
  <1>2. CASE UpdateCredentials(t, o)
    <2>1. Start(t, "credentials", o, FALSE, "flush") /\ o \in There /\ UNCHANGED <<oauth, rows>>
      BY <1>2 DEF UpdateCredentials
    <2>2. "credentials" \in Kinds \ Creations
      BY DEF Kinds, Creations
    <2> QED
      BY <2>1, <2>2, Starts DEF Creations
  <1>3. CASE Validate(t, o)
    <2>1. Start(t, "validate", o, FALSE, "check") /\ o \in There /\ UNCHANGED <<oauth, rows>>
      BY <1>3 DEF Validate
    <2>2. "validate" \in Kinds \ Creations
      BY DEF Kinds, Creations
    <2> QED
      BY <2>1, <2>2, Starts DEF Creations
  <1>4. CASE DeleteOrg(t, o)
    <2>1. Start(t, "delete", o, FALSE, "flush") /\ o \in There /\ UNCHANGED <<oauth, rows>>
      BY <1>4 DEF DeleteOrg
    <2>2. "delete" \in Kinds \ Creations
      BY DEF Kinds, Creations
    <2> QED
      BY <2>1, <2>2, Starts DEF Creations
  <1> QED
    BY <1>1, <1>2, <1>3, <1>4 DEF OfOrg

\* The two requests that make an org.
LEMMA CreationStarts ==
  ASSUME TypeInv, NEW t \in Requests, CreateOrg(t) \/ \E f \in Flows : PostCallback(t, f)
  PROVE  /\ req' \in [Requests -> Records] /\ Shape'
         /\ req[t].pc = "new"
         /\ \/ req'[t].kind = "create" /\ req'[t].pc = "insert" /\ CreateOrg(t)
            \/ req'[t].kind = "callback" /\ req'[t].pc = "pop" /\ UNCHANGED history
         /\ \A u \in Requests : u # t => req'[u] = req[u]
         /\ UNCHANGED <<oauth, rows>>
  <1>1. CASE CreateOrg(t)
    <2>1. PICK flag \in BOOLEAN : Start(t, "create", None, flag, "insert")
      BY <1>1 DEF CreateOrg
    <2> QED
      BY <1>1, <2>1, Starts, Values DEF CreateOrg, Creations
  <1>2. ASSUME NEW f \in Flows, PostCallback(t, f)
        PROVE  /\ req' \in [Requests -> Records] /\ Shape'
               /\ req[t].pc = "new"
               /\ req'[t].kind = "callback" /\ req'[t].pc = "pop"
               /\ \A u \in Requests : u # t => req'[u] = req[u]
    <2>1. PICK flag \in BOOLEAN : Start(t, "callback", f, flag, "pop")
      BY <1>2 DEF PostCallback
    <2> QED
      BY <2>1, Starts, Values DEF Creations
  <1> QED
    BY <1>1, <1>2 DEF PostCallback

\* The steps of a request between its start and its end.
Goes(t) == Exchange(t) \/ Insert(t) \/ Flush(t) \/ Clear(t) \/ Lock(t)
             \/ (Checked(t) /\ req'[t].pc = "flush") \/ (Pop(t) /\ req'[t].pc = "exchange")

LEMMA GoesMoves ==
  ASSUME TypeInv, NEW t \in Requests, Goes(t)
  PROVE  /\ Moved(t, req'[t].pc) /\ Shape'
         /\ Busy(t) /\ req'[t].pc \in {"exchange", "insert", "flush", "clear", "locks", "commit"}
         /\ org' = org
  <1>0. req \in [Requests -> Records] /\ Shape
    BY DEF TypeInv, Types
  <1> DEFINE Ok(place) == /\ Moved(t, place) /\ place \notin {"pop", "check"}
                          /\ place \in {"exchange", "insert"} => req[t].kind = "callback"
                          /\ place = "flush" => req[t].kind \notin Creations
                          /\ place \in {"exchange", "insert", "flush", "clear", "locks", "commit"}
  <1>1. CASE Exchange(t)
    <2>1. req[t].pc = "exchange" /\ req' = [req EXCEPT ![t].pc = "insert"] /\ org' = org
      BY <1>1 DEF Exchange, rows
    <2>2. Ok("insert") /\ Busy(t)
      BY <1>0, <2>1, Moves, Values DEF Shape, Busy
    <2> QED
      BY <2>1, <2>2, MovedKeepsShape, Values DEF Moved
  <1>2. CASE Insert(t)
    <2> DEFINE place == IF req[t].flag THEN "clear" ELSE "commit"
    <2>1. req[t].pc = "insert" /\ req' = [req EXCEPT ![t].pc = place] /\ org' = org
      BY <1>2 DEF Insert, Go
    <2>2. Ok(place) /\ Busy(t)
      BY <2>1, Moves, Values DEF Busy
    <2> QED
      BY <2>1, <2>2, MovedKeepsShape, Values DEF Moved
  <1>3. CASE Flush(t)
    <2> DEFINE place == IF req[t].flag THEN "clear" ELSE "commit"
    <2>1. req[t].pc = "flush" /\ req' = [req EXCEPT ![t].pc = place] /\ org' = org
      BY <1>3 DEF Flush, Go
    <2>2. Ok(place) /\ Busy(t)
      BY <2>1, Moves, Values DEF Busy
    <2> QED
      BY <2>1, <2>2, MovedKeepsShape, Values DEF Moved
  <1>4. CASE Clear(t)
    <2>1. /\ req[t].pc = "clear" /\ req' = [req EXCEPT ![t].pc = "locks", ![t].aim = Others(t)]
          /\ org' = org
      BY <1>4 DEF Clear, rows
    <2>2. Others(t) \in SUBSET Orgs
      BY DEF Others, There
    <2>3. Ok("locks") /\ Busy(t)
      BY <2>1, <2>2, MovesAiming, Values DEF Busy
    <2> QED
      BY <2>1, <2>3, MovedKeepsShape, Values DEF Moved
  <1>5. CASE Lock(t)
    <2>1. /\ req[t].pc = "locks" /\ req' = [req EXCEPT ![t].pc = "commit", ![t].aim = {}]
          /\ org' = org
      BY <1>5 DEF Lock
    <2>2. Ok("commit") /\ Busy(t)
      BY <2>1, MovesAiming, Values DEF Busy
    <2> QED
      BY <2>1, <2>2, MovedKeepsShape, Values DEF Moved
  <1>6. CASE Checked(t) /\ req'[t].pc = "flush"
    <2>1. req[t].pc = "check" /\ org' = org
      BY <1>6 DEF Checked, rows
    <2>2. req' # [req EXCEPT ![t] = Over(t, "done")]
      BY <1>0, <1>6, OverTyped DEF TypeInv
    <2>3. req' = [req EXCEPT ![t].pc = "flush"]
      BY <1>6, <2>2 DEF Checked
    <2>4. Ok("flush") /\ Busy(t)
      BY <1>0, <2>1, <2>3, Moves, Values DEF Shape, Busy
    <2> QED
      BY <2>1, <2>4, MovedKeepsShape, Values DEF Moved
  <1>7. CASE Pop(t) /\ req'[t].pc = "exchange"
    <2>1. req[t].pc = "pop" /\ org' = org
      BY <1>7 DEF Pop, rows
    <2>2. req' # [req EXCEPT ![t] = Over(t, "done")]
      BY <1>0, <1>7, OverTyped DEF TypeInv
    <2>3. req' = [req EXCEPT ![t].pc = "exchange"]
      <3>1. req' = [req EXCEPT ![t] = [@ EXCEPT !.pc = "exchange"]]
        BY <1>7, <2>2 DEF Pop
      <3> QED
        BY <3>1
    <2>4. Ok("exchange") /\ Busy(t)
      BY <1>0, <2>1, <2>3, Moves, Values DEF Shape, Busy
    <2> QED
      BY <2>1, <2>4, MovedKeepsShape, Values DEF Moved
  <1> QED
    BY <1>1, <1>2, <1>3, <1>4, <1>5, <1>6, <1>7 DEF Goes

\* A request that finds nothing to do: a flow that is not pending, credentials Salesforce refuses.
GivesUp(t) == (Checked(t) \/ Pop(t)) /\ req' = [req EXCEPT ![t] = Over(t, "done")]

\* The steps of the flows and of the browser that no request takes.
Aside == (\E f \in Flows : StartFlow(f) \/ SentBack(f) \/ Expire(f)) \/ UNCHANGED vars

LEMMA StepCases ==
  ASSUME TypeInv, [Next]_vars
  PROVE  \/ Aside
         \/ \E t \in Requests, o \in Orgs : OfOrg(t, o)
         \/ \E t \in Requests : \/ CreateOrg(t) \/ (\E f \in Flows : PostCallback(t, f))
                                \/ Goes(t) \/ GivesUp(t) \/ Commit(t) \/ RollBack(t)
         \/ Restart
  <1>1. ASSUME NEW t \in Requests, Checked(t) PROVE Goes(t) \/ GivesUp(t)
    <2>1. CASE req' = [req EXCEPT ![t].pc = "flush"]
      BY <1>1, <2>1, Moves, Values DEF Goes, Moved
    <2> QED
      BY <1>1, <2>1 DEF Checked, GivesUp
  <1>2. ASSUME NEW t \in Requests, Pop(t) PROVE Goes(t) \/ GivesUp(t)
    <2>1. CASE flow[req[t].on].state = "pending"
      <3>1. req' = [req EXCEPT ![t] = [@ EXCEPT !.pc = "exchange"]]
        BY <1>2, <2>1 DEF Pop
      <3>2. req' = [req EXCEPT ![t].pc = "exchange"]
        BY <3>1
      <3> QED
        BY <1>2, <3>2, Moves, Values DEF Goes, Moved
    <2>2. CASE flow[req[t].on].state # "pending"
      BY <1>2, <2>2 DEF Pop, GivesUp
    <2> QED
      BY <2>1, <2>2
  <1> QED
    BY <1>1, <1>2 DEF Next, Goes, Aside, OfOrg

\* What stays of the rows and of the flows within their types.
LEMMA TypeKept ==
  ASSUME TypeInv, [Next]_vars
  PROVE  TypeInv'
  <1> USE DEF TypeInv
  <1>0. Types /\ Shape
    OBVIOUS
  <1>1. CASE Aside
    <2>1. UNCHANGED <<rows, req, history>> /\ Shape'
      BY <1>1 DEF Aside, StartFlow, SentBack, Expire, vars, rows, history, Shape, Busy
    <2>2. flow' \in [Flows -> Flow] /\ stored' \in Flows \union {None}
      <3>0. flow \in [Flows -> Flow] /\ stored \in Flows \union {None}
        BY DEF Types
      <3>1. ASSUME NEW f \in Flows, StartFlow(f) PROVE flow' \in [Flows -> Flow] /\ stored' = f
        BY <3>0, <3>1 DEF StartFlow, Flow
      <3>2. ASSUME NEW f \in Flows, SentBack(f) PROVE flow' \in [Flows -> Flow] /\ stored' = stored
        BY <3>0, <3>2 DEF SentBack, Flow
      <3>3. ASSUME NEW f \in Flows, Expire(f) PROVE flow' \in [Flows -> Flow] /\ stored' = stored
        BY <3>0, <3>3 DEF Expire, Flow
      <3>4. CASE UNCHANGED vars
        BY <3>0, <3>4 DEF vars, oauth
      <3> QED
        BY <1>1, <3>0, <3>1, <3>2, <3>3, <3>4 DEF Aside
    <2> QED
      BY <2>1, <2>2 DEF Types, rows, history
  <1>2. ASSUME NEW t \in Requests, NEW o \in Orgs, OfOrg(t, o) PROVE TypeInv'
    <2>1. req' \in [Requests -> Records] /\ Shape' /\ UNCHANGED <<oauth, rows>>
      BY <1>2, OfOrgStarts
    <2>2. crossed' \in BOOLEAN /\ raced' \subseteq Orgs
      BY <1>2 DEF OfOrg, MakeDefault, UpdateCredentials, Validate, DeleteOrg, Types, history
    <2> QED
      BY <2>1, <2>2 DEF Types, oauth, rows
  <1>3. ASSUME NEW t \in Requests, CreateOrg(t) \/ \E f \in Flows : PostCallback(t, f)
        PROVE  TypeInv'
    <2>1. req' \in [Requests -> Records] /\ Shape' /\ UNCHANGED <<oauth, rows>>
      BY <1>3, CreationStarts
    <2>2. crossed' \in BOOLEAN /\ raced' \subseteq Orgs
      BY <1>3 DEF CreateOrg, PostCallback, Types, history
    <2> QED
      BY <2>1, <2>2 DEF Types, oauth, rows
  <1>4. ASSUME NEW t \in Requests, Goes(t) PROVE TypeInv'
    <2>1. req' \in [Requests -> Records] /\ Shape' /\ org' = org
      BY <1>4, GoesMoves DEF Moved
    <2>2. holder' \in [Orgs -> Requests \union {None}]
      BY <1>4 DEF Goes, Exchange, Insert, Flush, Clear, Lock, Checked, Pop, Types, rows, Hold
    <2>3. flow' \in [Flows -> Flow] /\ stored' \in Flows \union {None}
      BY <1>4 DEF Goes, Exchange, Insert, Flush, Clear, Lock, Checked, Pop, Types, oauth, TakeState,
                  Flow
    <2>4. crossed' \in BOOLEAN /\ raced' \subseteq Orgs
      BY <1>4 DEF Goes, Exchange, Insert, Flush, Clear, Lock, Checked, Pop, Types, history
    <2> QED
      BY <2>1, <2>2, <2>3, <2>4 DEF Types
  <1>5. ASSUME NEW t \in Requests, GivesUp(t) PROVE TypeInv'
    <2>1. req' \in [Requests -> Records] /\ Shape'
      BY <1>5, Ends DEF GivesUp
    <2>2. UNCHANGED <<stored, rows, history>>
      BY <1>5 DEF GivesUp, Checked, Pop, oauth
    <2>3. flow' \in [Flows -> Flow]
      BY <1>5 DEF GivesUp, Checked, Pop, oauth, Types, TakeState, Flow
    <2> QED
      BY <2>1, <2>2, <2>3 DEF Types, rows, history
  <1>6. ASSUME NEW t \in Requests, Commit(t) PROVE TypeInv'
    <2>1. req' \in [Requests -> Records] /\ Shape'
      BY <1>6, Ends DEF Commit
    <2>2. holder' \in [Orgs -> Requests \union {None}]
      BY <1>6 DEF Commit, Types
    <2>3. org' \in [Orgs -> Rows]
      <3>1. Written(t) \subseteq Requests
        BY DEF Written, Types, Records, Rows
      <3>2. ASSUME NEW o \in Orgs PROVE After(t, o) \in Rows
        <4>1. org[o] \in Rows /\ NoRow \in Rows /\ req[t].flag \in BOOLEAN
          BY Values DEF Types, Records
        <4>2. /\ [NoRow EXCEPT !.there = TRUE, !.default = req[t].flag] \in Rows
              /\ [org[o] EXCEPT !.default = TRUE] \in Rows
              /\ [org[o] EXCEPT !.default = FALSE] \in Rows
          BY <4>1 DEF Rows, NoRow
        <4>3. [org[o] EXCEPT !.updates = Written(t)] \in Rows
          BY <3>1, <4>1 DEF Rows
        <4> HIDE DEF TypeInv
        <4> QED
          BY <4>1, <4>2, <4>3 DEF After
      <3> QED
        BY <1>6, <3>2 DEF Commit, Types
    <2>4. stored' \in Flows \union {None} /\ UNCHANGED <<flow, history>>
      BY <1>6 DEF Commit, Types
    <2> QED
      BY <2>1, <2>2, <2>3, <2>4 DEF Types, history
  <1>7. ASSUME NEW t \in Requests, RollBack(t) PROVE TypeInv'
    <2>1. {t} \in SUBSET Requests /\ Release({t}) /\ UNCHANGED oauth
      BY <1>7 DEF RollBack
    <2>2. /\ req' \in [Requests -> Records] /\ Shape'
          /\ holder' \in [Orgs -> Requests \union {None}]
      BY <2>1, Releases
    <2>3. UNCHANGED <<org, history>>
      BY <2>1 DEF Release
    <2> QED
      BY <2>1, <2>2, <2>3 DEF Types, oauth, history
  <1>8. CASE Restart
    <2>1. {t \in Requests : Busy(t)} \in SUBSET Requests
      OBVIOUS
    <2>2. flow' \in [Flows -> Flow]
      <3>1. \A f \in Flows : flow[f] \in Flow /\ [flow[f] EXCEPT !.state = "gone"] \in Flow
        BY DEF Types, Flow
      <3> QED
        BY <1>8, <3>1 DEF Restart
    <2>3. Release({t \in Requests : Busy(t)}) /\ UNCHANGED stored
      BY <1>8 DEF Restart
    <2>4. /\ req' \in [Requests -> Records] /\ Shape'
          /\ holder' \in [Orgs -> Requests \union {None}]
      BY <2>1, <2>3, Releases
    <2>5. UNCHANGED <<org, history>>
      BY <2>3 DEF Release
    <2> QED
      BY <2>2, <2>3, <2>4, <2>5 DEF Types, history
  <1> QED
    BY <1>1, <1>2, <1>3, <1>4, <1>5, <1>6, <1>7, <1>8, StepCases

\* The rows, the flows and the requests stay within their types.
THEOREM TypeCorrect == Spec => []OrgsTypeOK
  <1>1. Init => TypeInv
    BY InitTypes
  <1>2. TypeInv /\ [Next]_vars => TypeInv'
    BY TypeKept
  <1>3. TypeInv => OrgsTypeOK
    BY TypesOK DEF TypeInv
  <1> QED
    BY <1>1, <1>2, <1>3, PTL DEF Spec

-----------------------------------------------------------------------------
(* One org per flow *)

\* The request has taken the state of flow f, and has not failed.
Takes(t, f) ==
  /\ req[t].kind = "callback" /\ req[t].on = f
  /\ req[t].pc \in {"exchange", "insert", "clear", "locks", "commit", "made"}

\* The state of a flow is taken once, and only while it is pending.
TakenOnce ==
  \A f \in Flows :
    /\ flow[f].state # "gone" => \A t \in Requests : ~Takes(t, f)
    /\ \A t, u \in Requests : Takes(t, f) /\ Takes(u, f) => t = u

LEMMA NobodyTakes ==
  ASSUME TakenOnce,
         \A t \in Requests, f \in Flows : Takes(t, f)' => Takes(t, f),
         \A f \in Flows : flow'[f].state # "gone" => flow[f].state # "gone"
  PROVE  TakenOnce'
  BY DEF TakenOnce

LEMMA TakenOnceKept ==
  ASSUME TypeInv, TakenOnce, [Next]_vars
  PROVE  TakenOnce'
  <1> DEFINE Less == \A t \in Requests, f \in Flows : Takes(t, f)' => Takes(t, f)
             Gone == \A f \in Flows : flow'[f].state # "gone" => flow[f].state # "gone"
  <1>0. flow \in [Flows -> Flow] /\ req \in [Requests -> Records] /\ Shape
    BY DEF TypeInv, Types
  <1>1. CASE Aside
    <2>1. Less
      BY <1>1 DEF Aside, StartFlow, SentBack, Expire, vars, Takes
    <2>2. Gone
      BY <1>0, <1>1 DEF Aside, StartFlow, SentBack, Expire, vars, oauth, Flow
    <2> QED
      BY <2>1, <2>2, NobodyTakes
  <1>2. ASSUME NEW t \in Requests, NEW o \in Orgs, OfOrg(t, o) PROVE TakenOnce'
    <2>1. Less /\ flow' = flow
      BY <1>2, OfOrgStarts DEF Takes, Creations, oauth
    <2> QED
      BY <2>1, NobodyTakes
  <1>3. ASSUME NEW t \in Requests, CreateOrg(t) \/ \E f \in Flows : PostCallback(t, f)
        PROVE  TakenOnce'
    <2>1. Less /\ flow' = flow
      BY <1>3, CreationStarts DEF Takes, oauth
    <2> QED
      BY <2>1, NobodyTakes
  <1>4. ASSUME NEW t \in Requests, Goes(t) PROVE TakenOnce'
    <2>1. Moved(t, req'[t].pc)
      BY <1>4, GoesMoves
    <2>2. CASE Pop(t) /\ req'[t].pc = "exchange"
      <3>1. flow[req[t].on].state = "pending"
        <4>1. req' # [req EXCEPT ![t] = Over(t, "done")]
          BY <1>0, <2>2, OverTyped DEF TypeInv
        <4> QED
          BY <2>2, <4>1 DEF Pop
      <3>2. req[t].pc = "pop" /\ flow' = TakeState(req[t].on)
        BY <2>2 DEF Pop
      <3>3. \A f \in Flows : /\ f = req[t].on => flow'[f].state = "gone"
                             /\ f # req[t].on => flow'[f] = flow[f]
        BY <1>0, <3>1, <3>2 DEF TakeState, Flow
      <3>4. \A u \in Requests, f \in Flows : Takes(u, f)' => Takes(u, f) \/ (u = t /\ f = req[t].on)
        BY <2>1 DEF Moved, Takes
      <3> QED
        BY <3>1, <3>3, <3>4 DEF TakenOnce
    <2>3. CASE ~(Pop(t) /\ req'[t].pc = "exchange")
      <3>1. flow' = flow
        BY <1>4, <2>3 DEF Goes, Exchange, Insert, Flush, Clear, Lock, Checked, oauth
      <3>2. req[t].pc \in {"exchange", "insert", "clear", "locks"} \/ req[t].kind \notin Creations
        BY <1>0, <1>4, <2>3 DEF Goes, Exchange, Insert, Flush, Clear, Lock, Checked, Shape
      <3>3. Less
        BY <2>1, <3>2 DEF Moved, Takes, Creations
      <3> QED
        BY <3>1, <3>3, NobodyTakes
    <2> QED
      BY <2>2, <2>3
  <1>5. ASSUME NEW t \in Requests, GivesUp(t) PROVE TakenOnce'
    <2>1. Less
      BY <1>5, Ends DEF GivesUp, Takes
    <2>2. Gone
      BY <1>0, <1>5 DEF GivesUp, Checked, Pop, oauth, TakeState, Flow
    <2> QED
      BY <2>1, <2>2, NobodyTakes
  <1>6. ASSUME NEW t \in Requests, Commit(t) PROVE TakenOnce'
    <2>1. Less /\ flow' = flow
      BY <1>6, Ends DEF Commit, Takes
    <2> QED
      BY <2>1, NobodyTakes
  <1>7. ASSUME NEW t \in Requests, RollBack(t) PROVE TakenOnce'
    <2>1. {t} \in SUBSET Requests /\ Release({t}) /\ UNCHANGED oauth
      BY <1>7 DEF RollBack
    <2>2. Less
      BY <2>1, Releases DEF Takes
    <2> QED
      BY <2>1, <2>2, NobodyTakes DEF oauth
  <1>8. CASE Restart
    <2> DEFINE ts == {t \in Requests : Busy(t)}
    <2>1. ts \in SUBSET Requests /\ Release(ts)
      BY <1>8 DEF Restart
    <2> HIDE DEF ts
    <2>2. Less
      BY <2>1, Releases DEF Takes
    <2>3. Gone
      BY <1>0, <1>8 DEF Restart, Flow
    <2> QED
      BY <2>2, <2>3, NobodyTakes
  <1> QED
    BY <1>1, <1>2, <1>3, <1>4, <1>5, <1>6, <1>7, <1>8, StepCases

\* However often the callback page posts the code of a flow, and whatever fails or restarts in
\* between, the flow creates one org at most (exchange_oauth_code takes the state first).
THEOREM FlowMakesOne == Spec => []OneOrgPerFlow
  <1>1. Init => TypeInv /\ TakenOnce
    <2>1. ASSUME Init PROVE \A t \in Requests : req[t].pc = "new"
      <3>1. req = [t \in Requests |-> [kind |-> "create", on |-> None, flag |-> FALSE, pc |-> "new",
                                       seen |-> NoRow, aim |-> {}]]
        BY <2>1 DEF Init
      <3> QED
        BY <3>1
    <2> QED
      BY <2>1, InitTypes DEF TakenOnce, Takes
  <1>2. TypeInv /\ TakenOnce /\ [Next]_vars => (TypeInv /\ TakenOnce)'
    BY TypeKept, TakenOnceKept
  <1>3. TakenOnce => OneOrgPerFlow
    <2> SUFFICES ASSUME TakenOnce, NEW f \in Flows PROVE Cardinality(Made(f)) <= 1
      BY DEF OneOrgPerFlow
    <2>1. \A t, u \in Made(f) : t = u
      BY DEF TakenOnce, Takes, Made
    <2>2. CASE Made(f) = {}
      <3>1. Cardinality(Made(f)) = 0
        BY <2>2, FS_EmptySet
      <3> QED
        BY <3>1
    <2>3. ASSUME NEW t \in Made(f) PROVE Cardinality(Made(f)) <= 1
      <3>1. Made(f) = {t}
        BY <2>1, <2>3
      <3> QED
        <4>1. Cardinality(Made(f)) = 1
          BY <3>1, FS_Singleton
        <4> QED
          BY <4>1
    <2> QED
      BY <2>2, <2>3
  <1> QED
    BY <1>1, <1>2, <1>3, PTL DEF Spec

-----------------------------------------------------------------------------
(* One default: names and overlaps *)

\* A request is about another org than the one it might have made, and an org of its own is there
\* only once it is made.
Names ==
  \A t \in Requests :
    /\ org[t].there => req[t].pc = "made"
    /\ Busy(t) /\ req[t].kind \in Creations => req[t].on \notin Orgs
    /\ Busy(t) /\ req[t].kind \notin Creations => req[t].on # t
    /\ Busy(t) /\ req[t].kind = "default" => req[t].flag
    /\ Busy(t) /\ req[t].flag => req[t].kind \in Creations \union {"default"}

\* What a commit does to the rows.
LEMMA CommitRows ==
  ASSUME TypeInv, NEW t \in Requests, Commit(t), NEW o \in Orgs
  PROVE  /\ holder[o] # t => org'[o] = org[o]
         /\ holder[o] = t => org'[o] = After(t, o)
         /\ org'[o].there => org[o].there \/ (o = t /\ req[t].kind \in Creations)
  <1>1. org'[o] = IF holder[o] = t THEN After(t, o) ELSE org[o]
    BY DEF Commit, TypeInv, Types
  <1>2. org[o] \in Rows
    BY DEF TypeInv, Types
  <1>3. /\ [org[o] EXCEPT !.default = TRUE].there = org[o].there
        /\ [org[o] EXCEPT !.default = FALSE].there = org[o].there
        /\ [org[o] EXCEPT !.updates = Written(t)].there = org[o].there
        /\ NoRow.there = FALSE
    BY <1>2 DEF Rows, NoRow
  <1>4. After(t, o).there => org[o].there \/ (o = t /\ req[t].kind \in Creations)
    BY <1>3 DEF After
  <1> QED
    BY <1>1, <1>4

LEMMA NamesKept ==
  ASSUME OrgsAssumption, TypeInv, Names, [Next]_vars
  PROVE  Names'
  <1>0. req \in [Requests -> Records] /\ Shape /\ Requests \subseteq Orgs
    BY DEF TypeInv, Types, Orgs
  <1>1. CASE Aside
    BY <1>1 DEF Aside, StartFlow, SentBack, Expire, vars, rows, Names, Busy
  <1>2. ASSUME NEW t \in Requests, NEW o \in Orgs, OfOrg(t, o) PROVE Names'
    <2>1. o # t
      BY <1>2, OfOrgStarts DEF Names, There
    <2> QED
      BY <1>2, <2>1, OfOrgStarts DEF Names, Busy, rows
  <1>3. ASSUME NEW t \in Requests, CreateOrg(t) \/ \E f \in Flows : PostCallback(t, f)
        PROVE  Names'
    <2>1. req'[t].on \notin Orgs
      <3>1. \A on, kind, flag, place : Start(t, kind, on, flag, place) => req'[t].on = on
        BY <1>0 DEF Start
      <3> QED
        BY <1>3, <3>1 DEF CreateOrg, PostCallback, OrgsAssumption, Orgs
    <2> QED
      BY <1>3, <2>1, CreationStarts DEF Names, Busy, rows, Creations
  <1>4. ASSUME NEW t \in Requests, Goes(t) PROVE Names'
    BY <1>4, GoesMoves DEF Names, Busy, Moved
  <1>5. ASSUME NEW t \in Requests, GivesUp(t) PROVE Names'
    <2>1. org' = org /\ req[t].pc \in {"check", "pop"}
      BY <1>5 DEF GivesUp, Checked, Pop, rows
    <2> QED
      BY <1>5, <2>1, Ends DEF GivesUp, Names, Busy
  <1>6. ASSUME NEW t \in Requests, Commit(t) PROVE Names'
    <2>1. req'[t].pc = "made" /\ \A u \in Requests : u # t => req'[u] = req[u]
      BY <1>6, Ends DEF Commit
    <2>2. \A u \in Requests : org'[u].there => org[u].there \/ u = t
      BY <1>0, <1>6, CommitRows
    <2> QED
      BY <2>1, <2>2 DEF Names, Busy
  <1>7. ASSUME NEW t \in Requests, RollBack(t) PROVE Names'
    <2>1. {t} \in SUBSET Requests /\ Release({t}) /\ org' = org /\ Busy(t)
      BY <1>7 DEF RollBack, Release
    <2> QED
      BY <2>1, Releases DEF Names, Busy
  <1>8. CASE Restart
    <2> DEFINE ts == {t \in Requests : Busy(t)}
    <2>1. ts \in SUBSET Requests /\ Release(ts) /\ org' = org /\ \A t \in ts : Busy(t)
      BY <1>8 DEF Restart, Release
    <2> HIDE DEF ts
    <2> QED
      BY <2>1, Releases DEF Names, Busy
  <1> QED
    BY <1>1, <1>2, <1>3, <1>4, <1>5, <1>6, <1>7, <1>8, StepCases

\* While nothing overlapped a creation of a default, whoever creates one is alone with the flag.
Solo ==
  ~crossed => \A t, u \in Flagging : req[t].kind \in Creations => t = u

LEMMA SoloKept ==
  ASSUME TypeInv, Names, Solo, [Next]_vars
  PROVE  Solo' /\ (crossed => crossed')
  <1>0. req \in [Requests -> Records] /\ Shape /\ crossed \in BOOLEAN
    BY DEF TypeInv, Types
  <1> DEFINE Same == \A u \in Flagging' : u \in Flagging /\ req'[u].kind = req[u].kind
  <1>1. Same /\ crossed' = crossed => Solo' /\ (crossed => crossed')
    BY DEF Solo
  <1>2. CASE Aside
    BY <1>1, <1>2 DEF Aside, StartFlow, SentBack, Expire, vars, history, Flagging, Busy
  <1>3. ASSUME NEW t \in Requests, NEW o \in Orgs, OfOrg(t, o) PROVE Solo' /\ (crossed => crossed')
    <2>1. CASE MakeDefault(t, o)
      <3>1. crossed' = (crossed \/ \E u \in Flagging : req[u].kind \in Creations)
        BY <2>1 DEF MakeDefault
      <3>2. \A u \in Flagging' : u = t \/ (u \in Flagging /\ req'[u] = req[u])
        BY <1>3, OfOrgStarts DEF Flagging, Busy
      <3>3. req'[t].kind \notin Creations
        BY <1>3, OfOrgStarts
      <3> QED
        BY <3>1, <3>2, <3>3 DEF Solo
    <2>2. CASE ~MakeDefault(t, o)
      <3>1. crossed' = crossed
        BY <1>3, <2>2 DEF OfOrg, UpdateCredentials, Validate, DeleteOrg, history
      <3>2. ~req'[t].flag
        <4>1. \A k, on, pl : Start(t, k, on, FALSE, pl) => ~req'[t].flag
          BY <1>0 DEF Start
        <4> QED
          BY <1>3, <2>2, <4>1 DEF OfOrg, UpdateCredentials, Validate, DeleteOrg
      <3>3. Same
        BY <1>3, <3>2, OfOrgStarts DEF Flagging, Busy
      <3> QED
        BY <1>1, <3>1, <3>3
    <2> QED
      BY <2>1, <2>2
  <1>4. ASSUME NEW t \in Requests, CreateOrg(t) \/ \E f \in Flows : PostCallback(t, f)
        PROVE  Solo' /\ (crossed => crossed')
    <2>1. \A u \in Flagging' : u = t \/ (u \in Flagging /\ req'[u] = req[u])
      BY <1>4, CreationStarts DEF Flagging, Busy
    <2>2. CASE CreateOrg(t)
      <3>1. crossed' = (crossed \/ (req'[t].flag /\ Flagging # {}))
        BY <2>2 DEF CreateOrg
      <3>2. t \in Flagging' => req'[t].flag
        BY DEF Flagging
      <3> QED
        BY <2>1, <3>1, <3>2 DEF Solo
    <2>3. CASE req'[t].pc = "pop" /\ UNCHANGED history
      <3>1. t \notin Flagging'
        BY <2>3 DEF Flagging
      <3> QED
        BY <1>1, <2>1, <2>3, <3>1 DEF history
    <2> QED
      BY <1>4, <2>2, <2>3, CreationStarts
  <1>5. ASSUME NEW t \in Requests, Goes(t) PROVE Solo' /\ (crossed => crossed')
    <2>1. Moved(t, req'[t].pc) /\ Busy(t)
      BY <1>5, GoesMoves
    <2>2. CASE Exchange(t)
      <3>1. crossed' = (crossed \/ (req[t].flag /\ Flagging # {}))
        BY <2>2 DEF Exchange
      <3>2. \A u \in Flagging' : \/ u = t /\ req[t].flag
                                 \/ u \in Flagging /\ req'[u] = req[u]
        BY <2>1 DEF Flagging, Busy, Moved
      <3> QED
        BY <3>1, <3>2 DEF Solo
    <2>3. CASE ~Exchange(t)
      <3>1. crossed' = crossed
        BY <1>5, <2>3 DEF Goes, Insert, Flush, Clear, Lock, Checked, Pop, history
      <3>2. req[t].pc \notin {"pop", "exchange"} \/ req'[t].pc = "exchange"
        BY <1>5, <2>3 DEF Goes, Insert, Flush, Clear, Lock, Checked
      <3>3. Same
        BY <2>1, <3>2 DEF Flagging, Busy, Moved
      <3> QED
        BY <1>1, <3>1, <3>3
    <2> QED
      BY <2>2, <2>3
  <1>6. ASSUME NEW t \in Requests, GivesUp(t) \/ Commit(t) PROVE Solo' /\ (crossed => crossed')
    <2>1. \E place \in {"made", "done"} : req' = [req EXCEPT ![t] = Over(t, place)]
      BY <1>6 DEF GivesUp, Commit
    <2>2. req'[t].pc \in {"made", "done"} /\ \A u \in Requests : u # t => req'[u] = req[u]
      BY <2>1, Ends
    <2>3. Same
      BY <2>2 DEF Flagging, Busy
    <2>4. crossed' = crossed
      BY <1>6 DEF GivesUp, Checked, Pop, Commit, history
    <2> QED
      BY <1>1, <2>3, <2>4
  <1>7. ASSUME NEW t \in Requests, RollBack(t) PROVE Solo' /\ (crossed => crossed')
    <2>1. {t} \in SUBSET Requests /\ Release({t}) /\ crossed' = crossed
      BY <1>7 DEF RollBack, Release, history
    <2>2. Same
      BY <2>1, Releases DEF Flagging, Busy
    <2> QED
      BY <1>1, <2>1, <2>2
  <1>8. CASE Restart
    <2> DEFINE ts == {t \in Requests : Busy(t)}
    <2>1. ts \in SUBSET Requests /\ Release(ts) /\ crossed' = crossed
      BY <1>8 DEF Restart, Release, history
    <2> HIDE DEF ts
    <2>2. Same
      BY <2>1, Releases DEF Flagging, Busy
    <2> QED
      BY <1>1, <2>1, <2>2
  <1> QED
    BY <1>2, <1>3, <1>4, <1>5, <1>6, <1>7, <1>8, StepCases

-----------------------------------------------------------------------------
(* One default: rows and who holds them *)

\* The request has written, and not committed.
Holding(t) == req[t].pc \in {"clear", "locks", "commit"}
\* The row a request writes for itself, and the rows it has locked or is about to.
Own(t) == IF req[t].kind \in Creations THEN t ELSE req[t].on
Reach(t) == IF req[t].pc = "locks" THEN req[t].aim ELSE {o \in Orgs : holder[o] = t}
\* The commit of the request will make a row the default.
Sets(t) == req[t].pc \in {"locks", "commit"} /\ req[t].flag /\ Dirty(t)

\* Rows are held by requests that have written them, and that write their own.
Locks ==
  \A t \in Requests :
    /\ \A o \in Orgs : holder[o] = t => Holding(t) /\ (org[o].there \/ o = t)
    /\ Holding(t) /\ Dirty(t) => holder[Own(t)] = t
    /\ Holding(t) /\ ~Dirty(t) => holder[Own(t)] # t
    /\ req[t].pc = "locks" => Own(t) \notin req[t].aim

\* Of two updates that make a default, one aims at the row of the other, or holds it.
Aims ==
  \A t, u \in Requests :
    t # u /\ Sets(t) /\ Sets(u) /\ req[t].kind = "default" /\ req[u].kind = "default" =>
      req[u].on \in Reach(t) \/ req[t].on \in Reach(u)

\* A request that makes a default reaches every other default.
Covered ==
  ~crossed => \A t \in Requests : Sets(t) => \A o \in Defaults : o = Own(t) \/ o \in Reach(t)

\* OneDefault, of what is committed.
Single == ~crossed => \A o, p \in Defaults : o = p

\* Together they are inductive, with DefaultInv's other parts.
RowInv == Locks /\ Aims /\ Covered /\ Single

LEMMA OwnIsOrg ==
  ASSUME TypeInv, NEW t \in Requests, Holding(t)
  PROVE  Own(t) \in Orgs
  BY DEF TypeInv, Shape, Busy, Holding, Own, Orgs

\* Steps of requests that hold nothing, and ends that give back what was held.
LEMMA Harmless ==
  ASSUME TypeInv, RowInv, org' = org, crossed => crossed',
         holder' \in [Orgs -> Requests \union {None}],
         \A u \in Requests : Holding(u)' => req'[u] = req[u],
         \A u \in Requests, o \in Orgs : holder'[o] = u => holder[o] = u /\ req'[u] = req[u],
         \A u \in Requests, o \in Orgs : holder[o] = u /\ Holding(u)' => holder'[o] = u
  PROVE  RowInv'
  <1>1. \A u \in Requests : Holding(u)' => /\ req'[u] = req[u] /\ Holding(u) /\ Own(u)' = Own(u)
                                           /\ Dirty(u)' = Dirty(u) /\ Reach(u)' = Reach(u)
    BY DEF Holding, Own, Dirty, Reach
  <1>2. Locks'
    <2> SUFFICES ASSUME NEW u \in Requests
                 PROVE  /\ \A o \in Orgs : holder'[o] = u => Holding(u)' /\ (org'[o].there \/ o = u)
                        /\ Holding(u)' /\ Dirty(u)' => holder'[Own(u)'] = u
                        /\ Holding(u)' /\ ~Dirty(u)' => holder'[Own(u)'] # u
                        /\ req'[u].pc = "locks" => Own(u)' \notin req'[u].aim
      BY DEF Locks
    <2>1. \A o \in Orgs : holder'[o] = u => Holding(u)' /\ (org'[o].there \/ o = u)
      BY DEF RowInv, Locks, Holding
    <2>2. CASE ~Holding(u)'
      BY <2>1, <2>2 DEF Holding
    <2>3. CASE Holding(u)'
      <3>1. Own(u) \in Orgs
        BY <1>1, <2>3, OwnIsOrg
      <3>2. /\ Dirty(u) => holder[Own(u)] = u
            /\ ~Dirty(u) => holder[Own(u)] # u
            /\ req[u].pc = "locks" => Own(u) \notin req[u].aim
        BY <1>1, <2>3 DEF RowInv, Locks
      <3> QED
        BY <1>1, <2>1, <2>3, <3>1, <3>2
    <2> QED
      BY <2>2, <2>3
  <1>3. \A u \in Requests : Sets(u)' => Sets(u) /\ Holding(u)'
    BY <1>1 DEF Sets, Holding
  <1>4. Aims'
    BY <1>1, <1>3 DEF RowInv, Aims
  <1>5. Defaults' = Defaults /\ crossed \in BOOLEAN
    BY DEF Defaults, There, TypeInv, Types
  <1>6. Covered'
    BY <1>1, <1>3, <1>5 DEF RowInv, Covered
  <1>7. Single'
    BY <1>5 DEF RowInv, Single
  <1> QED
    BY <1>2, <1>4, <1>6, <1>7 DEF RowInv

\* Every step but the five that write, lock, look at or commit rows.
LEMMA HarmlessSteps ==
  ASSUME OrgsAssumption, TypeInv, RowInv, Solo, Names, [Next]_vars,
         \A t \in Requests : ~(Insert(t) \/ Flush(t) \/ Clear(t) \/ Lock(t) \/ Commit(t))
  PROVE  RowInv'
  <1>0. /\ req \in [Requests -> Records] /\ holder \in [Orgs -> Requests \union {None}]
        /\ crossed => crossed'
    BY SoloKept DEF TypeInv, Types
  <1>1. \A u \in Requests, o \in Orgs : holder[o] = u => Holding(u)
    BY DEF RowInv, Locks
  <1>2. CASE Aside
    <2>1. UNCHANGED <<org, holder, req>>
      BY <1>2 DEF Aside, StartFlow, SentBack, Expire, vars, rows
    <2> QED
      BY <1>0, <2>1, Harmless
  <1>3. ASSUME NEW t \in Requests, NEW o \in Orgs, OfOrg(t, o) PROVE RowInv'
    <2>1. /\ org' = org /\ holder' = holder /\ ~Holding(t) /\ ~Holding(t)'
          /\ \A u \in Requests : u # t => req'[u] = req[u]
      BY <1>3, OfOrgStarts DEF rows, Holding
    <2> QED
      BY <1>0, <1>1, <2>1, Harmless
  <1>4. ASSUME NEW t \in Requests, CreateOrg(t) \/ \E f \in Flows : PostCallback(t, f)
        PROVE  RowInv'
    <2>1. /\ org' = org /\ holder' = holder /\ ~Holding(t) /\ ~Holding(t)'
          /\ \A u \in Requests : u # t => req'[u] = req[u]
      BY <1>4, CreationStarts DEF rows, Holding
    <2> QED
      BY <1>0, <1>1, <2>1, Harmless
  <1>5. ASSUME NEW t \in Requests, Goes(t) PROVE RowInv'
    <2>1. Exchange(t) \/ Checked(t) \/ Pop(t)
      BY <1>5 DEF Goes
    <2>2. /\ org' = org /\ holder' = holder /\ req[t].pc \in {"exchange", "check", "pop"}
          /\ req'[t].pc \in {"insert", "flush", "exchange"}
      <3>1. CASE Exchange(t)
        BY <1>0, <3>1, Moves, Values DEF Exchange, rows, Moved
      <3>2. CASE ~Exchange(t)
        BY <1>5, <2>1, <3>2 DEF Goes, Checked, Pop, rows, Insert, Flush, Clear, Lock
      <3> QED
        BY <3>1, <3>2
    <2>3. \A u \in Requests : u # t => req'[u] = req[u]
      BY <1>5, GoesMoves DEF Moved
    <2>4. ~Holding(t) /\ ~Holding(t)'
      BY <2>2 DEF Holding
    <2> QED
      BY <1>0, <1>1, <2>2, <2>3, <2>4, Harmless
  <1>6. ASSUME NEW t \in Requests, GivesUp(t) PROVE RowInv'
    <2>1. org' = org /\ holder' = holder /\ req[t].pc \in {"check", "pop"}
      BY <1>6 DEF GivesUp, Checked, Pop, rows
    <2>2. req'[t].pc = "done" /\ \A u \in Requests : u # t => req'[u] = req[u]
      BY <1>6, Ends DEF GivesUp
    <2>3. ~Holding(t) /\ ~Holding(t)'
      BY <2>1, <2>2 DEF Holding
    <2> QED
      BY <1>0, <1>1, <2>1, <2>2, <2>3, Harmless
  <1>7. ASSUME NEW ts \in SUBSET Requests, Release(ts) PROVE RowInv'
    <2>1. /\ holder' \in [Orgs -> Requests \union {None}]
          /\ \A o \in Orgs : holder'[o] = IF holder[o] \in ts THEN None ELSE holder[o]
          /\ \A u \in ts : req'[u].pc = "done"
          /\ \A u \in Requests \ ts : req'[u] = req[u]
      BY <1>7, Releases
    <2>2. \A u \in Requests : Holding(u)' => u \notin ts /\ req'[u] = req[u]
      BY <2>1 DEF Holding
    <2>3. \A u \in Requests, o \in Orgs : holder'[o] = u => holder[o] = u /\ req'[u] = req[u]
      BY <2>1 DEF OrgsAssumption
    <2>4. \A u \in Requests, o \in Orgs : holder[o] = u /\ Holding(u)' => holder'[o] = u
      BY <2>1, <2>2
    <2>5. org' = org
      BY <1>7 DEF Release
    <2> QED
      BY <1>0, <2>1, <2>2, <2>3, <2>4, <2>5, Harmless
  <1>8. ASSUME NEW t \in Requests, RollBack(t) PROVE RowInv'
    BY <1>7, <1>8 DEF RollBack
  <1>9. CASE Restart
    BY <1>7, <1>9 DEF Restart
  <1> QED
    BY <1>2, <1>3, <1>4, <1>5, <1>6, <1>8, <1>9, StepCases

\* Nobody else holds the row a request under way may make.
LEMMA OwnRowIsFree ==
  ASSUME TypeInv, RowInv, Names, NEW t \in Requests, req[t].pc # "made"
  PROVE  ~org[t].there /\ holder[t] \in {None, t}
  <1>1. t \in Orgs /\ ~org[t].there
    BY DEF Names, Orgs
  <1> QED
    BY <1>1 DEF RowInv, Locks, TypeInv, Types

\* A request writes its own row: Insert, Flush.
LEMMA Writes ==
  ASSUME TypeInv, RowInv, NEW t \in Requests, ~Holding(t), org' = org, crossed' = crossed,
         holder' \in [Orgs -> Requests \union {None}],
         Moved(t, IF req[t].flag THEN "clear" ELSE "commit"),
         Own(t) \in Orgs, org[Own(t)].there \/ Own(t) = t,
         \A o \in Orgs : o # Own(t) => holder'[o] = holder[o],
         Dirty(t) => holder'[Own(t)] = t /\ holder[Own(t)] \in {None, t},
         ~Dirty(t) => holder' = holder, None \notin Requests
  PROVE  RowInv'
  <1>0. req[t].flag \in BOOLEAN
    BY DEF TypeInv, Types, Records
  <1>1. /\ Holding(t)' /\ Own(t)' = Own(t) /\ (Dirty(t)' <=> Dirty(t)) /\ ~Sets(t)'
        /\ req'[t].pc # "locks"
    BY <1>0 DEF Moved, Holding, Own, Dirty, Sets
  <1>2. \A u \in Requests : u # t => req'[u] = req[u]
    BY DEF Moved
  <1>3. \A u \in Requests, o \in Orgs : u # t => (holder'[o] = u <=> holder[o] = u)
    <2> SUFFICES ASSUME NEW u \in Requests, NEW o \in Orgs, u # t
                 PROVE  holder'[o] = u <=> holder[o] = u
      OBVIOUS
    <2>1. CASE o # Own(t) \/ ~Dirty(t)
      BY <2>1
    <2>2. CASE o = Own(t) /\ Dirty(t)
      BY <2>2
    <2> QED
      BY <2>1, <2>2
  <1>4. \A u \in Requests : u # t =>
          /\ Holding(u)' = Holding(u) /\ Own(u)' = Own(u) /\ Dirty(u)' = Dirty(u)
          /\ Reach(u)' = Reach(u) /\ Sets(u)' = Sets(u)
    BY <1>2, <1>3 DEF Holding, Own, Dirty, Reach, Sets
  <1>5. \A o \in Orgs : holder[o] # t
    BY DEF RowInv, Locks
  <1>6. Locks'
    <2> SUFFICES ASSUME NEW u \in Requests
                 PROVE  /\ \A o \in Orgs : holder'[o] = u => Holding(u)' /\ (org'[o].there \/ o = u)
                        /\ Holding(u)' /\ Dirty(u)' => holder'[Own(u)'] = u
                        /\ Holding(u)' /\ ~Dirty(u)' => holder'[Own(u)'] # u
                        /\ req'[u].pc = "locks" => Own(u)' \notin req'[u].aim
      BY DEF Locks
    <2>1. CASE u = t
      <3>1. \A o \in Orgs : holder'[o] = t => o = Own(t) /\ Dirty(t)
        BY <1>5
      <3> QED
        BY <1>1, <1>5, <2>1, <3>1
    <2>2. CASE u # t
      <3>1. /\ \A o \in Orgs : holder[o] = u => Holding(u) /\ (org[o].there \/ o = u)
            /\ Holding(u) /\ Dirty(u) => holder[Own(u)] = u
            /\ Holding(u) /\ ~Dirty(u) => holder[Own(u)] # u
            /\ req[u].pc = "locks" => Own(u) \notin req[u].aim
        BY DEF RowInv, Locks
      <3>2. Holding(u) => Own(u) \in Orgs
        BY OwnIsOrg
      <3>3. req[u].pc = "locks" => Holding(u)
        BY DEF Holding
      <3> QED
        BY <1>2, <1>3, <1>4, <2>2, <3>1, <3>2, <3>3
    <2> QED
      BY <2>1, <2>2
  <1>7. Aims'
    BY <1>1, <1>2, <1>4 DEF RowInv, Aims
  <1>8. Defaults' = Defaults
    BY DEF Defaults, There
  <1>9. Covered' /\ Single'
    BY <1>1, <1>4, <1>8 DEF RowInv, Covered, Single
  <1> QED
    BY <1>6, <1>7, <1>9 DEF RowInv

LEMMA InsertKeepsRows ==
  ASSUME OrgsAssumption, TypeInv, RowInv, Names, NEW t \in Requests, Insert(t)
  PROVE  RowInv'
  <1>0. req \in [Requests -> Records] /\ holder \in [Orgs -> Requests \union {None}] /\ t \in Orgs
    BY DEF TypeInv, Types, Orgs
  <1>1. req[t].pc = "insert" /\ org' = org /\ crossed' = crossed /\ holder' = [holder EXCEPT ![t] = t]
    BY <1>0 DEF Insert, Hold, history
  <1>2. req[t].kind \in Creations /\ Own(t) = t /\ Dirty(t)
    BY <1>1 DEF TypeInv, Shape, Own, Dirty, Creations
  <1>3. Moved(t, IF req[t].flag THEN "clear" ELSE "commit")
    BY Moves, Values DEF Insert, Go
  <1>4. ~Holding(t) /\ holder[t] \in {None, t}
    BY <1>1, OwnRowIsFree DEF Holding
  <1>5. holder' \in [Orgs -> Requests \union {None}] /\ holder'[t] = t
          /\ \A o \in Orgs : o # t => holder'[o] = holder[o]
    BY <1>0, <1>1
  <1> QED
    BY <1>0, <1>1, <1>2, <1>3, <1>4, <1>5, Writes DEF OrgsAssumption

LEMMA FlushKeepsRows ==
  ASSUME OrgsAssumption, TypeInv, RowInv, Names, NEW t \in Requests, Flush(t)
  PROVE  RowInv'
  <1>0. req \in [Requests -> Records] /\ holder \in [Orgs -> Requests \union {None}]
    BY DEF TypeInv, Types
  <1>1. /\ req[t].pc = "flush" /\ org' = org /\ crossed' = crossed /\ org[req[t].on].there
        /\ Dirty(t) => Free(t, req[t].on)
        /\ Hold(t, IF Dirty(t) THEN {req[t].on} ELSE {})
    BY DEF Flush, history
  <1>2. Own(t) = req[t].on /\ Own(t) \in Orgs
    BY <1>1 DEF TypeInv, Shape, Own, Busy
  <1>3. Moved(t, IF req[t].flag THEN "clear" ELSE "commit")
    BY Moves, Values DEF Flush, Go
  <1>4. holder' = [o \in Orgs |-> IF Dirty(t) /\ o = req[t].on THEN t ELSE holder[o]]
    BY <1>1 DEF Hold
  <1>5. holder' \in [Orgs -> Requests \union {None}]
    BY <1>0, <1>4
  <1>6. /\ \A o \in Orgs : o # Own(t) => holder'[o] = holder[o]
        /\ Dirty(t) => holder'[Own(t)] = t /\ holder[Own(t)] \in {None, t}
        /\ ~Dirty(t) => holder' = holder
    BY <1>0, <1>1, <1>2, <1>4 DEF Free
  <1>7. ~Holding(t)
    BY <1>1 DEF Holding
  <1> QED
    BY <1>1, <1>2, <1>3, <1>5, <1>6, <1>7, Writes DEF OrgsAssumption

\* The row of a request that holds it is there, unless the request is making it.
LEMMA OwnIsThere ==
  ASSUME TypeInv, RowInv, Names, NEW t \in Requests, Holding(t), Dirty(t),
         req[t].kind \notin Creations
  PROVE  req[t].on \in There /\ holder[req[t].on] = t /\ req[t].on # t
  <1>1. req[t].on \in Orgs /\ req[t].on # t /\ Own(t) = req[t].on
    BY DEF TypeInv, Shape, Names, Busy, Holding, Own
  <1> QED
    BY <1>1 DEF RowInv, Locks, There

LEMMA ClearKeepsRows ==
  ASSUME TypeInv, RowInv, Names, NEW t \in Requests, Clear(t)
  PROVE  RowInv'
  <1>0. req \in [Requests -> Records] /\ holder \in [Orgs -> Requests \union {None}]
    BY DEF TypeInv, Types
  <1>1. req[t].pc = "clear" /\ org' = org /\ holder' = holder /\ crossed' = crossed
    BY DEF Clear, rows, history
  <1>2. Moved(t, "locks") /\ req'[t].aim = There \ {t, req[t].on}
    <2>1. Others(t) \in SUBSET Orgs
      BY DEF Others, There
    <2> QED
      BY <2>1, MovesAiming, Values DEF Clear, Others
  <1>3. Holding(t) /\ Holding(t)' /\ Own(t)' = Own(t) /\ (Dirty(t)' <=> Dirty(t))
          /\ Reach(t)' = There \ {t, req[t].on} /\ ~Sets(t)
    BY <1>1, <1>2 DEF Moved, Holding, Own, Dirty, Reach, Sets
  <1>4. \A u \in Requests : u # t => req'[u] = req[u]
    BY <1>2 DEF Moved
  <1>5. \A u \in Requests : u # t =>
          /\ Holding(u)' = Holding(u) /\ Own(u)' = Own(u) /\ Dirty(u)' = Dirty(u)
          /\ Reach(u)' = Reach(u) /\ Sets(u)' = Sets(u)
    BY <1>1, <1>4 DEF Holding, Own, Dirty, Reach, Sets
  <1>6. Own(t) \in {t, req[t].on}
    BY DEF Own
  <1>7. Locks'
    <2> SUFFICES ASSUME NEW u \in Requests
                 PROVE  /\ \A o \in Orgs : holder'[o] = u => Holding(u)' /\ (org'[o].there \/ o = u)
                        /\ Holding(u)' /\ Dirty(u)' => holder'[Own(u)'] = u
                        /\ Holding(u)' /\ ~Dirty(u)' => holder'[Own(u)'] # u
                        /\ req'[u].pc = "locks" => Own(u)' \notin req'[u].aim
      BY DEF Locks
    <2>1. /\ \A o \in Orgs : holder[o] = u => Holding(u) /\ (org[o].there \/ o = u)
          /\ Holding(u) /\ Dirty(u) => holder[Own(u)] = u
          /\ Holding(u) /\ ~Dirty(u) => holder[Own(u)] # u
          /\ req[u].pc = "locks" => Own(u) \notin req[u].aim
      BY DEF RowInv, Locks
    <2>2. CASE u = t
      BY <1>1, <1>2, <1>3, <1>6, <2>1, <2>2
    <2>3. CASE u # t
      BY <1>1, <1>4, <1>5, <2>1, <2>3
    <2> QED
      BY <2>2, <2>3
  \* The row of another update is one of those this one sees, and not its own.
  <1>8. ASSUME NEW u \in Requests, u # t, Sets(u), req[u].kind = "default",
               Sets(t)', req[t].kind = "default"
        PROVE  req[u].on \in Reach(t)'
    <2>1. Holding(u) /\ Dirty(u) /\ Dirty(t) /\ req[u].kind \notin Creations
            /\ req[t].kind \notin Creations
      BY <1>3, <1>8 DEF Sets, Holding, Creations
    <2>2. req[u].on \in There /\ holder[req[u].on] = u /\ holder[req[t].on] = t
      BY <1>3, <2>1, OwnIsThere
    <2>3. t \notin There
      BY <1>1 DEF Names, There
    <2> QED
      BY <1>3, <1>8, <2>2, <2>3
  <1>9. Aims'
    BY <1>2, <1>4, <1>5, <1>8 DEF RowInv, Aims, Moved
  <1>10. Defaults' = Defaults /\ Defaults \subseteq There
    BY <1>1 DEF Defaults, There
  <1>11. ASSUME NEW o \in Defaults PROVE o = Own(t) \/ o \in Reach(t)'
    <2>1. t \notin There
      BY <1>1 DEF Names, There
    <2>2. CASE req[t].kind \in Creations
      <3>1. req[t].on \notin Orgs
        BY <1>1, <2>2 DEF Names, Busy
      <3> QED
        BY <1>3, <1>10, <2>1, <3>1 DEF There
    <2>3. CASE req[t].kind \notin Creations
      BY <1>3, <1>10, <2>1, <2>3 DEF Own
    <2> QED
      BY <2>2, <2>3
  <1>12. Covered' /\ Single'
    BY <1>1, <1>3, <1>5, <1>10, <1>11 DEF RowInv, Covered, Single
  <1> QED
    BY <1>7, <1>9, <1>12 DEF RowInv

LEMMA LockKeepsRows ==
  ASSUME OrgsAssumption, TypeInv, RowInv, Names, NEW t \in Requests, Lock(t)
  PROVE  RowInv'
  <1>0. req \in [Requests -> Records] /\ holder \in [Orgs -> Requests \union {None}]
          /\ None \notin Requests
    BY DEF TypeInv, Types, OrgsAssumption
  <1>1. /\ req[t].pc = "locks" /\ org' = org /\ crossed' = crossed
        /\ \A o \in req[t].aim \intersect There : holder[o] \in {None, t}
        /\ holder' = [o \in Orgs |-> IF o \in req[t].aim \intersect There THEN t ELSE holder[o]]
    BY DEF Lock, Free, Hold, history
  <1>2. Moved(t, "commit")
    BY MovesAiming, Values DEF Lock
  <1>3. Holding(t) /\ Holding(t)' /\ Own(t)' = Own(t) /\ (Dirty(t)' <=> Dirty(t))
          /\ (Sets(t)' <=> Sets(t)) /\ req'[t].on = req[t].on /\ req'[t].kind = req[t].kind
          /\ Reach(t) = req[t].aim /\ req'[t].pc # "locks"
    BY <1>1, <1>2 DEF Moved, Holding, Own, Dirty, Reach, Sets
  <1>4. Reach(t)' = {o \in Orgs : holder'[o] = t}
    BY <1>3 DEF Reach
  <1>5. \A u \in Requests : u # t => req'[u] = req[u]
    BY <1>2 DEF Moved
  <1>6. \A u \in Requests, o \in Orgs : u # t => (holder'[o] = u <=> holder[o] = u)
    BY <1>0, <1>1
  <1>7. \A u \in Requests : u # t =>
          /\ Holding(u)' = Holding(u) /\ Own(u)' = Own(u) /\ Dirty(u)' = Dirty(u)
          /\ Reach(u)' = Reach(u) /\ Sets(u)' = Sets(u)
    BY <1>5, <1>6 DEF Holding, Own, Dirty, Reach, Sets
  <1>8. \A o \in Orgs : holder[o] = t => holder'[o] = t
    BY <1>1
  <1>9. Own(t) \notin req[t].aim /\ Own(t) \in Orgs
    BY <1>1, <1>3, OwnIsOrg DEF RowInv, Locks
  <1>10. Locks'
    <2> SUFFICES ASSUME NEW u \in Requests
                 PROVE  /\ \A o \in Orgs : holder'[o] = u => Holding(u)' /\ (org'[o].there \/ o = u)
                        /\ Holding(u)' /\ Dirty(u)' => holder'[Own(u)'] = u
                        /\ Holding(u)' /\ ~Dirty(u)' => holder'[Own(u)'] # u
                        /\ req'[u].pc = "locks" => Own(u)' \notin req'[u].aim
      BY DEF Locks
    <2>1. /\ \A o \in Orgs : holder[o] = u => Holding(u) /\ (org[o].there \/ o = u)
          /\ Holding(u) /\ Dirty(u) => holder[Own(u)] = u
          /\ Holding(u) /\ ~Dirty(u) => holder[Own(u)] # u
          /\ req[u].pc = "locks" => Own(u) \notin req[u].aim
      BY DEF RowInv, Locks
    <2>2. CASE u = t
      <3>1. \A o \in Orgs : holder'[o] = t => holder[o] = t \/ org[o].there
        BY <1>1 DEF There
      <3>2. holder'[Own(t)] = holder[Own(t)]
        BY <1>1, <1>9
      <3> QED
        BY <1>1, <1>3, <2>1, <2>2, <3>1, <3>2
    <2>3. CASE u # t
      <3>1. Holding(u) => Own(u) \in Orgs
        BY OwnIsOrg
      <3>2. req[u].pc = "locks" => Holding(u)
        BY DEF Holding
      <3> QED
        BY <1>1, <1>5, <1>6, <1>7, <2>1, <2>3, <3>1, <3>2
    <2> QED
      BY <2>2, <2>3
  \* What it aimed at it now holds, where it is still there.
  <1>11. \A o \in There : o \in Reach(t) => o \in Reach(t)'
    BY <1>1, <1>3, <1>4 DEF There
  <1>12. ASSUME NEW u \in Requests, u # t, Sets(u), Sets(t),
                req[u].kind = "default", req[t].kind = "default"
         PROVE  req[u].on \in Reach(t)' \/ req[t].on \in Reach(u)'
    <2>1. req[u].on \in There
      BY <1>12, OwnIsThere DEF Sets, Holding, Creations
    <2> QED
      BY <1>7, <1>11, <1>12, <2>1 DEF RowInv, Aims
  <1>13. Aims'
    BY <1>3, <1>5, <1>7, <1>12 DEF RowInv, Aims
  <1>14. Defaults' = Defaults /\ Defaults \subseteq There
    BY <1>1 DEF Defaults, There
  <1>15. Covered' /\ Single'
    BY <1>1, <1>3, <1>7, <1>11, <1>14 DEF RowInv, Covered, Single
  <1> QED
    BY <1>10, <1>13, <1>15 DEF RowInv

\* After a commit a row is the default if it was and is not one of those the request cleared, or if
\* the request makes it the default.
LEMMA CommitDefaults ==
  ASSUME TypeInv, RowInv, Names, NEW t \in Requests, Commit(t), NEW o \in Defaults'
  PROVE  \/ o \in Defaults /\ (holder[o] # t \/ ~Sets(t))
         \/ Sets(t) /\ o = Own(t)
  <1>1. o \in Orgs /\ org'[o].there /\ org'[o].default
    BY DEF Defaults, There
  <1>2. req[t].pc = "commit" /\ Busy(t) /\ Holding(t)
    BY DEF Commit, Busy, Holding
  <1>3. org[o] \in Rows
    BY <1>1 DEF TypeInv, Types
  <1>4. CASE holder[o] # t
    BY <1>1, <1>4, CommitRows DEF Defaults, There
  <1>5. CASE holder[o] = t
    <2>1. org'[o] = After(t, o)
      BY <1>1, <1>5, CommitRows
    <2>2. CASE o = t /\ req[t].kind \in Creations
      <3>1. After(t, o).default = req[t].flag
        <4>1. req[t].flag \in BOOLEAN /\ NoRow \in Rows
          BY Values DEF TypeInv, Types, Records
        <4>2. After(t, o) = [NoRow EXCEPT !.there = TRUE, !.default = req[t].flag]
          BY <2>2 DEF After, Creations, Writers
        <4> QED
          BY <4>1, <4>2 DEF Rows
      <3>2. Dirty(t) /\ req[t].flag
        BY <1>1, <2>1, <2>2, <3>1 DEF Dirty, Creations
      <3> QED
        BY <1>2, <2>2, <3>2 DEF Sets, Own
    <2>3. CASE o = req[t].on /\ req[t].kind = "default"
      <3>1. Own(t) = o
        BY <2>3 DEF Own, Creations
      <3>2. Dirty(t) /\ req[t].flag
        BY <1>2, <1>5, <2>3, <3>1 DEF RowInv, Locks, Names
      <3> QED
        BY <1>2, <3>1, <3>2 DEF Sets
    <2>4. CASE o = req[t].on /\ req[t].kind \in Writers
      <3>1. After(t, o) = [org[o] EXCEPT !.updates = Written(t)]
        BY <2>4 DEF After, Creations, Writers
      <3>2. org[o].there /\ org[o].default
        BY <1>1, <1>3, <2>1, <3>1 DEF Rows
      <3>3. ~Sets(t)
        BY <1>2, <2>4 DEF Sets, Names, Creations, Writers
      <3> QED
        BY <1>1, <3>2, <3>3 DEF Defaults, There
    <2>5. CASE o = req[t].on /\ req[t].kind = "delete"
      <3>1. After(t, o) = NoRow
        BY <2>5 DEF After, Creations, Writers
      <3> QED
        BY <1>1, <2>1, <3>1 DEF NoRow
    <2>6. CASE /\ ~(o = t /\ req[t].kind \in Creations)
               /\ ~(o = req[t].on /\ req[t].kind \in {"default", "delete"} \union Writers)
      <3>1. After(t, o) = [org[o] EXCEPT !.default = FALSE]
        BY <2>6 DEF After
      <3> QED
        BY <1>1, <1>3, <2>1, <3>1 DEF Rows
    <2> QED
      BY <2>2, <2>3, <2>4, <2>5, <2>6
  <1> QED
    BY <1>4, <1>5

LEMMA CommitKeepsRows ==
  ASSUME OrgsAssumption, TypeInv, RowInv, Names, Solo, NEW t \in Requests, Commit(t)
  PROVE  RowInv'
  <1>0. req \in [Requests -> Records] /\ holder \in [Orgs -> Requests \union {None}]
          /\ None \notin Requests
    BY DEF TypeInv, Types, OrgsAssumption
  <1>1. req[t].pc = "commit" /\ crossed' = crossed /\ Busy(t) /\ Holding(t)
    BY DEF Commit, history, Busy, Holding
  <1>2. holder' = [o \in Orgs |-> IF holder[o] = t THEN None ELSE holder[o]]
    BY DEF Commit
  <1>3. req'[t].pc = "made" /\ \A u \in Requests : u # t => req'[u] = req[u]
    BY Ends DEF Commit
  <1>4. /\ \A u \in Requests, o \in Orgs : u # t => (holder'[o] = u <=> holder[o] = u)
        /\ \A o \in Orgs : holder'[o] # t
    BY <1>0, <1>2
  <1>5. ~Holding(t)' /\ ~Sets(t)'
    BY <1>3 DEF Holding, Sets
  <1>6. \A u \in Requests : u # t =>
          /\ Holding(u)' = Holding(u) /\ Own(u)' = Own(u) /\ Dirty(u)' = Dirty(u)
          /\ Reach(u)' = Reach(u) /\ Sets(u)' = Sets(u)
    BY <1>3, <1>4 DEF Holding, Own, Dirty, Reach, Sets
  <1>7. Locks'
    <2> SUFFICES ASSUME NEW u \in Requests
                 PROVE  /\ \A o \in Orgs : holder'[o] = u => Holding(u)' /\ (org'[o].there \/ o = u)
                        /\ Holding(u)' /\ Dirty(u)' => holder'[Own(u)'] = u
                        /\ Holding(u)' /\ ~Dirty(u)' => holder'[Own(u)'] # u
                        /\ req'[u].pc = "locks" => Own(u)' \notin req'[u].aim
      BY DEF Locks
    <2>1. CASE u = t
      BY <1>3, <1>4, <1>5, <2>1
    <2>2. CASE u # t
      <3>1. /\ \A o \in Orgs : holder[o] = u => Holding(u) /\ (org[o].there \/ o = u)
            /\ Holding(u) /\ Dirty(u) => holder[Own(u)] = u
            /\ Holding(u) /\ ~Dirty(u) => holder[Own(u)] # u
            /\ req[u].pc = "locks" => Own(u) \notin req[u].aim
        BY DEF RowInv, Locks
      <3>2. Holding(u) => Own(u) \in Orgs
        BY OwnIsOrg
      <3>3. req[u].pc = "locks" => Holding(u)
        BY DEF Holding
      <3>4. \A o \in Orgs : holder[o] = u => org'[o] = org[o]
        BY <2>2, CommitRows
      <3> QED
        BY <1>3, <1>4, <1>6, <2>2, <3>1, <3>2, <3>3, <3>4
    <2> QED
      BY <2>1, <2>2
  <1>8. Aims'
    BY <1>3, <1>5, <1>6 DEF RowInv, Aims
  \* The row that becomes the default is in reach of every other request that makes one.
  <1>9. ASSUME ~crossed, NEW u \in Requests, u # t, Sets(u), Sets(t)
        PROVE  Own(t) \in Reach(u)
    <2>1. t \in Flagging /\ u \in Flagging
      BY <1>9 DEF Flagging, Sets, Busy
    <2>2. req[t].kind \notin Creations /\ req[u].kind \notin Creations
      BY <1>9, <2>1 DEF Solo
    <2>3. req[t].kind = "default" /\ req[u].kind = "default"
      BY <1>9, <2>1, <2>2 DEF Names, Flagging
    <2>4. Holding(u) /\ Dirty(u) /\ Dirty(t)
      BY <1>9 DEF Sets, Holding
    <2>5. holder[req[u].on] = u /\ req[u].on \in Orgs
      BY <2>2, <2>4, OwnIsThere DEF There
    <2>6. req[u].on \notin Reach(t)
      BY <1>1, <1>9, <2>5 DEF Reach
    <2>7. req[t].on \in Reach(u)
      BY <1>9, <2>3, <2>6 DEF RowInv, Aims
    <2> QED
      BY <2>2, <2>7 DEF Own
  <1>10. ASSUME ~crossed, NEW u \in Requests, Sets(u)', NEW o \in Defaults'
         PROVE  o = Own(u)' \/ o \in Reach(u)'
    <2>1. u # t /\ Sets(u) /\ Own(u)' = Own(u) /\ Reach(u)' = Reach(u)
      BY <1>5, <1>6, <1>10
    <2>2. CASE o \in Defaults
      BY <1>10, <2>1, <2>2 DEF RowInv, Covered
    <2>3. CASE Sets(t) /\ o = Own(t)
      BY <1>9, <1>10, <2>1, <2>3
    <2> QED
      BY <1>10, <2>2, <2>3, CommitDefaults
  <1>11. Covered'
    BY <1>1, <1>10 DEF Covered
  <1>12. ASSUME ~crossed, NEW o \in Defaults', NEW p \in Defaults' PROVE o = p
    <2>1. CASE Sets(t)
      <3>1. \A x \in Defaults : x = Own(t) \/ holder[x] = t
        BY <1>1, <1>12, <2>1 DEF RowInv, Covered, Reach
      <3>2. \A x \in Defaults' : x = Own(t)
        BY <2>1, <3>1, CommitDefaults
      <3> QED
        BY <1>12, <3>2
    <2>2. CASE ~Sets(t)
      <3>1. o \in Defaults /\ p \in Defaults
        BY <1>12, <2>2, CommitDefaults
      <3> QED
        BY <1>12, <3>1 DEF RowInv, Single
    <2> QED
      BY <2>1, <2>2
  <1>13. Single'
    BY <1>1, <1>12 DEF Single
  <1> QED
    BY <1>7, <1>8, <1>11, <1>13 DEF RowInv

\* What is inductive.
DefaultInv == TypeInv /\ Names /\ Solo /\ RowInv

LEMMA InitDefault == OrgsAssumption /\ Init => DefaultInv
  <1> SUFFICES ASSUME OrgsAssumption, Init PROVE DefaultInv
    OBVIOUS
  <1>1. TypeInv
    BY InitTypes
  <1>2. \A t \in Requests : req[t].pc = "new"
    <2>1. req = [t \in Requests |-> [kind |-> "create", on |-> None, flag |-> FALSE, pc |-> "new",
                                     seen |-> NoRow, aim |-> {}]]
      BY DEF Init
    <2> QED
      BY <2>1
  <1>3. holder = [o \in Orgs |-> None] /\ None \notin Requests
    BY DEF Init, OrgsAssumption
  <1>4. PICK d \in Old : org = [o \in Orgs |-> IF o \in Old
                                               THEN [NoRow EXCEPT !.there = TRUE, !.default = (o = d)]
                                               ELSE NoRow]
    BY DEF Init
  <1>5. \A t \in Requests : ~org[t].there
    BY <1>4 DEF OrgsAssumption, Orgs, NoRow
  <1>6. \A o \in Defaults : o = d
    <2> SUFFICES ASSUME NEW o \in Orgs, org[o].default PROVE o = d
      BY DEF Defaults, There
    <2>1. CASE o \in Old
      <3>1. org[o] = [NoRow EXCEPT !.there = TRUE, !.default = (o = d)]
        BY <1>4, <2>1
      <3>2. org[o].default = (o = d)
        BY <3>1 DEF NoRow
      <3> QED
        BY <3>2
    <2>2. CASE o \notin Old
      BY <1>4, <2>2 DEF NoRow
    <2> QED
      BY <2>1, <2>2
  <1>7. Names /\ Solo
    BY <1>2, <1>5 DEF Names, Solo, Busy, Flagging
  <1>8. Locks /\ Aims /\ Covered /\ Single
    BY <1>2, <1>3, <1>6 DEF Locks, Aims, Covered, Single, Holding, Sets
  <1> QED
    BY <1>1, <1>7, <1>8 DEF DefaultInv, RowInv

LEMMA DefaultKept ==
  ASSUME OrgsAssumption, DefaultInv, [Next]_vars
  PROVE  DefaultInv'
  <1> USE DEF DefaultInv
  <1>1. TypeInv' /\ Names' /\ Solo'
    BY TypeKept, NamesKept, SoloKept
  <1>2. RowInv'
    BY InsertKeepsRows, FlushKeepsRows, ClearKeepsRows, LockKeepsRows, CommitKeepsRows, HarmlessSteps
  <1> QED
    BY <1>1, <1>2

\* A project has one default org at most, as long as no creation of a default overlapped another
\* request about it: updates that make defaults wait for each other's rows (clear_default_for_project).
THEOREM DefaultIsSingle == OrgsAssumption => (Spec => []OneDefault)
  <1> SUFFICES ASSUME OrgsAssumption PROVE Spec => []OneDefault
    OBVIOUS
  <1>1. Init => DefaultInv
    BY InitDefault
  <1>2. DefaultInv /\ [Next]_vars => DefaultInv'
    BY DefaultKept
  <1>3. DefaultInv => OneDefault
    <2> SUFFICES ASSUME DefaultInv, ~crossed PROVE Cardinality(Defaults) <= 1
      BY DEF OneDefault
    <2>1. \A o, p \in Defaults : o = p
      BY DEF DefaultInv, RowInv, Single
    <2>2. CASE Defaults = {}
      <3>1. Cardinality(Defaults) = 0
        BY <2>2, FS_EmptySet
      <3> QED
        BY <3>1
    <2>3. ASSUME NEW o \in Defaults PROVE Cardinality(Defaults) <= 1
      <3>1. Defaults = {o}
        BY <2>1, <2>3
      <3>2. Cardinality(Defaults) = 1
        BY <3>1, FS_Singleton
      <3> QED
        BY <3>2
    <2> QED
      BY <2>2, <2>3
  <1> QED
    BY <1>1, <1>2, <1>3, PTL DEF Spec

-----------------------------------------------------------------------------
(* Updates of credentials *)

\* The request will write credentials.
Rewrites(t) == Busy(t) /\ req[t].kind \in Writers
\* An org that was there once is not made again.
Spent(o) == o \in Requests => req[o].pc = "made"

\* Who writes credentials is alone with them, or the org is marked, and has read what is stored.
WriteInv ==
  /\ \A t \in Requests : Rewrites(t) \/ (req[t].pc = "made" /\ req[t].kind \in Writers) =>
       req[t].on \in Orgs /\ Spent(req[t].on)
  /\ \A t, u \in Requests :
       Rewrites(t) /\ Rewrites(u) /\ req[t].on = req[u].on /\ req[t].on \notin raced => t = u
  /\ \A t \in Requests :
       Rewrites(t) /\ req[t].on \notin raced /\ org[req[t].on].there =>
         req[t].seen.updates = org[req[t].on].updates
  /\ UpdatesKept

\* A request that made what it was asked for stays as it is.
LEMMA MadeStays ==
  ASSUME TypeInv, [Next]_vars, NEW u \in Requests, req[u].pc = "made"
  PROVE  req'[u] = req[u]
  <1>1. CASE Aside
    BY <1>1 DEF Aside, StartFlow, SentBack, Expire, vars
  <1>2. ASSUME NEW t \in Requests, NEW o \in Orgs, OfOrg(t, o) PROVE req'[u] = req[u]
    BY <1>2, OfOrgStarts
  <1>3. ASSUME NEW t \in Requests, CreateOrg(t) \/ \E f \in Flows : PostCallback(t, f)
        PROVE  req'[u] = req[u]
    BY <1>3, CreationStarts
  <1>4. ASSUME NEW t \in Requests, Goes(t) PROVE req'[u] = req[u]
    BY <1>4, GoesMoves DEF Moved, Busy
  <1>5. ASSUME NEW t \in Requests, GivesUp(t) PROVE req'[u] = req[u]
    <2>1. req[t].pc # "made" /\ req' = [req EXCEPT ![t] = Over(t, "done")]
      BY <1>5 DEF GivesUp, Checked, Pop
    <2> QED BY <2>1 DEF TypeInv, Types
  <1>6. ASSUME NEW t \in Requests, Commit(t) PROVE req'[u] = req[u]
    BY <1>6 DEF Commit, TypeInv, Types
  <1>7. ASSUME NEW t \in Requests, RollBack(t) PROVE req'[u] = req[u]
    <2>1. Release({t}) /\ u \notin {t}
      BY <1>7 DEF RollBack, Busy
    <2> QED BY <2>1, Releases
  <1>8. CASE Restart
    <2>1. Release({t \in Requests : Busy(t)}) /\ u \notin {t \in Requests : Busy(t)}
      BY <1>8 DEF Restart, Busy
    <2> QED BY <2>1, Releases
  <1> QED
    BY <1>1, <1>2, <1>3, <1>4, <1>5, <1>6, <1>7, <1>8, StepCases

\* Steps that neither store anything nor let a writer start or end.
LEMMA NothingWritten ==
  ASSUME TypeInv, WriteInv, [Next]_vars, org' = org, raced' = raced,
         \A u \in Requests : Rewrites(u)' =>
           Rewrites(u) /\ req'[u].on = req[u].on /\ req'[u].seen = req[u].seen,
         \A u \in Requests : req'[u].pc = "made" => req[u].pc = "made"
  PROVE  WriteInv'
  <1>1. \A u \in Requests : req'[u].pc = "made" => req'[u] = req[u]
    BY MadeStays
  <1>2. \A o : Spent(o) => (o \in Requests => req'[o].pc = "made")
    BY MadeStays DEF Spent
  <1>3. ASSUME NEW t \in Requests, Rewrites(t)' \/ (req'[t].pc = "made" /\ req'[t].kind \in Writers)
        PROVE  req'[t].on \in Orgs /\ Spent(req[t].on)'
    <2>1. req'[t].on = req[t].on /\ (Rewrites(t) \/ (req[t].pc = "made" /\ req[t].kind \in Writers))
      BY <1>1, <1>3
    <2>2. req[t].on \in Orgs /\ Spent(req[t].on)
      BY <2>1 DEF WriteInv
    <2>3. Spent(req[t].on)' <=> (req'[t].on \in Requests => req'[req'[t].on].pc = "made")
      BY DEF Spent
    <2> QED BY <1>2, <2>1, <2>2, <2>3
  <1>4. UpdatesKept'
    BY <1>1 DEF WriteInv, UpdatesKept
  <1>5. \A t, u \in Requests :
          Rewrites(t)' /\ Rewrites(u)' /\ req'[t].on = req'[u].on /\ req'[t].on \notin raced' => t = u
    BY DEF WriteInv
  <1>6. \A t \in Requests :
          Rewrites(t)' /\ req'[t].on \notin raced' /\ org'[req'[t].on].there =>
            req'[t].seen.updates = org'[req'[t].on].updates
    BY DEF WriteInv
  <1> QED BY <1>3, <1>4, <1>5, <1>6 DEF WriteInv

\* A request that will write credentials reads them, and marks the org if another one is about to.
LEMMA WriterStarts ==
  ASSUME TypeInv, Names, WriteInv, [Next]_vars, NEW t \in Requests, NEW o \in Orgs,
         UpdateCredentials(t, o) \/ Validate(t, o)
  PROVE  WriteInv'
  <1>1. /\ o \in There /\ req[t].pc = "new" /\ req'[t].on = o /\ req'[t].seen = org[o]
        /\ \A u \in Requests : u # t => req'[u] = req[u]
        /\ org' = org
    BY OfOrgStarts DEF OfOrg, rows
  <1>2. raced' = IF Writing(o) # {} THEN raced \union {o} ELSE raced
    BY DEF UpdateCredentials, Validate
  <1>3. Spent(o)
    BY <1>1 DEF Names, Spent, There
  <1>4. \A p : Spent(p) => (p \in Requests => req'[p].pc = "made")
    BY MadeStays DEF Spent
  <1>5. req'[t].pc # "made"
    BY OfOrgStarts DEF OfOrg
  <1>6. ASSUME NEW u \in Requests, Rewrites(u)' \/ (req'[u].pc = "made" /\ req'[u].kind \in Writers)
        PROVE  req'[u].on \in Orgs /\ Spent(req[u].on)'
    <2>0. Spent(req[u].on)' <=> (req'[u].on \in Requests => req'[req'[u].on].pc = "made")
      BY DEF Spent
    <2>1. CASE u = t
      BY <1>1, <1>3, <1>4, <2>0, <2>1
    <2>2. CASE u # t
      <3>1. req'[u] = req[u]
        BY <1>1, <2>2
      <3>2. Rewrites(u) \/ (req[u].pc = "made" /\ req[u].kind \in Writers)
        BY <1>6, <3>1 DEF Rewrites, Busy
      <3> QED BY <1>4, <2>0, <3>1, <3>2 DEF WriteInv
    <2> QED BY <2>1, <2>2
  <1>7. ASSUME NEW u \in Requests, NEW v \in Requests, Rewrites(u)', Rewrites(v)',
               req'[u].on = req'[v].on, req'[u].on \notin raced'
        PROVE  u = v
    <2>1. \A w \in Requests : w # t /\ Rewrites(w)' => Rewrites(w) /\ req'[w] = req[w]
      BY <1>1 DEF Rewrites, Busy
    <2>2. \A w \in Requests : w # t /\ Rewrites(w)' /\ req'[w].on = o => o \in raced'
      <3> SUFFICES ASSUME NEW w \in Requests, w # t, Rewrites(w)', req'[w].on = o PROVE o \in raced'
        OBVIOUS
      <3>1. w \in Writing(o)
        BY <2>1 DEF Writing, Rewrites
      <3> QED BY <1>2, <3>1
    <2>3. CASE u = t
      BY <1>1, <1>7, <2>2, <2>3
    <2>4. CASE v = t
      BY <1>1, <1>7, <2>2, <2>4
    <2>5. CASE u # t /\ v # t
      <3>1. Rewrites(u) /\ Rewrites(v) /\ req[u].on = req[v].on /\ req[u].on \notin raced
        BY <1>2, <1>7, <2>1, <2>5
      <3> QED BY <3>1 DEF WriteInv
    <2> QED BY <2>3, <2>4, <2>5
  <1>8. ASSUME NEW u \in Requests, Rewrites(u)', req'[u].on \notin raced', org'[req'[u].on].there
        PROVE  req'[u].seen.updates = org'[req'[u].on].updates
    <2>1. CASE u = t
      BY <1>1, <2>1
    <2>2. CASE u # t
      <3>1. req'[u] = req[u] /\ Rewrites(u) /\ req[u].on \notin raced
        BY <1>1, <1>2, <1>8, <2>2 DEF Rewrites, Busy
      <3> QED BY <1>1, <1>8, <3>1 DEF WriteInv
    <2> QED BY <2>1, <2>2
  <1>9. UpdatesKept'
    <2> SUFFICES ASSUME NEW u \in Requests, req'[u].pc = "made", req'[u].kind = "credentials",
                        org'[req'[u].on].there, req'[u].on \notin raced'
                 PROVE  u \in org'[req'[u].on].updates
      BY DEF UpdatesKept
    <2>1. u # t /\ req'[u] = req[u]
      BY <1>1, <1>5
    <2> QED BY <1>1, <1>2, <2>1 DEF WriteInv, UpdatesKept
  <1> QED BY <1>6, <1>7, <1>8, <1>9 DEF WriteInv

\* What a commit leaves of an org that it does not make.
LEMMA AfterUpdates ==
  ASSUME TypeInv, NEW t \in Requests, NEW o \in Orgs, ~(o = t /\ req[t].kind \in Creations),
         After(t, o).there
  PROVE  /\ org[o].there
         /\ After(t, o).updates = IF o = req[t].on /\ req[t].kind \in Writers THEN Written(t)
                                                                            ELSE org[o].updates
  <1>1. org[o] \in Rows
    BY DEF TypeInv, Types
  <1> DEFINE yes == [org[o] EXCEPT !.default = TRUE]
             no == [org[o] EXCEPT !.default = FALSE]
             new == [org[o] EXCEPT !.updates = Written(t)]
  <1>2. /\ yes.there = org[o].there /\ yes.updates = org[o].updates
        /\ no.there = org[o].there /\ no.updates = org[o].updates
        /\ new.there = org[o].there /\ new.updates = Written(t)
        /\ NoRow.there = FALSE
    BY <1>1 DEF Rows, NoRow
  <1> HIDE DEF yes, no, new
  <1>3. CASE o = req[t].on /\ req[t].kind \in Writers
    <2>1. After(t, o) = new
      BY <1>3 DEF After, Writers, Creations, new
    <2> QED BY <1>2, <1>3, <2>1
  <1>4. CASE ~(o = req[t].on /\ req[t].kind \in Writers)
    <2>1. After(t, o) \in {yes, no, NoRow}
      BY <1>4 DEF After, yes, no
    <2> QED BY <1>2, <1>4, <2>1
  <1> QED BY <1>3, <1>4

LEMMA CommitKeepsUpdates ==
  ASSUME OrgsAssumption, TypeInv, Names, RowInv, WriteInv, [Next]_vars, NEW t \in Requests, Commit(t)
  PROVE  WriteInv'
  <1>1. /\ req[t].pc = "commit" /\ raced' = raced
        /\ req' = [req EXCEPT ![t] = Over(t, "made")]
    BY DEF Commit, history
  <1>2. /\ req'[t].pc = "made" /\ req'[t].kind = req[t].kind /\ req'[t].on = req[t].on
        /\ \A u \in Requests : u # t => req'[u] = req[u]
    <2>1. /\ Over(t, "made").pc = "made" /\ Over(t, "made").kind = req[t].kind
          /\ Over(t, "made").on = req[t].on
      BY OverTyped DEF TypeInv
    <2> QED BY <1>1, <2>1 DEF TypeInv, Types
  <1>3. \A p : Spent(p) => (p \in Requests => req'[p].pc = "made")
    BY MadeStays DEF Spent
  <1>4. \A u \in Requests : Rewrites(u)' => u # t /\ Rewrites(u) /\ req'[u] = req[u]
    BY <1>2 DEF Rewrites, Busy
  <1>5. ASSUME NEW o \in Orgs, Spent(o), org'[o].there
        PROVE  /\ org[o].there
               /\ org'[o].updates = IF holder[o] = t /\ o = req[t].on /\ req[t].kind \in Writers
                                    THEN Written(t) ELSE org[o].updates
    <2>1. o # t
      BY <1>1, <1>5 DEF Spent
    <2> QED BY <1>5, <2>1, CommitRows, AfterUpdates
  <1>6. req[t].kind \in Writers => Rewrites(t)
    BY <1>1 DEF Rewrites, Busy
  <1>7. ASSUME NEW u \in Requests, Rewrites(u)' \/ (req'[u].pc = "made" /\ req'[u].kind \in Writers)
        PROVE  req'[u].on \in Orgs /\ Spent(req'[u].on) /\ Spent(req[u].on)'
    <2>1. req'[u].on = req[u].on /\ (Rewrites(u) \/ (req[u].pc = "made" /\ req[u].kind \in Writers))
      BY <1>2, <1>4, <1>6, <1>7
    <2>2. req[u].on \in Orgs /\ Spent(req[u].on)
      BY <2>1 DEF WriteInv
    <2>3. Spent(req[u].on)' <=> (req'[u].on \in Requests => req'[req'[u].on].pc = "made")
      BY DEF Spent
    <2> QED BY <1>3, <2>1, <2>2, <2>3
  <1>8. \A u, v \in Requests :
          Rewrites(u)' /\ Rewrites(v)' /\ req'[u].on = req'[v].on /\ req'[u].on \notin raced' => u = v
    BY <1>1, <1>4 DEF WriteInv
  <1>9. ASSUME NEW u \in Requests, Rewrites(u)', req'[u].on \notin raced', org'[req'[u].on].there
        PROVE  req'[u].seen.updates = org'[req'[u].on].updates
    <2>1. u # t /\ Rewrites(u) /\ req'[u] = req[u] /\ req[u].on \notin raced
      BY <1>1, <1>4, <1>9
    <2>2. req[u].on \in Orgs /\ Spent(req[u].on)
      BY <2>1 DEF WriteInv
    <2>3. ~(req[u].on = req[t].on /\ req[t].kind \in Writers)
      BY <1>6, <2>1 DEF WriteInv
    <2>4. org[req[u].on].there /\ org'[req[u].on].updates = org[req[u].on].updates
      BY <1>5, <1>9, <2>1, <2>2, <2>3
    <2> QED BY <2>1, <2>4 DEF WriteInv
  <1>10. UpdatesKept'
    <2> SUFFICES ASSUME NEW u \in Requests, req'[u].pc = "made", req'[u].kind = "credentials",
                        org'[req'[u].on].there, req'[u].on \notin raced'
                 PROVE  u \in org'[req'[u].on].updates
      BY DEF UpdatesKept
    <2> DEFINE o == req'[u].on
    <2>1. o \in Orgs /\ Spent(o)
      BY <1>7 DEF Writers
    <2>2. org[o].there
      BY <1>5, <2>1
    <2>3. CASE u = t
      <3>1. req[t].kind = "credentials" /\ o = req[t].on /\ Holding(t) /\ Dirty(t)
        BY <1>1, <1>2, <2>3 DEF Holding, Dirty
      <3>2. req[t].kind \in Writers /\ req[t].kind \notin Creations
        BY <3>1 DEF Writers, Creations
      <3>3. holder[o] = t
        BY <3>1, <3>2, OwnIsThere
      <3>4. org'[o].updates = Written(t)
        BY <1>5, <2>1, <3>1, <3>2, <3>3
      <3>5. t \in Written(t)
        BY <3>1 DEF Written
      <3> QED BY <2>3, <3>4, <3>5
    <2>4. CASE u # t
      <3>1. req'[u] = req[u] /\ o = req[u].on /\ o \notin raced
        BY <1>1, <1>2, <2>4
      <3>2. u \in org[o].updates
        BY <2>2, <3>1 DEF WriteInv, UpdatesKept
      <3>3. CASE holder[o] = t /\ o = req[t].on /\ req[t].kind \in Writers
        <4>1. req[t].seen.updates = org[o].updates
          BY <1>6, <2>2, <3>1, <3>3 DEF WriteInv
        <4>2. org'[o].updates = Written(t)
          BY <1>5, <2>1, <3>3
        <4> QED BY <3>2, <4>1, <4>2 DEF Written
      <3>4. CASE ~(holder[o] = t /\ o = req[t].on /\ req[t].kind \in Writers)
        <4>1. org'[o].updates = org[o].updates
          BY <1>5, <2>1, <3>4
        <4> QED BY <3>2, <4>1
      <3> QED BY <3>3, <3>4
    <2> QED BY <2>3, <2>4
  <1> QED BY <1>7, <1>8, <1>9, <1>10 DEF WriteInv

LEMMA UpdatesStay ==
  ASSUME OrgsAssumption, DefaultInv, WriteInv, [Next]_vars
  PROVE  WriteInv'
  <1>0. TypeInv /\ Names /\ RowInv
    BY DEF DefaultInv
  <1>1. CASE Aside
    <2>1. req' = req /\ org' = org /\ raced' = raced
      BY <1>1 DEF Aside, StartFlow, SentBack, Expire, vars, rows, history
    <2> QED BY <1>0, <2>1, NothingWritten DEF Rewrites, Busy
  <1>2. ASSUME NEW t \in Requests, NEW o \in Orgs, MakeDefault(t, o) \/ DeleteOrg(t, o) PROVE WriteInv'
    <2>1. /\ \A u \in Requests : u # t => req'[u] = req[u]
          /\ req'[t].pc # "made" /\ org' = org
      BY <1>0, <1>2, OfOrgStarts DEF OfOrg, rows
    <2>2. raced' = raced
      BY <1>2 DEF MakeDefault, DeleteOrg, history
    <2>3. req'[t].kind \notin Writers
      <3>1. \E kind \in {"default", "delete"}, flag \in BOOLEAN : Start(t, kind, o, flag, "flush")
        BY <1>2 DEF MakeDefault, DeleteOrg
      <3>2. req \in [Requests -> Records]
        BY <1>0 DEF TypeInv, Types
      <3> QED BY <3>1, <3>2 DEF Start, Writers
    <2> QED BY <1>0, <2>1, <2>2, <2>3, NothingWritten DEF Rewrites, Busy
  <1>3. ASSUME NEW t \in Requests, NEW o \in Orgs, UpdateCredentials(t, o) \/ Validate(t, o)
        PROVE  WriteInv'
    BY <1>0, <1>3, WriterStarts
  <1>4. ASSUME NEW t \in Requests, CreateOrg(t) \/ \E f \in Flows : PostCallback(t, f)
        PROVE  WriteInv'
    <2>1. /\ \A u \in Requests : u # t => req'[u] = req[u]
          /\ req'[t].pc # "made" /\ org' = org /\ req'[t].kind \notin Writers
      BY <1>0, <1>4, CreationStarts DEF rows, Writers
    <2>2. raced' = raced
      BY <1>4 DEF CreateOrg, PostCallback, history
    <2> QED BY <1>0, <2>1, <2>2, NothingWritten DEF Rewrites, Busy
  <1>5. ASSUME NEW t \in Requests, Goes(t) PROVE WriteInv'
    <2>1. /\ Moved(t, req'[t].pc) /\ Busy(t) /\ org' = org /\ req'[t].pc # "made"
      BY <1>0, <1>5, GoesMoves
    <2>2. raced' = raced
      BY <1>5 DEF Goes, Exchange, Insert, Flush, Clear, Lock, Checked, Pop, history
    <2> QED BY <1>0, <2>1, <2>2, NothingWritten DEF Moved, Rewrites, Busy
  <1>6. ASSUME NEW t \in Requests, GivesUp(t) PROVE WriteInv'
    <2>1. org' = org /\ raced' = raced /\ req' = [req EXCEPT ![t] = Over(t, "done")]
      BY <1>6 DEF GivesUp, Checked, Pop, rows, history
    <2>2. req'[t].pc = "done" /\ \A u \in Requests : u # t => req'[u] = req[u]
      <3>1. Over(t, "done").pc = "done"
        BY <1>0, OverTyped DEF TypeInv
      <3> QED BY <1>0, <2>1, <3>1 DEF TypeInv, Types
    <2> QED BY <1>0, <2>1, <2>2, NothingWritten DEF Rewrites, Busy
  <1>7. ASSUME NEW t \in Requests, Commit(t) PROVE WriteInv'
    BY <1>0, <1>7, CommitKeepsUpdates
  <1>8. ASSUME NEW ts \in SUBSET Requests, Release(ts) PROVE WriteInv'
    <2>1. org' = org /\ raced' = raced
      BY <1>8 DEF Release, history
    <2>2. /\ \A u \in ts : req'[u].pc = "done"
          /\ \A u \in Requests \ ts : req'[u] = req[u]
      BY <1>0, <1>8, Releases
    <2> QED BY <1>0, <2>1, <2>2, NothingWritten DEF Rewrites, Busy
  <1>9. ASSUME NEW t \in Requests, RollBack(t) PROVE WriteInv'
    BY <1>8, <1>9 DEF RollBack
  <1>10. CASE Restart
    BY <1>8, <1>10 DEF Restart
  <1> QED
    BY <1>0, <1>1, <1>2, <1>3, <1>4, <1>5, <1>6, <1>7, <1>9, <1>10, StepCases DEF OfOrg

\* What a request that was answered has written to the credentials of an org stays in them, as long
\* as no two requests about these credentials overlapped.
THEOREM CredentialsKept == OrgsAssumption => (Spec => []UpdatesKept)
  <1> SUFFICES ASSUME OrgsAssumption PROVE Spec => []UpdatesKept
    OBVIOUS
  <1>1. Init => DefaultInv /\ WriteInv
    <2> SUFFICES ASSUME Init PROVE WriteInv
      BY InitDefault
    <2>1. \A t \in Requests : req[t].pc = "new"
      BY DEF Init
    <2> QED BY <2>1 DEF WriteInv, Rewrites, Busy, UpdatesKept
  <1>2. DefaultInv /\ WriteInv /\ [Next]_vars => (DefaultInv /\ WriteInv)'
    BY DefaultKept, UpdatesStay
  <1>3. WriteInv => UpdatesKept
    BY DEF WriteInv
  <1> QED BY <1>1, <1>2, <1>3, PTL DEF Spec
=============================================================================
