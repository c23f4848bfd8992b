--------------------------- MODULE SalesforceOrgs ---------------------------
(***************************************************************************)
(* The Salesforce orgs of a project: connecting one through the OAuth web  *)
(* flow (salesforce_oauth.py, the callback page) or with credentials,      *)
(* making one the default, changing and validating credentials, deleting   *)
(* (salesforce_service.py, salesforce_org_repository.py).                  *)
(*                                                                         *)
(* Each request is one transaction.  The database shows it what other      *)
(* transactions have committed and lets one of them at a time hold a row;  *)
(* what a request has read of its org it keeps.  Pending flows are in the  *)
(* memory of the backend.                                                  *)
(***************************************************************************)
EXTENDS Naturals, FiniteSets

CONSTANTS
  Flows,     \* OAuth flows a user starts
  Requests,  \* requests of the browser; an org a request creates has its name
  Old,       \* orgs there are from the beginning, the first default among them
  None

OrgsAssumption ==
  /\ Old \intersect Requests = {} /\ Flows \intersect (Old \union Requests) = {}
  /\ None \notin Old \union Requests \union Flows

VARIABLES
  flow,     \* of each flow: whether its state is pending, whether Salesforce sent the user back
  stored,   \* sf_oauth_state in the browser: the flow that was started last
  org,      \* committed rows
  holder,   \* the request that holds the row
  req,      \* of each request: what it is, where it is, what it read
  crossed,  \* a creation and another request overlapped, both about the default (history)
  raced     \* orgs whose credentials two overlapping requests wrote (history)

oauth == <<flow, stored>>
rows == <<org, holder>>
history == <<crossed, raced>>
vars == <<oauth, rows, req, history>>

Orgs == Old \union Requests
Kinds == {"callback", "create", "default", "credentials", "validate", "delete"}
Creations == {"callback", "create"}
Writers == {"credentials", "validate"}
Places == {"new", "pop", "exchange", "insert", "clear", "locks", "check", "flush", "commit", "made",
           "done"}

NoRow == [there |-> FALSE, default |-> FALSE, updates |-> {}]
There == {o \in Orgs : org[o].there}
Defaults == {o \in There : org[o].default}
Busy(t) == req[t].pc \notin {"new", "done", "made"}
\* requests about the default, and requests that write the credentials of o
Flagging == {t \in Requests : Busy(t) /\ req[t].flag /\ req[t].pc \notin {"pop", "exchange"}}
Writing(o) == {t \in Requests : Busy(t) /\ req[t].kind \in Writers /\ req[t].on = o}

\* A request that is over keeps what it was about.
Over(t, place) ==
  [req[t] EXCEPT !.pc = place, !.seen = NoRow, !.aim = {},
                 !.flag = FALSE, !.on = IF place = "made" THEN @ ELSE None]

Init ==
  /\ flow = [f \in Flows |-> [state |-> "new", back |-> FALSE]] /\ stored = None
  /\ \E d \in Old : org = [o \in Orgs |-> IF o \in Old THEN [NoRow EXCEPT !.there = TRUE,
                                                                         !.default = (o = d)]
                                                       ELSE NoRow]
  /\ holder = [o \in Orgs |-> None]
  /\ req = [t \in Requests |-> [kind |-> "create", on |-> None, flag |-> FALSE, pc |-> "new",
                                seen |-> NoRow, aim |-> {}]]
  /\ crossed = FALSE /\ raced = {}

-----------------------------------------------------------------------------
(* The OAuth flow *)

\* start_oauth_flow, and the panel that stores the state and leaves for Salesforce
StartFlow(f) ==
  /\ flow[f].state = "new"
  /\ flow' = [flow EXCEPT ![f].state = "pending"] /\ stored' = f
  /\ UNCHANGED <<rows, req, history>>

\* Salesforce sends the browser to port 1717, which sends it on to the callback page.
SentBack(f) ==
  /\ flow[f].state # "new" /\ ~flow[f].back
  /\ flow' = [flow EXCEPT ![f].back = TRUE]
  /\ UNCHANGED <<stored, rows, req, history>>

\* _purge_expired_states
Expire(f) ==
  /\ flow[f].state = "pending"
  /\ flow' = [flow EXCEPT ![f].state = "gone"]
  /\ UNCHANGED <<stored, rows, req, history>>

Start(t, kind, on, flag, place) ==
  /\ req[t].pc = "new"
  /\ req' = [req EXCEPT ![t] = [kind |-> kind, on |-> on, flag |-> flag, pc |-> place,
                                seen |-> IF on \in Orgs THEN org[on] ELSE NoRow, aim |-> {}]]

\* The callback page posts once each time it is loaded, unless another flow was started since.
PostCallback(t, f) ==
  /\ flow[f].back /\ stored \in {None, f}
  /\ \E flag \in BOOLEAN : Start(t, "callback", f, flag, "pop")
  /\ UNCHANGED <<oauth, rows, history>>

\* MUTANT: the state is looked up and stays
TakeStateKept(f) == flow

\* exchange_oauth_code: the state is taken before the code is exchanged.
TakeState(f) == [flow EXCEPT ![f].state = IF @ = "pending" THEN "gone" ELSE @]

Pop(t) ==
  /\ req[t].pc = "pop"
  /\ req' = [req EXCEPT ![t] = IF flow[req[t].on].state = "pending" THEN [@ EXCEPT !.pc = "exchange"]
                                                              ELSE Over(t, "done")]
  /\ flow' = TakeState(req[t].on)
  /\ UNCHANGED <<stored, rows, history>>

Exchange(t) ==
  /\ req[t].pc = "exchange"
  /\ req' = [req EXCEPT ![t].pc = "insert"]
  /\ crossed' = (crossed \/ (req[t].flag /\ Flagging # {}))
  /\ UNCHANGED <<oauth, rows, raced>>

-----------------------------------------------------------------------------
(* Requests of the orgs' pages *)

CreateOrg(t) ==
  /\ \E flag \in BOOLEAN : Start(t, "create", None, flag, "insert")
  /\ crossed' = (crossed \/ (req'[t].flag /\ Flagging # {}))
  /\ UNCHANGED <<oauth, rows, raced>>

\* update_org with is_default
MakeDefault(t, o) ==
  /\ o \in There
  /\ Start(t, "default", o, TRUE, "flush")
  /\ crossed' = (crossed \/ \E u \in Flagging : req[u].kind \in Creations)
  /\ UNCHANGED <<oauth, rows, raced>>

\* update_org with credentials: they are decrypted, completed and encrypted again.
UpdateCredentials(t, o) ==
  /\ o \in There
  /\ Start(t, "credentials", o, FALSE, "flush")
  /\ raced' = IF Writing(o) # {} THEN raced \union {o} ELSE raced
  /\ UNCHANGED <<oauth, rows, crossed>>

\* validate_org reads the credentials and asks Salesforce who the user is.
Validate(t, o) ==
  /\ o \in There
  /\ Start(t, "validate", o, FALSE, "check")
  /\ raced' = IF Writing(o) # {} THEN raced \union {o} ELSE raced
  /\ UNCHANGED <<oauth, rows, crossed>>

\* Only an answer that names the user has the credentials written.
Checked(t) ==
  /\ req[t].pc = "check"
  /\ \/ req' = [req EXCEPT ![t].pc = "flush"]
     \/ req' = [req EXCEPT ![t] = Over(t, "done")]
  /\ UNCHANGED <<oauth, rows, history>>

\* delete_org of an org no execution refers to
DeleteOrg(t, o) ==
  /\ o \in There
  /\ Start(t, "delete", o, FALSE, "flush")
  /\ UNCHANGED <<oauth, rows, history>>

-----------------------------------------------------------------------------
(* The transaction *)

Go(t, place) == req' = [req EXCEPT ![t].pc = place]
Hold(t, os) == holder' = [o \in Orgs |-> IF o \in os THEN t ELSE holder[o]]
Free(t, o) == holder[o] \in {None, t}

\* SalesforceOrgRepository.create; only _apply_default_flag looks at other rows.
Insert(t) ==
  /\ req[t].pc = "insert"
  /\ Hold(t, {t})
  /\ Go(t, IF req[t].flag THEN "clear" ELSE "commit")
  /\ UNCHANGED <<oauth, org, history>>

\* A row that is the default already is not written.
Dirty(t) == req[t].kind # "default" \/ ~req[t].seen.default

Flush(t) ==
  LET o == req[t].on
  IN /\ req[t].pc = "flush"
     /\ org[o].there /\ (Dirty(t) => Free(t, o))
     /\ Hold(t, IF Dirty(t) THEN {o} ELSE {})
     /\ Go(t, IF req[t].flag THEN "clear" ELSE "commit")
     /\ UNCHANGED <<oauth, org, history>>

\* MUTANT: a new org leaves the others alone
OthersOfUpdate(t) == IF req[t].kind \in Creations THEN {} ELSE There \ {t, req[t].on}

\* clear_default_for_project: the rows that are committed now, but the request's own
Others(t) == There \ {t, req[t].on}

Clear(t) ==
  /\ req[t].pc = "clear"
  /\ req' = [req EXCEPT ![t].pc = "locks", ![t].aim = Others(t)]
  /\ UNCHANGED <<oauth, rows, history>>

\* ... each of which it waits for; one that was deleted meanwhile is passed over.
Lock(t) ==
  /\ req[t].pc = "locks"
  /\ \A o \in req[t].aim \intersect There : Free(t, o)
  /\ Hold(t, req[t].aim \intersect There)
  /\ req' = [req EXCEPT ![t].pc = "commit", ![t].aim = {}]
  /\ UNCHANGED <<oauth, org, history>>

\* MUTANT: credentials are replaced by the ones that were sent
WrittenAlone(t) == IF req[t].kind = "credentials" THEN {t} ELSE req[t].seen.updates

\* What the writers leave in the credentials: what they read, and their own.
Written(t) == req[t].seen.updates \union (IF req[t].kind = "credentials" THEN {t} ELSE {})

After(t, o) ==
  CASE o = t /\ req[t].kind \in Creations -> [NoRow EXCEPT !.there = TRUE, !.default = req[t].flag]
    [] o = req[t].on /\ req[t].kind = "default" -> [org[o] EXCEPT !.default = TRUE]
    [] o = req[t].on /\ req[t].kind \in Writers -> [org[o] EXCEPT !.updates = Written(t)]
    [] o = req[t].on /\ req[t].kind = "delete" -> NoRow
    [] OTHER -> [org[o] EXCEPT !.default = FALSE]

\* The response of a callback has the page forget the state, unless it was closed.
Commit(t) ==
  /\ req[t].pc = "commit"
  /\ org' = [o \in Orgs |-> IF holder[o] = t THEN After(t, o) ELSE org[o]]
  /\ holder' = [o \in Orgs |-> IF holder[o] = t THEN None ELSE holder[o]]
  /\ req' = [req EXCEPT ![t] = Over(t, "made")]
  /\ stored' \in IF req[t].kind = "callback" THEN {stored, None} ELSE {stored}
  /\ UNCHANGED <<flow, history>>

Release(ts) ==
  /\ holder' = [o \in Orgs |-> IF holder[o] \in ts THEN None ELSE holder[o]]
  /\ req' = [t \in Requests |-> IF t \in ts THEN Over(t, "done") ELSE req[t]]
  /\ UNCHANGED <<org, history>>

\* An exception rolls it back: Salesforce refused the code, the row is gone, a deadlock.
RollBack(t) ==
  /\ Busy(t)
  /\ Release({t})
  /\ UNCHANGED oauth

\* The backend stops and starts: flows and requests under way are lost.
Restart ==
  /\ flow' = [f \in Flows |-> IF flow[f].state = "pending" THEN [flow[f] EXCEPT !.state = "gone"]
                                                           ELSE flow[f]]
  /\ Release({t \in Requests : Busy(t)})
  /\ UNCHANGED stored

-----------------------------------------------------------------------------
Next ==
  \/ \E f \in Flows : StartFlow(f) \/ SentBack(f) \/ Expire(f)
  \/ \E t \in Requests, f \in Flows : PostCallback(t, f)
  \/ \E t \in Requests, o \in Orgs :
       MakeDefault(t, o) \/ UpdateCredentials(t, o) \/ Validate(t, o) \/ DeleteOrg(t, o)
  \/ \E t \in Requests :
       \/ CreateOrg(t) \/ Pop(t) \/ Exchange(t) \/ Checked(t) \/ Insert(t) \/ Flush(t) \/ Clear(t)
       \/ Lock(t) \/ Commit(t) \/ RollBack(t)
  \/ Restart

Spec == Init /\ [][Next]_vars

-----------------------------------------------------------------------------
(* Properties *)

OrgsTypeOK ==
  /\ flow \in [Flows -> [state : {"new", "pending", "gone"}, back : BOOLEAN]]
  /\ stored \in Flows \union {None}
  /\ org \in [Orgs -> [there : BOOLEAN, default : BOOLEAN, updates : SUBSET Requests]]
  /\ holder \in [Orgs -> Requests \union {None}]
  /\ \A t \in Requests : req[t].kind \in Kinds /\ req[t].pc \in Places /\ req[t].aim \subseteq Orgs
  /\ crossed \in BOOLEAN /\ raced \subseteq Orgs

Made(f) == {t \in Requests : req[t].pc = "made" /\ req[t].kind = "callback" /\ req[t].on = f}

\* However often the callback page is loaded and reloaded, before the exchange ends, after a crash
\* or after a failure, a flow creates one org at most.
OneOrgPerFlow == \A f \in Flows : Cardinality(Made(f)) <= 1

\* A project has one default org at most, unless the creation of a default overlapped another
\* request about it: the update that clears the others does not see rows that are not committed.
OneDefault == ~crossed => Cardinality(Defaults) <= 1

\* An update of credentials that was answered is in what is stored, unless another update or a
\* validation that had read the credentials before wrote them after it.
UpdatesKept ==
  \A t \in Requests : req[t].pc = "made" /\ req[t].kind = "credentials" =>
    LET o == req[t].on IN org[o].there /\ o \notin raced => t \in org[o].updates

=============================================================================
