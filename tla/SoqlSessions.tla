---------------------------- MODULE SoqlSessions ----------------------------
(***************************************************************************)
(* The sessions with which queries are sent to the REST API of one         *)
(* Salesforce org (salesforce_query.py): the one of the browser a run has  *)
(* open, or one from the cache of the process, which a lock protects       *)
(* while somebody logs in; and the second try of a query that was refused. *)
(*                                                                         *)
(* Sessions are numbered as Salesforce issues them.                        *)
(***************************************************************************)
EXTENDS Naturals, FiniteSets

CONSTANTS
  Queries,
  Browsing,  \* queries of a run, with a page that is logged in; the others come from the API
  MaxIssued, \* bound: sessions issued
  Nobody

SessionsAssumption ==
  /\ Browsing \subseteq Queries /\ Nobody \notin Queries
  /\ MaxIssued \in Nat /\ MaxIssued >= 2

VARIABLES
  auth,    \* how the org is connected: "credentials", "oauth", or "refresh", OAuth with a refresh token
  cache,   \* _token_cache of the org; 0 for none
  lock,    \* the query that holds _token_lock
  query,   \* of each query: where it is, its session, the one that was refused, its access token
  alive,   \* sessions Salesforce accepts
  issued,  \* sessions issued so far
  logins,  \* logins and refreshes (history)
  dropped  \* times the cached session ran out or was invalidated (history)

vars == <<auth, cache, lock, query, alive, issued, logins, dropped>>

Stored == 1  \* the access token in the database
Sid == 2     \* the session of the browser

Init ==
  /\ auth \in {"credentials", "oauth", "refresh"}
  /\ cache = 0 /\ lock = Nobody
  /\ query = [q \in Queries |-> [pc |-> "resolve", session |-> 0, refused |-> 0, token |-> Stored]]
  /\ alive \in SUBSET {Stored, Sid}
  /\ issued = 2 /\ logins = 0 /\ dropped = 0

Again(q) == query[q].refused # 0
\* the second try of an OAuth org with a refresh token
Forced(q) == Again(q) /\ auth = "refresh"

\* _resolve_session: the browser comes first.
Resolve(q) ==
  /\ query[q].pc = "resolve"
  /\ query' = [query EXCEPT ![q] = IF q \in Browsing THEN [@ EXCEPT !.pc = "send", !.session = Sid]
                                                     ELSE [@ EXCEPT !.pc = "lock"]]
  /\ UNCHANGED <<auth, cache, lock, alive, issued, logins, dropped>>

Enters(q) == query[q].pc = "lock" /\ lock = Nobody

\* _get_session, up to its first call of Salesforce
UseCached(q) ==
  /\ Enters(q) /\ cache # 0 /\ ~Forced(q)
  /\ query' = [query EXCEPT ![q].pc = "send", ![q].session = cache]
  /\ UNCHANGED <<auth, cache, lock, alive, issued, logins, dropped>>

UseStored(q) ==
  /\ Enters(q) /\ cache = 0 /\ auth # "credentials" /\ ~Forced(q)
  /\ cache' = query[q].token
  /\ query' = [query EXCEPT ![q].pc = "send", ![q].session = query[q].token]
  /\ UNCHANGED <<auth, lock, alive, issued, logins, dropped>>

BeginLogin(q) ==
  /\ Enters(q) /\ ((cache = 0 /\ auth = "credentials") \/ Forced(q))
  /\ lock' = q
  /\ query' = [query EXCEPT ![q].pc = "login"]
  /\ UNCHANGED <<auth, cache, alive, issued, logins, dropped>>

\* _soap_login or refresh_oauth_access_token; the new token is not stored in the database.
LoggedIn(q) ==
  /\ query[q].pc = "login" /\ issued < MaxIssued
  /\ issued' = issued + 1 /\ alive' = alive \union {issued'} /\ logins' = logins + 1
  /\ cache' = issued' /\ lock' = Nobody
  /\ query' = [query EXCEPT ![q].pc = "send", ![q].session = issued', ![q].token = issued']
  /\ UNCHANGED <<auth, dropped>>

LoginFails(q) ==
  /\ query[q].pc = "login"
  /\ lock' = Nobody
  /\ query' = [query EXCEPT ![q].pc = "failed"]
  /\ UNCHANGED <<auth, cache, alive, issued, logins, dropped>>

Answered(q) ==
  /\ query[q].pc = "send" /\ query[q].session \in alive
  /\ query' = [query EXCEPT ![q].pc = "answered"]
  /\ UNCHANGED <<auth, cache, lock, alive, issued, logins, dropped>>

\* MUTANT: the refused session stays in the cache
InvalidateNothing == cache
\* _invalidate
Invalidate == 0

\* A first 401 drops the session of the org, whoever put it there, and the query tries again.
Refused(q) ==
  /\ query[q].pc = "send" /\ query[q].session \notin alive /\ ~Again(q)
  /\ cache' = Invalidate /\ dropped' = dropped + 1
  /\ query' = [query EXCEPT ![q].pc = IF auth = "refresh" THEN "lock" ELSE "resolve",
                            ![q].refused = query[q].session]
  /\ UNCHANGED <<auth, lock, alive, issued, logins>>

RefusedAgain(q) ==
  /\ query[q].pc = "send" /\ query[q].session \notin alive /\ Again(q)
  /\ query' = [query EXCEPT ![q].pc = "failed"]
  /\ UNCHANGED <<auth, cache, lock, alive, issued, logins, dropped>>

\* _SessionToken.is_valid no longer: 30 minutes have passed.
RunsOut ==
  /\ cache # 0
  /\ cache' = 0 /\ dropped' = dropped + 1
  /\ UNCHANGED <<auth, lock, query, alive, issued, logins>>

\* Salesforce ends a session.
Revoke(s) ==
  /\ s \in alive
  /\ alive' = alive \ {s}
  /\ UNCHANGED <<auth, cache, lock, query, issued, logins, dropped>>

Next ==
  \/ \E q \in Queries :
       \/ Resolve(q) \/ UseCached(q) \/ UseStored(q) \/ BeginLogin(q) \/ LoggedIn(q) \/ LoginFails(q)
       \/ Answered(q) \/ Refused(q) \/ RefusedAgain(q)
  \/ RunsOut
  \/ \E s \in 1..MaxIssued : Revoke(s)

Spec == Init /\ [][Next]_vars

-----------------------------------------------------------------------------
(* Properties *)

SessionsTypeOK ==
  /\ auth \in {"credentials", "oauth", "refresh"}
  /\ cache \in 0..MaxIssued /\ lock \in Queries \union {Nobody}
  /\ query \in [Queries -> [pc : {"resolve", "lock", "login", "send", "answered", "failed"},
                            session : 0..MaxIssued, refused : 0..MaxIssued, token : 1..MaxIssued]]
  /\ alive \subseteq 1..MaxIssued /\ issued \in 0..MaxIssued
  /\ logins \in Nat /\ dropped \in Nat

\* A query that is sent again has another session than the one that was refused, whatever other
\* queries of the org put into the cache or dropped from it meanwhile: where there is something to
\* log in with, and no browser that comes first.
RetryIsFresh ==
  \A q \in Queries : query[q].pc = "send" /\ Again(q) =>
    \/ query[q].session # query[q].refused
    \/ auth = "oauth"
    \/ (q \in Browsing /\ auth # "refresh")

\* Queries that need a session at the same time share one: there is one login at first, and one for
\* each time the cached session ran out or was refused.
LoginsShared == logins <= 1 + dropped

=============================================================================
