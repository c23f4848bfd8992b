# A verification project for ai-qa-agent

The repository is a test-automation server: a FastAPI backend (`src/backend`) turns prose
scenarios into steps, drives a Salesforce page with Playwright, records what happened in a
database and streams events to a React frontend (`src/frontend`). This directory holds TLA+
models of its core, the TLC configurations that check them and TLAPS proofs about them.

Run a model with `tlc -config <X>.cfg <Module>.tla`, a proof with `tlapm <Module>.tla`.

## 1. Inventory

`B` stands for `src/backend/app`.

| Component | State | Operations | Model |
|---|---|---|---|
| Execution control plane (`B/services/execution_service.py`, `execution_registry.py`, `B/repositories/execution_repository.py`, `B/api/v1/executions.py`, `B/automation/browser.py`) | row and report of an execution; `ExecutionRegistry` (stop flags, tasks, browser contexts); asyncio tasks; one SQLAlchemy session per request and task | create, stop, rerun, delete, clear failed, clear history, run, restart of the server | `ExecutionControl` |
| Scenario run (`execution_service.py` 408-587, `B/agents/executor_agent.py`, `validation_agent.py`) | plan, rows of the steps, results of this run, the browser session | run, resume from a step, retry, stop, rerun, edit a step | `ScenarioRun` |
| Execution events (`B/events/manager.py`, the web socket of `executions.py`) | buffer and sockets per execution | connect, replay, publish, disconnect, clear | `EventStream` |
| Test-pack runner (`B/services/test_case_runner.py`) | results of the cases, the runner's key of the identity, the account | run a pack, switch the identity, look up the account, go on after a failure | `TestPackRun` |
| Login resolution (`login_resolver.py`, `identity_selector.py`, `credential_resolver.py`, `recommendation_service.py`) | the session of the browser, its tabs, the identity remembered for the execution | login, login as | `LoginAs`; within a pack `TestPackRun` |
| Page automation: search fields (`B/automation/form_field.py`, `pages/data_change_page.py`) | what the fields show, the open lists, the account last asked for | load, query, enter, select a customer; search and modify a group | `FormLookup` |
| Page automation: other fields and submission (`field_resolver.py`, `form_field.py`, `required_field_filler.py`, `form_validation.py`) | controls and values, the locator hints, what the page answers | set, check, save, submit | `FormFill` |
| Page automation: tabs (`workspace_tab.py`, `pages/customer_lifecycle_page.py`, `app_launcher_page.py`, `data_change_page.py`) | the tabs, the page each object takes for the current one, the pinned form | open queues, create a request, focus, fill | `RequestPages` |
| Account rotation (`account_query_resolver.py`, `account_query_service.py`) | cursor of each query, at most five queries | resolve, create, update, delete | `AccountRotation` |
| Salesforce OAuth and orgs (`salesforce_oauth.py`, `salesforce_service.py`, `salesforce_org_repository.py`) | pending states, rows of orgs with their default flag and credentials | start, call back, create, update, validate, make default, delete | `SalesforceOrgs` |
| Salesforce queries (`salesforce_query.py`) | token cache with its lock | send a query, log in, retry | `SoqlSessions` |
| Folder uploads (`upload_session.py`, `local_upload_service.py`, `upload_normalizer.py`) | sessions in memory, workspace, repository row | start, batch, finalize, archive, expire, delete | `FolderUpload` |
| Knowledge scans (`B/knowledge_engine/scan_service.py`, `B/api/v1/knowledge_engine.py`, `knowledge_cleanup_service.py`) | module rows, entities, graph, vectors | scan, reindex, delete, reset | `KnowledgeScan` |
| Events of the scans (`B/knowledge_engine/events.py`, `scan_stream`) | buffer of a module, queues of its subscribers | publish, subscribe, stream | `ScanEvents` |
| Folders of a repository (`B/knowledge_engine/scanner/repo_scanner.py`, `knowledge_repo_service.py`) | the working copy, the scopes of the modules | discover, suggest, validate, create, scan | `RepoScopes` |
| LLM router (`B/core/brain_llm_router.py`, `llm.py`, `brain_settings_service.py`) | the mode in a row and in a cache, the endpoints | choose a model, read and set the mode, report | `LlmRouter` |
| Workflows, scenario parser and planner of packs (`B/workflows`) | none (pure) | parse, merge, plan | not modelled, see 8 |
| CRUD services, authentication, reports and exports, agents' prompts, Neo4j writer, most of the frontend | | | not modelled, see 8 |

How they interact. A request handler commits the row and then calls
`schedule_execution_run`, which creates an asyncio task and puts it in the registry. The task
runs `ExecutionService.run_execution` on a session of its own: plan, browser, step loop, verdict, report;
every step publishes events, which the event manager sends to the sockets of the execution.
Stop meets the task in three places: a flag that the task polls, `task.cancel()`, and the
closing of its browser context. Everything is one process and one event loop, so the
interleaving is at awaits; the database is the only thing that survives a restart.

What is hard in it, component by component (the full list, with lines, is `hazards` in
`PROJECT.json`), and what makes it correct:

- *Control*: three ways of telling a task to stop race with the task's own commits; sessions
  write what they loaded long ago; registry entries are dropped by execution id, whoever owns
  them; `CancelledError` is not an `Exception`, so a stopped task commits nothing. Correct
  means: no execution stays QUEUED or RUNNING with nobody to finish it; stop finds the task; a
  verdict has its report; a stopped execution stays stopped; everything comes to rest.
- *Scenario run*: two nested retries (attempts in `execute`, rounds of `executor_node`), skips
  of steps that passed in an earlier run, a bootstrap that repeats the login steps. Correct
  means: steps are executed in order, as often as the limits allow, a row says PASSED only if
  its step was done, a failure ends the loop and reaches the verdict, runs end.
- *Events*: a socket is served from the buffer and directly, while publishers, other sockets,
  the trimming of the buffer and disconnects interleave. Correct means: nothing twice,
  nothing lost while connected, a publisher's events in order, dead sockets forgotten.
- *Test pack and login*: the cases share one browser, and who it is logged in as is remembered in
  two keys, and shown by a banner, that all go stale when a login fails half-way or the session ends; cases
  fail, raise or are blocked and the pack goes on. Correct means: a case that passed was executed as the user
  and on the account it was meant for (where a stale banner may break this, see 6), and the verdict covers
  every case.
- *Login as*: the tabs share a session and keep showing the one they were rendered with; the
  button is looked for on four routes, and a banner is the only witness. Correct means: a step that passes
  has brought the browser to its user.
- *Page automation*: everything the page shows may come late, twice or never, and is polled by loops in
  rounds in attempts, each with its counter. Correct means: the account that was asked for is the one on
  the form, a form is filled in the tab of its request, one request per submission, and each step ends.
- *Account rotation*: read, use, write of a cursor with awaits between, and a check before an insert.
  Correct means: accounts are used in turn, the limit of queries holds.
- *Salesforce*: late, repeated and lost callbacks; a default flag that is cleared in the other rows; credentials
  in one encrypted column; a token cache shared by the queries of an org. Correct means: one org per flow, one
  default per project, no update lost, a refused session not sent again.
- *Uploads*: expiry during a batch, failures during finalisation, deletion and restart in between. Correct
  means: what can be scanned is the whole folder.
- *Repository folders*: a scope is repaired whenever it is used. Correct means: the module keeps the folder it was
  created for, and what is offered can be used.
- *LLM router*: the choice of an endpoint, and the report of what is available, follow different code. Correct
  means: what is configured is found, what is reported available is what is called (which the code does not do for
  three roles, see 6), the mode that was set is used.
- *Knowledge scans*: one scan writes to three databases that share no transaction, any step
  may fail, and a second job or a deletion of the module may come in between. Correct means: rows,
  graph and vectors of a COMPLETED module are of one scan, a deleted module leaves nothing, whoever
  listens hears of the end, no module stays SCANNING. The events have queues of their own, with
  a buffer that outlives the scan; they follow one another without a gap.

## 2. Plan

Order: what loses a run or its outcome first.

1. `ExecutionControl` with `ExecutionControl_proofs` — done.
2. `ScenarioRun`, the abstract `OrderedRun` it implements, and `ScenarioRun_proofs` — done.
3. `EventStream` with `EventStream_proofs` — done.
4. `TestPackRun`, which implements `OrderedRun` too, and `TestPackRun_proofs` — done.
5. `KnowledgeScan` with `KnowledgeScan_proofs` — done.
6. Page automation: `LoginAs`, `FormLookup`, `FormFill`, `RequestPages`, put side by side in `PageAutomation`,
   with `Automation_proofs` — done.
7. The other services: `AccountRotation`, `SalesforceOrgs`, `SoqlSessions`, `FolderUpload`, `ScanEvents`,
   `LlmRouter`, `RepoScopes`, put side by side in `Services`, with `Services_proofs` and
   `SalesforceOrgs_proofs` — done.
8. Left: merging of workflow steps and planning of a pack as operators against reference definitions; the
   abstract specification of the event stream, a per-socket FIFO of a suffix of the published events, and the proof
   that the stream implements it.

Compositions: `ScenarioRun` is what `ExecutionControl` does between `OpenContext` and
`EndSteps`. `OrderedRun` is what a run promises about its steps (one by one, in order, PASSED only
when all are done); it is a PROPERTY of `ScenarioRun` and of `TestPackRun`, each under a refinement mapping.
`LoginAs` is what `TestPackRun` does in its step `loginAs`; `FormLookup` and `FormFill` are what happens
inside the form whose tab `RequestPages` looks for; `ScanEvents` carries what `KnowledgeScan` announces.
These pairs are not composed: what one asks of the other is a free choice in it.

Theorems worth proving: the safety invariants of each component by an inductive strengthening,
and the step simulation of each refinement. Modules to be proved about use no recursive operators.

## 3. Modules and the code

An action is the code between two awaits, because only there does the event loop let others
run. Where a read of the database, a commit or a cancelled await matters, it is a step of its own.
`map` in `PROJECT.json` gives the lines of each definition. Operators whose comment begins with
"Mutant" are deliberate corruptions of the definition that follows them; they are used by
no specification and only show that a property can fail.

### ExecutionControl

One execution (registry entries and rows are keyed by its id, so executions do not influence one
another), any number of requests and tasks.

| Variable | Code |
|---|---|
| `row` | the committed `executions` row (status) and whether a `reports` row exists |
| `pc[t]` | the await at which the background task `t` is suspended |
| `loaded[t]`, `req[r].seen` | the status in the identity map of the session of a task or request; `expire_on_commit=False` keeps it there |
| `killed[t]` | `task.cancel()` was called and `CancelledError` is not delivered yet |
| `cancelled`, `taskReg`, `contextReg` | the dictionaries of `ExecutionRegistry` |
| `open` | browser contexts that are open, registered or not |
| `clients` | the manner of the clients, fixed in a behaviour: "any" order of requests, "page" (only what the execution page offers), "serial" (one request at a time) |
| `overlapped`, `crashes` | history and bound, not in the code |

`Flushed` is SQLAlchemy's UPDATE: a column that the session does not see changing is not
written. Requests: `CreateExecution`, `LoadExecution` (the handlers load the row before they
look at it), `StopSignal`/`StopFinalize` around the awaited close of the context,
`RerunReset`/`RerunCommit` around the DELETE of the report (which locks it: `ReportLocked`), `ScheduleRun`
after the commit, `DeleteRows`. The task: `BeginRun` .. `LeaveTask`, with one `Kill*` action
per region of exception handlers, since `CancelledError` runs `finally` blocks and no
`except Exception`. `Restart` loses everything but `row`.

### ScenarioRun

What a run does with the plan: `FirstOpen` (`start_index`), `BootstrapStep` for the login
steps of a resumed run, `LoopStep`/`LoopSkip`/`LoopDone`, `AttemptPasses`/`AttemptFails`/`GiveUp`
for `StepExecutor.execute`, `ExecuteFails` for `executor_node`'s rounds, `WriteRow` for the
row of the step (which gets the status of the last result, whichever step it is of), `Validate` for the
verdict, `RunError`, `Stop`, and between runs `RerunAll`, `RerunFrom`, `EditStep`. The outcome of
an attempt is a free choice: the page automation and the model behind it are not modelled.

`OrderedRun` has three variables, `status`, `todo` and `done`. `ScenarioRun` implements it with
`todo` as `MainSteps`, `done` as the main-loop steps that passed in this browser, and `status` as
itself (`InOneGo`): retries, rounds, skips, the repeated login steps and the rows are
invisible there, and a stop, an error or a verdict may come at any point, PASSED only at the end.

### TestPackRun

One run of a pack; the runner, its context and its cache of the identity belong to the run.

| Variable | Code |
|---|---|
| `pack`, `query` | the target that `_resolve_login_target` returns for each case (a free choice), and whether the execution has an account query |
| `pc` | the await of the runner: `login`/`open` (navigation steps, once), `identity`, `relogin`, `loginAs` (`_ensure_impersonation`), `account`, `steps`, `reset` |
| `results` | one record per case that ended |
| `key`, `cacheKey` | `_current_impersonation_key` of the runner and `current_identity_key` of the `LoginResolver` cache, which are written at different moments |
| `navigated`, `resolved` | `_navigated`, `resolved_account` |
| `user` | whose session the browser has; not in the code, it is Salesforce's |
| `shown`, `tabs` | the session for which the runner's page was loaded, and those for which any tab was; a page keeps showing it, with its banner, until something is loaded there |
| `at`, `failed` | the step of the case, `tc_failed` |
| `actors`, `stale` | history: as whom the steps of the case were executed; that it believed the banner of an earlier session |

`StartCase`/`BlockCase` begin a case, `IdentityKnown`, `IdentityNew`, `IdentityChanges`, `Relogin` and
`LoginAs` are the branches of `_ensure_impersonation`, `Leftover` is what an attempt that does not pass
may leave behind (a click on Login that worked and was not recognised), `CaseRaises` the
`except Exception` around a case. `SessionEnds` may happen at any time. `Stop` is one step: the flag, `task.cancel()`
and the close of the context come without an await between them; `Close` forgets browser and runner, as at each end.
Of Salesforce it is assumed that the tabs of a context share one session, and that a tab shows the session it was
loaded with. `login_as` clicks Login in a tab of its own, so the runner's page goes on showing who was there before;
a step may leave the runner in any tab (`ActivePage`) or load something (`Load`, `Turn`). The banner of a page names
the target if the session the page was loaded for is the target's or a namesake's (`Named`, `Alike`), whoever is logged
in by now. Cases whose own steps log in are left out.
`TestPackRun` implements `OrderedRun` with `todo` as all cases and `done` as those with a result.

### KnowledgeScan

One module; repositories are deleted module by module. What one scan writes is a *generation*, named by
the job that wrote it.

| Variable | Code |
|---|---|
| `status`, `ents` | the committed row of the module ("deleted" without one) and its `knowledge_entities` rows |
| `graph`, `vectors` | the nodes of the module in Neo4j, its collection in Chroma |
| `pc[j]`, `kind[j]` | the await at which job `j` is suspended; a scan, a scan that finds no component (`empty`), a rebuild of the vectors (`reindex`) |
| `sees[j]` | `scan_status` in the identity map of the session of `j` |
| `docs[j]` | the entities `j` holds in memory and indexes |
| `gone[j]`, `put` | the rows `j` has deleted, the jobs that have inserted, not committed yet |
| `cleaner` | how far `cleanup_module_artifacts` is, and whether a part of it failed |
| `announced`, `overlapped`, `crashes` | jobs that published their end; history; bound |

A scan is `Load`, `Sync` (or `SyncFails`), `Mark`, `Extract`, `DeleteOld`/`DeletedOld` (the DELETE, which may wait),
`Insert`, `ClearGraph`, `WriteGraph`, `ResetCollection`, `Index`, `Finish`; a reindex is `Load`, `Mark`,
`ResetCollection`, `Index`, `Finish`. `Raise` goes to the handler, `Fail`, which commits FAILED and with it whatever the
transaction has done; failures to index are caught earlier and lead to the same commit. `Lost` is the
flush that fails because the row of the module is gone. PostgreSQL is modelled by its locks (READ
COMMITTED): rows deleted and not committed block another DELETE of them, and rows inserted and not
committed block the DELETE of the module they refer to. It is assumed that a statement fails only because the row is
gone (no lost connection, no deadlock), that embeddings are configured while jobs run, and that
Chroma refuses to delete a collection only when there is none.

### EventStream

The events of one execution. `Publish` stamps and buffers an event and copies the set of
sockets under the lock; `Send` is one awaited `send_json`; `Connect` copies the buffer, `Replay` sends
from the copy; `Leave` is a client that vanishes, noticed by a later send or by `Disconnect`;
`Finish` clears the buffer; `Cancel` is a publisher whose task is stopped in the middle of a send.

### LoginAs

| Variable | Code |
|---|---|
| `session`, `tabs` | whom the cookies log in; of each page what it shows, whose record, rendered by which session |
| `cur`, `imp`, `routes` | the executor's page, `_impersonation_tab`, the routes tried (`_tried_global_search`, `_tried_classic_url`) |
| `remembered` | `current_identity_key` of the execution |
| `want`, `pc`, `tries`, `attempt`, `left` | the step and where it is |
| `skipped` | the step ended by the remembered identity (history) |

`SkipLogin` is the check of the key and the banner; `Resolve`, `OpenRecord`/`OpenTimeout`, `SurfaceFound`, `UserDetail`,
`GlobalSearch`, `ClassicUrl`, `ClickUserDetail` and `ClickLogin` lead to the button, `ClickElsewhere` is a click on something
else that reads Login, `Ready` and `NotReady` judge the banner, `Retry` is the executor's next attempt.
After `Ready` the resolver's page is the impersonation tab, but the executor at once sets it back to its own, so `cur`
stays on a page the administrator loaded. `StartStep` may begin with a new executor, which has no impersonation tab
(`imp` is 0): a scenario builds one per step, a pack one per case. `Expire` is Salesforce's, and `Browse` stands for
the steps in between, which load something in the executor's page or leave it in another tab. `Alike` says whose name
contains whose.

### FormLookup, FormFill, RequestPages

What the web application does (`ShowRows`, `ShowGroups`, `LoadData`, `NewForm`; `AnswerSubmit`, `FadeAnswer`; `FormLoads`,
`TabOpens`) interleaves with the polls and clicks of the automation, and owes nothing. A step is `StartStep`, the
actions at its places, and the end, passed or failed; what raises goes to `Retry`, which repeats the step while
`max_step_retries` allows.

`FormLookup` has the two search fields: a text, typed or picked (`Confirmed` is `_customer_selected`, which takes any long
text that was not typed for a choice), the open list, the account whose data the form shows, and
`_last_customer_number`. The rows of a list come and go one by one at any moment (`Changed`), so it opens, closes, loads
anew or changes between any two awaits; looking for the row of the account (`MatchRow`) and clicking it (`HitRow`)
are two of them. The click is on a locator, which looks for the text again, so it hits a row of that account, or, when
there is none any more, raises (`MatchPoll`). `LookupClick`, `LookupKeys` and `LookupRefill` are what is tried then: they
take whichever row is there.

`FormFill` has for each label the control it has on the page, and the one the resolver takes it for (`ResolveByHint`,
`ResolveByProbe`, `ResolveByLabel`), since a similar label's control may be found instead. `FillField` is
`fill_missing_fields`; `OutcomeSuccess`, `OutcomeMissing` and `OutcomeUnknown` are the judgement of the page eight
seconds after the click, whether the application has not answered yet, shows its answer, or has shown it and took it
away again. Sales Office has a picker of its own.

`RequestPages` has the tabs and six places that remember one: `executor.page`, the pages of the three page objects,
the pinned form, the scope the form was found in, and the page of `FieldActions`. A look at a tab is an await, and so is
the next one; between them a form may be rendered anew (`FormLoads`) and not be seen. `PinnedSeen`/`PinnedUnseen` and
`SeekTab` are the awaits of `_ensure_active_page`, `FocusPinned`, `FocusTab` and `FocusPins` those of `focus_form`; a search
through the tabs ends with any of those that show a form, or with none (`Resolved`). `lost` is history: a look just
now saw no form in the pinned tab, and what follows is the search. `NewExecutor` is a step of a scenario or a case of a
pack, which begins without a pin; `Sync` are the assignments that follow a tab. Queues, the menu of the new
request, the wait for its tab, and the focus before a field are the steps.

### AccountRotation

`query` is the committed cursor, `run[r]` what a run read and picked, `page` the editor of the query, `creator`
a creation between count, insert and commit, `writer` the transaction that holds the row; `picks`, `overlapped` and
`crowd` are history. `Resolve` computes the pick, `CommitPick` writes the next index, `RollbackPick` is a run that
fails before; `SavePage` writes back what the page loaded, the cursor with it.

### SalesforceOrgs

`flow` and `stored` are a flow's state in memory and in the browser; `org` the committed rows (there, default, the
updates in its credentials), `holder` the row locks, `req` the requests. A request is its transaction:
`Pop` takes the one-shot state, `Exchange` asks Salesforce, `Insert`/`Flush` write, `Clear` takes the flag from the
other rows it sees committed, `Lock` waits for their locks, `Commit` publishes and releases; `RollBack`
and `Restart` may come between any two of them. `crossed` and `raced` are history: overlaps for which nothing is promised.

### SoqlSessions

`cache` and `lock` are `_token_cache` and `_token_lock`, `query[q]` a query with the session it sends and the one that was
refused; sessions are numbers. `Resolve` chooses among the browser's session, the stored one and the
cache; `BeginLogin`/`LoggedIn`/`LoginFails` happen under the lock; `Refused` drops the cache and sends once more. Sessions
run out (`RunsOut`) and are revoked (`Revoke`) at any time.

### FolderUpload

`client`, `batch` are the page, which sends one batch after the other; `request` and `left` the handler; `session` the
entry in memory with its counts; `row` and `path` the row of the repository and its path (with a path it can be
scanned); `files`, `bytes` the workspace. The session commits after the response was
sent (`CommitRow`), so the next request may not see the row (`Visible`). `Expire`, `Restart`, `DeleteRepo` with its later `Clean`
come at any time.

### ScanEvents

One module: `buffer` (trimmed by `Newest`), `queue` of each subscriber (bounded; what does not fit is dropped), `got` what the
stream passed on. `Publish` and `Subscribe` are one step each, as nothing is awaited that could wait once the lock is held.

### LlmRouter

The settings `s` are those of any deployment; `BrainLlm`, `ChatAgentLlm`, `AnalysisLlm`, `VisionLlm`, `AutomationLlm`, `ChatLlm` are
the getters, `Asked`, `AnalysisAsked`, `ChatAsked`, `ScanAsked` what the report asks; `ReportedOf` and `CalledFor` put the two
side by side for each role, and `ReportedByOther` names the three that are reported by another endpoint than they call. A request is `LoadRow`, `CacheLoaded` or `Save`,
`CacheSaved`, then `Ask` per endpoint and `Report`; endpoints come and go in between, and `Expire` is the five seconds.

### RepoScopes

Paths are sequences of names; a folder may have the name of the project's folder (`Root`). `Repair`, `Matches`, `Preflight`, `Suggestions`, `Discovered` are the functions of the scanner;
`Create` and `Scan` apply them to what a request names, on a tree that `Sync` may replace. A path that still begins with
`Root` when it was repaired loses it at the next repair (`CutAgain`); the properties say so and speak of the other folders.

### PageAutomation, Services

Each puts several modules side by side, for any constants. The initial state chooses a part, `part`; the other parts'
variables are 0 and stay so, so the state space is the sum of the parts, not their product. The properties have the names
they have in the modules, under the condition on `part`. A name that two modules use for different things is replaced
in the instance (`Services` calls the records of `SoqlSessions` `soql`, for one). `TypesOK` in each collects the type
invariants; it holds, and is left out of the runs, as it says nothing the others do not rest on.
`MCAutomation` and `MCServices` give the constants small values and add nothing else.

## 4. Runs

| Run | Question | Instance | Distinct states |
|---|---|---|---|
| `control` | does any order of overlapping requests orphan an execution, hide a lone task from stop, lose the report of a verdict, or un-stop an execution? | 2 tasks, 4 requests, every manner of clients | 2,355,341 |
| `control_live` | does every execution come to rest, and does stop end what a restart left behind? | 2 tasks, 3 requests, 1 restart | 265,361 |
| `control_rerun` | finding, see 6 | 2 tasks, 2 requests | |
| `steps` | order, rows, limits and verdict over three runs; does the run implement `OrderedRun`? do runs end? | 4 steps, 1 retry, 3 runs | 701,036 |
| `steps_session`, `steps_skipped` | findings, see 6 | 3 and 4 steps, 2 runs | |
| `pack` | as whom and on what were passed cases executed? does the verdict cover the pack? does the run end? | packs of up to 3 cases of 2 steps, 2 users (one's name in the other's) and none, 2 accounts | 607,211 |
| `pack_admin` | finding, see 6 | 2 cases | |
| `scan` | what do rows, graph and vectors of a module hold after jobs that fail anywhere, overlap, or are overtaken by the deletion? is every end announced? | 3 jobs of every kind, 2 at once, 1 restart | 437,806 |
| `automation` | is the right account picked, the right tab filled, one request created, the right user reached, whatever the pages show and when? do steps end? | see below | 793,740 |
| `services` | are cursors, limits, orgs, defaults, credentials, sessions, uploads, streams, scopes and reports right under overlaps, failures and restarts? | see below | 468,017 |
| `llm_mode` | finding, see 6 | 1 client, 2 requests | |

Bounds. Two tasks and four requests let a request overlap with a second one and with two
tasks, and a third and fourth request follow (a rerun of what a stopped rerun left); each property
relates at most two tasks and two requests. Two runs show what one leaves to the next, three
runs that a row written by a second run is trusted by a third. Four steps are two login steps, one
step to fail and one to be resumed from. Three cases
are one user, a switch to another (or to none) that fails half-way, and the first again, with the page of the
first still open; two steps let the session end between them. Three jobs are one that fails half-way, one
that repairs or completes it and one after that, or two that overlap and a third; the properties relate two jobs and the
deletion; a second restart finds nothing the first one does not.
No symmetry is used.

`automation`. Lookup: two accounts (the one asked for and another), two groups of which one is found by the automatic
query, one poll and two rounds, one retry, two steps (the second meets what the first left). Fill: two fields and
Primary Group, on three layouts that have every control, names contained in each other, two rounds of submit, one retry, one
step. Pages: three tabs (the list, a request, a second request), one poll, one retry, two steps. Login: two users of whom one's name is
part of the other's, three tabs, two attempts at the click, one retry, two steps. More polls repeat what a poll can see; the
properties relate one step to what another left, and one wrong tab, account or user to the right one.

`services`. Stream: two sockets, two publishers, a buffer of one and two events, so that it overflows and a connect,
a publish and a disconnect come in every order. Rotation: three runs, one page, two creators, two
accounts, a limit of two: a full turn of the cursor and one pick more. Orgs: one flow, two requests of any kind, two orgs that exist.
Sessions: three queries, one of them with a browser, and four sessions, so that a retry meets two
other queries. Upload: three batches (first, middle, last) of two files, up to seven bytes, which not all files fit
into. Progress: two streams, two scans of three events, a buffer of two, queues of three: each overflows. Models: 144
deployments, one client with two requests, one endpoint that comes or goes. Scopes: six folders, with a component
inside a component and two packages, one module, one change of the tree.

## 5. Fairness

Weak fairness of each request that was sent and of each task: the event loop resumes every
runnable coroutine, and everything awaited outside of the process (HTTP, language
model, Playwright, database) is called with a timeout and then answers or raises. Clients are
under no obligation to send anything, attempts are under no obligation to pass, and errors are never
forced or excluded. In `TestPackRun` the fairness is that of the run; the end of a session and a stop may never come. In `KnowledgeScan` each job is fair, and git, the
language model, Neo4j and Chroma answer or fail; the cleanup of a deleted module is not fair. In `EventStream` sends to a socket that is there complete, and sends to
one that is gone fail. In `automation` every call to Playwright has a timeout and returns or raises, so the automation
takes its next step (`WF` of `Automation`); the web application is not fair at all, nothing needs ever to appear. Of the
services only the event stream has fairness; the others have no liveness property.

## 6. Findings

Five statements of the code about itself that TLC refutes; each is a run expected to be violated.

- `control_rerun`: "Cannot rerun while execution is running". The guard looks at a status loaded
  earlier. A rerun that loaded QUEUED commits while the first task already runs; two tasks drive two
  browsers for one execution, and the second to start replaces the registry entry of the first.
- `steps_session`: "Fresh browser has no session — always establish OAuth login + Login As first."
  A login step that fails on a resumed run is not tried for another round and does not end the run.
- `steps_skipped`: "If any DB steps are already passed (re-run from a later step), skip them." While
  the executor's node asks for another round, the row of the failing step is given the status of
  the step before it; if the run stops there, a later run skips the step.
- `pack_admin`: "`None` (no impersonation, stay as the admin login)." The way back from an
  impersonated user is a login step, which does nothing when the page shows a session, as it does for
  an impersonated user: the case runs, and passes, as the user of the case before. It does also without that
  step when a login as the user fails after its click: the key is still None, and there seems to be nobody to leave.
- `llm_mode`: the README offers the toggle of the pages as equivalent to `BRAIN_AGENT_MODE`. The mode is kept in a row and,
  for five seconds, in a cache; the calls ask the cache and then the environment, never the row, so a mode that
  was set is used for five seconds after each request of the settings page.

Seen while modelling and not made runs.

In executions: "Execution is not active" is checked before an await and the stop is finalized after it, so a
verdict committed in between becomes CANCELLED, with the report of the verdict; a browser context
stays open when its page cannot be created or when the task is cancelled in `new_page`; a task that is
cancelled before its first step leaves its registry entry behind; a rerun committed before its
task is scheduled takes a stop in between and runs nevertheless, as `run_execution` clears the
flag first; the rerun of a pack from a step creates its rows a second time; baseline resets that fail are
ignored; a pack without cases is PASSED; QUEUED and RUNNING rows of a previous process stay until somebody stops them.

In the scans: two overlapping scans of one module leave its entities twice, as each deletes only the rows it
saw; a scan that fails after its DELETE commits the deletion with its FAILED, so the module has lost its
entities; a reindex, or a scan that finds no component, that is under way when the module is
deleted holds no lock and may write vectors or graph after the cleanup; a reindex makes a module COMPLETED, with
`graph_status` "ready", whose graph a failed scan left empty; a job whose module was deleted
cannot record or announce its failure (its session waits for a rollback), and the streams that follow it send
heartbeats for ever; most failures are announced twice; the buffer of the scan
events is never cleared, so the stream of a second scan replays the end of the first and stops there; a module
whose scan a restart interrupted stays SCANNING until the next job.

On the pages: a step that loads a customer takes the one that is already shown, or a long text, for the one it asked for
(`FormLookup!LoadedIsRequested` does not hold; `LoadPicksWhatItAsked` says for which steps it does), and one that
does not see the row of its account in time falls back to the first row (`missed`); `get_field_value` can read one field only, so a submission that "fills empty required fields"
sets all the others again, over what the steps have set (`FormFill!OnlyEmptyAreFilled` does not hold); an answer that
comes after the judgement, or whose message has gone before it, makes Submit be clicked again, and a second request be
created (`unsure` in `OneRequest`); a praise elsewhere on the page is taken for success. `login_as` is skipped when a banner names the
user, though the page was rendered before the session changed; a namesake's banner passes; `login` does nothing while
any session is shown; each attempt leaves a tab open; after a `login_as` that passed the executor stays in the page the
administrator loaded, and only what is loaded there next is the user's.

In packs: the banner of the runner's page is believed when both keys name the target, and the page may have been loaded for
an earlier session. A case as one user passes; the next one's login as another clicks Login, is not recognised and
fails, which leaves the keys as they are; a third case as the first user then finds keys and banner in agreement
and passes, while its steps are those of the other user. `PassedAsTarget` without its exception (`stale`) does not hold;
with it, it says that this happens only behind a case that did not pass, or that named no user.

In the services: runs that overlap pick one account twice, and a saved page sets the cursor back; creations that overlap pass
the limit, by one each; a default org created while another request about the default runs is a second
default; a validation that refreshes a token overwrites credentials changed since it read them; the part of a file that was
written before it turned out too big stays in the workspace, uncounted; the report of models asks other endpoints than the scan by
NVIDIA in hybrid routing, the local automation and the local vision of the multi mode use (`ReportedByOther`), so each may be
reported available while its server is down, and a GET that loaded the row before a PATCH puts the old mode into the cache after it; local
routing with provider `nvidia` sends the automation to NVIDIA all the same; two packages with the same path below
`force-app` are one scope, and the name of the project's folder is stripped from a path that begins with it each time the path
is repaired, also where it is a folder in the project: a module of such a folder is refused, or gets another one's files.

## 7. Proofs

`ExecutionControl_proofs` proves, for any sets of tasks and requests, any kinds of request and any
number of restarts:

- `TypeCorrect`: `Spec => []TypeOK`.
- `StopReaches`: `Spec => []StopReachesTask`. Inductive with `Overlapping`: two tasks that
  are alive at once are both in `overlapped`. Entries are dropped by id, so without it the end
  of one task could take the entry of another.
- `VerdictReported`: `Spec => []VerdictHasReport`; the property is about clients that send what
  the page offers. Inductive with `GatedReruns`: a rerun under
  way has seen a final status; its commit therefore writes QUEUED and never keeps a verdict
  without the report it deletes.
- `NeverOrphaned`: `Spec => []NoOrphan`. The invariant says who will finish an active row:
  `Covered`, a live task past or before each commit (`UnderWay`), a stop that will finalize what
  it saw (`Pursues`) or a rerun before its schedule; `Unkilled` and `SeenInTime` say that a
  killed task always has the stop that killed it behind it, with an active status in its session.
- `StopStays`: `Spec => StopIsFinal`, for clients that wait for each answer (`OneAtATime`). `Told` is the
  invariant: the stop flag, a stop under way and a row that says CANCELLED each mean that whoever is alive has a
  `CancelledError` waiting or is on its way out (`Stopped`); no task finds the flag by itself (`Calm`), so none writes
  CANCELLED behind a rerun that has loaded something else; and no rerun that is going to schedule a task
  leaves the flag or the CANCELLED row for it. That the stop meets the task is `StopReaches`.

Each is proved by one step per action; TLC checked the strengthened invariants before. The
assumptions on the constants are `NoTaskAssumption` (the value for "no task" is not a task) and
the sets of kinds and manners being subsets of the known ones.

`EventStream_proofs` proves, for any sockets, publishers, capacity and number of events:

- `TypeCorrect`: `Spec => []TypeOK`, whose only interesting part is that trimming keeps the buffer within
  its capacity: a nonempty set of naturals has a least element (`Least`), and what is newer than the
  least of the kept ones is fewer than `Capacity` (`NewestFits`).
- `NothingTwice` and `InPublisherOrder`: `Spec => []AtMostOnce`, `Spec => []PublisherOrder`. Inductive with
  `Buffered` (what a replay holds is older than the connection and not received), `InFlight` (what
  a publisher is sending is its own, younger than the connection and than all that the socket had from
  it), `OneEvent` (one event per publisher at a time, because emits are awaited) and `Untouched`.
- `NothingLost`: `Spec => []NothingMissed`, inductive by itself.

`ScenarioRun_proofs` proves, for any number of steps, any login steps among them, any limit of
retries and any number of runs (`StepsAssumption`, `BootstrapAssumption`, `RetriesAssumption`):

- `TypeCorrect`: `Spec => []TypeOK`. The only lemma about data is that `FirstOpen` exists, also when all
  steps have passed (`FirstOpenExists`, by the well-foundedness of `<`).
- `NeverAhead`, `PassedIsDone`: `Spec => []InOrder`, `Spec => []PassedMeansDone`. The inductive
  invariant `RunInv` relates the program counter to the rest (`Shape`), says that what is behind the
  loop is done and that its rows say PASSED (`Behind`, `AtEnd`), that there is no failed result where the
  loop goes on (`NoFailureYet`), and what the last result is where a row is about to be
  written (`Outcome`). `InOrder` is not inductive alone: the row and the index are written from the last
  result, whichever step it is of.
- `FailureExplained`, `FailureIsLast`: `Spec => FailureIsVisible`, `Spec => NothingAfterFailure`, each step from
  `RunInv`.
- `AttemptsLimited`: `Spec => []AttemptsBounded`. `CountInv` counts: a step not yet reached has no
  main-loop attempts (`Untried`), one at `cur` has `retry[cur]` full rounds and `tries` attempts of the
  present one (`TriedMain`, `TriedBooting`), and the products grow as the limits say (`AttemptsGrow`).
- `RunsInOrder`: `Spec => InOneGo`, by `Simulation`: each step of `ScenarioRun` from a state with `RunInv` is a
  step of `OrderedRun` or leaves its variables alone.

`TestPackRun_proofs` proves, for any number of cases and steps, any users and any accounts
(`CasesAssumption`, `UsersAssumption`: the admin and `None` are not among the users, a name has itself in it):

- `TypeCorrect`: `Spec => []TypeOK`, together with `Place`, what the program counter says of the rest.
- `AsTheTarget`: `Spec => []PassedAsTarget`. Inductive with `IdentityInv`: a case that reaches its account or its
  steps without a failure has the browser as its target, a namesake or nobody, and so far its steps were executed as
  such, or it has believed a stale banner behind a case that did not pass or named nobody (`AsAsked`); before its
  steps none was executed (`Acted`); and while each case before named a user and passed (`Clean`), the keys agree with
  each other and tell who is logged in, unless the session has ended (`KeysTrue`), so that a banner that agrees with
  them is believed for good reason. The mutant that does not look at the banner breaks the property.
- `VerdictCovers`: `Spec => []VerdictCoversPack`; only `Report` needs an argument.
- `SameAccount`: `Spec => []OneAccount`, inductive with `AccountInv`, which ties each passed result to `resolved`
  as long as the runner is there.
- `PackInOrder`: `Spec => CasesInOrder`, by `Simulation`; the end of a case is the abstract `Do` (`EndedOrdered`).

`KnowledgeScan_proofs` proves, for any number of jobs of any kinds, under way at once or not, and any
number of restarts (`JobsAssumption`, `KindsAssumption`, `CrashesAssumption`):

- `TypeCorrect`: `Spec => []TypeOK`, together with `Kinded`: a job has a kind once it is started.
- `EndIsAnnounced`: `Spec => []EndAnnounced`; for each step that ends a job, either it announces or the module
  is gone, and a module that is gone stays so.
- `DeletionIsClean`: `Spec => []DeletedLeavesNothing`. Inductive with `Locks` (a scan that may still write to the graph
  or the vectors has uncommitted rows, and while there are such rows the module exists) and `Cleaned`. The
  mutant that commits the rows before the graph is written breaks it.
- `Generations`, `SearchIsSound`, `GraphIsSound`: `Spec => []OneGeneration`, `Spec => []HitsAreEntities`,
  `Spec => []NodesAreEntities`. All three rest on `OneByOne`: while no two jobs were ever under way at once, the
  one that is (`Alone`) knows the stores (`Knows`): the status is SCANNING from its `Mark` on, the rows it deleted are
  all there are, the graph and the vectors are what it has written since it cleared them.

`SalesforceOrgs_proofs` proves, for any flows, requests and orgs (from `OrgsAssumption`):

- `TypeCorrect`; `FlowMakesOne`: `Spec => []OneOrgPerFlow`, by `TakenOnce`: at most one request has got past `Pop` with
  a flow's state, and then the state is gone for good.
- `DefaultIsSingle`: `Spec => []OneDefault`. `RowInv` says who holds which row (`Locks`), that of
  two updates that make a default one aims at the row of the other or holds it (`Aims`), that a request that makes a default
  reaches every other one (`Covered`), and that there is one default (`Single`), the last two unless a creation crossed another
  request (`Solo`).
- `CredentialsKept`: `Spec => []UpdatesKept`. `WriteInv`: two requests that will write the credentials of the same org
  are the same one unless the org is marked as raced, and whoever will write the credentials of an org that is not
  marked has read what is stored; an org that was made is never made again (`Spent`), so a deletion does not bring an
  old value back.

`Services_proofs` proves the properties of `Services`. `OwnInit` and `OwnStep` say that a state of the service that was
chosen is initial when it should be, and that a step is one of this service or none of it; each theorem then follows from
an invariant of its service (from `ServicesAssumption`, the assumptions of the services). The orgs are taken from
`SalesforceOrgs_proofs` through an instance of it, `OP`, whose definitions are those of `Services` (`Same...`):
`OneOrgOfAFlow`, `OneDefaultOrg`, `UpdatesAreKept`. The others:

- `AccountsInTurn`, `[]RoundRobin`, for any runs and accounts. `InTurn`: while no runs overlapped, one run at most holds
  the query, it has read the cursor that is stored, and account `i` was used `Turns(query, i)` times, the whole rounds
  of the cursor and one more before its remainder. The accounts' use therefore differs by one at most. Inductive with
  `Flushed` (the run that holds the transaction has written its pick).
- `LimitHolds`, `[]LimitByOverlap`, for any creations and any limit. `Room`: the queries and the creations that have
  counted but not committed fit into the limit and the overlap; it counts sets (`FS_CardinalityType` and its kin).
- `ScannedIsWhole`, `[]ScannableIsWhole`, for any batches of any size. `Stored` relates the files on disk to the batch
  the page has reached and to what the handler has left to write, and says that a row with a path has all of them;
  `Places` ties the page to the handler. Without the row nothing is said, as a restart or a deletion may take files away.
- `StreamsAreGapless`, `[]Gapless`, for any buffer and queues it fits into. `Follows`: what waits in a queue ends with the newest
  number, and what was passed on ends where that begins (`UpTo`). It is an invariant of the streams whose
  queue was never full; what a full queue drops is the gap the property speaks of.
- `ScopesKeepFolders`, `OffersHold`: `[]ModuleHasItsFolder`, `[]OffersAreValid`, for any folders, with any names. `Kept` says
  that a scope is the path of its folder from force-app on. It rests on lemmas about paths: keeping that end twice is
  keeping it once (`TailOnce`); dropping the name of the project's folder leaves the end alone unless the end
  begins with it (`NameIsCut`), so such a repair is idempotent (`RepairKeeps`); and the end matches what is in the
  folder or has the same end, and nothing else (`FilesOf`). The folders that are `CutAgain` are left out by the properties.
- `SessionsTypes`, with `Numbered`: every session anybody has was issued. `SecondTryIsFresh`, `[]RetryIsFresh`:
  inductive with `Refreshed`: with credentials, the cache never holds a session that a query being sent again was
  refused with (it was dropped, and what is stored later has a higher number); with a refresh token, the second
  try never goes back to the choice of a session.
- `LoginsCounted`, `[]LoginsShared`, by counting (`LoginsMade`): with credentials, whoever logs in
  holds the lock while the cache is empty; with a token, the logins made and the queries that are about to refresh it
  (`Refreshing`) are no more than the sessions that were dropped.
- `RouterTypes`; `ModelForEach`, `[]ConfiguredHasModel`, from the types, by cases on the settings; `ReportTrue`,
  `[]ReportIsOfTheModelUsed`, with `Answers`: what has answered is among what the mode asks, and what it asks and has not
  asked yet is still to do; then by cases on the role.

`Automation_proofs` proves the properties of `PageAutomation` in the same way, for any accounts, groups, layouts, users,
tabs, polls, retries and steps (`AutomationAssumption`); the web application may show anything at any moment.

- `PinsRequests`, `[]PinnedHasRequest`, and `PinStaysOnForm`, `StayPinned`. `PinInv`: each page an object takes for
  current is a tab (`OpenPages`); a tab that shows a form, or loads one, had a request opened in it (`FormsRequested`),
  and so had the page a module is selected on, at each of the awaits of `focus_form` (`FocusRequested`); a load works on
  the pinned page if there is one, and pins that again (`LoadOnPinned`); the place tells the step (`PlaceOfStep`). That
  a search behind a look at the pinned page has seen no form there is `SeeksAnother`. The theorem is about the pin:
  the pages of the executor and of the page objects go where a request is opened.
- `CreatesOneRequest`, `[]OneRequest`. `ClicksOK`: the requests created and the clicks not answered yet are one more than the
  judgements made too early or too late at most, and not even that while the form is filled again; any other judgement
  has seen the answer.
- `LoginReachesUser`, `ReachesUser`. `LoginInv`: the tabs and what they show (`BrowserOK`), which way a step takes
  (`WaysOK`), and that what is looked at after the click was loaded by the session there is, or by the one that has just
  ended (`ReadyIsCurrent`); the banner that `Ready` reads there is therefore the session's. A step that `SkipLogin` ends is
  not spoken of: it looks at whatever page it is in.
- `LoadsWhatItNames`, `LoadPicksWhatItAsked`. `LoadAt` says for each place of a load, the await between the search for the
  row and the click included, what the field holds: the text of the account, or the account picked; only a picked row is
  confirmed (`OnlyPickedConfirms`). Nothing is assumed of the list, whose rows come and go at each of these places.

Proved and no longer run, as the proofs cover every instance: the type invariants, `InOrder`, `AttemptsBounded`,
`CasesInOrder`, `NodesAreEntities`, `AtMostOnce`, `PublisherOrder`, `LoginsShared`, `ConfiguredHasModel`.

Only model-checked: liveness (`Settles`, `StopEndsOrphan`, `GoneAreForgotten`, `Served`, `ScanningEnds`,
`EveryStepEnds`), which the prover does not handle. Every safety invariant and every action property that a run checks is a
theorem; so are the two refinements of `OrderedRun`.

## 8. Not modelled

- Text: parsers of prose, prompts of the agents and what models answer, reports and their export. Where a
  model or a parser decides something, its outcome is a free choice in the module that calls it.
- Workflows, the merging of their steps and the planning of a pack: pure functions over text; the plan is a
  constant or a free choice of the modules that execute it. They are what the plan has left.
- CRUD of scenarios, projects and workflows, and authentication: single requests whose effect is one row.
- The DOM heuristics below a poll or a click: which selector finds what. A search finds what is there, or
  does not. So `sales_office_field_present`, which ends the wait for a module, is taken for a form that is shown, as
  `_form_visible` is, although only the latter looks at the URL of the tab.
- The Neo4j writer and retrieval of the Code Brain: `KnowledgeScan` has their stores as whole generations.
- The frontend, but for the page of an execution, the OAuth callback, the upload of a folder, the page of the account
  queries and the one that follows a scan.
- A plan that is edited between two runs in its number of steps, several executions that share one browser
  process, steps of a real pack that log in by themselves.
