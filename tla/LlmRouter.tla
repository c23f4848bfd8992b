----------------------------- MODULE LlmRouter -----------------------------
(***************************************************************************)
(* Which model answers what: brain_llm_router.py and llm.py pick an        *)
(* endpoint by the settings and by the agent mode, single or multi.  The   *)
(* mode is a row of the database, set by a toggle of the pages             *)
(* (brain_settings_service.py, api/v1/brain_config.py); the calls read it  *)
(* from a cache that is good for five seconds.  The same routes report     *)
(* which models are available, asking one endpoint after the other while   *)
(* they come and go.                                                       *)
(***************************************************************************)
EXTENDS Naturals, FiniteSets

CONSTANTS
  Deployments, \* the settings, of the environment, the program may run with
  Clients,     \* requests to /config/brain that are under way at once
  Changes,     \* bound: endpoints that come up or go down
  MaxCalls,    \* bound: requests
  None         \* no mode

Modes == {"single", "multi"}
\* NVIDIA's and OpenAI's, and LM Studio's: the general one, the Code Brain's, RCA's and vision's
Endpoints == {"nvidia", "openai", "base", "brain", "rca", "vision"}
Settings == [routing : {"hybrid", "local", "cloud"},
             key : BOOLEAN,                            \* nvidia_api_key
             scan : {"nvidia", "lmstudio"},            \* scan_llm_provider
             provider : {"nvidia", "openai", "lmstudio"},\* llm_provider
             openai : BOOLEAN,                         \* openai_api_key
             rca : BOOLEAN, vision : BOOLEAN,          \* lmstudio_rca_api_base, lmstudio_vision_api_base
             mode : Modes]                             \* brain_agent_mode

RouterAssumption ==
  /\ Deployments \subseteq Settings
  /\ Changes \in Nat /\ MaxCalls \in Nat
  /\ None \notin Modes

VARIABLES
  s,       \* the settings
  up,      \* the endpoints that answer
  row,     \* the mode of the row brain_settings; None before there is one
  cached,  \* the mode of _agent_mode_cache, None without one or after five seconds
  pc,      \* where a request is
  want,    \* the mode a PATCH sets; None for a GET
  held,    \* the mode of the row it loaded, then the one it reports on
  todo,    \* the endpoints it has not asked yet
  ok,      \* those that answered it
  changes, calls

vars == <<s, up, row, cached, pc, want, held, todo, ok, changes, calls>>

-----------------------------------------------------------------------------
(* The choice of a model *)

Cloud == s.routing \in {"hybrid", "cloud"}
OnNvidia == Cloud /\ s.key

\* get_agent_mode_sync
AgentMode == IF cached # None THEN cached ELSE s.mode

\* get_brain_llm, get_scan_llm
BrainLlm == IF OnNvidia THEN "nvidia" ELSE "brain"

\* get_chat_agent_llm
ChatAgentLlm == IF ~OnNvidia /\ s.routing = "cloud" THEN "none" ELSE BrainLlm

\* get_analysis_llm, get_rca_llm
AnalysisLlm(mode) ==
  IF mode = "multi" /\ ~OnNvidia /\ s.rca THEN "rca" ELSE BrainLlm

\* get_vision_llm
VisionLlm(mode) ==
  IF mode = "multi" /\ ~OnNvidia /\ s.vision THEN "vision" ELSE BrainLlm

\* The provider a single setting names.
ProviderLlm ==
  CASE s.provider = "lmstudio" -> "base"
    [] s.provider = "nvidia" /\ s.key -> "nvidia"
    [] s.provider = "nvidia" /\ ~s.key -> "none"
    [] s.provider = "openai" -> IF s.openai THEN "openai" ELSE "none"

\* get_automation_agent_llm; get_automation_llm finds nothing more
AutomationLlm ==
  IF OnNvidia THEN "nvidia"
  ELSE IF ProviderLlm = "none" /\ s.openai THEN "openai" ELSE ProviderLlm

\* get_chat_llm
ChatLlm == IF Cloud /\ ChatAgentLlm # "none" THEN ChatAgentLlm ELSE ProviderLlm

\* is_llm_configured
Configured == IF Cloud THEN s.key \/ s.provider = "lmstudio" ELSE ProviderLlm # "none"

\* get_embeddings
Embeddings ==
  IF Cloud \/ s.provider = "lmstudio" THEN "base" ELSE IF s.openai THEN "openai" ELSE "none"

\* is_scan_llm_available: what a scan asks before it lets a model summarise
ScanAsks ==
  CASE Cloud /\ s.scan = "nvidia" /\ s.key -> "nvidia"
    [] s.scan = "lmstudio" -> "brain"
    [] s.scan = "nvidia" /\ ~OnNvidia -> "none"

-----------------------------------------------------------------------------
(* The report: check_brain_llm_health *)

\* What it asks, depending on the mode it starts with.
Asked(mode) ==
  {"base"} \union (IF OnNvidia THEN {"nvidia"} ELSE {})
    \union (IF s.routing = "hybrid" /\ s.scan = "nvidia" THEN {} ELSE {"brain"})
    \union (IF s.routing = "local" /\ mode = "multi"
            THEN (IF s.rca THEN {"rca"} ELSE {}) \union (IF s.vision THEN {"vision"} ELSE {})
            ELSE {})
Order == <<"base", "nvidia", "brain", "rca", "vision">>
First(S) == Order[CHOOSE i \in 1..5 : Order[i] \in S /\ \A j \in 1..i - 1 : Order[j] \notin S]

\* MUTANT: the report of the analysis forgets RCA's own server
AnalysisAskedAsBrain(mode) == IF Cloud THEN "nvidia" ELSE "brain"

\* analysis_available, and rca_available and vision_available with it
AnalysisAsked(mode) ==
  IF Cloud THEN "nvidia" ELSE IF mode = "multi" /\ s.rca THEN "rca" ELSE "brain"

\* chat_available, and automation_available with it
ChatAsked == IF Cloud THEN "nvidia" ELSE "brain"

\* scan_available, brain_available
ScanAsked == IF s.routing = "cloud" \/ (s.routing = "hybrid" /\ s.scan = "nvidia") THEN "nvidia" ELSE "brain"

Roles == {"scan", "chat", "analysis", "vision", "automation"}

\* The endpoint whose answer is reported for a role ...
ReportedOf(role, mode) ==
  CASE role = "scan" -> ScanAsked
    [] role \in {"chat", "automation"} -> ChatAsked
    [] role \in {"analysis", "vision"} -> AnalysisAsked(mode)

\* ... and the one its calls go to.
CalledFor(role, mode) ==
  CASE role = "scan" -> BrainLlm
    [] role = "chat" -> ChatAgentLlm
    [] role = "analysis" -> AnalysisLlm(mode)
    [] role = "vision" -> VisionLlm(mode)
    [] role = "automation" -> AutomationLlm

\* What must answer lest the report be one of a degraded system.
Needed(mode) ==
  CASE s.routing = "hybrid" -> {"nvidia", "base"}
    [] s.routing = "cloud" -> {"nvidia"}
    [] s.routing = "local" ->
         {"brain"} \union (Asked(mode) \intersect {"rca", "vision"})

-----------------------------------------------------------------------------
Init ==
  /\ s \in Deployments
  /\ up \in {Endpoints, Endpoints \ {"nvidia"}, {}}
  /\ row = None /\ cached = None
  /\ pc = [c \in Clients |-> "idle"]
  /\ want = [c \in Clients |-> None] /\ held = [c \in Clients |-> None]
  /\ todo = [c \in Clients |-> {}] /\ ok = [c \in Clients |-> {}]
  /\ changes = 0 /\ calls = 0

\* A server is started or stopped.
ServerChanges ==
  /\ changes < Changes
  /\ \E e \in Endpoints : up' = IF e \in up THEN up \ {e} ELSE up \union {e}
  /\ changes' = changes + 1
  /\ UNCHANGED <<s, row, cached, pc, want, held, todo, ok, calls>>

\* Five seconds without a request to the settings.
Expire ==
  /\ cached # None /\ \A c \in Clients : pc[c] = "idle"
  /\ cached' = None
  /\ UNCHANGED <<s, up, row, pc, want, held, todo, ok, changes, calls>>

Step(c, from, to) == pc[c] = from /\ pc' = [pc EXCEPT ![c] = to]

\* GET or PATCH, which both load the row (get_brain_settings), and make it when there is none.
LoadRow(c) ==
  /\ calls < MaxCalls /\ calls' = calls + 1
  /\ Step(c, "idle", "loaded")
  /\ \E m \in Modes \union {None} : want' = [want EXCEPT ![c] = m]
  /\ row' = IF row = None THEN s.mode ELSE row
  /\ held' = [held EXCEPT ![c] = row']
  /\ UNCHANGED <<s, up, cached, todo, ok, changes>>

\* The cache gets what was loaded.
CacheLoaded(c) ==
  /\ Step(c, "loaded", IF want[c] = None THEN "health" ELSE "save")
  /\ cached' = held[c]
  /\ UNCHANGED <<s, up, row, want, held, todo, ok, changes, calls>>

\* update_agent_mode
Save(c) ==
  /\ Step(c, "save", "saved")
  /\ row' = want[c]
  /\ UNCHANGED <<s, up, cached, want, held, todo, ok, changes, calls>>

CacheSaved(c) ==
  /\ Step(c, "saved", "health")
  /\ cached' = want[c]
  /\ UNCHANGED <<s, up, row, want, held, todo, ok, changes, calls>>

BeginHealth(c) ==
  /\ Step(c, "health", "asking")
  /\ held' = [held EXCEPT ![c] = AgentMode]
  /\ todo' = [todo EXCEPT ![c] = Asked(AgentMode)]
  /\ ok' = [ok EXCEPT ![c] = {}]
  /\ UNCHANGED <<s, up, row, cached, want, changes, calls>>

\* _check_lmstudio, _check_nvidia
Ask(c) ==
  /\ pc[c] = "asking" /\ todo[c] # {}
  /\ LET e == First(todo[c])
     IN /\ todo' = [todo EXCEPT ![c] = @ \ {e}]
        /\ ok' = [ok EXCEPT ![c] = @ \union ({e} \intersect up)]
  /\ UNCHANGED <<s, up, row, cached, pc, want, held, changes, calls>>

Report(c) ==
  /\ todo[c] = {}
  /\ Step(c, "asking", "idle")
  /\ want' = [want EXCEPT ![c] = None] /\ held' = [held EXCEPT ![c] = None]
  /\ ok' = [ok EXCEPT ![c] = {}]
  /\ UNCHANGED <<s, up, row, cached, todo, changes, calls>>

Next ==
  \/ ServerChanges \/ Expire
  \/ \E c \in Clients : \/ LoadRow(c) \/ CacheLoaded(c) \/ Save(c) \/ CacheSaved(c)
                        \/ BeginHealth(c) \/ Ask(c) \/ Report(c)
Spec == Init /\ [][Next]_vars

-----------------------------------------------------------------------------
(* Properties *)

RouterTypeOK ==
  /\ s \in Settings /\ up \subseteq Endpoints
  /\ row \in Modes \union {None} /\ cached \in Modes \union {None}
  /\ pc \in [Clients -> {"idle", "loaded", "save", "saved", "health", "asking"}]
  /\ want \in [Clients -> Modes \union {None}] /\ held \in [Clients -> Modes \union {None}]
  /\ todo \in [Clients -> SUBSET Endpoints] /\ ok \in [Clients -> SUBSET Endpoints]
  /\ changes \in 0..Changes /\ calls \in 0..MaxCalls

\* The roles whose report is that of an endpoint they do not call: LM Studio's for a scan that
\* goes to NVIDIA, RCA's for vision, the Code Brain's for the automation.
ReportedByOther(mode) ==
  {role \in Roles :
     \/ role = "scan" /\ s.routing = "hybrid" /\ s.scan = "lmstudio" /\ s.key
     \/ role = "vision" /\ s.routing = "local" /\ mode = "multi" /\ (s.rca \/ s.vision)
     \/ role = "automation" /\ s.routing = "local"}

\* A role that is reported available is on an endpoint that answered and that its calls go to in the mode
\* of the report, apart from the three of ReportedByOther, which may be reported available while their
\* server is down.  When nothing is degraded, that holds of scan and vision too, whoever was asked.
ReportIsOfTheModelUsed ==
  \A c \in Clients : pc[c] = "asking" /\ todo[c] = {} =>
    LET mode == held[c]
    IN /\ \A role \in Roles \ ReportedByOther(mode) :
            ReportedOf(role, mode) \in ok[c] => CalledFor(role, mode) \in ok[c]
       /\ Needed(mode) \subseteq ok[c] =>
            \A role \in Roles \ {"automation"} : CalledFor(role, mode) \in ok[c]

\* Where a model is configured, a question, an analysis and the automation each find one.
ConfiguredHasModel ==
  Configured => "none" \notin {ChatLlm, AnalysisLlm(AgentMode), AutomationLlm}

\* The mode that was set is the one the calls use, once no request is under way.
SavedModeIsUsed ==
  row # None /\ (\A c \in Clients : pc[c] = "idle") => AgentMode = row
=============================================================================
