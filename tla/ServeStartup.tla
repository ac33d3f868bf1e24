----------------------------- MODULE ServeStartup -----------------------------
(****************************************************************************)
(* How `serve` comes up: run_serve of src/src/main.rs, and the catalog, the  *)
(* readiness and the background work of src/src/server.rs, composed with the *)
(* credential service of AuthPromise.                                        *)
(*                                                                           *)
(* One task, Startup, runs run_serve and then the background work it spawns; *)
(* the clients' requests overlap with it.  Each use of the live catalog's    *)
(* RwLock and of the readiness channel is a step of its own.  What the       *)
(* credential source, Service Usage and the upstreams answer is external.    *)
(****************************************************************************)
EXTENDS Naturals

CONSTANTS
    Apis,           \* what Service Usage may report
    Services,       \* the registered services
    Configured,     \* those --only and --exclude admit
    Bundled,        \* those the snapshot holds
    Clients,        \* requests served at the same time
    Startup,        \* the task that runs run_serve, then BackgroundStartup
    Nothing,        \* no catalog, no report
    MaxGeneration   \* bound: how many tokens a behaviour may cache

ASSUME ServicesAssumption ==
    Services \subseteq Apis /\ Configured \subseteq Services /\ Bundled \subseteq Services
ASSUME StartupAssumption == Startup \notin Clients
ASSUME MaxGenerationAssumption == MaxGeneration \in Nat

VARIABLES
    generation, valid, backoff, asked, held,    \* the credential service
    config,         \* Config: `--only` given, strict startup, flat surface
    pc,             \* where Startup is
    serving,        \* the server answers requests
    exposed,        \* the endpoints left exposed
    routes,         \* Proxy::routes
    startup, live,  \* CatalogState: the catalog frozen at startup, the current
    fresh,          \* the catalog a refresh is building
    readiness,      \* the value in the readiness channel
    enablement,     \* how enablement was resolved, not yet published
    view,           \* the catalog each request works with
    report,         \* what list_services last told each client

    \* History, read by no guard:
    enabled,        \* what Service Usage has reported enabled
    fetched         \* the services whose tools were fetched from upstream

authVars == <<generation, valid, backoff, asked, held>>
catalogVars == <<exposed, routes, startup, live, fresh>>
readinessVars == <<readiness, enablement>>
clientVars == <<view, report>>
historyVars == <<enabled, fetched>>
vars == <<authVars, config, pc, serving, catalogVars, readinessVars, clientVars,
          historyVars>>

Auth == INSTANCE AuthPromise WITH Callers <- Clients \cup {Startup}

\* A catalog gives each service it holds the source of its tools.
Catalogs == UNION {[S -> {"snapshot", "live"}] : S \in SUBSET Services}

Readiness == [credentials : {"pending", "ready", "failed"},
              enablement  : {"pending", "pruned", "skipped", "unknown"}]

TypeOK ==
    /\ generation \in 0 .. MaxGeneration
    /\ valid \in BOOLEAN
    /\ backoff \in BOOLEAN
    /\ asked \subseteq Clients \cup {Startup}
    /\ held \in [Clients \cup {Startup} -> 0 .. MaxGeneration]
    /\ config \in [only : BOOLEAN, strict : BOOLEAN, flat : BOOLEAN]
    /\ pc \in {"discover", "credentials", "acquire", "enablement", "usage",
               "listing", "narrow", "publish", "refresh", "fetch", "swap",
               "done", "exited"}
    /\ serving \in BOOLEAN
    /\ exposed \subseteq Services
    /\ routes \subseteq Services
    /\ startup \in Catalogs /\ live \in Catalogs /\ fresh \in Catalogs
    /\ readiness \in Readiness
    /\ enablement \in {"pending", "pruned", "skipped", "unknown"}
    /\ view \in [Clients -> Catalogs \cup {Nothing}]
    /\ report \in [Clients -> [services : SUBSET Services, readiness : Readiness]
                              \cup {Nothing}]
    /\ enabled \subseteq Apis
    /\ fetched \subseteq Services

\* Mutant: narrowing is left to the refresh.
BugRestrictedTo(catalog, S) == catalog

\* Catalog::restricted_to.
RestrictedTo(catalog, S) == [s \in DOMAIN catalog \cap S |-> catalog[s]]

\* Mutant: the capture's own provenance is repeated.
BugAssembledUnmarked(S) == [s \in Bundled \cap S |-> "live"]

\* assemble_serve_catalog, from a snapshot whose capture recorded "live".
Assembled(S) == [s \in Bundled \cap S |-> "snapshot"]

Empty == [s \in {} |-> "snapshot"]

\* The stages of CatalogPromise: nothing is promised before Narrow.
Stage ==
    IF pc \in {"publish", "refresh", "fetch", "swap"} THEN "refresh"
    ELSE IF pc = "done" THEN "over" ELSE "startup"

\* What a refresh that is about to land knows of each upstream.  A failure leaves
\* no more than a panic where there is nothing to fall back on.
AnswersKnown ==
    [s \in exposed |->
        IF pc # "swap" THEN "none"
        ELSE IF s \in fetched THEN "tools"
        ELSE IF s \in DOMAIN fresh THEN "failure" ELSE "panic"]

\* What the served catalog promises, in terms of this module's state.
Promise == INSTANCE CatalogPromise WITH
    stage   <- Stage,
    exposed <- IF Stage = "startup" THEN {} ELSE exposed,
    catalog <- IF Stage = "startup" THEN Empty ELSE live,
    answers <- IF Stage = "startup" THEN Empty ELSE AnswersKnown

\* Config::resolve makes a flat surface strict.  Without strict startup the
\* configured selection is assembled and served at once; with it nothing is
\* served yet.
Init ==
    /\ Auth!Init
    /\ config \in {c \in [only : BOOLEAN, strict : BOOLEAN, flat : BOOLEAN] :
                      c.flat => c.strict}
    /\ pc = IF config.strict THEN "discover" ELSE "credentials"
    /\ serving = ~config.strict
    /\ exposed = Configured
    /\ routes = IF config.strict THEN {} ELSE Configured
    /\ startup = IF config.strict THEN Empty ELSE Assembled(Configured)
    /\ live = startup
    /\ fresh = Empty
    /\ readiness = [credentials |-> "pending", enablement |-> "pending"]
    /\ enablement = "pending"
    /\ view = [c \in Clients |-> Nothing]
    /\ report = [c \in Clients |-> Nothing]
    /\ enabled = {}
    /\ fetched = {}

-----------------------------------------------------------------------------
(* Credentials *)

\* Mutant: discovering the credential chain is taken for acquiring a token.
BugDiscoverIsEnough ==
    /\ pc = "discover"
    /\ pc' \in {"enablement", "exited"}
    /\ UNCHANGED <<authVars, config, serving, catalogVars, readinessVars,
                   clientVars, historyVars>>

\* AuthContext::new, strict startup only: failing is fatal.
Discover ==
    /\ pc = "discover"
    /\ pc' \in {"credentials", "exited"}
    /\ UNCHANGED <<authVars, config, serving, catalogVars, readinessVars,
                   clientVars, historyVars>>

\* auth.apply is called, by run_serve or by BackgroundStartup::resolve ...
AskCredentials ==
    /\ pc = "credentials"
    /\ Auth!Ask(Startup)
    /\ pc' = "acquire"
    /\ UNCHANGED <<config, serving, catalogVars, readinessVars, clientVars, historyVars>>

\* Mutant: a failure ends the background work before enablement is resolved.
BugFailureEndsStartup ==
    /\ pc = "acquire"
    /\ Auth!Serve(Startup)
    /\ pc' = IF held'[Startup] # 0 THEN "enablement"
             ELSE IF config.strict THEN "exited" ELSE "done"
    /\ readiness' =
          IF config.strict THEN readiness
          ELSE [credentials |-> IF held'[Startup] = 0 THEN "failed" ELSE "ready",
                enablement  |-> "pending"]
    /\ UNCHANGED <<config, serving, catalogVars, enablement, clientVars, historyVars>>

\* ... and returns: under strict startup a failure is fatal, else the outcome
\* is published.
AcquireCredentials ==
    /\ pc = "acquire"
    /\ Auth!Serve(Startup)
    /\ pc' = IF config.strict /\ held'[Startup] = 0 THEN "exited" ELSE "enablement"
    /\ readiness' =
          IF config.strict THEN readiness
          ELSE [credentials |-> IF held'[Startup] = 0 THEN "failed" ELSE "ready",
                enablement  |-> "pending"]
    /\ UNCHANGED <<config, serving, catalogVars, enablement, clientVars, historyVars>>

-----------------------------------------------------------------------------
(* Enablement *)

\* How enablement has been resolved, and what it leaves exposed.
Resolved(how, S) ==
    /\ enablement' = how
    /\ exposed' = S
    /\ pc' = "narrow"

\* resolve_enablement: `--only` pins the set.
SkipUsage ==
    /\ pc = "enablement"
    /\ config.only
    /\ Resolved("skipped", Configured)
    /\ UNCHANGED <<authVars, config, serving, routes, startup, live, fresh,
                   readiness, clientVars, historyVars>>

\* BackgroundStartup::resolve: without credentials Service Usage is not asked.
GiveUpUsage ==
    /\ pc = "enablement"
    /\ ~config.only
    /\ readiness.credentials = "failed"
    /\ Resolved("unknown", Configured)
    /\ UNCHANGED <<authVars, config, serving, routes, startup, live, fresh,
                   readiness, clientVars, historyVars>>

\* enabled_services applies the credential to its request ...
AskUsage ==
    /\ pc = "enablement"
    /\ ~config.only
    /\ readiness.credentials # "failed"
    /\ Auth!Ask(Startup)
    /\ pc' = "usage"
    /\ UNCHANGED <<config, serving, catalogVars, readinessVars, clientVars, historyVars>>

\* ... which can fail like any other ...
CredentialUsage ==
    /\ pc = "usage"
    /\ Auth!Serve(Startup)
    /\ IF held'[Startup] = 0
          THEN Resolved("unknown", Configured)
          ELSE pc' = "listing" /\ UNCHANGED <<enablement, exposed>>
    /\ UNCHANGED <<config, serving, routes, startup, live, fresh, readiness,
                   clientVars, historyVars>>

\* select_services: of the registered services --only and --exclude admit, those
\* whose API is among the enabled ones S.
Selected(S) == Configured \cap S

\* ... and Service Usage reports the APIs enabled, or does not.
ListUsage ==
    /\ pc = "listing"
    /\ \/ \E S \in SUBSET Apis :
             /\ Resolved("pruned", Selected(S))
             /\ enabled' = S
       \/ Resolved("unknown", Configured) /\ UNCHANGED enabled
    /\ UNCHANGED <<authVars, config, serving, routes, startup, live, fresh,
                   readiness, clientVars, fetched>>

-----------------------------------------------------------------------------
(* The served catalog *)

\* Mutant: the proxy is built before enablement narrows the endpoints.
BugRoutesNarrowed(S) == Configured \cap enabled

\* The endpoints Proxy::from_endpoints is given.
RoutesOf(S) == S

\* run_serve, strict: the exposed endpoints are assembled.  Else, if Service
\* Usage answered, the live catalog is narrowed to them.
Narrow ==
    /\ pc = "narrow"
    /\ pc' = "publish"
    /\ IF config.strict
          THEN /\ startup' = Assembled(exposed)
               /\ live' = startup'
               /\ routes' = RoutesOf(exposed)
          ELSE /\ live' = IF enablement = "pruned" THEN RestrictedTo(live, exposed)
                                                   ELSE live
               /\ UNCHANGED <<startup, routes>>
    /\ UNCHANGED <<authVars, config, serving, exposed, fresh, readinessVars,
                   clientVars, historyVars>>

\* Mutant: the flat surface is refreshed too.
BugAlwaysRefresh == "refresh"

\* run_serve and BackgroundStartup::run: only the two-tier surface is refreshed.
AfterStartup == IF config.flat THEN "done" ELSE "refresh"

\* The outcome is published; run_serve then serves, if it does not yet.
Publish ==
    /\ pc = "publish"
    /\ readiness' =
          [credentials |-> IF config.strict THEN "ready" ELSE readiness.credentials,
           enablement  |-> enablement]
    /\ serving' = TRUE
    /\ pc' = AfterStartup
    /\ UNCHANGED <<authVars, config, catalogVars, enablement, clientVars, historyVars>>

-----------------------------------------------------------------------------
(* The refresh *)

\* refresh_live_catalog reads the fallback, the catalog as it is now.
ReadFallback ==
    /\ pc = "refresh"
    /\ fresh' = live
    /\ pc' = "fetch"
    /\ UNCHANGED <<authVars, config, serving, exposed, routes, startup, live,
                   readinessVars, clientVars, historyVars>>

\* Mutant: the fan-out covers the configured endpoints, enabled or not.
BugFanOutConfigured == Configured

\* The endpoints the refresh is given.
FanOut == exposed

\* The upstreams answer or not; the build succeeds or the refresh is given up.
Fetch ==
    /\ pc = "fetch"
    /\ \/ \E answers \in [FanOut -> Promise!Answers] :
             /\ fresh' = Promise!Built(fresh, answers)
             /\ fetched' = {s \in FanOut : answers[s] = "tools"}
             /\ pc' = "swap"
       \/ pc' = "done" /\ UNCHANGED <<fresh, fetched>>
    /\ UNCHANGED <<authVars, config, serving, exposed, routes, startup, live,
                   readinessVars, clientVars, enabled>>

\* The fresh catalog is swapped in.
Swap ==
    /\ pc = "swap"
    /\ live' = fresh
    /\ pc' = "done"
    /\ UNCHANGED <<authVars, config, serving, exposed, routes, startup, fresh,
                   readinessVars, clientVars, historyVars>>

-----------------------------------------------------------------------------
(* Requests *)

\* GoogleMcpServer::catalog, the first thing call_tool does.
ReadCatalog(c) ==
    /\ serving
    /\ c \notin asked
    /\ view[c] = Nothing
    /\ view' = [view EXCEPT ![c] = IF config.flat THEN startup ELSE live]
    /\ UNCHANGED <<authVars, config, pc, serving, catalogVars, readinessVars,
                   report, historyVars>>

\* list_services, of the two-tier surface: the catalog read before, and the
\* readiness now.
ListServices(c) ==
    /\ c \notin asked
    /\ view[c] # Nothing
    /\ ~config.flat
    /\ report' = [report EXCEPT ![c] =
          [services |-> DOMAIN view[c], readiness |-> readiness]]
    /\ view' = [view EXCEPT ![c] = Nothing]
    /\ UNCHANGED <<authVars, config, pc, serving, catalogVars, readinessVars,
                   historyVars>>

\* A call of an exposed tool is dispatched, and asks for a credential.
Dispatch(c) ==
    /\ view[c] # Nothing
    /\ DOMAIN view[c] # {}
    /\ Auth!Ask(c)
    /\ UNCHANGED <<config, pc, serving, catalogVars, readinessVars, clientVars,
                   historyVars>>

\* The dispatch has its credential, or its refusal.
Answer(c) ==
    /\ Auth!Serve(c)
    /\ view' = [view EXCEPT ![c] = Nothing]
    /\ UNCHANGED <<config, pc, serving, catalogVars, readinessVars, report,
                   historyVars>>

\* A search, a description, or a call of a tool that is not exposed: nothing
\* but the catalog read is involved.
AnswerFromCatalog(c) ==
    /\ c \notin asked
    /\ view[c] # Nothing
    /\ view' = [view EXCEPT ![c] = Nothing]
    /\ UNCHANGED <<authVars, config, pc, serving, catalogVars, readinessVars,
                   report, historyVars>>

\* The headers are dropped when a request, or a stage of startup, is over.
LetGo(c) ==
    /\ held[c] # 0
    /\ Auth!LetGo(c)
    /\ UNCHANGED <<config, pc, serving, catalogVars, readinessVars, clientVars,
                   historyVars>>

AuthTick ==
    /\ Auth!Expire \/ Auth!Cool
    /\ UNCHANGED <<config, pc, serving, catalogVars, readinessVars, clientVars,
                   historyVars>>

-----------------------------------------------------------------------------
StartupStep ==
    \/ Discover
    \/ AskCredentials
    \/ AcquireCredentials
    \/ SkipUsage
    \/ GiveUpUsage
    \/ AskUsage
    \/ CredentialUsage
    \/ ListUsage
    \/ Narrow
    \/ Publish
    \/ ReadFallback
    \/ Fetch
    \/ Swap

Next ==
    \/ StartupStep
    \/ \E c \in Clients :
          \/ ReadCatalog(c)
          \/ ListServices(c)
          \/ Dispatch(c)
          \/ Answer(c)
          \/ AnswerFromCatalog(c)
    \/ \E c \in Clients \cup {Startup} : LetGo(c)
    \/ AuthTick

\* Startup is polled to its end: what it awaits is bounded by timeouts, and
\* AuthContext answers every caller.  Nothing is assumed of the clients.
Spec == Init /\ [][Next]_vars /\ WF_vars(StartupStep)

-----------------------------------------------------------------------------
(* Properties *)

\* main.rs run_serve: the proxy can route to every service any request has
\* found in the catalog, however the catalog has been narrowed or refreshed
\* since; `unknown service` never answers a call the catalog let through.
CallsRoutable ==
    \A c \in Clients : view[c] # Nothing => DOMAIN view[c] \subseteq routes

\* server.rs assemble_serve_catalog: "list_services never overstates freshness":
\* a service is only called live if its tools were fetched by this process.
NeverOverstatesFreshness ==
    \A catalog \in ({startup, live} \cup {view[c] : c \in Clients}) \ {Nothing} :
       \A s \in DOMAIN catalog : catalog[s] = "live" => s \in fetched

\* server.rs resolve, refresh_live_catalog: once the exposed set is published as
\* pruned, no service that Service Usage did not report enabled is served, and
\* the refresh does not bring one back.
PrunedStaysPruned ==
    readiness.enablement = "pruned" => DOMAIN live \subseteq enabled

\* main.rs run_serve: credentials are only reported ready by a process that has
\* held a token.
ReadyMeansToken == readiness.credentials = "ready" => generation > 0

\* server.rs CatalogState: once served, the flat surface never changes.
FlatIsPinned == [][config.flat /\ serving => UNCHANGED <<startup, live>>]_vars

\* The catalog served from Narrow on is what CatalogPromise says, whatever the
\* requests do meanwhile.
KeepsCatalogPromise == Promise!Spec

\* Startup comes to an end, whatever the credential source, Service Usage and
\* the upstreams do; unless it exits, what it found is published.
StartupSettles ==
    <>(pc = "exited" \/ (pc = "done" /\ readiness.enablement # "pending"
                                    /\ readiness.credentials # "pending"))

\* server.rs EnablementState: a report that says "narrowed to the APIs Service
\* Usage reports enabled" lists no others.  (Not so of one that overlaps Narrow
\* and Publish: see the README.)
ReportNotTorn ==
    \A c \in Clients : report[c] # Nothing =>
       (report[c].readiness.enablement = "pruned" => report[c].services \subseteq enabled)

\* README.md: a credential failure is reported by list_services "until a later
\* attempt succeeds".
FailureIsLifted ==
    readiness.credentials = "failed" /\ valid ~> readiness.credentials # "failed"
=============================================================================
