--------------------------- MODULE BackgroundStartup ---------------------------
(****************************************************************************)
(* A startup from the command line to the live catalog: Config::resolve,     *)
(* then BackgroundStartup::run of src/src/server.rs with every page of the   *)
(* listing it asks Service Usage for and every task of the fan-out it ends   *)
(* in, and what a caller is told when an upstream refuses meanwhile.         *)
(* Strict and flat startups, and what requests read, are in ServeStartup.    *)
(*                                                                           *)
(* The fan-out of the snapshot command is here too, from its beginning: it   *)
(* has no configuration and lists nothing.                                   *)
(****************************************************************************)
EXTENDS UpstreamErrors, ServiceUsage, CatalogRefresh

CONSTANTS
    ApiOf,          \* Endpoint::api_name of every service
    Settings,       \* bound: the sources of a project, and only and exclude
    Statuses,       \* bound: what an upstream refuses with
    Junk            \* bound: words it may put where an API or a project belongs

ASSUME ApisAssumption == ApiOf \in [Services -> Apis]
ASSUME StatusesAssumption == Statuses \subseteq 100 .. 599
\* A value of the settings is a text.
ASSUME SettingsAssumption ==
    \A setting \in Settings : \A value \in ToSet(ProjectValues(setting.sources)) :
       value.is = "set" => value.word \in Seq(STRING)
\* error.rs admits words as long as config.rs does, and the names of the registry's
\* APIs.
ASSUME RemediationAssumption ==
    /\ MaxProject \in Nat /\ MaxId <= MaxProject
    /\ \A api \in Apis : AcceptApiName(api)

VARIABLES
    phase,          \* "configure", "exited", "list" or "refresh"
    config,         \* the operator's settings, then the Config made of them
    told            \* a refusal, and what the caller or the readiness says of it

startupVars == <<phase, config, told, listingVars, vars>>

Nothing == [is |-> "nothing"]

\* serve begins with its settings; the snapshot command with its fan-out.
StartupInit ==
    /\ Init
    /\ ListingInit
    /\ told = Nothing
    /\ \/ /\ purpose = "refresh"
          /\ phase = "configure"
          /\ config \in Settings
          /\ endpoints = {}
       \/ /\ purpose # "refresh"
          /\ phase = "refresh"
          /\ config = Nothing

-----------------------------------------------------------------------------
(* config.rs *)

\* Config::resolve: without a project that may be one, the process ends.
Configure ==
    /\ phase = "configure"
    /\ \/ /\ Resolved(config.sources) = {}
          /\ phase' = "exited"
          /\ config' = Nothing
       \/ \E project \in Resolved(config.sources) :
             /\ phase' = "list"
             /\ config' = [project |-> project, only |-> config.only,
                           exclude |-> config.exclude]
    /\ UNCHANGED <<told, listingVars, vars>>

-----------------------------------------------------------------------------
(* What an upstream may refuse with: up to two pieces the code looks for *)

Words == {config.project, config.project \o <<".">>} \cup Junk

BodyPieces ==
    {Phrase(of) : of \in {"credential", "API_key", "quota_project"}}
    \cup {Disabled(word) : word \in Words}
    \cup {Console(word) : word \in Apis \cup Junk}
    \cup {Http(503)}

Refusals == [status : Statuses, body : BoundedSeq(BodyPieces, 2)]

\* No answer at all.
NoAnswer == [status |-> 0, body |-> <<>>]

\* What rmcp makes of a refusal: an error with its status, or one that only
\* renders it, and says so twice; "HTTP 2" is the protocol's name.
ErrorsOf(refusal) ==
    LET rendered == <<Http(refusal.status)>> \o refusal.body
    IN  IF refusal = NoAnswer THEN {[typed |-> <<>>, chain |-> << <<Http(2)>> >>]} ELSE
        {[typed |-> <<refusal.status>>, chain |-> <<front, refusal.body>>] :
            front \in {<<>>, <<Http(2)>>}}
        \cup
        {[typed |-> <<>>, chain |-> <<front \o rendered, rendered>>] :
            front \in {<<>>, <<Http(2)>>}}

\* A call dispatched during startup is refused, or not answered; bound: one call,
\* before the first page is asked for.  UpstreamProxy has the rest of the
\* dispatch.
CallRefused ==
    /\ phase = "list"
    /\ requested = <<>>
    /\ told = Nothing
    /\ \E refusal \in Refusals \cup {NoAnswer} : \E error \in ErrorsOf(refusal) :
          told' = [is |-> "told", refusal |-> refusal, as |-> UpstreamMessage(error)]
    /\ UNCHANGED <<phase, config, listingVars, vars>>

\* The listing is refused; bound: with its first page.  A later refusal, and
\* what is no refusal, is a Fail of its own.
ListingRefused ==
    /\ at = "request"
    /\ Len(requested) = 1
    /\ Fail
    /\ \E refusal \in Refusals :
          told' = [is |-> "told", refusal |-> refusal,
                   as |-> Classified(refusal.status, refusal.body)]
    /\ UNCHANGED config

-----------------------------------------------------------------------------
(* server.rs: BackgroundStartup *)

\* resolve_enablement: Service Usage is asked unless --only was given.  The
\* project is of no further interest once a page has arrived.
ListEnabled ==
    /\ phase = "list"
    /\ config.only = {}
    /\ \/ /\ ListingNext
          /\ told' = Nothing
          /\ config' = IF at = "request" /\ at' = "apply"
                          THEN [config EXCEPT !.project = <<>>] ELSE config
       \/ ListingRefused
    /\ UNCHANGED <<phase, vars>>

\* select_services; an enablement that is not known hides nothing.
Selected ==
    {s \in Services :
        /\ IF config.only = {} THEN listing = "enabled" => ApiOf[s] \in enabled
           ELSE s \in config.only
        /\ s \notin config.exclude}

\* The listing is over, and of no further interest.
ForgetListing ==
    /\ at' = "apply" /\ pageToken' = NoToken /\ enabled' = {} /\ seen' = {}
    /\ pages' = 0 /\ listing' = "running" /\ requested' = <<>> /\ reported' = {}

\* BackgroundStartup::resolve ends and the refresh begins: the catalog at hand is
\* what the snapshot has of the endpoints exposed.
Narrow ==
    /\ phase = "list"
    /\ config.only # {} \/ listing # "running"
    /\ phase' = "refresh"
    /\ endpoints' = Selected
    /\ \E S \in SUBSET Selected : served' \in Fallback(S)
    /\ task' = [s \in Selected |-> Waiting]
    /\ config' = Nothing
    /\ told' = Nothing
    /\ ForgetListing
    /\ UNCHANGED <<purpose, permits, joined, services, result>>

\* refresh_live_catalog, and run_snapshot.
FanOut(step) ==
    /\ phase = "refresh"
    /\ step
    /\ UNCHANGED <<phase, config, told, listingVars>>

StartupStep == Configure \/ ListEnabled \/ Narrow

StartupNext ==
    \/ StartupStep
    \/ CallRefused
    \/ FanOut(Next)

\* The runtime polls the startup's task.  auth.apply answers every caller, and
\* the client of shared_http_client ends every request after 60 s; nothing is
\* assumed of the upstreams of the fan-out.
StartupSpec ==
    /\ StartupInit /\ [][StartupNext]_startupVars
    /\ WF_startupVars(StartupStep)
    /\ WF_startupVars(FanOut(Progress))

-----------------------------------------------------------------------------
(* Properties *)

\* server.rs resolve_enablement: enablement hides a service only if the listing
\* was read to its last page and the service's API was on none of its pages; a
\* listing given up half way, for whatever reason, hides nothing.
PrunedByWholeListing ==
    [][phase = "list" /\ phase' = "refresh" /\ config.only = {} =>
          \A s \in Services \ (config.exclude \cup endpoints') :
             /\ requested # <<>> /\ at = "apply" /\ pageToken = NoToken
             /\ ApiOf[s] \notin reported]_startupVars

\* error.rs parse_service_disabled, with config.rs validate_quota_project: any
\* project that serve accepts is one the remediation can name.  When Google says
\* that an API of the registry is disabled in it, the command that is rendered
\* holds that API and that project, however the two came to the code.
RemediationNamesTheProject ==
    told # Nothing /\ told.refusal.status = 403 =>
       \A api \in Apis, word \in {config.project, config.project \o <<".">>} :
          told.refusal.body = <<Disabled(word), Console(api)>> =>
             told.as = [is |-> "ServiceDisabled", api |-> api, project |-> config.project]

\* The status a failure is reported with, by its kind.
StatusShown(failure) ==
    CASE failure.is = "Unclassified" -> NoAnswer.status
      [] failure.is = "Other" -> failure.status
      [] failure.is \in {"MissingCredential", "ApiKeyUnsupported"} -> 401
      [] OTHER -> 403

\* proxy.rs upstream_message: the status reported is the one the upstream
\* answered with, whether the error carried it or it had to be read out of the
\* text, and whatever else in that text looks like one.
UpstreamStatusDecides ==
    told # Nothing => StatusShown(told.as) = told.refusal.status

\* What the catalog at hand holds, and the source of it.
SourceOf(catalog) ==
    [s \in {entry.service : entry \in ToSet(catalog)} |->
        (CHOOSE entry \in ToSet(catalog) : entry.service = s).source]

\* What came of the upstream of s, for the catalog.
AnswerOf(s) ==
    IF task[s] \notin Outcomes THEN "none"
    ELSE IF task[s] = Panicked THEN "panic"
    ELSE IF task[s].at = "listed" /\ WithinLimit(task[s].tools) THEN "tools"
    ELSE "failure"

\* What the catalog promises, in terms of this module's state.
Promise == INSTANCE CatalogPromise WITH
    stage   <- IF phase # "refresh" THEN "startup"
               ELSE IF result = "building" THEN "refresh" ELSE "over",
    exposed <- endpoints,
    catalog <- SourceOf(served),
    answers <- [s \in endpoints |-> IF result = "building" THEN AnswerOf(s) ELSE "none"]

\* The permits, timeouts, joins and listings of the fan-out do nothing to the
\* catalog that CatalogPromise does not say: it lands as its upstreams answered.
KeepsCatalogPromise == Promise!Spec

\* server.rs BackgroundStartup: a startup that is not refused its configuration
\* ends with a refresh that landed or was given up, whatever page tokens Service
\* Usage hands out and whatever the upstreams do.
StartupEnds == <>(phase = "exited" \/ result # "building")
================================================================================
