---------------------------- MODULE CatalogRefresh ----------------------------
(****************************************************************************)
(* The fan-out over the upstreams: Catalog::build_live of                   *)
(* src/src/catalog.rs and its two callers, refresh_live_catalog             *)
(* (src/src/server.rs), which has the current catalog to fall back on, and  *)
(* run_snapshot (src/src/main.rs), which has none.                          *)
(*                                                                          *)
(* One task per endpoint waits for a permit, then talks to its upstream for *)
(* at most FetchTimeout; the fan-out joins the tasks in the order in which  *)
(* they end.  BackgroundStartup ends a startup with this module,            *)
(* ServeStartup has the whole of it as one step, Fetch, and both implement  *)
(* CatalogPromise.  What an upstream lists is external: any sequence of     *)
(* tools.                                                                   *)
(****************************************************************************)
EXTENDS Naturals, FiniteSets, SequencesExt

CONSTANTS
    Services,       \* the registry's service ids, as numbers in lexical order
    Tools,          \* upstream tool names
    TooLong,        \* those that overrun MAX_TOOL_NAME_LEN once namespaced
    Permits,        \* FETCH_CONCURRENCY
    FetchTimeout,   \* FETCH_TIMEOUT
    MaxListing      \* bound: the tools an upstream lists

ASSUME NumbersAssumption ==
    /\ Services \subseteq Nat /\ IsFiniteSet(Services)
    /\ Permits \in Nat \ {0} /\ FetchTimeout \in Nat /\ MaxListing \in Nat
ASSUME ToolsAssumption == TooLong \subseteq Tools

Listings == UNION {[1 .. n -> Tools] : n \in 0 .. MaxListing}

\* The state of one endpoint's task; a task that has ended keeps its outcome.
Waiting  == [at |-> "queued"]
Talking(left) == [at |-> "fetching", left |-> left]
Listed(tools) == [at |-> "listed", tools |-> tools]
Failed   == [at |-> "failed"]        \* FetchError, a timeout included
Panicked == [at |-> "panicked"]      \* JoinError

Outcomes == {Listed(tools) : tools \in Listings} \cup {Failed, Panicked}
Tasks == {Waiting} \cup {Talking(left) : left \in 0 .. FetchTimeout} \cup Outcomes

VARIABLES
    purpose,        \* "refresh", "snapshot", or "partial" (--allow-partial)
    endpoints,      \* build_live's endpoints, by their service ids
    served,         \* the catalog at hand: the fallback of a refresh
    permits,        \* permits left in the semaphore
    task,           \* the tasks of the JoinSet
    joined,         \* the services whose task has been joined
    services,       \* build_live's services, in the order of the joins
    result          \* how the caller ended, or "building"

vars == <<purpose, endpoints, served, permits, task, joined, services, result>>

ServiceCatalogs ==
    [service : Services, source : {"live", "snapshot"}, tools : Listings]

IsRepeating(tools) == \E i, j \in DOMAIN tools : i # j /\ tools[i] = tools[j]

IsOverlong(tools) == ToSet(tools) \cap TooLong # {}

TypeOK ==
    /\ purpose \in {"refresh", "snapshot", "partial"}
    /\ permits \in 0 .. Permits
    /\ endpoints \subseteq Services
    /\ task \in [endpoints -> Tasks]
    /\ joined \subseteq endpoints
    /\ \A catalog \in {served, services} :
          /\ catalog \in Seq(ServiceCatalogs)
          /\ Len(catalog) <= Cardinality(Services)
    /\ result \in {"building", "swapped", "kept", "written", "refused"}

\* Catalog::service: the first entry of s, or none.
ServiceOf(catalog, s) ==
    {catalog[i] : i \in {i \in DOMAIN catalog :
                            /\ catalog[i].service = s
                            /\ \A j \in 1 .. i - 1 : catalog[j].service # s}}

\* A refresh starts from a catalog of services S: sorted, as Catalog::new leaves
\* it.
Fallback(S) ==
    {catalog \in [1 .. Cardinality(S) ->
                    {[service |-> s, source |-> "snapshot", tools |-> <<>>] : s \in S}] :
        \A i, j \in DOMAIN catalog : i < j => catalog[i].service < catalog[j].service}

Init ==
    /\ purpose \in {"refresh", "snapshot", "partial"}
    /\ endpoints \in SUBSET Services
    /\ \E S \in SUBSET endpoints : served \in Fallback(S)
    /\ purpose # "refresh" => endpoints = Services /\ served = <<>>
    /\ permits = Permits
    /\ task = [s \in endpoints |-> Waiting]
    /\ joined = {}
    /\ services = <<>>
    /\ result = "building"

-----------------------------------------------------------------------------
(* One task per endpoint *)

\* permits.acquire_owned(): the budget starts with the permit.
Acquire(s) ==
    /\ task[s] = Waiting
    /\ permits > 0
    /\ permits' = permits - 1
    /\ task' = [task EXCEPT ![s] = Talking(FetchTimeout)]
    /\ UNCHANGED <<purpose, endpoints, served, joined, services, result>>

\* Mutant: the permit only goes back with a listing.
BugPermitLeaked(s, outcome) ==
    /\ task[s].at = "fetching"
    /\ task' = [task EXCEPT ![s] = outcome]
    /\ permits' = IF outcome.at = "listed" THEN permits + 1 ELSE permits
    /\ UNCHANGED <<purpose, endpoints, served, joined, services, result>>

\* A task that was fetching ends and its permit goes back.
End(s, outcome) ==
    /\ task[s].at = "fetching"
    /\ task' = [task EXCEPT ![s] = outcome]
    /\ permits' = permits + 1
    /\ UNCHANGED <<purpose, endpoints, served, joined, services, result>>

\* fetch_tools: the upstream completes initialize and tools/list.
Answer(s, tools) == End(s, Listed(tools))

\* fetch_tools: it refuses either, or the connection fails.
Refuse(s) == End(s, Failed)

\* The task panics while it fetches.
Panic(s) == End(s, Panicked)

\* timeout(FETCH_TIMEOUT, ..) elapses.
TimeOut(s) ==
    /\ task[s] = Talking(0)
    /\ End(s, Failed)

\* Time passes, not past a timeout.
Tick ==
    /\ \E s \in endpoints : task[s].at = "fetching"
    /\ \A s \in endpoints : task[s].at = "fetching" => task[s].left > 0
    /\ task' = [s \in endpoints |->
                   IF task[s].at = "fetching" THEN Talking(task[s].left - 1) ELSE task[s]]
    /\ UNCHANGED <<purpose, endpoints, served, permits, joined, services, result>>

-----------------------------------------------------------------------------
(* The fan-out *)

\* Mutant: lengths are only checked by Catalog::new.
BugLimitUnchecked(tools) == TRUE

\* namespace_within_limit.
WithinLimit(tools) == ~IsOverlong(tools)

\* The fallback's entry for s, if there is one, relabelled.
Stale(s) ==
    {[service |-> s, source |-> "snapshot", tools |-> entry.tools] :
        entry \in ServiceOf(served, s)}

\* Mutant: a task that panicked is a fetch that failed.
BugPanicIsFailure(s) ==
    IF task[s].at = "listed" /\ WithinLimit(task[s].tools)
       THEN {[service |-> s, source |-> "live", tools |-> task[s].tools]}
       ELSE Stale(s)

\* What joining the task of s adds to the services, if anything.
Contribution(s) ==
    IF task[s].at = "listed" /\ WithinLimit(task[s].tools)
       THEN {[service |-> s, source |-> "live", tools |-> task[s].tools]}
       ELSE IF task[s] = Panicked THEN {} ELSE Stale(s)

\* tasks.join_next().
Join(s) ==
    /\ task[s] \in Outcomes
    /\ s \notin joined
    /\ joined' = joined \cup {s}
    /\ \/ Contribution(s) = {} /\ UNCHANGED services
       \/ \E entry \in Contribution(s) : services' = Append(services, entry)
    /\ UNCHANGED <<purpose, endpoints, served, permits, task, result>>

\* Mutant: the services stay in the order of arrival.
BugUnsorted(catalog) == {catalog}

\* Catalog::new sorts ...
Sorted(catalog) ==
    {sorted \in {[i \in DOMAIN catalog |-> catalog[p[i]]] :
                    p \in Bijection(DOMAIN catalog, DOMAIN catalog)} :
        \A i, j \in DOMAIN catalog : i < j => sorted[i].service <= sorted[j].service}

\* ... and Catalog::validate finds no name overlong and none twice.  Names are
\* prefixed with their service's id, so only a service can repeat its own.
Valid(catalog) ==
    \A i \in DOMAIN catalog :
       ~IsOverlong(catalog[i].tools) /\ ~IsRepeating(catalog[i].tools)

\* refresh_live_catalog: the fresh catalog is swapped in, or the old one kept.
FinishRefresh ==
    /\ purpose = "refresh"
    /\ IF Valid(services)
          THEN served' \in Sorted(services) /\ result' = "swapped"
          ELSE result' = "kept" /\ UNCHANGED served

\* run_snapshot: a short fan-out is refused unless --allow-partial was given.
FinishSnapshot ==
    /\ purpose # "refresh"
    /\ IF Valid(services) /\ (Len(services) >= Cardinality(Services) \/ purpose = "partial")
          THEN served' \in Sorted(services) /\ result' = "written"
          ELSE result' = "refused" /\ UNCHANGED served

\* Every task is joined.
Finish ==
    /\ result = "building"
    /\ joined = endpoints
    /\ FinishRefresh \/ FinishSnapshot
    /\ UNCHANGED <<purpose, endpoints, permits, task, joined, services>>

-----------------------------------------------------------------------------
\* The runtime polls the tasks that can go on, and time passes.
Progress ==
    \/ \E s \in endpoints : Acquire(s) \/ TimeOut(s) \/ Join(s)
    \/ Tick
    \/ Finish

\* What the upstreams do.
Upstream(s) == (\E tools \in Listings : Answer(s, tools)) \/ Refuse(s) \/ Panic(s)

Next == Progress \/ \E s \in endpoints : Upstream(s)

\* Nothing is assumed of the upstreams.
Spec == Init /\ [][Next]_vars /\ WF_vars(Progress)

-----------------------------------------------------------------------------
(* Properties *)

\* catalog.rs FETCH_CONCURRENCY: no more upstreams are talked to at once than
\* there are permits, and no permit is lost, however a fetch ends.
PermitsAccountedFor ==
    permits + Cardinality({s \in endpoints : task[s].at = "fetching"}) = Permits

\* catalog.rs namespace_within_limit, build_live: an upstream that fails, or
\* lists an overlong name, "never touches another service"; the refresh as a
\* whole is only given up over a listing that repeats a name.
FailureStaysContained ==
    result = "kept" =>
       \E s \in endpoints : task[s].at = "listed" /\ IsRepeating(task[s].tools)

\* catalog.rs Catalog::new: the catalog depends on what each upstream answered
\* and on nothing else: the order in which the tasks ended leaves no trace in it.
OrderLeavesNoTrace ==
    result \in {"swapped", "written"} =>
       /\ \A i, j \in DOMAIN served : i < j => served[i].service < served[j].service
       /\ \A i \in DOMAIN served :
             LET t == task[served[i].service]
             IN  served[i].source = "live" => t = Listed(served[i].tools)

\* catalog.rs build_live: a refresh that lands serves a service whose upstream
\* failed as it was served before, and does not call it live.
FailedServiceIsKept ==
    [][result' = "swapped" =>
          \A s \in endpoints :
             task[s] = Failed /\ result = "building" => ServiceOf(served', s) = Stale(s)]_vars

\* The namespaced names a service claims.
Names(entry) == {<<entry.service, tool>> : tool \in ToSet(entry.tools)}

\* catalog.rs build_live, on its errors: "only a namespaced name claimed by two
\* of the given endpoints" gives the refresh up.
OnlyTwoEndpointsClash ==
    result = "kept" =>
       \E i, j \in DOMAIN services :
          i # j /\ Names(services[i]) \cap Names(services[j]) # {}
=============================================================================
