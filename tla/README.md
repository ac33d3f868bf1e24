# A TLA+ model of mcp-google-service

mcp-google-service is an MCP server on stdio that stands in front of Google's
hosted MCP servers. A client sees a handful of meta-tools
(list the services, search, describe, call) or a flat list of tools. The
server works out which services the user may reach, keeps a catalog of their
tools, and forwards each call over a cached session that carries the user's
Google credentials. This directory models the parts of it that hold state and
meet concurrency, time and failure, checks them with TLC, and proves most of
their safety properties with TLAPS, for every value of the constants.

    tlc -workers 2 -config AuthContext.cfg AuthContext      # a run
    tlapm AuthContextProofs.tla                             # the proofs

Source paths below are relative to `src/src/`.

## 1. Inventory

| Component | Source | State | Operations |
|---|---|---|---|
| Token cache | `auth.rs` | `CacheState` (token, failure, generation) behind one tokio mutex; `LazyGcpTokenSource::provider` | `apply_tracked`, `invalidate`, `hold_failure`, discovery, the fetch and its timeouts |
| Upstream sessions | `proxy.rs` | `Proxy::sessions`, routes | `dispatch`, `session_for`, `open_or_reuse`, `evict`, `evict_idle`, `enforce_bound` |
| Serve | `main.rs`, `server.rs` | `CatalogState` (frozen and live catalog), readiness channel, exposed endpoints | `run_serve`, `BackgroundStartup::{resolve, run}`, `resolve_enablement`, `refresh_live_catalog`, every request handler |
| Catalog fan-out | `catalog.rs`, `main.rs` | `JoinSet`, semaphore, per-service catalogs | `Catalog::build_live`, `namespace_within_limit`, `Catalog::new`, `run_snapshot` |
| Service Usage listing | `prune.rs` | `PageGuard`, the accumulated set | `enabled_services`, `PageGuard::advance`, `collect_page`, `select_services` |
| Discover gate | `discover_gate.rs` | `handshake_done`, `refuses_probe`, a probe being refused | `DiscoverGate::receive` |
| Surface | `server.rs` | the catalog a request clones, the mode | `call_tool` with `search_tools`, `describe_tools`, `call`; `list_tools` with `flat_tools` |
| Search | `catalog.rs` | a lazily built index | `search_with` and its scoring (pure) |
| Lookup and drift | `catalog.rs` | none | `split_namespaced`, `get`, `service_of`, `drift_from` (pure) |
| Configuration | `config.rs` | none after start | `Config::resolve`, quota project grammar and precedence |
| Errors | `error.rs`, `proxy.rs` | none | classification of upstream bodies, a status recovered from a text, the remediation |
| Registry | `registry.rs` | a constant table | lookups |
| Snapshot files | `archive.rs`, `main.rs`, `catalog.rs` | two files in the repository, the archive in a binary | `run_snapshot`, `write_snapshot_outputs`, `build`, `access`, `from_archive`, the identity tests |

How they interact. Every task that talks to Google goes through the token
cache: a dispatch, the background startup, and the listing of Service Usage. The
cache's mutex is held across a fetch, so they queue there. The proxy relates its
sessions to the cache by a *generation*, the number of the token a session was
built with. Startup runs beside the requests (unless `--strict-startup`): it
acquires credentials, asks Service Usage, narrows the live catalog, publishes a
readiness, and then refreshes the catalog from the upstreams, while each request
clones the catalog it begins with. The catalog a process begins with comes out
of the archive compiled into it, which the `snapshot` command wrote beside the
JSON that people review. The gate sits in front of rmcp's session
loop and answers the one message that would spoil it.

What is hard, and where (each with its line in PROJECT.json under `hazards`):

* *Single flight and invalidation.* Tasks that hit one rejection each invalidate;
  only the first may discard a token, or a replacement is thrown away.
* *Time.* Five durations of the cache interact: the refresh margin, the floor for
  expiries already past, the fetch timeout, the cooldown and the token's life.
* *A blocking discovery*, which an async timeout cannot cut off.
* *At most once.* A failed call may have run its tool; a failed handshake has not.
* *Races over the session cache*, whose lock is not held across a handshake.
* *Stale reads*: the catalog a request reads, the fallback a refresh reads, the
  readiness a report reads.
* *Partial failure* of a fan-out: upstreams that refuse, hang, panic or list
  something unusable.
* *A server that never stops paging*, and the limit at its boundary.
* *A receive that is dropped* by rmcp's `select!` with a message in its hand.
* *Two files that must stay one*, written one after the other by a command that
  can be killed, from a tree whose archive format moves on.
* *A name that travels*: found, described and called while the catalog changes,
  and split again at a separator that its halves may nearly contain.
* *Two judges of one word*: a project accepted on the way in and rendered into a
  command on the way out.

What makes each component correct:

* token cache: one fetch at a time, none inside a cooldown, no refetch storm
  from a skewed clock, only the rejected token discarded, every call answered;
* sessions: a tool runs at most once per dispatch, one retry with a newer
  token, a call travels in a session built from the credential applied, the
  bound and the least-recently-used order hold, every dispatch ends;
* serve: what a request finds is routable, pruning is not undone, freshness and
  readiness are never overstated, a flat surface does not change, startup ends;
* fan-out: permits are conserved, a failure stays with its service, join order
  leaves no trace, the fan-out ends;
* listing: a service is hidden by a whole listing or not at all, the limit exact,
  no page twice, an end;
* errors: the upstream's status decides, and a remediation names the project that
  was accepted;
* snapshot files: success leaves a pair, a release starts and serves what was
  reviewed, and lacks a service only if somebody asked for that;
* surface: a name reaches the tool it was told for, a broken tool takes nothing
  else away, an empty answer means no match;
* search: the hits are the head of the full ranking for every limit, a service is
  found by its name however it is written;
* gate: no message lost, not even a late probe, and probing does not spoil the
  session.

## 2. Modules

| Module | Models | Uses |
|---|---|---|
| `AuthPromise` | what the token cache promises to its callers | |
| `AuthContext` | the token cache itself; implements `AuthPromise` | `AuthPromise` |
| `AuthWait` | `AuthContext` with a stopwatch on each call | `AuthContext` |
| `AuthContextProofs` | theorems about `AuthContext` | `AuthContext` |
| `Filtering` | `Kept`, what Rust's `retain` leaves of a sequence | |
| `FilteringProofs` | lemmas about `Kept`, and induction over the natural numbers | `Filtering` |
| `UpstreamProxy` | the session cache and dispatch | `AuthPromise`, `Filtering` |
| `UpstreamProxyProofs` | theorems about it | `UpstreamProxy`, `FilteringProofs` |
| `MCUpstreamProxy` | its symmetry | `UpstreamProxy` |
| `CatalogPromise` | what becomes of the served catalog in a fan-out | |
| `ServeStartup` | `run_serve`, the background startup, requests; implements `CatalogPromise` | `AuthPromise`, `CatalogPromise` |
| `ServeStartupProofs` | theorems about it | `ServeStartup` |
| `CatalogRefresh` | the fan-out that `ServeStartup!Fetch` abstracts | |
| `ServiceUsage` | the listing that `ServeStartup!ListUsage` abstracts | |
| `Configuration` | the quota project: where it is found, what it may be | |
| `UpstreamErrors` | what is made of an upstream's refusal | `Configuration` |
| `BackgroundStartup` | a startup from its settings to the live catalog; implements `CatalogPromise` | `UpstreamErrors`, `ServiceUsage`, `CatalogRefresh`, `CatalogPromise` |
| `BackgroundStartupProofs` | theorems about it, and with it the listing and the fan-out | `BackgroundStartup`, `FilteringProofs` |
| `MCBackgroundStartup` | its settings, words and registry | `BackgroundStartup` |
| `CatalogSearch` | the search: matching, scores, selection of the best | `Filtering` |
| `MetaTools` | the surface: search, describe, call and the flat list | `CatalogSearch` |
| `MetaToolsProofs` | theorems about the search and the surface | `MetaTools`, `FilteringProofs` |
| `MCMetaTools` | its catalogs, queries and names | `MetaTools` |
| `SnapshotFiles` | the snapshot command and the life of its two files | |
| `SnapshotFilesProofs` | theorems about it | `SnapshotFiles`, `FilteringProofs` |
| `DiscoverGate` | the gate in front of rmcp | |
| `DiscoverGateProofs` | theorems about it | `DiscoverGate` |

`AuthPromise` is the interface. `AuthContext` is shown to implement it, once for
all callers; `UpstreamProxy` and `ServeStartup` are built on the promise and not
on the cache, which keeps them small. `ServeStartup` and `BackgroundStartup` are
two views of one startup. The first has every mode, the requests that overlap it
and the readiness, and lets a listing yield any set of APIs or none and a fan-out
any combination of answers. The second has one mode and no requests, and goes
through the listing page by page and the fan-out task by task. That they agree on
the catalog is checked and proved: both implement `CatalogPromise`.
`SnapshotFiles` in turn lets the fan-out yield any set of services.

### AuthContext (`auth.rs`)

`queue` is the mutex with its waiters: tokio's mutex is fair, so the order in
which tasks asked is the order in which they get it, and the head has the lock.
`want` says what a task is there for. `apply_tracked` holds the lock across a
fetch, so the fetch is a `phase` of the head: `"discover"` (which blocks the
thread and is bounded by the timeout inside `drive_blocking`) and `"token"`.
`Ask`, `UseCached`, `StayCool` and `StartFetch` are `apply_tracked` up to its
fetch, `FetchOk`, `FetchErr`, `FetchUnrenderable` and `FetchTimedOut` are its
ends, `Reject` and `Invalidate` are `invalidate`, and `LetGo` a caller done with
its headers. Deadlines are the time left to them; `Tick` moves all of them.
`Margin < Floor` is the relation between `REFRESH_MARGIN` (60 s) and
`EXPIRED_TOKEN_FLOOR` (120 s) that the code relies on. `cooling`, `quiet`,
`skewed` and `trusted` are kept apart: the first is the code's, the other three
are the history the properties compare it with.

### AuthPromise

The same service without a queue, a clock or a fetch: a caller asks, and is
granted the current credential, granted a new one under a new generation, or
refused. The source is in `backoff` after a failure and nobody gets a *new*
credential meanwhile; a generation is forgotten only by a holder of that
generation.

### UpstreamProxy (`proxy.rs`)

`sessions` is the map ordered by `last_used`, with the time each has gone unused.
Each use of the lock is one action: `GetHeaders`, `Reuse` or `OpenNew`
(`open_or_reuse` up to the handshake, with `evict_idle`), `HandshakeOk` (the
insertion, with `enforce_bound`), `ClearSessions`, `Evict`. The
handshake and the call are the gaps between them. `HandshakeUnauthorized` is the
one error that is retried; it invalidates the rejected generation. Sessions have
identities because `evict` compares `Arc`s.

### ServeStartup (`main.rs`, `server.rs`)

`pc` is where the startup task is; strict startup runs the same stages before
`serving`, lazy startup beside the requests. A catalog is a function from the
services it holds to the source of their tools. `ReadCatalog` is the clone that
`call_tool` takes first; `ListServices`, `Dispatch`, `Answer` and
`AnswerFromCatalog` are what the handlers do with it. `Narrow`, `Publish`,
`ReadFallback`, `Fetch` and `Swap` are separate steps because the code takes the
`RwLock` and the readiness channel separately. `Fetch` is the whole fan-out in one
step: each upstream answers with tools, a failure or a panic. The answers are not
kept; `AnswersKnown` reads them off what was fetched.

### CatalogPromise (`catalog.rs`, `server.rs`)

The served catalog without tasks, permits, joins, listings or requests. A startup
leaves some services exposed and serves those of them that the snapshot has
(`Begin`), the upstreams answer, one or several at a time, each once (`Answer`), and
when all have, one replacement lands (`Land`) that holds exactly what `Built` makes
of the catalog and the answers, or none does (`Keep`). `ServeStartup` uses the same
`Built` in its step `Fetch`, so its refinement says that a fallback read earlier is
still what is served when the outcome is swapped in; `BackgroundStartup` has no
`Built`, and its refinement says that joining tasks in any order, sorting and
validating computes it.

### CatalogRefresh (`catalog.rs`, `main.rs`)

`task` is where each spawned fetch is: waiting for a permit, fetching, ended,
joined. The upstream decides whether it answers, and with what: any listing of up
to two tools, one of them with an overlong name, repetitions included.
`Join` appends the contribution of a task, in any order; `Finish` sorts,
(`Sorted`: whatever arrangement of the list is in order), validates, and does what the caller does with the outcome: `refresh_live_catalog`
(over any endpoints, with any fallback) or `run_snapshot` (with and without `--allow-partial`).

### ServiceUsage (`prune.rs`)

`Apply` is the credential applied to a page's request, `Page` the answer with
`collect_page` and `PageGuard::advance`, `Fail` any of the early returns.
The server is external and hands out any page with any token.

### Configuration and UpstreamErrors (`config.rs`, `error.rs`, `proxy.rs`)

Two modules of definitions without state. A word is a sequence of characters of
four kinds: a lower case letter, a digit, a hyphen and one that is none of these;
the lengths (6 to 30, 1 to 20, 30, 253) are scaled down and keep their order.
`Resolved` is what `Config::resolve` goes on with, one project or none. A text is
a sequence of the pieces the code searches for, because what is between them
changes nothing: a phrase, "has not been used in project" with its word,
"/apis/api/" with its word, "HTTP " with its number. An error of rmcp is a chain of
such texts and perhaps a status. `Classified`, `ParseServiceDisabled` and
`UpstreamMessage` are the functions of those names.

### BackgroundStartup (`config.rs`, `server.rs`, `prune.rs`)

`phase` says where the startup is: `Configure` is `Config::resolve`, `ListEnabled`
a step of the listing (`resolve_enablement`, skipped under `--only`), `Narrow` the
end of `BackgroundStartup::resolve` with `select_services`, and `FanOut` a step of
the refresh over the endpoints left exposed. A failure to get a credential, before
the listing or within it, is `Fail`: both leave the enablement unknown. `ListingRefused` and
`CallRefused` are the two places where an upstream's body is classified: the
listing, and a call dispatched meanwhile. `told` keeps what was made of it until
the next step. A project and what it is told about are forgotten when the first
page arrives, and the listing when the fan-out begins: nothing after them reads
either. The snapshot command begins at its fan-out.

### CatalogSearch (`catalog.rs`)

A string is a short sequence of letters, and a letter stands for characters no
token splits (`cloud` is one). `Rests` is `spells`, a function over the tokens that
are `Taken` off the target one after the other, and `Reference` is
`service_reference`, with the loop over runs as a choice of the best run;
`NameScore`, `Bonus`, `Matches` and `Score` are `score_tool`. `Match`, `Select` and
`Deliver` are the stages of `search_with`. `select_nth_unstable` leaves the better
and the worse candidates in any order (`Partitioned`), so the run covers every one.
An upstream name is its words, with a flag for camel case: the index keeps it both
as written and split into words, and so does the model. `SpellsOut` says without
the speller what it is for: the tokens stand in the id in order, and between and
around them are separators only. A token may hold separators itself, as when an id
is typed whole.

### MetaTools (`server.rs`, `catalog.rs`, `proxy.rs`)

A client sends requests one at a time and remembers in `told` which tool each name
stood for. `SearchTools` begins the search of `CatalogSearch` and `SearchPayload`
answers with it; `DescribeTools`, `ListFlat` and `Call` answer in one step, because
they work on the catalog the request cloned. `Refresh` replaces the catalog between
two requests, so a name may be used long after it was told. `Split`, `Get` and
`Dispatched` are `split_namespaced`, `Catalog::get` and the proxy's route. Names are
sequences of letters with real underscores, since the separator is two of them; the
catalogs hold tools that begin with one or contain two. `broken` marks a tool whose
frame does not inflate. Two facts about tool names are assumed: no name is claimed
twice (`Catalog::validate` refuses it) and no upstream gives a tool the empty name
(the code does not check, and could not split such a name again); and one about
the registry's ids: none is empty, begins or ends with a separator character, or
contains the separator of names. `CallSearchWith` is a caller other than `search_tools`, for
a limit of zero, which `search_tools` never passes on.

### SnapshotFiles (`main.rs`, `archive.rs`, `catalog.rs`)

`json` and `bin` are the two files: absent, torn or whole. `command` is where the
snapshot command is; opening a file tears it, filling it makes it whole, and
`WriteFails` and `Kill` end the command between any two steps. `format` is the
archive version in the source tree, `tool` that of the binary that runs the
command, which may lag behind (`Bump`, `Build`). `IdentityHolds` is the tests that
re-encode the committed JSON and compare; `Publish` a release of a commit they pass
on, and `published` what its binary holds. Three oddities of a snapshot matter for
the files and are told apart: a tool filed under another service and a schema over
the limit, which `build` refuses, and a field `ToolEntry` does not keep. Sorting is
any arrangement that is in order (`InOrder`), and a capture is a list in order.

### DiscoverGate (`discover_gate.rs`)

`wire` is the input, `probe` the message `receive` has taken off it and is
refusing, `delivered` what it has returned. rmcp is external: it goes from the
handshake to the session when an opener is delivered, and its session loop may
drop a pending `receive` at any time (`DropReceive`), which is harmless only
because a probe is never in hand then.

## 3. Runs

Twelve runs; eight check that the code keeps what is asked of it and four show
where a comment or the README says something the code does not do.

| Run | Asks | Bounds |
|---|---|---|
| `auth_cache` | the cache's properties and that it implements the promise | 3 callers, 2 tokens, margin 2, floor 4, timeout 2, cooldown 2, life up to 6 or for ever |
| `auth_wait` | how long a call waits (violation) | the same |
| `sessions` | safety of dispatch and the session cache | 2 dispatchers, 3 services, 2 sessions, idle limit 2, 2 tokens |
| `dispatch_liveness` | every dispatch ends | 2 dispatchers, 2 services, 1 session |
| `sessions_linger` | sessions while no credential is obtainable (violation) | the same |
| `startup` | `serve` coming up under every configuration, and that it implements `CatalogPromise` | 3 services and an API that is no service, 2 configured, 2 bundled, 1 request at a time, 2 tokens |
| `startup_stale_failure` | a failure that is over (violation) | the same |
| `refresh_repeated_name` | what gives a refresh up (violation) | 3 services, 2 permits, 2 tools, listings of up to 2 |
| `background_startup` | a startup from its settings to the live catalog; the snapshot command's fan-out; that both implement `CatalogPromise` | the same; 2 APIs, 4 tokens, 4 pages; every word of up to 5 characters as the project; bodies of up to 2 pieces |
| `search` | ranking, and the whole surface under a changing catalog | up to 2 services of 4 with 2 tools each, queries of up to 3 of 4 tokens and two with a typed separator, limits none, 0 and 2, default 3, 5 stray names |
| `snapshot_files` | the snapshot files through commands, kills, edits and releases | 2 services, 2 commands, 2 formats, 1 edit |
| `gate` | the gate | 4 messages |

Why the bounds are enough.

* *Cache.* Three callers give a fetch with a waiter that wants a token and one
  that wants an invalidation behind it, the longest chain in which one task's
  effect changes what another finds. Two tokens give a rotation; stepping over the
  bound would only repeat it. The durations are the smallest that keep every
  order of deadlines apart (expiry inside and outside the margin, a floor between
  the margin and the longest life), and the proofs are for all durations.
* *Sessions.* Two dispatchers meet in every pair of steps; three services over two
  slots make the bound push one out while another is in use. `dispatch_liveness`
  uses one slot, so a dispatcher's session is pushed out from under it.
* *Startup.* One request is enough because requests meet only in the token cache
  (three callers there), and each reads the catalog by itself. Of the three
  services one is configured and bundled, one only configured, one only bundled;
  the fourth API is enabled but nobody's. All six combinations of `--only`,
  `--strict-startup` and the flat surface are initial states.
* *Background startup.* Three tasks over two permits make one wait; two tools make
  a listing repeat a name, be in another order, or be overlong in part. Four pages
  and four tokens meet the limit with and without one more token on offer, and a
  token can come back at once or after another. Two of the three services belong to
  one API, as the Vertex suites do. Every selection by `--only` and `--exclude` is
  there with one project, and every word (one longer than an id may be) and every
  choice of a blank, bad, good or missing value in each source with no selection:
  the code never looks at the two together. Two pieces in a body are what any branch
  of the classifier looks for, in both orders; that the first of two wins is among
  them.
* *Search and surface.* The ids are like `cloudasset`, `run` and `vertex-generate`,
  the three kinds the speller distinguishes, and one no query names, and they are
  spelled in words, in one, and with the separator typed; the tools hold a
  snake case, a camel case and a single-word name, with and without a phrase, one
  that begins with an underscore and one with two in a row. The limits are none, one
  below the number of tools, and none given. A search is begun only by a client that
  remembers nothing, since its answer does not depend on that; a client may forget
  at any time.
* *Snapshot files.* Two commands let one be killed and the next mend what it left,
  or write with the older of two formats; one edit comes before, between or after.
  Two services make a capture short, unsorted or repeated.
* *Gate.* Four messages hold a probe, an opener, a message between them and a
  probe afterwards. Five kinds of message are told apart.

`CHECK_DEADLOCK FALSE` stands where the system really stops: the fan-out returns,
startup ends or the process exits, the commands are used up, the client has nothing
more to send or to read. In `AuthContext` and `UpstreamProxy` no state may be a deadlock.

Every property of a passing run has a mutant in PROJECT.json: a definition of the
module changed the way a plausible bug would change the code (`Bug...`, next to
the definition it changes), which breaks the property. The type invariant (`TypeOK`) of `AuthContext` is part
of `IndInv` there; those of the other modules hold of their runs as well and are left
out of the configurations, which spend their time on what could be wrong.

## 4. Fairness

* `AuthContext`: a task that has the mutex is polled, and the clock moves.
  Nothing is assumed of the credential source, which may never answer: the calls
  return because of `TOKEN_FETCH_TIMEOUT` and `DISCOVERY_TIMEOUT` (30 s). The
  mutant without the inner timeout shows they would not otherwise.
* `AuthPromise`: a caller that asks is answered. This is what
  `AuthContext!ImplementsPromise` establishes, so `UpstreamProxy` and
  `ServeStartup` may rely on it.
* `UpstreamProxy`: a dispatch under way is polled. A handshake and a call end,
  with whatever outcome, because the shared HTTP client bounds every request (60 s).
* `ServeStartup`: startup is polled to its end; every wait in it is bounded by a
  timeout. Clients need not do anything.
* `BackgroundStartup`: the startup's task is polled, a request of the listing ends
  with an answer or an error (the client bounds it by 60 s, `apply` answers every
  caller), the fan-out's tasks are polled and `FETCH_TIMEOUT` (10 s) passes. The
  upstreams of the fan-out may stay silent. A call refused meanwhile need not come.
* `CatalogPromise`: none; that a startup ends is claimed of the modules that
  implement it. So the refinement is a statement of safety, and proved in full.
* `MetaTools`, `SnapshotFiles`: none; only safety is claimed, and a killed command or
  a client that stays away is a normal end.
* `DiscoverGate`: none; only safety is claimed.

## 5. What the runs show that the documentation does not say

1. `auth_wait`: a call of `apply` can wait longer than `TOKEN_FETCH_TIMEOUT`, which
   `auth.rs` calls the worst case. The timeout bounds a call's own fetch, not its
   wait for the lock; if the fetch ahead of it ends with a token that expires
   within the margin, the call fetches again.
2. `sessions_linger`: with no credential obtainable no session "may linger", but
   a handshake already under way inserts one after the clear.
3. `startup_stale_failure`: the README says a credential failure is reported
   until a later attempt succeeds; the readiness is written at startup only, so
   `list_services` reports it for the life of the process.
4. `refresh_repeated_name`: the comment on `build_live` gives a name claimed by
   two endpoints as its only error; one endpoint that lists a tool twice fails the
   refresh of all of them as well.

Three more are stated in the modules and have no run, because nothing is wrong that
matters or nothing is promised:

* `UpstreamProxy!CacheNeverGoesBack`: a slow handshake can replace a newer session
  by an older one. The generation check rejects it on its next use, which costs a
  handshake.
* `ServeStartup!ReportNotTorn`: a `list_services` that overlaps the narrowing can
  report `pruned` beside the list from before it, because the catalog and the
  readiness are read at two moments.
* `CatalogSearch!TermsNarrow`: "an extra term narrows rather than widens the
  result", says the comment on `search_with`. Not always: `cloud` alone names no
  service, and `cloud run` names `run` and finds all of its tools, those that do
  not contain the word `cloud` included.

Noticed while modelling, and about text the runs do not cover:

* The message for an archive of another format advises `snapshot --from ...` without
  `--out`, which prints JSON and writes no archive.
* `--out` with a path that ends in `.bin` makes the archive overwrite the JSON.
* `Catalog::validate` does not compare a tool's namespaced name with the service it
  is listed under, so a JSON edited by hand may file one under another;
  `archive::build` refuses it, a catalog served from JSON does not.
* The test `service_ids_never_break_namespacing` would pass an id that ends in an
  underscore; `MetaTools!IdsAssumption` excludes it, and no id of the registry does.

## 6. Proofs

Seven modules of theorems, one for each specification that runs, and one of lemmas.
Each states for every value of the constants what the runs check for a few: any
number of tasks, services, tokens, pages, messages, catalogs and queries, and any
durations and bounds that satisfy the assumptions named in the modules. Those are
that sets of tasks are finite and numbers are numbers, that "nothing" is none of the
values it stands beside, and what the code guarantees of its own constants and
inputs: `Margin < Floor` (`DurationsAssumption`), at least one page and one session,
`IdsAssumption` for the registry, `NamesAssumption` for the catalogs,
`QueriesAssumption` (what `split_whitespace` yields has no empty token), and
`RemediationAssumption`: the lengths of `error.rs` admit those of `config.rs`, and the
names of the registry's APIs.

Almost none of the properties is inductive. Each module defines an `IndInv`, which
TLC has checked on the instance of the run, and proves that the initial states
satisfy it, that every action keeps it (one lemma for each action or for a group of
them, joined in one for the next-state relation), and that it implies the
properties. `Invariance` is that it always holds, `TypeCorrectness` that types do.

### AuthContextProofs

That no cooldown is open beside a usable token depends on a fetch having begun
without one and on nothing having changed under it, which depends on who holds the
lock. `IndInv`: a task is in the queue once, exactly while it wants something, and a
fetch runs only for its head (`LockInv`); while a fetch runs the token is unusable
and the cooldown over (`FetchInv`); headers carry generations that were cached
(`HeldInv`); the code's window is the rest of the cooldown since the last failure of
any kind (`CoolingInv`); a token that looked expired on arrival lives as if given the
floor (`FloorInv`).

| Theorem | States |
|---|---|
| `FailureOnlyWithoutToken` | `NoFailureBesideFreshToken` |
| `CooldownIsRespected` | `CooldownRespected` |
| `NoRefetchStorm` | `SkewCausesNoRefetchStorm` |
| `GenerationIsTheToken` | `GenerationNamesToken`, proved only |
| `ReplacementIsNotDiscarded` | `OnlyRejectedTokenDiscarded` |
| `KeepsPromise` | initial states and steps of `AuthContext` are those of `AuthPromise`, or stutter |

### UpstreamProxyProofs

The retry is safe because of what a dispatch knows at each place. `DispatchInv` says
what it has in its hands, `TokenInv` that no token it holds is as old as one that was
rejected (which other dispatches might undo, were generations not forgotten only by
their holders, as `AuthPromise` says), `HandshakeInv` counts handshakes against the
rejection. `CacheInv` is that the list is ordered by use with one session of a
service; the lemmas about `Kept` give that each removal leaves it so.

| Theorem | States |
|---|---|
| `CacheStaysBounded` | `CacheBounded`, which `PushedOutIsLeastRecent` contains |
| `ToolNeverRunsTwice` | `ToolRunsAtMostOnce` |
| `RetryIsSingleAndNewer` | `RetryOnceWithNewerToken` |
| `CallsCarryTheirCredential` | `CallCarriesAppliedCredential` |
| `EvictionSparesOthers` | `EvictSparesReplacement` |
| `LeastRecentGoesFirst` | `PushedOutIsLeastRecent` |

### ServeStartupProofs

What a request may find depends on the stage startup has reached. `RouteInv`: every
catalog at hand stays within the routes, which are the selection, or what strict
startup leaves of it. `PrunedInv`: from the moment enablement is resolved nothing
outside Service Usage's report is exposed, and from `Narrow` on none is served, a
refresh computed meanwhile included. `FreshnessInv`: only the refresh fetches, once,
and only its last step shows what it fetched. `ModeInv` and `TokenInv` are what the
configuration rules out and what strict startup waits for.

The refinement of `CatalogPromise` needs one fact more, `FallbackInv`: a selection that
was not pruned is exposed whole, the fallback a refresh read is still the catalog that
is served, and what was fetched is what `Built` makes of both. The answers are no state
of this module; `AnswersKnown` names answers that explain the outcome (`FetchBuilds`),
where a failure with nothing to fall back on counts as a panic, which builds the same.

| Theorem | States |
|---|---|
| `EveryCallIsRoutable` | `CallsRoutable` |
| `FreshnessIsTrue` | `NeverOverstatesFreshness` |
| `PrunedServicesStayAway` | `PrunedStaysPruned` |
| `ReadyHadToken` | `ReadyMeansToken` |
| `FlatSurfaceIsPinned` | `FlatIsPinned` |
| `RefreshKeepsPromise` | `KeepsCatalogPromise`: the specification implements `CatalogPromise` |

### DiscoverGateProofs

`WireInv` (what is on the wire is the end of what was sent, in order) and `OpenInv`
(gate and rmcp agree on when the session opens, and the gate holds nothing back once
`receive` can be dropped) carry both properties over any number of messages.

| Theorem | States |
|---|---|
| `EveryMessageArrives` | `NoMessageLost` |
| `ProbingIsHarmless` | `FallbackWorks` |

### BackgroundStartupProofs

`ListingInv` and `RefreshInv` are inductive each for its half of the state, and
`HandoverInv` ties them to the phase. In the listing, the page token at hand is new
as long as it was not seen (`CursorInv`), and an end that was reached has collected
all that was reported (`CollectedInv`). In the fan-out, the services built so far are
exactly what the joined tasks contribute, in whatever order (`BuiltInv`), so sorting
them has one outcome: two arrangements of the same entries that are both in order
are equal.

`ToldInv` is about refusals. Whatever text an error chain renders, `status_from_text`
meets the upstream's status before any other number that may be one, and the
protocol's name is never one (`MessageOfRefusal`, `MessageOfNoAnswer`); no kind of
failure loses it (`StatusOfClassified`). The project in the text is one that
`validate_quota_project` let through, since the configuration is fixed while a call
may still be refused (`ProjectInv`), and `accept_project_id` takes each of those, with
or without a full stop behind it (`ProjectAccepted`).

The refinement of `CatalogPromise` rests on `BuiltInv`: once all tasks are joined, an
entry is in the outcome exactly when its service's answer puts it there
(`ContributionOf`), with the source the answer gives it, and sorting changes neither
(`FinishLands`). An outcome with a name claimed twice is given up and changes nothing
(`FinishKeeps`). The end of a task is the answer of its service (`EndAnswers`);
permits, joins and the clock are stutters.

| Theorem | States |
|---|---|
| `PageLimitIsExact` | `LimitIsExact` |
| `PagesAreNew` | `NoPageTwice` |
| `PermitsAreConserved` | `PermitsAccountedFor` |
| `OneFailureIsNotAll` | `FailureStaysContained` |
| `CatalogIsDetermined` | `OrderLeavesNoTrace` |
| `FailedServicesStay` | `FailedServiceIsKept`, proved only: it adds to the refinement that the tools kept of a failed service are those served before |
| `PrunedOnlyByAll` | `PrunedByWholeListing` |
| `RemediationIsExact` | `RemediationNamesTheProject` |
| `StatusIsRecovered` | `UpstreamStatusDecides` |
| `FanOutKeepsPromise` | `KeepsCatalogPromise`: the specification implements `CatalogPromise` |

### SnapshotFilesProofs

The two files belong together between commands because the command knows, from the
archive on, that the JSON holds its snapshot (`CommandInv`); a kill in between leaves
a file that is torn or of an older version, which `VersionInv` and the identity tests
tell from one that may be published. `WholeInv` follows a snapshot from the fan-out
into the files. What is in order stays as it is when it is sorted, and that is why
reading an archive gives back what was written.

| Theorem | States |
|---|---|
| `SuccessIsAPair` | `SuccessLeavesAPair` |
| `ReviewedIsServed` | `PublishedServesReviewed` |
| `NothingIsMissing` | `PublishedIsWhole` |

### MetaToolsProofs

The search: scoring yields each match once with a natural number (`ScoreSum`,
`Ranking`), cutting off leaves a selection of the right size of which each beats what
is left (`Leads`), and its sorted list is the beginning of the full ranking, for
every limit. The names: `SplitJoined` is that a name comes apart exactly where it was
put together, which needs a service id without a separator that does not end in half
of one. So a name has one meaning under every catalog (`ToldInv`), and the lookup
finds the one tool that has it (`GetFinds`).

The scores: a score is the reference's, the bonus and what each token earns, so it is
at least any of these and the first token's share together (`ScoreSum`). Name words
that are the query earn more than the 32 a reference can be worth (`NamedEarns`), and
a tool in whose name no token occurs earns nothing beside its reference
(`NothingEarned`), for no phrase is found where its first word is not
(`PhraseNeedsItsFirst`).

The spelling: if tokens stand in an id as `StandAt` says, what is left after each is
exactly the rest of the id from there, because an id does not begin with a separator
and trimming goes as far as the next token (`TokenTaken`, `StandingSpells`, by induction
over the tokens). With a brand word before it, the query spells the id without it
(`BrandDropped`), and the whole query is one of the runs `Reference` chooses from
(`RunSpells`, `QuerySpells`), so every tool of the service is a candidate with 32 or
more (`SpelledIsFound`).

| Theorem | States |
|---|---|
| `SearchRanksTheWhole` | `BestHitsInOrder` |
| `NamesLeadToTheirTools` | `CallReachesItsTool` |
| `BreakageIsLocal` | `BrokenToolIsContained` |
| `NoHitsNoMatches` | `EmptyMeansNoMatch` |
| `NamesBeatServices` | `NamedToolOutranks` |
| `SpelledServicesAreFound` | `ServiceIsFoundByItsName` |

### How recursion is proved about

The provers cannot use an induction theorem that takes an operator as a parameter.
`FilteringProofs!NaturalInduction` is induction for a *set* of numbers, derived from
the library's theorem that `<` on `Nat` is well-founded. With it, that a recursive
function exists and computes what its definition says is proved for `Kept`
(`KeptUpTo`), for `FlattenSeq` (`FlattenType`), for `Score` (`ScoreSum`), for the search
of a phrase (`FindsSomething`) and for `Rests` (`StandingSpells`).
`SelectSeq` and `SortSeq` cannot be unfolded in a proof; the modules proved about use
`Kept`, and describe the outcome of a sort by what is true of it.

### Only model-checked

* Liveness: `EveryCallReturns`, the fairness of `AuthPromise` (the last part of
  `ImplementsPromise`), `DispatchReturns`,
  `StartupSettles`, `StartupEnds`. With `ENABLED` it is out of the prover's reach.
* The violations of section 5, which are about single behaviours.

## 7. Not modelled

* What is in the headers, the wording of errors, payload layout, logging, tables on
  stdout.
* `drift_from`: compared catalogs are only logged. How the search splits and
  lowercases text, and its buffers.
* `sanitize_body`, which cleans and cuts a body that is passed through: a map over
  characters. The variants of `Error` other than `UpstreamFailure`: wording.
* The registry's hosts and paths; the settings of the HTTP client except its timeout.
* The bytes of the archive: rkyv and zstd are what they do to a snapshot. Two
  snapshot commands at once, and an edit while one runs. `print-catalog` and the
  working tree's snapshot it may load.
* `list_services` counts tools of the catalog `ServeStartup!ListServices` reads.
* Benchmarks, scripts and the data itself.
* rmcp, gcp_auth, the HTTP client, the release workflow: external, as the code uses
  them.

## 8. Plan

Done, in the order of what matters most: the token cache and its promise, the
sessions, startup, the fan-out, the listing, the gate, the search, the first proofs;
then the snapshot files, the surface with the lookup of names, and the startup from
its settings to the live catalog with its configuration and its errors; last, the
promise of the served catalog, which ties the two views of a startup together, and
the proofs about the speller and the scores. Every invariant and every action
property that a passing run checks is now stated by a theorem.

What is left is small:

* `drift_from`, once something other than a log line depends on it.
* The four liveness properties stay with TLC.
