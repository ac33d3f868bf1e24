----------------------------- MODULE AuthContext -----------------------------
(****************************************************************************)
(* src/src/auth.rs: the token cache behind every upstream call.              *)
(*                                                                           *)
(* `CacheState` sits behind a tokio Mutex, which is fair: `queue` holds the   *)
(* tasks waiting for it in the order they asked, and its head is the task    *)
(* that has the lock.  apply_tracked keeps the lock across the fetch, so a   *)
(* fetch in progress is a `phase` of the head.                               *)
(*                                                                           *)
(* Time is counted in ticks.  Deadlines are kept as the time left to them:   *)
(* `token` counts down to expiry, `cooling` to the end of the window a       *)
(* failure is held for (0: no failure, or an old one), `budget` to the end   *)
(* of TOKEN_FETCH_TIMEOUT.                                                    *)
(****************************************************************************)
EXTENDS Integers, Sequences

CONSTANTS
    Callers,        \* tasks that call apply_tracked and invalidate
    NoToken,        \* CacheState::token = None
    Margin,         \* REFRESH_MARGIN, in ticks
    FetchTimeout,   \* TOKEN_FETCH_TIMEOUT and DISCOVERY_TIMEOUT
    Cooldown,       \* FETCH_FAILURE_COOLDOWN
    Floor,          \* EXPIRED_TOKEN_FLOOR
    MaxLifetime,    \* bound: the longest finite lifetime a source grants
    MaxGeneration   \* bound: how many tokens a behaviour may cache

ASSUME DurationsAssumption ==
    /\ Margin \in Nat
    /\ FetchTimeout \in Nat
    /\ Cooldown \in Nat \ {0}
    /\ Floor \in Nat
    /\ MaxLifetime \in Nat
    /\ Margin < Floor
    /\ Floor <= MaxLifetime

ASSUME MaxGenerationAssumption == MaxGeneration \in Nat \ {0}

ASSUME NoTokenAssumption == NoToken \notin Int

\* The time left of a token whose source reports no expiry: it never elapses.
Forever == MaxLifetime + 1

Lifetimes == 0 .. Forever

VARIABLES
    token,          \* time left of the cached token, or NoToken
    cooling,        \* time left of the cooldown
    generation,     \* tokens cached so far
    provider,       \* LazyGcpTokenSource::provider is initialised
    queue,          \* the tasks at the mutex, the holder first
    want,           \* what each task is at the mutex for
    held,           \* generation each task's headers carry; 0 is none
    phase,          \* how far the holder's fetch has got
    budget,         \* time left of the fetch

    \* History, read by no guard:
    quiet,          \* time since a fetch last failed, up to Cooldown
    skewed,         \* the last token fetched looked expired on arrival
    trusted         \* time since it was cached, up to Floor - Margin

cacheVars   == <<token, cooling, generation>>
fetchVars   == <<phase, budget, provider>>
callerVars  == <<queue, want, held>>
historyVars == <<quiet, skewed, trusted>>
vars == <<cacheVars, fetchVars, callerVars, historyVars>>

TypeOK ==
    /\ token \in Lifetimes \cup {NoToken}
    /\ cooling \in 0 .. Cooldown
    /\ generation \in 0 .. MaxGeneration
    /\ provider \in BOOLEAN
    /\ queue \in Seq(Callers)
    /\ want \in [Callers -> {"nothing", "credential", "invalidation"}]
    /\ held \in [Callers -> 0 .. MaxGeneration]
    /\ phase \in {"idle", "discover", "token"}
    /\ budget \in 0 .. FetchTimeout
    /\ quiet \in 0 .. Cooldown
    /\ skewed \in BOOLEAN
    /\ trusted \in 0 .. Floor - Margin

\* AuthContext::new hands over a discovered provider, new_lazy an empty cell.
Init ==
    /\ token = NoToken
    /\ cooling = 0
    /\ generation = 0
    /\ provider \in BOOLEAN
    /\ queue = <<>>
    /\ want = [c \in Callers |-> "nothing"]
    /\ held = [c \in Callers |-> 0]
    /\ phase = "idle"
    /\ budget = 0
    /\ quiet = Cooldown
    /\ skewed = FALSE
    /\ trusted = Floor - Margin

-----------------------------------------------------------------------------
(* Helpers *)

\* CachedToken::is_stale: the deadline is no further off than the margin.
IsStale(left) == left \in 0 .. Margin

\* The condition of apply_tracked under which the cached token is not used.
NeedsFetch == token = NoToken \/ IsStale(token)

\* Mutant: the floor is one margin, so the token is stale on the next call.
BugFloorIsMargin(left) == IF left = 0 THEN Margin ELSE left

\* floor_expiry: an elapsed deadline is pushed out, any other is kept.
FloorExpiry(left) == IF left = 0 THEN Floor ELSE left

\* A deadline, one tick later.
Elapse(left) == IF left \in {NoToken, Forever, 0} THEN left ELSE left - 1

Holds(c, what) == queue # <<>> /\ Head(queue) = c /\ want[c] = what

Enqueue(c, what) ==
    /\ want[c] = "nothing"
    /\ want' = [want EXCEPT ![c] = what]
    /\ queue' = Append(queue, c)
    /\ UNCHANGED <<cacheVars, fetchVars, historyVars, held>>

\* The holder drops the guard and returns to its caller with generation g.
Return(c, g) ==
    /\ queue' = Tail(queue)
    /\ want' = [want EXCEPT ![c] = "nothing"]
    /\ held' = [held EXCEPT ![c] = g]
    /\ phase' = "idle"
    /\ budget' = 0

\* hold_failure, and the record apply_tracked writes in its place for a token
\* that cannot be rendered: the window opens, a stale token is left where it is.
HoldFailure ==
    /\ cooling' = Cooldown
    /\ quiet' = 0
    /\ UNCHANGED <<token, generation, skewed, trusted>>

-----------------------------------------------------------------------------
(* apply_tracked *)

Ask(c) == Enqueue(c, "credential")

\* The cached token is fresh: its header is copied.
UseCached(c) ==
    /\ Holds(c, "credential")
    /\ phase = "idle"
    /\ ~NeedsFetch
    /\ Return(c, generation)
    /\ UNCHANGED <<cacheVars, provider, historyVars>>

\* No fresh token, and a recent failure: CredentialsCoolingDown.
StayCool(c) ==
    /\ Holds(c, "credential")
    /\ phase = "idle"
    /\ NeedsFetch
    /\ cooling > 0
    /\ Return(c, 0)
    /\ UNCHANGED <<cacheVars, provider, historyVars>>

\* Mutant: the guard is dropped for the fetch and the lock is queued for anew.
BugFetchUnlocked(c) ==
    /\ Holds(c, "credential")
    /\ phase = "idle"
    /\ NeedsFetch
    /\ cooling = 0
    /\ phase' = IF provider THEN "token" ELSE "discover"
    /\ budget' = FetchTimeout
    /\ queue' = Append(Tail(queue), c)
    /\ UNCHANGED <<cacheVars, provider, want, held, historyVars>>

\* No fresh token: source.fetch() starts, discovering the provider if need be.
StartFetch(c) ==
    /\ Holds(c, "credential")
    /\ phase = "idle"
    /\ NeedsFetch
    /\ cooling = 0
    /\ phase' = IF provider THEN "token" ELSE "discover"
    /\ budget' = FetchTimeout
    /\ UNCHANGED <<cacheVars, provider, callerVars, historyVars>>

\* discover_provider succeeds; the cell keeps the provider for good.
Discovered ==
    /\ phase = "discover"
    /\ phase' = "token"
    /\ provider' = TRUE
    /\ UNCHANGED <<cacheVars, budget, callerVars, historyVars>>

\* Mutant: the new token is cached under the generation of the old one.
BugKeepGeneration(c, left) ==
    /\ Holds(c, "credential")
    /\ phase = "token"
    /\ generation < MaxGeneration
    /\ token' = FloorExpiry(left)
    /\ cooling' = 0
    /\ Return(c, generation)
    /\ skewed' = (left = 0)
    /\ trusted' = 0
    /\ UNCHANGED <<provider, quiet, generation>>

\* The source answers with a token that renders as a header.
FetchOk(c, left) ==
    /\ Holds(c, "credential")
    /\ phase = "token"
    /\ generation < MaxGeneration
    /\ token' = FloorExpiry(left)
    /\ cooling' = 0
    /\ generation' = generation + 1
    /\ Return(c, generation')
    /\ skewed' = (left = 0)
    /\ trusted' = 0
    /\ UNCHANGED <<provider, quiet>>

\* Discovery or the token request fails.
FetchErr(c) ==
    /\ Holds(c, "credential")
    /\ phase # "idle"
    /\ HoldFailure
    /\ Return(c, 0)
    /\ UNCHANGED provider

\* Mutant: the rendering error leaves apply_tracked by `?`, unrecorded.
BugForgetUnrenderable(c) ==
    /\ Holds(c, "credential")
    /\ phase = "token"
    /\ quiet' = 0
    /\ Return(c, 0)
    /\ UNCHANGED <<cacheVars, provider, skewed, trusted>>

\* The fetch succeeds with a token CachedToken::from_fetched rejects.
FetchUnrenderable(c) ==
    /\ Holds(c, "credential")
    /\ phase = "token"
    /\ HoldFailure
    /\ Return(c, 0)
    /\ UNCHANGED provider

\* Mutant: one timeout around block_in_place, which discovery never yields to.
BugNoInnerTimeout(c) ==
    /\ Holds(c, "credential")
    /\ phase = "token"
    /\ budget = 0
    /\ HoldFailure
    /\ Return(c, 0)
    /\ UNCHANGED provider

\* The budget runs out: in discovery by drive_blocking's inner timeout, else by
\* the timeout around the fetch.  Either way the next attempt is held back.
FetchTimedOut(c) ==
    /\ Holds(c, "credential")
    /\ phase # "idle"
    /\ budget = 0
    /\ HoldFailure
    /\ Return(c, 0)
    /\ UNCHANGED provider

-----------------------------------------------------------------------------
(* invalidate *)

\* An upstream rejected the headers the task holds.
Reject(c) == held[c] # 0 /\ Enqueue(c, "invalidation")

\* Mutant: invalidate() names no generation.
BugInvalidateAny(c) ==
    /\ Holds(c, "invalidation")
    /\ token' = NoToken
    /\ Return(c, 0)
    /\ UNCHANGED <<cooling, generation, provider, historyVars>>

\* invalidate: the token goes only if the task holds its generation.
Invalidate(c) ==
    /\ Holds(c, "invalidation")
    /\ token' = IF generation = held[c] THEN NoToken ELSE token
    /\ Return(c, 0)
    /\ UNCHANGED <<cooling, generation, provider, historyVars>>

\* A task drops its headers, or the session built from them.
LetGo(c) ==
    /\ want[c] = "nothing"
    /\ held[c] # 0
    /\ held' = [held EXCEPT ![c] = 0]
    /\ UNCHANGED <<cacheVars, fetchVars, queue, want, historyVars>>

-----------------------------------------------------------------------------
\* One tick.  A fetch whose budget is spent is over before the clock moves on.
Tick ==
    /\ phase = "idle" \/ budget > 0
    /\ token' = Elapse(token)
    /\ cooling' = IF cooling > 0 THEN cooling - 1 ELSE 0
    /\ budget' = IF phase = "idle" THEN 0 ELSE budget - 1
    /\ quiet' = IF quiet < Cooldown THEN quiet + 1 ELSE quiet
    /\ trusted' = IF trusted < Floor - Margin THEN trusted + 1 ELSE trusted
    /\ UNCHANGED <<generation, provider, phase, callerVars, skewed>>

\* What the holder of the lock may do by itself.
Holder(c) ==
    \/ UseCached(c)
    \/ StayCool(c)
    \/ StartFetch(c)
    \/ FetchTimedOut(c)
    \/ Invalidate(c)

\* What the credential source answers, when it answers.
Source(c) ==
    \/ FetchErr(c)
    \/ FetchUnrenderable(c)
    \/ \E left \in Lifetimes : FetchOk(c, left)

Step ==
    \/ \E c \in Callers : Ask(c) \/ Reject(c) \/ LetGo(c) \/ Holder(c) \/ Source(c)
    \/ Discovered

Next == Step \/ Tick

\* The runtime polls a task that has the lock and the clock goes on.  Nothing
\* is assumed of the credential source: it may never answer.
Fairness ==
    /\ \A c \in Callers : WF_vars(Holder(c))
    /\ WF_vars(Tick)

Spec == Init /\ [][Next]_vars /\ Fairness

-----------------------------------------------------------------------------
(* Properties *)

\* A failure stands in for the token (apply_tracked, hold_failure): it is never
\* held against the source beside a token that could be used.
NoFailureBesideFreshToken == cooling > 0 => NeedsFetch

\* The lock protocol: a task is in the queue once, and exactly while it wants
\* something; a fetch runs only for the task that holds the lock.
LockInv ==
    /\ \A i, j \in 1 .. Len(queue) : queue[i] = queue[j] => i = j
    /\ \A c \in Callers :
          want[c] # "nothing" <=> \E i \in 1 .. Len(queue) : queue[i] = c
    /\ phase # "idle" =>
          queue # <<>> /\ want[Head(queue)] = "credential"

\* While a fetch is under way nothing makes it needless: the token is still
\* unusable and no cooldown is open, however long the fetch takes.
FetchInv == phase # "idle" => NeedsFetch /\ quiet = Cooldown

\* Headers a task holds come from a token that was cached.
HeldInv ==
    /\ \A c \in Callers : held[c] <= generation
    /\ \A c \in Callers : want[c] = "invalidation" => held[c] # 0
    /\ token # NoToken => generation > 0

\* What is recorded of failures is what happened: the window that is open is
\* the rest of Cooldown since the last fetch that failed.
CoolingInv == cooling = Cooldown - quiet

\* A token that looked expired on arrival lives as if it had been given Floor.
FloorInv ==
    skewed /\ token # NoToken /\ trusted < Floor - Margin
       => token = Floor - trusted

\* The inductive invariant of the module: the lock protocol, what a fetch in
\* progress relies on, and that the recorded deadlines tell the history.
IndInv ==
    /\ TypeOK
    /\ LockInv
    /\ FetchInv
    /\ HeldInv
    /\ CoolingInv
    /\ FloorInv
    /\ NoFailureBesideFreshToken

\* auth.rs FETCH_FAILURE_COOLDOWN: no fetch starts until Cooldown has passed
\* since the last failed one, of whatever kind - an error, a timeout or a token
\* that cannot be rendered.
CooldownRespected ==
    [][phase = "idle" /\ phase' # "idle" => quiet = Cooldown]_vars

\* auth.rs EXPIRED_TOKEN_FLOOR: a source whose clock is skewed does not make
\* every request fetch; its token serves for Floor - Margin unless an upstream
\* rejects it.
SkewCausesNoRefetchStorm ==
    [][phase = "idle" /\ phase' # "idle" /\ skewed /\ token # NoToken
          => trusted = Floor - Margin]_vars

\* auth.rs apply_tracked: the generation changes exactly when a fresh token is
\* cached; in particular a caller that compares generations never misses a
\* rotation and never sees one that did not happen.
GenerationNamesToken ==
    [][/\ generation' # generation =>
             token' # NoToken /\ generation' = generation + 1
       /\ token' \notin {token, NoToken} /\ token' # Elapse(token) =>
             generation' # generation]_vars

\* auth.rs invalidate: only a task whose own headers carry the current
\* generation can discard the token, so of the tasks that hit one rejection
\* none discards the replacement another has already fetched.
OnlyRejectedTokenDiscarded ==
    [][token # NoToken /\ token' = NoToken =>
          \E c \in Callers : /\ want[c] = "invalidation"
                             /\ want'[c] = "nothing"
                             /\ held[c] = generation]_vars

\* auth.rs TOKEN_FETCH_TIMEOUT: a source that never answers does not hold the
\* lock for ever; every call of apply_tracked and invalidate returns.
EveryCallReturns ==
    \A c \in Callers : want[c] # "nothing" ~> want[c] = "nothing"

\* The promise made to the callers, in terms of this module's state.
Promise == INSTANCE AuthPromise WITH
    valid   <- ~NeedsFetch,
    backoff <- cooling > 0,
    asked   <- {c \in Callers : want[c] = "credential"}

\* AuthContext implements AuthPromise.
ImplementsPromise == Promise!Spec
=============================================================================
