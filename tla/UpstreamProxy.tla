---------------------------- MODULE UpstreamProxy ----------------------------
(****************************************************************************)
(* src/src/proxy.rs: dispatch of tool calls over cached upstream sessions,   *)
(* composed with the credential service as AuthPromise specifies it.         *)
(*                                                                           *)
(* A dispatcher is a task running Proxy::dispatch.  Every use of the lock on *)
(* `Proxy::sessions` is one step; the handshakes and the calls of the        *)
(* dispatchers overlap in between.  The upstreams and the network are        *)
(* external: a handshake or a call may succeed or fail, and a call that      *)
(* fails may have run its tool.                                              *)
(****************************************************************************)
EXTENDS Filtering, FiniteSets, Functions

CONSTANTS
    Dispatchers,    \* tasks running Proxy::dispatch
    Services,       \* the services Proxy::routes reaches
    Nothing,        \* no target or no session: no dispatch, or none yet
    MaxSessions,    \* Proxy::max_sessions
    IdleTtl,        \* Proxy::idle_ttl, in ticks
    MaxGeneration   \* bound: how many tokens a behaviour may cache

\* with_session_limits raises a bound of 0 to 1.
ASSUME LimitsAssumption ==
    /\ MaxSessions \in Nat \ {0}
    /\ IdleTtl \in Nat \ {0}
    /\ MaxGeneration \in Nat

ASSUME DispatchersAssumption == IsFiniteSet(Dispatchers)

VARIABLES
    generation, valid, backoff, asked, held,    \* the credential service
    sessions,       \* Proxy::sessions, ordered by CachedSession::last_used
    pc,             \* where each dispatch is
    target,         \* Route::service_id of each dispatch
    session,        \* the session each dispatch works with
    rejected,       \* generation rejected at its first handshake; 0: not retried

    \* History, read by no guard:
    handshakes,     \* handshakes the dispatch has opened, up to 3
    ran             \* times an upstream has run the tool for the dispatch

authVars == <<generation, valid, backoff, asked, held>>
localVars == <<target, session, rejected>>
historyVars == <<handshakes, ran>>
vars == <<authVars, sessions, pc, localVars, historyVars>>

Auth == INSTANCE AuthPromise WITH Callers <- Dispatchers

\* A session is an Arc: enough identities for those the cache and the
\* dispatchers can hold at once.
Ids == 1 .. Cardinality(Dispatchers) + MaxSessions

Session == [id : Ids, service : Services, generation : 1 .. MaxGeneration]

\* An absent session is no session.
ASSUME NothingAssumption == Nothing \notin Session

\* CachedSession: the session, and the time since a dispatch last used it.
CachedSession == [arc : Session, unused : 0 .. IdleTtl]

TypeOK ==
    /\ generation \in 0 .. MaxGeneration
    /\ valid \in BOOLEAN
    /\ backoff \in BOOLEAN
    /\ asked \subseteq Dispatchers
    /\ held \in [Dispatchers -> 0 .. MaxGeneration]
    /\ sessions \in Seq(CachedSession)
    /\ pc \in [Dispatchers -> {"idle", "ask", "headers", "clear", "lookup",
                               "handshake", "call", "evict"}]
    /\ target \in [Dispatchers -> Services \cup {Nothing}]
    /\ session \in [Dispatchers -> Session \cup {Nothing}]
    /\ rejected \in [Dispatchers -> 0 .. MaxGeneration]
    /\ handshakes \in [Dispatchers -> 0 .. 3]
    /\ ran \in [Dispatchers -> Nat]

Init ==
    /\ Auth!Init
    /\ sessions = <<>>
    /\ pc = [d \in Dispatchers |-> "idle"]
    /\ target = [d \in Dispatchers |-> Nothing]
    /\ session = [d \in Dispatchers |-> Nothing]
    /\ rejected = [d \in Dispatchers |-> 0]
    /\ handshakes = [d \in Dispatchers |-> 0]
    /\ ran = [d \in Dispatchers |-> 0]

-----------------------------------------------------------------------------
(* The session cache *)

Cached == {e.arc : e \in Range(sessions)}

\* A session a dispatch has just used is the most recent one.
Use(cache, arc) ==
    Append(Kept(cache, {e \in Range(cache) : e.arc.service # arc.service}),
           [arc |-> arc, unused |-> 0])

\* evict_idle: what has not been used for IdleTtl is closed.
EvictIdle(cache) == Kept(cache, {e \in Range(cache) : e.unused < IdleTtl})

\* Mutant: the most recently used session goes instead.
BugEvictNewest(cache) ==
    IF Len(cache) <= MaxSessions THEN cache ELSE SubSeq(cache, 1, MaxSessions)

\* enforce_bound: the least recently used sessions go until the rest fits.
EnforceBound(cache) ==
    IF Len(cache) <= MaxSessions THEN cache
    ELSE SubSeq(cache, Len(cache) - MaxSessions + 1, Len(cache))

\* An identity no Arc that is still held has.
FreshId ==
    LET live == {arc.id : arc \in Cached \cup (Range(session) \ {Nothing})}
    IN  CHOOSE i \in Ids \ live : \A j \in Ids \ live : i <= j

-----------------------------------------------------------------------------
(* Proxy::dispatch *)

Goto(d, label) == pc' = [pc EXCEPT ![d] = label]

\* The dispatch is over, and what it held is dropped.
Finish(d) ==
    /\ Goto(d, "idle")
    /\ target' = [target EXCEPT ![d] = Nothing]
    /\ session' = [session EXCEPT ![d] = Nothing]
    /\ rejected' = [rejected EXCEPT ![d] = 0]
    /\ Auth!LetGo(d)
    /\ handshakes' = [handshakes EXCEPT ![d] = 0]
    /\ ran' = [ran EXCEPT ![d] = 0]

\* try_dispatch has split the name and found the route; call_headers calls
\* apply_tracked ...
Start(d, s) ==
    /\ pc[d] = "idle"
    /\ target' = [target EXCEPT ![d] = s]
    /\ Auth!Ask(d)
    /\ Goto(d, "headers")
    /\ UNCHANGED <<sessions, session, rejected, historyVars>>

\* ... as it does for the second round of session_for ...
AskAgain(d) ==
    /\ pc[d] = "ask"
    /\ Auth!Ask(d)
    /\ Goto(d, "headers")
    /\ UNCHANGED <<sessions, localVars, historyVars>>

\* ... and is answered.
GetHeaders(d) ==
    /\ pc[d] = "headers"
    /\ Auth!Serve(d)
    /\ Goto(d, IF held'[d] = 0 THEN "clear" ELSE "lookup")
    /\ UNCHANGED <<sessions, localVars, historyVars>>

\* session_for: no credential is to be had, and no session is kept.
ClearSessions(d) ==
    /\ pc[d] = "clear"
    /\ sessions' = <<>>
    /\ Finish(d)

\* Mutant: whatever session is cached for the service is reused.
BugReusableAnyGeneration(d, arc) == arc.service = target[d]

\* open_or_reuse: the cached session carries the credential just applied.
Reusable(d, arc) == arc.service = target[d] /\ arc.generation = held[d]

\* open_or_reuse, under the lock: a session can be reused and its transport is
\* open.
Reuse(d) ==
    /\ pc[d] = "lookup"
    /\ \E e \in Range(EvictIdle(sessions)) :
          /\ Reusable(d, e.arc)
          /\ sessions' = Use(EvictIdle(sessions), e.arc)
          /\ session' = [session EXCEPT ![d] = e.arc]
    /\ Goto(d, "call")
    /\ UNCHANGED <<authVars, target, rejected, historyVars>>

\* open_or_reuse, under the lock: nothing to reuse.  A transport may turn out
\* to be closed at any time, so a current session does not rule this out.
OpenNew(d) ==
    /\ pc[d] = "lookup"
    /\ sessions' = EvictIdle(sessions)
    /\ handshakes' = [handshakes EXCEPT ![d] = IF @ < 3 THEN @ + 1 ELSE @]
    /\ Goto(d, "handshake")
    /\ UNCHANGED <<authVars, localVars, ran>>

\* The handshake, outside the lock, has succeeded; under the lock the session
\* replaces whatever is cached for the service.
HandshakeOk(d) ==
    /\ pc[d] = "handshake"
    /\ LET arc == [id |-> FreshId, service |-> target[d], generation |-> held[d]]
       IN  /\ session' = [session EXCEPT ![d] = arc]
           /\ sessions' = EnforceBound(Use(sessions, arc))
    /\ Goto(d, "call")
    /\ UNCHANGED <<authVars, target, rejected, historyVars>>

\* Mutant: the retry asks for headers again without invalidate().
BugKeepRejectedToken(d) ==
    /\ pc[d] = "handshake"
    /\ rejected[d] = 0
    /\ rejected' = [rejected EXCEPT ![d] = held[d]]
    /\ Goto(d, "ask")
    /\ UNCHANGED <<authVars, sessions, target, session, historyVars>>

\* Mutant: nor does it remember that it has retried.
BugRetryForever(d) ==
    /\ pc[d] = "handshake"
    /\ Goto(d, "ask")
    /\ UNCHANGED <<authVars, sessions, localVars, historyVars>>

\* The upstream rejects the first handshake as unauthorized: session_for
\* invalidates the token and goes round once more.
HandshakeUnauthorized(d) ==
    /\ pc[d] = "handshake"
    /\ rejected[d] = 0
    /\ rejected' = [rejected EXCEPT ![d] = held[d]]
    /\ Auth!Forget(d)
    /\ Goto(d, "ask")
    /\ UNCHANGED <<sessions, target, session, historyVars>>

\* The handshake fails for another reason, or is rejected once more.
HandshakeFailed(d) ==
    /\ pc[d] = "handshake"
    /\ Finish(d)
    /\ UNCHANGED sessions

\* call_tool returns the upstream's result.
CallOk(d) ==
    /\ pc[d] = "call"
    /\ Finish(d)
    /\ UNCHANGED sessions

\* call_tool fails, before the upstream has run the tool or after.
CallFailed(d) ==
    /\ pc[d] = "call"
    /\ \E executed \in {0, 1} : ran' = [ran EXCEPT ![d] = @ + executed]
    /\ Goto(d, "evict")
    /\ UNCHANGED <<authVars, sessions, localVars, handshakes>>

\* Mutant: the call is retried on a new session.
BugRetryCall(d) ==
    /\ pc[d] = "evict"
    /\ sessions' = Kept(sessions, {e \in Range(sessions) : e.arc # session[d]})
    /\ Goto(d, "lookup")
    /\ UNCHANGED <<authVars, localVars, historyVars>>

\* Mutant: whatever is cached for the service is dropped.
BugEvictByService(d) ==
    /\ pc[d] = "evict"
    /\ sessions' = Kept(sessions, {e \in Range(sessions) : e.arc.service # target[d]})
    /\ Finish(d)

\* evict, under the lock: the failed session goes if it is the one cached.
Evict(d) ==
    /\ pc[d] = "evict"
    /\ sessions' = Kept(sessions, {e \in Range(sessions) : e.arc # session[d]})
    /\ Finish(d)

-----------------------------------------------------------------------------
\* Time passes: sessions go idle ...
Tick ==
    /\ sessions' = [i \in DOMAIN sessions |->
          [sessions[i] EXCEPT !.unused = IF @ < IdleTtl THEN @ + 1 ELSE @]]
    /\ UNCHANGED <<authVars, pc, localVars, historyVars>>

\* ... and the credential service's own deadlines pass.
AuthTick ==
    /\ Auth!Expire \/ Auth!Cool
    /\ UNCHANGED <<sessions, pc, localVars, historyVars>>

\* One step of a dispatch that is under way.
Proceed(d) ==
    \/ AskAgain(d)
    \/ GetHeaders(d)
    \/ ClearSessions(d)
    \/ Reuse(d)
    \/ OpenNew(d)
    \/ HandshakeOk(d)
    \/ HandshakeUnauthorized(d)
    \/ HandshakeFailed(d)
    \/ CallOk(d)
    \/ CallFailed(d)
    \/ Evict(d)

Next ==
    \/ \E d \in Dispatchers : Proceed(d) \/ \E s \in Services : Start(d, s)
    \/ Tick
    \/ AuthTick

\* The runtime polls every dispatch; AuthContext answers every caller
\* (AuthContext!EveryCallReturns); the shared client bounds every request.
Spec == Init /\ [][Next]_vars /\ \A d \in Dispatchers : WF_vars(Proceed(d))

-----------------------------------------------------------------------------
(* Properties *)

\* proxy.rs MAX_SESSIONS: whatever the dispatches open, the cache never holds
\* more sessions than its bound.
CacheBounded == Len(sessions) <= MaxSessions

\* proxy.rs try_dispatch, "never double-execute a tool": a call is only sent
\* while no upstream has run the tool for this dispatch, however earlier calls
\* and handshakes have failed.
ToolRunsAtMostOnce == \A d \in Dispatchers : pc[d] = "call" => ran[d] = 0

\* proxy.rs session_for: a dispatch opens at most two sessions, and the second
\* never with the token the upstream rejected, nor an older one.
RetryOnceWithNewerToken ==
    \A d \in Dispatchers :
       /\ handshakes[d] <= 2
       /\ pc[d] = "handshake" => held[d] > rejected[d]

\* proxy.rs open_or_reuse: a call travels in a session of its own service that
\* was built from the credential its dispatch has applied.
CallCarriesAppliedCredential ==
    \A d \in Dispatchers : pc[d] = "call" =>
       session[d].service = target[d] /\ session[d].generation = held[d]

\* proxy.rs evict: a failed call takes its own session out of the cache; one on
\* which no call has failed, put there by another dispatch since, stays.
EvictSparesReplacement ==
    [][\A d \in Dispatchers : pc[d] = "evict" /\ pc'[d] = "idle" =>
          \A arc \in Cached :
             (\A c \in Dispatchers : pc[c] = "evict" => session[c] # arc)
                => arc \in Cached']_vars

\* proxy.rs enforce_bound: a new session enters a cache that stays within its
\* bound, and only pushes out one that was used no more recently than the rest.
PushedOutIsLeastRecent ==
    [][\A d \in Dispatchers : pc[d] = "handshake" /\ pc'[d] = "call" =>
          /\ CacheBounded'
          /\ session'[d] \in Cached'
          /\ \A gone, kept \in Range(sessions) :
                /\ gone.arc \notin Cached'
                /\ kept.arc \in Cached'
                => gone.arc.service = target[d] \/ gone.unused >= kept.unused]_vars

\* Every dispatch comes to an end.
DispatchReturns == \A d \in Dispatchers : pc[d] # "idle" ~> pc[d] = "idle"

\* proxy.rs open_or_reuse, a race to open a session "costs one redundant
\* handshake and nothing else": the session that wins the cache is not built
\* from an older credential than the one it replaces.
CacheNeverGoesBack ==
    [][\A old \in Cached, new \in Cached' :
          old.service = new.service => old.generation <= new.generation]_vars

\* proxy.rs session_for, "a session exists only while the credential it carries
\* is current; with none obtainable, none may linger": while the source is in
\* backoff and every dispatch that was refused has cleared the cache, the cache
\* is empty.
NoneLingersInBackoff ==
    backoff /\ (\A d \in Dispatchers : pc[d] # "clear") => sessions = <<>>
=============================================================================
