-------------------------- MODULE ServeStartupProofs --------------------------
(****************************************************************************)
(* Theorems about ServeStartup, for any services, any selection, any        *)
(* snapshot and any number of clients.  IndInv is inductive: what startup   *)
(* has established at each of its stages, and what the catalogs may hold    *)
(* while the requests overlap with it.                                      *)
(*                                                                          *)
(* RefreshKeepsPromise, at the end, is the refinement of CatalogPromise.    *)
(* It needs one fact more, FallbackInv: what a refresh falls back on is     *)
(* what is served.                                                          *)
(****************************************************************************)
EXTENDS ServeStartup, TLAPS

USE ServicesAssumption, MaxGenerationAssumption

-----------------------------------------------------------------------------
(* The inductive invariant *)

\* The stages of startup once what it serves is published ...
Settled == {"refresh", "fetch", "swap", "done"}

\* ... and once the catalog is narrowed to what it leaves exposed.
Narrowed == {"publish"} \cup Settled

\* What the configuration decides: strict startup serves nothing before the
\* outcome is published, and a flat surface is not refreshed.
ModeInv ==
    /\ config.flat => config.strict
    /\ config.flat => pc \notin {"refresh", "fetch", "swap"}
    /\ config.strict /\ serving => pc \in Settled
    /\ ~serving => \A c \in Clients : view[c] = Nothing
    /\ readiness.enablement # "pending" => pc \in Settled

\* Every catalog a request can find stays within the routes: those of the whole
\* selection, or, under strict startup, of what it leaves exposed.
RouteInv ==
    /\ exposed \subseteq Configured
    /\ ~config.strict => routes = Configured
    /\ config.strict /\ pc \in Narrowed => routes = exposed
    /\ DOMAIN startup \subseteq routes
    /\ DOMAIN live \subseteq routes
    /\ pc = "swap" => DOMAIN fresh \subseteq exposed
    /\ CallsRoutable

\* Once enablement was resolved from Service Usage's report, nothing outside it
\* is exposed, and from Narrow on nothing else is in the catalog.  What is
\* published is how it was resolved.
PrunedInv ==
    /\ enablement = "pruned" =>
          /\ exposed \subseteq enabled
          /\ pc \in {"narrow"} \cup Narrowed
          /\ pc \in Narrowed => DOMAIN live \subseteq exposed
    /\ readiness.enablement \in {"pending", enablement}

\* The services a catalog calls live are among those fetched.
Honest(catalog, F) == \A s \in DOMAIN catalog : catalog[s] = "live" => s \in F

\* What requests have been shown as fetched: nothing, until the refresh is over.
Shown == IF pc = "done" THEN fetched ELSE {}

\* Only the refresh fetches tools, once, and only its Swap shows them.
FreshnessInv ==
    /\ Honest(startup, {})
    /\ Honest(live, Shown)
    /\ \A c \in Clients : view[c] # Nothing => Honest(view[c], Shown)
    /\ pc = "swap" => Honest(fresh, fetched)

\* Strict startup goes no further without a token.
TokenInv ==
    /\ config.strict /\ pc \in {"enablement", "usage", "listing", "narrow", "publish"}
          => generation > 0
    /\ ReadyMeansToken

IndInv == TypeOK /\ ModeInv /\ RouteInv /\ PrunedInv /\ FreshnessInv /\ TokenInv

-----------------------------------------------------------------------------
(* Catalogs and credentials *)

\* A catalog is a function from services to the source of their tools.
LEMMA CatalogType ==
    /\ \A S \in SUBSET Services : [S -> {"snapshot", "live"}] \subseteq Catalogs
    /\ \A catalog \in Catalogs :
          /\ DOMAIN catalog \in SUBSET Services
          /\ catalog \in [DOMAIN catalog -> {"snapshot", "live"}]
BY DEF Catalogs

\* The state of the credential service.
AuthType ==
    /\ generation \in 0 .. MaxGeneration
    /\ valid \in BOOLEAN
    /\ backoff \in BOOLEAN
    /\ asked \subseteq Clients \cup {Startup}
    /\ held \in [Clients \cup {Startup} -> 0 .. MaxGeneration]

\* It only ever caches further tokens ...
LEMMA AuthSteps ==
    ASSUME TypeOK, NEW c \in Clients \cup {Startup},
           Auth!Ask(c) \/ Auth!Serve(c) \/ Auth!LetGo(c) \/ Auth!Expire \/ Auth!Cool
    PROVE  AuthType' /\ generation' >= generation
<1> USE DEF TypeOK, AuthType, Auth!Answer
<1>1. CASE Auth!Ask(c)
  BY <1>1 DEF Auth!Ask
<1>2. CASE Auth!LetGo(c)
  BY <1>2 DEF Auth!LetGo
<1>3. CASE Auth!Expire \/ Auth!Cool
  <2>1. generation' = generation /\ asked' = asked /\ held' = held
    BY <1>3 DEF Auth!Expire, Auth!Cool
  <2>2. valid' \in BOOLEAN /\ backoff' \in BOOLEAN
    BY <1>3, Zenon DEF Auth!Expire, Auth!Cool
  <2> QED
    BY <2>1, <2>2
<1>4. CASE Auth!Grant(c)
  BY <1>4 DEF Auth!Grant
<1>5. CASE Auth!Renew(c)
  BY <1>5 DEF Auth!Renew
<1>6. CASE Auth!Fail(c)
  BY <1>6 DEF Auth!Fail
<1>7. CASE Auth!Refuse(c)
  BY <1>7 DEF Auth!Refuse
<1> QED
  BY <1>1, <1>2, <1>3, <1>4, <1>5, <1>6, <1>7 DEF Auth!Serve

\* ... and answers with one it has cached, or with none.
LEMMA ServedToken ==
    ASSUME TypeOK, NEW c \in Clients \cup {Startup}, Auth!Serve(c), held'[c] # 0
    PROVE  generation' > 0
BY DEF TypeOK, Auth!Serve, Auth!Grant, Auth!Renew, Auth!Fail, Auth!Refuse, Auth!Answer

-----------------------------------------------------------------------------
(* Every step preserves the invariant *)

\* Startup's first stages preserve the invariant: the credential chain ...
LEMMA DiscoverInv ==
    ASSUME IndInv, Discover
    PROVE  IndInv'
<1> USE DEF IndInv, Discover, authVars, catalogVars, readinessVars, clientVars, historyVars
<1>1. TypeOK'
  BY DEF TypeOK, AuthType
<1>2. ModeInv'
  BY DEF TypeOK, ModeInv, Settled
<1>3. RouteInv'
  BY DEF TypeOK, ModeInv, RouteInv, CallsRoutable, Settled, Narrowed
<1>4. PrunedInv'
  BY DEF TypeOK, ModeInv, PrunedInv, Settled, Narrowed
<1>5. FreshnessInv'
  BY DEF TypeOK, ModeInv, FreshnessInv, Shown, Honest
<1>6. TokenInv'
  BY DEF TypeOK, ModeInv, TokenInv, ReadyMeansToken, AuthType
<1> QED
  BY <1>1, <1>2, <1>3, <1>4, <1>5, <1>6

\* ... the first token asked for ...
LEMMA AskCredentialsInv ==
    ASSUME IndInv, AskCredentials
    PROVE  IndInv'
<1> USE DEF IndInv, AskCredentials, authVars, catalogVars, readinessVars, clientVars, historyVars, Auth!Ask
<1>0. AuthType' /\ generation' >= generation
  BY AuthSteps
<1>1. TypeOK'
  BY <1>0 DEF TypeOK, AuthType
<1>2. ModeInv'
  BY <1>0 DEF TypeOK, ModeInv, Settled
<1>3. RouteInv'
  BY <1>0 DEF TypeOK, ModeInv, RouteInv, CallsRoutable, Settled, Narrowed
<1>4. PrunedInv'
  BY <1>0 DEF TypeOK, ModeInv, PrunedInv, Settled, Narrowed
<1>5. FreshnessInv'
  BY <1>0 DEF TypeOK, ModeInv, FreshnessInv, Shown, Honest
<1>6. TokenInv'
  BY <1>0 DEF TypeOK, ModeInv, TokenInv, ReadyMeansToken, AuthType
<1> QED
  BY <1>1, <1>2, <1>3, <1>4, <1>5, <1>6

\* ... and the answer.
LEMMA AcquireCredentialsInv ==
    ASSUME IndInv, AcquireCredentials
    PROVE  IndInv'
<1> USE DEF IndInv, AcquireCredentials, authVars, catalogVars, readinessVars, clientVars, historyVars
<1>0. /\ AuthType' /\ generation' >= generation
      /\ held'[Startup] # 0 => generation' > 0
  BY AuthSteps, ServedToken
<1>1. TypeOK'
  <2>1. readiness' \in Readiness
    BY DEF TypeOK, Readiness
  <2>2. pc' \in {"exited", "enablement"}
    OBVIOUS
  <2> QED
    BY <1>0, <2>1, <2>2 DEF TypeOK, AuthType
<1>2. ModeInv'
  BY <1>0 DEF TypeOK, ModeInv, Settled
<1>3. RouteInv'
  BY <1>0 DEF TypeOK, ModeInv, RouteInv, CallsRoutable, Settled, Narrowed
<1>4. PrunedInv'
  BY <1>0 DEF TypeOK, ModeInv, PrunedInv, Settled, Narrowed
<1>5. FreshnessInv'
  BY <1>0 DEF TypeOK, ModeInv, FreshnessInv, Shown, Honest
<1>6. TokenInv'
  BY <1>0 DEF TypeOK, ModeInv, TokenInv, ReadyMeansToken, AuthType
<1> QED
  BY <1>1, <1>2, <1>3, <1>4, <1>5, <1>6

\* Enablement is resolved, one way ...
LEMMA SkipUsageInv ==
    ASSUME IndInv, SkipUsage
    PROVE  IndInv'
<1> USE DEF IndInv, SkipUsage, authVars, catalogVars, readinessVars, clientVars, historyVars, Resolved
<1>1. TypeOK'
  BY DEF TypeOK, AuthType
<1>2. ModeInv'
  BY DEF TypeOK, ModeInv, Settled
<1>3. RouteInv'
  BY DEF TypeOK, ModeInv, RouteInv, CallsRoutable, Settled, Narrowed
<1>4. PrunedInv'
  BY DEF TypeOK, ModeInv, PrunedInv, Settled, Narrowed
<1>5. FreshnessInv'
  BY DEF TypeOK, ModeInv, FreshnessInv, Shown, Honest
<1>6. TokenInv'
  BY DEF TypeOK, ModeInv, TokenInv, ReadyMeansToken, AuthType
<1> QED
  BY <1>1, <1>2, <1>3, <1>4, <1>5, <1>6

\* ... or another ...
LEMMA GiveUpUsageInv ==
    ASSUME IndInv, GiveUpUsage
    PROVE  IndInv'
<1> USE DEF IndInv, GiveUpUsage, authVars, catalogVars, readinessVars, clientVars, historyVars, Resolved
<1>1. TypeOK'
  BY DEF TypeOK, AuthType
<1>2. ModeInv'
  BY DEF TypeOK, ModeInv, Settled
<1>3. RouteInv'
  BY DEF TypeOK, ModeInv, RouteInv, CallsRoutable, Settled, Narrowed
<1>4. PrunedInv'
  BY DEF TypeOK, ModeInv, PrunedInv, Settled, Narrowed
<1>5. FreshnessInv'
  BY DEF TypeOK, ModeInv, FreshnessInv, Shown, Honest
<1>6. TokenInv'
  BY DEF TypeOK, ModeInv, TokenInv, ReadyMeansToken, AuthType
<1> QED
  BY <1>1, <1>2, <1>3, <1>4, <1>5, <1>6

\* ... or Service Usage is to be asked ...
LEMMA AskUsageInv ==
    ASSUME IndInv, AskUsage
    PROVE  IndInv'
<1> USE DEF IndInv, AskUsage, authVars, catalogVars, readinessVars, clientVars, historyVars
<1>0. AuthType' /\ generation' >= generation
  BY AuthSteps
<1>1. TypeOK'
  BY <1>0 DEF TypeOK, AuthType
<1>2. ModeInv'
  BY <1>0 DEF TypeOK, ModeInv, Settled
<1>3. RouteInv'
  BY <1>0 DEF TypeOK, ModeInv, RouteInv, CallsRoutable, Settled, Narrowed
<1>4. PrunedInv'
  BY <1>0 DEF TypeOK, ModeInv, PrunedInv, Settled, Narrowed
<1>5. FreshnessInv'
  BY <1>0 DEF TypeOK, ModeInv, FreshnessInv, Shown, Honest
<1>6. TokenInv'
  BY <1>0 DEF TypeOK, ModeInv, TokenInv, ReadyMeansToken, AuthType
<1> QED
  BY <1>1, <1>2, <1>3, <1>4, <1>5, <1>6

\* ... if there is a credential ...
LEMMA CredentialUsageInv ==
    ASSUME IndInv, CredentialUsage
    PROVE  IndInv'
<1> USE DEF IndInv, CredentialUsage, authVars, catalogVars, readinessVars, clientVars, historyVars, Resolved
<1>0. AuthType' /\ generation' >= generation
  BY AuthSteps
<1>1. TypeOK'
  BY <1>0 DEF TypeOK, AuthType
<1>2. ModeInv'
  BY <1>0 DEF TypeOK, ModeInv, Settled
<1>3. RouteInv'
  BY <1>0 DEF TypeOK, ModeInv, RouteInv, CallsRoutable, Settled, Narrowed
<1>4. PrunedInv'
  BY <1>0 DEF TypeOK, ModeInv, PrunedInv, Settled, Narrowed
<1>5. FreshnessInv'
  BY <1>0 DEF TypeOK, ModeInv, FreshnessInv, Shown, Honest
<1>6. TokenInv'
  BY <1>0 DEF TypeOK, ModeInv, TokenInv, ReadyMeansToken, AuthType
<1> QED
  BY <1>1, <1>2, <1>3, <1>4, <1>5, <1>6

\* ... and reports, or does not.
LEMMA ListUsageInv ==
    ASSUME IndInv, ListUsage
    PROVE  IndInv'
<1> USE DEF IndInv, ListUsage, authVars, catalogVars, readinessVars, clientVars, historyVars, Resolved, Selected
<1>1. TypeOK'
  BY DEF TypeOK, AuthType
<1>2. ModeInv'
  BY DEF TypeOK, ModeInv, Settled
<1>3. RouteInv'
  BY DEF TypeOK, ModeInv, RouteInv, CallsRoutable, Settled, Narrowed
<1>4. PrunedInv'
  BY DEF TypeOK, ModeInv, PrunedInv, Settled, Narrowed
<1>5. FreshnessInv'
  BY DEF TypeOK, ModeInv, FreshnessInv, Shown, Honest
<1>6. TokenInv'
  BY DEF TypeOK, ModeInv, TokenInv, ReadyMeansToken, AuthType
<1> QED
  BY <1>1, <1>2, <1>3, <1>4, <1>5, <1>6

\* The catalog is narrowed to what is exposed.
LEMMA NarrowInv ==
    ASSUME IndInv, Narrow
    PROVE  IndInv'
<1> USE DEF IndInv, Narrow, authVars, catalogVars, readinessVars, clientVars, historyVars, RestrictedTo, Assembled, RoutesOf
<1>1. TypeOK'
  <2>1. \A S \in SUBSET Services : Assembled(S) \in Catalogs
    BY CatalogType DEF Assembled
  <2>2. RestrictedTo(live, exposed) \in Catalogs
    <3> DEFINE kept == DOMAIN live \cap exposed
    <3>1. kept \in SUBSET Services /\ live \in [DOMAIN live -> {"snapshot", "live"}]
      BY CatalogType DEF TypeOK
    <3>2. RestrictedTo(live, exposed) \in [kept -> {"snapshot", "live"}]
      BY <3>1
    <3> QED
      BY <3>1, <3>2, CatalogType, Zenon
  <2>3. /\ startup' \in Catalogs /\ live' \in Catalogs /\ routes' \subseteq Services
    <3> HIDE DEF Assembled, RestrictedTo
    <3> QED
      BY <2>1, <2>2 DEF TypeOK
  <2> QED
    BY <2>3 DEF TypeOK
<1>2. ModeInv'
  BY CatalogType DEF TypeOK, ModeInv, Settled
<1>3. RouteInv'
  BY CatalogType DEF TypeOK, ModeInv, RouteInv, CallsRoutable, Settled, Narrowed
<1>4. PrunedInv'
  BY CatalogType DEF TypeOK, ModeInv, PrunedInv, Settled, Narrowed
<1>5. FreshnessInv'
  BY CatalogType DEF TypeOK, ModeInv, FreshnessInv, Shown, Honest
<1>6. TokenInv'
  BY CatalogType DEF TypeOK, ModeInv, TokenInv, ReadyMeansToken, AuthType
<1> QED
  BY <1>1, <1>2, <1>3, <1>4, <1>5, <1>6

\* The outcome is published.
LEMMA PublishInv ==
    ASSUME IndInv, Publish
    PROVE  IndInv'
<1> USE DEF IndInv, Publish, authVars, catalogVars, readinessVars, clientVars, historyVars, AfterStartup
<1>1. TypeOK'
  <2>1. readiness' \in Readiness
    BY DEF TypeOK, Readiness
  <2>2. pc' \in {"done", "refresh"} /\ serving' \in BOOLEAN
    OBVIOUS
  <2> QED
    BY <2>1, <2>2 DEF TypeOK
<1>2. ModeInv'
  BY DEF TypeOK, ModeInv, Settled
<1>3. RouteInv'
  BY DEF TypeOK, ModeInv, RouteInv, CallsRoutable, Settled, Narrowed
<1>4. PrunedInv'
  BY DEF TypeOK, ModeInv, PrunedInv, Settled, Narrowed
<1>5. FreshnessInv'
  BY DEF TypeOK, ModeInv, FreshnessInv, Shown, Honest
<1>6. TokenInv'
  BY DEF TypeOK, ModeInv, TokenInv, ReadyMeansToken, AuthType
<1> QED
  BY <1>1, <1>2, <1>3, <1>4, <1>5, <1>6

\* The refresh reads its fallback ...
LEMMA ReadFallbackInv ==
    ASSUME IndInv, ReadFallback
    PROVE  IndInv'
<1> USE DEF IndInv, ReadFallback, authVars, catalogVars, readinessVars, clientVars, historyVars
<1>1. TypeOK'
  BY DEF TypeOK, AuthType
<1>2. ModeInv'
  BY DEF TypeOK, ModeInv, Settled
<1>3. RouteInv'
  BY DEF TypeOK, ModeInv, RouteInv, CallsRoutable, Settled, Narrowed
<1>4. PrunedInv'
  BY DEF TypeOK, ModeInv, PrunedInv, Settled, Narrowed
<1>5. FreshnessInv'
  BY DEF TypeOK, ModeInv, FreshnessInv, Shown, Honest
<1>6. TokenInv'
  BY DEF TypeOK, ModeInv, TokenInv, ReadyMeansToken, AuthType
<1> QED
  BY <1>1, <1>2, <1>3, <1>4, <1>5, <1>6

\* ... builds a catalog of what it fetches, within what is exposed ...
LEMMA FetchInv ==
    ASSUME IndInv, Fetch
    PROVE  IndInv'
<1> USE DEF IndInv, Fetch, authVars, catalogVars, readinessVars, clientVars, historyVars, FanOut
<1>0. /\ pc' \in {"swap", "done"}
      /\ fresh' \in Catalogs /\ fetched' \in SUBSET Services
      /\ pc' = "swap" => DOMAIN fresh' \subseteq exposed /\ Honest(fresh', fetched')
  <2>1. ASSUME NEW answers \in [exposed -> Promise!Answers]
        PROVE  /\ Promise!Built(fresh, answers) \in Catalogs
               /\ DOMAIN Promise!Built(fresh, answers) \subseteq exposed
               /\ Honest(Promise!Built(fresh, answers), {s \in exposed : answers[s] = "tools"})
    <3> DEFINE D == {s \in exposed : \/ answers[s] = "tools"
                                     \/ answers[s] = "failure" /\ s \in DOMAIN fresh}
    <3>1. D \in SUBSET Services /\ D \subseteq exposed /\ DOMAIN answers = exposed
      BY DEF TypeOK
    <3>2. Promise!Built(fresh, answers) =
             [s \in D |-> IF answers[s] = "tools" THEN "live" ELSE "snapshot"]
      BY <3>1 DEF Promise!Built
    <3>3. Promise!Built(fresh, answers) \in [D -> {"snapshot", "live"}]
      BY <3>2
    <3> HIDE DEF IndInv, Fetch
    <3>4. Honest(Promise!Built(fresh, answers), {s \in exposed : answers[s] = "tools"})
      BY <3>1, <3>2 DEF Honest
    <3> HIDE DEF D
    <3> QED
      BY <3>1, <3>3, <3>4, CatalogType
  <2> QED
    BY <2>1 DEF TypeOK
<1>1. TypeOK'
  BY <1>0 DEF TypeOK, AuthType
<1>2. ModeInv'
  BY <1>0 DEF TypeOK, ModeInv, Settled
<1>3. RouteInv'
  BY <1>0 DEF TypeOK, ModeInv, RouteInv, CallsRoutable, Settled, Narrowed
<1>4. PrunedInv'
  BY <1>0 DEF TypeOK, ModeInv, PrunedInv, Settled, Narrowed
<1>5. FreshnessInv'
  <2>1. Honest(startup, {}) /\ Honest(live, {})
    BY DEF FreshnessInv, Shown
  <2>2. \A c \in Clients : view[c] # Nothing => Honest(view[c], {})
    BY DEF FreshnessInv, Shown
  <2> QED
    BY <1>0, <2>1, <2>2 DEF FreshnessInv, Shown, Honest
<1>6. TokenInv'
  BY <1>0 DEF TypeOK, ModeInv, TokenInv, ReadyMeansToken, AuthType
<1> QED
  BY <1>1, <1>2, <1>3, <1>4, <1>5, <1>6

\* ... and swaps it in.
LEMMA SwapInv ==
    ASSUME IndInv, Swap
    PROVE  IndInv'
<1> USE DEF IndInv, Swap, authVars, catalogVars, readinessVars, clientVars, historyVars
<1>1. TypeOK'
  BY DEF TypeOK, AuthType
<1>2. ModeInv'
  BY DEF TypeOK, ModeInv, Settled
<1>3. RouteInv'
  BY DEF TypeOK, ModeInv, RouteInv, CallsRoutable, Settled, Narrowed
<1>4. PrunedInv'
  BY DEF TypeOK, PrunedInv, RouteInv, Settled, Narrowed
<1>5. FreshnessInv'
  BY DEF TypeOK, ModeInv, FreshnessInv, Shown, Honest
<1>6. TokenInv'
  BY DEF TypeOK, ModeInv, TokenInv, ReadyMeansToken, AuthType
<1> QED
  BY <1>1, <1>2, <1>3, <1>4, <1>5, <1>6

\* A request finds the catalog of its surface ...
LEMMA ReadCatalogInv ==
    ASSUME IndInv, NEW c \in Clients, ReadCatalog(c)
    PROVE  IndInv'
<1> USE DEF IndInv, ReadCatalog, authVars, catalogVars, readinessVars, clientVars, historyVars
<1>1. TypeOK'
  BY DEF TypeOK, AuthType
<1>2. ModeInv'
  BY DEF TypeOK, ModeInv, Settled
<1>3. RouteInv'
  BY DEF TypeOK, ModeInv, RouteInv, CallsRoutable, Settled, Narrowed
<1>4. PrunedInv'
  BY DEF TypeOK, ModeInv, PrunedInv, Settled, Narrowed
<1>5. FreshnessInv'
  BY DEF TypeOK, ModeInv, FreshnessInv, Shown, Honest
<1>6. TokenInv'
  BY DEF TypeOK, ModeInv, TokenInv, ReadyMeansToken, AuthType
<1> QED
  BY <1>1, <1>2, <1>3, <1>4, <1>5, <1>6

\* ... and is answered from it ...
LEMMA ListServicesInv ==
    ASSUME IndInv, NEW c \in Clients, ListServices(c)
    PROVE  IndInv'
<1> USE DEF IndInv, ListServices, authVars, catalogVars, readinessVars, clientVars, historyVars
<1>1. TypeOK'
  <2>1. DOMAIN view[c] \in SUBSET Services
    BY CatalogType DEF TypeOK
  <2>2. [services |-> DOMAIN view[c], readiness |-> readiness]
           \in [services : SUBSET Services, readiness : Readiness]
    BY <2>1 DEF TypeOK
  <2> QED
    BY <2>2 DEF TypeOK
<1>2. ModeInv'
  BY DEF TypeOK, ModeInv, Settled
<1>3. RouteInv'
  BY DEF TypeOK, ModeInv, RouteInv, CallsRoutable, Settled, Narrowed
<1>4. PrunedInv'
  BY DEF TypeOK, ModeInv, PrunedInv, Settled, Narrowed
<1>5. FreshnessInv'
  BY DEF TypeOK, ModeInv, FreshnessInv, Shown, Honest
<1>6. TokenInv'
  BY DEF TypeOK, ModeInv, TokenInv, ReadyMeansToken, AuthType
<1> QED
  BY <1>1, <1>2, <1>3, <1>4, <1>5, <1>6

\* ... in one way or another ...
LEMMA AnswerFromCatalogInv ==
    ASSUME IndInv, NEW c \in Clients, AnswerFromCatalog(c)
    PROVE  IndInv'
<1> USE DEF IndInv, AnswerFromCatalog, authVars, catalogVars, readinessVars, clientVars, historyVars
<1>1. TypeOK'
  BY DEF TypeOK, AuthType
<1>2. ModeInv'
  BY DEF TypeOK, ModeInv, Settled
<1>3. RouteInv'
  BY DEF TypeOK, ModeInv, RouteInv, CallsRoutable, Settled, Narrowed
<1>4. PrunedInv'
  BY DEF TypeOK, ModeInv, PrunedInv, Settled, Narrowed
<1>5. FreshnessInv'
  BY DEF TypeOK, ModeInv, FreshnessInv, Shown, Honest
<1>6. TokenInv'
  BY DEF TypeOK, ModeInv, TokenInv, ReadyMeansToken, AuthType
<1> QED
  BY <1>1, <1>2, <1>3, <1>4, <1>5, <1>6

\* ... or goes on to an upstream.
LEMMA DispatchInv ==
    ASSUME IndInv, NEW c \in Clients, Dispatch(c)
    PROVE  IndInv'
<1> USE DEF IndInv, Dispatch, authVars, catalogVars, readinessVars, clientVars, historyVars
<1>0. AuthType' /\ generation' >= generation
  BY AuthSteps
<1>1. TypeOK'
  BY <1>0 DEF TypeOK, AuthType
<1>2. ModeInv'
  BY <1>0 DEF TypeOK, ModeInv, Settled
<1>3. RouteInv'
  BY <1>0 DEF TypeOK, ModeInv, RouteInv, CallsRoutable, Settled, Narrowed
<1>4. PrunedInv'
  BY <1>0 DEF TypeOK, ModeInv, PrunedInv, Settled, Narrowed
<1>5. FreshnessInv'
  BY <1>0 DEF TypeOK, ModeInv, FreshnessInv, Shown, Honest
<1>6. TokenInv'
  BY <1>0 DEF TypeOK, ModeInv, TokenInv, ReadyMeansToken, AuthType
<1> QED
  BY <1>1, <1>2, <1>3, <1>4, <1>5, <1>6

\* So does its end.
LEMMA AnswerInv ==
    ASSUME IndInv, NEW c \in Clients, Answer(c)
    PROVE  IndInv'
<1> USE DEF IndInv, Answer, authVars, catalogVars, readinessVars, clientVars, historyVars
<1>0. AuthType' /\ generation' >= generation
  BY AuthSteps
<1>1. TypeOK'
  BY <1>0 DEF TypeOK, AuthType
<1>2. ModeInv'
  BY <1>0 DEF TypeOK, ModeInv, Settled
<1>3. RouteInv'
  BY <1>0 DEF TypeOK, ModeInv, RouteInv, CallsRoutable, Settled, Narrowed
<1>4. PrunedInv'
  BY <1>0 DEF TypeOK, ModeInv, PrunedInv, Settled, Narrowed
<1>5. FreshnessInv'
  BY <1>0 DEF TypeOK, ModeInv, FreshnessInv, Shown, Honest
<1>6. TokenInv'
  BY <1>0 DEF TypeOK, ModeInv, TokenInv, ReadyMeansToken, AuthType
<1> QED
  BY <1>1, <1>2, <1>3, <1>4, <1>5, <1>6

\* Headers may be dropped, ...
LEMMA LetGoInv ==
    ASSUME IndInv, NEW c \in Clients \cup {Startup}, LetGo(c)
    PROVE  IndInv'
<1> USE DEF IndInv, LetGo, authVars, catalogVars, readinessVars, clientVars, historyVars
<1>0. AuthType' /\ generation' >= generation
  BY AuthSteps
<1>1. TypeOK'
  BY <1>0 DEF TypeOK, AuthType
<1>2. ModeInv'
  BY <1>0 DEF TypeOK, ModeInv, Settled
<1>3. RouteInv'
  BY <1>0 DEF TypeOK, ModeInv, RouteInv, CallsRoutable, Settled, Narrowed
<1>4. PrunedInv'
  BY <1>0 DEF TypeOK, ModeInv, PrunedInv, Settled, Narrowed
<1>5. FreshnessInv'
  BY <1>0 DEF TypeOK, ModeInv, FreshnessInv, Shown, Honest
<1>6. TokenInv'
  BY <1>0 DEF TypeOK, ModeInv, TokenInv, ReadyMeansToken, AuthType
<1> QED
  BY <1>1, <1>2, <1>3, <1>4, <1>5, <1>6

\* ... and time may pass.
LEMMA AuthTickInv ==
    ASSUME IndInv, AuthTick
    PROVE  IndInv'
<1> USE DEF IndInv, AuthTick, authVars, catalogVars, readinessVars, clientVars, historyVars
<1>0. AuthType' /\ generation' >= generation
  BY AuthSteps
<1>1. TypeOK'
  BY <1>0 DEF TypeOK, AuthType
<1>2. ModeInv'
  BY <1>0 DEF TypeOK, ModeInv, Settled
<1>3. RouteInv'
  BY <1>0 DEF TypeOK, ModeInv, RouteInv, CallsRoutable, Settled, Narrowed
<1>4. PrunedInv'
  BY <1>0 DEF TypeOK, ModeInv, PrunedInv, Settled, Narrowed
<1>5. FreshnessInv'
  BY <1>0 DEF TypeOK, ModeInv, FreshnessInv, Shown, Honest
<1>6. TokenInv'
  BY <1>0 DEF TypeOK, ModeInv, TokenInv, ReadyMeansToken, AuthType
<1> QED
  BY <1>1, <1>2, <1>3, <1>4, <1>5, <1>6

\* The first state satisfies the invariant, whatever the configuration.
LEMMA InitIndInv == Init => IndInv
<1> SUFFICES ASSUME Init PROVE IndInv
  OBVIOUS
<1>0. /\ Assembled(Configured) \in Catalogs /\ Empty \in Catalogs
      /\ Honest(Assembled(Configured), {}) /\ Honest(Empty, {})
      /\ DOMAIN Assembled(Configured) \subseteq Configured /\ DOMAIN Empty = {}
  <2>1. Bundled \cap Configured \in SUBSET Services /\ {} \in SUBSET Services
    OBVIOUS
  <2>2. /\ Assembled(Configured) \in [Bundled \cap Configured -> {"snapshot", "live"}]
        /\ Empty \in [{} -> {"snapshot", "live"}]
    BY DEF Assembled, Empty
  <2>3. Assembled(Configured) \in Catalogs /\ Empty \in Catalogs
    BY <2>1, <2>2, CatalogType, Zenon
  <2> QED
    BY <2>3 DEF Honest, Assembled, Empty
<1>1. /\ startup \in {Assembled(Configured), Empty} /\ live = startup /\ fresh = Empty
      /\ routes \in {Configured, {}} /\ exposed = Configured
      /\ ~config.strict => routes = Configured
      /\ DOMAIN startup \subseteq routes
      /\ pc \in {"discover", "credentials"} /\ serving \in BOOLEAN
      /\ config.strict => ~serving
      /\ config \in [only : BOOLEAN, strict : BOOLEAN, flat : BOOLEAN]
      /\ config.flat => config.strict
  BY <1>0 DEF Init
<1>2. TypeOK
  <2>1. /\ generation \in 0 .. MaxGeneration
        /\ held \in [Clients \cup {Startup} -> 0 .. MaxGeneration]
    BY DEF Init, Auth!Init
  <2>5. valid \in BOOLEAN /\ backoff \in BOOLEAN /\ asked \subseteq Clients \cup {Startup}
    BY DEF Init, Auth!Init
  <2>2. readiness \in Readiness /\ enablement = "pending"
    BY DEF Init, Readiness
  <2>3. view \in [Clients -> {Nothing}] /\ report \in [Clients -> {Nothing}]
    BY DEF Init
  <2>4. enabled = {} /\ fetched = {}
    BY DEF Init
  <2> QED
    BY <1>0, <1>1, <2>1, <2>2, <2>3, <2>4, <2>5 DEF TypeOK
<1>3. /\ \A c \in Clients : view[c] = Nothing
      /\ readiness = [credentials |-> "pending", enablement |-> "pending"]
      /\ enablement = "pending"
  BY DEF Init
<1>4. ModeInv
  BY <1>1, <1>3 DEF ModeInv, Settled
<1>5. RouteInv
  BY <1>0, <1>1, <1>3 DEF RouteInv, Narrowed, Settled, CallsRoutable
<1>6. PrunedInv
  BY <1>1, <1>3 DEF PrunedInv
<1>7. FreshnessInv
  BY <1>0, <1>1, <1>3 DEF FreshnessInv, Shown
<1>8. TokenInv
  BY <1>1, <1>3 DEF TokenInv, ReadyMeansToken
<1> QED
  BY <1>2, <1>4, <1>5, <1>6, <1>7, <1>8 DEF IndInv

\* Every step preserves the invariant.
LEMMA NextIndInv == IndInv /\ [Next]_vars => IndInv'
<1> SUFFICES ASSUME IndInv, [Next]_vars PROVE IndInv'
  OBVIOUS
<1>1. CASE StartupStep
  BY <1>1, DiscoverInv, AskCredentialsInv, AcquireCredentialsInv, SkipUsageInv, GiveUpUsageInv,
     AskUsageInv, CredentialUsageInv, ListUsageInv, NarrowInv, PublishInv, ReadFallbackInv,
     FetchInv, SwapInv DEF StartupStep
<1>2. ASSUME NEW c \in Clients,
             \/ ReadCatalog(c) \/ ListServices(c) \/ Dispatch(c) \/ Answer(c)
             \/ AnswerFromCatalog(c)
      PROVE  IndInv'
  BY <1>2, ReadCatalogInv, ListServicesInv, DispatchInv, AnswerInv, AnswerFromCatalogInv
<1>3. ASSUME NEW c \in Clients \cup {Startup}, LetGo(c) PROVE IndInv'
  BY <1>3, LetGoInv
<1>4. CASE UNCHANGED vars
  BY <1>4 DEF vars, authVars, catalogVars, readinessVars, clientVars, historyVars, IndInv,
     TypeOK, ModeInv, RouteInv, CallsRoutable, PrunedInv, FreshnessInv, Honest, Shown, TokenInv,
     ReadyMeansToken
<1> QED
  BY <1>1, <1>2, <1>3, <1>4, AuthTickInv DEF Next

-----------------------------------------------------------------------------
(* Theorems *)

\* IndInv is an invariant of startup and of the requests it overlaps with.
THEOREM Invariance == Spec => []IndInv
BY InitIndInv, NextIndInv, PTL DEF Spec

\* Every variable keeps its type.
THEOREM TypeCorrectness == Spec => []TypeOK
<1>1. IndInv => TypeOK
  BY DEF IndInv
<1> QED
  BY <1>1, Invariance, PTL

\* run_serve: no call the catalog lets through finds its service unknown to the
\* proxy, whatever selection, enablement and refresh have left of the catalog.
THEOREM EveryCallIsRoutable == Spec => []CallsRoutable
<1>1. IndInv => CallsRoutable
  BY DEF IndInv, RouteInv
<1> QED
  BY <1>1, Invariance, PTL

\* assemble_serve_catalog: no catalog a request can hold calls a service live
\* that this process has not fetched.
THEOREM FreshnessIsTrue == Spec => []NeverOverstatesFreshness
<1>1. IndInv => NeverOverstatesFreshness
  <2> SUFFICES ASSUME IndInv,
                      NEW catalog \in ({startup, live} \cup {view[c] : c \in Clients}) \ {Nothing},
                      NEW s \in DOMAIN catalog, catalog[s] = "live"
               PROVE  s \in fetched
    BY DEF NeverOverstatesFreshness
  <2>1. Honest(catalog, {}) \/ Honest(catalog, Shown)
    BY DEF IndInv, FreshnessInv
  <2> QED
    BY <2>1 DEF Honest, Shown
<1> QED
  BY <1>1, Invariance, PTL

\* resolve, refresh_live_catalog: once enablement is published as pruned, nothing
\* is served that Service Usage did not report enabled.
THEOREM PrunedServicesStayAway == Spec => []PrunedStaysPruned
<1>1. IndInv => PrunedStaysPruned
  BY DEF IndInv, ModeInv, PrunedInv, PrunedStaysPruned, Narrowed
<1> QED
  BY <1>1, Invariance, PTL

\* run_serve: readiness is not reported by a process that has never had a token.
THEOREM ReadyHadToken == Spec => []ReadyMeansToken
<1>1. IndInv => ReadyMeansToken
  BY DEF IndInv, TokenInv
<1> QED
  BY <1>1, Invariance, PTL

\* CatalogState: what a flat surface serves is never changed under its clients.
THEOREM FlatSurfaceIsPinned == Spec => FlatIsPinned
<1>1. IndInv /\ [Next]_vars => [config.flat /\ serving => UNCHANGED <<startup, live>>]_vars
  <2> SUFFICES ASSUME IndInv, Next, config.flat, serving
               PROVE  UNCHANGED <<startup, live>>
    OBVIOUS
  <2>1. pc = "done"
    BY DEF IndInv, ModeInv, Settled
  <2>2. ~StartupStep
    BY <2>1 DEF StartupStep, Discover, AskCredentials, AcquireCredentials, SkipUsage, GiveUpUsage,
       AskUsage, CredentialUsage, ListUsage, Narrow, Publish, ReadFallback, Fetch, Swap
  <2> QED
    BY <2>2 DEF Next, ReadCatalog, ListServices, Dispatch, Answer, AnswerFromCatalog, LetGo,
       AuthTick, catalogVars
<1> QED
  BY <1>1, Invariance, PTL DEF Spec, FlatIsPinned

-----------------------------------------------------------------------------
(* Refinement of CatalogPromise *)

\* A selection that was not pruned is exposed whole.  The refresh falls back on the
\* catalog that is served, and nothing replaces that one before it lands.
FallbackInv ==
    /\ pc = "narrow" => enablement = "pruned" \/ exposed = Configured
    /\ pc = "fetch" => fresh = live
    /\ pc = "swap" => fresh = Promise!Built(live, AnswersKnown)

\* What the refresh has built is what CatalogPromise makes of the answers.
LEMMA FetchBuilds ==
    ASSUME IndInv, FallbackInv, Fetch, pc' = "swap"
    PROVE  fresh' = Promise!Built(live, AnswersKnown')
<1>1. PICK outcome \in [exposed -> Promise!Answers] :
         /\ fresh' = Promise!Built(live, outcome)
         /\ fetched' = {s \in exposed : outcome[s] = "tools"}
  BY DEF Fetch, FanOut, FallbackInv
<1>2. exposed' = exposed
  BY DEF Fetch
<1>3. AnswersKnown' = [s \in exposed |->
                          IF s \in fetched' THEN "tools"
                          ELSE IF s \in DOMAIN fresh' THEN "failure" ELSE "panic"]
  BY <1>2 DEF AnswersKnown
<1>4. \A s \in exposed : /\ outcome[s] = "tools" <=> AnswersKnown'[s] = "tools"
                         /\ (outcome[s] = "failure" /\ s \in DOMAIN live)
                               <=> (AnswersKnown'[s] = "failure" /\ s \in DOMAIN live)
  BY <1>1, <1>3 DEF Promise!Built
<1>5. DOMAIN outcome = exposed /\ DOMAIN AnswersKnown' = exposed
  BY <1>1, <1>3
<1> HIDE DEF AnswersKnown
<1> DEFINE D(answers) == {s \in exposed : \/ answers[s] = "tools"
                                          \/ answers[s] = "failure" /\ s \in DOMAIN live}
<1>6. D(outcome) = D(AnswersKnown')
  BY <1>4
<1> QED
  BY <1>1, <1>4, <1>5, <1>6 DEF Promise!Built

LEMMA FallbackStep == IndInv /\ FallbackInv /\ [Next]_vars => FallbackInv'
<1> SUFFICES ASSUME IndInv, FallbackInv, [Next]_vars PROVE FallbackInv'
  OBVIOUS
<1> USE DEF FallbackInv
<1>1. CASE Fetch
  <2>1. pc' \in {"swap", "done"} /\ live' = live
    BY <1>1 DEF Fetch
  <2> QED
    BY <1>1, <2>1, FetchBuilds
<1>2. CASE ReadFallback
  BY <1>2 DEF ReadFallback
<1>3. CASE Discover \/ AskCredentials \/ AcquireCredentials \/ AskUsage
  <2>1. pc' \in {"credentials", "exited", "acquire", "enablement", "usage"}
    BY <1>3 DEF Discover, AskCredentials, AcquireCredentials, AskUsage
  <2> QED
    BY <2>1
<1>4. CASE SkipUsage \/ GiveUpUsage \/ CredentialUsage \/ ListUsage
  <2>1. /\ pc' \in {"narrow", "listing"}
        /\ pc' = "narrow" => enablement' = "pruned" \/ exposed' = Configured
    BY <1>4 DEF SkipUsage, GiveUpUsage, CredentialUsage, ListUsage, Resolved
  <2> QED
    BY <2>1
<1>5. CASE Narrow \/ Publish \/ Swap
  <2>1. pc' \in {"publish", "refresh", "done"}
    BY <1>5 DEF Narrow, Publish, AfterStartup, Swap
  <2> QED
    BY <2>1
<1>6. ASSUME UNCHANGED <<pc, exposed, live, fresh, enablement, fetched>> PROVE FallbackInv'
  BY <1>6 DEF AnswersKnown
<1>7. ASSUME NEW c \in Clients,
             \/ ReadCatalog(c) \/ ListServices(c) \/ Dispatch(c) \/ Answer(c)
             \/ AnswerFromCatalog(c)
      PROVE  UNCHANGED <<pc, exposed, live, fresh, enablement, fetched>>
  BY <1>7 DEF ReadCatalog, ListServices, Dispatch, Answer, AnswerFromCatalog, catalogVars,
     readinessVars, historyVars
<1>8. ASSUME NEW c \in Clients \cup {Startup}, LetGo(c)
      PROVE  UNCHANGED <<pc, exposed, live, fresh, enablement, fetched>>
  BY <1>8 DEF LetGo, catalogVars, readinessVars, historyVars
<1>9. AuthTick \/ UNCHANGED vars => UNCHANGED <<pc, exposed, live, fresh, enablement, fetched>>
  BY DEF AuthTick, vars, catalogVars, readinessVars, historyVars
<1> HIDE DEF FallbackInv
<1> QED
  BY <1>1, <1>2, <1>3, <1>4, <1>5, <1>6, <1>7, <1>8, <1>9 DEF Next, StartupStep

\* Before Narrow nothing has been promised.
LEMMA PromiseInit == Init => Promise!Init
<1> SUFFICES ASSUME Init PROVE Promise!Init
  OBVIOUS
<1>1. Stage = "startup"
  BY DEF Init, Stage
<1> QED
  BY <1>1, Zenon DEF Promise!Init, Promise!Empty, Promise!Uniform, Promise!Unanswered, Empty

\* Narrow leaves exposed what the catalog then holds, all of it from the snapshot.
LEMMA NarrowBegins ==
    ASSUME IndInv, FallbackInv, Narrow
    PROVE  Promise!Begin
<1>1. /\ pc = "narrow" /\ pc' = "publish" /\ exposed' = exposed
      /\ exposed \in SUBSET Services
      /\ Honest(startup, {}) /\ Honest(live, {}) /\ live \in Catalogs
      /\ ~config.strict => DOMAIN live \subseteq Configured
      /\ enablement # "pruned" => exposed = Configured
  BY DEF IndInv, TypeOK, FreshnessInv, Shown, RouteInv, FallbackInv, Narrow
<1>2. \/ live' \in {Assembled(exposed), RestrictedTo(live, exposed)}
      \/ live' = live /\ DOMAIN live \subseteq exposed
  <2>1. CASE config.strict
    BY <2>1 DEF Narrow
  <2>2. CASE ~config.strict
    <3>1. live' = IF enablement = "pruned" THEN RestrictedTo(live, exposed) ELSE live
      BY <2>2 DEF Narrow
    <3> QED
      BY <1>1, <2>2, <3>1
  <2> QED
    BY <2>1, <2>2
<1>3. live \in [DOMAIN live -> {"snapshot", "live"}]
  BY <1>1, CatalogType
<1>4. \A s \in DOMAIN live : live[s] = "snapshot"
  BY <1>1, <1>3 DEF Honest
<1>5. \E S \in SUBSET exposed : live' = [s \in S |-> "snapshot"]
  <2>1. CASE live' = Assembled(exposed)
    BY <2>1 DEF Assembled
  <2>2. CASE live' = RestrictedTo(live, exposed)
    <3>1. live' = [s \in DOMAIN live \cap exposed |-> "snapshot"]
      BY <1>4, <2>2 DEF RestrictedTo
    <3> QED
      BY <3>1
  <2>3. CASE live' = live /\ DOMAIN live \subseteq exposed
    <3>1. live' = [s \in DOMAIN live |-> "snapshot"]
      BY <1>3, <1>4, <2>3
    <3> QED
      BY <2>3, <3>1
  <2> QED
    BY <1>2, <2>1, <2>2, <2>3
<1>6. Stage = "startup" /\ Stage' = "refresh"
  BY <1>1 DEF Stage
<1>7. AnswersKnown' = [s \in exposed |-> "none"]
  BY <1>1 DEF AnswersKnown
<1> QED
  BY <1>1, <1>5, <1>6, <1>7 DEF Promise!Begin, Promise!Uniform, Promise!Unanswered

\* The answers of a fan-out come in all at once, ...
LEMMA FetchAnswers ==
    ASSUME IndInv, Fetch, pc' = "swap"
    PROVE  Promise!Answer
<1>1. pc = "fetch" /\ exposed' = exposed /\ live' = live
  BY DEF Fetch
<1>2. Stage = "refresh" /\ Stage' = "refresh"
  BY <1>1 DEF Stage
<1>3. AnswersKnown = [s \in exposed |-> "none"]
  BY <1>1 DEF AnswersKnown
<1>4. AnswersKnown' \in [exposed -> Promise!Answers]
  BY <1>1 DEF AnswersKnown, Promise!Answers
<1>5. AnswersKnown' = [s \in exposed |->
                          IF s \in exposed THEN AnswersKnown'[s] ELSE AnswersKnown[s]]
  BY <1>4
<1> HIDE DEF AnswersKnown
<1> QED
  BY <1>1, <1>2, <1>3, <1>4, <1>5 DEF Promise!Answer

\* ... and the swap lands what was made of them.
LEMMA SwapLands ==
    ASSUME FallbackInv, Swap
    PROVE  Promise!Land
<1>1. /\ pc = "swap" /\ pc' = "done" /\ exposed' = exposed /\ live' = fresh
      /\ fresh = Promise!Built(live, AnswersKnown)
  BY DEF Swap, FallbackInv
<1>2. Stage = "refresh" /\ Stage' = "over"
  BY <1>1 DEF Stage
<1>3. AnswersKnown' = [s \in exposed |-> "none"]
  BY <1>1 DEF AnswersKnown
<1>4. \A s \in exposed : AnswersKnown[s] # "none"
  BY <1>1 DEF AnswersKnown
<1> HIDE DEF AnswersKnown
<1> QED
  BY <1>1, <1>2, <1>3, <1>4 DEF Promise!Land, Promise!Over, Promise!Unanswered

\* Without a refresh, or with one given up, the catalog stays.
LEMMA GivenUp ==
    ASSUME pc \in {"publish", "fetch"}, pc' = "done", exposed' = exposed, live' = live
    PROVE  Promise!Keep
<1>1. Stage = "refresh" /\ Stage' = "over"
  BY DEF Stage
<1>2. AnswersKnown' = [s \in exposed |-> "none"]
  BY DEF AnswersKnown
<1> HIDE DEF AnswersKnown
<1> QED
  BY <1>1, <1>2 DEF Promise!Keep, Promise!Over, Promise!Unanswered

\* Nothing is promised of the steps before Narrow, and those after it that leave
\* the catalog and the refresh alone change nothing that is.
LEMMA NothingPromised ==
    ASSUME \/ Stage = "startup" /\ Stage' = "startup"
           \/ /\ Stage = Stage'
              /\ UNCHANGED <<exposed, live>>
              /\ "swap" \notin {pc, pc'} \/ UNCHANGED <<pc, fresh, fetched>>
    PROVE  UNCHANGED Promise!vars
<1>1. CASE Stage = "startup" /\ Stage' = "startup"
  BY <1>1, Zenon DEF Promise!vars, Empty
<1>2. CASE /\ Stage = Stage' /\ UNCHANGED <<exposed, live>>
           /\ "swap" \notin {pc, pc'} \/ UNCHANGED <<pc, fresh, fetched>>
  <2>1. AnswersKnown' = AnswersKnown
    BY <1>2 DEF AnswersKnown
  <2> QED
    BY <1>2, <2>1, Zenon DEF Promise!vars, Empty
<1> QED
  BY <1>1, <1>2

\* Every step is one that CatalogPromise allows, or none.
LEMMA PromiseStep ==
    IndInv /\ FallbackInv /\ [Next]_vars => [Promise!Next]_(Promise!vars)
<1> SUFFICES ASSUME IndInv, FallbackInv, [Next]_vars
             PROVE  Promise!Next \/ UNCHANGED Promise!vars
  BY Zenon
<1>1. CASE Narrow
  BY <1>1, NarrowBegins DEF Promise!Next
<1>2. CASE Fetch
  <2>1. pc = "fetch" /\ pc' \in {"swap", "done"} /\ exposed' = exposed /\ live' = live
    BY <1>2 DEF Fetch
  <2> QED
    BY <1>2, <2>1, FetchAnswers, GivenUp DEF Promise!Next
<1>3. CASE Swap
  BY <1>3, SwapLands DEF Promise!Next
<1>4. CASE Publish
  <2>1. /\ pc = "publish" /\ pc' \in {"refresh", "done"}
        /\ exposed' = exposed /\ live' = live
    BY <1>4 DEF Publish, AfterStartup, catalogVars
  <2>2. pc' = "refresh" => Stage = Stage'
    BY <2>1 DEF Stage
  <2> QED
    BY <2>1, <2>2, GivenUp, NothingPromised DEF Promise!Next
<1>5. CASE ReadFallback
  <2>1. pc = "refresh" /\ pc' = "fetch" /\ exposed' = exposed /\ live' = live
    BY <1>5 DEF ReadFallback
  <2>2. Stage = Stage'
    BY <2>1 DEF Stage
  <2> QED
    BY <2>1, <2>2, NothingPromised
<1>6. CASE \/ Discover \/ AskCredentials \/ AcquireCredentials \/ AskUsage
           \/ SkipUsage \/ GiveUpUsage \/ CredentialUsage \/ ListUsage
  <2>1. /\ pc \in {"discover", "credentials", "acquire", "enablement", "usage", "listing"}
        /\ pc' \in {"credentials", "exited", "acquire", "enablement", "usage", "listing",
                    "narrow"}
    BY <1>6 DEF Discover, AskCredentials, AcquireCredentials, AskUsage, SkipUsage, GiveUpUsage,
       CredentialUsage, ListUsage, Resolved
  <2>2. Stage = "startup" /\ Stage' = "startup"
    BY <2>1 DEF Stage
  <2> QED
    BY <2>2, NothingPromised
<1>7. ASSUME UNCHANGED <<pc, catalogVars, historyVars>> PROVE UNCHANGED Promise!vars
  <2>1. Stage = Stage'
    BY <1>7 DEF Stage
  <2> QED
    BY <1>7, <2>1, NothingPromised DEF catalogVars, historyVars
<1>8. ASSUME NEW c \in Clients \cup {Startup},
             \/ ReadCatalog(c) \/ ListServices(c) \/ Dispatch(c) \/ Answer(c)
             \/ AnswerFromCatalog(c) \/ LetGo(c)
      PROVE  UNCHANGED <<pc, catalogVars, historyVars>>
  BY <1>8 DEF ReadCatalog, ListServices, Dispatch, Answer, AnswerFromCatalog, LetGo
<1>9. AuthTick \/ UNCHANGED vars => UNCHANGED <<pc, catalogVars, historyVars>>
  BY DEF AuthTick, vars
<1> QED
  BY <1>1, <1>2, <1>3, <1>4, <1>5, <1>6, <1>7, <1>8, <1>9 DEF Next, StartupStep

\* server.rs, BackgroundStartup: whatever catalog is served once the startup has
\* narrowed it, its services and their sources are those CatalogPromise allows.
THEOREM RefreshKeepsPromise == Spec => KeepsCatalogPromise
<1>1. Init => FallbackInv
  BY DEF Init, FallbackInv
<1>2. Spec => []FallbackInv
  BY <1>1, FallbackStep, Invariance, PTL DEF Spec
<1> QED
  BY <1>2, PromiseInit, PromiseStep, Invariance, PTL
     DEF Spec, KeepsCatalogPromise, Promise!Spec
=============================================================================
