------------------------- MODULE UpstreamProxyProofs -------------------------
(****************************************************************************)
(* Theorems about UpstreamProxy, for any finite set of dispatchers, any      *)
(* services, any bound on the cache and any number of tokens.  IndInv is     *)
(* inductive; the properties of the session cache and of the dispatch follow *)
(* from it.                                                                  *)
(****************************************************************************)
EXTENDS UpstreamProxy, FilteringProofs, FiniteSetTheorems

USE LimitsAssumption, DispatchersAssumption, NothingAssumption

-----------------------------------------------------------------------------
(* The inductive invariant *)

\* The cache is ordered by use, the least recent first, and holds at most one
\* session of a service.
Ordered(cache) ==
    \A i, j \in 1 .. Len(cache) :
       i < j => /\ cache[i].unused >= cache[j].unused
                /\ cache[i].arc.service # cache[j].arc.service

CacheInv == Ordered(sessions) /\ CacheBounded

\* Where a dispatch is decides what it has: a service from its start on, a
\* session once it has opened or found one, an open question for headers.
DispatchInv ==
    \A d \in Dispatchers :
       /\ pc[d] = "idle" => /\ target[d] = Nothing /\ held[d] = 0 /\ rejected[d] = 0
                            /\ handshakes[d] = 0 /\ ran[d] = 0
       /\ pc[d] # "idle" => target[d] \in Services
       /\ pc[d] \in {"call", "evict"} <=> session[d] # Nothing
       /\ pc[d] = "headers" <=> d \in asked
       /\ pc[d] # "evict" => ran[d] = 0
       /\ pc[d] = "call" => /\ session[d].service = target[d]
                            /\ session[d].generation = held[d]

\* The tokens of a dispatch: it holds one the source has produced, and once one
\* of them was rejected no later one is as old.
TokenInv ==
    \A d \in Dispatchers :
       /\ held[d] <= generation
       /\ rejected[d] <= generation
       /\ pc[d] \in {"lookup", "handshake", "call"} => held[d] > rejected[d]
       /\ pc[d] \in {"ask", "headers"} /\ rejected[d] # 0 /\ valid
             => rejected[d] < generation

\* The handshakes of a dispatch, counted: one before it has retried, and one
\* after.
HandshakeInv ==
    \A d \in Dispatchers :
       /\ handshakes[d] <= 2
       /\ pc[d] = "ask" => rejected[d] # 0
       /\ pc[d] \in {"ask", "headers", "clear", "lookup"} =>
             handshakes[d] = IF rejected[d] = 0 THEN 0 ELSE 1
       /\ pc[d] = "handshake" => handshakes[d] = IF rejected[d] = 0 THEN 1 ELSE 2

IndInv == TypeOK /\ CacheInv /\ DispatchInv /\ TokenInv /\ HandshakeInv

-----------------------------------------------------------------------------
(* The cache *)

\* Taking sessions out of the cache leaves its order.
LEMMA KeptCache ==
    ASSUME NEW cache \in Seq(CachedSession), Ordered(cache), NEW K
    PROVE  /\ Kept(cache, K) \in Seq(CachedSession)
           /\ Ordered(Kept(cache, K))
           /\ Len(Kept(cache, K)) <= Len(cache)
           /\ (\E n \in 1 .. Len(cache) : cache[n] \notin K)
                 => Len(Kept(cache, K)) < Len(cache)
           /\ Range(Kept(cache, K)) = Range(cache) \cap K
<1> DEFINE kept == Kept(cache, K)
<1>1. /\ kept \in Seq(CachedSession)
      /\ Len(kept) <= Len(cache)
      /\ (\E n \in 1 .. Len(cache) : cache[n] \notin K) => Len(kept) < Len(cache)
  BY KeptInOrder
<1>2a. PICK at : ArePlaces(at, cache, K)
  BY KeptInOrder
<1>2. /\ at \in [1 .. Len(kept) -> 1 .. Len(cache)]
      /\ \A i \in 1 .. Len(kept) : kept[i] = cache[at[i]] /\ cache[at[i]] \in K
      /\ \A i, j \in 1 .. Len(kept) : i < j => at[i] < at[j]
      /\ \A n \in 1 .. Len(cache) :
            cache[n] \in K => \E i \in 1 .. Len(kept) : at[i] = n
  BY <1>2a DEF ArePlaces
<1> HIDE DEF kept
<1>3. Ordered(kept)
  <2> SUFFICES ASSUME NEW i \in 1 .. Len(kept), NEW j \in 1 .. Len(kept), i < j
               PROVE  /\ kept[i].unused >= kept[j].unused
                      /\ kept[i].arc.service # kept[j].arc.service
    BY DEF Ordered
  <2>1. /\ at[i] \in 1 .. Len(cache) /\ at[j] \in 1 .. Len(cache) /\ at[i] < at[j]
        /\ kept[i] = cache[at[i]] /\ kept[j] = cache[at[j]]
    BY <1>2
  <2> QED
    BY <2>1 DEF Ordered
<1>4. DOMAIN kept = 1 .. Len(kept) /\ DOMAIN cache = 1 .. Len(cache)
  BY <1>1
<1>5. Range(kept) = Range(cache) \cap K
  <2>1. ASSUME NEW e \in Range(kept) PROVE e \in Range(cache) \cap K
    <3>1. PICK i \in 1 .. Len(kept) : e = kept[i]
      BY <1>4 DEF Range
    <3> QED
      BY <1>2, <1>4, <3>1 DEF Range
  <2>2. ASSUME NEW e \in Range(cache) \cap K PROVE e \in Range(kept)
    <3>1. PICK n \in 1 .. Len(cache) : e = cache[n]
      BY <1>4 DEF Range
    <3>2. PICK i \in 1 .. Len(kept) : at[i] = n
      BY <1>2, <3>1
    <3> QED
      BY <1>2, <1>4, <3>1, <3>2 DEF Range
  <2> QED
    BY <2>1, <2>2
<1> QED
  BY <1>1, <1>3, <1>5 DEF kept

\* A session that is used becomes the last of the cache, in the place of the one
\* of its service.
LEMMA UseCache ==
    ASSUME NEW cache \in Seq(CachedSession), Ordered(cache), NEW arc \in Session
    PROVE  /\ Use(cache, arc) \in Seq(CachedSession)
           /\ Ordered(Use(cache, arc))
           /\ Len(Use(cache, arc)) <= Len(cache) + 1
           /\ (\E e \in Range(cache) : e.arc.service = arc.service)
                 => Len(Use(cache, arc)) <= Len(cache)
           /\ Range(Use(cache, arc)) =
                 {e \in Range(cache) : e.arc.service # arc.service}
                 \cup {[arc |-> arc, unused |-> 0]}
           /\ Len(Use(cache, arc)) > 0
           /\ Use(cache, arc)[Len(Use(cache, arc))].arc = arc
<1> DEFINE K == {e \in Range(cache) : e.arc.service # arc.service}
           new == [arc |-> arc, unused |-> 0]
           kept == Kept(cache, K)
           used == Append(kept, new)
<1>1. /\ kept \in Seq(CachedSession) /\ Ordered(kept) /\ Len(kept) <= Len(cache)
      /\ (\E n \in 1 .. Len(cache) : cache[n] \notin K) => Len(kept) < Len(cache)
      /\ Range(kept) = K
  <2> HIDE DEF K
  <2>1. Range(cache) \cap K = K
    BY DEF K
  <2> QED
    BY <2>1, KeptCache
<1>2. Use(cache, arc) = used
  BY DEF Use
<1>3. new \in CachedSession /\ new.unused = 0 /\ new.arc = arc
  BY DEF CachedSession
<1> HIDE DEF K, new, kept
<1>4. /\ used \in Seq(CachedSession)
      /\ Len(used) = Len(kept) + 1 /\ Len(kept) \in Nat /\ Len(cache) \in Nat
      /\ \A i \in 1 .. Len(kept) : used[i] = kept[i]
      /\ used[Len(kept) + 1] = new
      /\ DOMAIN used = 1 .. Len(kept) + 1 /\ DOMAIN kept = 1 .. Len(kept)
      /\ DOMAIN cache = 1 .. Len(cache)
  BY <1>1, <1>3
<1> HIDE DEF used
<1>5. Range(used) = K \cup {new}
  BY <1>1, <1>4 DEF Range
<1>6. Ordered(used)
  <2> SUFFICES ASSUME NEW i \in 1 .. Len(kept) + 1, NEW j \in 1 .. Len(kept) + 1, i < j
               PROVE  /\ used[i].unused >= used[j].unused
                      /\ used[i].arc.service # used[j].arc.service
    BY <1>4 DEF Ordered
  <2>1. CASE j \in 1 .. Len(kept)
    BY <1>1, <1>4, <2>1 DEF Ordered
  <2>2. CASE j = Len(kept) + 1
    <3>1. i \in 1 .. Len(kept) /\ used[i] = kept[i] /\ used[j] = new
      BY <1>4, <2>2
    <3>2. kept[i] \in K
      BY <1>1, <1>4, <3>1 DEF Range
    <3>3. kept[i].arc.service # arc.service
      BY <3>2 DEF K
    <3>4. kept[i].unused \in Nat
      <4>1. kept[i] \in CachedSession
        BY <1>1, <3>1
      <4> QED
        BY <4>1 DEF CachedSession
    <3> QED
      BY <1>3, <3>1, <3>3, <3>4
  <2> QED
    BY <2>1, <2>2
<1>7. (\E e \in Range(cache) : e.arc.service = arc.service) => Len(used) <= Len(cache)
  <2> SUFFICES ASSUME NEW e \in Range(cache), e.arc.service = arc.service
               PROVE  Len(used) <= Len(cache)
    OBVIOUS
  <2>1. PICK n \in 1 .. Len(cache) : cache[n] = e
    BY <1>4 DEF Range
  <2>2. cache[n] \notin K
    BY <2>1 DEF K
  <2> QED
    BY <1>1, <1>4, <2>2
<1>8. Len(used) > 0 /\ used[Len(used)].arc = arc
  BY <1>3, <1>4
<1> QED
  BY <1>1, <1>2, <1>4, <1>5, <1>6, <1>7, <1>8 DEF K, new

\* enforce_bound leaves the end of the cache.
LEMMA BoundCache ==
    ASSUME NEW cache \in Seq(CachedSession), Ordered(cache)
    PROVE  /\ EnforceBound(cache) \in Seq(CachedSession)
           /\ Ordered(EnforceBound(cache))
           /\ Len(EnforceBound(cache)) <= MaxSessions
           /\ \E gone \in Nat :
                 /\ Len(EnforceBound(cache)) = Len(cache) - gone
                 /\ \A i \in 1 .. Len(EnforceBound(cache)) :
                       EnforceBound(cache)[i] = cache[i + gone]
                 /\ gone # 0 => gone = Len(cache) - MaxSessions
<1> DEFINE rest == EnforceBound(cache)
<1>1. CASE Len(cache) <= MaxSessions
  <2>1. rest = cache
    BY <1>1 DEF EnforceBound
  <2> HIDE DEF rest
  <2>2. rest \in Seq(CachedSession) /\ Ordered(rest) /\ Len(rest) <= MaxSessions
    BY <1>1, <2>1
  <2>3. 0 \in Nat /\ Len(rest) = Len(cache) - 0 /\ \A i \in 1 .. Len(rest) : rest[i] = cache[i + 0]
    BY <2>1
  <2> QED
    BY <2>2, <2>3 DEF rest
<1>2. CASE Len(cache) > MaxSessions
  <2> DEFINE gone == Len(cache) - MaxSessions
  <2>1. rest = SubSeq(cache, gone + 1, Len(cache))
    BY <1>2 DEF EnforceBound
  <2>2. gone \in Nat /\ gone + 1 \in 1 .. Len(cache) /\ Len(cache) \in Nat
    BY <1>2
  <2>3. /\ rest \in Seq(CachedSession)
        /\ Len(rest) = MaxSessions
        /\ \A i \in 1 .. MaxSessions : rest[i] = cache[i + gone]
    BY <2>1, <2>2
  <2> HIDE DEF rest
  <2>4. Ordered(rest)
    <3> SUFFICES ASSUME NEW i \in 1 .. MaxSessions, NEW j \in 1 .. MaxSessions, i < j
                 PROVE  /\ rest[i].unused >= rest[j].unused
                        /\ rest[i].arc.service # rest[j].arc.service
      BY <2>3 DEF Ordered
    <3>1. i + gone \in 1 .. Len(cache) /\ j + gone \in 1 .. Len(cache) /\ i + gone < j + gone
      BY <2>2
    <3> HIDE DEF gone
    <3> QED
      BY <2>3, <3>1 DEF Ordered
  <2>5. Len(rest) = Len(cache) - gone /\ gone = Len(cache) - MaxSessions
    BY <2>2, <2>3
  <2>6. \E g \in Nat : /\ Len(rest) = Len(cache) - g
                       /\ \A i \in 1 .. Len(rest) : rest[i] = cache[i + g]
                       /\ g # 0 => g = Len(cache) - MaxSessions
    <3> HIDE DEF gone
    <3>1. gone \in Nat
      BY <2>2
    <3> WITNESS gone \in Nat
    <3> QED
      BY <2>3, <2>5
  <2>7. rest \in Seq(CachedSession) /\ Len(rest) <= MaxSessions
    BY <2>3
  <2> QED
    BY <2>4, <2>6, <2>7, Zenon DEF rest
<1> QED
  BY <1>1, <1>2

-----------------------------------------------------------------------------
(* Identities *)

\* A function on a finite set has at most as many values as arguments.
LEMMA FiniteImage ==
    ASSUME NEW S, IsFiniteSet(S), NEW f, DOMAIN f = S
    PROVE  /\ IsFiniteSet({f[x] : x \in S})
           /\ Cardinality({f[x] : x \in S}) <= Cardinality(S)
<1> DEFINE T == {f[x] : x \in S}
           g == [x \in S |-> f[x]]
<1>1. g \in Surjection(S, T)
  BY DEF Surjection
<1> HIDE DEF T, g
<1> QED
  BY <1>1, FS_Surjection DEF T

\* While a dispatch has no session there are more identities than sessions in
\* the cache and with the other dispatches.
LEMMA FreshIdIsFresh ==
    ASSUME TypeOK, CacheBounded, NEW d \in Dispatchers, session[d] = Nothing
    PROVE  /\ FreshId \in Ids
           /\ \A arc \in Cached : arc.id # FreshId
<1> DEFINE L == Len(sessions)
           N == Cardinality(Dispatchers)
           Busy == {c \in Dispatchers : session[c] # Nothing}
           InCache == [i \in 1 .. L |-> sessions[i].arc.id]
           InUse == [c \in Busy |-> session[c].id]
           A == {InCache[i] : i \in 1 .. L}
           B == {InUse[c] : c \in Busy}
           live == {arc.id : arc \in Cached \cup (Range(session) \ {Nothing})}
<1>1. /\ L \in Nat /\ L <= MaxSessions
      /\ sessions \in Seq(CachedSession) /\ DOMAIN sessions = 1 .. L
      /\ session \in [Dispatchers -> Session \cup {Nothing}]
  BY DEF TypeOK, CacheBounded
<1>2. N \in Nat /\ Ids = 1 .. N + MaxSessions
  BY FS_CardinalityType DEF Ids
<1>3. IsFiniteSet(A) /\ Cardinality(A) \in Nat /\ Cardinality(A) <= L
  <2>1. IsFiniteSet(1 .. L) /\ Cardinality(1 .. L) = L
    <3> HIDE DEF L
    <3>1. 1 \in Int /\ L \in Int /\ IF 1 > L THEN L = 0 ELSE L - 1 + 1 = L
      BY <1>1
    <3>2. IsFiniteSet(1 .. L) /\ Cardinality(1 .. L) = IF 1 > L THEN 0 ELSE L - 1 + 1
      BY <3>1, FS_Interval, Zenon
    <3> QED
      BY <3>1, <3>2
  <2>2. DOMAIN InCache = 1 .. L
    OBVIOUS
  <2> HIDE DEF InCache, L
  <2> QED
    BY <2>1, <2>2, FiniteImage, FS_CardinalityType
<1>4. IsFiniteSet(B) /\ Cardinality(B) \in Nat /\ Cardinality(B) <= N - 1
  <2>1. Busy \in SUBSET (Dispatchers \ {d})
    OBVIOUS
  <2>2. IsFiniteSet(Dispatchers \ {d}) /\ Cardinality(Dispatchers \ {d}) = N - 1
    BY FS_RemoveElement
  <2>3. DOMAIN InUse = Busy
    OBVIOUS
  <2> HIDE DEF Busy, InUse
  <2>4. IsFiniteSet(Busy) /\ Cardinality(Busy) \in Nat /\ Cardinality(Busy) <= N - 1
    BY <2>1, <2>2, FS_Subset, FS_CardinalityType
  <2>5. IsFiniteSet(B) /\ Cardinality(B) <= Cardinality(Busy)
    BY <2>3, <2>4, FiniteImage
  <2>6. Cardinality(B) \in Nat
    BY <2>5, FS_CardinalityType
  <2> QED
    BY <1>2, <2>4, <2>5, <2>6
<1>5. live \subseteq A \cup B
  <2> SUFFICES ASSUME NEW arc \in Cached \cup (Range(session) \ {Nothing})
               PROVE  arc.id \in A \cup B
    OBVIOUS
  <2>1. CASE arc \in Cached
    <3>1. PICK i \in 1 .. L : arc = sessions[i].arc
      BY <1>1, <2>1 DEF Cached, Range
    <3> QED
      BY <3>1
  <2>2. CASE arc \in Range(session) \ {Nothing}
    <3>1. PICK c \in Busy : arc = session[c]
      BY <1>1, <2>2 DEF Range
    <3> QED
      BY <3>1
  <2> QED
    BY <2>1, <2>2
<1> HIDE DEF A, B, L, N, live
<1>6. Ids \ live # {}
  <2> SUFFICES ASSUME Ids \subseteq A \cup B PROVE FALSE
    BY <1>5
  <2>1. /\ IsFiniteSet(A \cup B) /\ Cardinality(A \cup B) \in Nat
        /\ Cardinality(A \cup B) <= Cardinality(A) + Cardinality(B)
    <3>1. IsFiniteSet(A \cap B) /\ Cardinality(A \cap B) \in Nat
      BY <1>3, FS_Intersection, FS_CardinalityType
    <3>2. /\ IsFiniteSet(A \cup B)
          /\ Cardinality(A \cup B) = Cardinality(A) + Cardinality(B) - Cardinality(A \cap B)
      BY <1>3, <1>4, FS_Union
    <3> QED
      BY <1>3, <1>4, <3>1, <3>2, FS_CardinalityType
  <2>2. Cardinality(Ids) = N + MaxSessions
    BY <1>2, FS_Interval
  <2>3. Cardinality(Ids) <= Cardinality(A \cup B)
    BY <2>1, FS_Subset
  <2> QED
    BY <1>1, <1>2, <1>3, <1>4, <2>1, <2>2, <2>3
<1>7. PICK i \in Ids \ live : \A j \in Ids \ live : i <= j
  <2>1. Ids \ live \in SUBSET Nat
    BY <1>2
  <2> QED
    BY <1>6, <2>1, LeastNatural
<1>8. FreshId \in Ids \ live
  BY <1>7 DEF FreshId, live
<1> QED
  BY <1>8 DEF live

-----------------------------------------------------------------------------
(* Every step preserves the invariant *)

\* Initially no dispatch is under way and nothing is cached.
LEMMA InitIndInv == Init => IndInv
<1> SUFFICES ASSUME Init PROVE IndInv
  OBVIOUS
<1>1. TypeOK
  <2>1. sessions \in Seq(CachedSession)
    BY DEF Init
  <2>2. /\ generation \in 0 .. MaxGeneration
        /\ held \in [Dispatchers -> 0 .. MaxGeneration]
    BY DEF Init, Auth!Init
  <2>3. /\ rejected \in [Dispatchers -> 0 .. MaxGeneration]
        /\ handshakes \in [Dispatchers -> 0 .. 3]
        /\ ran \in [Dispatchers -> Nat]
    BY DEF Init
  <2>4. valid \in BOOLEAN /\ backoff \in BOOLEAN /\ asked \subseteq Dispatchers
    BY DEF Init, Auth!Init
  <2>5. /\ pc \in [Dispatchers -> {"idle"}]
        /\ target \in [Dispatchers -> {Nothing}]
        /\ session \in [Dispatchers -> {Nothing}]
    BY DEF Init
  <2> QED
    BY <2>1, <2>2, <2>3, <2>4, <2>5 DEF TypeOK
<1>2. CacheInv
  <2>1. sessions = <<>> /\ Len(sessions) = 0
    BY DEF Init
  <2> QED
    BY <2>1 DEF CacheInv, Ordered, CacheBounded
<1>3. DispatchInv
  BY DEF Init, Auth!Init, DispatchInv
<1>4. TokenInv
  BY DEF Init, Auth!Init, TokenInv
<1>5. HandshakeInv
  BY DEF Init, HandshakeInv
<1> QED
  BY <1>1, <1>2, <1>3, <1>4, <1>5 DEF IndInv

\* A dispatch that starts preserves the invariant.
LEMMA StartInv ==
    ASSUME IndInv, NEW d \in Dispatchers, NEW s \in Services, Start(d, s)
    PROVE  IndInv'
<1> USE DEF IndInv, Start, Goto, Auth!Ask, historyVars
<1>1. TypeOK'
  BY DEF TypeOK
<1>2. CacheInv'
  BY DEF CacheInv, Ordered, CacheBounded
<1>3. DispatchInv'
  BY DEF TypeOK, DispatchInv
<1>4. TokenInv'
  BY DEF TypeOK, DispatchInv, TokenInv
<1>5. HandshakeInv'
  BY DEF TypeOK, DispatchInv, HandshakeInv
<1> QED
  BY <1>1, <1>2, <1>3, <1>4, <1>5

\* So does the second question for headers, after a rejection ...
LEMMA AskAgainInv ==
    ASSUME IndInv, NEW d \in Dispatchers, AskAgain(d)
    PROVE  IndInv'
<1> USE DEF IndInv, AskAgain, Goto, Auth!Ask, historyVars, localVars
<1>1. TypeOK'
  BY DEF TypeOK
<1>2. CacheInv'
  BY DEF CacheInv, Ordered, CacheBounded
<1>3. DispatchInv'
  BY DEF TypeOK, DispatchInv
<1>4. TokenInv'
  BY DEF TypeOK, DispatchInv, TokenInv
<1>5. HandshakeInv'
  BY DEF TypeOK, DispatchInv, HandshakeInv
<1> QED
  BY <1>1, <1>2, <1>3, <1>4, <1>5

\* ... and the answer, whatever it is: a token served to a dispatch whose token was
\* rejected is newer than that one.
LEMMA GetHeadersInv ==
    ASSUME IndInv, NEW d \in Dispatchers, GetHeaders(d)
    PROVE  IndInv'
<1> USE DEF IndInv, GetHeaders, Goto, historyVars, localVars
<1>1. CASE Auth!Grant(d)
  <2> USE <1>1 DEF Auth!Grant, Auth!Answer
  <2> QED
    BY DEF TypeOK, CacheInv, Ordered, CacheBounded, DispatchInv, TokenInv, HandshakeInv
<1>2. CASE Auth!Renew(d)
  <2> QED
    BY <1>2 DEF Auth!Renew, Auth!Answer, TypeOK, CacheInv, Ordered, CacheBounded, DispatchInv, TokenInv, HandshakeInv
<1>3. CASE Auth!Fail(d) \/ Auth!Refuse(d)
  <2> USE <1>3 DEF Auth!Fail, Auth!Refuse, Auth!Answer
  <2>1. TypeOK'
    <3>1. held' = [held EXCEPT ![d] = 0] /\ 0 \in 0 .. MaxGeneration
      OBVIOUS
    <3>2. held' \in [Dispatchers -> 0 .. MaxGeneration]
      BY <3>1 DEF TypeOK
    <3>3. pc' = [pc EXCEPT ![d] = "clear"]
      BY <3>1 DEF TypeOK
    <3> QED
      BY <3>2, <3>3 DEF TypeOK
  <2>2. CacheInv'
    BY DEF CacheInv, Ordered, CacheBounded
  <2>3. DispatchInv'
    BY DEF TypeOK, DispatchInv
  <2>4. TokenInv'
    BY DEF TypeOK, DispatchInv, TokenInv
  <2>5. HandshakeInv'
    BY DEF TypeOK, HandshakeInv
  <2> QED
    BY <2>1, <2>2, <2>3, <2>4, <2>5
<1> QED
  BY <1>1, <1>2, <1>3 DEF Auth!Serve

\* A first handshake that is rejected preserves the invariant: the token it
\* carried is forgotten if it is the current one.
LEMMA HandshakeUnauthorizedInv ==
    ASSUME IndInv, NEW d \in Dispatchers, HandshakeUnauthorized(d)
    PROVE  IndInv'
<1> USE DEF IndInv, HandshakeUnauthorized, Goto, historyVars, Auth!Forget
<1>1. TypeOK'
  BY DEF TypeOK
<1>2. CacheInv'
  BY DEF CacheInv, Ordered, CacheBounded
<1>3. DispatchInv'
  BY DEF TypeOK, DispatchInv
<1>4. TokenInv'
  <2>1. /\ held[d] <= generation /\ rejected'[d] = held[d] /\ held'[d] = 0
        /\ generation' = generation /\ generation \in Nat /\ held[d] \in Nat
        /\ pc'[d] = "ask"
    BY DEF TypeOK, TokenInv
  <2>2. (valid' => valid) /\ (valid' => held[d] # generation)
    BY Zenon
  <2> SUFFICES ASSUME NEW c \in Dispatchers
               PROVE  /\ held'[c] <= generation'
                      /\ rejected'[c] <= generation'
                      /\ pc'[c] \in {"lookup", "handshake", "call"} => held'[c] > rejected'[c]
                      /\ pc'[c] \in {"ask", "headers"} /\ rejected'[c] # 0 /\ valid'
                            => rejected'[c] < generation'
    BY DEF TokenInv
  <2>3. CASE c = d
    BY ONLY <2>1, <2>2, <2>3
  <2>4. CASE c # d
    BY <2>2, <2>4 DEF TypeOK, TokenInv
  <2> QED
    BY <2>3, <2>4
<1>5. HandshakeInv'
  BY DEF TypeOK, DispatchInv, TokenInv, HandshakeInv
<1> QED
  BY <1>1, <1>2, <1>3, <1>4, <1>5

\* A dispatch that ends preserves it: after a failed handshake ...
LEMMA HandshakeFailedInv ==
    ASSUME IndInv, NEW d \in Dispatchers, HandshakeFailed(d)
    PROVE  IndInv'
<1> USE DEF IndInv, HandshakeFailed, Finish, Goto, Auth!LetGo
<1>1. TypeOK'
  BY DEF TypeOK
<1>2. CacheInv'
  BY DEF CacheInv, Ordered, CacheBounded
<1>3. DispatchInv'
  BY DEF TypeOK, DispatchInv
<1>4. TokenInv'
  BY DEF TypeOK, DispatchInv, TokenInv
<1>5. HandshakeInv'
  BY DEF TypeOK, DispatchInv, TokenInv, HandshakeInv
<1> QED
  BY <1>1, <1>2, <1>3, <1>4, <1>5

\* ... after a call, ...
LEMMA CallOkInv ==
    ASSUME IndInv, NEW d \in Dispatchers, CallOk(d)
    PROVE  IndInv'
<1> USE DEF IndInv, CallOk, Finish, Goto, Auth!LetGo
<1>1. TypeOK'
  BY DEF TypeOK
<1>2. CacheInv'
  BY DEF CacheInv, Ordered, CacheBounded
<1>3. DispatchInv'
  BY DEF TypeOK, DispatchInv
<1>4. TokenInv'
  BY DEF TypeOK, DispatchInv, TokenInv
<1>5. HandshakeInv'
  BY DEF TypeOK, DispatchInv, TokenInv, HandshakeInv
<1> QED
  BY <1>1, <1>2, <1>3, <1>4, <1>5

\* A call that fails preserves it, whether its tool was run or not.
LEMMA CallFailedInv ==
    ASSUME IndInv, NEW d \in Dispatchers, CallFailed(d)
    PROVE  IndInv'
<1> USE DEF IndInv, CallFailed, Goto, authVars, localVars
<1>1. TypeOK'
  BY DEF TypeOK
<1>2. CacheInv'
  BY DEF CacheInv, Ordered, CacheBounded
<1>3. DispatchInv'
  BY DEF TypeOK, DispatchInv
<1>4. TokenInv'
  BY DEF TypeOK, DispatchInv, TokenInv
<1>5. HandshakeInv'
  BY DEF TypeOK, DispatchInv, TokenInv, HandshakeInv
<1> QED
  BY <1>1, <1>2, <1>3, <1>4, <1>5

\* ... and after it has been refused a credential, with the cache.
LEMMA ClearSessionsInv ==
    ASSUME IndInv, NEW d \in Dispatchers, ClearSessions(d)
    PROVE  IndInv'
<1> USE DEF IndInv, ClearSessions, Finish, Goto, Auth!LetGo
<1>1. TypeOK'
  BY DEF TypeOK
<1>2. CacheInv'
  BY DEF CacheInv, Ordered, CacheBounded
<1>3. DispatchInv'
  BY DEF TypeOK, DispatchInv
<1>4. TokenInv'
  BY DEF TypeOK, DispatchInv, TokenInv
<1>5. HandshakeInv'
  BY DEF TypeOK, DispatchInv, TokenInv, HandshakeInv
<1> QED
  BY <1>1, <1>2, <1>3, <1>4, <1>5

\* So do the credential service's deadlines.
LEMMA AuthTickInv ==
    ASSUME IndInv, AuthTick
    PROVE  IndInv'
<1> USE DEF IndInv, AuthTick, localVars, historyVars, Auth!Expire, Auth!Cool
<1>1. TypeOK'
  BY DEF TypeOK
<1>2. CacheInv'
  BY DEF CacheInv, Ordered, CacheBounded
<1>3. DispatchInv'
  BY DEF TypeOK, DispatchInv
<1>4. TokenInv'
  BY DEF TypeOK, DispatchInv, TokenInv
<1>5. HandshakeInv'
  BY DEF TypeOK, DispatchInv, TokenInv, HandshakeInv
<1> QED
  BY <1>1, <1>2, <1>3, <1>4, <1>5


\* evict_idle, taking only sessions out, leaves the order.
LEMMA EvictIdleCache ==
    ASSUME TypeOK, CacheInv
    PROVE  /\ EvictIdle(sessions) \in Seq(CachedSession)
           /\ Ordered(EvictIdle(sessions))
           /\ Len(EvictIdle(sessions)) <= MaxSessions
           /\ Range(EvictIdle(sessions)) = {e \in Range(sessions) : e.unused < IdleTtl}
<1> DEFINE K == {e \in Range(sessions) : e.unused < IdleTtl}
<1>1. sessions \in Seq(CachedSession) /\ Ordered(sessions) /\ Len(sessions) <= MaxSessions
  BY DEF TypeOK, CacheInv, CacheBounded
<1>2. Range(sessions) \cap K = K /\ EvictIdle(sessions) = Kept(sessions, K)
  BY DEF EvictIdle
<1> HIDE DEF K
<1>3. /\ Kept(sessions, K) \in Seq(CachedSession)
      /\ Ordered(Kept(sessions, K))
      /\ Len(Kept(sessions, K)) <= Len(sessions)
      /\ Range(Kept(sessions, K)) = K
  BY <1>1, <1>2, KeptCache
<1>4. Len(Kept(sessions, K)) <= MaxSessions
  BY <1>1, <1>3
<1> QED
  BY <1>2, <1>3, <1>4 DEF K

\* A dispatch that opens a session preserves the invariant: it is its first, or
\* its second after a rejection.
LEMMA OpenNewInv ==
    ASSUME IndInv, NEW d \in Dispatchers, OpenNew(d)
    PROVE  IndInv'
<1>1. sessions' \in Seq(CachedSession) /\ Ordered(sessions') /\ Len(sessions') <= MaxSessions
  BY EvictIdleCache DEF IndInv, OpenNew
<1>2. CacheInv'
  BY <1>1 DEF CacheInv, CacheBounded, Ordered
<1> USE DEF IndInv, OpenNew, Goto, authVars, localVars
<1>3. TypeOK'
  BY <1>1 DEF TypeOK
<1>4. DispatchInv'
  BY DEF TypeOK, DispatchInv
<1>5. TokenInv'
  BY DEF TypeOK, DispatchInv, TokenInv
<1>6. HandshakeInv'
  BY DEF TypeOK, DispatchInv, TokenInv, HandshakeInv
<1> QED
  BY <1>2, <1>3, <1>4, <1>5, <1>6

\* Taking out the failed session preserves the invariant.
LEMMA EvictInv ==
    ASSUME IndInv, NEW d \in Dispatchers, Evict(d)
    PROVE  IndInv'
<1>1. sessions' \in Seq(CachedSession) /\ Ordered(sessions') /\ Len(sessions') <= MaxSessions
  <2>1. sessions \in Seq(CachedSession) /\ Ordered(sessions) /\ Len(sessions) <= MaxSessions
    BY DEF IndInv, TypeOK, CacheInv, CacheBounded
  <2> DEFINE K == {e \in Range(sessions) : e.arc # session[d]}
  <2>2. sessions' = Kept(sessions, K)
    BY DEF Evict
  <2> HIDE DEF K
  <2>3. /\ Kept(sessions, K) \in Seq(CachedSession)
        /\ Ordered(Kept(sessions, K))
        /\ Len(Kept(sessions, K)) <= Len(sessions)
    BY <2>1, KeptCache
  <2> QED
    BY <2>1, <2>2, <2>3
<1>2. CacheInv'
  BY <1>1 DEF CacheInv, CacheBounded, Ordered
<1> USE DEF IndInv, Evict, Finish, Goto, Auth!LetGo
<1>3. TypeOK'
  BY <1>1 DEF TypeOK
<1>4. DispatchInv'
  BY DEF TypeOK, DispatchInv
<1>5. TokenInv'
  BY DEF TypeOK, DispatchInv, TokenInv
<1>6. HandshakeInv'
  BY DEF TypeOK, DispatchInv, TokenInv, HandshakeInv
<1> QED
  BY <1>2, <1>3, <1>4, <1>5, <1>6

\* An element of a cache is a cached session.
LEMMA InCache ==
    ASSUME NEW cache \in Seq(CachedSession), NEW e \in Range(cache)
    PROVE  /\ e \in CachedSession /\ e.arc \in Session /\ e.unused \in 0 .. IdleTtl
           /\ \E i \in 1 .. Len(cache) : e = cache[i]
<1>1. PICK i \in 1 .. Len(cache) : e = cache[i]
  BY DEF Range
<1>2. e \in CachedSession
  BY <1>1
<1> QED
  BY <1>1, <1>2 DEF CachedSession

\* Reusing a session preserves the invariant: the session moves to the end of
\* the cache.
LEMMA ReuseInv ==
    ASSUME IndInv, NEW d \in Dispatchers, Reuse(d)
    PROVE  IndInv'
<1> DEFINE cache == EvictIdle(sessions)
<1>1. PICK e \in Range(cache) :
         /\ e.arc.service = target[d] /\ e.arc.generation = held[d]
         /\ sessions' = Use(cache, e.arc)
         /\ session' = [session EXCEPT ![d] = e.arc]
  BY DEF Reuse, Reusable
<1>2. cache \in Seq(CachedSession) /\ Ordered(cache) /\ Len(cache) <= MaxSessions
  BY EvictIdleCache DEF IndInv
<1> HIDE DEF cache
<1>3. e.arc \in Session /\ e.arc # Nothing
  BY <1>2, InCache
<1>4. sessions' \in Seq(CachedSession) /\ Ordered(sessions') /\ Len(sessions') <= MaxSessions
  BY <1>1, <1>2, <1>3, UseCache
<1>5. CacheInv'
  BY <1>4 DEF CacheInv, CacheBounded, Ordered
<1>6. /\ pc[d] = "lookup" /\ pc' = [pc EXCEPT ![d] = "call"]
      /\ UNCHANGED <<authVars, target, rejected, historyVars>>
  BY DEF Reuse, Goto
<1> USE DEF IndInv, authVars, historyVars
<1>7. TypeOK'
  BY <1>1, <1>3, <1>4, <1>6 DEF TypeOK
<1>8. DispatchInv'
  BY <1>1, <1>3, <1>6 DEF TypeOK, DispatchInv
<1>9. TokenInv'
  BY <1>6 DEF TypeOK, TokenInv
<1>10. HandshakeInv'
  BY <1>6 DEF TypeOK, HandshakeInv
<1> QED
  BY <1>5, <1>7, <1>8, <1>9, <1>10

\* A handshake that succeeds preserves the invariant: its session joins the
\* cache, and what does not fit goes.
LEMMA HandshakeOkInv ==
    ASSUME IndInv, NEW d \in Dispatchers, HandshakeOk(d)
    PROVE  IndInv'
<1> DEFINE arc == [id |-> FreshId, service |-> target[d], generation |-> held[d]]
<1>1. /\ pc[d] = "handshake" /\ pc' = [pc EXCEPT ![d] = "call"]
      /\ session' = [session EXCEPT ![d] = arc]
      /\ sessions' = EnforceBound(Use(sessions, arc))
      /\ UNCHANGED <<authVars, target, rejected, historyVars>>
  BY DEF HandshakeOk, Goto
<1>2. arc \in Session /\ arc.service = target[d] /\ arc.generation = held[d]
  <2>1. FreshId \in Ids
    BY <1>1, FreshIdIsFresh DEF IndInv, CacheInv, DispatchInv
  <2>2. target[d] \in Services
    BY <1>1 DEF IndInv, DispatchInv
  <2>3. held[d] \in 1 .. MaxGeneration
    BY <1>1 DEF IndInv, TypeOK, TokenInv
  <2> QED
    BY <2>1, <2>2, <2>3 DEF Session
<1> HIDE DEF arc
<1>3. sessions' \in Seq(CachedSession) /\ Ordered(sessions') /\ Len(sessions') <= MaxSessions
  <2>1. sessions \in Seq(CachedSession) /\ Ordered(sessions)
    BY DEF IndInv, TypeOK, CacheInv
  <2>2. Use(sessions, arc) \in Seq(CachedSession) /\ Ordered(Use(sessions, arc))
    BY <1>2, <2>1, UseCache
  <2> QED
    BY <1>1, <2>2, BoundCache
<1>4. CacheInv'
  BY <1>3 DEF CacheInv, CacheBounded, Ordered
<1> USE DEF IndInv, authVars, historyVars
<1>5. TypeOK'
  BY <1>1, <1>2, <1>3 DEF TypeOK
<1>6. DispatchInv'
  BY <1>1, <1>2 DEF TypeOK, DispatchInv
<1>7. TokenInv'
  BY <1>1 DEF TypeOK, TokenInv
<1>8. HandshakeInv'
  BY <1>1 DEF TypeOK, HandshakeInv
<1> QED
  BY <1>4, <1>5, <1>6, <1>7, <1>8

\* The clock preserves the invariant: what was used later is never older.
LEMMA TickInv ==
    ASSUME IndInv, Tick
    PROVE  IndInv'
<1> DEFINE Older(e) == [e EXCEPT !.unused = IF @ < IdleTtl THEN @ + 1 ELSE @]
<1>1. /\ sessions \in Seq(CachedSession) /\ Ordered(sessions) /\ Len(sessions) <= MaxSessions
      /\ DOMAIN sessions = 1 .. Len(sessions) /\ Len(sessions) \in Nat
  BY DEF IndInv, TypeOK, CacheInv, CacheBounded
<1>2. \A e \in CachedSession :
         /\ Older(e) \in CachedSession
         /\ Older(e).arc = e.arc
         /\ Older(e).unused = IF e.unused < IdleTtl THEN e.unused + 1 ELSE e.unused
         /\ e.unused \in 0 .. IdleTtl
  BY DEF CachedSession
<1>3. sessions' = [i \in 1 .. Len(sessions) |-> Older(sessions[i])]
  BY <1>1 DEF Tick
<1> HIDE DEF Older
<1>4. /\ \A i \in 1 .. Len(sessions) :
            sessions[i] \in CachedSession /\ sessions'[i] = Older(sessions[i])
      /\ sessions' \in Seq(CachedSession)
      /\ Len(sessions') = Len(sessions)
  <2>1. \A i \in 1 .. Len(sessions) :
           sessions[i] \in CachedSession /\ sessions'[i] = Older(sessions[i])
    BY <1>1, <1>3
  <2>2. sessions' \in [1 .. Len(sessions) -> CachedSession]
    BY <1>2, <1>3, <2>1
  <2> QED
    BY <1>1, <2>1, <2>2
<1>5. Ordered(sessions')
  <2> SUFFICES ASSUME NEW i \in 1 .. Len(sessions), NEW j \in 1 .. Len(sessions), i < j
               PROVE  /\ sessions'[i].unused >= sessions'[j].unused
                      /\ sessions'[i].arc.service # sessions'[j].arc.service
    BY <1>4 DEF Ordered
  <2>1. /\ sessions[i].unused >= sessions[j].unused
        /\ sessions[i].arc.service # sessions[j].arc.service
    BY <1>1 DEF Ordered
  <2> DEFINE a == sessions[i]
             b == sessions[j]
  <2>2. a \in CachedSession /\ b \in CachedSession
    BY <1>4
  <2>3. sessions'[i] = Older(a) /\ sessions'[j] = Older(b)
    BY <1>4
  <2>4. a.unused >= b.unused /\ a.arc.service # b.arc.service
    BY <2>1
  <2> HIDE DEF a, b
  <2>5. Older(a).arc = a.arc /\ Older(b).arc = b.arc
    BY <1>2, <2>2
  <2>6. Older(a).unused >= Older(b).unused
    <3>1. /\ a.unused \in 0 .. IdleTtl /\ b.unused \in 0 .. IdleTtl
          /\ Older(a).unused = IF a.unused < IdleTtl THEN a.unused + 1 ELSE a.unused
          /\ Older(b).unused = IF b.unused < IdleTtl THEN b.unused + 1 ELSE b.unused
      BY <1>2, <2>2
    <3> QED
      BY <2>4, <3>1
  <2> QED
    BY <2>3, <2>4, <2>5, <2>6
<1>6. CacheInv'
  BY <1>1, <1>4, <1>5 DEF CacheInv, CacheBounded, Ordered
<1>7. UNCHANGED <<generation, valid, backoff, asked, held, pc, target, session, rejected,
                  handshakes, ran>>
  BY DEF Tick, authVars, localVars, historyVars
<1> QED
  BY <1>4, <1>6, <1>7 DEF IndInv, TypeOK, DispatchInv, TokenInv, HandshakeInv

\* Every step preserves the invariant.
LEMMA NextIndInv == IndInv /\ [Next]_vars => IndInv'
<1> SUFFICES ASSUME IndInv, [Next]_vars PROVE IndInv'
  OBVIOUS
<1>1. ASSUME NEW d \in Dispatchers, Proceed(d) PROVE IndInv'
  BY <1>1, AskAgainInv, GetHeadersInv, ClearSessionsInv, ReuseInv, OpenNewInv,
     HandshakeOkInv, HandshakeUnauthorizedInv, HandshakeFailedInv, CallOkInv,
     CallFailedInv, EvictInv DEF Proceed
<1>2. ASSUME NEW d \in Dispatchers, NEW s \in Services, Start(d, s) PROVE IndInv'
  BY <1>2, StartInv
<1>3. CASE UNCHANGED vars
  BY <1>3 DEF vars, authVars, localVars, historyVars, IndInv, TypeOK, CacheInv, Ordered,
     CacheBounded, DispatchInv, TokenInv, HandshakeInv
<1> QED
  BY <1>1, <1>2, <1>3, TickInv, AuthTickInv DEF Next

-----------------------------------------------------------------------------
(* Theorems *)

\* IndInv is an invariant of the dispatch.
THEOREM Invariance == Spec => []IndInv
BY InitIndInv, NextIndInv, PTL DEF Spec

\* Every variable keeps its type.
THEOREM TypeCorrectness == Spec => []TypeOK
<1>1. IndInv => TypeOK
  BY DEF IndInv
<1> QED
  BY <1>1, Invariance, PTL

\* MAX_SESSIONS: the cache never holds more sessions than its bound, for any bound
\* and however many dispatches overlap.
THEOREM CacheStaysBounded == Spec => []CacheBounded
<1>1. IndInv => CacheBounded
  BY DEF IndInv, CacheInv
<1> QED
  BY <1>1, Invariance, PTL

\* try_dispatch: a call is only sent while no upstream has run the tool for this
\* dispatch.
THEOREM ToolNeverRunsTwice == Spec => []ToolRunsAtMostOnce
<1>1. IndInv => ToolRunsAtMostOnce
  BY DEF IndInv, DispatchInv, ToolRunsAtMostOnce
<1> QED
  BY <1>1, Invariance, PTL

\* session_for: at most two handshakes, the second with a newer token than the one
\* that was rejected, whatever other dispatches invalidate or fetch in between.
THEOREM RetryIsSingleAndNewer == Spec => []RetryOnceWithNewerToken
<1>1. IndInv => RetryOnceWithNewerToken
  BY DEF IndInv, TokenInv, HandshakeInv, RetryOnceWithNewerToken
<1> QED
  BY <1>1, Invariance, PTL

\* open_or_reuse: a call travels in a session of its own service built from the
\* credential its dispatch has applied.
THEOREM CallsCarryTheirCredential == Spec => []CallCarriesAppliedCredential
<1>1. IndInv => CallCarriesAppliedCredential
  BY DEF IndInv, DispatchInv, CallCarriesAppliedCredential
<1> QED
  BY <1>1, Invariance, PTL

\* Only the end of a failed call takes a dispatch from "evict" to "idle".
LEMMA EvictStep ==
    ASSUME IndInv, Next, NEW d \in Dispatchers, pc[d] = "evict", pc'[d] = "idle"
    PROVE  Evict(d)
<1>1. DOMAIN pc = Dispatchers
  BY DEF IndInv, TypeOK
<1>2. ~ (Tick \/ AuthTick)
  BY DEF Tick, AuthTick
<1>3. ASSUME NEW c \in Dispatchers, NEW s \in Services, Start(c, s) PROVE FALSE
  BY <1>1, <1>3 DEF Start, Goto
<1>4. ASSUME NEW c \in Dispatchers, Proceed(c) PROVE c = d
  <2> SUFFICES ASSUME c # d PROVE FALSE
    OBVIOUS
  <2>1. \E label : pc' = [pc EXCEPT ![c] = label]
    BY <1>4, Zenon DEF Proceed, AskAgain, GetHeaders, ClearSessions, Reuse, OpenNew, HandshakeOk,
       HandshakeUnauthorized, HandshakeFailed, CallOk, CallFailed, Evict, Finish, Goto
  <2> QED
    BY <1>1, <2>1
<1>5. Proceed(d)
  BY <1>2, <1>3, <1>4 DEF Next
<1> QED
  BY <1>5 DEF Proceed, AskAgain, GetHeaders, ClearSessions, Reuse, OpenNew, HandshakeOk,
     HandshakeUnauthorized, HandshakeFailed, CallOk, CallFailed

\* Only a handshake that succeeds takes a dispatch from "handshake" to "call".
LEMMA HandshakeStep ==
    ASSUME IndInv, Next, NEW d \in Dispatchers, pc[d] = "handshake", pc'[d] = "call"
    PROVE  HandshakeOk(d)
<1>1. DOMAIN pc = Dispatchers
  BY DEF IndInv, TypeOK
<1>2. ~ (Tick \/ AuthTick)
  BY DEF Tick, AuthTick
<1>3. ASSUME NEW c \in Dispatchers, NEW s \in Services, Start(c, s) PROVE FALSE
  BY <1>1, <1>3 DEF Start, Goto
<1>4. ASSUME NEW c \in Dispatchers, Proceed(c) PROVE c = d
  <2> SUFFICES ASSUME c # d PROVE FALSE
    OBVIOUS
  <2>1. \E label : pc' = [pc EXCEPT ![c] = label]
    BY <1>4, Zenon DEF Proceed, AskAgain, GetHeaders, ClearSessions, Reuse, OpenNew, HandshakeOk,
       HandshakeUnauthorized, HandshakeFailed, CallOk, CallFailed, Evict, Finish, Goto
  <2> QED
    BY <1>1, <2>1
<1>5. Proceed(d)
  BY <1>2, <1>3, <1>4 DEF Next
<1> QED
  BY <1>1, <1>5 DEF Proceed, AskAgain, GetHeaders, ClearSessions, Reuse, OpenNew,
     HandshakeUnauthorized, HandshakeFailed, CallOk, CallFailed, Evict, Finish, Goto

\* evict: a session on which no call has failed stays in the cache, though it has
\* replaced the failed one meanwhile.
THEOREM EvictionSparesOthers == Spec => EvictSparesReplacement
<1>1. IndInv /\ [Next]_vars =>
         [\A d \in Dispatchers : pc[d] = "evict" /\ pc'[d] = "idle" =>
             \A arc \in Cached :
                (\A c \in Dispatchers : pc[c] = "evict" => session[c] # arc)
                   => arc \in Cached']_vars
  <2> SUFFICES ASSUME IndInv, Next, NEW d \in Dispatchers, pc[d] = "evict", pc'[d] = "idle",
                      NEW arc \in Cached, arc # session[d]
               PROVE  arc \in Cached'
    BY Zenon
  <2> DEFINE K == {e \in Range(sessions) : e.arc # session[d]}
  <2>1. sessions' = Kept(sessions, K)
    BY EvictStep DEF Evict
  <2>2. PICK e \in K : e.arc = arc
    BY DEF Cached
  <2>3. Range(sessions) \cap K = K
    OBVIOUS
  <2> HIDE DEF K
  <2>4. Range(sessions') = K
    BY <2>1, <2>3, KeptCache DEF IndInv, TypeOK, CacheInv
  <2> QED
    BY <2>2, <2>4 DEF Cached
<1> QED
  BY <1>1, Invariance, PTL DEF Spec, EvictSparesReplacement

\* enforce_bound: a new session enters a cache within its bound, and whatever it
\* pushes out was used no later than what is kept.
THEOREM LeastRecentGoesFirst == Spec => PushedOutIsLeastRecent
<1>1. IndInv /\ [Next]_vars =>
         [\A d \in Dispatchers : pc[d] = "handshake" /\ pc'[d] = "call" =>
             /\ CacheBounded'
             /\ session'[d] \in Cached'
             /\ \A gone, kept \in Range(sessions) :
                   /\ gone.arc \notin Cached'
                   /\ kept.arc \in Cached'
                   => gone.arc.service = target[d] \/ gone.unused >= kept.unused]_vars
  <2> SUFFICES ASSUME IndInv, Next, NEW d \in Dispatchers,
                      pc[d] = "handshake", pc'[d] = "call"
               PROVE  /\ CacheBounded'
                      /\ session'[d] \in Cached'
                      /\ \A gone, kept \in Range(sessions) :
                            /\ gone.arc \notin Cached'
                            /\ kept.arc \in Cached'
                            => gone.arc.service = target[d] \/ gone.unused >= kept.unused
    BY Zenon
  <2> DEFINE arc == [id |-> FreshId, service |-> target[d], generation |-> held[d]]
             used == Use(sessions, arc)
             rest == EnforceBound(used)
  <2>1. /\ session' = [session EXCEPT ![d] = arc]
        /\ sessions' = rest
    BY HandshakeStep DEF HandshakeOk
  <2>2. FreshId \in Ids /\ \A x \in Cached : x.id # FreshId
    BY FreshIdIsFresh DEF IndInv, CacheInv, DispatchInv
  <2>3. arc \in Session /\ arc.service = target[d] /\ arc.id = FreshId
    <3>1. target[d] \in Services
      BY DEF IndInv, DispatchInv
    <3>2. held[d] \in 1 .. MaxGeneration
      BY DEF IndInv, TypeOK, TokenInv
    <3> QED
      BY <2>2, <3>1, <3>2 DEF Session
  <2>4. session'[d] = arc
    BY <2>1 DEF IndInv, TypeOK
  <2> HIDE DEF arc
  <2>5. sessions \in Seq(CachedSession) /\ Ordered(sessions)
    BY DEF IndInv, TypeOK, CacheInv
  <2>6. /\ used \in Seq(CachedSession) /\ Ordered(used)
        /\ Range(used) = {e \in Range(sessions) : e.arc.service # arc.service}
                          \cup {[arc |-> arc, unused |-> 0]}
        /\ Len(used) > 0 /\ used[Len(used)].arc = arc
    BY <2>3, <2>5, UseCache
  <2> HIDE DEF used
  <2>7. PICK g \in Nat :
           /\ Len(rest) = Len(used) - g
           /\ \A i \in 1 .. Len(rest) : rest[i] = used[i + g]
           /\ g # 0 => g = Len(used) - MaxSessions
    BY <2>6, BoundCache
  <2>8. rest \in Seq(CachedSession)
    BY <2>6, BoundCache
  <2> HIDE DEF rest
  <2>9. /\ DOMAIN rest = 1 .. Len(rest) /\ DOMAIN used = 1 .. Len(used)
        /\ DOMAIN sessions = 1 .. Len(sessions)
        /\ Len(used) \in Nat /\ Len(rest) \in Nat /\ Len(rest) > 0
    BY <2>5, <2>6, <2>7, <2>8
  <2>10. \A x : x \in Cached' <=> \E i \in 1 .. Len(rest) : x = rest[i].arc
    BY <2>1, <2>9 DEF Cached, Range
  <2>11. arc \in Cached'
    <3>1. Len(rest) \in 1 .. Len(rest) /\ rest[Len(rest)] = used[Len(used)]
      BY <2>7, <2>9
    <3> QED
      BY <2>6, <2>10, <3>1
  <2>12. ASSUME NEW gone \in Range(sessions), NEW kept \in Range(sessions),
                gone.arc \notin Cached', kept.arc \in Cached', gone.arc.service # target[d]
         PROVE  gone.unused >= kept.unused
    <3>1. PICK i \in 1 .. Len(used) : used[i] = gone
      BY <2>3, <2>6, <2>9, <2>12 DEF Range
    <3>2. ~ (i > g)
      <4> SUFFICES ASSUME i > g PROVE FALSE
        OBVIOUS
      <4>1. i - g \in 1 .. Len(rest) /\ (i - g) + g = i
        BY <2>7, <2>9
      <4>2. rest[i - g] = gone
        BY <2>7, <3>1, <4>1
      <4> QED
        BY <2>10, <2>12, <4>1, <4>2
    <3>3. PICK k \in 1 .. Len(rest) : kept.arc = rest[k].arc
      BY <2>10, <2>12
    <3>4. k + g \in 1 .. Len(used) /\ i < k + g /\ rest[k] = used[k + g]
      BY <2>7, <2>9, <3>2
    <3>5. used[k + g] \in Range(used) /\ used[k + g].arc = kept.arc
      BY <2>9, <3>3, <3>4 DEF Range
    <3>6. used[k + g] \in Range(sessions)
      <4>1. kept.arc # arc
        BY <2>2, <2>3 DEF Cached
      <4>2. used[k + g] # [arc |-> arc, unused |-> 0]
        BY <3>5, <4>1
      <4> QED
        BY <2>6, <3>5, <4>2
    <3>7. used[k + g] = kept
      <4>1. PICK m \in 1 .. Len(sessions), n \in 1 .. Len(sessions) :
               used[k + g] = sessions[m] /\ kept = sessions[n]
        BY <2>9, <3>6 DEF Range
      <4>2. ~ (m < n) /\ ~ (n < m)
        BY <2>5, <3>5, <4>1 DEF Ordered
      <4> QED
        BY <4>1, <4>2
    <3> QED
      BY <2>6, <3>1, <3>4, <3>7 DEF Ordered
  <2>13. CacheBounded'
    BY NextIndInv DEF IndInv, CacheInv
  <2> QED
    BY <2>4, <2>11, <2>12, <2>13
<1> QED
  BY <1>1, Invariance, PTL DEF Spec, PushedOutIsLeastRecent
=============================================================================
