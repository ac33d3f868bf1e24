-------------------------- MODULE AuthContextProofs --------------------------
(****************************************************************************)
(* Theorems about AuthContext, for any set of callers and any durations that *)
(* satisfy DurationsAssumption.  IndInv is inductive; the properties follow  *)
(* from it, and so does the step simulation of AuthPromise.                  *)
(****************************************************************************)
EXTENDS AuthContext, SequenceTheorems, TLAPS

USE DurationsAssumption, MaxGenerationAssumption, NoTokenAssumption

-----------------------------------------------------------------------------
(* Deadlines *)

\* floor_expiry: an elapsed deadline becomes one that is not stale on the next
\* call, and no other deadline is changed.
LEMMA FloorExpiryFresh ==
    ASSUME NEW left \in Lifetimes
    PROVE  /\ FloorExpiry(left) \in Lifetimes
           /\ left = 0 => ~IsStale(FloorExpiry(left))
           /\ left # 0 => FloorExpiry(left) = left
BY DEF FloorExpiry, IsStale, Lifetimes, Forever

\* The clock neither takes a token away nor makes a stale one fresh.
LEMMA ElapseStays ==
    ASSUME NEW left \in Lifetimes \cup {NoToken}
    PROVE  /\ Elapse(left) \in Lifetimes \cup {NoToken}
           /\ Elapse(left) = NoToken <=> left = NoToken
           /\ IsStale(left) => IsStale(Elapse(left))
BY DEF Elapse, IsStale, Lifetimes, Forever

-----------------------------------------------------------------------------
(* The queue of the mutex *)

\* The queue without its head holds no task twice if the queue did not, and
\* holds every task but the head.
LEMMA TailQueue ==
    ASSUME NEW q \in Seq(Callers), q # <<>>,
           \A i, j \in 1 .. Len(q) : q[i] = q[j] => i = j
    PROVE  /\ Tail(q) \in Seq(Callers)
           /\ \A i, j \in 1 .. Len(Tail(q)) : Tail(q)[i] = Tail(q)[j] => i = j
           /\ \A c : (\E i \in 1 .. Len(Tail(q)) : Tail(q)[i] = c) <=>
                     (c # Head(q) /\ \E i \in 1 .. Len(q) : q[i] = c)
<1> /\ Tail(q) \in Seq(Callers)
    /\ Len(q) \in Nat \ {0}
    /\ Len(Tail(q)) = Len(q) - 1
    /\ \A i \in 1 .. Len(Tail(q)) : Tail(q)[i] = q[i + 1]
    /\ Head(q) = q[1]
  OBVIOUS
<1>1. \A i, j \in 1 .. Len(Tail(q)) : Tail(q)[i] = Tail(q)[j] => i = j
  <2> SUFFICES ASSUME NEW i \in 1 .. Len(Tail(q)),
                      NEW j \in 1 .. Len(Tail(q)),
                      Tail(q)[i] = Tail(q)[j]
               PROVE  i = j
    OBVIOUS
  <2>1. q[i + 1] = q[j + 1] /\ i + 1 \in 1 .. Len(q) /\ j + 1 \in 1 .. Len(q)
    OBVIOUS
  <2> QED
    BY <2>1
<1>2. ASSUME NEW c, NEW i \in 1 .. Len(Tail(q)), Tail(q)[i] = c
      PROVE  c # Head(q) /\ \E k \in 1 .. Len(q) : q[k] = c
  <2>1. i + 1 \in 1 .. Len(q) /\ q[i + 1] = c /\ i + 1 # 1 /\ 1 \in 1 .. Len(q)
    BY <1>2
  <2> QED
    BY <2>1
<1>3. ASSUME NEW c, c # Head(q), NEW k \in 1 .. Len(q), q[k] = c
      PROVE  \E i \in 1 .. Len(Tail(q)) : Tail(q)[i] = c
  <2>1. k - 1 \in 1 .. Len(Tail(q)) /\ Tail(q)[k - 1] = q[k]
    BY <1>3
  <2> QED
    BY <1>3, <2>1
<1> QED
  BY <1>1, <1>2, <1>3

\* A task that joins the queue is not in it yet and does not move its head.
LEMMA AppendQueue ==
    ASSUME NEW q \in Seq(Callers), NEW c \in Callers,
           \A i, j \in 1 .. Len(q) : q[i] = q[j] => i = j,
           ~ \E i \in 1 .. Len(q) : q[i] = c
    PROVE  /\ Append(q, c) \in Seq(Callers)
           /\ Append(q, c) # <<>>
           /\ q # <<>> => Head(Append(q, c)) = Head(q)
           /\ \A i, j \in 1 .. Len(Append(q, c)) :
                 Append(q, c)[i] = Append(q, c)[j] => i = j
           /\ \A d : (\E i \in 1 .. Len(Append(q, c)) : Append(q, c)[i] = d) <=>
                     (d = c \/ \E i \in 1 .. Len(q) : q[i] = d)
<1> DEFINE r == Append(q, c)
<1>1. /\ r \in Seq(Callers)
      /\ Len(q) \in Nat
      /\ Len(r) = Len(q) + 1
      /\ \A i \in 1 .. Len(q) : r[i] = q[i]
      /\ r[Len(r)] = c
  OBVIOUS
<1>2. r # <<>> /\ (q # <<>> => Head(r) = Head(q))
  <2>1. Head(r) = r[1] /\ Head(q) = q[1]
    OBVIOUS
  <2>2. q # <<>> => 1 \in 1 .. Len(q)
    OBVIOUS
  <2> QED
    BY <1>1, <2>1, <2>2
<1> HIDE DEF r
<1>3. \A i \in 1 .. Len(r) : i \in 1 .. Len(q) \/ i = Len(r)
  BY <1>1
<1>4. \A i, j \in 1 .. Len(r) : r[i] = r[j] => i = j
  BY <1>1, <1>3
<1>5. \A d : (\E i \in 1 .. Len(r) : r[i] = d) <=>
             (d = c \/ \E i \in 1 .. Len(q) : q[i] = d)
  BY <1>1, <1>3
<1> QED
  BY <1>1, <1>2, <1>4, <1>5 DEF r
-----------------------------------------------------------------------------
(* The inductive invariant *)

\* The initial states satisfy the invariant.
LEMMA InitIndInv == Init => IndInv
<1> SUFFICES ASSUME Init PROVE IndInv
  OBVIOUS
<1>1. TypeOK
  <2>1. queue \in Seq(Callers)
    BY DEF Init
  <2>2. /\ want \in [Callers -> {"nothing", "credential", "invalidation"}]
        /\ held \in [Callers -> 0 .. MaxGeneration]
    BY DEF Init
  <2>3. /\ quiet \in 0 .. Cooldown /\ cooling \in 0 .. Cooldown
        /\ budget \in 0 .. FetchTimeout /\ generation \in 0 .. MaxGeneration
        /\ trusted \in 0 .. Floor - Margin
    BY DEF Init
  <2> QED
    BY <2>1, <2>2, <2>3 DEF Init, TypeOK
<1>2. LockInv /\ FetchInv /\ HeldInv
  BY DEF Init, LockInv, FetchInv, HeldInv
<1>3. CoolingInv /\ FloorInv /\ NoFailureBesideFreshToken
  BY DEF Init, CoolingInv, FloorInv, NoFailureBesideFreshToken, NeedsFetch
<1> QED
  BY <1>1, <1>2, <1>3 DEF IndInv

\* A task that queues up, for whatever it wants, preserves the invariant.
LEMMA EnqueueIndInv ==
    ASSUME IndInv, NEW c \in Callers,
           NEW what \in {"credential", "invalidation"},
           Enqueue(c, what),
           what = "invalidation" => held[c] # 0
    PROVE  IndInv'
<1> USE DEF IndInv
<1>1. TypeOK'
  BY DEF TypeOK, Enqueue, cacheVars, fetchVars, historyVars
<1>2. LockInv'
  <2>1. ~ \E i \in 1 .. Len(queue) : queue[i] = c
    BY DEF Enqueue, LockInv
  <2>2. queue' = Append(queue, c) /\ queue \in Seq(Callers)
    BY DEF Enqueue, TypeOK
  <2>3. /\ \A i, j \in 1 .. Len(queue') : queue'[i] = queue'[j] => i = j
        /\ \A d : (\E i \in 1 .. Len(queue') : queue'[i] = d) <=>
                  (d = c \/ \E i \in 1 .. Len(queue) : queue[i] = d)
        /\ queue' # <<>>
        /\ queue # <<>> => Head(queue') = Head(queue)
    BY <2>1, <2>2, AppendQueue DEF LockInv
  <2>4. /\ want' = [want EXCEPT ![c] = what]
        /\ want \in [Callers -> {"nothing", "credential", "invalidation"}]
        /\ phase' = phase
    BY DEF Enqueue, TypeOK, fetchVars
  <2>5. \A d \in Callers :
           want'[d] # "nothing" <=> \E i \in 1 .. Len(queue') : queue'[i] = d
    BY <2>3, <2>4 DEF LockInv
  <2>6. phase' # "idle" => queue' # <<>> /\ want'[Head(queue')] = "credential"
    <3> SUFFICES ASSUME phase # "idle"
                 PROVE  queue' # <<>> /\ want'[Head(queue')] = "credential"
      BY <2>4
    <3>1. queue # <<>> /\ want[Head(queue)] = "credential"
      BY DEF LockInv
    <3>2. Head(queue) \in Callers /\ Head(queue) # c
      BY <2>2, <3>1 DEF Enqueue
    <3> QED
      BY <2>3, <2>4, <3>1, <3>2
  <2> QED
    BY <2>3, <2>5, <2>6 DEF LockInv
<1>3. FetchInv' /\ CoolingInv' /\ FloorInv' /\ NoFailureBesideFreshToken'
  BY DEF Enqueue, cacheVars, fetchVars, historyVars, FetchInv, CoolingInv,
         FloorInv, NoFailureBesideFreshToken, NeedsFetch
<1>4. HeldInv'
  BY DEF Enqueue, cacheVars, HeldInv, TypeOK
<1> QED
  BY <1>1, <1>2, <1>3, <1>4

\* A holder that returns leaves the lock protocol intact, whatever it did to
\* the cache.
LEMMA ReturnLock ==
    ASSUME TypeOK, LockInv, NEW c \in Callers, NEW g \in 0 .. MaxGeneration,
           queue # <<>>, Head(queue) = c, Return(c, g)
    PROVE  /\ LockInv'
           /\ queue' \in Seq(Callers)
           /\ want' \in [Callers -> {"nothing", "credential", "invalidation"}]
           /\ held' \in [Callers -> 0 .. MaxGeneration]
           /\ phase' = "idle"
           /\ budget' = 0
<1>1. queue \in Seq(Callers) /\ queue' = Tail(queue)
  BY DEF TypeOK, Return
<1>2. /\ queue' \in Seq(Callers)
      /\ \A i, j \in 1 .. Len(queue') : queue'[i] = queue'[j] => i = j
      /\ \A d : (\E i \in 1 .. Len(queue') : queue'[i] = d) <=>
                (d # c /\ \E i \in 1 .. Len(queue) : queue[i] = d)
  <2> DEFINE q == Tail(queue)
  <2>1. /\ q \in Seq(Callers)
        /\ \A i, j \in 1 .. Len(q) : q[i] = q[j] => i = j
        /\ \A d : (\E i \in 1 .. Len(q) : q[i] = d) <=>
                  (d # Head(queue) /\ \E i \in 1 .. Len(queue) : queue[i] = d)
    BY <1>1, TailQueue DEF LockInv
  <2> HIDE DEF q
  <2> QED
    BY <1>1, <2>1 DEF q
<1>3. /\ want' = [want EXCEPT ![c] = "nothing"]
      /\ want \in [Callers -> {"nothing", "credential", "invalidation"}]
  BY DEF Return, TypeOK
<1>4. \A d \in Callers :
         want'[d] # "nothing" <=> \E i \in 1 .. Len(queue') : queue'[i] = d
  BY <1>2, <1>3 DEF LockInv
<1>5. phase' = "idle" /\ budget' = 0
  BY DEF Return
<1>6. held' \in [Callers -> 0 .. MaxGeneration]
  BY DEF Return, TypeOK
<1> QED
  BY <1>2, <1>3, <1>4, <1>5, <1>6 DEF LockInv
\* An answer that leaves the cache alone (UseCached, StayCool) preserves the
\* invariant.
LEMMA AnswerIndInv ==
    ASSUME IndInv, NEW c \in Callers, UseCached(c) \/ StayCool(c)
    PROVE  IndInv'
<1> USE DEF IndInv
<1> PICK g \in {0, generation} : /\ queue # <<>> /\ Head(queue) = c
                                 /\ Return(c, g)
                                 /\ UNCHANGED <<cacheVars, provider, historyVars>>
  BY DEF UseCached, StayCool, Holds
<1>1. g \in 0 .. MaxGeneration /\ g <= generation
  BY DEF TypeOK
<1>2. /\ LockInv' /\ queue' \in Seq(Callers)
      /\ want' \in [Callers -> {"nothing", "credential", "invalidation"}]
      /\ held' \in [Callers -> 0 .. MaxGeneration]
      /\ phase' = "idle" /\ budget' = 0
  BY <1>1, ReturnLock
<1>3. TypeOK'
  BY <1>2 DEF TypeOK, cacheVars, historyVars
<1>4. FetchInv' /\ CoolingInv' /\ FloorInv' /\ NoFailureBesideFreshToken'
  BY <1>2 DEF cacheVars, historyVars, FetchInv, CoolingInv, FloorInv,
              NoFailureBesideFreshToken, NeedsFetch
<1>5. HeldInv'
  BY <1>1 DEF HeldInv, TypeOK, Return, cacheVars
<1> QED
  BY <1>2, <1>3, <1>4, <1>5

\* A fetch starts, or finds its provider: nothing but its phase changes.
LEMMA ProgressIndInv ==
    ASSUME IndInv, NEW c \in Callers, StartFetch(c) \/ Discovered
    PROVE  IndInv'
<1> USE DEF IndInv
<1>1. /\ UNCHANGED <<cacheVars, callerVars, historyVars>>
      /\ phase' \in {"discover", "token"}
      /\ provider' \in BOOLEAN
      /\ budget' \in 0 .. FetchTimeout
  <2>1. CASE StartFetch(c)
    BY <2>1 DEF StartFetch, TypeOK
  <2>2. CASE Discovered
    BY <2>2 DEF Discovered, TypeOK
  <2> QED
    BY <2>1, <2>2
<1>2. queue # <<>> /\ want[Head(queue)] = "credential"
  BY DEF StartFetch, Discovered, Holds, LockInv
<1>3. NeedsFetch /\ quiet = Cooldown
  BY DEF StartFetch, Discovered, FetchInv, CoolingInv, TypeOK
<1>4. TypeOK'
  BY <1>1 DEF TypeOK, cacheVars, callerVars, historyVars
<1>5. LockInv' /\ HeldInv'
  BY <1>1, <1>2 DEF LockInv, HeldInv, cacheVars, callerVars
<1>6. FetchInv' /\ CoolingInv' /\ FloorInv' /\ NoFailureBesideFreshToken'
  BY <1>1, <1>3 DEF cacheVars, historyVars, FetchInv, CoolingInv, FloorInv,
                    NoFailureBesideFreshToken, NeedsFetch
<1> QED
  BY <1>4, <1>5, <1>6

\* A fetched token replaces the stale one and closes the failure window.
LEMMA FetchOkIndInv ==
    ASSUME IndInv, NEW c \in Callers, NEW left \in Lifetimes, FetchOk(c, left)
    PROVE  IndInv'
<1> USE DEF IndInv
<1>1. /\ generation' = generation + 1 /\ generation' \in 0 .. MaxGeneration
      /\ queue # <<>> /\ Head(queue) = c /\ Return(c, generation')
      /\ token' = FloorExpiry(left) /\ cooling' = 0
      /\ skewed' = (left = 0) /\ trusted' = 0
      /\ provider' = provider /\ quiet' = quiet
  BY DEF FetchOk, Holds, TypeOK
<1>2. /\ LockInv' /\ queue' \in Seq(Callers)
      /\ want' \in [Callers -> {"nothing", "credential", "invalidation"}]
      /\ held' \in [Callers -> 0 .. MaxGeneration]
      /\ phase' = "idle" /\ budget' = 0
  BY <1>1, ReturnLock
<1>3. token' \in Lifetimes
  BY <1>1, FloorExpiryFresh
<1>4. TypeOK'
  BY <1>1, <1>2, <1>3 DEF TypeOK
<1>5. FetchInv' /\ NoFailureBesideFreshToken'
  BY <1>1, <1>2 DEF FetchInv, NoFailureBesideFreshToken
<1>6. CoolingInv'
  BY <1>1 DEF CoolingInv, FetchInv, FetchOk, TypeOK
<1>7. FloorInv'
  <2>1. skewed' => left = 0
    BY <1>1, Zenon
  <2> QED
    BY <1>1, <2>1 DEF FloorInv, FloorExpiry
<1>8. HeldInv'
  BY <1>1 DEF HeldInv, TypeOK, Return
<1> QED
  BY <1>2, <1>4, <1>5, <1>6, <1>7, <1>8

\* However a fetch fails, the window opens in full and the unusable token stays.
LEMMA FetchFailedIndInv ==
    ASSUME IndInv, NEW c \in Callers,
           FetchErr(c) \/ FetchUnrenderable(c) \/ FetchTimedOut(c)
    PROVE  IndInv'
<1> USE DEF IndInv
<1>1. /\ queue # <<>> /\ Head(queue) = c /\ Return(c, 0)
      /\ cooling' = Cooldown /\ quiet' = 0
      /\ UNCHANGED <<token, generation, skewed, trusted, provider>>
      /\ NeedsFetch
  BY DEF FetchErr, FetchUnrenderable, FetchTimedOut, Holds, HoldFailure, FetchInv
<1>2. /\ LockInv' /\ queue' \in Seq(Callers)
      /\ want' \in [Callers -> {"nothing", "credential", "invalidation"}]
      /\ held' \in [Callers -> 0 .. MaxGeneration]
      /\ phase' = "idle" /\ budget' = 0
  BY <1>1, ReturnLock
<1>3. TypeOK'
  BY <1>1, <1>2 DEF TypeOK
<1>4. FetchInv' /\ NoFailureBesideFreshToken' /\ CoolingInv' /\ FloorInv'
  BY <1>1, <1>2 DEF FetchInv, NoFailureBesideFreshToken, NeedsFetch, CoolingInv,
                    FloorInv
<1>5. HeldInv'
  BY <1>1 DEF HeldInv, TypeOK, Return
<1> QED
  BY <1>2, <1>3, <1>4, <1>5

\* Discarding a rejected token preserves the invariant: without a token a fetch
\* is needed, so no failure can stand beside a fresh one.
LEMMA InvalidateIndInv ==
    ASSUME IndInv, NEW c \in Callers, Invalidate(c)
    PROVE  IndInv'
<1> USE DEF IndInv
<1>1. /\ queue # <<>> /\ Head(queue) = c /\ Return(c, 0)
      /\ token' \in {token, NoToken}
      /\ UNCHANGED <<cooling, generation, provider, quiet, skewed, trusted>>
  BY DEF Invalidate, Holds, historyVars
<1>2. /\ LockInv' /\ queue' \in Seq(Callers)
      /\ want' \in [Callers -> {"nothing", "credential", "invalidation"}]
      /\ held' \in [Callers -> 0 .. MaxGeneration]
      /\ phase' = "idle" /\ budget' = 0
  BY <1>1, ReturnLock
<1>3. TypeOK'
  BY <1>1, <1>2 DEF TypeOK
<1>4. FetchInv' /\ NoFailureBesideFreshToken' /\ CoolingInv' /\ FloorInv'
  BY <1>1, <1>2 DEF FetchInv, NoFailureBesideFreshToken, NeedsFetch, CoolingInv,
                    FloorInv
<1>5. HeldInv'
  BY <1>1 DEF HeldInv, TypeOK, Return
<1> QED
  BY <1>2, <1>3, <1>4, <1>5

\* Dropping headers preserves the invariant: nothing but `held` changes.
LEMMA LetGoIndInv ==
    ASSUME IndInv, NEW c \in Callers, LetGo(c)
    PROVE  IndInv'
<1> USE DEF IndInv
<1>1. TypeOK'
  BY DEF LetGo, TypeOK, cacheVars, fetchVars, historyVars
<1>2. LockInv' /\ FetchInv' /\ CoolingInv' /\ FloorInv' /\ NoFailureBesideFreshToken'
  BY DEF LetGo, cacheVars, fetchVars, historyVars, LockInv, FetchInv, CoolingInv,
         FloorInv, NoFailureBesideFreshToken, NeedsFetch
<1>3. HeldInv'
  BY DEF LetGo, cacheVars, HeldInv, TypeOK
<1> QED
  BY <1>1, <1>2, <1>3

\* A tick preserves the invariant: every deadline moves by the same amount.
LEMMA TickIndInv ==
    ASSUME IndInv, Tick
    PROVE  IndInv'
<1> USE DEF IndInv
<1>1. token' = Elapse(token) /\ token \in Lifetimes \cup {NoToken}
  BY DEF Tick, TypeOK
<1>2. /\ token' \in Lifetimes \cup {NoToken}
      /\ token' = NoToken <=> token = NoToken
      /\ NeedsFetch => NeedsFetch'
  BY <1>1, ElapseStays DEF NeedsFetch
<1>3. TypeOK'
  BY <1>2 DEF Tick, TypeOK, callerVars
<1>4. LockInv'
  BY DEF Tick, LockInv, callerVars
<1>5. FetchInv'
  BY <1>2 DEF Tick, FetchInv
<1>6. HeldInv'
  BY <1>2 DEF Tick, HeldInv, callerVars
<1>7. CoolingInv' /\ NoFailureBesideFreshToken'
  BY <1>2 DEF Tick, CoolingInv, NoFailureBesideFreshToken, TypeOK
<1>8. FloorInv'
  BY <1>1, <1>2 DEF Tick, FloorInv, Elapse, Lifetimes, Forever, TypeOK
<1> QED
  BY <1>3, <1>4, <1>5, <1>6, <1>7, <1>8

\* Every step preserves the invariant.
LEMMA NextIndInv == IndInv /\ [Next]_vars => IndInv'
<1> SUFFICES ASSUME IndInv, [Next]_vars PROVE IndInv'
  OBVIOUS
<1>1. ASSUME NEW c \in Callers, Ask(c) PROVE IndInv'
  BY <1>1, EnqueueIndInv DEF Ask
<1>2. ASSUME NEW c \in Callers, Reject(c) PROVE IndInv'
  BY <1>2, EnqueueIndInv DEF Reject
<1>3. ASSUME NEW c \in Callers, Holder(c) PROVE IndInv'
  BY <1>3, AnswerIndInv, ProgressIndInv, FetchFailedIndInv, InvalidateIndInv
     DEF Holder
<1>4. ASSUME NEW c \in Callers, Source(c) PROVE IndInv'
  BY <1>4, FetchFailedIndInv, FetchOkIndInv DEF Source
<1>5. CASE Tick
  BY <1>5, TickIndInv
<1>6. CASE Discovered
  <2>1. \E c \in Callers : TRUE
    BY <1>6 DEF Discovered, IndInv, LockInv, TypeOK
  <2> QED
    BY <1>6, <2>1, ProgressIndInv
<1>7. ASSUME NEW c \in Callers, LetGo(c) PROVE IndInv'
  BY <1>7, LetGoIndInv
<1>8. CASE UNCHANGED vars
  BY <1>8 DEF vars, cacheVars, fetchVars, callerVars, historyVars, IndInv,
     TypeOK, LockInv, FetchInv, HeldInv, CoolingInv, FloorInv,
     NoFailureBesideFreshToken, NeedsFetch
<1> QED
  BY <1>1, <1>2, <1>3, <1>4, <1>5, <1>6, <1>7, <1>8 DEF Next, Step

\* The cache, the lock and the history keep the invariant in every behaviour.
THEOREM Invariance == Spec => []IndInv
BY InitIndInv, NextIndInv, PTL DEF Spec

\* Every variable keeps its type.
THEOREM TypeCorrectness == Spec => []TypeOK
<1>1. IndInv => TypeOK
  BY DEF IndInv
<1> QED
  BY <1>1, Invariance, PTL

\* hold_failure: a failure is never held against the source beside a token that
\* could be used.
THEOREM FailureOnlyWithoutToken == Spec => []NoFailureBesideFreshToken
<1>1. IndInv => NoFailureBesideFreshToken
  BY DEF IndInv
<1> QED
  BY <1>1, Invariance, PTL

-----------------------------------------------------------------------------
(* Action properties *)

\* Only StartFetch leaves the idle phase.
LEMMA OnlyStartFetch ==
    ASSUME [Next]_vars, phase = "idle", phase' # "idle"
    PROVE  \E c \in Callers : StartFetch(c)
<1>1. phase' = phase => FALSE
  OBVIOUS
<1>2. CASE UNCHANGED vars
  BY <1>1, <1>2 DEF vars, fetchVars
<1>3. CASE Tick \/ Discovered
  BY <1>1, <1>3 DEF Tick, Discovered
<1>4. ASSUME NEW c \in Callers, Ask(c) \/ Reject(c) \/ LetGo(c) PROVE FALSE
  BY <1>1, <1>4 DEF Ask, Reject, LetGo, Enqueue, fetchVars
<1>5. ASSUME NEW c \in Callers, Source(c) PROVE FALSE
  BY <1>5 DEF Source, FetchErr, FetchUnrenderable, FetchOk, Return
<1>6. ASSUME NEW c \in Callers, Holder(c) PROVE StartFetch(c)
  BY <1>6 DEF Holder, UseCached, StayCool, FetchTimedOut, Invalidate, Return
<1> QED
  BY <1>2, <1>3, <1>4, <1>5, <1>6 DEF Next, Step

\* apply_tracked: the source is never asked again within Cooldown of a failure.
THEOREM CooldownIsRespected == Spec => CooldownRespected
<1>1. IndInv /\ [Next]_vars
         => (phase = "idle" /\ phase' # "idle" => quiet = Cooldown)
  <2> SUFFICES ASSUME IndInv, [Next]_vars, phase = "idle", phase' # "idle"
               PROVE  quiet = Cooldown
    OBVIOUS
  <2>1. cooling = 0
    BY OnlyStartFetch DEF StartFetch
  <2> QED
    BY <2>1 DEF IndInv, CoolingInv, TypeOK
<1> QED
  BY <1>1, Invariance, PTL DEF Spec, CooldownRespected

\* floor_expiry: a token that looked expired on arrival is not fetched anew
\* within Floor - Margin, unless an upstream rejects it.
THEOREM NoRefetchStorm == Spec => SkewCausesNoRefetchStorm
<1>1. IndInv /\ [Next]_vars
         => (phase = "idle" /\ phase' # "idle" /\ skewed /\ token # NoToken
                => trusted = Floor - Margin)
  <2> SUFFICES ASSUME IndInv, [Next]_vars, phase = "idle", phase' # "idle",
                      skewed, token # NoToken
               PROVE  trusted = Floor - Margin
    OBVIOUS
  <2>1. token \in 0 .. Margin
    BY OnlyStartFetch DEF StartFetch, NeedsFetch, IsStale
  <2>2. trusted \in 0 .. Floor - Margin
    BY DEF IndInv, TypeOK
  <2>3. trusted < Floor - Margin => token = Floor - trusted
    BY DEF IndInv, FloorInv
  <2> QED
    BY <2>1, <2>2, <2>3
<1> QED
  BY <1>1, Invariance, PTL DEF Spec, SkewCausesNoRefetchStorm

\* What each kind of step does to the token and its generation: a fetch caches
\* a token under the next generation, an invalidation discards the generation
\* its task holds, the clock runs, and nothing else touches either.
LEMMA TokenSteps ==
    ASSUME IndInv, [Next]_vars
    PROVE  \/ /\ generation' = generation + 1
              /\ token' # NoToken
           \/ /\ generation' = generation
              /\ token' \in {token, Elapse(token)}
           \/ /\ generation' = generation
              /\ token' = NoToken
              /\ \E c \in Callers : /\ want[c] = "invalidation"
                                   /\ want'[c] = "nothing"
                                   /\ held[c] = generation
<1>1. ASSUME NEW c \in Callers, Ask(c) \/ Reject(c) \/ LetGo(c)
      PROVE  generation' = generation /\ token' = token
  BY <1>1 DEF Ask, Reject, LetGo, Enqueue, cacheVars
<1>2. ASSUME NEW c \in Callers, NEW left \in Lifetimes, FetchOk(c, left)
      PROVE  generation' = generation + 1 /\ token' # NoToken
  <2>1. FloorExpiry(left) # NoToken
    BY FloorExpiryFresh DEF Lifetimes, Forever
  <2> QED
    BY <1>2, <2>1 DEF FetchOk
<1>3. ASSUME NEW c \in Callers,
             FetchErr(c) \/ FetchUnrenderable(c) \/ FetchTimedOut(c)
      PROVE  generation' = generation /\ token' = token
  BY <1>3 DEF FetchErr, FetchUnrenderable, FetchTimedOut, HoldFailure
<1>4. ASSUME NEW c \in Callers, UseCached(c) \/ StayCool(c) \/ StartFetch(c)
      PROVE  generation' = generation /\ token' = token
  BY <1>4 DEF UseCached, StayCool, StartFetch, cacheVars
<1>5. ASSUME NEW c \in Callers, Invalidate(c)
      PROVE  /\ generation' = generation
             /\ \/ token' = token
                \/ /\ token' = NoToken
                   /\ want[c] = "invalidation"
                   /\ want'[c] = "nothing"
                   /\ held[c] = generation
  BY <1>5 DEF Invalidate, Holds, Return, IndInv, TypeOK
<1>6. CASE Tick
  BY <1>6 DEF Tick
<1>7. CASE Discovered
  BY <1>7 DEF Discovered, cacheVars
<1>8. CASE UNCHANGED vars
  BY <1>8 DEF vars, cacheVars
<1> QED
  BY <1>1, <1>2, <1>3, <1>4, <1>5, <1>6, <1>7, <1>8
     DEF Next, Step, Holder, Source

\* apply_tracked: the generation changes exactly when a fresh token is cached.
THEOREM GenerationIsTheToken == Spec => GenerationNamesToken
<1>1. IndInv /\ [Next]_vars =>
         /\ generation' # generation =>
               token' # NoToken /\ generation' = generation + 1
         /\ token' \notin {token, NoToken} /\ token' # Elapse(token) =>
               generation' # generation
  <2> SUFFICES ASSUME IndInv, [Next]_vars
               PROVE  /\ generation' # generation =>
                            token' # NoToken /\ generation' = generation + 1
                      /\ token' \notin {token, NoToken} /\ token' # Elapse(token)
                            => generation' # generation
    OBVIOUS
  <2>1. generation \in Nat
    BY DEF IndInv, TypeOK
  <2> QED
    BY <2>1, TokenSteps
<1> QED
  BY <1>1, Invariance, PTL DEF Spec, GenerationNamesToken

\* invalidate: only a task whose headers carry the current generation discards
\* the token, so a replacement is never lost to a late rejection of its
\* predecessor.
THEOREM ReplacementIsNotDiscarded == Spec => OnlyRejectedTokenDiscarded
<1>1. IndInv /\ [Next]_vars =>
         (token # NoToken /\ token' = NoToken =>
             \E c \in Callers : /\ want[c] = "invalidation"
                                /\ want'[c] = "nothing"
                                /\ held[c] = generation)
  <2> SUFFICES ASSUME IndInv, [Next]_vars, token # NoToken, token' = NoToken
               PROVE  \E c \in Callers : /\ want[c] = "invalidation"
                                         /\ want'[c] = "nothing"
                                         /\ held[c] = generation
    OBVIOUS
  <2>1. Elapse(token) # NoToken
    BY ElapseStays DEF IndInv, TypeOK
  <2> QED
    BY <2>1, TokenSteps
<1> QED
  BY <1>1, Invariance, PTL DEF Spec, OnlyRejectedTokenDiscarded

-----------------------------------------------------------------------------
(* Refinement of AuthPromise *)

\* The first states keep the promise.
LEMMA PromiseInit == Init => Promise!Init
BY DEF Init, Promise!Init, NeedsFetch

Asked == {c \in Callers : want[c] = "credential"}

\* What a holder's return means to the callers: exactly its own answer.
LEMMA AnswerMaps ==
    ASSUME TypeOK, NEW c \in Callers, NEW g, Holds(c, "credential"), Return(c, g)
    PROVE  /\ c \in Asked
           /\ Asked' = Asked \ {c}
           /\ held' = [held EXCEPT ![c] = g]
BY DEF TypeOK, Holds, Return, Asked

\* Every step of the cache is a step of the promise, or none.
LEMMA PromiseStep == IndInv /\ [Next]_vars => [Promise!Next]_(Promise!vars)
<1> SUFFICES ASSUME IndInv, [Next]_vars
             PROVE  Promise!Next \/ UNCHANGED Promise!vars
  OBVIOUS
<1> USE DEF IndInv
<1>1. ASSUME NEW c \in Callers, Ask(c) PROVE Promise!Ask(c)
  <2>1. /\ c \notin Asked /\ Asked' = Asked \cup {c}
        /\ UNCHANGED <<held, token, cooling, generation>>
    BY <1>1 DEF Ask, Enqueue, cacheVars, TypeOK, Asked
  <2> QED
    BY <2>1 DEF Promise!Ask, Asked, NeedsFetch
<1>2. ASSUME NEW c \in Callers, Reject(c) PROVE UNCHANGED Promise!vars
  <2>1. Asked' = Asked /\ UNCHANGED <<held, token, cooling, generation>>
    BY <1>2 DEF Reject, Enqueue, cacheVars, TypeOK, Asked
  <2> QED
    BY <2>1 DEF Promise!vars, Asked, NeedsFetch
<1>3. ASSUME NEW c \in Callers, UseCached(c) PROVE Promise!Grant(c)
  <2>1. /\ c \in Asked /\ Asked' = Asked \ {c}
        /\ held' = [held EXCEPT ![c] = generation]
    BY <1>3, AnswerMaps DEF UseCached
  <2>2. ~NeedsFetch /\ UNCHANGED <<token, cooling, generation>>
    BY <1>3 DEF UseCached, cacheVars
  <2> QED
    BY <2>1, <2>2 DEF Promise!Grant, Promise!Answer, Asked, NeedsFetch
<1>4. ASSUME NEW c \in Callers, StayCool(c) PROVE Promise!Refuse(c)
  <2>1. /\ c \in Asked /\ Asked' = Asked \ {c}
        /\ held' = [held EXCEPT ![c] = 0]
    BY <1>4, AnswerMaps DEF StayCool
  <2>2. NeedsFetch /\ cooling > 0 /\ UNCHANGED <<token, cooling, generation>>
    BY <1>4 DEF StayCool, cacheVars
  <2> QED
    BY <2>1, <2>2 DEF Promise!Refuse, Promise!Answer, Asked, NeedsFetch
<1>5. ASSUME NEW c \in Callers, NEW left \in Lifetimes, FetchOk(c, left)
      PROVE  Promise!Renew(c)
  <2>1. /\ c \in Asked /\ Asked' = Asked \ {c}
        /\ held' = [held EXCEPT ![c] = generation']
    BY <1>5, AnswerMaps DEF FetchOk
  <2>2. NeedsFetch /\ ~(cooling > 0)
    BY <1>5 DEF FetchOk, FetchInv, CoolingInv, TypeOK
  <2>3. /\ generation < MaxGeneration /\ generation' = generation + 1
        /\ ~(cooling' > 0)
    BY <1>5 DEF FetchOk
  <2>4. (~NeedsFetch)' \in BOOLEAN
    BY DEF NeedsFetch, IsStale
  <2> QED
    BY <2>1, <2>2, <2>3, <2>4 DEF Promise!Renew, Promise!Answer, Asked
<1>6. ASSUME NEW c \in Callers,
             FetchErr(c) \/ FetchUnrenderable(c) \/ FetchTimedOut(c)
      PROVE  Promise!Fail(c)
  <2>0. /\ Holds(c, "credential") /\ Return(c, 0) /\ phase # "idle"
        /\ cooling' = Cooldown /\ UNCHANGED <<token, generation>>
    BY <1>6 DEF FetchErr, FetchUnrenderable, FetchTimedOut, HoldFailure
  <2>1. /\ c \in Asked /\ Asked' = Asked \ {c}
        /\ held' = [held EXCEPT ![c] = 0]
    BY <2>0, AnswerMaps
  <2>2. NeedsFetch /\ ~(cooling > 0)
    BY <2>0 DEF FetchInv, CoolingInv, TypeOK
  <2> QED
    BY <2>0, <2>1, <2>2 DEF Promise!Fail, Promise!Answer, Asked, NeedsFetch
<1>7. ASSUME NEW c \in Callers, Invalidate(c) PROVE Promise!Forget(c)
  <2>1. /\ want[c] = "invalidation" /\ want' = [want EXCEPT ![c] = "nothing"]
        /\ held' = [held EXCEPT ![c] = 0]
        /\ token' = IF generation = held[c] THEN NoToken ELSE token
        /\ UNCHANGED <<cooling, generation>>
    BY <1>7 DEF Invalidate, Holds, Return
  <2>2. c \notin Asked /\ Asked' = Asked /\ held[c] # 0
    BY <2>1 DEF Asked, TypeOK, HeldInv
  <2>3. ~NeedsFetch' <=> ~NeedsFetch /\ held[c] # generation
    BY <2>1 DEF NeedsFetch
  <2> QED
    BY <2>1, <2>2, <2>3 DEF Promise!Forget, Asked
<1>8. ASSUME NEW c \in Callers, StartFetch(c) PROVE UNCHANGED Promise!vars
  BY <1>8 DEF StartFetch, cacheVars, callerVars, Promise!vars, NeedsFetch
<1>9. CASE Discovered
  BY <1>9 DEF Discovered, cacheVars, callerVars, Promise!vars, NeedsFetch
<1>10. CASE Tick
  <2>1. UNCHANGED <<generation, held, want>>
    BY <1>10 DEF Tick, callerVars
  <2>2. NeedsFetch => NeedsFetch'
    <3>1. token' = Elapse(token) /\ token \in Lifetimes \cup {NoToken}
      BY <1>10 DEF Tick, TypeOK
    <3> QED
      BY <3>1, ElapseStays DEF NeedsFetch
  <2>3. cooling' = (IF cooling > 0 THEN cooling - 1 ELSE 0) /\ cooling \in Nat
    BY <1>10 DEF Tick, TypeOK
  <2>4. CASE cooling > 0
    <3>1. NeedsFetch /\ NeedsFetch'
      BY <2>2, <2>4 DEF NoFailureBesideFreshToken
    <3>2. CASE cooling' > 0
      BY <2>1, <2>4, <3>1, <3>2 DEF Promise!vars
    <3>3. CASE ~(cooling' > 0)
      <4>1. Promise!Cool
        BY <2>1, <2>4, <3>1, <3>3 DEF Promise!Cool
      <4> QED
        BY <4>1 DEF Promise!Next
    <3> QED
      BY <3>2, <3>3
  <2>5. CASE ~(cooling > 0)
    <3>1. ~(cooling' > 0)
      BY <2>3, <2>5
    <3>2. CASE NeedsFetch <=> NeedsFetch'
      BY <2>1, <2>5, <3>1, <3>2 DEF Promise!vars
    <3>3. CASE ~NeedsFetch /\ NeedsFetch'
      <4>1. Promise!Expire
        BY <2>1, <2>5, <3>1, <3>3 DEF Promise!Expire
      <4> QED
        BY <4>1 DEF Promise!Next
    <3> QED
      BY <2>2, <3>2, <3>3
  <2> QED
    BY <2>4, <2>5
<1>11. ASSUME NEW c \in Callers, LetGo(c) PROVE Promise!LetGo(c)
  <2>1. /\ want[c] = "nothing" /\ UNCHANGED <<want, token, cooling, generation>>
        /\ held' = [held EXCEPT ![c] = 0]
    BY <1>11 DEF LetGo, cacheVars
  <2> QED
    BY <2>1 DEF Promise!LetGo, NeedsFetch
<1>12. CASE UNCHANGED vars
  BY <1>12 DEF vars, cacheVars, callerVars, Promise!vars, NeedsFetch
<1> QED
  BY <1>1, <1>2, <1>3, <1>4, <1>5, <1>6, <1>7, <1>8, <1>9, <1>10, <1>11, <1>12
     DEF Next, Step, Holder, Source, Promise!Next, Promise!Serve

\* Every behaviour of the cache is one AuthPromise allows, up to its fairness:
\* generations, refusals and the cooldown are those the callers may rely on.
THEOREM KeepsPromise == Spec => Promise!Init /\ [][Promise!Next]_(Promise!vars)
BY PromiseInit, PromiseStep, Invariance, PTL DEF Spec
=============================================================================
