----------------------------- MODULE AuthPromise -----------------------------
(****************************************************************************)
(* What src/src/auth.rs promises to the code that calls it, with no clock,   *)
(* no lock and no credential source.                                         *)
(*                                                                           *)
(* A caller asks for a credential and is answered either with the generation *)
(* of the token its headers carry, or with a refusal (0).  A token is usable *)
(* (`valid`) until it comes within the refresh margin of its expiry or is    *)
(* forgotten; the source is left alone (`backoff`) for a while after a       *)
(* failed fetch.  AuthContext is the detailed specification and implements   *)
(* this one; UpstreamProxy and ServeStartup are composed with this one.      *)
(****************************************************************************)
EXTENDS Naturals

CONSTANTS
    Callers,        \* the tasks that call AuthContext
    MaxGeneration   \* bound: how many tokens a behaviour may cache

VARIABLES
    generation,     \* CacheState::generation: tokens cached so far
    valid,          \* a cached token exists and is not stale
    backoff,        \* a recent failure stands in for the token
    asked,          \* the callers whose apply_tracked has not returned
    held            \* generation each caller's last headers carry; 0 is none

vars == <<generation, valid, backoff, asked, held>>

Init ==
    /\ generation = 0
    /\ valid = FALSE
    /\ backoff = FALSE
    /\ asked = {}
    /\ held = [c \in Callers |-> 0]

Answer(c, g) ==
    /\ c \in asked
    /\ asked' = asked \ {c}
    /\ held' = [held EXCEPT ![c] = g]

-----------------------------------------------------------------------------
(* The callers' side. *)

\* apply_tracked is called.
Ask(c) ==
    /\ c \notin asked
    /\ asked' = asked \cup {c}
    /\ UNCHANGED <<generation, valid, backoff, held>>

\* invalidate(held[c]) takes effect: only the generation named is forgotten.
Forget(c) ==
    /\ c \notin asked
    /\ held[c] # 0
    /\ valid' = (valid /\ held[c] # generation)
    /\ held' = [held EXCEPT ![c] = 0]
    /\ UNCHANGED <<generation, backoff, asked>>

\* The headers are dropped.
LetGo(c) ==
    /\ c \notin asked
    /\ held' = [held EXCEPT ![c] = 0]
    /\ UNCHANGED <<generation, valid, backoff, asked>>

-----------------------------------------------------------------------------
(* The service's side. *)

\* The cached token is usable: it is handed out as it is.
Grant(c) ==
    /\ valid
    /\ Answer(c, generation)
    /\ UNCHANGED <<generation, valid, backoff>>

\* No usable token: one is fetched for this caller and cached.  A short-lived
\* token is handed out once although it is already due for a refresh.
Renew(c) ==
    /\ ~valid
    /\ ~backoff
    /\ generation < MaxGeneration
    /\ generation' = generation + 1
    /\ valid' \in BOOLEAN
    /\ Answer(c, generation')
    /\ UNCHANGED backoff

\* No usable token and the source does not produce one.
Fail(c) ==
    /\ ~valid
    /\ ~backoff
    /\ backoff' = TRUE
    /\ Answer(c, 0)
    /\ UNCHANGED <<generation, valid>>

\* No usable token, and the source is being left alone.
Refuse(c) ==
    /\ ~valid
    /\ backoff
    /\ Answer(c, 0)
    /\ UNCHANGED <<generation, valid, backoff>>

\* Time passes: the token comes within the margin of its expiry ...
Expire ==
    /\ valid
    /\ valid' = FALSE
    /\ UNCHANGED <<generation, backoff, asked, held>>

\* ... or the cooldown ends.
Cool ==
    /\ backoff
    /\ backoff' = FALSE
    /\ UNCHANGED <<generation, valid, asked, held>>

Serve(c) == Grant(c) \/ Renew(c) \/ Fail(c) \/ Refuse(c)

Next ==
    \/ \E c \in Callers : Ask(c) \/ Forget(c) \/ LetGo(c) \/ Serve(c)
    \/ Expire
    \/ Cool

\* Every caller is answered in the end.
Spec == Init /\ [][Next]_vars /\ \A c \in Callers : WF_vars(Serve(c))
=============================================================================
