------------------------------- MODULE AuthWait -------------------------------
(****************************************************************************)
(* AuthContext with a stopwatch on every call of apply_tracked: `waited`     *)
(* counts the ticks a call has spent waiting while some fetch was running.   *)
(* The comment on TOKEN_FETCH_TIMEOUT (src/src/auth.rs) bounds that time.    *)
(****************************************************************************)
EXTENDS AuthContext

VARIABLE waited     \* per task: the time spent behind fetches, its own included

waitVars == <<vars, waited>>

WaitInit == Init /\ waited = [c \in Callers |-> 0]

\* A tick of a running fetch is time every task at the mutex waits.
WaitTick ==
    /\ Tick
    /\ waited' = [c \in Callers |->
                     IF want[c] = "credential" /\ phase # "idle"
                        THEN waited[c] + 1 ELSE waited[c]]

\* A call that returns resets its stopwatch.
WaitStep ==
    /\ Step
    /\ waited' = [c \in Callers |->
                     IF want'[c] = "credential" THEN waited[c] ELSE 0]

WaitSpec == WaitInit /\ [][WaitStep \/ WaitTick]_waitVars

\* auth.rs TOKEN_FETCH_TIMEOUT, "a caller of apply waits this long in the worst
\* case": no call spends more than FetchTimeout behind fetches.
WaitBounded == \A c \in Callers : waited[c] <= FetchTimeout
=============================================================================
