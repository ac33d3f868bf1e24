---------------------------- MODULE CatalogPromise ----------------------------
(****************************************************************************)
(* What becomes of a catalog in the fan-out over the upstreams, with no      *)
(* task, no permit, no join and no listing: from what a startup leaves       *)
(* exposed (BackgroundStartup::resolve of src/src/server.rs), over what each *)
(* upstream answers (Catalog::build_live of src/src/catalog.rs), to the one  *)
(* replacement it ends in, or to none.                                       *)
(*                                                                           *)
(* BackgroundStartup, where every task of the fan-out is, and ServeStartup,  *)
(* where it is a single step among requests, both implement this module.     *)
(****************************************************************************)

CONSTANT Services   \* the registered services

VARIABLES
    stage,          \* "startup", "refresh" or "over"
    exposed,        \* the services the fan-out covers
    catalog,        \* what is served: each service with the source of its tools
    answers         \* what has come of each upstream, while it matters

vars == <<stage, exposed, catalog, answers>>

\* A listing that can be used; a fetch that fails, runs out of time, or lists an
\* overlong name; a task that panics.
Answers == {"tools", "failure", "panic"}

\* A catalog of S whose tools all come from one source.
Uniform(S, source) == [s \in S |-> source]

Empty == Uniform({}, "snapshot")
Unanswered(S) == [s \in S |-> "none"]

\* Catalog::build_live: a service that answered is live; one that failed is what
\* the fallback has of it, relabelled, if anything; a task that panicked leaves
\* nothing.
Built(fallback, outcome) ==
    [s \in {s \in DOMAIN outcome :
               \/ outcome[s] = "tools"
               \/ outcome[s] = "failure" /\ s \in DOMAIN fallback} |->
        IF outcome[s] = "tools" THEN "live" ELSE "snapshot"]

\* serve begins with a startup, the snapshot command with the fan-out, over
\* every service and with nothing to fall back on.
Init ==
    /\ catalog = Empty
    /\ answers = Unanswered(exposed)
    /\ \/ stage = "startup" /\ exposed = {}
       \/ stage = "refresh" /\ exposed = Services

\* The startup is over: of the services left exposed, those the snapshot has are
\* served from it.
Begin ==
    /\ stage = "startup"
    /\ stage' = "refresh"
    /\ exposed' \in SUBSET Services
    /\ \E S \in SUBSET exposed' : catalog' = Uniform(S, "snapshot")
    /\ answers' = Unanswered(exposed')

\* Some upstreams answer, each once.
Answer ==
    /\ stage = "refresh"
    /\ \E S \in SUBSET exposed :
          /\ \A s \in S : answers[s] = "none"
          /\ \E outcome \in [S -> Answers] :
                answers' = [s \in exposed |-> IF s \in S THEN outcome[s] ELSE answers[s]]
    /\ UNCHANGED <<stage, exposed, catalog>>

Over ==
    /\ stage = "refresh"
    /\ stage' = "over"
    /\ answers' = Unanswered(exposed)
    /\ UNCHANGED exposed

\* Once all have, what their answers make of the catalog replaces it ...
Land ==
    /\ \A s \in exposed : answers[s] # "none"
    /\ catalog' = Built(catalog, answers)
    /\ Over

\* ... or nothing does.
Keep == UNCHANGED catalog /\ Over

Next == Begin \/ Answer \/ Land \/ Keep

Spec == Init /\ [][Next]_vars
=============================================================================
