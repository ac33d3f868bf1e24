----------------------------- MODULE ServiceUsage -----------------------------
(****************************************************************************)
(* enabled_services of src/src/prune.rs: the paginated listing of the APIs   *)
(* Service Usage reports enabled, with the PageGuard that ends it.           *)
(* BackgroundStartup goes through this listing page by page; ServeStartup    *)
(* has it as AskUsage, CredentialUsage and ListUsage.                        *)
(* What Service Usage answers is external: any page, and any page token,     *)
(* also one it has already served.                                           *)
(****************************************************************************)
EXTENDS Naturals, Sequences

CONSTANTS
    Apis,       \* the names a page may hold
    Tokens,     \* the page tokens Service Usage may hand out
    NoToken,    \* an absent or empty nextPageToken
    MaxPages    \* MAX_PAGES

ASSUME MaxPagesAssumption == MaxPages \in Nat \ {0}
ASSUME NoTokenAssumption == NoToken \notin Tokens

VARIABLES
    at,         \* "apply": before auth.apply; "request": before the response
    pageToken,  \* page_token
    enabled,    \* the names collected
    seen,       \* PageGuard::seen
    pages,      \* PageGuard::pages
    listing,    \* what enabled_services returned, or "running"

    \* History, read by no guard:
    requested,  \* the page tokens requested, in order; the first MaxPages + 1
    reported    \* the names on every page received

listingVars == <<at, pageToken, enabled, seen, pages, listing, requested, reported>>

ListingInit ==
    /\ at = "apply"
    /\ pageToken = NoToken
    /\ enabled = {}
    /\ seen = {}
    /\ pages = 0
    /\ listing = "running"
    /\ requested = <<>>
    /\ reported = {}

-----------------------------------------------------------------------------
\* auth.apply for the next page, which is then requested ...
Apply ==
    /\ at = "apply"
    /\ listing = "running"
    /\ at' = "request"
    /\ requested' = IF Len(requested) > MaxPages THEN requested
                    ELSE Append(requested, pageToken)
    /\ UNCHANGED <<pageToken, enabled, seen, pages, listing, reported>>

\* Mutant: the names on the pages so far are taken for all.
BugFail ==
    /\ listing = "running"
    /\ listing' = "enabled"
    /\ UNCHANGED <<at, pageToken, enabled, seen, pages, requested, reported>>

\* ... or there is no credential; or the request fails, is refused, or its
\* answer is no page.
Fail ==
    /\ listing = "running"
    /\ listing' = "failed"
    /\ UNCHANGED <<at, pageToken, enabled, seen, pages, requested, reported>>

\* collect_page.
Collected(names) == enabled \cup names

\* Mutant: the limit comes one page early.
BugOnePageLess == pages + 2 >= MaxPages

\* PageGuard::advance: pages, counted, has reached MAX_PAGES.
LimitReached == pages + 1 >= MaxPages

\* Mutant: the token is compared with the previous one only.
BugSeenLastOnly(next) ==
    /\ pages' = pages + 1
    /\ seen' = IF LimitReached THEN seen ELSE {next}
    /\ listing' = IF LimitReached THEN "limit"
                  ELSE IF next \in seen THEN "stalled" ELSE "running"

\* Mutant: the listing is followed wherever it leads.
BugUnguarded(next) == UNCHANGED <<pages, seen, listing>>

\* PageGuard::advance: too many pages, or a token seen before, end the listing.
Advance(next) ==
    /\ pages' = pages + 1
    /\ seen' = IF LimitReached THEN seen ELSE seen \cup {next}
    /\ listing' = IF LimitReached THEN "limit"
                  ELSE IF next \in seen THEN "stalled" ELSE "running"

\* A page arrives.
Page(names, next) ==
    /\ at = "request"
    /\ listing = "running"
    /\ enabled' = Collected(names)
    /\ pageToken' = next
    /\ IF next = NoToken
          THEN listing' = "enabled" /\ UNCHANGED <<pages, seen>>
          ELSE Advance(next)
    /\ at' = "apply"
    /\ reported' = reported \cup names
    /\ UNCHANGED requested

ListingNext ==
    \/ Apply
    \/ Fail
    \/ \E names \in SUBSET Apis, next \in Tokens \cup {NoToken} : Page(names, next)

-----------------------------------------------------------------------------
(* Properties *)

\* prune.rs MAX_PAGES: at most MaxPages pages are ever requested, and a listing
\* of exactly that many is not refused: the limit is only reported when one more
\* page was on offer.
LimitIsExact ==
    /\ Len(requested) <= MaxPages
    /\ listing = "limit" => Len(requested) = MaxPages /\ pageToken # NoToken

\* prune.rs PageGuard: no page is requested that was requested before, "the
\* server hands back a cursor it already served".
NoPageTwice ==
    \A i, j \in DOMAIN requested : i # j => requested[i] # requested[j]
=============================================================================
