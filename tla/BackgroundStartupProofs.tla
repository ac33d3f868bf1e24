------------------------ MODULE BackgroundStartupProofs ------------------------
(****************************************************************************)
(* Theorems about BackgroundStartup: the listing of Service Usage and the   *)
(* fan-out, for any page limit and page tokens, any services, permits and   *)
(* timeout, and whatever Service Usage and the upstreams answer; and the    *)
(* refusals told meanwhile, for any status, project and registry.           *)
(*                                                                          *)
(* ListingInv and RefreshInv are inductive, each for its own half of the    *)
(* state; HandoverInv ties the two halves to the phase, and ToldInv what is *)
(* told of a refusal to the configuration.  FanOutKeepsPromise, at the end, *)
(* is the refinement of CatalogPromise.                                     *)
(****************************************************************************)
EXTENDS BackgroundStartup, FilteringProofs, FiniteSetTheorems, TLAPS

USE MaxPagesAssumption, NoTokenAssumption, NumbersAssumption

-----------------------------------------------------------------------------
(* The inductive invariant: the listing *)

ListingType ==
    /\ at \in {"apply", "request"}
    /\ pageToken \in Tokens \cup {NoToken}
    /\ enabled \subseteq Apis /\ reported \subseteq Apis
    /\ seen \subseteq Tokens
    /\ pages \in Nat
    /\ listing \in {"running", "enabled", "failed", "limit", "stalled"}
    /\ requested \in Seq(Tokens \cup {NoToken})

\* While the listing runs, every page but the one being fetched is counted, and
\* every token it was asked with has been seen; the next one is new.
CursorInv ==
    listing = "running" =>
       /\ at = "apply" => /\ Len(requested) = pages /\ pages < MaxPages
                          /\ \A i \in 1 .. Len(requested) : requested[i] # pageToken
                          /\ pageToken = NoToken \/ pageToken \in seen
       /\ at = "request" => Len(requested) = pages + 1
       /\ \A i \in 1 .. Len(requested) : requested[i] \in seen \cup {NoToken}

\* A listing that was read to its end has collected all that was reported.
CollectedInv ==
    /\ enabled = reported
    /\ listing = "enabled" => requested # <<>> /\ at = "apply" /\ pageToken = NoToken

ListingInv == ListingType /\ CursorInv /\ CollectedInv /\ LimitIsExact /\ NoPageTwice

-----------------------------------------------------------------------------
(* The inductive invariant: the fan-out *)

Increasing(catalog) ==
    \A i, j \in 1 .. Len(catalog) : i < j => catalog[i].service < catalog[j].service

\* No service twice.
Distinct(catalog) ==
    \A i, j \in 1 .. Len(catalog) : i # j => catalog[i].service # catalog[j].service

EntriesOf(catalog, s) ==
    {catalog[i] : i \in {i \in 1 .. Len(catalog) : catalog[i].service = s}}

\* A task is joined once it has ended, and the caller goes on once all are.
JoinInv ==
    /\ \A s \in joined : task[s] \in Outcomes
    /\ result # "building" => joined = endpoints

\* The catalog at hand is sorted; until the refresh has landed it is that of a
\* snapshot.
ServedInv ==
    /\ Increasing(served)
    /\ result \in {"building", "kept", "refused"} =>
          \A i \in 1 .. Len(served) : served[i].source = "snapshot" /\ served[i].tools = <<>>
    /\ result \in {"swapped", "written"} =>
          \A i \in 1 .. Len(served) : served[i].service \in joined

\* The services built so far are what joining the tasks has contributed, in
\* whatever order.
BuiltInv ==
    /\ Distinct(services)
    /\ \A i \in 1 .. Len(services) : services[i].service \in joined
    /\ result = "building" =>
          \A s \in joined : EntriesOf(services, s) = Contribution(s)

RefreshInv ==
    /\ TypeOK
    /\ JoinInv
    /\ ServedInv
    /\ BuiltInv
    /\ PermitsAccountedFor
    /\ FailureStaysContained
    /\ OrderLeavesNoTrace

\* The fan-out does not begin, and nothing is exposed, before the listing is over.
HandoverInv ==
    phase # "refresh" =>
       /\ joined = {} /\ services = <<>> /\ permits = Permits /\ result = "building"
       /\ endpoints = {} /\ served = <<>>

-----------------------------------------------------------------------------
(* The inductive invariant: what a caller is told *)

\* As long as a refusal may still be told, or has been, the project is one that
\* the configuration let through.
ProjectInv ==
    /\ phase = "configure" => config \in Settings
    /\ told # Nothing => phase = "list"
    /\ phase = "list" /\ (\/ told # Nothing
                          \/ requested = <<>>
                          \/ at = "request" /\ Len(requested) = 1) =>
          config.project \in Seq(STRING) /\ IsProject(config.project)

ToldInv == ProjectInv /\ RemediationNamesTheProject /\ UpstreamStatusDecides

IndInv == ListingInv /\ RefreshInv /\ HandoverInv /\ ToldInv

-----------------------------------------------------------------------------
(* The listing *)

\* The listing begins with no page requested.
LEMMA ListingInitInv == ListingInit => ListingInv
<1> SUFFICES ASSUME ListingInit PROVE ListingInv
  OBVIOUS
<1>1. /\ requested = <<>> /\ Len(requested) = 0 /\ DOMAIN requested = {}
      /\ requested \in Seq(Tokens \cup {NoToken})
      /\ at = "apply" /\ listing = "running" /\ pages = 0 /\ pageToken = NoToken
      /\ enabled = {} /\ reported = {} /\ seen = {}
  BY DEF ListingInit
<1>2. ListingType
  BY <1>1 DEF ListingType
<1>3. CursorInv /\ CollectedInv
  BY <1>1 DEF CursorInv, CollectedInv
<1>4. LimitIsExact /\ NoPageTwice
  BY <1>1 DEF LimitIsExact, NoPageTwice
<1> QED
  BY <1>2, <1>3, <1>4 DEF ListingInv

\* A page is requested with a token that none was requested with.
LEMMA ApplyInv ==
    ASSUME ListingInv, Apply
    PROVE  ListingInv'
<1>1. /\ at = "apply" /\ listing = "running" /\ at' = "request"
      /\ UNCHANGED <<pageToken, enabled, seen, pages, listing, reported>>
      /\ requested \in Seq(Tokens \cup {NoToken}) /\ pageToken \in Tokens \cup {NoToken}
      /\ Len(requested) = pages /\ pages < MaxPages /\ pages \in Nat
  BY DEF Apply, ListingInv, ListingType, CursorInv
<1>2. requested' = Append(requested, pageToken)
  BY <1>1 DEF Apply
<1>3. /\ requested' \in Seq(Tokens \cup {NoToken})
      /\ Len(requested') = pages + 1
      /\ DOMAIN requested' = 1 .. pages + 1 /\ DOMAIN requested = 1 .. pages
      /\ \A i \in 1 .. pages : requested'[i] = requested[i]
      /\ requested'[pages + 1] = pageToken
  BY <1>1, <1>2
<1>4. ListingType'
  BY <1>1, <1>3 DEF ListingInv, ListingType
<1>5. CursorInv'
  BY <1>1, <1>3 DEF ListingInv, CursorInv
<1>6. CollectedInv' /\ LimitIsExact'
  BY <1>1, <1>3 DEF ListingInv, CollectedInv, LimitIsExact
<1>7. NoPageTwice'
  BY <1>1, <1>3 DEF ListingInv, CursorInv, NoPageTwice
<1> QED
  BY <1>4, <1>5, <1>6, <1>7 DEF ListingInv

\* A listing that is given up requests nothing more.
LEMMA FailInv ==
    ASSUME ListingInv, Fail
    PROVE  ListingInv'
<1>1. listing' = "failed" /\ UNCHANGED <<at, pageToken, enabled, seen, pages, requested, reported>>
  BY DEF Fail
<1> QED
  BY <1>1 DEF ListingInv, ListingType, CursorInv, CollectedInv, LimitIsExact, NoPageTwice

\* A page leads to a token that has not been seen, or ends the listing.
LEMMA PageInv ==
    ASSUME ListingInv, NEW names \in SUBSET Apis, NEW next \in Tokens \cup {NoToken},
           Page(names, next)
    PROVE  ListingInv'
<1>1. /\ at = "request" /\ listing = "running" /\ at' = "apply" /\ pageToken' = next
      /\ enabled' = enabled \cup names /\ reported' = reported \cup names
      /\ requested' = requested
      /\ Len(requested) = pages + 1 /\ pages \in Nat
      /\ Len(requested) <= MaxPages
      /\ requested \in Seq(Tokens \cup {NoToken})
      /\ \A i \in 1 .. Len(requested) : requested[i] \in seen \cup {NoToken}
  BY DEF Page, Collected, ListingInv, ListingType, CursorInv, LimitIsExact
<1>2. requested # <<>>
  BY <1>1
<1>3. NoPageTwice'
  BY <1>1 DEF ListingInv, NoPageTwice
<1>4. CASE next = NoToken
  <2>1. listing' = "enabled" /\ UNCHANGED <<pages, seen>>
    BY <1>4 DEF Page
  <2> QED
    BY <1>1, <1>2, <1>3, <1>4, <2>1
       DEF ListingInv, ListingType, CursorInv, CollectedInv, LimitIsExact
<1>5. CASE next # NoToken /\ LimitReached
  <2>1. /\ pages' = pages + 1 /\ seen' = seen /\ listing' = "limit"
        /\ pages + 1 >= MaxPages
    BY <1>5 DEF Page, Advance, LimitReached
  <2> QED
    BY <1>1, <1>3, <1>5, <2>1
       DEF ListingInv, ListingType, CursorInv, CollectedInv, LimitIsExact
<1>6. CASE next # NoToken /\ ~LimitReached
  <2>1. /\ pages' = pages + 1 /\ seen' = seen \cup {next}
        /\ listing' = IF next \in seen THEN "stalled" ELSE "running"
        /\ ~(pages + 1 >= MaxPages)
    BY <1>6 DEF Page, Advance, LimitReached
  <2>2. next \in Tokens
    BY <1>6
  <2>3. ListingType' /\ CollectedInv' /\ LimitIsExact'
    BY <1>1, <2>1, <2>2 DEF ListingInv, ListingType, CollectedInv, LimitIsExact
  <2>4. CursorInv'
    BY <1>1, <1>6, <2>1, <2>2 DEF CursorInv
  <2> QED
    BY <1>3, <2>3, <2>4 DEF ListingInv
<1> QED
  BY <1>4, <1>5, <1>6

-----------------------------------------------------------------------------
(* Finite sets of services *)

\* Services are finitely many, and a permit is held for each that is fetching.
LEMMA ServicesFinite ==
    ASSUME NEW S \in SUBSET Services
    PROVE  IsFiniteSet(S) /\ Cardinality(S) \in Nat /\ Cardinality(S) <= Cardinality(Services)
           /\ Cardinality(Services) \in Nat
BY FS_Subset, FS_CardinalityType

\* A sequence without repetition is no longer than what it is made of.
LEMMA DistinctLength ==
    ASSUME NEW catalog \in Seq(ServiceCatalogs), Distinct(catalog)
    PROVE  Len(catalog) <= Cardinality(Services)
<1> DEFINE L == Len(catalog)
           f == [i \in 1 .. L |-> catalog[i].service]
<1>1. \A i \in 1 .. L : catalog[i].service \in Services
  <2>1. \A entry \in ServiceCatalogs : entry.service \in Services
    BY DEF ServiceCatalogs
  <2> QED
    BY <2>1
<1>2. f \in Injection(1 .. L, Services)
  BY <1>1 DEF Distinct, Injection, IsInjective
<1>3. L \in Nat
  OBVIOUS
<1>4. IsFiniteSet(1 .. L) /\ Cardinality(1 .. L) = L
  <2> HIDE DEF L
  <2>1. 1 \in Int /\ L \in Int /\ IF 1 > L THEN L = 0 ELSE L - 1 + 1 = L
    BY <1>3
  <2>2. IsFiniteSet(1 .. L) /\ Cardinality(1 .. L) = IF 1 > L THEN 0 ELSE L - 1 + 1
    BY <2>1, FS_Interval, Zenon
  <2> QED
    BY <2>1, <2>2
<1> HIDE DEF f, L
<1>5. Cardinality(1 .. L) <= Cardinality(Services)
  BY <1>2, FS_Injection, NumbersAssumption
<1> QED
  BY <1>4, <1>5 DEF L

-----------------------------------------------------------------------------
(* Catalogs *)

\* An empty listing is a listing.
LEMMA EmptyListing == <<>> \in Listings
<1>1. <<>> \in [1 .. 0 -> Tools] /\ 0 \in 0 .. MaxListing
  OBVIOUS
<1> QED
  BY <1>1 DEF Listings

\* The catalog a refresh starts from is sorted, and a snapshot's.
LEMMA FallbackCatalog ==
    ASSUME NEW S \in SUBSET Services, NEW catalog \in Fallback(S)
    PROVE  /\ catalog \in Seq(ServiceCatalogs)
           /\ Increasing(catalog)
           /\ \A i \in 1 .. Len(catalog) :
                 catalog[i].source = "snapshot" /\ catalog[i].tools = <<>>
<1> DEFINE n == Cardinality(S)
           Entries == {[service |-> s, source |-> "snapshot", tools |-> <<>>] : s \in S}
<1>1. n \in Nat
  BY ServicesFinite
<1>2. \A e \in Entries : e \in ServiceCatalogs /\ e.source = "snapshot" /\ e.tools = <<>>
  BY EmptyListing DEF ServiceCatalogs
<1>3. /\ catalog \in [1 .. n -> Entries]
      /\ \A i, j \in 1 .. n : i < j => catalog[i].service < catalog[j].service
  BY DEF Fallback
<1> HIDE DEF n, Entries
<1>4. catalog \in Seq(ServiceCatalogs) /\ Len(catalog) = n
  <2>1. catalog \in [1 .. n -> ServiceCatalogs]
    BY <1>2, <1>3
  <2> QED
    BY <1>1, <2>1
<1> QED
  BY <1>2, <1>3, <1>4 DEF Increasing

\* Of a catalog that holds no service twice, a service's entry is the only one.
LEMMA ServiceOfDistinct ==
    ASSUME NEW catalog \in Seq(ServiceCatalogs), Distinct(catalog), NEW s
    PROVE  ServiceOf(catalog, s) = EntriesOf(catalog, s)
<1>1. DOMAIN catalog = 1 .. Len(catalog) /\ Len(catalog) \in Nat
  OBVIOUS
<1>2. \A i \in 1 .. Len(catalog) : \A j \in 1 .. i - 1 :
         catalog[i].service = s => catalog[j].service # s
  BY <1>1 DEF Distinct
<1> QED
  BY <1>1, <1>2 DEF ServiceOf, EntriesOf

\* There is at most one first entry.
LEMMA ServiceOfSingle ==
    ASSUME NEW catalog \in Seq(ServiceCatalogs), NEW s,
           NEW a \in ServiceOf(catalog, s), NEW b \in ServiceOf(catalog, s)
    PROVE  a = b /\ a \in ServiceCatalogs /\ \E i \in 1 .. Len(catalog) : a = catalog[i]
<1>1. DOMAIN catalog = 1 .. Len(catalog) /\ Len(catalog) \in Nat
  OBVIOUS
<1>2. PICK i \in 1 .. Len(catalog) :
         /\ a = catalog[i] /\ catalog[i].service = s
         /\ \A k \in 1 .. i - 1 : catalog[k].service # s
  BY <1>1 DEF ServiceOf
<1>3. PICK j \in 1 .. Len(catalog) :
         /\ b = catalog[j] /\ catalog[j].service = s
         /\ \A k \in 1 .. j - 1 : catalog[k].service # s
  BY <1>1 DEF ServiceOf
<1>4. ~ (i \in 1 .. j - 1) /\ ~ (j \in 1 .. i - 1)
  BY <1>2, <1>3
<1>5. i = j
  BY <1>4
<1> QED
  BY <1>2, <1>3, <1>5

\* Sorting keeps the entries; where no service is there twice, their order is
\* strict.
LEMMA SortedCatalog ==
    ASSUME NEW catalog \in Seq(ServiceCatalogs), Distinct(catalog),
           NEW sorted \in Sorted(catalog)
    PROVE  /\ sorted \in Seq(ServiceCatalogs)
           /\ Len(sorted) = Len(catalog)
           /\ Increasing(sorted)
           /\ \A i \in 1 .. Len(sorted) : \E j \in 1 .. Len(catalog) : sorted[i] = catalog[j]
           /\ \A s : EntriesOf(sorted, s) = EntriesOf(catalog, s)
<1> DEFINE L == Len(catalog)
<1>1. DOMAIN catalog = 1 .. L /\ L \in Nat
  OBVIOUS
<1>2. PICK p \in Bijection(1 .. L, 1 .. L) : sorted = [i \in 1 .. L |-> catalog[p[i]]]
  BY <1>1 DEF Sorted
<1>3. \A i, j \in 1 .. L : i < j => sorted[i].service <= sorted[j].service
  BY <1>1 DEF Sorted
<1>4. /\ \A i \in 1 .. L : p[i] \in 1 .. L /\ sorted[i] = catalog[p[i]]
      /\ \A i, j \in 1 .. L : i # j => p[i] # p[j]
      /\ \A j \in 1 .. L : \E i \in 1 .. L : p[i] = j
  BY <1>2 DEF Bijection, Injection, Surjection, IsInjective
<1>5. sorted \in Seq(ServiceCatalogs) /\ Len(sorted) = L
  <2>1. sorted \in [1 .. L -> ServiceCatalogs]
    BY <1>2, <1>4
  <2> HIDE DEF L
  <2> QED
    BY <1>1, <2>1
<1> HIDE DEF L
<1>6. Increasing(sorted)
  <2> SUFFICES ASSUME NEW i \in 1 .. L, NEW j \in 1 .. L, i < j
               PROVE  sorted[i].service < sorted[j].service
    BY <1>5 DEF Increasing
  <2>1. sorted[i].service # sorted[j].service
    <3>1. p[i] \in 1 .. L /\ p[j] \in 1 .. L /\ p[i] # p[j]
      <4>1. i # j
        BY <1>1
      <4> QED
        BY <1>4, <4>1
    <3>2. catalog[p[i]].service # catalog[p[j]].service
      BY <3>1 DEF Distinct, L
    <3> QED
      BY <1>4, <3>2
  <2>2. sorted[i].service \in Nat /\ sorted[j].service \in Nat
    <3>1. \A entry \in ServiceCatalogs : entry.service \in Nat
      BY DEF ServiceCatalogs
    <3>2. sorted[i] \in ServiceCatalogs /\ sorted[j] \in ServiceCatalogs
      BY <1>5
    <3> QED
      BY <3>1, <3>2
  <2> QED
    BY <1>3, <2>1, <2>2
<1>7. ASSUME NEW s PROVE EntriesOf(sorted, s) = EntriesOf(catalog, s)
  <2>1. ASSUME NEW e \in EntriesOf(sorted, s) PROVE e \in EntriesOf(catalog, s)
    <3>1. PICK i \in 1 .. L : e = sorted[i] /\ sorted[i].service = s
      BY <1>5 DEF EntriesOf
    <3>2. p[i] \in 1 .. L /\ e = catalog[p[i]] /\ catalog[p[i]].service = s
      BY <1>4, <3>1
    <3> QED
      BY <3>2 DEF EntriesOf, L
  <2>2. ASSUME NEW e \in EntriesOf(catalog, s) PROVE e \in EntriesOf(sorted, s)
    <3>1. PICK j \in 1 .. L : e = catalog[j] /\ catalog[j].service = s
      BY DEF EntriesOf, L
    <3>2. PICK i \in 1 .. L : p[i] = j
      BY <1>4
    <3>3. e = sorted[i] /\ sorted[i].service = s
      BY <1>4, <3>1, <3>2
    <3> QED
      BY <1>5, <3>3 DEF EntriesOf
  <2> QED
    BY <2>1, <2>2
<1> QED
  BY <1>4, <1>5, <1>6, <1>7 DEF L

-----------------------------------------------------------------------------
(* Tasks *)

\* A task waits, talks, or has ended in one of three ways.
LEMMA TaskKinds ==
    /\ \A t \in Tasks : t \in Outcomes \/ t = Waiting \/ t.at = "fetching"
    /\ \A t \in Outcomes : t \in Tasks /\ t.at # "fetching" /\ t # Waiting
    /\ \A t \in Outcomes : t.at = "listed" => t = Listed(t.tools) /\ t.tools \in Listings
    /\ Waiting \in Tasks /\ Waiting.at # "fetching" /\ Waiting \notin Outcomes
    /\ \A left \in 0 .. FetchTimeout : Talking(left) \in Tasks /\ Talking(left).at = "fetching"
    /\ \A t \in Tasks : t.at = "fetching" => t.left \in 0 .. FetchTimeout
    /\ Failed \in Outcomes /\ Panicked \in Outcomes
    /\ Failed.at # "listed" /\ Failed # Panicked
    /\ \A tools \in Listings : Listed(tools) \in Outcomes
<1>1. \A tools : /\ Listed(tools).at = "listed" /\ Listed(tools).tools = tools
                 /\ Listed(tools) # Failed /\ Listed(tools) # Panicked
  BY DEF Listed, Failed, Panicked
<1>2. /\ Waiting.at = "queued" /\ Failed.at = "failed" /\ Panicked.at = "panicked"
      /\ \A left : Talking(left).at = "fetching"
  BY DEF Waiting, Failed, Panicked, Talking
<1>3. \A t \in Outcomes : \/ \E tools \in Listings : t = Listed(tools)
                          \/ t = Failed
                          \/ t = Panicked
  BY DEF Outcomes
<1>4. \A t \in Tasks : \/ t \in Outcomes
                       \/ t = Waiting
                       \/ \E left \in 0 .. FetchTimeout : t = Talking(left)
  BY DEF Tasks
<1>5. /\ \A t \in Outcomes : t \in Tasks
      /\ Waiting \in Tasks
      /\ \A left \in 0 .. FetchTimeout : Talking(left) \in Tasks
  BY DEF Tasks
<1>6. /\ Failed \in Outcomes /\ Panicked \in Outcomes
      /\ \A tools \in Listings : Listed(tools) \in Outcomes
  BY DEF Outcomes
<1>7. \A t \in Outcomes : t.at # "fetching" /\ t.at # "queued"
  BY <1>1, <1>2, <1>3
<1>8. \A t \in Outcomes : t.at = "listed" => t = Listed(t.tools) /\ t.tools \in Listings
  BY <1>1, <1>2, <1>3
<1>9. \A t \in Tasks : t \in Outcomes \/ t = Waiting \/ t.at = "fetching"
  BY <1>2, <1>4
<1>10. \A t \in Tasks : t.at = "fetching" => t.left \in 0 .. FetchTimeout
  <2>1. \A left : Talking(left).left = left
    BY DEF Talking
  <2> QED
    BY <1>2, <1>4, <1>7, <2>1
<1>11. Failed.at # "listed" /\ Failed # Panicked
  BY <1>2
<1> QED
  BY <1>2, <1>5, <1>6, <1>7, <1>8, <1>9, <1>10, <1>11

\* What a task contributes is at most one entry, and of its own service.
LEMMA ContributionType ==
    ASSUME TypeOK, NEW s \in endpoints, task[s] \in Outcomes
    PROVE  /\ \A entry \in Contribution(s) : entry \in ServiceCatalogs /\ entry.service = s
           /\ \A a, b \in Contribution(s) : a = b
<1>1. s \in Services /\ served \in Seq(ServiceCatalogs)
  BY DEF TypeOK
<1>2. /\ \A entry \in Stale(s) : entry \in ServiceCatalogs /\ entry.service = s
      /\ \A a, b \in Stale(s) : a = b
  <2>1. \A a, b \in ServiceOf(served, s) : a = b /\ a \in ServiceCatalogs
    BY <1>1, ServiceOfSingle
  <2>2. \A a \in ServiceCatalogs : a.tools \in Listings
    BY DEF ServiceCatalogs
  <2>3. \A a \in ServiceOf(served, s) :
           LET entry == [service |-> s, source |-> "snapshot", tools |-> a.tools]
           IN  entry \in ServiceCatalogs /\ entry.service = s
    BY <1>1, <2>1, <2>2 DEF ServiceCatalogs
  <2> QED
    BY <2>1, <2>3 DEF Stale
<1>3. task[s].at = "listed" =>
         [service |-> s, source |-> "live", tools |-> task[s].tools] \in ServiceCatalogs
  BY <1>1, TaskKinds DEF ServiceCatalogs
<1> QED
  BY <1>2, <1>3 DEF Contribution

\* What was joined stays joined: a step that leaves the ended tasks alone, and
\* all but the tasks and permits, disturbs none of what the fan-out has made.
LEMMA TaskStep ==
    ASSUME RefreshInv,
           UNCHANGED <<purpose, endpoints, served, joined, services, result>>,
           \A s \in endpoints : task[s] \in Outcomes => task'[s] = task[s]
    PROVE  JoinInv' /\ ServedInv' /\ BuiltInv' /\ FailureStaysContained' /\ OrderLeavesNoTrace'
<1>1. \A s \in joined : task'[s] = task[s] /\ task[s] \in Outcomes
  BY DEF RefreshInv, JoinInv, TypeOK
<1>2. JoinInv'
  BY <1>1 DEF RefreshInv, JoinInv
<1>3. ServedInv'
  BY DEF RefreshInv, ServedInv, Increasing
<1>4. BuiltInv'
  <2>1. \A s \in joined : Contribution(s)' = Contribution(s)
    BY <1>1 DEF Contribution, Stale, ServiceOf
  <2>2. \A s : EntriesOf(services, s)' = EntriesOf(services, s)
    BY DEF EntriesOf
  <2> QED
    BY <2>1, <2>2 DEF RefreshInv, BuiltInv, Distinct
<1>5. FailureStaysContained'
  BY <1>1 DEF RefreshInv, JoinInv, FailureStaysContained
<1>6. OrderLeavesNoTrace'
  <2> SUFFICES ASSUME result \in {"swapped", "written"}
               PROVE  OrderLeavesNoTrace'
    BY DEF OrderLeavesNoTrace
  <2>1. DOMAIN served = 1 .. Len(served)
    BY DEF RefreshInv, TypeOK
  <2>2. \A i \in DOMAIN served : task'[served[i].service] = task[served[i].service]
    BY <1>1, <2>1 DEF RefreshInv, ServedInv
  <2> QED
    BY <2>2 DEF RefreshInv, OrderLeavesNoTrace
<1> QED
  BY <1>2, <1>3, <1>4, <1>5, <1>6

-----------------------------------------------------------------------------
(* The steps of the fan-out *)

Fetching == {s \in endpoints : task[s].at = "fetching"}

\* The tasks that are fetching are finitely many.
LEMMA FetchingFinite ==
    ASSUME TypeOK
    PROVE  IsFiniteSet(Fetching) /\ Cardinality(Fetching) \in Nat
<1>1. Fetching \in SUBSET Services
  BY DEF Fetching, TypeOK
<1> QED
  BY <1>1, ServicesFinite, FS_CardinalityType

\* A task takes a permit as it begins to fetch.
LEMMA AcquireInv ==
    ASSUME RefreshInv, NEW s \in endpoints, Acquire(s)
    PROVE  RefreshInv'
<1>1. /\ task[s] = Waiting /\ permits > 0 /\ permits' = permits - 1
      /\ task' = [task EXCEPT ![s] = Talking(FetchTimeout)]
      /\ UNCHANGED <<purpose, endpoints, served, joined, services, result>>
  BY DEF Acquire
<1>2. TypeOK /\ task \in [endpoints -> Tasks] /\ permits \in 0 .. Permits
  BY DEF RefreshInv, TypeOK
<1>3. Talking(FetchTimeout) \in Tasks /\ Talking(FetchTimeout).at = "fetching"
  BY TaskKinds
<1>4. TypeOK'
  BY <1>1, <1>2, <1>3 DEF TypeOK
<1>5. \A r \in endpoints : task[r] \in Outcomes => task'[r] = task[r]
  BY <1>1, <1>2, TaskKinds
<1>6. PermitsAccountedFor'
  <2>1. s \notin Fetching
    BY <1>1, TaskKinds DEF Fetching
  <2>2. Fetching' = Fetching \cup {s}
    BY <1>1, <1>2, <1>3 DEF Fetching
  <2>3. Cardinality(Fetching') = Cardinality(Fetching) + 1
    BY <1>2, <2>1, <2>2, FetchingFinite, FS_AddElement
  <2> QED
    BY <1>1, <1>2, <2>3, FetchingFinite DEF RefreshInv, PermitsAccountedFor, Fetching
<1> QED
  BY <1>1, <1>4, <1>5, <1>6, TaskStep DEF RefreshInv

\* The permit goes back, however the fetch ended.
LEMMA EndInv ==
    ASSUME RefreshInv, NEW s \in endpoints, NEW outcome \in Outcomes, End(s, outcome)
    PROVE  RefreshInv'
<1>1. /\ task[s].at = "fetching" /\ permits' = permits + 1
      /\ task' = [task EXCEPT ![s] = outcome]
      /\ UNCHANGED <<purpose, endpoints, served, joined, services, result>>
  BY DEF End
<1>2. TypeOK /\ task \in [endpoints -> Tasks] /\ permits \in 0 .. Permits
  BY DEF RefreshInv, TypeOK
<1>3. outcome \in Tasks /\ outcome.at # "fetching"
  BY TaskKinds
<1>4. s \in Fetching /\ Fetching' = Fetching \ {s}
  BY <1>1, <1>2, <1>3 DEF Fetching
<1>5. /\ Cardinality(Fetching') = Cardinality(Fetching) - 1
      /\ Cardinality(Fetching) \in Nat /\ Cardinality(Fetching') \in Nat
  <2>1. IsFiniteSet(Fetching \ {s}) /\ Cardinality(Fetching \ {s}) = Cardinality(Fetching) - 1
    BY <1>2, <1>4, FetchingFinite, FS_RemoveElement
  <2> QED
    BY <1>2, <1>4, <2>1, FetchingFinite, FS_CardinalityType
<1>6. permits + Cardinality(Fetching) = Permits
  BY DEF RefreshInv, PermitsAccountedFor, Fetching
<1>7. permits' \in 0 .. Permits
  BY <1>1, <1>2, <1>5, <1>6
<1>8. TypeOK'
  BY <1>1, <1>2, <1>3, <1>7 DEF TypeOK
<1>9. PermitsAccountedFor'
  <2>1. permits' + Cardinality(Fetching') = Permits
    BY <1>1, <1>2, <1>5, <1>6
  <2> QED
    BY <2>1 DEF PermitsAccountedFor, Fetching
<1>10. \A r \in endpoints : task[r] \in Outcomes => task'[r] = task[r]
  BY <1>1, <1>2, TaskKinds
<1> QED
  BY <1>1, <1>8, <1>9, <1>10, TaskStep DEF RefreshInv

\* As time passes the same tasks fetch on.
LEMMA TickInv ==
    ASSUME RefreshInv, Tick
    PROVE  RefreshInv'
<1>1. /\ \A s \in endpoints : task[s].at = "fetching" => task[s].left > 0
      /\ task' = [s \in endpoints |->
                     IF task[s].at = "fetching" THEN Talking(task[s].left - 1) ELSE task[s]]
      /\ UNCHANGED <<purpose, endpoints, served, permits, joined, services, result>>
  BY DEF Tick
<1>2. TypeOK /\ task \in [endpoints -> Tasks]
  BY DEF RefreshInv, TypeOK
<1>3. ASSUME NEW s \in endpoints, task[s].at = "fetching"
      PROVE  Talking(task[s].left - 1) \in Tasks /\ Talking(task[s].left - 1).at = "fetching"
  <2>1. task[s].left > 0 /\ task[s].left \in 0 .. FetchTimeout
    BY <1>1, <1>2, <1>3, TaskKinds
  <2>2. task[s].left - 1 \in 0 .. FetchTimeout
    BY <2>1
  <2> QED
    BY <2>2, TaskKinds
<1>4. /\ task' \in [endpoints -> Tasks]
      /\ \A s \in endpoints : task'[s].at = "fetching" <=> task[s].at = "fetching"
  BY <1>1, <1>2, <1>3
<1>5. TypeOK'
  BY <1>1, <1>2, <1>4 DEF TypeOK
<1>6. Fetching' = Fetching
  BY <1>1, <1>4 DEF Fetching
<1>7. PermitsAccountedFor'
  BY <1>1, <1>6 DEF RefreshInv, PermitsAccountedFor, Fetching
<1>8. \A s \in endpoints : task[s] \in Outcomes => task'[s] = task[s]
  BY <1>1, TaskKinds
<1> QED
  BY <1>1, <1>5, <1>7, <1>8, TaskStep DEF RefreshInv

\* Where entries ascend, none is there twice.
LEMMA IncreasingDistinct ==
    ASSUME NEW catalog \in Seq(ServiceCatalogs), Increasing(catalog)
    PROVE  Distinct(catalog)
<1>1. \A i \in 1 .. Len(catalog) : catalog[i].service \in Nat
  <2>1. \A entry \in ServiceCatalogs : entry.service \in Nat
    BY DEF ServiceCatalogs
  <2> QED
    BY <2>1
<1> SUFFICES ASSUME NEW i \in 1 .. Len(catalog), NEW j \in 1 .. Len(catalog), i # j
             PROVE  catalog[i].service # catalog[j].service
  BY DEF Distinct
<1>2. CASE i < j
  BY <1>1, <1>2 DEF Increasing
<1>3. CASE j < i
  BY <1>1, <1>3 DEF Increasing
<1> QED
  BY <1>2, <1>3

\* Joining a task adds its contribution, and nothing of a service that is there.
LEMMA JoinStep ==
    ASSUME RefreshInv, NEW s \in endpoints, Join(s)
    PROVE  RefreshInv'
<1>1. /\ task[s] \in Outcomes /\ s \notin joined /\ joined' = joined \cup {s}
      /\ \/ Contribution(s) = {} /\ services' = services
         \/ \E entry \in Contribution(s) : services' = Append(services, entry)
      /\ UNCHANGED <<purpose, endpoints, served, permits, task, result>>
  BY DEF Join
<1>2. TypeOK /\ services \in Seq(ServiceCatalogs) /\ result = "building"
  BY <1>1 DEF RefreshInv, TypeOK, JoinInv
<1>3. /\ \A entry \in Contribution(s) : entry \in ServiceCatalogs /\ entry.service = s
      /\ \A a, b \in Contribution(s) : a = b
  BY <1>1, <1>2, ContributionType
<1>4. /\ Distinct(services)
      /\ \A i \in 1 .. Len(services) : services[i].service \in joined
      /\ \A r \in joined : EntriesOf(services, r) = Contribution(r)
  BY <1>2 DEF RefreshInv, BuiltInv
<1>5. /\ services' \in Seq(ServiceCatalogs)
      /\ Distinct(services')
      /\ \A i \in 1 .. Len(services') : services'[i].service \in joined'
      /\ \A r \in joined' : EntriesOf(services', r) = Contribution(r)
  <2>1. CASE Contribution(s) = {} /\ services' = services
    <3>1. EntriesOf(services, s) = {}
      BY <1>1, <1>4 DEF EntriesOf
    <3> QED
      BY <1>1, <1>2, <1>4, <2>1, <3>1
  <2>2. ASSUME NEW entry \in Contribution(s), services' = Append(services, entry)
        PROVE  <1>5!1 /\ <1>5!2 /\ <1>5!3 /\ <1>5!4
    <3> DEFINE L == Len(services)
    <3>1. /\ L \in Nat /\ Len(services') = L + 1
          /\ services' \in Seq(ServiceCatalogs)
          /\ \A i \in 1 .. L : services'[i] = services[i]
          /\ services'[L + 1] = entry
          /\ entry.service = s
      BY <1>2, <1>3, <2>2
    <3>2. \A i \in 1 .. L : services[i].service \in joined /\ services[i].service # s
      BY <1>1, <1>4
    <3>3. \A i, j \in 1 .. L : i # j => services[i].service # services[j].service
      BY <1>4 DEF Distinct
    <3> HIDE DEF L
    <3>4. Distinct(services')
      BY <3>1, <3>2, <3>3 DEF Distinct
    <3>5. \A i \in 1 .. Len(services') : services'[i].service \in joined'
      BY <1>1, <3>1, <3>2
    <3>6. ASSUME NEW r \in joined'
          PROVE  EntriesOf(services', r) = Contribution(r)
      <4>1. CASE r = s
        <5>1. {i \in 1 .. L + 1 : services'[i].service = s} = {L + 1}
          BY <3>1, <3>2
        <5>2. EntriesOf(services', r) = {entry}
          BY <3>1, <4>1, <5>1 DEF EntriesOf
        <5> QED
          BY <1>3, <4>1, <5>2
      <4>2. CASE r # s
        <5>1. {i \in 1 .. L + 1 : services'[i].service = r}
                = {i \in 1 .. L : services[i].service = r}
          BY <3>1, <4>2
        <5>2. EntriesOf(services', r) = EntriesOf(services, r)
          BY <3>1, <5>1 DEF EntriesOf, L
        <5> QED
          BY <1>1, <1>4, <4>2, <5>2
      <4> QED
        BY <4>1, <4>2
    <3> QED
      BY <3>1, <3>4, <3>5, <3>6
  <2> QED
    BY <1>1, <2>1, <2>2
<1>6. TypeOK'
  BY <1>1, <1>2, <1>5, DistinctLength DEF TypeOK
<1>7. JoinInv' /\ ServedInv'
  BY <1>1, <1>2 DEF RefreshInv, JoinInv, ServedInv, Increasing
<1>8. BuiltInv'
  <2>1. \A r : Contribution(r)' = Contribution(r)
    BY <1>1 DEF Contribution, Stale, ServiceOf
  <2>2. \A r : EntriesOf(services, r)' = EntriesOf(services', r)
    BY DEF EntriesOf
  <2> QED
    BY <1>5, <2>1, <2>2 DEF BuiltInv, Distinct
<1>9. PermitsAccountedFor' /\ FailureStaysContained' /\ OrderLeavesNoTrace'
  BY <1>1, <1>2 DEF RefreshInv, PermitsAccountedFor, FailureStaysContained, OrderLeavesNoTrace
<1> QED
  BY <1>6, <1>7, <1>8, <1>9 DEF RefreshInv

\* What is built once all are joined: each entry is its service's contribution.
LEMMA BuiltEntries ==
    ASSUME RefreshInv, result = "building", NEW i \in 1 .. Len(services)
    PROVE  /\ services[i].service \in joined
           /\ services[i] \in Contribution(services[i].service)
           /\ services[i].source = "live" =>
                 task[services[i].service] = Listed(services[i].tools)
<1> DEFINE s == services[i].service
<1>1. s \in joined /\ services[i] \in EntriesOf(services, s)
  BY DEF RefreshInv, BuiltInv, EntriesOf
<1>2. EntriesOf(services, s) = Contribution(s) /\ task[s] \in Outcomes
  BY <1>1 DEF RefreshInv, BuiltInv, JoinInv
<1> HIDE DEF s
<1>3. \A entry \in Stale(s) : entry.source = "snapshot"
  BY DEF Stale
<1>4. \A entry \in Contribution(s) :
         entry.source = "live" => task[s].at = "listed" /\ entry.tools = task[s].tools
  BY <1>3 DEF Contribution
<1>5. services[i].source = "live" => task[s] = Listed(services[i].tools)
  BY <1>1, <1>2, <1>4, TaskKinds
<1> QED
  BY <1>1, <1>2, <1>5 DEF s

\* The catalog of a refresh that lands.
LEMMA FinishSortedInv ==
    ASSUME RefreshInv, Finish, result' \in {"swapped", "written"}
    PROVE  RefreshInv' /\ \A s : EntriesOf(services, s) = ServiceOf(served', s)
<1>1. /\ result = "building" /\ joined = endpoints
      /\ served' \in Sorted(services)
      /\ UNCHANGED <<purpose, endpoints, permits, task, joined, services>>
  BY DEF Finish, FinishRefresh, FinishSnapshot
<1>2. TypeOK /\ services \in Seq(ServiceCatalogs) /\ Distinct(services)
  BY DEF RefreshInv, TypeOK, BuiltInv
<1>3. /\ served' \in Seq(ServiceCatalogs) /\ Len(served') = Len(services)
      /\ Increasing(served')
      /\ \A i \in 1 .. Len(served') : \E j \in 1 .. Len(services) : served'[i] = services[j]
      /\ \A s : EntriesOf(served', s) = EntriesOf(services, s)
  BY <1>1, <1>2, SortedCatalog
<1>4. \A i \in 1 .. Len(served') :
         /\ served'[i].service \in joined
         /\ served'[i].source = "live" =>
               task[served'[i].service] = Listed(served'[i].tools)
  BY <1>1, <1>3, BuiltEntries
<1>5. TypeOK'
  BY <1>1, <1>2, <1>3 DEF TypeOK
<1>6. JoinInv' /\ PermitsAccountedFor'
  BY <1>1 DEF RefreshInv, JoinInv, PermitsAccountedFor
<1>7. ServedInv'
  BY <1>1, <1>3, <1>4 DEF ServedInv, Increasing
<1>8. BuiltInv'
  BY <1>1, <1>2 DEF RefreshInv, BuiltInv, Distinct
<1>9. FailureStaysContained'
  BY DEF FailureStaysContained
<1>10. OrderLeavesNoTrace'
  <2>1. DOMAIN served' = 1 .. Len(served')
    BY <1>3
  <2> QED
    BY <1>1, <1>3, <1>4, <2>1 DEF OrderLeavesNoTrace, Increasing
<1>11. \A s : EntriesOf(services, s) = ServiceOf(served', s)
  BY <1>3, IncreasingDistinct, ServiceOfDistinct
<1> QED
  BY <1>5, <1>6, <1>7, <1>8, <1>9, <1>10, <1>11 DEF RefreshInv

\* A refresh is given up over a live listing that repeats a name: what is served
\* from the snapshot is valid, and an overlong listing has been left out.
LEMMA FinishKeptInv ==
    ASSUME RefreshInv, Finish, result' \in {"kept", "refused"}
    PROVE  RefreshInv'
<1>1. /\ result = "building" /\ joined = endpoints
      /\ served' = served
      /\ result' = "kept" => ~Valid(services)
      /\ UNCHANGED <<purpose, endpoints, permits, task, joined, services>>
  BY DEF Finish, FinishRefresh, FinishSnapshot
<1>2. TypeOK' /\ JoinInv' /\ PermitsAccountedFor'
  BY <1>1 DEF RefreshInv, TypeOK, JoinInv, PermitsAccountedFor
<1>3. ServedInv' /\ BuiltInv' /\ OrderLeavesNoTrace'
  BY <1>1 DEF RefreshInv, ServedInv, BuiltInv, OrderLeavesNoTrace, Increasing, Distinct
<1>4. FailureStaysContained'
  <2> SUFFICES ASSUME ~Valid(services)
               PROVE  \E s \in endpoints : task[s].at = "listed" /\ IsRepeating(task[s].tools)
    BY <1>1 DEF FailureStaysContained
  <2>1. PICK i \in 1 .. Len(services) :
           IsOverlong(services[i].tools) \/ IsRepeating(services[i].tools)
    BY DEF Valid, RefreshInv, TypeOK
  <2> DEFINE s == services[i].service
             tools == services[i].tools
  <2>2. s \in endpoints /\ services[i] \in Contribution(s)
    BY <1>1, BuiltEntries
  <2>3. tools # <<>>
    BY <2>1 DEF IsOverlong, IsRepeating, ToSet
  <2>4. services[i] \notin Stale(s)
    <3>1. \A entry \in ServiceOf(served, s) : entry.tools = <<>>
      BY <1>1, ServiceOfSingle DEF RefreshInv, TypeOK, ServedInv
    <3> QED
      BY <2>3, <3>1 DEF Stale
  <2> HIDE DEF s
  <2>5. /\ task[s].at = "listed" /\ ~IsOverlong(task[s].tools)
        /\ tools = task[s].tools
    BY <2>2, <2>4 DEF Contribution, WithinLimit
  <2> QED
    BY <2>1, <2>2, <2>5
<1> QED
  BY <1>2, <1>3, <1>4 DEF RefreshInv

\* Every step of the fan-out.
LEMMA RefreshStep ==
    ASSUME RefreshInv, Next
    PROVE  RefreshInv'
<1>1. ASSUME NEW s \in endpoints, Upstream(s) PROVE RefreshInv'
  <2>1. PICK outcome \in Outcomes : End(s, outcome)
    BY <1>1, TaskKinds DEF Upstream, Answer, Refuse, Panic
  <2> QED
    BY <2>1, EndInv
<1>2. ASSUME NEW s \in endpoints, TimeOut(s) PROVE RefreshInv'
  BY <1>2, TaskKinds, EndInv DEF TimeOut
<1>3. ASSUME Finish PROVE RefreshInv'
  <2>1. result' \in {"swapped", "written", "kept", "refused"}
    BY <1>3 DEF Finish, FinishRefresh, FinishSnapshot
  <2> QED
    BY <1>3, <2>1, FinishSortedInv, FinishKeptInv
<1> QED
  BY <1>1, <1>2, <1>3, AcquireInv, JoinStep, TickInv DEF Next, Progress

-----------------------------------------------------------------------------
(* The text of a refusal *)

\* A chain of two texts, the second of which may be the first.
LEMMA FlattenTwo ==
    ASSUME NEW S, NEW t \in Seq(S), NEW u \in Seq(S)
    PROVE  /\ FlattenSeq(<<t, u>>) = t \o u
           /\ FlattenSeq(<<t>>) = t
<1>1. ASSUME NEW seqs, Len(seqs) = 2, seqs[1] = t, seqs[2] = u
      PROVE  FlattenSeq(seqs) = t \o u
  <2> DEFINE Step(f, i) == IF i = 1 THEN seqs[i] ELSE f[i - 1] \o seqs[i]
             flatten == CHOOSE f : f = [i \in 1 .. Len(seqs) |-> Step(f, i)]
             g == [i \in 1 .. 2 |-> IF i = 1 THEN t ELSE t \o u]
  <2>1. g = [i \in 1 .. Len(seqs) |-> Step(g, i)]
    BY <1>1
  <2>2. flatten = [i \in 1 .. Len(seqs) |-> Step(flatten, i)]
    <3> HIDE DEF Step, g
    <3> QED
      BY <2>1
  <2>3. FlattenSeq(seqs) = flatten[Len(seqs)]
    BY <1>1 DEF FlattenSeq
  <2> HIDE DEF flatten
  <2>4. flatten[1] = t
    BY <1>1, <2>2
  <2>5. flatten[2] = flatten[1] \o seqs[2]
    <3>1. 2 \in 1 .. Len(seqs) /\ 2 # 1 /\ 2 - 1 = 1
      BY <1>1
    <3> HIDE DEF Step
    <3>2. flatten[2] = Step(flatten, 2)
      BY <2>2, <3>1
    <3> QED
      BY <3>1, <3>2 DEF Step
  <2> QED
    BY <1>1, <2>3, <2>4, <2>5
<1>2. ASSUME NEW seqs, Len(seqs) = 1, seqs[1] = t
      PROVE  FlattenSeq(seqs) = t
  <2> DEFINE Step(f, i) == IF i = 1 THEN seqs[i] ELSE f[i - 1] \o seqs[i]
             flatten == CHOOSE f : f = [i \in 1 .. Len(seqs) |-> Step(f, i)]
             g == [i \in 1 .. 1 |-> t]
  <2>1. g = [i \in 1 .. Len(seqs) |-> Step(g, i)]
    BY <1>2
  <2>2. flatten = [i \in 1 .. Len(seqs) |-> Step(flatten, i)]
    <3> HIDE DEF Step, g
    <3> QED
      BY <2>1
  <2>3. FlattenSeq(seqs) = flatten[Len(seqs)]
    BY <1>2 DEF FlattenSeq
  <2> HIDE DEF flatten
  <2> QED
    BY <1>2, <2>2, <2>3
<1> QED
  BY <1>1, <1>2

\* render_chain, of a chain of two texts: the second, unless it repeats the first.
LEMMA ChainOfTwo ==
    ASSUME NEW S, NEW t \in Seq(S), NEW u \in Seq(S),
           NEW error, error.chain = <<t, u>>
    PROVE  RenderChain(error) = IF t = u THEN t ELSE t \o u
<1> DEFINE chain == error.chain
           Repeats(n) == \E m \in 1 .. n - 1 : chain[m] = chain[n]
           all == [n \in DOMAIN chain |-> n]
           K == {n \in DOMAIN chain : ~Repeats(n)}
           new == Kept(all, K)
           texts == [n \in DOMAIN new |-> chain[new[n]]]
<1>1. DOMAIN chain = 1 .. 2 /\ chain[1] = t /\ chain[2] = u
  OBVIOUS
<1>2. all \in Seq(Nat) /\ Len(all) = 2 /\ all[1] = 1 /\ all[2] = 2
  BY <1>1
<1>3. 1 \in K /\ (2 \in K <=> t # u)
  BY <1>1
<1>4. RenderChain(error) = FlattenSeq(texts)
  BY Zenon DEF RenderChain
<1> HIDE DEF all, K
<1>5. new = IF 2 \in K THEN all ELSE <<all[1]>>
  BY <1>2, <1>3, KeptOfTwo
<1>6. CASE t = u
  <2>1. new = <<1>>
    BY <1>2, <1>3, <1>5, <1>6
  <2> HIDE DEF new
  <2>2. texts = <<t>>
    BY <1>1, <2>1
  <2> QED
    BY <1>4, <1>6, <2>2, FlattenTwo
<1>7. CASE t # u
  <2>1. new \in Seq(Nat) /\ Len(new) = 2 /\ new[1] = 1 /\ new[2] = 2
    BY <1>2, <1>3, <1>5, <1>7
  <2> HIDE DEF new
  <2>2. texts = <<t, u>>
    BY <1>1, <2>1
  <2> QED
    BY <1>4, <1>7, <2>2, FlattenTwo
<1> QED
  BY <1>6, <1>7

\* ... and of a single one.
LEMMA ChainOfOne ==
    ASSUME NEW S, NEW t \in Seq(S), NEW error, error.chain = <<t>>
    PROVE  RenderChain(error) = t
<1> DEFINE chain == error.chain
           Repeats(n) == \E m \in 1 .. n - 1 : chain[m] = chain[n]
           all == [n \in DOMAIN chain |-> n]
           K == {n \in DOMAIN chain : ~Repeats(n)}
           new == Kept(all, K)
           texts == [n \in DOMAIN new |-> chain[new[n]]]
<1>1. DOMAIN chain = 1 .. 1 /\ chain[1] = t
  OBVIOUS
<1>2. all \in Seq(Nat) /\ Len(all) = 1 /\ all[1] = 1
  BY <1>1
<1>3. 1 \in K
  BY <1>1
<1>4. RenderChain(error) = FlattenSeq(texts)
  BY Zenon DEF RenderChain
<1> HIDE DEF all, K
<1>5. new = all
  BY <1>2, <1>3, KeptOfOne
<1> HIDE DEF new
<1>6. texts = <<t>>
  BY <1>1, <1>2, <1>5
<1> QED
  BY <1>4, <1>6, FlattenTwo

-----------------------------------------------------------------------------
(* The words of a remediation *)

\* What is trimmed off a word is all that it ends in.
LEMMA TrimmedTo ==
    ASSUME NEW S, NEW word \in Seq(S), NEW n \in Nat \ {0}, n <= Len(word),
           word[n] \notin Punctuation,
           \A m \in n + 1 .. Len(word) : word[m] \in Punctuation
    PROVE  Trimmed(word) = SubSeq(word, 1, n)
<1> DEFINE kept == {m \in DOMAIN word : word[m] \notin Punctuation}
           any == kept \cup {0}
<1>1. Len(word) \in Nat /\ DOMAIN word = 1 .. Len(word)
  OBVIOUS
<1>2. n \in any
  BY <1>1
<1>3. ASSUME NEW m \in any PROVE m \in Nat /\ n >= m
  <2>1. m \in Nat /\ (m # 0 => m <= Len(word) /\ word[m] \notin Punctuation)
    BY <1>1
  <2>2. m # 0 /\ m > n => m \in n + 1 .. Len(word)
    BY <1>1, <2>1
  <2> QED
    BY <2>1, <2>2
<1>4. Trimmed(word) = SubSeq(word, 1, Max(any))
  BY Zenon DEF Trimmed
<1> HIDE DEF any
<1>5. Max(any) \in any /\ \A m \in any : Max(any) >= m
  BY <1>2, <1>3 DEF Max
<1>6. Max(any) = n
  <2> DEFINE greatest == Max(any)
  <2>1. greatest \in any /\ greatest >= n
    BY <1>2, <1>5
  <2> HIDE DEF greatest
  <2>2. greatest \in Nat /\ n >= greatest
    BY <1>3, <2>1
  <2>3. greatest = n
    BY <2>1, <2>2
  <2> QED
    BY <2>3 DEF greatest
<1> QED
  BY <1>4, <1>6

\* A project serve accepts is one that error.rs accepts, also if it ends a sentence.
LEMMA ProjectAccepted ==
    ASSUME NEW word \in Seq(STRING), IsProject(word)
    PROVE  /\ AcceptProjectId(word)
           /\ Trimmed(word) = word
           /\ Trimmed(word \o <<".">>) = word
<1>1. /\ Len(word) \in Nat \ {0} /\ word # <<>> /\ Len(word) <= MaxProject
      /\ Head(word) = word[1] /\ Last(word) = word[Len(word)]
      /\ DOMAIN word = 1 .. Len(word)
  BY LengthsAssumption, RemediationAssumption DEF IsProject, Last
<1>2. /\ ToSet(word) \subseteq Lowercase \cup Digits \cup {"-"}
      /\ word[1] # "-"
      /\ word[Len(word)] \in Lowercase \cup Digits
  <2>1. word[1] \in ToSet(word) /\ word[Len(word)] \in ToSet(word)
    BY <1>1 DEF ToSet
  <2> QED
    BY <1>1, <2>1, CharactersAssumption DEF IsProject
<1>3. AcceptProjectId(word)
  BY <1>1, <1>2 DEF AcceptProjectId
<1>4. word[Len(word)] \notin Punctuation
  BY <1>2, CharactersAssumption DEF Punctuation
<1>5. Trimmed(word) = word
  <2>1. Trimmed(word) = SubSeq(word, 1, Len(word))
    BY <1>1, <1>4, TrimmedTo
  <2> QED
    BY <1>1, <2>1
<1>6. Trimmed(word \o <<".">>) = word
  <2> DEFINE sentence == word \o <<".">>
             n == Len(word)
             stop == "."
  <2> HIDE DEF stop
  <2>1. /\ word \o <<stop>> \in Seq(STRING \cup {stop}) /\ Len(word \o <<stop>>) = n + 1
        /\ (word \o <<stop>>)[n + 1] = stop
        /\ \A m \in 1 .. n : (word \o <<stop>>)[m] = word[m]
    OBVIOUS
  <2>2. /\ sentence \in Seq(STRING \cup {stop}) /\ Len(sentence) = n + 1
        /\ sentence[n + 1] \in Punctuation
        /\ \A m \in 1 .. n : sentence[m] = word[m]
    BY <2>1 DEF stop, Punctuation
  <2> HIDE DEF sentence
  <2>3. \A m \in n + 1 .. Len(sentence) : sentence[m] \in Punctuation
    <3>1. \A m \in n + 1 .. Len(sentence) : m = n + 1
      BY <1>1, <2>2
    <3> QED
      BY <2>2, <3>1
  <2>4. Trimmed(sentence) = SubSeq(sentence, 1, n)
    BY <1>1, <1>4, <2>2, <2>3, TrimmedTo
  <2>5. SubSeq(sentence, 1, n) = word
    BY <1>1, <2>2
  <2> QED
    BY <2>4, <2>5 DEF sentence
<1> QED
  BY <1>3, <1>5, <1>6

RemediationFor(api, project) ==
    [is |-> "ServiceDisabled", api |-> api, project |-> project]

\* The remediation for a text that holds an API and a project, and nothing else
\* that matters, names them, wherever they are in it.
LEMMA Remediation ==
    ASSUME NEW project, NEW word, Trimmed(word) = project, AcceptProjectId(project),
           NEW api \in Apis,
           NEW T, NEW text \in Seq(T),
           T = {Disabled(word), Console(api), Http(403), Http(2)},
           Disabled(word) \in ToSet(text), Console(api) \in ToSet(text)
    PROVE  Classified(403, text) = RemediationFor(api, project)
<1> DEFINE S == {Disabled(word), Console(api), Http(403), Http(2)}
           Of(kind) == {piece \in ToSet(text) : piece.is = kind}
<1>1. ToSet(text) \subseteq S
  BY DEF ToSet
<1>2. /\ \E n \in 1 .. Len(text) : text[n] = Disabled(word)
      /\ \E n \in 1 .. Len(text) : text[n] = Console(api)
  BY DEF ToSet
<1>3. Of("disabled") = {Disabled(word)} /\ Of("console") = {Console(api)}
  BY <1>1 DEF Disabled, Console, Http
<1> HIDE DEF S, Of
<1>4. ASSUME NEW kind, NEW piece, Of(kind) = {piece}, \E n \in 1 .. Len(text) : text[n] = piece
      PROVE  Pieces(text, kind) # <<>> /\ Head(Pieces(text, kind)) = piece
  <2> DEFINE kept == Kept(text, Of(kind))
  <2>1. Pieces(text, kind) = kept
    BY DEF Pieces, Of
  <2>2. /\ kept \in Seq(S) /\ kept # <<>>
        /\ \A i \in 1 .. Len(kept) : kept[i] \in Of(kind)
    BY <1>4, KeptAmong DEF S
  <2> HIDE DEF kept
  <2>3. kept[1] = piece /\ Head(kept) = kept[1]
    BY <1>4, <2>2
  <2> QED
    BY <2>1, <2>2, <2>3
<1>5. Pieces(text, "disabled") # <<>> /\ Head(Pieces(text, "disabled")).word = word
  <2>1. Pieces(text, "disabled") # <<>> /\ Head(Pieces(text, "disabled")) = Disabled(word)
    BY <1>2, <1>3, <1>4, Zenon
  <2> QED
    BY <2>1 DEF Disabled
<1>6. Pieces(text, "console") # <<>> /\ Head(Pieces(text, "console")).word = api
  <2>1. Pieces(text, "console") # <<>> /\ Head(Pieces(text, "console")) = Console(api)
    BY <1>2, <1>3, <1>4, Zenon
  <2> QED
    BY <2>1 DEF Console
<1>7. ~Says(text, "quota_project")
  BY <1>1 DEF S, Says, Phrase, Disabled, Console, Http
<1>8. Classified(403, text) = ParseServiceDisabled(text)
  <2> DEFINE disabled == Pieces(text, "disabled")
  <2>1. disabled # <<>>
    BY <1>5
  <2> HIDE DEF disabled
  <2>2. ~Says(text, "quota_project")
    BY <1>7
  <2> QED
    BY <2>1, <2>2 DEF Classified, disabled
<1>9. AcceptApiName(api)
  BY RemediationAssumption
<1>10. ParseServiceDisabled(text)
         = [is |-> "ServiceDisabled", api |-> api, project |-> project]
  BY <1>5, <1>6, <1>9 DEF ParseServiceDisabled
<1> QED
  BY <1>8, <1>10 DEF RemediationFor

-----------------------------------------------------------------------------
(* The status that is reported *)

\* classify_upstream does not lose the status.
LEMMA StatusOfClassified ==
    ASSUME NEW status, NEW text
    PROVE  StatusShown(Classified(status, text)) = status
<1> DEFINE failure == Classified(status, text)
<1>1. CASE status = 401
  <2>1. \/ failure = [is |-> "MissingCredential"]
        \/ failure = [is |-> "ApiKeyUnsupported"]
        \/ failure = [is |-> "Other", status |-> status]
    BY <1>1 DEF Classified
  <2> QED
    BY <1>1, <2>1 DEF StatusShown
<1>2. CASE status = 403
  <2>1. \/ failure = [is |-> "QuotaProjectMissing"]
        \/ failure = ParseServiceDisabled(text)
        \/ failure = [is |-> "PermissionDenied"]
    BY <1>2 DEF Classified
  <2>2. ParseServiceDisabled(text).is = "ServiceDisabled"
    BY DEF ParseServiceDisabled
  <2>3. failure.is \in {"QuotaProjectMissing", "ServiceDisabled", "PermissionDenied"}
    BY <2>1, <2>2
  <2> QED
    BY <1>2, <2>3 DEF StatusShown
<1>3. CASE status # 401 /\ status # 403
  <2>1. failure = [is |-> "Other", status |-> status]
    BY <1>3 DEF Classified
  <2> QED
    BY <2>1 DEF StatusShown
<1> QED
  BY <1>1, <1>2, <1>3

\* What is found is a sequence.
LEMMA StatusSequence ==
    ASSUME NEW S, NEW text \in Seq(S)
    PROVE  \E R : StatusFromText(text) \in Seq(R)
<1> DEFINE K == {piece \in ToSet(text) : piece.is = "http" /\ piece.code \in 100 .. 599}
           found == Kept(text, K)
<1>1. StatusFromText(text) = [m \in DOMAIN found |-> found[m].code]
  BY DEF StatusFromText
<1> HIDE DEF K
<1>2. found \in Seq(S)
  BY KeptAmong
<1> HIDE DEF found
<1>3. DOMAIN found = 1 .. Len(found) /\ Len(found) \in Nat
  BY <1>2
<1> DEFINE R == {found[m].code : m \in 1 .. Len(found)}
<1>4. StatusFromText(text) \in [1 .. Len(found) -> R]
  BY <1>1, <1>3
<1> HIDE DEF R
<1>5. StatusFromText(text) \in Seq(R)
  BY <1>3, <1>4
<1> QED
  BY <1>5

\* status_from_text takes the first number that may be a status.
LEMMA FirstStatus ==
    ASSUME NEW S, NEW text \in Seq(S), NEW status \in 100 .. 599,
           NEW n \in 1 .. Len(text), text[n] = Http(status),
           \A m \in 1 .. n - 1 : text[m] = Http(2)
    PROVE  StatusFromText(text) # <<>> /\ Head(StatusFromText(text)) = status
<1> DEFINE K == {piece \in ToSet(text) : piece.is = "http" /\ piece.code \in 100 .. 599}
           found == Kept(text, K)
<1>1. text[n] \in K
  <2>1. text[n] \in ToSet(text)
    BY DEF ToSet
  <2>2. Http(status).is = "http" /\ Http(status).code \in 100 .. 599
    BY DEF Http
  <2> QED
    BY <2>1, <2>2
<1>2. \A m \in 1 .. n - 1 : text[m] \notin K
  <2>1. Http(2).code = 2 /\ 2 \notin 100 .. 599
    BY DEF Http
  <2> QED
    BY <2>1
<1>3. StatusFromText(text) = [m \in DOMAIN found |-> found[m].code]
  BY DEF StatusFromText
<1> HIDE DEF K
<1>4. found \in Seq(S) /\ found # <<>> /\ found[1] = text[n]
  BY <1>1, <1>2, KeptFirst
<1> HIDE DEF found
<1>5. DOMAIN found = 1 .. Len(found) /\ Len(found) \in Nat \ {0} /\ found[1].code = status
  BY <1>4 DEF Http
<1>6. StatusFromText(text)[1] = status /\ StatusFromText(text) # <<>>
  BY <1>3, <1>5
<1>7. PICK R : StatusFromText(text) \in Seq(R)
  BY StatusSequence
<1> QED
  BY <1>6, <1>7

\* The body of a refusal.
LEMMA RefusalBody ==
    ASSUME NEW refusal \in Refusals
    PROVE  /\ Len(refusal.body) \in Nat
           /\ refusal.body \in Seq(ToSet(refusal.body) \cup {Http(2), Http(refusal.status)})
           /\ \A piece \in ToSet(refusal.body) :
                 \E n \in 1 .. Len(refusal.body) : refusal.body[n] = piece
<1> DEFINE body == refusal.body
<1>1. PICK n \in 0 .. 2 : body \in [1 .. n -> BodyPieces]
  BY DEF Refusals, BoundedSeq, SeqOf
<1>2. body \in Seq(BodyPieces) /\ DOMAIN body = 1 .. Len(body) /\ Len(body) \in Nat
  BY <1>1
<1> HIDE DEF body
<1>3. /\ body \in Seq(ToSet(body))
      /\ \A piece \in ToSet(body) : \E i \in 1 .. Len(body) : body[i] = piece
  BY <1>2 DEF ToSet
<1>4. ToSet(body) \subseteq ToSet(body) \cup {Http(2), Http(refusal.status)}
  OBVIOUS
<1>5. body \in Seq(ToSet(body) \cup {Http(2), Http(refusal.status)})
  BY <1>3, <1>4
<1> QED
  BY <1>2, <1>3, <1>5 DEF body

\* upstream_message comes by the status of every refusal, and classifies a text
\* that holds the refusal's body.
LEMMA MessageOfRefusal ==
    ASSUME NEW refusal \in Refusals, NEW error \in ErrorsOf(refusal)
    PROVE  \E text \in Seq(ToSet(refusal.body) \cup {Http(2), Http(refusal.status)}) :
              /\ UpstreamMessage(error) = Classified(refusal.status, text)
              /\ \A piece \in ToSet(refusal.body) : \E n \in 1 .. Len(text) : text[n] = piece
<1> DEFINE status == refusal.status
           body == refusal.body
           S == ToSet(body) \cup {Http(2), Http(status)}
           rendered == <<Http(status)>> \o body
           text == RenderChain(error)
<1>1. status \in Statuses /\ status \in 100 .. 599 /\ status # 0
  <2>1. status \in Statuses
    BY DEF Refusals
  <2> HIDE DEF status
  <2>2. status \in 100 .. 599
    BY <2>1, StatusesAssumption
  <2> QED
    BY <2>1, <2>2
<1>2. refusal # NoAnswer
  BY <1>1 DEF NoAnswer
<1>3. /\ body \in Seq(S) /\ Len(body) \in Nat
      /\ \A piece \in ToSet(body) : \E i \in 1 .. Len(body) : body[i] = piece
  BY RefusalBody
<1>4. <<>> \in Seq(S) /\ body \in Seq(S) /\ Len(body) \in Nat
  BY <1>3
<1>5. PICK front \in {<<>>, <<Http(2)>>} :
         \/ error = [typed |-> <<status>>, chain |-> <<front, body>>]
         \/ error = [typed |-> <<>>, chain |-> <<front \o rendered, rendered>>]
  BY <1>2 DEF ErrorsOf
<1> HIDE DEF status, body, S, text
<1>6. Http(status) \in S /\ Http(2) \in S
  BY DEF S
<1>7. /\ front \in Seq(S) /\ rendered \in Seq(S) /\ front \o rendered \in Seq(S)
  <2>1. <<>> \in Seq(S) /\ <<Http(2)>> \in Seq(S) /\ <<Http(status)>> \in Seq(S)
    BY <1>6
  <2>2. front \in Seq(S)
    BY <2>1
  <2>3. rendered \in Seq(S)
    BY <1>4, <2>1
  <2> QED
    BY <2>2, <2>3
<1>8. CASE error = [typed |-> <<status>>, chain |-> <<front, body>>]
  <2>1. error.chain = <<front, body>> /\ error.typed = <<status>>
    BY <1>8
  <2>2. text = IF front = body THEN front ELSE front \o body
    BY <1>4, <1>7, <2>1, ChainOfTwo DEF text
  <2>3. text \in Seq(S)
    BY <1>4, <1>7, <2>2
  <2>4. \A i \in 1 .. Len(body) : \E j \in 1 .. Len(text) : text[j] = body[i]
    <3>1. CASE front = body
      BY <1>4, <2>2, <3>1
    <3>2. CASE front # body
      <4> SUFFICES ASSUME NEW i \in 1 .. Len(body)
                   PROVE  \E j \in 1 .. Len(text) : text[j] = body[i]
        OBVIOUS
      <4>1. text = front \o body
        BY <2>2, <3>2
      <4>2. Len(front) + i \in 1 .. Len(text) /\ text[Len(front) + i] = body[i]
        BY <1>4, <1>7, <4>1
      <4> QED
        BY <4>2
    <3> QED
      BY <3>1, <3>2
  <2>5. PICK R : StatusFromText(text) \in Seq(R)
    BY <2>3, StatusSequence
  <2>6. RecoveredStatus(error) # <<>> /\ Head(RecoveredStatus(error)) = status
    <3>1. RecoveredStatus(error) = <<status>> \o StatusFromText(text)
      BY <2>1 DEF RecoveredStatus, text
    <3> QED
      BY <2>5, <3>1
  <2>7. UpstreamMessage(error) = Classified(status, text)
    BY <2>6 DEF UpstreamMessage, text
  <2> QED
    BY <1>3, <2>3, <2>4, <2>7 DEF S, status, body
<1>9. CASE error = [typed |-> <<>>, chain |-> <<front \o rendered, rendered>>]
  <2>1. error.chain = <<front \o rendered, rendered>> /\ error.typed = <<>>
    BY <1>9
  <2>2. text = IF front \o rendered = rendered THEN front \o rendered
               ELSE (front \o rendered) \o rendered
    <3> DEFINE begin == front \o rendered
    <3> HIDE DEF begin, rendered
    <3>1. begin \in Seq(S) /\ rendered \in Seq(S) /\ error.chain = <<begin, rendered>>
      BY <1>7, <2>1 DEF begin
    <3>2. RenderChain(error) = IF begin = rendered THEN begin ELSE begin \o rendered
      BY <3>1, ChainOfTwo
    <3> QED
      BY <3>2 DEF begin, text
  <2>3. text \in Seq(S)
    BY <1>7, <2>2
  <2>4. /\ Len(front) + 1 \in 1 .. Len(text) /\ text[Len(front) + 1] = Http(status)
        /\ \A m \in 1 .. Len(front) : text[m] = Http(2)
        /\ \A i \in 1 .. Len(body) : \E j \in 1 .. Len(text) : text[j] = body[i]
    <3> DEFINE begin == front \o rendered
    <3>1. /\ Len(begin) = Len(front) + 1 + Len(body) /\ Len(front) \in Nat
          /\ begin[Len(front) + 1] = Http(status)
          /\ \A m \in 1 .. Len(front) : begin[m] = Http(2)
          /\ \A i \in 1 .. Len(body) : begin[Len(front) + 1 + i] = body[i]
      BY <1>4, <1>6, <1>7
    <3> HIDE DEF begin, rendered
    <3>2. /\ Len(begin) <= Len(text) /\ Len(text) \in Nat
          /\ \A i \in 1 .. Len(begin) : text[i] = begin[i]
      <4>1. /\ begin \in Seq(S) /\ rendered \in Seq(S)
            /\ text = begin \/ text = begin \o rendered
        BY <1>7, <2>2 DEF begin
      <4> QED
        BY <4>1
    <3>3. /\ Len(front) + 1 \in 1 .. Len(begin)
          /\ \A i \in 1 .. Len(front) : i \in 1 .. Len(begin)
          /\ \A i \in 1 .. Len(body) : Len(front) + 1 + i \in 1 .. Len(begin)
      BY <1>4, <3>1
    <3>4. \A i \in 1 .. Len(begin) : i \in 1 .. Len(text)
      BY <1>4, <3>1, <3>2
    <3>5. \A i \in 1 .. Len(body) : \E j \in 1 .. Len(text) : text[j] = body[i]
      <4> SUFFICES ASSUME NEW i \in 1 .. Len(body)
                   PROVE  \E j \in 1 .. Len(text) : text[j] = body[i]
        OBVIOUS
      <4>1. /\ Len(front) + 1 + i \in 1 .. Len(text)
            /\ text[Len(front) + 1 + i] = body[i]
        BY <3>1, <3>2, <3>3, <3>4
      <4> QED
        BY <4>1
    <3> QED
      BY <3>1, <3>2, <3>3, <3>4, <3>5
  <2>5. StatusFromText(text) # <<>> /\ Head(StatusFromText(text)) = status
    <3> DEFINE first == Len(front) + 1
    <3>1. first \in 1 .. Len(text) /\ text[first] = Http(status)
      BY <2>4
    <3>2. \A m \in 1 .. first - 1 : text[m] = Http(2)
      BY <1>7, <2>4
    <3> HIDE DEF first
    <3> QED
      BY <1>1, <2>3, <3>1, <3>2, FirstStatus
  <2>6. RecoveredStatus(error) = StatusFromText(text)
    <3>1. RecoveredStatus(error) = <<>> \o StatusFromText(text)
      BY <2>1 DEF RecoveredStatus, text
    <3>2. PICK R : StatusFromText(text) \in Seq(R)
      BY <2>3, StatusSequence
    <3> QED
      BY <3>1, <3>2
  <2>7. UpstreamMessage(error) = Classified(status, text)
    BY <2>5, <2>6 DEF UpstreamMessage, text
  <2> QED
    BY <1>3, <2>3, <2>4, <2>7 DEF S, status, body
<1> QED
  BY <1>5, <1>8, <1>9

\* ... and does not take the protocol's name for one.
LEMMA MessageOfNoAnswer ==
    ASSUME NEW error \in ErrorsOf(NoAnswer)
    PROVE  UpstreamMessage(error) = [is |-> "Unclassified"]
<1> DEFINE text == <<Http(2)>>
           K == {piece \in ToSet(text) : piece.is = "http" /\ piece.code \in 100 .. 599}
<1>1. error = [typed |-> <<>>, chain |-> <<text>>]
  BY DEF ErrorsOf
<1>2. text \in Seq({Http(2)}) /\ Len(text) = 1 /\ text[1] = Http(2)
  OBVIOUS
<1>3. \A m \in 1 .. Len(text) : text[m] \notin K
  BY DEF Http
<1> HIDE DEF text
<1>4. RenderChain(error) = text
  BY <1>1, <1>2, ChainOfOne
<1>5. StatusFromText(text) = [m \in DOMAIN Kept(text, K) |-> Kept(text, K)[m].code]
  BY DEF StatusFromText
<1> HIDE DEF K
<1>6. Kept(text, K) = <<>>
  BY <1>2, <1>3, KeptAmong
<1>7. StatusFromText(text) = <<>>
  BY <1>5, <1>6
<1>8. RecoveredStatus(error) = <<>>
  BY <1>1, <1>4, <1>7 DEF RecoveredStatus
<1> QED
  BY <1>8 DEF UpstreamMessage

\* What a refusal is told as, if it is told as what it is.
LEMMA ToldOf ==
    ASSUME NEW refusal \in Refusals, NEW text, NEW as,
           text \in Seq(ToSet(refusal.body) \cup {Http(2), Http(refusal.status)}),
           as = Classified(refusal.status, text),
           \A piece \in ToSet(refusal.body) : \E n \in 1 .. Len(text) : text[n] = piece,
           config.project \in Seq(STRING), IsProject(config.project)
    PROVE  /\ StatusShown(as) = refusal.status
           /\ refusal.status = 403 =>
                 \A api \in Apis, word \in {config.project, config.project \o <<".">>} :
                    refusal.body = <<Disabled(word), Console(api)>> =>
                       as = [is |-> "ServiceDisabled", api |-> api, project |-> config.project]
<1>1. StatusShown(as) = refusal.status
  BY StatusOfClassified
<1>2. ASSUME refusal.status = 403,
             NEW api \in Apis, NEW word \in {config.project, config.project \o <<".">>},
             refusal.body = <<Disabled(word), Console(api)>>
      PROVE  as = [is |-> "ServiceDisabled", api |-> api, project |-> config.project]
  <2>1. ToSet(refusal.body) = {Disabled(word), Console(api)}
    BY <1>2 DEF ToSet
  <2> DEFINE T == ToSet(refusal.body) \cup {Http(2), Http(refusal.status)}
  <2>6. text \in Seq(T)
    OBVIOUS
  <2>2. T = {Disabled(word), Console(api), Http(403), Http(2)}
    BY <1>2, <2>1
  <2> HIDE DEF T
  <2>3. Disabled(word) \in ToSet(text) /\ Console(api) \in ToSet(text)
    <3>1. DOMAIN text = 1 .. Len(text)
      OBVIOUS
    <3> QED
      BY <2>1, <3>1 DEF ToSet
  <2>4. as = Classified(403, text)
    BY <1>2
  <2>5. Classified(403, text) = RemediationFor(api, config.project)
    <3>1. Trimmed(word) = config.project /\ AcceptProjectId(config.project)
      <4>1. /\ AcceptProjectId(config.project)
            /\ Trimmed(config.project) = config.project
            /\ Trimmed(config.project \o <<".">>) = config.project
        BY ProjectAccepted, Zenon
      <4>2. word = config.project \/ word = config.project \o <<".">>
        BY <1>2, Zenon
      <4> QED
        BY <4>1, <4>2, Zenon
    <3> QED
      BY <1>2, <2>2, <2>3, <2>6, <3>1, Remediation
  <2> QED
    BY <2>4, <2>5 DEF RemediationFor
<1> QED
  BY <1>1, <1>2

\* A project that is resolved is a text that may be one.
LEMMA ResolvedProject ==
    ASSUME NEW setting \in Settings, NEW project \in Resolved(setting.sources)
    PROVE  project \in Seq(STRING) /\ IsProject(project)
<1> DEFINE values == ProjectValues(setting.sources)
           K == {value \in ToSet(values) : NonBlank(value)}
           found == Kept(values, K)
<1>1. values \in Seq(ToSet(values))
  BY DEF ProjectValues, ToSet
<1>2. found = ResolveQuotaProject(setting.sources)
  BY DEF ResolveQuotaProject
<1>3. /\ found # <<>> /\ IsProject(Head(found).word) /\ project = Head(found).word
  BY <1>2 DEF Resolved
<1> HIDE DEF values
<1>4. found \in Seq(ToSet(values)) /\ \A i \in 1 .. Len(found) : found[i] \in K
  <2> HIDE DEF K
  <2> QED
    BY <1>1, KeptAmong
<1> HIDE DEF found
<1>5. Head(found) \in K
  BY <1>3, <1>4
<1>6. Head(found) \in ToSet(values) /\ Head(found).is = "set"
  BY <1>5 DEF NonBlank
<1>7. Head(found).word \in Seq(STRING)
  BY <1>6, SettingsAssumption DEF values
<1> QED
  BY <1>3, <1>7

-----------------------------------------------------------------------------
(* From the command line to the fan-out *)

\* A fan-out that has not begun.
Begun ==
    /\ purpose \in {"refresh", "snapshot", "partial"}
    /\ endpoints \in SUBSET Services
    /\ \E S \in SUBSET endpoints : served \in Fallback(S)
    /\ permits = Permits
    /\ task = [s \in endpoints |-> Waiting]
    /\ joined = {}
    /\ services = <<>>
    /\ result = "building"

\* It satisfies the invariant: nothing is joined and every permit is left.
LEMMA BegunInv == Begun => RefreshInv
<1> SUFFICES ASSUME Begun PROVE RefreshInv
  OBVIOUS
<1>1. PICK S \in SUBSET endpoints : served \in Fallback(S)
  BY DEF Begun
<1>2. /\ endpoints \subseteq Services /\ permits = Permits /\ joined = {}
      /\ task = [s \in endpoints |-> Waiting]
      /\ services = <<>> /\ services \in Seq(ServiceCatalogs) /\ Len(services) = 0
      /\ result = "building"
  BY DEF Begun
<1>3. /\ served \in Seq(ServiceCatalogs) /\ Increasing(served)
      /\ \A i \in 1 .. Len(served) : served[i].source = "snapshot" /\ served[i].tools = <<>>
  BY <1>1, <1>2, FallbackCatalog
<1>4. Len(served) <= Cardinality(Services)
  BY <1>3, IncreasingDistinct, DistinctLength
<1>5. TypeOK
  <2>1. Len(services) <= Cardinality(Services)
    BY <1>2, ServicesFinite
  <2>2. task \in [endpoints -> Tasks]
    BY <1>2, TaskKinds
  <2> QED
    BY <1>2, <1>3, <1>4, <2>1, <2>2 DEF TypeOK, Begun
<1>6. JoinInv /\ ServedInv
  BY <1>2, <1>3 DEF JoinInv, ServedInv
<1>7. BuiltInv
  BY <1>2 DEF BuiltInv, Distinct
<1>8. PermitsAccountedFor
  <2>1. {s \in endpoints : task[s].at = "fetching"} = {}
    BY <1>2, TaskKinds
  <2>2. Cardinality({s \in endpoints : task[s].at = "fetching"}) = 0
    BY <2>1, FS_EmptySet
  <2> QED
    BY <1>2, <2>2 DEF PermitsAccountedFor
<1>9. FailureStaysContained /\ OrderLeavesNoTrace
  BY <1>2 DEF FailureStaysContained, OrderLeavesNoTrace
<1> QED
  BY <1>5, <1>6, <1>7, <1>8, <1>9 DEF RefreshInv

\* No service is exposed and none is listed as the process begins.
LEMMA StartupInitInv == StartupInit => IndInv
<1> SUFFICES ASSUME StartupInit PROVE IndInv
  OBVIOUS
<1>1. Init /\ ListingInit
  BY DEF StartupInit
<1>2. Begun
  <2>1. PICK S \in SUBSET endpoints : served \in Fallback(S)
    BY <1>1 DEF Init
  <2> QED
    BY <1>1, <2>1 DEF Init, Begun
<1>3. HandoverInv
  <2>1. ASSUME endpoints = {} PROVE served = <<>>
    <3>1. PICK S \in SUBSET endpoints : served \in Fallback(S)
      BY <1>1 DEF Init
    <3>2. S = {}
      BY <2>1
    <3>3. Cardinality(S) = 0
      BY <3>2, FS_EmptySet
    <3>4. served \in [1 .. 0 -> {}]
      BY <3>1, <3>2, <3>3 DEF Fallback
    <3> QED
      BY <3>4
  <2>2. phase # "refresh" => endpoints = {}
    BY DEF StartupInit
  <2> QED
    BY <1>1, <2>1, <2>2 DEF Init, HandoverInv
<1>4. told = Nothing /\ requested = <<>> /\ (phase = "configure" => config \in Settings)
      /\ phase # "list"
  BY <1>1 DEF StartupInit, ListingInit
<1>5. ToldInv
  BY <1>4 DEF ToldInv, ProjectInv, RemediationNamesTheProject, UpstreamStatusDecides
<1> QED
  BY <1>1, <1>2, <1>3, <1>5, BegunInv, ListingInitInv DEF IndInv

\* A step of the one half leaves the other as it was.
LEMMA RefreshUnchanged ==
    ASSUME RefreshInv, UNCHANGED vars
    PROVE  RefreshInv'
<1>1. UNCHANGED <<purpose, endpoints, served, permits, task, joined, services, result>>
  BY DEF vars
<1>2. TypeOK' /\ PermitsAccountedFor'
  BY <1>1 DEF RefreshInv, TypeOK, PermitsAccountedFor
<1> QED
  BY <1>1, <1>2, TaskStep DEF RefreshInv

LEMMA ListingUnchanged ==
    ASSUME ListingInv, UNCHANGED listingVars
    PROVE  ListingInv'
BY DEF listingVars, ListingInv, ListingType, CursorInv, CollectedInv, LimitIsExact, NoPageTwice

\* Nothing told is nothing told wrongly.
LEMMA NothingTold ==
    ASSUME ProjectInv', told' = Nothing
    PROVE  ToldInv'
BY DEF ToldInv, RemediationNamesTheProject, UpstreamStatusDecides

\* What was told stays as right as it was.
LEMMA ToldUnchanged ==
    ASSUME ToldInv, UNCHANGED <<phase, config, told, at, requested>>
    PROVE  ToldInv'
BY DEF ToldInv, ProjectInv, RemediationNamesTheProject, UpstreamStatusDecides

\* Config::resolve goes on with a project that may be one.
LEMMA ConfigureTold ==
    ASSUME IndInv, Configure
    PROVE  ToldInv'
<1>1. told = Nothing /\ told' = told /\ config \in Settings
  BY DEF IndInv, ToldInv, ProjectInv, Configure
<1>2. \/ phase' = "exited"
      \/ /\ phase' = "list"
         /\ config'.project \in Resolved(config.sources)
  BY DEF Configure
<1>3. ProjectInv'
  BY <1>1, <1>2, ResolvedProject DEF ProjectInv
<1> QED
  BY <1>1, <1>3, NothingTold

\* The refusal of a call names the status and the project.
LEMMA CallRefusedTold ==
    ASSUME IndInv, CallRefused
    PROVE  ToldInv'
<1>1. /\ phase = "list" /\ requested = <<>>
      /\ UNCHANGED <<phase, config, at, requested>>
  BY DEF CallRefused, listingVars
<1>2. PICK refusal \in Refusals \cup {NoAnswer} : \E error \in ErrorsOf(refusal) :
         told' = [is |-> "told", refusal |-> refusal, as |-> UpstreamMessage(error)]
  BY DEF CallRefused
<1>3. PICK error \in ErrorsOf(refusal) :
         told' = [is |-> "told", refusal |-> refusal, as |-> UpstreamMessage(error)]
  BY <1>2
<1>4. config.project \in Seq(STRING) /\ IsProject(config.project)
  BY <1>1 DEF IndInv, ToldInv, ProjectInv
<1>5. ProjectInv'
  BY <1>1, <1>4 DEF ProjectInv
<1>6. CASE refusal \in Refusals
  <2>1. PICK text \in Seq(ToSet(refusal.body) \cup {Http(2), Http(refusal.status)}) :
           /\ UpstreamMessage(error) = Classified(refusal.status, text)
           /\ \A piece \in ToSet(refusal.body) : \E n \in 1 .. Len(text) : text[n] = piece
    BY <1>6, MessageOfRefusal
  <2>2. told'.refusal = refusal /\ told'.as = Classified(refusal.status, text)
    BY <1>3, <2>1
  <2> QED
    BY <1>1, <1>4, <1>5, <1>6, <2>1, <2>2, ToldOf
       DEF ToldInv, RemediationNamesTheProject, UpstreamStatusDecides
<1>7. CASE refusal = NoAnswer
  <2>1. told'.refusal.status = 0 /\ told'.as = [is |-> "Unclassified"]
    BY <1>3, <1>7, MessageOfNoAnswer DEF NoAnswer
  <2>2. UpstreamStatusDecides'
    BY <2>1 DEF UpstreamStatusDecides, StatusShown, NoAnswer
  <2>3. RemediationNamesTheProject'
    BY <2>1 DEF RemediationNamesTheProject
  <2> QED
    BY <1>5, <2>2, <2>3 DEF ToldInv
<1> QED
  BY <1>3, <1>6, <1>7

\* So does that of the listing, whose status is at hand.
LEMMA ListingRefusedTold ==
    ASSUME IndInv, phase = "list", ListingRefused, UNCHANGED phase
    PROVE  ToldInv'
<1>1. PICK refusal \in Refusals :
         told' = [is |-> "told", refusal |-> refusal,
                  as |-> Classified(refusal.status, refusal.body)]
  BY DEF ListingRefused
<1>2. at = "request" /\ Len(requested) = 1 /\ UNCHANGED <<phase, config, at, requested>>
  BY DEF ListingRefused, Fail
<1>3. config.project \in Seq(STRING) /\ IsProject(config.project)
  BY <1>2 DEF IndInv, ToldInv, ProjectInv
<1>4. ProjectInv'
  BY <1>2, <1>3 DEF ProjectInv
<1>5. /\ refusal.body \in Seq(ToSet(refusal.body) \cup {Http(2), Http(refusal.status)})
      /\ \A piece \in ToSet(refusal.body) :
            \E n \in 1 .. Len(refusal.body) : refusal.body[n] = piece
  BY RefusalBody
<1>6. told'.refusal = refusal /\ told'.as = Classified(refusal.status, refusal.body)
  BY <1>1
<1> QED
  BY <1>2, <1>3, <1>4, <1>5, <1>6, ToldOf
     DEF ToldInv, RemediationNamesTheProject, UpstreamStatusDecides

\* A step of the listing that is not refused: from the second page on, nothing is
\* told any more.
LEMMA ListingTold ==
    ASSUME IndInv, phase = "list", ListingNext, UNCHANGED phase, told' = Nothing,
           config' = IF at = "request" /\ at' = "apply"
                        THEN [config EXCEPT !.project = <<>>] ELSE config
    PROVE  ToldInv'
<1>1. ListingType /\ CursorInv /\ ProjectInv
  BY DEF IndInv, ListingInv, ToldInv
<1>2. CASE Apply
  <2>1. /\ at = "apply" /\ listing = "running" /\ at' = "request" /\ config' = config
        /\ requested \in Seq(Tokens \cup {NoToken}) /\ pageToken \in Tokens \cup {NoToken}
        /\ Len(requested) <= MaxPages
    BY <1>1, <1>2 DEF Apply, ListingType, CursorInv
  <2>2. requested' = Append(requested, pageToken)
    BY <1>1, <1>2, <2>1 DEF Apply, ListingType, CursorInv
  <2>3. Len(requested') = 1 => requested = <<>>
    BY <2>1, <2>2
  <2>4. requested' # <<>>
    BY <2>1, <2>2
  <2> QED
    BY <1>1, <2>1, <2>3, <2>4, NothingTold DEF ProjectInv
<1>3. CASE Fail
  BY <1>1, <1>3, NothingTold DEF Fail, ProjectInv
<1>4. ASSUME NEW names \in SUBSET Apis, NEW next \in Tokens \cup {NoToken}, Page(names, next)
      PROVE  ToldInv'
  <2>1. /\ at' = "apply" /\ requested' = requested
        /\ Len(requested) = pages + 1 /\ pages \in Nat
    BY <1>1, <1>4 DEF Page, ListingType, CursorInv
  <2>2. requested' # <<>>
    BY <2>1
  <2> QED
    BY <2>1, <2>2, NothingTold DEF ProjectInv
<1> QED
  BY <1>2, <1>3, <1>4 DEF ListingNext

\* The listing ends and the refresh begins, each from its beginning.
LEMMA NarrowInv ==
    ASSUME IndInv, Narrow
    PROVE  IndInv'
<1>1. /\ phase = "list" /\ phase' = "refresh"
      /\ endpoints' = Selected
      /\ \E S \in SUBSET Selected : served' \in Fallback(S)
      /\ task' = [s \in Selected |-> Waiting]
      /\ ForgetListing
      /\ UNCHANGED <<purpose, permits, joined, services, result>>
  BY DEF Narrow
<1>2. /\ joined = {} /\ services = <<>> /\ permits = Permits /\ result = "building"
      /\ purpose \in {"refresh", "snapshot", "partial"}
  BY <1>1 DEF IndInv, HandoverInv, RefreshInv, TypeOK
<1>3. Selected \in SUBSET Services
  BY DEF Selected
<1>4. Begun'
  BY <1>1, <1>2, <1>3 DEF Begun, Fallback
<1>5. ListingInit'
  BY <1>1 DEF ForgetListing, ListingInit
<1>6. Begun' => RefreshInv'
  BY BegunInv, PTL
<1>7. ListingInit' => ListingInv'
  BY ListingInitInv, PTL
<1>8. HandoverInv'
  BY <1>1 DEF HandoverInv
<1>9. ToldInv'
  <2>1. told' = Nothing
    BY DEF Narrow
  <2>2. ProjectInv'
    BY <1>1, <2>1 DEF ProjectInv
  <2> QED
    BY <2>1, <2>2, NothingTold
<1> QED
  BY <1>4, <1>5, <1>6, <1>7, <1>8, <1>9 DEF IndInv

\* A step of the listing, refused or not.
LEMMA ListEnabledInv ==
    ASSUME IndInv, ListEnabled
    PROVE  IndInv'
<1>1. /\ UNCHANGED <<phase, vars>>
      /\ ListingNext \/ Fail
  BY DEF ListEnabled, ListingRefused
<1>2. ListingInv'
  BY <1>1, ApplyInv, FailInv, PageInv DEF IndInv, ListingNext
<1>3. RefreshInv'
  BY <1>1, RefreshUnchanged DEF IndInv
<1>4. HandoverInv'
  BY <1>1 DEF IndInv, HandoverInv, vars
<1>5. ToldInv'
  BY <1>1, ListingTold, ListingRefusedTold DEF ListEnabled
<1> QED
  BY <1>2, <1>3, <1>4, <1>5 DEF IndInv

\* The inductive invariant is preserved by every step of a startup.
LEMMA Step ==
    ASSUME IndInv, [StartupNext]_startupVars
    PROVE  IndInv'
<1>1. ASSUME UNCHANGED <<listingVars, vars>>,
             phase' # "refresh" => phase # "refresh",
             ToldInv'
      PROVE  IndInv'
  <2>1. ListingInv' /\ RefreshInv'
    BY <1>1, ListingUnchanged, RefreshUnchanged DEF IndInv
  <2>2. HandoverInv'
    BY <1>1 DEF IndInv, HandoverInv, vars
  <2> QED
    BY <1>1, <2>1, <2>2 DEF IndInv
<1>2. CASE Configure
  <2>1. ToldInv'
    BY <1>2, ConfigureTold
  <2> QED
    BY <1>1, <1>2, <2>1 DEF Configure
<1>3. CASE CallRefused
  <2>1. ToldInv'
    BY <1>3, CallRefusedTold
  <2> QED
    BY <1>1, <1>3, <2>1 DEF CallRefused
<1>4. CASE UNCHANGED startupVars
  <2>1. ToldInv'
    BY <1>4, ToldUnchanged DEF startupVars, listingVars, IndInv
  <2> QED
    BY <1>1, <1>4, <2>1 DEF startupVars
<1>5. CASE FanOut(Next)
  <2>1. phase = "refresh" /\ Next /\ UNCHANGED <<phase, config, told, listingVars>>
    BY <1>5 DEF FanOut
  <2>2. ListingInv' /\ RefreshInv'
    BY <2>1, ListingUnchanged, RefreshStep DEF IndInv
  <2>3. HandoverInv'
    BY <2>1 DEF HandoverInv
  <2>4. ToldInv'
    BY <2>1, ToldUnchanged DEF listingVars, IndInv
  <2> QED
    BY <2>2, <2>3, <2>4 DEF IndInv
<1> QED
  BY <1>2, <1>3, <1>4, <1>5, NarrowInv, ListEnabledInv DEF StartupNext, StartupStep

-----------------------------------------------------------------------------
(* Theorems *)

\* IndInv holds throughout a startup.
THEOREM Invariance == StartupSpec => []IndInv
<1>1. IndInv /\ [StartupNext]_startupVars => IndInv'
  BY Step
<1> QED
  BY StartupInitInv, <1>1, PTL DEF StartupSpec

\* Every state of the fan-out is of its type: no more permits are left than there
\* are, no service is joined that is not exposed, and no catalog is longer than
\* the registry.
THEOREM TypeCorrectness == StartupSpec => []TypeOK
<1>1. IndInv => TypeOK
  BY DEF IndInv, RefreshInv
<1> QED
  BY Invariance, <1>1, PTL

\* At most MaxPages pages are requested, and the limit is reported only when one
\* more was on offer.
THEOREM PageLimitIsExact == StartupSpec => []LimitIsExact
<1>1. IndInv => LimitIsExact
  BY DEF IndInv, ListingInv
<1> QED
  BY Invariance, <1>1, PTL

\* No page of the listing is requested twice, whatever tokens are handed out.
THEOREM PagesAreNew == StartupSpec => []NoPageTwice
<1>1. IndInv => NoPageTwice
  BY DEF IndInv, ListingInv
<1> QED
  BY Invariance, <1>1, PTL

\* No permit of the fan-out is lost, and no more upstreams are talked to at once
\* than there are permits, however the fetches end.
THEOREM PermitsAreConserved == StartupSpec => []PermitsAccountedFor
<1>1. IndInv => PermitsAccountedFor
  BY DEF IndInv, RefreshInv
<1> QED
  BY Invariance, <1>1, PTL

\* A refresh is given up only over a listing that repeats a name.
THEOREM OneFailureIsNotAll == StartupSpec => []FailureStaysContained
<1>1. IndInv => FailureStaysContained
  BY DEF IndInv, RefreshInv
<1> QED
  BY Invariance, <1>1, PTL

\* The catalog that lands does not depend on the order in which tasks ended.
THEOREM CatalogIsDetermined == StartupSpec => []OrderLeavesNoTrace
<1>1. IndInv => OrderLeavesNoTrace
  BY DEF IndInv, RefreshInv
<1> QED
  BY Invariance, <1>1, PTL

\* A service whose upstream failed is served by the refresh as it was before.
THEOREM FailedServicesStay == StartupSpec => FailedServiceIsKept
<1>1. IndInv /\ [StartupNext]_startupVars =>
         [result' = "swapped" =>
             \A s \in endpoints :
                task[s] = Failed /\ result = "building" => ServiceOf(served', s) = Stale(s)]_vars
  <2> SUFFICES ASSUME IndInv, [StartupNext]_startupVars, ~ UNCHANGED vars,
                      result' = "swapped", result = "building",
                      NEW s \in endpoints, task[s] = Failed
               PROVE  ServiceOf(served', s) = Stale(s)
    BY Zenon
  <2>1. FanOut(Next)
    BY DEF StartupNext, StartupStep, Configure, ListEnabled, ListingRefused, Narrow,
           CallRefused, startupVars, vars
  <2>2. Finish
    BY <2>1 DEF FanOut, Next, Progress, Acquire, TimeOut, Join, Tick, Upstream, Answer,
                Refuse, Panic, End
  <2>3. ServiceOf(served', s) = EntriesOf(services, s)
    BY <2>2, FinishSortedInv DEF IndInv
  <2>4. EntriesOf(services, s) = Contribution(s)
    BY <2>2 DEF IndInv, RefreshInv, BuiltInv, Finish
  <2>5. Contribution(s) = Stale(s)
    BY TaskKinds DEF Contribution
  <2> QED
    BY <2>3, <2>4, <2>5
<1> QED
  BY <1>1, Invariance, PTL DEF StartupSpec, FailedServiceIsKept

\* Enablement hides a service only when the listing was read to its last page and
\* the service's API was on none of them.
THEOREM PrunedOnlyByAll == StartupSpec => PrunedByWholeListing
<1>1. IndInv /\ [StartupNext]_startupVars =>
         [phase = "list" /\ phase' = "refresh" /\ config.only = {} =>
             \A s \in Services \ (config.exclude \cup endpoints') :
                /\ requested # <<>> /\ at = "apply" /\ pageToken = NoToken
                /\ ApiOf[s] \notin reported]_startupVars
  <2> SUFFICES ASSUME IndInv, [StartupNext]_startupVars,
                      phase = "list", phase' = "refresh", config.only = {},
                      NEW s \in Services \ (config.exclude \cup endpoints')
               PROVE  /\ requested # <<>> /\ at = "apply" /\ pageToken = NoToken
                      /\ ApiOf[s] \notin reported
    BY Zenon
  <2>1. Narrow
    BY DEF StartupNext, StartupStep, Configure, ListEnabled, ListingRefused, FanOut,
           CallRefused, startupVars
  <2>2. s \notin Selected /\ s \notin config.exclude
    BY <2>1 DEF Narrow
  <2>3. listing = "enabled" /\ ApiOf[s] \notin enabled
    BY <2>2 DEF Selected
  <2> QED
    BY <2>3 DEF IndInv, ListingInv, CollectedInv
<1> QED
  BY <1>1, Invariance, PTL DEF StartupSpec, PrunedByWholeListing

\* Whatever project serve accepts, and however a refusal came to the code, the
\* remediation names that project and the API that is disabled in it.
THEOREM RemediationIsExact == StartupSpec => []RemediationNamesTheProject
<1>1. IndInv => RemediationNamesTheProject
  BY DEF IndInv, ToldInv
<1> QED
  BY Invariance, <1>1, PTL

\* The status reported is the one the upstream answered with, also when it had to
\* be read out of a text that holds the protocol's name and says everything twice.
THEOREM StatusIsRecovered == StartupSpec => []UpstreamStatusDecides
<1>1. IndInv => UpstreamStatusDecides
  BY DEF IndInv, ToldInv
<1> QED
  BY Invariance, <1>1, PTL

-----------------------------------------------------------------------------
(* Refinement of CatalogPromise *)

ServicesOf(catalog) == {catalog[i].service : i \in 1 .. Len(catalog)}

\* Where no service is there twice, each has the source of its entry.
LEMMA SourceOfEntry ==
    ASSUME NEW catalog \in Seq(ServiceCatalogs), Distinct(catalog)
    PROVE  /\ SourceOf(catalog) = [s \in ServicesOf(catalog) |-> SourceOf(catalog)[s]]
           /\ \A i \in 1 .. Len(catalog) :
                 SourceOf(catalog)[catalog[i].service] = catalog[i].source
<1>1. ToSet(catalog) = {catalog[i] : i \in 1 .. Len(catalog)}
  BY DEF ToSet
<1>2. {entry.service : entry \in ToSet(catalog)} = ServicesOf(catalog)
  BY <1>1 DEF ServicesOf
<1>3. ASSUME NEW i \in 1 .. Len(catalog)
      PROVE  (CHOOSE entry \in ToSet(catalog) : entry.service = catalog[i].service) = catalog[i]
  <2>1. catalog[i] \in ToSet(catalog)
    BY <1>1
  <2>2. \A entry \in ToSet(catalog) : entry.service = catalog[i].service => entry = catalog[i]
    BY <1>1 DEF Distinct
  <2> QED
    BY <2>1, <2>2
<1>4. SourceOf(catalog) = [s \in ServicesOf(catalog) |->
         (CHOOSE entry \in ToSet(catalog) : entry.service = s).source]
  BY <1>2, Zenon DEF SourceOf
<1>5. ASSUME NEW i \in 1 .. Len(catalog)
      PROVE  SourceOf(catalog)[catalog[i].service] = catalog[i].source
  <2>1. catalog[i].service \in ServicesOf(catalog)
    BY DEF ServicesOf
  <2>2. SourceOf(catalog)[catalog[i].service] =
           (CHOOSE entry \in ToSet(catalog) : entry.service = catalog[i].service).source
    BY <1>4, <2>1, Zenon
  <2> QED
    BY <1>3, <2>2, Zenon
<1>6. SourceOf(catalog) = [s \in ServicesOf(catalog) |-> SourceOf(catalog)[s]]
  BY <1>4, Zenon
<1> QED
  BY <1>5, <1>6

\* Nothing is promised before the listing is over; the snapshot command is at its
\* fan-out already.
LEMMA PromiseInit == StartupInit => Promise!Init
<1> SUFFICES ASSUME StartupInit PROVE Promise!Init
  OBVIOUS
<1>1. /\ served = <<>> /\ result = "building"
      /\ task = [s \in endpoints |-> Waiting]
      /\ phase # "refresh" => endpoints = {}
      /\ phase = "refresh" => endpoints = Services
  <2>1. phase # "refresh" => served = <<>>
    BY StartupInitInv DEF IndInv, HandoverInv
  <2> QED
    BY <2>1 DEF StartupInit, Init
<1>2. SourceOf(served) = [s \in {} |-> "snapshot"]
  <2>1. ToSet(served) = {}
    BY <1>1 DEF ToSet
  <2> QED
    BY <2>1 DEF SourceOf
<1>3. \A s \in endpoints : AnswerOf(s) = "none"
  BY <1>1, TaskKinds DEF AnswerOf
<1>4. [s \in endpoints |-> IF result = "building" THEN AnswerOf(s) ELSE "none"]
         = [s \in endpoints |-> "none"]
  BY <1>3
<1> QED
  BY <1>1, <1>2, <1>4, Zenon
     DEF Promise!Init, Promise!Empty, Promise!Uniform, Promise!Unanswered

\* What the listing leaves exposed is served from the snapshot.
LEMMA NarrowBegins ==
    ASSUME IndInv, Narrow
    PROVE  Promise!Begin
<1>1. /\ phase = "list" /\ phase' = "refresh" /\ result' = result /\ result = "building"
      /\ endpoints' = Selected /\ Selected \in SUBSET Services
      /\ task' = [s \in Selected |-> Waiting]
  BY DEF Narrow, Selected, IndInv, HandoverInv
<1>2. PICK S \in SUBSET Selected : served' \in Fallback(S)
  BY DEF Narrow
<1>3. /\ served' \in Seq(ServiceCatalogs) /\ Distinct(served')
      /\ \A i \in 1 .. Len(served') : served'[i].source = "snapshot"
  <2>1. S \in SUBSET Services
    BY <1>1
  <2> QED
    BY <1>2, <2>1, FallbackCatalog, IncreasingDistinct
<1>4. \A i \in 1 .. Len(served') : served'[i].service \in S
  <2>1. served' \in [1 .. Cardinality(S) ->
                      {[service |-> s, source |-> "snapshot", tools |-> <<>>] : s \in S}]
    BY <1>2 DEF Fallback
  <2>2. Cardinality(S) \in Nat
    BY <1>1, ServicesFinite
  <2>3. Len(served') = Cardinality(S)
    BY <2>1, <2>2
  <2> QED
    BY <2>1, <2>3
<1>5. SourceOf(served') = [s \in ServicesOf(served') |-> "snapshot"]
  <2>1. \A s \in ServicesOf(served') : SourceOf(served')[s] = "snapshot"
    BY <1>3, SourceOfEntry DEF ServicesOf
  <2>2. SourceOf(served') = [s \in ServicesOf(served') |-> SourceOf(served')[s]]
    BY <1>3, SourceOfEntry
  <2> QED
    BY <2>1, <2>2
<1>6. ServicesOf(served') \in SUBSET endpoints'
  BY <1>1, <1>2, <1>4 DEF ServicesOf
<1>7. [s \in endpoints' |-> IF result' = "building" THEN AnswerOf(s)' ELSE "none"]
         = [s \in endpoints' |-> "none"]
  <2>1. \A s \in endpoints' : AnswerOf(s)' = "none"
    BY <1>1, TaskKinds DEF AnswerOf
  <2> QED
    BY <2>1
<1> QED
  BY <1>1, <1>5, <1>6, <1>7 DEF Promise!Begin, Promise!Uniform, Promise!Unanswered

\* A service contributes a live entry if its upstream listed what can be used, and
\* what is served of it if that failed.
LEMMA ContributionOf ==
    ASSUME RefreshInv, NEW s \in endpoints, task[s] \in Outcomes
    PROVE  /\ AnswerOf(s) \in Promise!Answers
           /\ AnswerOf(s) = "tools" =>
                 Contribution(s) # {} /\ \A entry \in Contribution(s) : entry.source = "live"
           /\ AnswerOf(s) = "failure" =>
                 /\ Contribution(s) # {} <=> s \in ServicesOf(served)
                 /\ \A entry \in Contribution(s) : entry.source = "snapshot"
           /\ AnswerOf(s) = "panic" => Contribution(s) = {}
<1>1. served \in Seq(ServiceCatalogs) /\ Distinct(served)
  BY IncreasingDistinct DEF RefreshInv, TypeOK, ServedInv
<1>2. ServiceOf(served, s) # {} <=> s \in ServicesOf(served)
  <2>1. ServiceOf(served, s) = EntriesOf(served, s)
    BY <1>1, ServiceOfDistinct
  <2> QED
    BY <2>1 DEF EntriesOf, ServicesOf
<1>3. /\ Stale(s) # {} <=> s \in ServicesOf(served)
      /\ \A entry \in Stale(s) : entry.source = "snapshot"
  <2>1. ASSUME NEW a \in ServiceOf(served, s)
        PROVE  [service |-> s, source |-> "snapshot", tools |-> a.tools] \in Stale(s)
    BY DEF Stale
  <2>2. \A entry \in Stale(s) : entry.source = "snapshot" /\ ServiceOf(served, s) # {}
    BY DEF Stale
  <2> QED
    BY <1>2, <2>1, <2>2
<1>4. CASE task[s].at = "listed" /\ WithinLimit(task[s].tools)
  <2>1. AnswerOf(s) = "tools"
    BY <1>4 DEF AnswerOf, Panicked
  <2>2. Contribution(s) = {[service |-> s, source |-> "live", tools |-> task[s].tools]}
    BY <1>4 DEF Contribution
  <2> QED
    BY <2>1, <2>2 DEF Promise!Answers
<1>5. CASE task[s] = Panicked
  <2>1. AnswerOf(s) = "panic" /\ Contribution(s) = {}
    BY <1>5 DEF AnswerOf, Contribution, Panicked
  <2> QED
    BY <2>1 DEF Promise!Answers
<1>6. CASE ~(task[s].at = "listed" /\ WithinLimit(task[s].tools)) /\ task[s] # Panicked
  <2>1. AnswerOf(s) = "failure" /\ Contribution(s) = Stale(s)
    BY <1>6 DEF AnswerOf, Contribution
  <2> QED
    BY <1>3, <2>1 DEF Promise!Answers
<1> QED
  BY <1>4, <1>5, <1>6

\* The catalog that lands is the one the answers call for.
LEMMA FinishLands ==
    ASSUME IndInv, phase = "refresh", phase' = phase, Finish,
           result' \in {"swapped", "written"}
    PROVE  Promise!Land
<1> DEFINE known == [s \in endpoints |-> AnswerOf(s)]
           fallback == SourceOf(served)
           D == {s \in DOMAIN known : \/ known[s] = "tools"
                                      \/ known[s] = "failure" /\ s \in DOMAIN fallback}
<1>1. /\ result = "building" /\ joined = endpoints /\ result' # "building"
      /\ endpoints' = endpoints /\ task' = task
      /\ RefreshInv
  BY DEF Finish, IndInv
<1>2. /\ served' \in Seq(ServiceCatalogs) /\ Distinct(served')
      /\ \A i \in 1 .. Len(served') : served'[i].service \in endpoints
      /\ \A s : EntriesOf(services, s) = EntriesOf(served', s)
  <2>1. RefreshInv' /\ \A s : EntriesOf(services, s) = ServiceOf(served', s)
    BY <1>1, FinishSortedInv
  <2>2. /\ served' \in Seq(ServiceCatalogs) /\ Increasing(served')
        /\ \A i \in 1 .. Len(served') : served'[i].service \in joined'
    BY <2>1 DEF RefreshInv, TypeOK, ServedInv, Increasing
  <2>3. Distinct(served') /\ joined' = endpoints
    BY <1>1, <2>2, IncreasingDistinct DEF Finish
  <2>4. \A s : ServiceOf(served', s) = EntriesOf(served', s)
    BY <2>2, <2>3, ServiceOfDistinct
  <2> QED
    BY <2>1, <2>2, <2>3, <2>4
<1>3. \A s \in endpoints : EntriesOf(served', s) = Contribution(s) /\ task[s] \in Outcomes
  BY <1>1, <1>2 DEF RefreshInv, BuiltInv, JoinInv
<1>4. \A s \in endpoints : EntriesOf(served', s) # {} <=> s \in ServicesOf(served')
  BY DEF EntriesOf, ServicesOf
<1>5. DOMAIN fallback = ServicesOf(served)
  <2>1. served \in Seq(ServiceCatalogs) /\ Distinct(served)
    BY <1>1, IncreasingDistinct DEF RefreshInv, TypeOK, ServedInv
  <2>2. SourceOf(served) = [s \in ServicesOf(served) |-> SourceOf(served)[s]]
    BY <2>1, SourceOfEntry
  <2> QED
    BY <2>2
<1>6. ServicesOf(served') = D
  <2>1. ASSUME NEW s \in endpoints PROVE s \in ServicesOf(served') <=> s \in D
    <3>1. s \in ServicesOf(served') <=> Contribution(s) # {}
      BY <1>3, <1>4
    <3>2. s \in D <=> \/ AnswerOf(s) = "tools"
                      \/ AnswerOf(s) = "failure" /\ s \in DOMAIN fallback
      OBVIOUS
    <3> HIDE DEF D
    <3>3. CASE AnswerOf(s) = "tools"
      <4>1. Contribution(s) # {}
        BY <1>1, <1>3, <3>3, ContributionOf
      <4> QED
        BY <3>1, <3>2, <3>3, <4>1, Zenon
    <3>4. CASE AnswerOf(s) = "failure"
      <4>1. Contribution(s) # {} <=> s \in ServicesOf(served)
        BY <1>1, <1>3, <3>4, ContributionOf
      <4> QED
        BY <1>5, <3>1, <3>2, <3>4, <4>1
    <3>5. CASE AnswerOf(s) = "panic"
      <4>1. Contribution(s) = {}
        BY <1>1, <1>3, <3>5, ContributionOf
      <4> QED
        BY <3>1, <3>2, <3>5, <4>1
    <3> QED
      BY <1>1, <1>3, <3>3, <3>4, <3>5, ContributionOf DEF Promise!Answers
  <2>2. ServicesOf(served') \subseteq endpoints
    BY <1>2 DEF ServicesOf
  <2> QED
    BY <2>1, <2>2
<1>7. \A s \in D : SourceOf(served')[s] = IF known[s] = "tools" THEN "live" ELSE "snapshot"
  <2> SUFFICES ASSUME NEW s \in D
               PROVE  SourceOf(served')[s] = IF known[s] = "tools" THEN "live" ELSE "snapshot"
    OBVIOUS
  <2>1. PICK i \in 1 .. Len(served') : served'[i].service = s
    BY <1>6 DEF ServicesOf
  <2>2. SourceOf(served')[s] = served'[i].source
    BY <1>2, <2>1, SourceOfEntry
  <2>3. served'[i] \in Contribution(s)
    BY <1>3, <2>1 DEF EntriesOf
  <2> QED
    BY <1>1, <1>3, <2>2, <2>3, ContributionOf DEF Promise!Answers
<1>8. SourceOf(served') = [s \in D |-> IF known[s] = "tools" THEN "live" ELSE "snapshot"]
  <2>1. SourceOf(served') = [s \in ServicesOf(served') |-> SourceOf(served')[s]]
    BY <1>2, SourceOfEntry
  <2> HIDE DEF D, known
  <2> QED
    BY <1>6, <1>7, <2>1
<1>9. SourceOf(served') = Promise!Built(fallback, known)
  <2> HIDE DEF known, fallback
  <2>1. Promise!Built(fallback, known)
           = [s \in D |-> IF known[s] = "tools" THEN "live" ELSE "snapshot"]
    BY Zenon DEF Promise!Built
  <2> QED
    BY <1>8, <2>1, Zenon
<1>10. \A s \in endpoints : known[s] # "none"
  BY <1>1, <1>3, ContributionOf DEF Promise!Answers
<1>11. [s \in endpoints |-> IF result = "building" THEN AnswerOf(s) ELSE "none"] = known
  BY <1>1
<1>12. [s \in endpoints' |-> IF result' = "building" THEN AnswerOf(s)' ELSE "none"]
         = [s \in endpoints |-> "none"]
  BY <1>1
<1> HIDE DEF known, fallback, D
<1>13. SourceOf(served') = Promise!Built(SourceOf(served), known)
  BY <1>9 DEF fallback
<1> QED
  BY <1>1, <1>10, <1>11, <1>12, <1>13 DEF Promise!Land, Promise!Over, Promise!Unanswered

\* One that is given up, or refused to be written, leaves what was there.
LEMMA FinishKeeps ==
    ASSUME phase = "refresh", phase' = phase, Finish, result' \in {"kept", "refused"}
    PROVE  Promise!Keep
<1>1. /\ result = "building" /\ result' # "building"
      /\ endpoints' = endpoints /\ served' = served
  BY DEF Finish, FinishRefresh, FinishSnapshot
<1>2. [s \in endpoints' |-> IF result' = "building" THEN AnswerOf(s)' ELSE "none"]
         = [s \in endpoints |-> "none"]
  BY <1>1
<1>3. SourceOf(served)' = SourceOf(served)
  BY <1>1
<1> QED
  BY <1>1, <1>2, <1>3 DEF Promise!Keep, Promise!Over, Promise!Unanswered

\* A task that ends is an answer.
LEMMA EndAnswers ==
    ASSUME IndInv, phase = "refresh", phase' = phase, result = "building",
           NEW t \in endpoints, NEW outcome \in Outcomes, End(t, outcome)
    PROVE  Promise!Answer
<1> DEFINE known == [s \in endpoints |-> IF result = "building" THEN AnswerOf(s) ELSE "none"]
           next == [s \in endpoints' |-> IF result' = "building" THEN AnswerOf(s)' ELSE "none"]
<1>1. /\ task[t].at = "fetching" /\ task' = [task EXCEPT ![t] = outcome]
      /\ UNCHANGED <<endpoints, served, result>>
      /\ task \in [endpoints -> Tasks]
  BY DEF End, IndInv, RefreshInv, TypeOK
<1>2. AnswerOf(t) = "none" /\ AnswerOf(t)' \in Promise!Answers
  <2>1. task[t] \notin Outcomes /\ task'[t] \in Outcomes
    BY <1>1, TaskKinds
  <2> QED
    BY <2>1 DEF AnswerOf, Promise!Answers
<1>3. \A s \in endpoints : s # t => AnswerOf(s)' = AnswerOf(s)
  <2>1. \A s \in endpoints : s # t => task'[s] = task[s]
    BY <1>1
  <2> QED
    BY <2>1 DEF AnswerOf
<1> DEFINE last == [s \in {t} |-> AnswerOf(t)']
<1>4. last \in [{t} -> Promise!Answers]
  BY <1>2
<1>5. next = [s \in endpoints |-> IF s \in {t} THEN last[s] ELSE known[s]]
  BY <1>1, <1>3
<1>6. \A s \in {t} : known[s] = "none"
  BY <1>2
<1>7. \E S \in SUBSET endpoints :
         /\ \A s \in S : known[s] = "none"
         /\ \E o \in [S -> Promise!Answers] :
               next = [s \in endpoints |-> IF s \in S THEN o[s] ELSE known[s]]
  <2> HIDE DEF known, next, last
  <2>1. {t} \in SUBSET endpoints
    OBVIOUS
  <2> QED
    BY <1>4, <1>5, <1>6, <2>1
<1>8. SourceOf(served)' = SourceOf(served)
  BY <1>1
<1>9. (IF phase # "refresh" THEN "startup"
       ELSE IF result = "building" THEN "refresh" ELSE "over") = "refresh"
  OBVIOUS
<1>10. (IF phase' # "refresh" THEN "startup"
        ELSE IF result' = "building" THEN "refresh" ELSE "over") = "refresh"
  BY <1>1
<1> QED
  BY <1>1, <1>7, <1>8, <1>9, <1>10, Zenon DEF Promise!Answer

\* Waiting, talking and joining are not promised to anyone.
LEMMA NothingPromised ==
    ASSUME UNCHANGED <<endpoints, served, result>>,
           phase' = phase \/ "refresh" \notin {phase, phase'},
           \/ result # "building"
           \/ \A s \in endpoints : AnswerOf(s)' = AnswerOf(s)
    PROVE  UNCHANGED Promise!vars
<1>1. [s \in endpoints' |-> IF result' = "building" THEN AnswerOf(s)' ELSE "none"]
         = [s \in endpoints |-> IF result = "building" THEN AnswerOf(s) ELSE "none"]
  <2>1. CASE result # "building"
    BY <2>1
  <2>2. CASE \A s \in endpoints : AnswerOf(s)' = AnswerOf(s)
    BY <2>2
  <2> QED
    BY <2>1, <2>2
<1>2. SourceOf(served)' = SourceOf(served)
  OBVIOUS
<1> QED
  BY <1>1, <1>2 DEF Promise!vars

\* Every step of the fan-out is one that CatalogPromise allows, or none.
LEMMA FanOutPromise ==
    ASSUME IndInv, FanOut(Next)
    PROVE  Promise!Next \/ UNCHANGED Promise!vars
<1>1. /\ phase = "refresh" /\ phase' = phase /\ Next
      /\ task \in [endpoints -> Tasks]
  BY DEF FanOut, IndInv, RefreshInv, TypeOK
<1>2. CASE Finish
  <2>1. result' \in {"swapped", "written", "kept", "refused"}
    BY <1>2 DEF Finish, FinishRefresh, FinishSnapshot
  <2> QED
    BY <1>1, <1>2, <2>1, FinishLands, FinishKeeps DEF Promise!Next
<1>3. ASSUME NEW t \in endpoints, NEW outcome \in Outcomes, End(t, outcome)
      PROVE  Promise!Next \/ UNCHANGED Promise!vars
  <2>1. CASE result = "building"
    BY <1>1, <1>3, <2>1, EndAnswers DEF Promise!Next
  <2>2. CASE result # "building"
    BY <1>1, <1>3, <2>2, NothingPromised DEF End
  <2> QED
    BY <2>1, <2>2
<1>4. ASSUME NEW t \in endpoints, Upstream(t) \/ TimeOut(t)
      PROVE  Promise!Next \/ UNCHANGED Promise!vars
  <2>1. PICK outcome \in Outcomes : End(t, outcome)
    BY <1>4, TaskKinds DEF Upstream, Answer, Refuse, Panic, TimeOut
  <2> QED
    BY <1>3, <2>1
<1>5. ASSUME NEW t \in endpoints, Acquire(t) PROVE UNCHANGED Promise!vars
  <2>1. /\ task[t] = Waiting /\ task' = [task EXCEPT ![t] = Talking(FetchTimeout)]
        /\ UNCHANGED <<endpoints, served, result>>
    BY <1>5 DEF Acquire
  <2>2. FetchTimeout \in 0 .. FetchTimeout
    OBVIOUS
  <2>3. task[t] \notin Outcomes /\ task'[t] \notin Outcomes
    BY <1>1, <2>1, <2>2, TaskKinds
  <2>4. \A s \in endpoints : AnswerOf(s)' = AnswerOf(s)
    <3>1. \A s \in endpoints : s # t => task'[s] = task[s]
      BY <1>1, <2>1
    <3> QED
      BY <2>3, <3>1 DEF AnswerOf
  <2> QED
    BY <1>1, <2>1, <2>4, NothingPromised
<1>6. ASSUME Tick PROVE UNCHANGED Promise!vars
  <2>1. /\ \A s \in endpoints : task[s].at = "fetching" => task[s].left > 0
        /\ task' = [s \in endpoints |->
              IF task[s].at = "fetching" THEN Talking(task[s].left - 1) ELSE task[s]]
        /\ UNCHANGED <<endpoints, served, result>>
    BY <1>6 DEF Tick
  <2>2. ASSUME NEW s \in endpoints PROVE AnswerOf(s)' = AnswerOf(s)
    <3>1. CASE task[s].at = "fetching"
      <4>1. task[s] \notin Outcomes
        BY <3>1, TaskKinds
      <4>2. task[s].left \in 0 .. FetchTimeout /\ task[s].left > 0
        BY <1>1, <2>1, <3>1, TaskKinds
      <4>3. task[s].left - 1 \in 0 .. FetchTimeout
        BY <4>2
      <4>4. task'[s] \notin Outcomes
        BY <2>1, <3>1, <4>3, TaskKinds
      <4> QED
        BY <4>1, <4>4 DEF AnswerOf
    <3>2. CASE task[s].at # "fetching"
      <4>1. task'[s] = task[s]
        BY <2>1, <3>2
      <4> QED
        BY <4>1 DEF AnswerOf
    <3> QED
      BY <3>1, <3>2
  <2> QED
    BY <1>1, <2>1, <2>2, NothingPromised
<1>7. ASSUME NEW t \in endpoints, Join(t) PROVE UNCHANGED Promise!vars
  <2>1. UNCHANGED <<task, endpoints, served, result>>
    BY <1>7 DEF Join
  <2>2. \A s \in endpoints : AnswerOf(s)' = AnswerOf(s)
    BY <2>1 DEF AnswerOf
  <2> QED
    BY <1>1, <2>1, <2>2, NothingPromised
<1> QED
  BY <1>1, <1>2, <1>4, <1>5, <1>6, <1>7 DEF Next, Progress

\* So is every step of a startup.
LEMMA PromiseStep ==
    IndInv /\ [StartupNext]_startupVars => [Promise!Next]_(Promise!vars)
<1> SUFFICES ASSUME IndInv, [StartupNext]_startupVars
             PROVE  Promise!Next \/ UNCHANGED Promise!vars
  BY Zenon
<1>1. CASE Narrow
  BY <1>1, NarrowBegins DEF Promise!Next
<1>2. ASSUME UNCHANGED vars, phase' = phase \/ "refresh" \notin {phase, phase'}
      PROVE  UNCHANGED Promise!vars
  <2>1. \A s \in endpoints : AnswerOf(s)' = AnswerOf(s)
    BY <1>2 DEF vars, AnswerOf
  <2> QED
    BY <1>2, <2>1, NothingPromised DEF vars
<1>3. Configure \/ ListEnabled \/ CallRefused \/ UNCHANGED startupVars =>
         UNCHANGED vars /\ (phase' = phase \/ "refresh" \notin {phase, phase'})
  BY DEF Configure, ListEnabled, CallRefused, startupVars
<1> QED
  BY <1>1, <1>2, <1>3, FanOutPromise DEF StartupNext, StartupStep

\* build_live and both its callers: whatever the permits, the timeouts and the
\* order of the joins, the catalog becomes what CatalogPromise says of the
\* answers, or stays; and it is replaced once at most.
THEOREM FanOutKeepsPromise == StartupSpec => KeepsCatalogPromise
BY PromiseInit, PromiseStep, Invariance, PTL
   DEF StartupSpec, KeepsCatalogPromise, Promise!Spec
================================================================================
