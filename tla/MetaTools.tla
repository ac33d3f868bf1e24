------------------------------ MODULE MetaTools ------------------------------
(****************************************************************************)
(* The surface a client sees, call_tool and list_tools of src/src/server.rs, *)
(* and how a name travels over it: a tool is found by search_tools, read     *)
(* with describe_tools and invoked with call, through the lookup of          *)
(* catalog.rs and the routing of proxy.rs, while a refresh may replace the   *)
(* catalog between any two requests.                                         *)
(*                                                                           *)
(* The search itself is CatalogSearch, which this module extends.            *)
(* ServeStartup has which catalog and which readiness a request sees, and    *)
(* UpstreamProxy what becomes of a call once it is routed.                   *)
(****************************************************************************)
EXTENDS CatalogSearch

CONSTANTS
    DefaultLimit,   \* DEFAULT_SEARCH_LIMIT
    Strays,         \* names nobody was told, some of them no names at all
    Absent          \* an argument that is missing or of the wrong type

ASSUME DefaultLimitAssumption == DefaultLimit \in Nat \ {0}

\* Catalog::validate refuses a name that two tools claim; no upstream gives a tool
\* the empty name.
ASSUME NamesAssumption ==
    \A cat \in Catalogs : \A i, j \in DOMAIN IndexOf(cat) :
       LET x == IndexOf(cat)[i]
           y == IndexOf(cat)[j]
       IN  /\ RawName(x.tool) # <<>>
           /\ i # j => cat[x.service].id # cat[y.service].id \/ RawName(x.tool) # RawName(y.tool)

VARIABLES
    expose,         \* ExposeMode, fixed for the process
    answer,         \* the reply the client is reading
    told            \* what it has been told is behind which name

surface == <<expose, answer, told>>

Separator == <<Underscore, Underscore>>

\* registry.rs: no service id contains the separator, nor begins or ends with
\* what separates the words of one.
ASSUME IdsAssumption ==
    /\ Underscore \in IdSeparators
    /\ \A cat \in Catalogs : \A s \in DOMAIN cat :
          LET id == cat[s].id
          IN  /\ id # <<>> /\ ~Includes(id, Separator)
              /\ Head(id) \notin IdSeparators /\ Last(id) \notin IdSeparators

NoAnswer == [is |-> "none"]

-----------------------------------------------------------------------------
(* Names *)

\* NamespacedTool::new: how the tool at a position of the index is addressed.
NamespacedName(i) == catalog[Index[i].service].id \o Separator \o RawName(Index[i].tool)

\* Where the separator stands first in a name, if it does.
Boundary(name) ==
    {at \in DOMAIN name : /\ Occurs(Separator, name, at)
                          /\ \A i \in 1 .. at - 1 : ~Occurs(Separator, name, i)}

\* Mutant: the boundary is the last separator.
BugSplit(name) ==
    {halves \in {[service |-> SubSeq(name, 1, at - 1),
                  tool |-> SubSeq(name, at + 2, Len(name))] :
                    at \in {at \in DOMAIN name : Occurs(Separator, name, at)
                              /\ \A i \in at + 1 .. Len(name) : ~Occurs(Separator, name, i)}} :
        halves.service # <<>> /\ halves.tool # <<>>}

\* split_namespaced: the halves of a name that has both.
Split(name) ==
    {halves \in {[service |-> SubSeq(name, 1, at - 1),
                  tool |-> SubSeq(name, at + 2, Len(name))] : at \in Boundary(name)} :
        halves.service # <<>> /\ halves.tool # <<>>}

\* Catalog::get: the tool of the named service that has the whole name.
Get(name) ==
    {i \in DOMAIN Index :
        /\ \E halves \in Split(name) : catalog[Index[i].service].id = halves.service
        /\ NamespacedName(i) = name}

\* What a name stands for, as the payloads say it.
Known(i) ==
    [name |-> NamespacedName(i), service |-> catalog[Index[i].service].id,
     upstream |-> RawName(Index[i].tool)]

-----------------------------------------------------------------------------
(* Requests *)

Ready == stage = "idle" /\ answer = NoAnswer

Reply(with) ==
    /\ answer' = with
    /\ UNCHANGED <<vars, expose, told>>

\* Mutant: a limit is taken as it comes.
BugLimitOf(wanted) == IF wanted = Absent THEN DefaultLimit ELSE wanted

\* A limit of zero asks for one hit.
LimitOf(wanted) == IF wanted = Absent THEN DefaultLimit ELSE Max({wanted, 1})

\* search_with begins, with the arguments a caller gives it.
Begin(tokens, service, n, caller) ==
    /\ query' = tokens /\ filter' = service /\ limit' = n
    /\ stage' = "match"
    /\ answer' = [is |-> "pending", caller |-> caller]
    /\ UNCHANGED <<catalog, candidates, total, hits, expose, told>>

\* search_tools.
SearchTools(tokens, service, wanted) ==
    /\ Ready /\ expose = "two-tier"
    /\ told = {}
    /\ IF tokens = Absent THEN Reply([is |-> "error"])
       ELSE Begin(tokens, service, LimitOf(wanted), "search_tools")

\* Catalog::search_with has other callers than search_tools.
CallSearchWith(tokens, n) ==
    /\ Ready /\ expose = "two-tier"
    /\ told = {}
    /\ Begin(tokens, AnyService, n, "other")

\* search_payload: the hits, and how many tools matched.
SearchPayload ==
    /\ stage = "done"
    /\ stage' = "idle"
    /\ IF answer.caller = "search_tools"
          THEN /\ told' = {Known(i) : i \in ToSet(hits)}
               /\ answer' = [is |-> "hits", shown |-> Len(hits), total |-> total]
          ELSE answer' = NoAnswer /\ UNCHANGED told
    /\ query' = <<>> /\ filter' = AnyService /\ limit' = 0
    /\ total' = 0 /\ hits' = <<>>
    /\ UNCHANGED <<catalog, candidates, expose>>

\* Mutant: a tool whose schemas do not inflate is reported as unknown.
BugDescribed(name) ==
    IF \A i \in Get(name) : Index[i].tool.broken THEN [is |-> "unknown", name |-> name]
    ELSE [is |-> "schemas", tool |-> Known(CHOOSE i \in Get(name) : TRUE)]

\* What describe_tools says of one name: both schemas, why there are none, or
\* that the name is unknown.
Described(name) ==
    IF Get(name) = {} THEN [is |-> "unknown", name |-> name]
    ELSE LET i == CHOOSE i \in Get(name) : TRUE
         IN  [is |-> IF Index[i].tool.broken THEN "schema error" ELSE "schemas",
              tool |-> Known(i)]

\* describe_tools, of a list of names.
DescribeTools(names) ==
    /\ Ready /\ expose = "two-tier"
    /\ \/ names = Absent /\ Reply([is |-> "error"])
       \/ /\ names # Absent
          /\ Reply([is |-> "described", asked |-> names,
                    entries |-> [n \in DOMAIN names |-> Described(names[n])]])

\* flat_tools: every tool that can be materialized, under its namespaced name;
\* an error if that leaves none of them.
ListFlat ==
    /\ Ready /\ expose = "flat"
    /\ LET whole == {i \in DOMAIN Index : ~Index[i].tool.broken}
       IN  IF whole = {} /\ Index # <<>>
              THEN Reply([is |-> "no list"])
              ELSE /\ told' = {Known(i) : i \in whole}
                   /\ answer' = [is |-> "listed"]
                   /\ UNCHANGED <<vars, expose>>

\* Proxy::route: the endpoints served, and perhaps more that were pruned.
Routes == UNION {{cat[s].id : s \in DOMAIN cat} : cat \in Catalogs}

\* Proxy::try_dispatch, up to the session: the service that is asked, and the
\* tool it is asked for.
Dispatched(name) ==
    IF \E halves \in Split(name) : halves.service \in Routes
       THEN [is |-> "called", name |-> name,
             at |-> CHOOSE halves \in Split(name) : TRUE]
       ELSE [is |-> "no route", name |-> name]

\* call, and in flat mode the tool by its own name: one that the catalog has is
\* dispatched, with an object for arguments or none.
Call(name, arguments) ==
    /\ Ready
    /\ IF name = Absent THEN Reply([is |-> "error"])
       ELSE IF Get(name) = {} THEN Reply([is |-> "not exposed", name |-> name])
       ELSE IF arguments = "other" THEN Reply([is |-> "error"])
       ELSE Reply(Dispatched(name))

\* refresh_live_catalog: another catalog is served from here on, except to a
\* flat client.
Refresh(fresh) ==
    /\ Ready /\ expose = "two-tier"
    /\ catalog' = fresh
    /\ UNCHANGED <<query, filter, limit, stage, candidates, total, hits, surface>>

\* The client reads the reply.  It goes on with what it was told, or starts
\* over: for the bound, before it searches again.
Read ==
    /\ stage = "idle" /\ answer # NoAnswer
    /\ answer' = NoAnswer
    /\ told' \in {told, {}}
    /\ UNCHANGED <<vars, expose>>

Start ==
    /\ catalog \in Catalogs
    /\ query = <<>> /\ filter = AnyService /\ limit = 0
    /\ stage = "idle"
    /\ candidates = <<>> /\ total = 0 /\ hits = <<>>
    /\ expose \in {"two-tier", "flat"}
    /\ answer = NoAnswer
    /\ told = {}

Found == {k.name : k \in told}
Names == Found \cup Strays

\* One name, or all that were found and one more.
NameLists ==
    {<<name>> : name \in Names} \cup {SetToSeq(Found) \o <<name>> : name \in Strays}

Requests ==
    \/ \E tokens \in Queries \cup {Absent},
          service \in {AnyService, 0} \cup DOMAIN catalog,
          wanted \in Limits \cup {Absent} : SearchTools(tokens, service, wanted)
    \/ \E tokens \in Queries : CallSearchWith(tokens, 0)
    \/ \E names \in NameLists \cup {Absent} : DescribeTools(names)
    \/ ListFlat
    \/ \E name \in Names \cup {Absent}, arguments \in {"object", "none", "other"} :
          Call(name, arguments)

Serve ==
    \/ Requests
    \/ Next /\ UNCHANGED surface
    \/ SearchPayload
    \/ Read
    \/ \E fresh \in Catalogs : Refresh(fresh)

Surface == Start /\ [][Serve]_<<vars, surface>>

-----------------------------------------------------------------------------
(* Properties *)

\* server.rs call_tool: whatever name is called, it reaches the service and the
\* tool that the client was told it stands for, under this catalog or an earlier
\* one; and it is refused as not exposed only if no tool of the catalog has it.
CallReachesItsTool ==
    /\ answer.is = "called" =>
          /\ \E i \in DOMAIN Index :
                Known(i) = [name |-> answer.name, service |-> answer.at.service,
                            upstream |-> answer.at.tool]
          /\ \A k \in told : k.name = answer.name =>
                k.service = answer.at.service /\ k.upstream = answer.at.tool
    /\ answer.is = "not exposed" => \A i \in DOMAIN Index : NamespacedName(i) # answer.name
    /\ answer.is # "no route"

\* server.rs flat_tools, describe_payload: a definition that cannot be
\* materialized takes nothing but itself away: a described tool keeps its entry,
\* the names beside it keep theirs in their order, and a flat client is told of
\* every other tool and of none that is broken.
BrokenToolIsContained ==
    /\ answer.is = "described" =>
          /\ DOMAIN answer.entries = DOMAIN answer.asked
          /\ \A n \in DOMAIN answer.asked : \A i \in DOMAIN Index :
                NamespacedName(i) = answer.asked[n] =>
                   /\ answer.entries[n].is # "unknown"
                   /\ answer.entries[n].tool = Known(i)
                   /\ answer.entries[n].is = "schema error" <=> Index[i].tool.broken
    /\ answer.is = "listed" =>
          /\ \A i \in DOMAIN Index : Known(i) \in told <=> ~Index[i].tool.broken
          /\ told = {} => Index = <<>>
    /\ answer.is = "no list" =>
          Index # <<>> /\ \A i \in DOMAIN Index : Index[i].tool.broken

\* server.rs call_meta_tool: "rather than returning an empty list that reads like
\* nothing matched": a search_tools that shows no hit had none to show, whatever
\* limit it was given.
EmptyMeansNoMatch ==
    answer.is = "hits" => (answer.shown = 0 <=> answer.total = 0)
=============================================================================
