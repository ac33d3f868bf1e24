---------------------------- MODULE CatalogSearch ----------------------------
(****************************************************************************)
(* Catalog::search_with of src/src/catalog.rs: which tools a query matches,  *)
(* what each is worth, and how the best of them are selected.                *)
(*                                                                           *)
(* A string is a sequence of letters, lowercased.  A letter stands for       *)
(* characters no token of the model splits; the brand word is one letter.    *)
(* What fits on the stack and what goes to the heap is left out.             *)
(****************************************************************************)
EXTENDS Naturals, Sequences, FiniteSets, SequencesExt, Filtering

CONSTANTS
    Characters,     \* the letters
    Brand,          \* SERVICE_BRAND_PREFIX
    IdSeparators,   \* SERVICE_ID_SEPARATORS, letters
    Underscore,     \* the letter between the words of a name
    Space,          \* the letter between the words of a description
    Catalogs,       \* the catalogs searched: sequences of services, each an id
                    \* and its tools
    Queries,        \* sequences of tokens, which are strings
    Limits,         \* how many hits are asked for
    AnyService      \* no service_filter; else the position of a service

Strings == Seq(Characters)

\* A tool: the words of its name, whether the name is in camel case, what it is
\* described with, and whether its schemas fail to inflate.
Tools == [words : Seq(Strings), camel : BOOLEAN, description : Strings, broken : BOOLEAN]

ASSUME LimitsAssumption == Limits \subseteq Nat
\* split_whitespace yields no empty token.
ASSUME QueriesAssumption ==
    /\ Queries \subseteq Seq(Strings)
    /\ \A q \in Queries : <<>> \notin ToSet(q)
ASSUME CatalogsAssumption ==
    /\ {Underscore, Space} \subseteq Characters
    /\ Catalogs \subseteq Seq([id : Strings, tools : Seq(Tools)])
    /\ \A cat \in Catalogs : \A s \in DOMAIN cat : \A t \in DOMAIN cat[s].tools :
          cat[s].tools[t].words # <<>>

VARIABLES
    catalog, query, filter, limit,  \* the arguments of search_with
    stage,                          \* how far it has got
    candidates,                     \* [score, tool] of the matches, as they lie
    total,                          \* how many tools matched
    hits                            \* what `visit` has been given, in order

input == <<catalog, query, filter, limit>>
vars == <<input, stage, candidates, total, hits>>

\* The tools in catalog order, each with its service: SearchIndex::tools.
IndexOf(cat) ==
    FlattenSeq([s \in DOMAIN cat |->
        [t \in DOMAIN cat[s].tools |-> [service |-> s, tool |-> cat[s].tools[t]]]])

Index == IndexOf(catalog)

-----------------------------------------------------------------------------
(* Strings *)

Occurs(token, text, at) ==
    /\ at + Len(token) - 1 <= Len(text)
    /\ SubSeq(text, at, at + Len(token) - 1) = token

Includes(text, token) == \E at \in DOMAIN text : Occurs(token, text, at)

\* str::strip_prefix, where the prefix is there.
After(text, prefix) == SubSeq(text, Len(prefix) + 1, Len(text))

\* str::trim_start_matches(SERVICE_ID_SEPARATORS).
Trimmed(text) ==
    LET n == CHOOSE n \in 0 .. Len(text) :
                /\ \A i \in 1 .. n : text[i] \in IdSeparators
                /\ n < Len(text) => text[n + 1] \notin IdSeparators
    IN  SubSeq(text, n + 1, Len(text))

\* Words with one separator between each two.
JoinedBy(words, separator) ==
    Tail(FlattenSeq([w \in DOMAIN words |-> <<separator>> \o words[w]]))

\* push_name_words: the words of an upstream name, joined by underscores
\* whether the upstream writes it in snake case or in camel case.
Name(tool) == JoinedBy(tool.words, Underscore)

\* push_lowercase: the name as the upstream writes it.
RawName(tool) == IF tool.camel THEN FlattenSeq(tool.words) ELSE Name(tool)

-----------------------------------------------------------------------------
(* How a query names a service *)

\* Mutant: a separator in an id is a letter like any other.
BugTaken(rests, token) == {After(r, token) : r \in {r \in rests : IsPrefix(token, r)}}

\* trim_start_matches and strip_prefix: what is left when the token has been taken
\* off the front, separators before it skipped.
Taken(rests, token) ==
    {After(Trimmed(r), token) : r \in {r \in rests : IsPrefix(token, Trimmed(r))}}

\* spells: what is left of the target when all tokens have been taken off it;
\* nothing if they do not fit.
Rests(target, tokens) ==
    LET upTo[n \in 0 .. Len(tokens)] ==
           IF n = 0 THEN {target} ELSE Taken(upTo[n - 1], tokens[n])
    IN  upTo[Len(tokens)]

\* SCORE_SERVICE and SCORE_SERVICE_PREFIX.
SpellingScore(target, tokens) ==
    CASE Rests(target, tokens) = {}     -> 0
      [] Rests(target, tokens) = {<<>>} -> 32
      [] OTHER                          -> 8

\* The id, and the id without a leading brand word.
Targets(id) ==
    {id} \cup (IF IsStrictPrefix(Brand, id) THEN {After(id, Brand)} ELSE {})

\* A run of tokens, without a leading brand word: the brand names nothing.
RunScore(id, run) ==
    LET spelled == IF Head(run) = Brand THEN Tail(run) ELSE run
    IN  IF spelled = <<>> THEN 0
        ELSE Max({SpellingScore(target, spelled) : target \in Targets(id)})

NoReference == [score |-> 0, first |-> 1, last |-> 0]

\* service_reference: of the runs that name the service the best, then the
\* longest, then the first.
Reference(id, tokens) ==
    LET runs == {r \in [score : {8, 32}, first : DOMAIN tokens, last : DOMAIN tokens] :
                    /\ r.first <= r.last
                    /\ r.score = RunScore(id, SubSeq(tokens, r.first, r.last))}
        Better(r, o) ==
            \/ r.score > o.score
            \/ /\ r.score = o.score
               /\ \/ r.last - r.first > o.last - o.first
                  \/ r.last - r.first = o.last - o.first /\ r.first <= o.first
    IN  IF runs = {} THEN NoReference
        ELSE CHOOSE r \in runs : \A o \in runs : Better(r, o)

Covers(reference, i) == reference.first <= i /\ i <= reference.last

-----------------------------------------------------------------------------
(* What a tool is worth *)

\* name_score: SCORE_NAME_WORD, SCORE_NAME_WORD_PREFIX, SCORE_NAME_SUBSTRING.
NameScore(tool, token) ==
    IF token \in ToSet(tool.words) THEN 16
    ELSE IF \E word \in ToSet(tool.words) : IsPrefix(token, word) THEN 12
    ELSE IF Includes(RawName(tool), token) \/ Includes(Name(tool), token) THEN 4
    ELSE 0

\* With SCORE_DESCRIPTION.
TokenScore(tool, token) ==
    NameScore(tool, token) + (IF Includes(tool.description, token) THEN 2 ELSE 0)

\* contains_sequence: the tokens in order, joined by one separator, from one of
\* the places match_indices finds the first at; these do not overlap.
ContainsSequence(text, tokens, separator) ==
    LET first == Head(tokens)
        found[at \in DOMAIN text] ==
            /\ Occurs(first, text, at)
            /\ \A i \in 1 .. at - 1 : i + Len(first) > at => ~found[i]
    IN  \E at \in DOMAIN text : found[at] /\ Occurs(JoinedBy(tokens, separator), text, at)

\* Mutant: no bonus for a phrase in the name.
BugBonus(tool, tokens) ==
    IF Len(tokens) > 1
       THEN IF ContainsSequence(tool.description, tokens, Space) THEN 16 ELSE 0
       ELSE IF tokens = <<RawName(tool)>> THEN 32 ELSE 0

\* SCORE_NAME_PHRASE, SCORE_DESCRIPTION_PHRASE, SCORE_EXACT_NAME.
Bonus(tool, tokens) ==
    IF Len(tokens) > 1
       THEN (IF ContainsSequence(Name(tool), tokens, Underscore) THEN 24 ELSE 0)
          + (IF ContainsSequence(tool.description, tokens, Space) THEN 16 ELSE 0)
       ELSE IF tokens = <<RawName(tool)>> THEN 32 ELSE 0

\* score_tool: every token must match the tool or belong to the reference ...
Matches(tool, tokens, reference) ==
    \A i \in DOMAIN tokens : TokenScore(tool, tokens[i]) > 0 \/ Covers(reference, i)

\* ... and the tool is worth the sum of what matches.
Score(tool, tokens, reference) ==
    LET upTo[n \in 0 .. Len(tokens)] ==
           IF n = 0 THEN reference.score + Bonus(tool, tokens)
           ELSE upTo[n - 1] + TokenScore(tool, tokens[n])
    IN  upTo[Len(tokens)]

\* The positions in the index of the tools a query matches.
Matching(tokens) ==
    {i \in DOMAIN Index :
        /\ filter \in {AnyService, Index[i].service}
        /\ Matches(Index[i].tool, tokens,
                   Reference(catalog[Index[i].service].id, tokens))}

ScoreOf(i, tokens) ==
    Score(Index[i].tool, tokens, Reference(catalog[Index[i].service].id, tokens))

-----------------------------------------------------------------------------
(* search_with *)

\* The order of candidates: by score, and at the same score by position.
Before(x, y) == x.score > y.score \/ (x.score = y.score /\ x.tool < y.tool)

Init ==
    /\ catalog \in Catalogs
    /\ query \in Queries
    /\ limit \in Limits
    /\ filter \in {AnyService} \cup DOMAIN catalog
    /\ stage = "match"
    /\ candidates = <<>>
    /\ total = 0
    /\ hits = <<>>

Candidate(i, tokens) == [score |-> ScoreOf(i, tokens), tool |-> i]

\* Every tool is scored, in catalog order.
Match ==
    /\ stage = "match"
    /\ LET matching == Kept([i \in DOMAIN Index |-> i], Matching(query))
       IN  candidates' = [n \in DOMAIN matching |-> Candidate(matching[n], query)]
    /\ total' = Len(candidates')
    /\ stage' = "select"
    /\ UNCHANGED <<input, hits>>

\* What select_nth_unstable may make of the candidates: the n-th best is in its
\* place, the better ones before it and the others after it, in any order.
Partitioned(n) ==
    {p \in SetToSeqs(ToSet(candidates)) :
        \A i \in DOMAIN p : /\ i < n => Before(p[i], p[n])
                            /\ i > n => Before(p[n], p[i])}

\* Mutant: the list is cut off without being partitioned.
BugBest(n) == {SubSeq(candidates, 1, n)}

\* ... and what truncate leaves of it.
Best(n) == {SubSeq(p, 1, n) : p \in Partitioned(n)}

\* The best `limit` are selected, if there are more.
Select ==
    /\ stage = "select"
    /\ \/ limit = 0 /\ candidates' = <<>>
       \/ limit \in 1 .. total - 1 /\ candidates' \in Best(limit)
       \/ limit >= total /\ limit # 0 /\ UNCHANGED candidates
    /\ stage' = "deliver"
    /\ UNCHANGED <<input, total, hits>>

\* They are sorted and handed to `visit`.
Deliver ==
    /\ stage = "deliver"
    /\ \E sorted \in SetToSeqs(ToSet(candidates)) :
          /\ \A i, j \in DOMAIN sorted : i < j => Before(sorted[i], sorted[j])
          /\ hits' = [i \in DOMAIN sorted |-> sorted[i].tool]
    /\ candidates' = <<>>
    /\ stage' = "done"
    /\ UNCHANGED <<input, total>>

Next == Match \/ Select \/ Deliver

Spec == Init /\ [][Next]_vars

-----------------------------------------------------------------------------
(* Properties *)

\* catalog.rs search_with: whatever the limit, the hits are the beginning of the
\* full ranking: as many tools beat a hit as are listed before it, ties keep
\* catalog order, and the total counts all that match.
BestHitsInOrder ==
    stage = "done" =>
       /\ total = Cardinality(Matching(query))
       /\ Len(hits) = Min({limit, total})
       /\ \A n \in DOMAIN hits :
             /\ hits[n] \in Matching(query)
             /\ n - 1 = Cardinality({i \in Matching(query) :
                   Before(Candidate(i, query), Candidate(hits[n], query))})

\* The tokens stand in the text one after the other, from these places on, with
\* nothing but separators around them.
StandAt(at, tokens, text) ==
    /\ \A i \in DOMAIN tokens :
          /\ Occurs(tokens[i], text, at[i])
          /\ text[at[i]] \notin IdSeparators
          /\ \A j \in i + 1 .. Len(tokens) : at[i] + Len(tokens[i]) <= at[j]
    /\ \A k \in DOMAIN text :
          \/ text[k] \in IdSeparators
          \/ \E i \in DOMAIN tokens : k \in at[i] .. at[i] + Len(tokens[i]) - 1

\* The tokens are the id, written in one word or in several, its separators in a
\* token or between two.
SpellsOut(tokens, id) ==
    \E at \in [DOMAIN tokens -> DOMAIN id] : StandAt(at, tokens, id)

\* catalog.rs service_reference: a query that spells out a service's id, with the
\* brand word before it or not, finds every tool of that service and ranks it
\* as named by its service, however the id is separated and whether or not it
\* carries the brand word itself.
ServiceIsFoundByItsName ==
    stage = "select" =>
       \A s \in DOMAIN catalog :
          \A named \in {query} \cup (IF query # <<>> /\ Head(query) = Brand
                                        THEN {Tail(query)} ELSE {}) :
             SpellsOut(named, catalog[s].id) /\ catalog[s].id # Brand =>
                \A i \in DOMAIN Index :
                   Index[i].service = s /\ filter \in {AnyService, s} =>
                      \E k \in DOMAIN candidates :
                         candidates[k].tool = i /\ candidates[k].score >= 32

\* catalog.rs SCORE_SERVICE: a tool whose name words are the query outranks one
\* that was only named by its service.
NamedToolOutranks ==
    stage = "select" /\ query # <<>> =>
       \A x, y \in DOMAIN candidates :
          LET named == Index[candidates[x].tool].tool
              other == Index[candidates[y].tool].tool
          IN  /\ named.words = query
              /\ \A token \in ToSet(query) : TokenScore(other, token) = 0
              => candidates[x].score > candidates[y].score

\* catalog.rs search_with: "an extra term narrows rather than widens the result".
TermsNarrow ==
    Len(query) > 1 => Matching(query) \subseteq Matching(Front(query))
=============================================================================
