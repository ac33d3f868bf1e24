---------------------------- MODULE MetaToolsProofs ----------------------------
(****************************************************************************)
(* What is proved of CatalogSearch and MetaTools, for every set of          *)
(* catalogs, queries, limits and names.  The chain of the search: scoring   *)
(* yields each match once (MatchRanks), cutting off leaves what beats the   *)
(* rest (SelectLeads), and sorting that lists the beginning of the full     *)
(* ranking (DeliverSorts).  The scores: the score of a tool is the sum of   *)
(* what its tokens earn (ScoreSum), and what names the tool earns more than *)
(* naming its service can (NamedOutranks).  The spelling: tokens that stand *)
(* in an id with nothing but separators around them are taken off it one by *)
(* one (StandingSpells), with the brand word or without (RunSpells).  The   *)
(* names: one comes apart where it was put together (SplitJoined), so it    *)
(* has one meaning under every catalog (ToldInv), and the lookup finds the  *)
(* one tool that has it (GetFinds).                                         *)
(****************************************************************************)
EXTENDS MetaTools, FilteringProofs, FiniteSetTheorems

-----------------------------------------------------------------------------
(* Sequences *)

\* f goes from base to f[L], and G[n] is its n-th step.
Unfolds(f, L, base, G) == f[0] = base /\ \A n \in 1 .. L : f[n] = G[n][f[n - 1]]

\* What is folded over a sequence exists.
LEMMA Unfolding ==
    ASSUME NEW L \in Nat, NEW T, NEW base \in T, NEW G \in [1 .. L -> [T -> T]]
    PROVE  \E f \in [0 .. L -> T] : Unfolds(f, L, base, G)
<1> DEFINE Upto(f, n) == /\ f \in [0 .. n -> T] /\ f[0] = base
                         /\ \A k \in 1 .. n : f[k] = G[k][f[k - 1]]
           P == {n \in Nat : n <= L => \E f : Upto(f, n)}
<1>1. 0 \in P
  <2>1. Upto([k \in 0 .. 0 |-> base], 0)
    OBVIOUS
  <2> QED
    BY <2>1
<1>2. ASSUME NEW n \in Nat, n \in P PROVE n + 1 \in P
  <2> SUFFICES ASSUME n + 1 <= L PROVE \E g : Upto(g, n + 1)
    <3> HIDE DEF Upto
    <3> QED
      OBVIOUS
  <2>1. PICK f : Upto(f, n)
    <3> HIDE DEF Upto
    <3> QED
      BY <1>2
  <2> DEFINE g == [k \in 0 .. n + 1 |-> IF k = n + 1 THEN G[n + 1][f[n]] ELSE f[k]]
  <2>2. n + 1 \in 1 .. L /\ f[n] \in T
    BY <2>1
  <2>3. G[n + 1][f[n]] \in T
    BY <2>2
  <2>4. g \in [0 .. n + 1 -> T] /\ g[0] = base
    BY <2>1, <2>3
  <2>5. ASSUME NEW k \in 1 .. n + 1 PROVE g[k] = G[k][g[k - 1]]
    <3>1. g[k - 1] = f[k - 1]
      OBVIOUS
    <3>2. CASE k = n + 1
      BY <3>1, <3>2
    <3>3. CASE k # n + 1
      <4>1. k \in 1 .. n /\ g[k] = f[k]
        BY <3>3
      <4> QED
        BY <2>1, <3>1, <4>1
    <3> QED
      BY <3>2, <3>3
  <2> QED
    BY <2>4, <2>5
<1>3. \A n \in Nat : n \in P
  <2> HIDE DEF P
  <2> QED
    BY <1>1, <1>2, NaturalInduction
<1>4. PICK f : Upto(f, L)
  <2> HIDE DEF Upto
  <2> QED
    BY <1>3
<1> QED
  BY <1>4 DEF Unfolds

\* A sequence begins with another.
Begins(s, first) ==
    Len(first) <= Len(s) /\ \A i \in 1 .. Len(first) : s[i] = first[i]

LEMMA BeginsStill ==
    ASSUME NEW S, NEW s \in Seq(S), NEW more \in Seq(S), NEW first \in Seq(S),
           Begins(s, first)
    PROVE  Begins(s \o more, first)
<1>1. /\ Len(s) \in Nat /\ Len(more) \in Nat /\ Len(first) \in Nat
      /\ Len(s \o more) = Len(s) + Len(more)
      /\ \A i \in 1 .. Len(s) : (s \o more)[i] = s[i]
  OBVIOUS
<1>2. Len(first) <= Len(s) /\ \A i \in 1 .. Len(first) : s[i] = first[i]
  BY DEF Begins
<1> DEFINE all == s \o more
<1> HIDE DEF all
<1>3. Len(first) <= Len(all) /\ \A i \in 1 .. Len(first) : all[i] = first[i]
  BY <1>1, <1>2 DEF all
<1> QED
  BY <1>3 DEF Begins, all

\* Flattening makes one sequence of the same elements, which begins with the first
\* part, and is no more than that if there is no other.
LEMMA FlattenType ==
    ASSUME NEW S, NEW seqs \in Seq(Seq(S))
    PROVE  /\ FlattenSeq(seqs) \in Seq(S)
           /\ seqs # <<>> => Begins(FlattenSeq(seqs), seqs[1])
           /\ Len(seqs) = 1 => FlattenSeq(seqs) = seqs[1]
<1> DEFINE L == Len(seqs)
<1>1. L \in Nat /\ \A i \in 1 .. L : seqs[i] \in Seq(S)
  OBVIOUS
<1>2. CASE L = 0
  <2>1. FlattenSeq(seqs) = seqs /\ seqs = <<>>
    BY <1>2 DEF FlattenSeq
  <2> QED
    BY <2>1
<1>3. CASE L # 0
  <2> DEFINE G == [n \in 1 .. L |-> [s \in Seq(S) |-> s \o seqs[n]]]
  <2>1. G \in [1 .. L -> [Seq(S) -> Seq(S)]]
    BY <1>1
  <2>2. PICK f \in [0 .. L -> Seq(S)] :
           f[0] = <<>> /\ \A n \in 1 .. L : f[n] = G[n][f[n - 1]]
    <3> DEFINE T == Seq(S)
               none == <<>>
    <3>1. none \in T /\ L \in Nat /\ G \in [1 .. L -> [T -> T]]
      BY <1>1, <2>1
    <3> HIDE DEF G, L, T, none
    <3>2. \E f \in [0 .. L -> T] : Unfolds(f, L, none, G)
      BY <3>1, Unfolding
    <3> QED
      BY <3>2 DEF T, none, Unfolds
  <2>3. \A n \in 1 .. L : f[n - 1] \in Seq(S) /\ f[n] = f[n - 1] \o seqs[n]
    <3> SUFFICES ASSUME NEW n \in 1 .. L
                 PROVE  f[n - 1] \in Seq(S) /\ f[n] = f[n - 1] \o seqs[n]
      OBVIOUS
    <3>1. n - 1 \in 0 .. L
      BY <1>1
    <3>2. f[n - 1] \in Seq(S)
      BY <3>1
    <3> QED
      BY <2>2, <3>2
  <2>4. f[1] = seqs[1]
    <3>1. 1 \in 1 .. L /\ 1 - 1 = 0
      BY <1>1, <1>3
    <3>2. f[1] = <<>> \o seqs[1] /\ seqs[1] \in Seq(S)
      BY <1>1, <2>2, <2>3, <3>1
    <3> QED
      BY <3>2
  <2> DEFINE Body(h) == [i \in 1 .. L |-> IF i = 1 THEN seqs[i] ELSE h[i - 1] \o seqs[i]]
             g == [i \in 1 .. L |-> f[i]]
             r == CHOOSE h : h = Body(h)
  <2>5. g = Body(g)
    <3>1. ASSUME NEW i \in 1 .. L PROVE g[i] = Body(g)[i]
      <4>1. CASE i = 1
        BY <2>4, <4>1
      <4>2. CASE i # 1
        <5>1. i - 1 \in 1 .. L
          BY <1>1, <4>2
        <5>2. g[i] = f[i] /\ g[i - 1] = f[i - 1]
          BY <5>1
        <5> HIDE DEF g
        <5> QED
          BY <2>3, <4>2, <5>2
      <4> QED
        BY <4>1, <4>2
    <3> QED
      BY <3>1
  <2>6. r = Body(r)
    <3> HIDE DEF Body
    <3> QED
      BY <2>5
  <2>7. FlattenSeq(seqs) = r[L]
    BY <1>3 DEF FlattenSeq
  <2> HIDE DEF r, g
  <2> DEFINE Good(m) == r[m] = f[m] /\ Begins(f[m], seqs[1])
             Q == {n \in Nat : n + 1 <= L => Good(n + 1)}
  <2>8. Good(1)
    <3>1. 1 \in 1 .. L
      BY <1>1, <1>3
    <3>2. r[1] = seqs[1]
      BY <2>6, <3>1
    <3> QED
      BY <1>1, <2>4, <3>1, <3>2 DEF Begins
  <2>9. ASSUME NEW m \in Nat, m # 0, m + 1 <= L, Good(m) PROVE Good(m + 1)
    <3> DEFINE k == m + 1
    <3>1. k \in 1 .. L /\ k - 1 = m /\ k # 1
      BY <1>1, <2>9
    <3> HIDE DEF k
    <3>2. r[k] = r[m] \o seqs[k]
      BY <2>6, <3>1
    <3>3. f[k] = f[m] \o seqs[k] /\ f[m] \in Seq(S) /\ seqs[k] \in Seq(S)
      BY <1>1, <2>3, <3>1
    <3>4. f[m] \o seqs[k] \in Seq(S) /\ seqs[1] \in Seq(S) /\ Begins(f[m], seqs[1])
      BY <1>1, <1>3, <2>9, <3>3
    <3>5. Begins(f[k], seqs[1])
      BY <3>3, <3>4, BeginsStill
    <3> QED
      BY <2>9, <3>2, <3>3, <3>5 DEF k
  <2> HIDE DEF Good, L
  <2>10. \A n \in Nat : n \in Q
    <3>1. 0 \in Q
      BY <2>8
    <3>2. ASSUME NEW n \in Nat, n \in Q PROVE n + 1 \in Q
      <4>1. CASE (n + 1) + 1 <= L
        <5>1. n + 1 \in Nat /\ n + 1 # 0 /\ n + 1 <= L
          BY <1>1, <4>1
        <5>2. Good(n + 1)
          BY <3>2, <5>1
        <5> QED
          BY <2>9, <4>1, <5>1, <5>2
      <4>2. CASE ~ ((n + 1) + 1 <= L)
        BY <4>2
      <4> QED
        BY <4>1, <4>2
    <3> HIDE DEF Q
    <3> QED
      BY <3>1, <3>2, NaturalInduction
  <2>11. Good(L)
    <3>1. L - 1 \in Nat /\ (L - 1) + 1 = L /\ (L - 1) + 1 <= L
      BY <1>1, <1>3
    <3>2. L - 1 \in Q
      <4> HIDE DEF Q
      <4> QED
        BY <2>10, <3>1
    <3> QED
      BY <3>1, <3>2
  <2>12. f[L] \in Seq(S)
    BY <1>1
  <2> QED
    BY <2>4, <2>7, <2>11, <2>12 DEF Good, L
<1> QED
  BY <1>2, <1>3

-----------------------------------------------------------------------------
(* Catalogs *)

\* The index lists tools, each with the position of its service.
LEMMA IndexType ==
    ASSUME NEW cat \in Catalogs
    PROVE  /\ Len(IndexOf(cat)) \in Nat
           /\ DOMAIN IndexOf(cat) = 1 .. Len(IndexOf(cat))
           /\ \A i \in DOMAIN IndexOf(cat) :
                 /\ IndexOf(cat)[i].service \in DOMAIN cat
                 /\ cat[IndexOf(cat)[i].service].id \in Strings
                 /\ IndexOf(cat)[i].tool \in Tools
                 /\ IndexOf(cat)[i].tool.words # <<>>
<1> DEFINE Entries == {e \in [service : DOMAIN cat, tool : Tools] : e.tool.words # <<>>}
           parts == [s \in DOMAIN cat |->
                       [t \in DOMAIN cat[s].tools |->
                          [service |-> s, tool |-> cat[s].tools[t]]]]
<1>1. cat \in Seq([id : Strings, tools : Seq(Tools)])
  BY CatalogsAssumption
<1>2. \A s \in DOMAIN cat : cat[s].id \in Strings /\ cat[s].tools \in Seq(Tools)
  <2> DEFINE Services == [id : Strings, tools : Seq(Tools)]
  <2>1. \A e \in Services : e.id \in Strings /\ e.tools \in Seq(Tools)
    OBVIOUS
  <2>2. cat \in Seq(Services)
    BY <1>1
  <2> HIDE DEF Services, Entries, parts
  <2>3. \A s \in DOMAIN cat : cat[s] \in Services
    BY <2>2
  <2> QED
    BY <2>1, <2>3
<1>3. \A s \in DOMAIN cat : \A t \in DOMAIN cat[s].tools : cat[s].tools[t].words # <<>>
  BY CatalogsAssumption
<1>4. ASSUME NEW s \in DOMAIN cat PROVE parts[s] \in Seq(Entries)
  <2>1. cat[s].tools \in Seq(Tools)
    BY <1>2
  <2>2. /\ Len(cat[s].tools) \in Nat /\ DOMAIN cat[s].tools = 1 .. Len(cat[s].tools)
        /\ \A t \in DOMAIN cat[s].tools : cat[s].tools[t] \in Tools
    BY <2>1
  <2>3. \A t \in DOMAIN cat[s].tools : [service |-> s, tool |-> cat[s].tools[t]] \in Entries
    BY <1>3, <2>2
  <2>4. parts[s] = [t \in 1 .. Len(cat[s].tools) |-> [service |-> s, tool |-> cat[s].tools[t]]]
    BY <2>2
  <2> HIDE DEF Entries, parts
  <2>5. parts[s] \in [1 .. Len(cat[s].tools) -> Entries]
    BY <2>2, <2>3, <2>4
  <2> QED
    BY <2>2, <2>5
<1>5. parts \in Seq(Seq(Entries))
  <2>1. Len(cat) \in Nat /\ DOMAIN cat = 1 .. Len(cat)
    BY <1>1
  <2>2. parts \in [1 .. Len(cat) -> Seq(Entries)]
    <3>1. parts = [s \in 1 .. Len(cat) |-> parts[s]]
      BY <2>1
    <3> HIDE DEF parts, Entries
    <3> QED
      BY <1>4, <2>1, <3>1
  <2> HIDE DEF parts
  <2> QED
    BY <2>1, <2>2
<1>6. IndexOf(cat) = FlattenSeq(parts)
  BY DEF IndexOf
<1> HIDE DEF parts, Entries
<1>7. IndexOf(cat) \in Seq(Entries)
  BY <1>5, <1>6, FlattenType
<1>8. \A i \in DOMAIN IndexOf(cat) : IndexOf(cat)[i] \in Entries
  BY <1>7
<1>9. /\ Len(IndexOf(cat)) \in Nat
      /\ DOMAIN IndexOf(cat) = 1 .. Len(IndexOf(cat))
  BY <1>7
<1> QED
  BY <1>2, <1>8, <1>9 DEF Entries

\* Words joined to a name make a string that begins with the first of them, and
\* is no more than that if there is no other.
LEMMA JoinedType ==
    ASSUME NEW words \in Seq(Strings), words # <<>>, NEW separator \in Characters
    PROVE  /\ JoinedBy(words, separator) \in Strings
           /\ Begins(JoinedBy(words, separator), words[1])
           /\ Len(words) = 1 => JoinedBy(words, separator) = words[1]
<1> DEFINE parts == [w \in DOMAIN words |-> <<separator>> \o words[w]]
           L == Len(words)
           flat == FlattenSeq(parts)
           text == JoinedBy(words, separator)
<1>1. /\ L \in Nat /\ L # 0 /\ DOMAIN words = 1 .. L /\ 1 \in 1 .. L
      /\ \A w \in 1 .. L : words[w] \in Seq(Characters)
  BY DEF Strings
<1>2. \A word \in Seq(Characters) :
         /\ <<separator>> \o word \in Seq(Characters)
         /\ Len(<<separator>> \o word) = Len(word) + 1
         /\ \A i \in 1 .. Len(word) : (<<separator>> \o word)[i + 1] = word[i]
  OBVIOUS
<1>3. \A w \in 1 .. L : parts[w] = <<separator>> \o words[w] /\ parts[w] \in Seq(Characters)
  BY <1>1, <1>2
<1>4. parts = [w \in 1 .. L |-> parts[w]]
  BY <1>1
<1>5. text = Tail(flat)
  BY DEF JoinedBy
<1> HIDE DEF parts, L, flat, text
<1>6. parts \in Seq(Seq(Characters)) /\ Len(parts) = L /\ parts # <<>>
  <2>1. parts \in [1 .. L -> Seq(Characters)]
    BY <1>3, <1>4
  <2> QED
    BY <1>1, <2>1
<1>7. /\ flat \in Seq(Characters)
      /\ Begins(flat, parts[1])
      /\ L = 1 => flat = parts[1]
  BY <1>6, FlattenType DEF flat
<1>8. /\ Len(parts[1]) = Len(words[1]) + 1 /\ Len(words[1]) \in Nat
      /\ \A i \in 1 .. Len(words[1]) : parts[1][i + 1] = words[1][i]
  BY <1>1, <1>2, <1>3
<1>9. /\ flat # <<>> /\ Len(flat) \in Nat /\ Len(flat) >= Len(words[1]) + 1
      /\ \A i \in 1 .. Len(words[1]) : flat[i + 1] = words[1][i]
  BY <1>7, <1>8 DEF Begins
<1>10. /\ text \in Seq(Characters) /\ Len(text) = Len(flat) - 1
       /\ \A i \in 1 .. Len(flat) - 1 : text[i] = flat[i + 1]
  BY <1>5, <1>7, <1>9
<1>11. Begins(text, words[1])
  BY <1>8, <1>9, <1>10 DEF Begins
<1>12. ASSUME L = 1 PROVE text = words[1]
  <2>1. Len(text) = Len(words[1])
    BY <1>7, <1>8, <1>10, <1>12
  <2>2. \A i \in 1 .. Len(text) : text[i] = words[1][i]
    BY <1>11, <2>1 DEF Begins
  <2>3. words[1] \in Seq(Characters)
    BY <1>1
  <2> QED
    BY <1>10, <2>1, <2>2, <2>3
<1> QED
  BY <1>10, <1>11, <1>12 DEF text, L, Strings

\* A tool's names are strings.
LEMMA NameType ==
    ASSUME NEW tool \in Tools, tool.words # <<>>
    PROVE  Name(tool) \in Strings /\ RawName(tool) \in Strings
<1>1. tool.words \in Seq(Strings) /\ tool.camel \in BOOLEAN
  BY DEF Tools
<1>2. FlattenSeq(tool.words) \in Strings
  BY <1>1, FlattenType DEF Strings
<1>3. Name(tool) \in Strings
  BY <1>1, JoinedType, CatalogsAssumption DEF Name
<1> QED
  BY <1>2, <1>3 DEF RawName

-----------------------------------------------------------------------------
(* Scores *)

\* A token's place, letter by letter.
LEMMA OccursByLetters ==
    ASSUME NEW text \in Strings, NEW token \in Strings, NEW at \in DOMAIN text
    PROVE  Occurs(token, text, at) <=>
              /\ at + Len(token) - 1 <= Len(text)
              /\ \A i \in 1 .. Len(token) : text[at + i - 1] = token[i]
<1> DEFINE l == Len(token)
           part == SubSeq(text, at, at + l - 1)
<1>1. /\ text \in Seq(Characters) /\ token \in Seq(Characters)
      /\ l \in Nat /\ Len(text) \in Nat /\ at \in 1 .. Len(text)
  BY DEF Strings
<1>2. ASSUME at + l - 1 <= Len(text)
      PROVE  part = token <=> \A i \in 1 .. l : text[at + i - 1] = token[i]
  <2>1. /\ part \in Seq(Characters) /\ Len(part) = l
        /\ \A i \in 1 .. l : part[i] = text[at + i - 1]
    <3> DEFINE b == at + l - 1
    <3>1. /\ at \in Nat /\ at >= 1 /\ b \in Nat /\ at <= b + 1 /\ b - at + 1 = l
          /\ b <= Len(text) /\ \A i \in 1 .. l : at + i - 1 \in at .. b
      BY <1>1, <1>2
    <3> HIDE DEF l, b
    <3>2. /\ SubSeq(text, at, b) \in Seq(Characters) /\ Len(SubSeq(text, at, b)) = l
          /\ \A i \in 1 .. l : SubSeq(text, at, b)[i] = text[at + i - 1]
      BY <1>1, <3>1
    <3> QED
      BY <3>2 DEF b
  <2> HIDE DEF part, l
  <2>2. part = token => \A i \in 1 .. l : text[at + i - 1] = token[i]
    BY <2>1
  <2>3. ASSUME \A i \in 1 .. l : text[at + i - 1] = token[i] PROVE part = token
    <3>1. \A i \in 1 .. l : part[i] = token[i]
      BY <2>1, <2>3
    <3> QED
      BY <1>1, <2>1, <3>1 DEF l
  <2> QED
    BY <2>2, <2>3
<1> QED
  BY <1>2 DEF Occurs

LEMMA OccursInItself ==
    ASSUME NEW text \in Strings, text # <<>>
    PROVE  1 \in DOMAIN text /\ Occurs(text, text, 1)
<1>1. /\ Len(text) \in Nat /\ Len(text) <= Len(text) /\ 1 \in DOMAIN text
      /\ 1 + Len(text) - 1 = Len(text) /\ \A i \in 1 .. Len(text) : 1 + i - 1 = i
  BY DEF Strings
<1> QED
  BY <1>1, OccursByLetters

\* What match_indices finds: there is such a function.
Finds(found, first, text) ==
    found = [at \in DOMAIN text |->
               /\ Occurs(first, text, at)
               /\ \A i \in 1 .. at - 1 : i + Len(first) > at => ~found[i]]

LEMMA FindsSomething ==
    ASSUME NEW text \in Strings, NEW first
    PROVE  \E found : Finds(found, first, text)
<1> DEFINE L == Len(text)
           Here(f, at) == /\ Occurs(first, text, at)
                          /\ \A i \in 1 .. at - 1 : i + Len(first) > at => ~f[i]
           Upto(f, n) == f = [at \in 1 .. n |-> f[at]] /\ \A at \in 1 .. n : f[at] = Here(f, at)
           P == {n \in Nat : n <= L => \E f : Upto(f, n)}
<1>1. L \in Nat /\ DOMAIN text = 1 .. L
  BY DEF Strings
<1>2. 0 \in P
  <2>1. Upto([at \in 1 .. 0 |-> TRUE], 0)
    OBVIOUS
  <2> QED
    BY <2>1
<1>3. ASSUME NEW n \in Nat, n \in P PROVE n + 1 \in P
  <2> SUFFICES ASSUME n + 1 <= L PROVE \E g : Upto(g, n + 1)
    <3> HIDE DEF Upto
    <3> QED
      OBVIOUS
  <2>1. PICK f : Upto(f, n)
    <3> HIDE DEF Upto
    <3> QED
      BY <1>1, <1>3
  <2> DEFINE g == [at \in 1 .. n + 1 |-> IF at = n + 1 THEN Here(f, n + 1) ELSE f[at]]
  <2>2. \A at \in 1 .. n : g[at] = f[at]
    <3> HIDE DEF Here
    <3> QED
      OBVIOUS
  <2>3. \A at \in 1 .. n + 1 : Here(g, at) = Here(f, at)
    <3> SUFFICES ASSUME NEW at \in 1 .. n + 1 PROVE Here(g, at) = Here(f, at)
      OBVIOUS
    <3>1. \A i \in 1 .. at - 1 : i \in 1 .. n
      OBVIOUS
    <3>2. \A i \in 1 .. at - 1 : g[i] = f[i]
      <4> HIDE DEF g
      <4> QED
        BY <2>2, <3>1
    <3> HIDE DEF g
    <3> QED
      BY <3>2
  <2>4. g[n + 1] = Here(f, n + 1)
    <3>1. n + 1 \in 1 .. n + 1
      OBVIOUS
    <3> HIDE DEF Here
    <3> QED
      BY <3>1
  <2>5. g = [at \in 1 .. n + 1 |-> g[at]]
    OBVIOUS
  <2> HIDE DEF g, Here
  <2>6. \A at \in 1 .. n + 1 : g[at] = Here(g, at)
    <3> SUFFICES ASSUME NEW at \in 1 .. n + 1 PROVE g[at] = Here(g, at)
      OBVIOUS
    <3>1. CASE at = n + 1
      BY <2>3, <2>4, <3>1
    <3>2. CASE at # n + 1
      <4>1. at \in 1 .. n
        BY <3>2
      <4> QED
        BY <2>1, <2>2, <2>3, <4>1
    <3> QED
      BY <3>1, <3>2
  <2> QED
    BY <2>5, <2>6
<1>4. \A n \in Nat : n \in P
  <2> HIDE DEF P
  <2> QED
    BY <1>2, <1>3, NaturalInduction
<1>5. PICK f : Upto(f, L)
  <2> HIDE DEF Upto
  <2> QED
    BY <1>1, <1>4
<1>6. f = [at \in 1 .. L |-> Here(f, at)]
  <2> HIDE DEF Here
  <2> QED
    BY <1>5
<1> QED
  BY <1>1, <1>6 DEF Finds

\* A phrase is found where the text is the phrase, ...
LEMMA PhraseIsFound ==
    ASSUME NEW tokens \in Seq(Strings), tokens # <<>>, tokens[1] # <<>>,
           NEW separator \in Characters
    PROVE  ContainsSequence(JoinedBy(tokens, separator), tokens, separator)
<1> DEFINE text == JoinedBy(tokens, separator)
           first == Head(tokens)
           found == CHOOSE f : Finds(f, first, text)
<1>1. first = tokens[1] /\ first \in Strings /\ Len(first) >= 1 /\ Len(first) \in Nat
  BY DEF Strings
<1>2. text \in Strings /\ Begins(text, first)
  BY <1>1, JoinedType
<1>3. ContainsSequence(text, tokens, separator) <=>
         \E at \in DOMAIN text : found[at] /\ Occurs(text, text, at)
  BY DEF ContainsSequence, Finds
<1> HIDE DEF text, first, found
<1>4. Finds(found, first, text)
  BY <1>2, FindsSomething DEF found
<1>5. 1 \in DOMAIN text /\ Len(text) \in Nat
  BY <1>1, <1>2 DEF Begins, Strings
<1>6. Occurs(first, text, 1) /\ Occurs(text, text, 1)
  <2>1. Len(text) <= Len(text) /\ Len(first) <= Len(text)
    BY <1>1, <1>2, <1>5 DEF Begins
  <2>2. ASSUME NEW token \in Strings, Begins(text, token) PROVE Occurs(token, text, 1)
    <3>1. Len(token) \in Nat /\ 1 + Len(token) - 1 = Len(token)
          /\ \A i \in 1 .. Len(token) : 1 + i - 1 = i
      BY <2>2 DEF Strings
    <3> QED
      BY <1>2, <1>5, <2>2, <3>1, OccursByLetters DEF Begins
  <2>3. Begins(text, text)
    BY <2>1 DEF Begins
  <2> QED
    BY <1>1, <1>2, <2>2, <2>3
<1>7. found[1]
  <2>1. \A i \in 1 .. 1 - 1 : FALSE
    OBVIOUS
  <2> QED
    BY <1>4, <1>5, <1>6, <2>1 DEF Finds
<1> QED
  BY <1>3, <1>5, <1>6, <1>7 DEF text

\* ... and not where its first token is not.
LEMMA PhraseNeedsItsFirst ==
    ASSUME NEW text \in Strings, NEW tokens \in Seq(Strings), tokens # <<>>,
           NEW separator \in Characters, ContainsSequence(text, tokens, separator)
    PROVE  Includes(text, tokens[1])
<1> DEFINE phrase == JoinedBy(tokens, separator)
           first == tokens[1]
<1>1. PICK at \in DOMAIN text : Occurs(phrase, text, at)
  BY DEF ContainsSequence
<1>2. phrase \in Strings /\ Begins(phrase, first) /\ first \in Strings
  BY JoinedType
<1> HIDE DEF phrase, first
<1>3. /\ Len(text) \in Nat /\ Len(phrase) \in Nat /\ Len(first) \in Nat /\ at \in Nat
      /\ Len(first) <= Len(phrase)
      /\ \A i \in 1 .. Len(first) : phrase[i] = first[i]
  BY <1>2 DEF Begins, Strings
<1>4. /\ at + Len(phrase) - 1 <= Len(text)
      /\ \A i \in 1 .. Len(phrase) : text[at + i - 1] = phrase[i]
  BY <1>1, <1>2, OccursByLetters
<1>5. at + Len(first) - 1 <= Len(text)
  BY <1>3, <1>4
<1>6. ASSUME NEW i \in 1 .. Len(first) PROVE text[at + i - 1] = first[i]
  <2>1. i \in 1 .. Len(phrase)
    BY <1>3
  <2> QED
    BY <1>3, <1>4, <2>1
<1>7. Occurs(first, text, at)
  BY <1>2, <1>5, <1>6, OccursByLetters
<1> QED
  BY <1>7 DEF Includes, first

\* What a tool is worth is a sum of natural numbers: it is no less than the
\* reference, the bonus and the first token bring, and if no token brings anything
\* it is no more than the reference and the bonus.
LEMMA ScoreSum ==
    ASSUME NEW tool, NEW tokens \in Seq(Strings), NEW reference, reference.score \in Nat
    PROVE  LET base == reference.score + Bonus(tool, tokens)
           IN  /\ base \in Nat /\ Bonus(tool, tokens) \in Nat
               /\ Score(tool, tokens, reference) \in Nat
               /\ Score(tool, tokens, reference) >= base
               /\ tokens # <<>> =>
                     Score(tool, tokens, reference) >= base + TokenScore(tool, tokens[1])
               /\ (\A n \in 1 .. Len(tokens) : TokenScore(tool, tokens[n]) = 0) =>
                     Score(tool, tokens, reference) = base
<1> DEFINE L == Len(tokens)
           base == reference.score + Bonus(tool, tokens)
           G == [n \in 1 .. L |-> [v \in Nat |-> v + TokenScore(tool, tokens[n])]]
           Body(h) == [n \in 0 .. L |-> IF n = 0 THEN base
                                        ELSE h[n - 1] + TokenScore(tool, tokens[n])]
           r == CHOOSE h : h = Body(h)
           None == \A n \in 1 .. L : TokenScore(tool, tokens[n]) = 0
<1>1. L \in Nat
  OBVIOUS
<1>2. base \in Nat /\ Bonus(tool, tokens) \in Nat
  BY DEF Bonus
<1>3. \A token : TokenScore(tool, token) \in Nat
  BY DEF TokenScore, NameScore
<1>4. G \in [1 .. L -> [Nat -> Nat]]
  BY <1>3
<1>5. PICK f \in [0 .. L -> Nat] : Unfolds(f, L, base, G)
  <2> HIDE DEF L, G, base
  <2> QED
    BY <1>1, <1>2, <1>4, Unfolding
<1> HIDE DEF L, base
<1>6. f = Body(f)
  <2>1. f[0] = base /\ \A n \in 1 .. L : f[n] = G[n][f[n - 1]]
    BY <1>5 DEF Unfolds
  <2>2. ASSUME NEW n \in 1 .. L PROVE f[n] = f[n - 1] + TokenScore(tool, tokens[n])
    <3>1. n - 1 \in 0 .. L
      BY <1>1
    <3>2. f[n - 1] \in Nat
      BY <3>1
    <3> QED
      BY <2>1, <3>2
  <2>3. \A n \in 0 .. L : n = 0 \/ n \in 1 .. L
    BY <1>1
  <2> QED
    BY <1>1, <2>1, <2>2, <2>3
<1>7. r = Body(r)
  <2> HIDE DEF Body
  <2> QED
    BY <1>6
<1>8. Score(tool, tokens, reference) = r[L]
  BY DEF Score, L, base
<1> HIDE DEF r
<1> DEFINE Holds(n) == /\ r[n] \in Nat /\ r[n] >= base
                       /\ n # 0 => r[n] >= base + TokenScore(tool, tokens[1])
                       /\ None => r[n] = base
           P == {n \in Nat : n <= L => Holds(n)}
<1>9. 0 \in P
  <2>1. r[0] = base
    BY <1>1, <1>7
  <2> QED
    BY <1>2, <2>1
<1>10. ASSUME NEW n \in Nat, n \in P PROVE n + 1 \in P
  <2> SUFFICES ASSUME n + 1 <= L PROVE Holds(n + 1)
    OBVIOUS
  <2>1. n + 1 \in 0 .. L /\ n + 1 \in 1 .. L /\ (n + 1) - 1 = n /\ n + 1 # 0 /\ n <= L
    BY <1>1
  <2> DEFINE k == n + 1
             worth == TokenScore(tool, tokens[k])
  <2>2. r[k] = r[n] + worth
    BY <1>7, <2>1
  <2>3. r[n] \in Nat /\ Holds(n)
    BY <1>10, <2>1
  <2>4. worth \in Nat /\ TokenScore(tool, tokens[1]) \in Nat
    BY <1>3
  <2>5. None => worth = 0
    BY <2>1
  <2>6. n = 0 => r[n] = base /\ worth = TokenScore(tool, tokens[1])
    BY <1>1, <1>7
  <2> HIDE DEF worth, None
  <2> QED
    BY <1>2, <2>2, <2>3, <2>4, <2>5, <2>6
<1>11. \A n \in Nat : n \in P
  <2> HIDE DEF P
  <2> QED
    BY <1>9, <1>10, NaturalInduction
<1>12. Holds(L)
  <2> HIDE DEF Holds
  <2> QED
    BY <1>1, <1>11
<1>13. tokens # <<>> => L # 0
  BY DEF L
<1> QED
  BY <1>2, <1>8, <1>12, <1>13 DEF L, base

\* There is a best run of tokens that names a service, if there is any; if they all
\* spell its id, it is the whole of them.
LEMMA ReferenceScore ==
    ASSUME NEW id, NEW tokens \in Seq(Strings)
    PROVE  /\ Reference(id, tokens).score \in {0, 8, 32}
           /\ tokens # <<>> /\ RunScore(id, tokens) = 32 =>
                 /\ Reference(id, tokens).score = 32
                 /\ \A i \in DOMAIN tokens : Covers(Reference(id, tokens), i)
<1> DEFINE N == Len(tokens)
           runs == {r \in [score : {8, 32}, first : DOMAIN tokens, last : DOMAIN tokens] :
                      /\ r.first <= r.last
                      /\ r.score = RunScore(id, SubSeq(tokens, r.first, r.last))}
           Better(r, o) ==
              \/ r.score > o.score
              \/ /\ r.score = o.score
                 /\ \/ r.last - r.first > o.last - o.first
                    \/ r.last - r.first = o.last - o.first /\ r.first <= o.first
<1>1. N \in Nat /\ DOMAIN tokens = 1 .. N
  OBVIOUS
<1>2. \A r \in runs : r.score \in {8, 32} /\ r.first \in 1 .. N /\ r.last \in 1 .. N
  BY <1>1
<1>3. Reference(id, tokens) =
         IF runs = {} THEN NoReference ELSE CHOOSE r \in runs : \A o \in runs : Better(r, o)
  BY DEF Reference
<1> HIDE DEF runs
<1> DEFINE whole == [score |-> 32, first |-> 1, last |-> N]
           Spelt == tokens # <<>> /\ RunScore(id, tokens) = 32
<1>4. Spelt => whole \in runs
  <2> SUFFICES ASSUME Spelt PROVE whole \in runs
    OBVIOUS
  <2>1. SubSeq(tokens, 1, N) = tokens /\ N >= 1
    BY <1>1
  <2>2. whole \in [score : {8, 32}, first : 1 .. N, last : 1 .. N]
    BY <1>1, <2>1
  <2> QED
    BY <1>1, <2>1, <2>2 DEF runs
<1>0. CASE runs = {}
  BY <1>0, <1>3, <1>4 DEF NoReference
<1>5. CASE runs # {}
  <2> DEFINE worth == IF \E r \in runs : r.score = 32 THEN 32 ELSE 8
             A == {r \in runs : r.score = worth}
  <2>1. A # {} /\ \A o \in runs : o \in A \/ worth > o.score
    BY <1>2, <1>5
  <2> HIDE DEF worth
  <2>2. PICK r \in A : \A o \in A : r.last - r.first >= o.last - o.first
    <3> DEFINE S == {N - (o.last - o.first) : o \in A}
    <3>1. \A o \in A : N - (o.last - o.first) \in Nat
      BY <1>1, <1>2
    <3>2. S \in SUBSET Nat /\ S # {}
      BY <2>1, <3>1
    <3>3. PICK n \in S : \A m \in S : n <= m
      <4> HIDE DEF S
      <4> QED
        BY <3>2, LeastNatural
    <3>4. PICK o \in A : n = N - (o.last - o.first)
      BY <3>3
    <3>5. \A x \in A : N - (o.last - o.first) <= N - (x.last - x.first)
      BY <3>3, <3>4
    <3>6. \A x \in A : o.last - o.first >= x.last - x.first
      <4> SUFFICES ASSUME NEW x \in A PROVE o.last - o.first >= x.last - x.first
        OBVIOUS
      <4>1. /\ o.last \in 1 .. N /\ o.first \in 1 .. N /\ x.last \in 1 .. N /\ x.first \in 1 .. N
        BY <1>2
      <4>2. N - (o.last - o.first) <= N - (x.last - x.first)
        BY <3>5
      <4> HIDE DEF A, N
      <4> QED
        BY <1>1, <4>1, <4>2
    <3> QED
      BY <3>6
  <2> DEFINE B == {o \in A : o.last - o.first = r.last - r.first}
             F == {o.first : o \in B}
  <2>3. F \in SUBSET Nat /\ F # {}
    BY <1>1, <1>2
  <2>4. PICK n \in F : \A m \in F : n <= m
    <3> HIDE DEF F
    <3> QED
      BY <2>3, LeastNatural
  <2>5. PICK b \in B : n = b.first
    BY <2>4
  <2>6. ASSUME NEW o \in runs PROVE Better(b, o)
    <3>1. b \in runs /\ b.score = worth /\ b.last - b.first = r.last - r.first
      OBVIOUS
    <3>2. CASE worth > o.score
      BY <3>1, <3>2
    <3>3. CASE o \in A /\ o \in B
      <4>1. o.score = worth /\ o.last - o.first = r.last - r.first /\ b.first <= o.first
        BY <2>4, <2>5, <3>3
      <4> QED
        BY <3>1, <4>1
    <3>4. CASE o \in A /\ o \notin B
      <4>1. o.score = worth /\ r.last - r.first >= o.last - o.first
            /\ o.last - o.first # r.last - r.first
        BY <2>2, <3>4
      <4>2. r.last \in Int /\ r.first \in Int /\ o.last \in Int /\ o.first \in Int
        BY <1>2, <2>2
      <4>3. r.last - r.first > o.last - o.first
        BY <4>1, <4>2
      <4> QED
        BY <3>1, <4>1, <4>3
    <3> QED
      BY <2>1, <3>2, <3>3, <3>4
  <2> DEFINE ref == Reference(id, tokens)
  <2>7. ref \in runs /\ \A o \in runs : Better(ref, o)
    <3>1. b \in runs
      OBVIOUS
    <3> HIDE DEF Better
    <3> QED
      BY <1>3, <1>5, <2>6, <3>1
  <2>8. ASSUME Spelt PROVE ref.score = 32 /\ \A i \in 1 .. N : Covers(ref, i)
    <3> HIDE DEF ref
    <3>1. Better(ref, whole)
      <4> HIDE DEF whole, Better
      <4> QED
        BY <1>4, <2>7, <2>8
    <3>2. ref.score \in {8, 32} /\ ref.first \in 1 .. N /\ ref.last \in 1 .. N
      BY <1>2, <2>7
    <3>3. whole.score = 32 /\ whole.first = 1 /\ whole.last = N
      OBVIOUS
    <3> HIDE DEF whole
    <3>4. ref.score = 32 /\ ref.first = 1 /\ ref.last = N
      BY <1>1, <3>1, <3>2, <3>3
    <3> QED
      BY <1>1, <3>4 DEF Covers
  <2> QED
    BY <1>1, <1>2, <2>7, <2>8
<1> QED
  BY <1>0, <1>5

\* A token that is worth nothing to a tool occurs neither in its names nor in its
\* description, and the whole of such a query earns no bonus.
LEMMA NothingEarned ==
    ASSUME NEW tool \in Tools, tool.words # <<>>,
           NEW tokens \in Seq(Strings), tokens # <<>>, tokens[1] # <<>>,
           TokenScore(tool, tokens[1]) = 0
    PROVE  Bonus(tool, tokens) = 0
<1>1. tool.description \in Strings /\ Name(tool) \in Strings /\ RawName(tool) \in Strings
  BY NameType DEF Tools
<1>2. /\ ~ Includes(Name(tool), tokens[1]) /\ ~ Includes(RawName(tool), tokens[1])
      /\ ~ Includes(tool.description, tokens[1])
  BY DEF TokenScore, NameScore
<1>3. tokens # <<RawName(tool)>>
  <2> SUFFICES ASSUME tokens[1] = RawName(tool) PROVE FALSE
    OBVIOUS
  <2> QED
    BY <1>1, <1>2, OccursInItself DEF Includes
<1>4. ~ ContainsSequence(Name(tool), tokens, Underscore)
  BY <1>1, <1>2, PhraseNeedsItsFirst, CatalogsAssumption
<1>5. ~ ContainsSequence(tool.description, tokens, Space)
  BY <1>1, <1>2, PhraseNeedsItsFirst, CatalogsAssumption
<1> QED
  BY <1>3, <1>4, <1>5 DEF Bonus

\* The other way: a tool whose name words are the query earns more by its name than
\* the best reference is worth.
LEMMA NamedEarns ==
    ASSUME NEW tool \in Tools,
           NEW tokens \in Seq(Strings), tokens # <<>>, tokens[1] # <<>>,
           tool.words = tokens
    PROVE  Bonus(tool, tokens) + TokenScore(tool, tokens[1]) > 32
<1>0. Len(tokens) \in Nat /\ Len(tokens) >= 1
  OBVIOUS
<1>1. tokens[1] \in ToSet(tokens)
  BY <1>0 DEF ToSet
<1>2. TokenScore(tool, tokens[1]) \in Nat /\ TokenScore(tool, tokens[1]) >= 16
  BY <1>1 DEF TokenScore, NameScore
<1>3. CASE Len(tokens) > 1
  <2>1. ContainsSequence(Name(tool), tokens, Underscore)
    BY PhraseIsFound, CatalogsAssumption DEF Name
  <2>2. Bonus(tool, tokens) \in Nat /\ Bonus(tool, tokens) >= 24
    BY <1>3, <2>1 DEF Bonus
  <2> QED
    BY <1>2, <2>2
<1>4. CASE Len(tokens) = 1
  <2>1. Name(tool) = tokens[1]
    BY <1>4, JoinedType, CatalogsAssumption DEF Name
  <2>2. FlattenSeq(tokens) = tokens[1]
    BY <1>4, FlattenType DEF Strings
  <2>3. tokens = <<RawName(tool)>>
    BY <1>4, <2>1, <2>2 DEF RawName
  <2>4. Bonus(tool, tokens) = 32
    BY <1>4, <2>3 DEF Bonus
  <2> QED
    BY <1>2, <2>4
<1>5. Len(tokens) > 1 \/ Len(tokens) = 1
  <2>1. \A n \in Nat : n >= 1 => n > 1 \/ n = 1
    OBVIOUS
  <2> QED
    BY <1>0, <2>1, Zenon
<1> QED
  BY <1>3, <1>4, <1>5, Zenon

LEMMA NamedOutranks ==
    ASSUME NEW named \in Tools, NEW other \in Tools, other.words # <<>>,
           NEW tokens \in Seq(Strings), tokens # <<>>, tokens[1] # <<>>,
           named.words = tokens, \A n \in 1 .. Len(tokens) : TokenScore(other, tokens[n]) = 0,
           NEW r, r.score \in Nat, NEW o, o.score \in {0, 8, 32}
    PROVE  Score(named, tokens, r) > Score(other, tokens, o)
<1>1. Bonus(other, tokens) = 0
  BY NothingEarned
<1>2. o.score \in Nat /\ o.score <= 32
  OBVIOUS
<1>3. Score(other, tokens, o) = o.score + 0
  BY <1>1, <1>2, ScoreSum
<1>4. /\ Bonus(named, tokens) \in Nat
      /\ Score(named, tokens, r) \in Nat
      /\ Score(named, tokens, r) >= r.score + Bonus(named, tokens) + TokenScore(named, tokens[1])
  BY ScoreSum
<1>5. TokenScore(named, tokens[1]) \in Nat
  BY DEF TokenScore, NameScore
<1>6. Bonus(named, tokens) + TokenScore(named, tokens[1]) > 32
  BY NamedEarns
<1> QED
  BY <1>2, <1>3, <1>4, <1>5, <1>6

-----------------------------------------------------------------------------
(* Spelling *)

\* What is left of a text from a place on.
From(text, p) == SubSeq(text, p, Len(text))

LEMMA FromType ==
    ASSUME NEW text \in Strings, NEW p \in 1 .. Len(text) + 1
    PROVE  /\ From(text, p) \in Strings /\ Len(text) \in Nat
           /\ Len(From(text, p)) = Len(text) - p + 1
           /\ \A i \in 1 .. Len(text) - p + 1 : From(text, p)[i] = text[p + i - 1]
<1> DEFINE L == Len(text)
<1>1. text \in Seq(Characters) /\ L \in Nat /\ p \in Nat /\ p >= 1 /\ p <= L + 1
  BY DEF Strings
<1>2. L - p + 1 \in Nat
  BY <1>1
<1> HIDE DEF L
<1>3. /\ SubSeq(text, p, L) \in Seq(Characters) /\ Len(SubSeq(text, p, L)) = L - p + 1
      /\ \A i \in 1 .. L - p + 1 : SubSeq(text, p, L)[i] = text[p + i - 1]
  BY <1>1, <1>2 DEF L
<1> QED
  BY <1>1, <1>3 DEF From, Strings, L

LEMMA SameLetters ==
    ASSUME NEW x \in Strings, NEW y \in Strings, Len(x) = Len(y),
           \A i \in 1 .. Len(x) : x[i] = y[i]
    PROVE  x = y
BY DEF Strings

\* Some more taken off what is left.
LEMMA FromFrom ==
    ASSUME NEW text \in Strings, NEW p \in 1 .. Len(text) + 1,
           NEW n \in 0 .. Len(text) - p + 1
    PROVE  /\ p + n \in 1 .. Len(text) + 1
           /\ From(From(text, p), n + 1) = From(text, p + n)
<1> DEFINE rest == From(text, p)
           x == From(rest, n + 1)
           y == From(text, p + n)
           m == Len(text) - p + 1
<1>0. Len(text) \in Nat
  BY DEF Strings
<1>1. /\ Len(text) \in Nat /\ p \in Nat /\ n \in Nat /\ m \in Nat /\ n <= m
      /\ rest \in Strings /\ Len(rest) = m
      /\ \A i \in 1 .. m : rest[i] = text[p + i - 1]
  BY <1>0, FromType
<1>2. p + n \in 1 .. Len(text) + 1 /\ n + 1 \in 1 .. Len(rest) + 1
  BY <1>1
<1>3. /\ x \in Strings /\ Len(x) = m - (n + 1) + 1
      /\ \A i \in 1 .. m - (n + 1) + 1 : x[i] = rest[(n + 1) + i - 1]
  BY <1>1, <1>2, FromType
<1>4. /\ y \in Strings /\ Len(y) = Len(text) - (p + n) + 1
      /\ \A i \in 1 .. Len(text) - (p + n) + 1 : y[i] = text[(p + n) + i - 1]
  BY <1>1, <1>2, FromType
<1> HIDE DEF rest, x, y
<1>5. Len(x) = m - n /\ Len(y) = m - n
  BY <1>1, <1>3, <1>4
<1>6. ASSUME NEW i \in 1 .. m - n PROVE x[i] = y[i]
  <2>1. /\ i \in 1 .. m - (n + 1) + 1 /\ i \in 1 .. Len(text) - (p + n) + 1
        /\ (n + 1) + i - 1 = n + i /\ n + i \in 1 .. m
        /\ p + (n + i) - 1 = (p + n) + i - 1
    BY <1>1
  <2> QED
    BY <1>1, <1>3, <1>4, <2>1
<1> QED
  BY <1>2, <1>3, <1>4, <1>5, <1>6, SameLetters DEF rest, x, y

\* Separators are trimmed up to the first letter that is none.
LEMMA TrimmedTo ==
    ASSUME NEW text \in Strings, NEW n \in 0 .. Len(text) - 1,
           \A i \in 1 .. n : text[i] \in IdSeparators,
           text[n + 1] \notin IdSeparators
    PROVE  Trimmed(text) = From(text, n + 1)
<1> DEFINE Cut(m) == /\ \A i \in 1 .. m : text[i] \in IdSeparators
                     /\ m < Len(text) => text[m + 1] \notin IdSeparators
           c == CHOOSE m \in 0 .. Len(text) : Cut(m)
<1>1. Len(text) \in Nat /\ n \in 0 .. Len(text) /\ n < Len(text)
  BY DEF Strings
<1>2. Cut(n)
  BY <1>1
<1>3. c \in 0 .. Len(text) /\ Cut(c)
  <2> HIDE DEF Cut
  <2> QED
    BY <1>1, <1>2
<1>4. c = n
  <2> HIDE DEF c
  <2>1. CASE c < n
    <3>1. c + 1 \in 1 .. n /\ c < Len(text)
      BY <1>1, <1>3, <2>1
    <3> QED
      BY <1>3, <3>1
  <2>2. CASE c > n
    <3>1. n + 1 \in 1 .. c
      BY <1>1, <1>3, <2>2
    <3> QED
      BY <1>3, <3>1
  <2> QED
    BY <1>1, <1>3, <2>1, <2>2
<1>5. Trimmed(text) = SubSeq(text, c + 1, Len(text))
  BY DEF Trimmed
<1> QED
  BY <1>4, <1>5 DEF From

\* A token is taken off where it stands behind separators.
LEMMA TokenTaken ==
    ASSUME NEW text \in Strings, NEW p \in Nat \ {0}, NEW token \in Strings, token # <<>>,
           NEW at \in DOMAIN text, Occurs(token, text, at),
           p <= at, \A k \in p .. at - 1 : text[k] \in IdSeparators,
           text[at] \notin IdSeparators
    PROVE  /\ at + Len(token) \in 1 .. Len(text) + 1
           /\ Taken({From(text, p)}, token) = {From(text, at + Len(token))}
<1> DEFINE rest == From(text, p)
           trimmed == From(text, at)
           l == Len(token)
<1>1. /\ Len(text) \in Nat /\ at \in 1 .. Len(text) /\ l \in Nat /\ l # 0
      /\ at + l - 1 <= Len(text)
      /\ \A i \in 1 .. l : text[at + i - 1] = token[i]
  BY OccursByLetters DEF Strings
<1>2. p \in 1 .. Len(text) + 1 /\ at \in 1 .. Len(text) + 1 /\ at + l \in 1 .. Len(text) + 1
  BY <1>1
<1>3. /\ rest \in Strings /\ Len(rest) = Len(text) - p + 1
      /\ \A i \in 1 .. Len(text) - p + 1 : rest[i] = text[p + i - 1]
  BY <1>2, FromType
<1>4. /\ trimmed \in Strings /\ Len(trimmed) = Len(text) - at + 1
      /\ \A i \in 1 .. Len(text) - at + 1 : trimmed[i] = text[at + i - 1]
  BY <1>2, FromType
<1> DEFINE n == at - p
<1>5. /\ n \in 0 .. Len(rest) - 1 /\ n \in 0 .. Len(text) - p + 1 /\ p + n = at
  BY <1>1, <1>3
<1>6. ASSUME NEW i \in 1 .. n PROVE rest[i] \in IdSeparators
  <2>1. i \in 1 .. Len(text) - p + 1 /\ p + i - 1 \in p .. at - 1
    BY <1>1, <1>5
  <2> QED
    BY <1>3, <2>1
<1>7. rest[n + 1] \notin IdSeparators
  <2>1. n + 1 \in 1 .. Len(text) - p + 1 /\ p + (n + 1) - 1 = at
    BY <1>1
  <2> QED
    BY <1>3, <2>1
<1>8. Trimmed(rest) = trimmed
  <2>1. Trimmed(rest) = From(rest, n + 1)
    <3> HIDE DEF rest, n
    <3> QED
      BY <1>3, <1>5, <1>6, <1>7, TrimmedTo
  <2>2. From(rest, n + 1) = From(text, p + n)
    <3> HIDE DEF n
    <3> QED
      BY <1>2, <1>5, FromFrom
  <2> QED
    BY <1>5, <2>1, <2>2
<1> HIDE DEF rest, n
<1>9. Occurs(token, trimmed, 1) /\ IsPrefix(token, trimmed)
  <2>1. 1 \in DOMAIN trimmed /\ 1 + l - 1 = l /\ l <= Len(trimmed)
    BY <1>1, <1>4 DEF Strings
  <2>2. ASSUME NEW i \in 1 .. l PROVE trimmed[1 + i - 1] = token[i]
    <3>1. i \in 1 .. Len(text) - at + 1 /\ 1 + i - 1 = i
      BY <1>1
    <3> QED
      BY <1>1, <1>4, <3>1
  <2>3. Occurs(token, trimmed, 1)
    BY <1>4, <2>1, <2>2, OccursByLetters
  <2>4. SubSeq(trimmed, 1, l) = token
    BY <2>1, <2>3 DEF Occurs
  <2>5. SubSeq(token, 1, l) = token
    BY DEF Strings
  <2> QED
    BY <2>1, <2>3, <2>4, <2>5 DEF IsPrefix
<1>10. After(trimmed, token) = From(text, at + l)
  <2>1. l \in 0 .. Len(text) - at + 1
    BY <1>1
  <2>2. From(trimmed, l + 1) = From(text, at + l)
    BY <1>2, <2>1, FromFrom
  <2> QED
    BY <2>2 DEF After, From
<1> QED
  BY <1>2, <1>8, <1>9, <1>10 DEF Taken, rest

\* The tokens that stand in a text from one end to the other spell it.
LEMMA StandingSpells ==
    ASSUME NEW text \in Strings, text[Len(text)] \notin IdSeparators,
           NEW tokens \in Seq(Strings), tokens # <<>>, <<>> \notin ToSet(tokens),
           NEW at \in [DOMAIN tokens -> DOMAIN text], StandAt(at, tokens, text)
    PROVE  Rests(text, tokens) = {<<>>}
<1> DEFINE L == Len(tokens)
           end(n) == IF n = 0 THEN 1 ELSE at[n] + Len(tokens[n])
           f == [n \in 0 .. L |-> {From(text, end(n))}]
           Body(h) == [n \in 0 .. L |-> IF n = 0 THEN {text} ELSE Taken(h[n - 1], tokens[n])]
           r == CHOOSE h : h = Body(h)
<1>1. /\ L \in Nat /\ L # 0 /\ DOMAIN tokens = 1 .. L
      /\ Len(text) \in Nat /\ DOMAIN text = 1 .. Len(text)
      /\ \A n \in 1 .. L : tokens[n] \in Strings /\ tokens[n] # <<>>
  BY DEF ToSet, Strings
<1>2. \A n \in 1 .. L : Len(tokens[n]) \in Nat
  BY <1>1 DEF Strings
<1>3. \A n \in 1 .. L : at[n] \in 1 .. Len(text)
  BY <1>1
<1>4. \A n \in 1 .. L :
         /\ Occurs(tokens[n], text, at[n]) /\ text[at[n]] \notin IdSeparators
         /\ \A j \in n + 1 .. L : at[n] + Len(tokens[n]) <= at[j]
  BY <1>1 DEF StandAt
<1>5. \A k \in 1 .. Len(text) :
         \/ text[k] \in IdSeparators
         \/ \E i \in 1 .. L : k \in at[i] .. at[i] + Len(tokens[i]) - 1
  BY <1>1 DEF StandAt
<1> HIDE DEF L
<1>6. ASSUME NEW n \in 1 .. L
      PROVE  /\ end(n - 1) \in Nat \ {0} /\ end(n - 1) <= at[n]
             /\ \A k \in end(n - 1) .. at[n] - 1 : text[k] \in IdSeparators
  <2>1. CASE n = 1
    <3>1. end(n - 1) = 1 /\ n + 1 \in Nat
      BY <2>1
    <3>2. 1 <= at[n] /\ at[n] \in Nat
      BY <1>3
    <3>3. ASSUME NEW k \in 1 .. at[n] - 1 PROVE text[k] \in IdSeparators
      <4>1. k \in 1 .. Len(text)
        BY <1>1, <1>3, <3>2
      <4> SUFFICES ASSUME NEW i \in 1 .. L, k \in at[i] .. at[i] + Len(tokens[i]) - 1
                   PROVE  FALSE
        BY <1>5, <4>1
      <4>2. at[i] <= k /\ at[i] \in Nat /\ at[1] \in Nat /\ Len(tokens[1]) \in Nat
        BY <1>1, <1>2, <1>3
      <4>3. i # 1
        BY <2>1, <3>2, <4>2
      <4>4. 1 \in 1 .. L /\ i \in 1 + 1 .. L
        BY <1>1, <4>3
      <4>5. at[1] + Len(tokens[1]) <= at[i]
        BY <1>4, <4>4
      <4> QED
        BY <2>1, <4>2, <4>5
    <3> HIDE DEF end
    <3> QED
      BY <3>1, <3>2, <3>3
  <2>2. CASE n # 1
    <3> DEFINE m == n - 1
    <3>1. m \in 1 .. L /\ m # 0 /\ n \in m + 1 .. L
      BY <1>1, <2>2
    <3>2. end(m) = at[m] + Len(tokens[m])
      BY <3>1
    <3> HIDE DEF m, end
    <3>3. /\ at[m] \in Nat /\ at[m] >= 1 /\ Len(tokens[m]) \in Nat /\ end(m) <= at[n]
          /\ at[n] \in 1 .. Len(text)
      BY <1>2, <1>3, <1>4, <3>1, <3>2
    <3>4. end(m) \in Nat
      BY <3>2, <3>3
    <3>5. ASSUME NEW k \in end(m) .. at[n] - 1 PROVE text[k] \in IdSeparators
      <4>1. k \in 1 .. Len(text)
        BY <1>1, <3>2, <3>3
      <4> SUFFICES ASSUME NEW i \in 1 .. L, k \in at[i] .. at[i] + Len(tokens[i]) - 1
                   PROVE  FALSE
        BY <1>5, <4>1
      <4>2. /\ at[i] \in Nat /\ Len(tokens[i]) \in Nat
            /\ at[i] <= k /\ k <= at[i] + Len(tokens[i]) - 1
            /\ end(m) <= k /\ k <= at[n] - 1
        <5>1. at[i] \in Nat /\ at[n] \in Nat
          BY <1>3
        <5>2. k \in end(m) .. at[n] - 1 /\ k \in at[i] .. at[i] + Len(tokens[i]) - 1
          OBVIOUS
        <5> QED
          BY <1>2, <3>4, <5>1, <5>2
      <4>3. CASE i < m
        <5>1. m \in i + 1 .. L
          BY <1>1, <3>1, <4>3
        <5>2. at[i] + Len(tokens[i]) <= at[m]
          BY <1>4, <5>1
        <5> QED
          BY <3>2, <3>3, <4>2, <5>2
      <4>4. CASE i = m
        BY <3>2, <3>3, <4>2, <4>4
      <4>5. CASE i = n
        BY <3>3, <4>2, <4>5
      <4>6. CASE i > n
        <5>1. i \in n + 1 .. L
          BY <1>1, <4>6
        <5>2. at[n] + Len(tokens[n]) <= at[i] /\ Len(tokens[n]) \in Nat
          BY <1>2, <1>4, <5>1
        <5> QED
          BY <3>3, <4>2, <5>2
      <4>7. i < m \/ i = m \/ i = n \/ i > n
        BY <1>1 DEF m
      <4> QED
        BY <4>3, <4>4, <4>5, <4>6, <4>7
    <3> QED
      BY <3>2, <3>3, <3>5 DEF m
  <2> QED
    BY <2>1, <2>2
<1>7. ASSUME NEW n \in 1 .. L
      PROVE  /\ end(n) \in 1 .. Len(text) + 1
             /\ Taken({From(text, end(n - 1))}, tokens[n]) = {From(text, end(n))}
  <2> DEFINE p == end(n - 1)
             a == at[n]
             token == tokens[n]
  <2>1. /\ p \in Nat \ {0} /\ p <= a /\ \A k \in p .. a - 1 : text[k] \in IdSeparators
        /\ token \in Strings /\ token # <<>> /\ a \in DOMAIN text /\ Occurs(token, text, a)
        /\ text[a] \notin IdSeparators
    BY <1>1, <1>3, <1>4, <1>6
  <2>2. end(n) = a + Len(token)
    OBVIOUS
  <2> HIDE DEF p, a, token
  <2>3. /\ a + Len(token) \in 1 .. Len(text) + 1
        /\ Taken({From(text, p)}, token) = {From(text, a + Len(token))}
    BY <2>1, TokenTaken
  <2> QED
    BY <2>2, <2>3 DEF p, token
<1> HIDE DEF end
<1>8. From(text, end(0)) = text
  <2>1. end(0) = 1 /\ 1 \in 1 .. Len(text) + 1 /\ Len(text) - 1 + 1 = Len(text)
    BY <1>1 DEF end
  <2> DEFINE x == From(text, 1)
  <2>2. /\ x \in Strings /\ Len(x) = Len(text) - 1 + 1
        /\ \A i \in 1 .. Len(text) - 1 + 1 : x[i] = text[1 + i - 1]
    BY <2>1, FromType
  <2> HIDE DEF x
  <2>3. x \in Strings /\ Len(x) = Len(text) /\ \A i \in 1 .. Len(text) : x[i] = text[i]
    <3>1. \A i \in 1 .. Len(text) : 1 + i - 1 = i
      OBVIOUS
    <3> QED
      BY <1>1, <2>1, <2>2, <3>1
  <2> QED
    BY <2>1, <2>3, SameLetters DEF x
<1>9. f = Body(f)
  <2>1. ASSUME NEW n \in 0 .. L
        PROVE  f[n] = IF n = 0 THEN {text} ELSE Taken(f[n - 1], tokens[n])
    <3>1. CASE n = 0
      BY <1>8, <3>1
    <3>2. CASE n # 0
      <4>1. n \in 1 .. L /\ n - 1 \in 0 .. L
        BY <1>1, <3>2
      <4>2. f[n] = {From(text, end(n))} /\ f[n - 1] = {From(text, end(n - 1))}
        BY <4>1
      <4> QED
        BY <1>7, <3>2, <4>1, <4>2
    <3> QED
      BY <3>1, <3>2
  <2> HIDE DEF f
  <2>2. f = [n \in 0 .. L |-> f[n]]
    BY DEF f
  <2> QED
    BY <2>1, <2>2
<1>10. r = Body(r)
  <2> HIDE DEF Body
  <2> QED
    BY <1>9
<1>11. Rests(text, tokens) = r[L]
  BY DEF Rests, L
<1> HIDE DEF r, f
<1> DEFINE P == {n \in Nat : n <= L => r[n] = f[n]}
<1>12. 0 \in P
  BY <1>1, <1>9, <1>10
<1>13. ASSUME NEW n \in Nat, n \in P PROVE n + 1 \in P
  <2> SUFFICES ASSUME n + 1 <= L PROVE r[n + 1] = f[n + 1]
    OBVIOUS
  <2>1. n + 1 \in 0 .. L /\ (n + 1) - 1 = n /\ n + 1 # 0 /\ n <= L
    BY <1>1
  <2>2. r[n + 1] = Taken(r[n], tokens[n + 1]) /\ f[n + 1] = Taken(f[n], tokens[n + 1])
    BY <1>9, <1>10, <2>1
  <2> QED
    BY <1>13, <2>1, <2>2
<1>14. \A n \in Nat : n \in P
  <2> HIDE DEF P
  <2> QED
    BY <1>12, <1>13, NaturalInduction
<1>15. r[L] = {From(text, end(L))}
  <2>1. r[L] = f[L] /\ L \in 0 .. L
    BY <1>1, <1>14
  <2> QED
    BY <2>1 DEF f
<1>16. end(L) = Len(text) + 1
  <2>1. L \in 1 .. L /\ Len(text) \in 1 .. Len(text)
    BY <1>1, <1>3
  <2>2. PICK i \in 1 .. L : Len(text) \in at[i] .. at[i] + Len(tokens[i]) - 1
    BY <1>5, <2>1
  <2>3. /\ at[i] \in Nat /\ Len(tokens[i]) \in Nat /\ at[L] \in Nat /\ at[L] <= Len(text)
        /\ Len(text) <= at[i] + Len(tokens[i]) - 1
    BY <1>1, <1>2, <1>3, <2>1, <2>2
  <2>4. CASE i # L
    <3>1. L \in i + 1 .. L
      BY <1>1, <2>4
    <3>2. at[i] + Len(tokens[i]) <= at[L]
      BY <1>4, <3>1
    <3> QED
      BY <1>1, <2>3, <3>2
  <2>5. CASE i = L
    <3>1. end(L) = at[L] + Len(tokens[L]) /\ end(L) \in 1 .. Len(text) + 1
      BY <1>1, <1>7, <2>1 DEF end
    <3>2. at[L] + Len(tokens[L]) >= Len(text) + 1
      BY <1>1, <2>3, <2>5
    <3> QED
      BY <1>1, <3>1, <3>2
  <2> QED
    BY <2>4, <2>5
<1>17. From(text, Len(text) + 1) = <<>>
  <2>1. /\ Len(text) + 1 \in 1 .. Len(text) + 1 /\ Len(text) - (Len(text) + 1) + 1 = 0
    BY <1>1
  <2>2. From(text, Len(text) + 1) \in Strings /\ Len(From(text, Len(text) + 1)) = 0
    BY <2>1, FromType
  <2> QED
    BY <2>2 DEF Strings
<1> QED
  BY <1>11, <1>15, <1>16, <1>17

\* An id is not empty, and neither begins nor ends with a separator.
Proper(id) ==
    /\ id \in Strings /\ id # <<>>
    /\ id[1] \notin IdSeparators /\ id[Len(id)] \notin IdSeparators

\* The tokens of a query.
Tokens(tokens) == tokens \in Seq(Strings) /\ <<>> \notin ToSet(tokens)

\* What the whole of an id is spelled by.
LEMMA SpelledOut ==
    ASSUME NEW id, Proper(id), NEW tokens, Tokens(tokens), SpellsOut(tokens, id)
    PROVE  tokens # <<>> /\ Rests(id, tokens) = {<<>>}
<1>1. PICK at \in [DOMAIN tokens -> DOMAIN id] : StandAt(at, tokens, id)
  BY DEF SpellsOut
<1>2. tokens # <<>>
  <2>1. Len(id) \in DOMAIN id
    BY DEF Proper, Strings
  <2>2. \E i \in DOMAIN tokens : Len(id) \in at[i] .. at[i] + Len(tokens[i]) - 1
    BY <1>1, <2>1 DEF StandAt, Proper
  <2> QED
    BY <2>2
<1> QED
  BY <1>1, <1>2, StandingSpells DEF Proper, Tokens

\* An id that begins with the brand word is spelled by the rest of the tokens, once
\* the brand word is dropped on either side.
LEMMA BrandDropped ==
    ASSUME NEW id, Proper(id), NEW tokens, Tokens(tokens), SpellsOut(tokens, id),
           tokens # <<>>, tokens[1] = Brand, id # Brand
    PROVE  /\ Tail(tokens) # <<>>
           /\ After(id, Brand) \in Targets(id)
           /\ Rests(After(id, Brand), Tail(tokens)) = {<<>>}
<1> DEFINE L == Len(tokens)
           B == Len(Brand)
           N == Len(id)
           tail == Tail(tokens)
           rest == From(id, B + 1)
<1>1. PICK at \in [DOMAIN tokens -> DOMAIN id] : StandAt(at, tokens, id)
  BY DEF SpellsOut
<1>2. /\ L \in Nat /\ L >= 1 /\ DOMAIN tokens = 1 .. L
      /\ N \in Nat /\ N >= 1 /\ DOMAIN id = 1 .. N /\ id \in Strings
      /\ Brand \in Strings /\ B \in Nat /\ B >= 1
  BY DEF Proper, Tokens, Strings, ToSet
<1>3. \A n \in 1 .. L : /\ tokens[n] \in Strings /\ tokens[n] # <<>>
                        /\ Len(tokens[n]) \in Nat
  <2>1. tokens \in Seq(Strings) /\ <<>> \notin ToSet(tokens)
    BY DEF Tokens
  <2>2. \A n \in 1 .. L : tokens[n] \in Strings
    BY <2>1
  <2>3. \A n \in 1 .. L : tokens[n] # <<>>
    BY <1>2, <2>1 DEF ToSet
  <2>4. \A n \in 1 .. L : Len(tokens[n]) \in Nat
    BY <2>2 DEF Strings
  <2> QED
    BY <2>2, <2>3, <2>4
<1>4. \A n \in 1 .. L : at[n] \in 1 .. N
  BY <1>2
<1>5. \A n \in 1 .. L :
         /\ Occurs(tokens[n], id, at[n]) /\ id[at[n]] \notin IdSeparators
         /\ \A j \in n + 1 .. L : at[n] + Len(tokens[n]) <= at[j]
  BY <1>1, <1>2 DEF StandAt
<1>6. \A k \in 1 .. N :
         \/ id[k] \in IdSeparators
         \/ \E i \in 1 .. L : k \in at[i] .. at[i] + Len(tokens[i]) - 1
  BY <1>1, <1>2 DEF StandAt
<1> HIDE DEF L, B, N
<1>7. at[1] = 1
  <2>1. PICK i \in 1 .. L : 1 \in at[i] .. at[i] + Len(tokens[i]) - 1
    <3>1. 1 \in 1 .. N /\ id[1] \notin IdSeparators
      BY <1>2 DEF Proper
    <3> QED
      BY <1>6, <3>1
  <2>2. at[i] <= 1 /\ at[i] \in Nat /\ at[1] \in Nat /\ at[1] >= 1 /\ 1 \in 1 .. L
    BY <1>2, <1>3, <1>4, <2>1
  <2>3. CASE i # 1
    <3>1. i \in 1 + 1 .. L
      BY <1>2, <2>3
    <3>2. at[1] + B <= at[i]
      BY <1>5, <2>2, <3>1 DEF B
    <3> QED
      BY <1>2, <2>2, <3>2
  <2> QED
    BY <1>4, <2>2, <2>3
<1>8. /\ B <= N /\ \A i \in 1 .. B : id[i] = Brand[i]
      /\ SubSeq(id, 1, B) = Brand
  <2>1. Occurs(Brand, id, 1) /\ 1 \in DOMAIN id
    BY <1>2, <1>5, <1>7
  <2>2. 1 + B - 1 = B /\ \A i \in 1 .. B : 1 + i - 1 = i
    BY <1>2
  <2> QED
    BY <1>2, <2>1, <2>2, OccursByLetters DEF Occurs, B, N
<1>9. B < N
  <2> SUFFICES ASSUME B = N PROVE FALSE
    BY <1>2, <1>8
  <2> QED
    BY <1>2, <1>8, SameLetters DEF B, N
<1>10. After(id, Brand) = rest /\ rest \in Targets(id)
  <2>1. SubSeq(Brand, 1, B) = Brand
    BY <1>2 DEF B, Strings
  <2>2. IsStrictPrefix(Brand, id)
    BY <1>8, <2>1 DEF IsStrictPrefix, IsPrefix, B, N
  <2>3. After(id, Brand) = rest
    BY DEF After, From, B
  <2> QED
    BY <2>2, <2>3 DEF Targets
<1>11. /\ rest \in Strings /\ Len(rest) = N - B
       /\ \A i \in 1 .. N - B : rest[i] = id[B + i]
  <2>1. B + 1 \in 1 .. N + 1 /\ N - (B + 1) + 1 = N - B
    BY <1>2, <1>9
  <2>2. \A i \in 1 .. N - B : (B + 1) + i - 1 = B + i
    BY <1>2
  <2>3. /\ rest \in Strings /\ Len(rest) = N - (B + 1) + 1
        /\ \A i \in 1 .. N - (B + 1) + 1 : rest[i] = id[(B + 1) + i - 1]
    BY <1>2, <2>1, FromType DEF N
  <2> HIDE DEF rest
  <2> QED
    BY <2>1, <2>2, <2>3
<1>12. /\ DOMAIN rest = 1 .. N - B
       /\ rest[Len(rest)] \notin IdSeparators
  <2>1. N - B \in 1 .. N - B /\ B + (N - B) = N
    BY <1>2, <1>9
  <2>2. rest[N - B] = id[N]
    BY <1>11, <2>1
  <2> QED
    BY <1>11, <2>2 DEF Proper, N, Strings
<1>13. L >= 2
  <2>1. PICK i \in 1 .. L : N \in at[i] .. at[i] + Len(tokens[i]) - 1
    <3>1. N \in 1 .. N /\ id[N] \notin IdSeparators
      BY <1>2 DEF Proper, N
    <3> QED
      BY <1>6, <3>1
  <2>2. N <= at[i] + Len(tokens[i]) - 1
    BY <1>3, <1>4, <2>1
  <2>3. CASE i = 1
    <3>1. N <= 1 + B - 1
      BY <1>7, <2>2, <2>3 DEF B
    <3> QED
      BY <1>2, <1>9, <3>1
  <2> QED
    BY <1>2, <2>3
<1>14. /\ tail \in Seq(Strings) /\ Len(tail) = L - 1 /\ DOMAIN tail = 1 .. L - 1 /\ tail # <<>>
       /\ \A i \in 1 .. L - 1 : tail[i] = tokens[i + 1]
  <2>1. tokens \in Seq(Strings) /\ tokens # <<>>
    BY DEF Tokens
  <2>2. /\ tail \in Seq(Strings) /\ Len(tail) = L - 1
        /\ \A i \in 1 .. L - 1 : tail[i] = tokens[i + 1]
    BY <2>1 DEF L
  <2> HIDE DEF tail
  <2>3. Len(tail) # 0
    BY <1>2, <1>13, <2>2
  <2>4. DOMAIN tail = 1 .. Len(tail)
    BY <2>2
  <2>5. tail # <<>>
    BY <2>3
  <2> QED
    BY <2>2, <2>4, <2>5
<1>15. <<>> \notin ToSet(tail)
  <2>1. ASSUME NEW i \in 1 .. L - 1 PROVE tail[i] # <<>>
    <3>1. i + 1 \in 1 .. L
      BY <1>2
    <3> QED
      BY <1>3, <1>14, <3>1
  <2> HIDE DEF tail
  <2> QED
    BY <1>14, <2>1 DEF ToSet
<1> DEFINE at2 == [i \in 1 .. L - 1 |-> at[i + 1] - B]
<1>16. ASSUME NEW i \in 1 .. L - 1
       PROVE  /\ i + 1 \in 1 .. L /\ at[i + 1] \in 1 .. N /\ at[i + 1] >= B + 1
              /\ at2[i] = at[i + 1] - B /\ at2[i] \in 1 .. N - B
  <2>1. i + 1 \in 1 .. L /\ i + 1 \in 1 + 1 .. L /\ 1 \in 1 .. L
    BY <1>2
  <2>2. at[i + 1] \in 1 .. N
    BY <1>4, <2>1
  <2>3. at[1] + B <= at[i + 1]
    BY <1>5, <2>1 DEF B
  <2> QED
    BY <1>2, <1>7, <2>1, <2>2, <2>3
<1>17. at2 \in [DOMAIN tail -> DOMAIN rest]
  <2> HIDE DEF tail, rest
  <2> QED
    BY <1>12, <1>14, <1>16
<1> HIDE DEF tail, rest, at2
<1>18. ASSUME NEW i \in 1 .. L - 1
       PROVE  /\ Occurs(tail[i], rest, at2[i])
              /\ rest[at2[i]] \notin IdSeparators
              /\ \A j \in i + 1 .. Len(tail) : at2[i] + Len(tail[i]) <= at2[j]
  <2> DEFINE a == at[i + 1]
             token == tokens[i + 1]
             l == Len(token)
  <2>1. /\ i + 1 \in 1 .. L /\ a \in 1 .. N /\ a >= B + 1 /\ at2[i] = a - B
        /\ at2[i] \in 1 .. N - B /\ tail[i] = token /\ token \in Strings /\ l \in Nat
    BY <1>3, <1>14, <1>16
  <2>2. Occurs(token, id, a) /\ id[a] \notin IdSeparators
    BY <1>5, <2>1
  <2>3. \A j \in (i + 1) + 1 .. L : a + l <= at[j]
    BY <1>5, <2>1
  <2> HIDE DEF a, token, l
  <2>4. a + l - 1 <= N /\ \A k \in 1 .. l : id[a + k - 1] = token[k]
    <3>1. id \in Strings /\ token \in Strings /\ a \in DOMAIN id
      BY <1>2, <2>1
    <3> QED
      BY <2>2, <3>1, OccursByLetters DEF l, N
  <2>5. (a - B) + l - 1 <= N - B
    BY <1>2, <2>1, <2>4
  <2>6. ASSUME NEW k \in 1 .. l PROVE rest[(a - B) + k - 1] = token[k]
    <3>1. (a - B) + k - 1 \in 1 .. N - B /\ B + ((a - B) + k - 1) = a + k - 1
      BY <1>2, <2>1, <2>5
    <3> QED
      BY <1>11, <2>4, <3>1
  <2>7. Occurs(token, rest, a - B)
    <3>1. a - B \in DOMAIN rest
      BY <1>12, <2>1
    <3> QED
      BY <1>11, <2>1, <2>5, <2>6, <3>1, OccursByLetters DEF l
  <2>8. rest[a - B] \notin IdSeparators
    <3>1. a - B \in 1 .. N - B /\ B + (a - B) = a
      BY <1>2, <2>1
    <3> QED
      BY <1>11, <2>2, <3>1
  <2>9. ASSUME NEW j \in i + 1 .. L - 1 PROVE (a - B) + l <= at2[j]
    <3>1. j \in 1 .. L - 1 /\ j + 1 \in (i + 1) + 1 .. L
      BY <1>2
    <3>2. at2[j] = at[j + 1] - B /\ at[j + 1] \in 1 .. N
      BY <1>16, <3>1
    <3>3. a + l <= at[j + 1]
      BY <2>3, <3>1
    <3> QED
      BY <1>2, <2>1, <3>2, <3>3
  <2> QED
    BY <1>14, <2>1, <2>7, <2>8, <2>9 DEF l
<1>19. ASSUME NEW k \in 1 .. N - B, rest[k] \notin IdSeparators
       PROVE  \E i \in 1 .. L - 1 : k \in at2[i] .. at2[i] + Len(tail[i]) - 1
  <2>1. B + k \in 1 .. N /\ rest[k] = id[B + k]
    BY <1>2, <1>11
  <2>2. PICK i \in 1 .. L : B + k \in at[i] .. at[i] + Len(tokens[i]) - 1
    BY <1>6, <1>19, <2>1
  <2>3. /\ at[i] \in Nat /\ Len(tokens[i]) \in Nat
        /\ at[i] <= B + k /\ B + k <= at[i] + Len(tokens[i]) - 1
    BY <1>2, <1>3, <1>4, <2>2
  <2>4. i # 1
    <3> SUFFICES ASSUME i = 1 PROVE FALSE
      OBVIOUS
    <3>1. B + k <= 1 + B - 1
      BY <1>7, <2>3 DEF B
    <3> QED
      BY <1>2, <3>1
  <2> DEFINE m == i - 1
  <2>5. m \in 1 .. L - 1 /\ m + 1 = i
    BY <1>2, <2>4
  <2>6. at2[m] = at[i] - B /\ tail[m] = tokens[i]
    BY <1>14, <1>16, <2>5
  <2>7. k \in at2[m] .. at2[m] + Len(tail[m]) - 1
    BY <1>2, <2>3, <2>6
  <2> QED
    BY <2>5, <2>7
<1>20. StandAt(at2, tail, rest)
  BY <1>12, <1>14, <1>18, <1>19 DEF StandAt
<1>21. Rests(rest, tail) = {<<>>}
  BY <1>11, <1>12, <1>14, <1>15, <1>17, <1>20, StandingSpells
<1> QED
  BY <1>10, <1>14, <1>21 DEF tail, rest

\* A run that spells what an id may be spelled as is worth the most.
LEMMA RunSpells ==
    ASSUME NEW id, NEW run, NEW spelled, spelled # <<>>,
           spelled = IF Head(run) = Brand THEN Tail(run) ELSE run,
           NEW target \in Targets(id), Rests(target, spelled) = {<<>>}
    PROVE  RunScore(id, run) = 32
<1> DEFINE S == {SpellingScore(t, spelled) : t \in Targets(id)}
<1>1. SpellingScore(target, spelled) = 32
  <2>1. Rests(target, spelled) # {}
    OBVIOUS
  <2> QED
    BY <2>1 DEF SpellingScore
<1>2. \A t : SpellingScore(t, spelled) \in {0, 8, 32}
  BY DEF SpellingScore
<1>3. 32 \in S /\ \A y \in S : y \in {0, 8, 32}
  BY <1>1, <1>2
<1>4. RunScore(id, run) = Max(S)
  BY DEF RunScore
<1> HIDE DEF S
<1>5. Max(S) = 32
  BY <1>3 DEF Max
<1> QED
  BY <1>4, <1>5

\* A query that spells out an id, the brand word before it or not, is a run that
\* names the service.
LEMMA QuerySpells ==
    ASSUME NEW id, Proper(id), NEW tokens, Tokens(tokens), tokens # <<>>, id # Brand,
           \/ SpellsOut(tokens, id)
           \/ Head(tokens) = Brand /\ SpellsOut(Tail(tokens), id)
    PROVE  RunScore(id, tokens) = 32
<1>0. Head(tokens) = tokens[1] /\ id \in Targets(id)
  BY DEF Tokens, Targets
<1>1. CASE Head(tokens) # Brand
  <2>1. tokens # <<>> /\ Rests(id, tokens) = {<<>>}
    BY <1>1, SpelledOut
  <2> QED
    BY <1>0, <1>1, <2>1, RunSpells
<1>2. CASE Head(tokens) = Brand /\ SpellsOut(tokens, id)
  <2>1. /\ Tail(tokens) # <<>> /\ After(id, Brand) \in Targets(id)
        /\ Rests(After(id, Brand), Tail(tokens)) = {<<>>}
    BY <1>0, <1>2, BrandDropped
  <2> QED
    BY <1>2, <2>1, RunSpells
<1>3. CASE Head(tokens) = Brand /\ SpellsOut(Tail(tokens), id)
  <2>1. Tokens(Tail(tokens))
    <3>1. /\ Tail(tokens) \in Seq(Strings)
          /\ \A i \in DOMAIN Tail(tokens) : i + 1 \in DOMAIN tokens
                                           /\ Tail(tokens)[i] = tokens[i + 1]
      BY DEF Tokens
    <3> QED
      BY <3>1 DEF Tokens, ToSet
  <2>2. Tail(tokens) # <<>> /\ Rests(id, Tail(tokens)) = {<<>>}
    BY <1>3, <2>1, SpelledOut
  <2> QED
    BY <1>0, <1>3, <2>2, RunSpells
<1> QED
  BY <1>1, <1>2, <1>3

-----------------------------------------------------------------------------
(* Sizes *)

\* What corresponds one to one has the same size.
LEMMA SameSize ==
    ASSUME NEW S, NEW T, IsFiniteSet(S), NEW f \in [S -> T],
           \A x, y \in S : f[x] = f[y] => x = y,
           \A z \in T : \E x \in S : f[x] = z
    PROVE  IsFiniteSet(T) /\ Cardinality(T) = Cardinality(S)
<1>1. f \in Bijection(S, T)
  BY DEF Bijection, Injection, Surjection, IsInjective
<1> QED
  BY <1>1, FS_Bijection DEF ExistsBijection

\* The size of an initial stretch of the natural numbers.
LEMMA StretchSize ==
    ASSUME NEW n \in Nat
    PROVE  IsFiniteSet(1 .. n) /\ Cardinality(1 .. n) = n
BY FS_Interval

\* A sequence of the elements of a set, each once, has them all.
LEMMA Enumeration ==
    ASSUME NEW S, IsFiniteSet(S), NEW p \in SetToSeqs(S)
    PROVE  /\ Cardinality(S) \in Nat
           /\ p \in Seq(S) /\ DOMAIN p = 1 .. Cardinality(S) /\ Len(p) = Cardinality(S)
           /\ \A i, j \in DOMAIN p : p[i] = p[j] => i = j
           /\ ToSet(p) = S
<1> DEFINE n == Cardinality(S)
           D == 1 .. n
<1>1. n \in Nat
  BY FS_CardinalityType
<1>2. p \in [D -> S] /\ \A i, j \in D : p[i] = p[j] => i = j
  BY DEF SetToSeqs
<1>3. IsFiniteSet(D) /\ Cardinality(D) = n
  BY <1>1, StretchSize
<1> HIDE DEF n, D
<1>4. p \in Injection(D, S)
  BY <1>2 DEF Injection, IsInjective
<1>5. p \in Surjection(D, S)
  <2>1. Cardinality(D) = Cardinality(S)
    BY <1>3 DEF n
  <2> QED
    BY <1>4, <2>1, FS_Injection
<1>6. ToSet(p) = S
  BY <1>2, <1>5 DEF ToSet, Surjection
<1>7. p \in Seq(S) /\ Len(p) = n
  BY <1>1, <1>2 DEF D
<1> QED
  BY <1>1, <1>2, <1>6, <1>7 DEF n, D

-----------------------------------------------------------------------------
(* The ranking *)

\* The arguments of search_with.
InputInv ==
    /\ catalog \in Catalogs
    /\ query \in Seq(Strings) /\ <<>> \notin ToSet(query)
    /\ limit \in Nat

\* All that matches, each with its score.
Ranked == {Candidate(i, query) : i \in Matching(query)}

\* The order of candidates is strict, and total on different tools.
LEMMA BeforeOrders ==
    ASSUME NEW x, NEW y, NEW z,
           x.score \in Nat, y.score \in Nat, z.score \in Nat,
           x.tool \in Nat, y.tool \in Nat, z.tool \in Nat
    PROVE  /\ ~ (Before(x, y) /\ Before(y, x))
           /\ Before(x, y) /\ Before(y, z) => Before(x, z)
           /\ x.tool # y.tool => Before(x, y) \/ Before(y, x)
BY DEF Before

\* A tool has one candidate, and there are as many as tools that match.
LEMMA Ranking ==
    ASSUME InputInv
    PROVE  /\ Matching(query) \subseteq 1 .. Len(Index) /\ Len(Index) \in Nat
           /\ IsFiniteSet(Matching(query)) /\ IsFiniteSet(Ranked)
           /\ Cardinality(Matching(query)) \in Nat
           /\ Cardinality(Ranked) = Cardinality(Matching(query))
           /\ \A x \in Ranked : /\ x.score \in Nat /\ x.tool \in Nat
                                /\ x.tool \in Matching(query)
                                /\ x = Candidate(x.tool, query)
<1>1. Len(Index) \in Nat /\ DOMAIN Index = 1 .. Len(Index)
  BY IndexType DEF InputInv, Index
<1>2. Matching(query) \subseteq 1 .. Len(Index)
  BY <1>1 DEF Matching
<1>3. IsFiniteSet(Matching(query))
  BY <1>1, <1>2, StretchSize, FS_Subset
<1>4. Cardinality(Matching(query)) \in Nat
  BY <1>3, FS_CardinalityType
<1>5. \A i \in Matching(query) :
         /\ Candidate(i, query).score \in Nat
         /\ Candidate(i, query).tool = i /\ i \in Nat
  <2> SUFFICES ASSUME NEW i \in Matching(query)
               PROVE  /\ Candidate(i, query).score \in Nat
                      /\ Candidate(i, query).tool = i /\ i \in Nat
    OBVIOUS
  <2>1. ScoreOf(i, query) \in Nat
    <3> DEFINE reference == Reference(catalog[Index[i].service].id, query)
    <3>1. reference.score \in Nat
      BY ReferenceScore DEF InputInv
    <3> HIDE DEF reference
    <3>2. Score(Index[i].tool, query, reference) \in Nat
      BY <3>1, ScoreSum DEF InputInv
    <3> QED
      BY <3>2 DEF ScoreOf, reference
  <2> QED
    BY <1>1, <1>2, <2>1 DEF Candidate
<1> DEFINE f == [i \in Matching(query) |-> Candidate(i, query)]
<1>6. f \in [Matching(query) -> Ranked]
  BY DEF Ranked
<1>7. \A x, y \in Matching(query) : f[x] = f[y] => x = y
  BY <1>5
<1>8. \A z \in Ranked : \E x \in Matching(query) : f[x] = z
  BY DEF Ranked
<1> HIDE DEF f
<1>9. IsFiniteSet(Ranked) /\ Cardinality(Ranked) = Cardinality(Matching(query))
  BY <1>3, <1>6, <1>7, <1>8, SameSize
<1>10. \A x \in Ranked : /\ x.score \in Nat /\ x.tool \in Nat
                         /\ x.tool \in Matching(query)
                         /\ x = Candidate(x.tool, query)
  <2> SUFFICES ASSUME NEW i \in Matching(query), NEW x, x = Candidate(i, query)
               PROVE  /\ x.score \in Nat /\ x.tool \in Nat
                      /\ x.tool \in Matching(query)
                      /\ x = Candidate(x.tool, query)
    BY DEF Ranked
  <2> QED
    BY <1>5
<1> QED
  BY <1>1, <1>2, <1>3, <1>4, <1>9, <1>10

LEMMA CandidateOf ==
    ASSUME NEW i, NEW tokens
    PROVE  Candidate(i, tokens).tool = i /\ Candidate(i, tokens).score = ScoreOf(i, tokens)
BY DEF Candidate

\* When all are scored, what is named by the query is before what is not.
LEMMA NamedIsFirst ==
    ASSUME InputInv, query # <<>>,
           NEW x \in Ranked, NEW y \in Ranked,
           Index[x.tool].tool.words = query,
           \A token \in ToSet(query) : TokenScore(Index[y.tool].tool, token) = 0
    PROVE  x.score > y.score
<1>1. /\ x = Candidate(x.tool, query) /\ y = Candidate(y.tool, query)
      /\ x.tool \in DOMAIN Index /\ y.tool \in DOMAIN Index
  BY Ranking, IndexType DEF InputInv, Index
<1> DEFINE named == Index[x.tool].tool
           other == Index[y.tool].tool
           r == Reference(catalog[Index[x.tool].service].id, query)
           o == Reference(catalog[Index[y.tool].service].id, query)
<1>2. named \in Tools /\ other \in Tools /\ other.words # <<>>
  BY <1>1, IndexType DEF InputInv, Index
<1>3. /\ query \in Seq(Strings) /\ query[1] # <<>>
      /\ \A n \in 1 .. Len(query) : query[n] \in ToSet(query)
  BY DEF InputInv, ToSet
<1>4. r.score \in Nat /\ o.score \in {0, 8, 32}
  BY <1>3, ReferenceScore
<1>5. x.score = Score(named, query, r) /\ y.score = Score(other, query, o)
  BY <1>1, CandidateOf DEF ScoreOf
<1>6. named.words = query /\ \A n \in 1 .. Len(query) : TokenScore(other, query[n]) = 0
  BY <1>3
<1> HIDE DEF named, other, r, o
<1> QED
  BY <1>2, <1>3, <1>4, <1>5, <1>6, NamedOutranks

\* The ids of a catalog are the registry's.
LEMMA IdsAreProper ==
    ASSUME NEW cat \in Catalogs, NEW s \in DOMAIN cat
    PROVE  Proper(cat[s].id)
<1>1. cat[s].id \in Strings
  <2> DEFINE Services == [id : Strings, tools : Seq(Tools)]
  <2>1. \A e \in Services : e.id \in Strings
    OBVIOUS
  <2>2. cat \in Seq(Services)
    BY CatalogsAssumption
  <2> HIDE DEF Services
  <2> QED
    BY <2>1, <2>2
<1> DEFINE id == cat[s].id
<1>2. id # <<>> /\ Head(id) \notin IdSeparators /\ Last(id) \notin IdSeparators
  BY IdsAssumption
<1> HIDE DEF id
<1>3. id \in Strings
  BY <1>1 DEF id
<1>4. Head(id) = id[1]
  BY <1>2, <1>3 DEF Strings
<1> QED
  BY <1>2, <1>3, <1>4 DEF Proper, Last, id

\* All tools of a service that the query spells out are ranked as named by it.
LEMMA SpelledIsFound ==
    ASSUME InputInv, NEW i \in DOMAIN Index,
           filter \in {AnyService, Index[i].service},
           catalog[Index[i].service].id # Brand,
           query # <<>>,
           \/ SpellsOut(query, catalog[Index[i].service].id)
           \/ Head(query) = Brand /\ SpellsOut(Tail(query), catalog[Index[i].service].id)
    PROVE  Candidate(i, query) \in Ranked /\ Candidate(i, query).score >= 32
<1> DEFINE id == catalog[Index[i].service].id
           ref == Reference(id, query)
<1>1. Tokens(query)
  BY DEF InputInv, Tokens
<1>2. Proper(id)
  BY IndexType, IdsAreProper DEF InputInv, Index
<1>3. ref.score = 32 /\ \A n \in DOMAIN query : Covers(ref, n)
  <2>1. RunScore(id, query) = 32
    BY <1>1, <1>2, QuerySpells
  <2> QED
    BY <1>1, <2>1, ReferenceScore DEF Tokens
<1> HIDE DEF ref
<1>4. i \in Matching(query)
  <2>1. Matches(Index[i].tool, query, ref)
    BY <1>3 DEF Matches
  <2> QED
    BY <2>1 DEF Matching, ref
<1>5. Score(Index[i].tool, query, ref) >= 32
  <2> DEFINE tool == Index[i].tool
  <2> HIDE DEF tool
  <2>1. /\ Bonus(tool, query) \in Nat /\ Score(tool, query, ref) \in Nat
        /\ Score(tool, query, ref) >= ref.score + Bonus(tool, query)
    BY <1>1, <1>3, ScoreSum DEF Tokens
  <2> QED
    BY <1>3, <2>1 DEF tool
<1>6. Candidate(i, query).score >= 32
  BY <1>5, CandidateOf DEF ScoreOf, ref
<1> QED
  BY <1>4, <1>6 DEF Ranked

\* A selection of as many as are asked for, of which each beats what is left.
Leads(C) ==
    /\ C \subseteq Ranked
    /\ Cardinality(C) = Min({limit, total})
    /\ \A x \in C, y \in Ranked \ C : Before(x, y)

\* When all are scored, the candidates are what is ranked, each once.
SelectInv ==
    stage = "select" => /\ ToSet(candidates) = Ranked
                        /\ total = Cardinality(Matching(query))

\* When the best are selected, they lead the ranking.
DeliverInv ==
    stage = "deliver" => /\ Leads(ToSet(candidates))
                         /\ total = Cardinality(Matching(query))

SearchInv == InputInv /\ SelectInv /\ DeliverInv /\ BestHitsInOrder

LEMMA MatchRanks ==
    ASSUME SearchInv, Match
    PROVE  SearchInv'
<1> DEFINE all == [i \in DOMAIN Index |-> i]
           M == Matching(query)
           kept == Kept(all, M)
           L == Len(kept)
<1>0. InputInv
  BY DEF SearchInv
<1>1. UNCHANGED <<catalog, query, filter, limit>> /\ stage' = "select"
  BY DEF Match, input
<1>2. InputInv' /\ Ranked' = Ranked /\ Matching(query)' = Matching(query)
  BY <1>0, <1>1 DEF InputInv, Ranked, Candidate, ScoreOf, Matching, Index
<1>3. /\ Len(Index) \in Nat /\ DOMAIN Index = 1 .. Len(Index)
      /\ M \subseteq 1 .. Len(Index)
  BY <1>0, Ranking, IndexType DEF InputInv, Index
<1>4. all \in Seq(Nat) /\ Len(all) = Len(Index)
  BY <1>3
<1>5. /\ candidates' = [n \in DOMAIN kept |-> Candidate(kept[n], query)]
      /\ total' = Len(candidates')
  BY DEF Match
<1>6. \A k \in M : k \in Nat
  BY <1>3
<1>7. /\ L \in Nat
      /\ kept \in [1 .. L -> M]
      /\ \A i, j \in 1 .. L : i < j => kept[i] < kept[j]
      /\ \A m \in M : \E i \in 1 .. L : kept[i] = m
  <2> DEFINE m == Len(Index)
             numbers == [n \in 1 .. m |-> n]
  <2>1. all = numbers
    BY <1>3
  <2>2. m \in Nat /\ M \in SUBSET (1 .. m)
    BY <1>3
  <2> HIDE DEF m, M, all
  <2>3. /\ Len(Kept(numbers, M)) \in Nat
        /\ Kept(numbers, M) \in [1 .. Len(Kept(numbers, M)) -> M]
        /\ \A i, j \in 1 .. Len(Kept(numbers, M)) :
              i < j => Kept(numbers, M)[i] < Kept(numbers, M)[j]
        /\ \A k \in M : \E i \in 1 .. Len(Kept(numbers, M)) : Kept(numbers, M)[i] = k
    BY <2>2, KeptNumbers
  <2> HIDE DEF numbers
  <2> QED
    BY <2>1, <2>3
<1> HIDE DEF kept, L, M, all
<1>8. \A i, j \in 1 .. L : kept[i] = kept[j] => i = j
  <2> SUFFICES ASSUME NEW i \in 1 .. L, NEW j \in 1 .. L, kept[i] = kept[j], i # j PROVE FALSE
    OBVIOUS
  <2>1. i < j \/ j < i
    BY <1>7
  <2>2. kept[i] \in Nat /\ kept[j] \in Nat
    BY <1>6, <1>7
  <2> QED
    BY <1>7, <2>1, <2>2
<1>9. Cardinality(M) = L
  BY <1>7, <1>8, StretchSize, SameSize
<1>10. Len(candidates') = L /\ DOMAIN candidates' = 1 .. L
  BY <1>5, <1>7
<1>11. ToSet(candidates)' = Ranked
  <2>1. ToSet(candidates)' = {Candidate(kept[n], query) : n \in 1 .. L}
    BY <1>5, <1>7 DEF ToSet
  <2>2. {Candidate(kept[n], query) : n \in 1 .. L} = {Candidate(i, query) : i \in M}
    BY <1>7
  <2> QED
    BY <2>1, <2>2 DEF Ranked, M
<1> QED
  BY <1>1, <1>2, <1>5, <1>9, <1>10, <1>11
     DEF SearchInv, SelectInv, DeliverInv, BestHitsInOrder, M

\* What select_nth_unstable and truncate leave leads the ranking.
LEMMA SelectLeads ==
    ASSUME SearchInv, Select
    PROVE  SearchInv'
<1>0. InputInv /\ SelectInv
  BY DEF SearchInv
<1>1. UNCHANGED <<catalog, query, filter, limit, total>> /\ stage = "select" /\ stage' = "deliver"
  BY DEF Select, input
<1>2. InputInv' /\ Ranked' = Ranked /\ Matching(query)' = Matching(query)
  BY <1>0, <1>1 DEF InputInv, Ranked, Candidate, ScoreOf, Matching, Index
<1>3. ToSet(candidates) = Ranked /\ total = Cardinality(Matching(query))
  BY <1>0, <1>1 DEF SelectInv
<1>4. /\ total \in Nat /\ limit \in Nat /\ IsFiniteSet(Ranked) /\ Cardinality(Ranked) = total
      /\ \A x \in Ranked : x.score \in Nat /\ x.tool \in Nat
  BY <1>0, <1>3, Ranking DEF InputInv
<1>5. SUFFICES Leads(ToSet(candidates'))
  <2>1. Leads(ToSet(candidates))'
    BY <1>1, <1>2, <1>5 DEF Leads
  <2> QED
    BY <1>1, <1>2, <1>3, <2>1 DEF SearchInv, SelectInv, DeliverInv, BestHitsInOrder
<1>6. Min({limit, total}) = IF limit <= total THEN limit ELSE total
  BY <1>4 DEF Min
<1>7. CASE limit = 0 /\ candidates' = <<>>
  <2>1. ToSet(candidates') = {}
    BY <1>7 DEF ToSet
  <2>2. Min({limit, total}) = 0
    BY <1>4, <1>6, <1>7
  <2> QED
    BY <2>1, <2>2, FS_EmptySet DEF Leads
<1>8. CASE limit >= total /\ limit # 0 /\ UNCHANGED candidates
  <2>1. Min({limit, total}) = total
    BY <1>4, <1>6, <1>8
  <2> QED
    BY <1>3, <1>4, <1>8, <2>1 DEF Leads
<1>9. CASE limit \in 1 .. total - 1 /\ candidates' \in Best(limit)
  <2> DEFINE n == limit
  <2>1. PICK p \in Partitioned(n) : candidates' = SubSeq(p, 1, n)
    BY <1>9 DEF Best
  <2>2. /\ p \in SetToSeqs(Ranked)
        /\ \A i \in DOMAIN p : /\ i < n => Before(p[i], p[n])
                               /\ i > n => Before(p[n], p[i])
    BY <1>3, <2>1 DEF Partitioned
  <2>3. /\ p \in Seq(Ranked) /\ DOMAIN p = 1 .. total /\ Len(p) = total /\ ToSet(p) = Ranked
        /\ \A i, j \in DOMAIN p : p[i] = p[j] => i = j
    BY <1>4, <2>2, Enumeration
  <2>4. n \in 1 .. total /\ n \in Nat /\ n <= total
    BY <1>4, <1>9
  <2> HIDE DEF n
  <2> DEFINE C == {p[i] : i \in 1 .. n}
  <2>5. ToSet(candidates') = C
    <3>1. /\ DOMAIN SubSeq(p, 1, n) = 1 .. n
          /\ \A i \in 1 .. n : SubSeq(p, 1, n)[i] = p[i]
      BY <2>3, <2>4
    <3> QED
      BY <2>1, <3>1 DEF ToSet
  <2>6. C \subseteq Ranked
    BY <2>3, <2>4
  <2>7. Cardinality(C) = n
    <3> DEFINE f == [i \in 1 .. n |-> p[i]]
    <3>1. f \in [1 .. n -> C] /\ \A z \in C : \E i \in 1 .. n : f[i] = z
      OBVIOUS
    <3>2. \A i, j \in 1 .. n : f[i] = f[j] => i = j
      BY <2>3, <2>4
    <3> HIDE DEF f, C
    <3> QED
      BY <2>4, <3>1, <3>2, StretchSize, SameSize
  <2>8. ASSUME NEW x \in C, NEW y \in Ranked \ C PROVE Before(x, y)
    <3>1. PICK i \in 1 .. n : x = p[i]
      OBVIOUS
    <3>2. PICK j \in 1 .. total : y = p[j]
      BY <2>3 DEF ToSet
    <3>3. j > n
      BY <2>4, <2>8, <3>2
    <3>4. Before(p[n], y)
      BY <2>2, <2>3, <3>2, <3>3
    <3>5. x = p[n] \/ Before(x, p[n])
      BY <2>2, <2>3, <2>4, <3>1
    <3>6. p[n] \in Ranked /\ x \in Ranked /\ y \in Ranked
      BY <2>3, <2>4, <2>6
    <3> HIDE DEF C
    <3> QED
      BY <1>4, <3>4, <3>5, <3>6, BeforeOrders
  <2>9. Min({limit, total}) = n
    BY <1>4, <1>6, <2>4 DEF n
  <2> HIDE DEF C
  <2> QED
    BY <2>5, <2>6, <2>7, <2>8, <2>9 DEF Leads
<1> QED
  BY <1>7, <1>8, <1>9 DEF Select

\* The hits are what leads the ranking, sorted: what is before the n-th of them
\* are the n - 1 that are listed before it.
LEMMA DeliverSorts ==
    ASSUME SearchInv, Deliver
    PROVE  SearchInv'
<1> DEFINE C == ToSet(candidates)
           M == Matching(query)
<1>0. InputInv /\ DeliverInv
  BY DEF SearchInv
<1>1. UNCHANGED <<catalog, query, filter, limit, total>> /\ stage = "deliver" /\ stage' = "done"
  BY DEF Deliver, input
<1>2. /\ InputInv' /\ Ranked' = Ranked /\ M' = M
      /\ \A i : Candidate(i, query)' = Candidate(i, query)
  BY <1>0, <1>1 DEF InputInv, Ranked, Candidate, ScoreOf, Matching, Index
<1>3. total = Cardinality(M) /\ C \subseteq Ranked /\ Cardinality(C) = Min({limit, total})
      /\ \A x \in C, y \in Ranked \ C : Before(x, y)
  BY <1>0, <1>1 DEF DeliverInv, Leads
<1>4. /\ IsFiniteSet(Ranked) /\ IsFiniteSet(M)
      /\ \A x \in Ranked : /\ x.score \in Nat /\ x.tool \in Nat /\ x.tool \in M
                           /\ x = Candidate(x.tool, query)
  BY <1>0, Ranking
<1>5. IsFiniteSet(C)
  BY <1>3, <1>4, FS_Subset
<1>6. PICK sorted \in SetToSeqs(C) :
         /\ \A i, j \in DOMAIN sorted : i < j => Before(sorted[i], sorted[j])
         /\ hits' = [i \in DOMAIN sorted |-> sorted[i].tool]
  BY DEF Deliver
<1> DEFINE L == Cardinality(C)
<1>7. /\ L \in Nat /\ DOMAIN sorted = 1 .. L /\ ToSet(sorted) = C
      /\ \A i, j \in 1 .. L : sorted[i] = sorted[j] => i = j
  BY <1>5, Enumeration
<1> HIDE DEF C, M, L
<1>8. /\ \A i \in 1 .. L : sorted[i] \in C
      /\ \A x \in C : \E i \in 1 .. L : x = sorted[i]
  BY <1>7 DEF ToSet
<1>9. Len(hits') = L /\ DOMAIN hits' = 1 .. L /\ \A n \in 1 .. L : hits'[n] = sorted[n].tool
  BY <1>6, <1>7
<1>10. ASSUME NEW n \in 1 .. L
       PROVE  /\ hits'[n] \in M
              /\ n - 1 = Cardinality({i \in M :
                            Before(Candidate(i, query), Candidate(hits'[n], query))})
  <2> DEFINE x == sorted[n]
             B == {i \in M : Before(Candidate(i, query), x)}
             f == [m \in 1 .. n - 1 |-> sorted[m].tool]
  <2>1. x \in C /\ x \in Ranked /\ hits'[n] = x.tool
    BY <1>3, <1>8, <1>9
  <2>2. x.tool \in M /\ x = Candidate(x.tool, query) /\ x.score \in Nat /\ x.tool \in Nat
    BY <1>4, <2>1
  <2>3. \A m \in 1 .. n - 1 : m \in 1 .. L /\ m < n
    BY <1>7
  <2>4. ASSUME NEW m \in 1 .. n - 1
        PROVE  /\ sorted[m] \in Ranked /\ sorted[m].tool \in M
               /\ sorted[m] = Candidate(sorted[m].tool, query)
               /\ sorted[m].tool \in B
    <3>1. sorted[m] \in Ranked
      BY <1>3, <1>8, <2>3
    <3>2. sorted[m].tool \in M /\ sorted[m] = Candidate(sorted[m].tool, query)
      BY <1>4, <3>1
    <3>3. Before(sorted[m], x)
      BY <1>6, <1>7, <2>3
    <3>4. Before(Candidate(sorted[m].tool, query), x)
      BY <3>2, <3>3
    <3> QED
      BY <3>1, <3>2, <3>4
  <2>5. f \in [1 .. n - 1 -> B]
    BY <2>4
  <2>6. \A a, b \in 1 .. n - 1 : f[a] = f[b] => a = b
    <3> SUFFICES ASSUME NEW a \in 1 .. n - 1, NEW b \in 1 .. n - 1, f[a] = f[b] PROVE a = b
      OBVIOUS
    <3>1. sorted[a].tool = sorted[b].tool
      OBVIOUS
    <3>2. sorted[a] = sorted[b]
      BY <2>4, <3>1
    <3> QED
      BY <1>7, <2>3, <3>2
  <2>7. \A z \in B : \E m \in 1 .. n - 1 : f[m] = z
    <3> SUFFICES ASSUME NEW z \in B PROVE \E m \in 1 .. n - 1 : f[m] = z
      OBVIOUS
    <3> DEFINE y == Candidate(z, query)
    <3>1. z \in M /\ Before(y, x)
      OBVIOUS
    <3>2. y \in Ranked /\ y.tool = z
      BY <3>1 DEF Ranked, M, Candidate
    <3>3. y.score \in Nat /\ y.tool \in Nat
      BY <1>4, <3>2
    <3> HIDE DEF y, x, B, f
    <3>4. ~ Before(x, y)
      BY <2>2, <3>1, <3>3, BeforeOrders
    <3>5. y \in C
      BY <1>3, <2>1, <3>2, <3>4
    <3>6. PICK m \in 1 .. L : y = sorted[m]
      BY <1>8, <3>5
    <3>7. ~ (n < m) /\ m # n
      <4>1. ~ Before(x, x)
        BY <2>2, BeforeOrders
      <4>2. n < m => Before(sorted[n], sorted[m])
        BY <1>6, <1>7
      <4> QED
        BY <3>1, <3>4, <3>6, <4>1, <4>2 DEF x
    <3>8. m \in 1 .. n - 1
      BY <1>7, <3>7
    <3> QED
      BY <3>2, <3>6, <3>8 DEF f
  <2>8. n - 1 \in Nat
    BY <1>7
  <2>9. Cardinality(B) = n - 1
    <3> HIDE DEF B, f
    <3> DEFINE D == 1 .. n - 1
    <3>1. IsFiniteSet(D) /\ Cardinality(D) = n - 1
      BY <2>8, StretchSize
    <3>2. /\ f \in [D -> B] /\ \A a, b \in D : f[a] = f[b] => a = b
          /\ \A z \in B : \E m \in D : f[m] = z
      BY <2>5, <2>6, <2>7
    <3> HIDE DEF D
    <3> QED
      BY <3>1, <3>2, SameSize
  <2> HIDE DEF x
  <2>10. Candidate(hits'[n], query) = x
    BY <2>1, <2>2
  <2> QED
    BY <2>1, <2>2, <2>9, <2>10
<1>11. /\ Len(hits') = Min({limit, total})
       /\ \A n \in DOMAIN hits' :
             /\ hits'[n] \in M
             /\ n - 1 = Cardinality({i \in M :
                           Before(Candidate(i, query), Candidate(hits'[n], query))})
  BY <1>3, <1>9, <1>10 DEF L
<1>12. BestHitsInOrder'
  <2>1. total' = Cardinality(M)
    BY <1>1, <1>3
  <2>2. Min({limit, total})' = Min({limit, total})
    BY <1>1
  <2>3. \A n \in DOMAIN hits' : Candidate(hits[n], query)' = Candidate(hits'[n], query)
    BY <1>1 DEF Candidate, ScoreOf, Index
  <2>4. \A n \in DOMAIN hits' :
           {i \in Matching(query) : Before(Candidate(i, query), Candidate(hits[n], query))}'
             = {i \in M : Before(Candidate(i, query), Candidate(hits'[n], query))}
    BY <1>2, <2>3 DEF M, Before
  <2> QED
    BY <1>2, <1>11, <2>1, <2>2, <2>4 DEF BestHitsInOrder, M
<1> QED
  BY <1>1, <1>2, <1>12 DEF SearchInv, SelectInv, DeliverInv

-----------------------------------------------------------------------------
(* Names *)

\* What a service id has to be for its names to be taken apart again.
Addressable(id) ==
    id \in Strings /\ id # <<>> /\ ~Includes(id, Separator) /\ Last(id) # Underscore

\* The name of a tool of a service.
Joined(id, tool) == id \o Separator \o tool

\* Two underscores in a row.
LEMMA SeparatorOccurs ==
    ASSUME NEW text \in Strings, NEW at \in 1 .. Len(text)
    PROVE  Occurs(Separator, text, at) <=>
              at + 1 <= Len(text) /\ text[at] = Underscore /\ text[at + 1] = Underscore
<1>1. Len(Separator) = 2 /\ Separator = <<Underscore, Underscore>>
  BY DEF Separator
<1>2. Len(text) \in Nat
  BY DEF Strings
<1>3. at + Len(Separator) - 1 = at + 1
  BY <1>1
<1>4. ASSUME at + 1 <= Len(text)
      PROVE  SubSeq(text, at, at + 1) = <<text[at], text[at + 1]>>
  <2> DEFINE pair == SubSeq(text, at, at + 1)
  <2>1. pair \in Seq(Characters) /\ Len(pair) = 2
    BY <1>2, <1>4 DEF Strings
  <2>2. pair[1] = text[at] /\ pair[2] = text[at + 1]
    <3>1. pair[1] = text[1 + at - 1] /\ pair[2] = text[2 + at - 1]
      BY <1>2, <1>4 DEF Strings
    <3>2. 1 + at - 1 = at /\ 2 + at - 1 = at + 1
      BY <1>2
    <3> QED
      BY <3>1, <3>2
  <2> HIDE DEF pair
  <2>3. pair = <<pair[1], pair[2]>>
    BY <2>1
  <2> QED
    BY <2>2, <2>3 DEF pair
<1>5. <<text[at], text[at + 1]>> = Separator <=>
         text[at] = Underscore /\ text[at + 1] = Underscore
  BY <1>1
<1> QED
  BY <1>3, <1>4, <1>5 DEF Occurs

\* A name comes apart where it was put together, and nowhere else.
LEMMA SplitJoined ==
    ASSUME NEW id, Addressable(id), NEW tool \in Strings, tool # <<>>
    PROVE  Split(Joined(id, tool)) = {[service |-> id, tool |-> tool]}
<1> DEFINE name == Joined(id, tool)
           n == Len(id)
           m == Len(tool)
<1>1. /\ id \in Seq(Characters) /\ tool \in Seq(Characters) /\ Underscore \in Characters
      /\ n \in Nat /\ m \in Nat /\ n # 0 /\ m # 0
  BY CatalogsAssumption DEF Addressable, Strings
<1>2. /\ name \in Seq(Characters) /\ Len(name) = n + 2 + m
      /\ \A i \in 1 .. n : name[i] = id[i]
      /\ name[n + 1] = Underscore /\ name[n + 2] = Underscore
      /\ \A i \in 1 .. m : name[n + 2 + i] = tool[i]
  BY <1>1 DEF Joined, Separator
<1> HIDE DEF name, n, m
<1>3. name \in Strings /\ id \in Strings /\ DOMAIN name = 1 .. Len(name)
  BY <1>1, <1>2 DEF Strings
<1>4. Occurs(Separator, name, n + 1) /\ n + 1 \in DOMAIN name
  <2>1. n + 1 \in 1 .. Len(name) /\ (n + 1) + 1 <= Len(name) /\ (n + 1) + 1 = n + 2
    BY <1>1, <1>2
  <2> QED
    BY <1>2, <1>3, <2>1, SeparatorOccurs
<1>5. ASSUME NEW i \in 1 .. n PROVE ~ Occurs(Separator, name, i)
  <2> SUFFICES ASSUME Occurs(Separator, name, i) PROVE FALSE
    OBVIOUS
  <2>1. i \in 1 .. Len(name)
    BY <1>1, <1>2
  <2>2. name[i] = Underscore /\ name[i + 1] = Underscore
    BY <1>3, <2>1, SeparatorOccurs
  <2>3. CASE i = n
    <3>1. id[n] = Underscore
      BY <1>2, <2>2, <2>3
    <3> QED
      BY <3>1 DEF Addressable, Last, n
  <2>4. CASE i # n
    <3>1. i + 1 \in 1 .. n /\ i + 1 <= n
      BY <1>1, <2>4
    <3>2. id[i] = Underscore /\ id[i + 1] = Underscore
      BY <1>2, <2>2, <3>1
    <3>3. Occurs(Separator, id, i)
      BY <1>3, <3>1, <3>2, SeparatorOccurs DEF n
    <3>4. i \in DOMAIN id
      BY <1>1 DEF n
    <3> QED
      BY <3>3, <3>4 DEF Addressable, Includes
  <2> QED
    BY <2>3, <2>4
<1>6. Boundary(name) = {n + 1}
  <2>1. n + 1 \in Boundary(name)
    <3>1. \A i \in 1 .. (n + 1) - 1 : i \in 1 .. n
      BY <1>1
    <3> QED
      BY <1>4, <1>5, <3>1 DEF Boundary
  <2>2. ASSUME NEW at \in Boundary(name) PROVE at = n + 1
    <3>1. /\ at \in 1 .. Len(name) /\ Occurs(Separator, name, at)
          /\ \A i \in 1 .. at - 1 : ~ Occurs(Separator, name, i)
      BY <1>3 DEF Boundary
    <3>2. at \notin 1 .. n
      BY <1>5, <3>1
    <3>3. n + 1 \notin 1 .. at - 1
      BY <1>4, <3>1
    <3> QED
      BY <1>1, <1>2, <3>1, <3>2, <3>3
  <2> QED
    BY <2>1, <2>2
<1>7. SubSeq(name, 1, (n + 1) - 1) = id
  <2> DEFINE first == SubSeq(name, 1, (n + 1) - 1)
  <2>1. first \in Seq(Characters) /\ Len(first) = n
    BY <1>1, <1>2
  <2>2. \A i \in 1 .. n : first[i] = id[i]
    BY <1>1, <1>2
  <2> HIDE DEF first
  <2>3. first = id
    BY <1>1, <2>1, <2>2 DEF n
  <2> QED
    BY <2>3 DEF first
<1>8. SubSeq(name, (n + 1) + 2, Len(name)) = tool
  <2> DEFINE second == SubSeq(name, (n + 1) + 2, Len(name))
  <2>1. second \in Seq(Characters) /\ Len(second) = m
    BY <1>1, <1>2
  <2>2. \A i \in 1 .. m : second[i] = tool[i]
    <3> SUFFICES ASSUME NEW i \in 1 .. m PROVE second[i] = tool[i]
      OBVIOUS
    <3>1. second[i] = name[(n + 1) + 2 + i - 1]
      BY <1>1, <1>2
    <3>2. (n + 1) + 2 + i - 1 = n + 2 + i
      BY <1>1
    <3> QED
      BY <1>2, <3>1, <3>2
  <2> HIDE DEF second
  <2>3. second = tool
    BY <1>1, <2>1, <2>2 DEF m
  <2> QED
    BY <2>3 DEF second
<1>9. id # <<>>
  BY DEF Addressable
<1> DEFINE halves == [service |-> id, tool |-> tool]
<1>10. {[service |-> SubSeq(name, 1, at - 1),
         tool |-> SubSeq(name, at + 2, Len(name))] : at \in Boundary(name)} = {halves}
  BY <1>6, <1>7, <1>8
<1>11. halves.service # <<>> /\ halves.tool # <<>>
  BY <1>9
<1> HIDE DEF halves
<1>12. Split(name) = {halves}
  BY <1>10, <1>11 DEF Split
<1> QED
  BY <1>12 DEF name, halves

\* A name is given to one tool of one service.
LEMMA JoinedOnce ==
    ASSUME NEW id, Addressable(id), NEW tool \in Strings, tool # <<>>,
           NEW id2, Addressable(id2), NEW tool2 \in Strings, tool2 # <<>>,
           Joined(id, tool) = Joined(id2, tool2)
    PROVE  id = id2 /\ tool = tool2
<1>1. {[service |-> id, tool |-> tool]} = {[service |-> id2, tool |-> tool2]}
  BY SplitJoined
<1>2. [service |-> id, tool |-> tool] = [service |-> id2, tool |-> tool2]
  BY <1>1
<1> QED
  BY <1>2

\* The service and the upstream name of the tool at a position of the index.
ServiceAt(i) == catalog[Index[i].service].id
UpstreamAt(i) == RawName(Index[i].tool)

\* A tool of the catalog has a name that leads back to it, and a route.
LEMMA NameOfTool ==
    ASSUME InputInv, NEW i \in DOMAIN Index
    PROVE  /\ Addressable(ServiceAt(i))
           /\ UpstreamAt(i) \in Strings /\ UpstreamAt(i) # <<>>
           /\ NamespacedName(i) = Joined(ServiceAt(i), UpstreamAt(i))
           /\ Known(i) = [name |-> NamespacedName(i), service |-> ServiceAt(i),
                          upstream |-> UpstreamAt(i)]
           /\ Split(NamespacedName(i))
                 = {[service |-> ServiceAt(i), tool |-> UpstreamAt(i)]}
           /\ ServiceAt(i) \in Routes
           /\ Index[i].tool.broken \in BOOLEAN
<1>1. catalog \in Catalogs /\ i \in DOMAIN IndexOf(catalog) /\ Index = IndexOf(catalog)
  BY DEF InputInv, Index
<1>2. /\ Index[i].service \in DOMAIN catalog /\ ServiceAt(i) \in Strings
      /\ Index[i].tool \in Tools /\ Index[i].tool.words # <<>>
  BY <1>1, IndexType DEF ServiceAt
<1>3. UpstreamAt(i) \in Strings
  BY <1>2, NameType DEF UpstreamAt
<1>4. UpstreamAt(i) # <<>>
  BY <1>1, NamesAssumption DEF UpstreamAt
<1>5. Addressable(ServiceAt(i))
  <2>1. \A s \in DOMAIN catalog : /\ catalog[s].id # <<>>
                                  /\ ~Includes(catalog[s].id, Separator)
                                  /\ Last(catalog[s].id) # Underscore
    BY <1>1, IdsAssumption
  <2> QED
    BY <1>2, <2>1 DEF Addressable, ServiceAt
<1>6. NamespacedName(i) = Joined(ServiceAt(i), UpstreamAt(i))
  BY DEF NamespacedName, Joined, ServiceAt, UpstreamAt
<1>7. Split(NamespacedName(i)) = {[service |-> ServiceAt(i), tool |-> UpstreamAt(i)]}
  BY <1>3, <1>4, <1>5, <1>6, SplitJoined
<1>8. ServiceAt(i) \in Routes
  BY <1>1, <1>2 DEF Routes, ServiceAt
<1>9. Index[i].tool.broken \in BOOLEAN
  BY <1>2 DEF Tools
<1> QED
  BY <1>3, <1>4, <1>5, <1>6, <1>7, <1>8, <1>9 DEF Known, ServiceAt, UpstreamAt

\* A name finds the tool that has it and no other; no two tools have one name.
LEMMA GetFinds ==
    ASSUME InputInv, NEW i \in DOMAIN Index
    PROVE  /\ Get(NamespacedName(i)) = {i}
           /\ \A j \in DOMAIN Index : Known(i) = Known(j) => i = j
<1>1. ASSUME NEW j \in DOMAIN Index, NamespacedName(i) = NamespacedName(j) PROVE i = j
  <2>1. ServiceAt(i) = ServiceAt(j) /\ UpstreamAt(i) = UpstreamAt(j)
    <3>1. {[service |-> ServiceAt(i), tool |-> UpstreamAt(i)]}
             = {[service |-> ServiceAt(j), tool |-> UpstreamAt(j)]}
      BY <1>1, NameOfTool
    <3>2. [service |-> ServiceAt(i), tool |-> UpstreamAt(i)]
             = [service |-> ServiceAt(j), tool |-> UpstreamAt(j)]
      BY <3>1
    <3> QED
      BY <3>2
  <2> QED
    BY <1>1, <2>1, NamesAssumption DEF InputInv, Index, ServiceAt, UpstreamAt
<1>2. i \in Get(NamespacedName(i))
  <2> DEFINE halves == [service |-> ServiceAt(i), tool |-> UpstreamAt(i)]
  <2>1. halves \in Split(NamespacedName(i)) /\ halves.service = ServiceAt(i)
    BY NameOfTool
  <2> HIDE DEF halves
  <2> QED
    BY <2>1 DEF Get, ServiceAt
<1>3. \A j \in Get(NamespacedName(i)) : j \in DOMAIN Index /\ NamespacedName(j) = NamespacedName(i)
  BY DEF Get
<1>4. \A j \in DOMAIN Index : Known(i) = Known(j) => NamespacedName(i) = NamespacedName(j)
  BY DEF Known
<1> QED
  BY <1>1, <1>2, <1>3, <1>4

-----------------------------------------------------------------------------
(* The inductive invariant *)

\* What a client was told stays true of the names, whichever catalog is served.
ToldInv ==
    \A k \in told : /\ Addressable(k.service)
                    /\ k.upstream \in Strings /\ k.upstream # <<>>
                    /\ k.name = Joined(k.service, k.upstream)

\* A search runs for a caller, for search_tools with a limit.
PendingInv ==
    stage # "idle" => /\ answer.is = "pending"
                      /\ answer.caller = "search_tools" => limit >= 1

IndInv ==
    /\ SearchInv
    /\ ToldInv
    /\ PendingInv
    /\ CallReachesItsTool
    /\ BrokenToolIsContained
    /\ EmptyMeansNoMatch

\* The properties of a reply.
AnswerInv == CallReachesItsTool /\ BrokenToolIsContained /\ EmptyMeansNoMatch

LEMMA SearchFrame ==
    ASSUME SearchInv, UNCHANGED vars
    PROVE  SearchInv'
<1>1. UNCHANGED <<catalog, query, filter, limit, stage, candidates, total, hits>>
  BY DEF vars, input
<1>2. Ranked' = Ranked /\ Matching(query)' = Matching(query)
  BY <1>1 DEF Ranked, Candidate, ScoreOf, Matching, Index
<1>3. InputInv' /\ SelectInv'
  BY <1>1, <1>2 DEF SearchInv, InputInv, SelectInv
<1>4. DeliverInv'
  BY <1>1, <1>2 DEF SearchInv, DeliverInv, Leads
<1>5. BestHitsInOrder'
  BY <1>1 DEF SearchInv, BestHitsInOrder, Matching, Candidate, ScoreOf, Index
<1> QED
  BY <1>3, <1>4, <1>5 DEF SearchInv

LEMMA AnswerFrame ==
    ASSUME AnswerInv, UNCHANGED <<catalog, told, answer>>
    PROVE  AnswerInv'
<1>1. CallReachesItsTool'
  BY DEF AnswerInv, CallReachesItsTool, Known, NamespacedName, Index
<1>2. BrokenToolIsContained'
  BY DEF AnswerInv, BrokenToolIsContained, Known, NamespacedName, Index
<1>3. EmptyMeansNoMatch'
  BY DEF AnswerInv, EmptyMeansNoMatch
<1> QED
  BY <1>1, <1>2, <1>3 DEF AnswerInv

\* A reply that says nothing of a tool.
LEMMA PlainAnswer ==
    ASSUME answer'.is \in {"none", "error", "pending"}
    PROVE  AnswerInv'
<1>1. /\ answer'.is # "called" /\ answer'.is # "not exposed" /\ answer'.is # "no route"
      /\ answer'.is # "described" /\ answer'.is # "listed" /\ answer'.is # "no list"
      /\ answer'.is # "hits"
  OBVIOUS
<1> QED
  BY <1>1 DEF AnswerInv, CallReachesItsTool, BrokenToolIsContained, EmptyMeansNoMatch

\* Between searches there is nothing to keep but the catalog.
LEMMA IdleSearch ==
    ASSUME stage' = "idle" \/ stage' = "match", InputInv'
    PROVE  SearchInv'
BY DEF SearchInv, SelectInv, DeliverInv, BestHitsInOrder

-----------------------------------------------------------------------------
(* The requests *)

LEMMA BeginKeeps ==
    ASSUME IndInv, NEW tokens \in Seq(Strings), <<>> \notin ToSet(tokens),
           NEW service, NEW n \in Nat, NEW caller,
           caller = "search_tools" => n >= 1,
           Begin(tokens, service, n, caller)
    PROVE  IndInv'
<1>1. /\ query' = tokens /\ limit' = n /\ stage' = "match"
      /\ answer' = [is |-> "pending", caller |-> caller]
      /\ UNCHANGED <<catalog, told>>
  BY DEF Begin
<1>2. SearchInv'
  BY <1>1, IdleSearch DEF IndInv, SearchInv, InputInv
<1>3. ToldInv'
  BY <1>1 DEF IndInv, ToldInv
<1>4. answer'.is = "pending" /\ answer'.caller = caller
  BY <1>1
<1>5. PendingInv'
  BY <1>1, <1>4 DEF PendingInv
<1> QED
  BY <1>2, <1>3, <1>4, <1>5, PlainAnswer DEF IndInv, AnswerInv

\* What a reply leaves alone.
LEMMA ReplyKeeps ==
    ASSUME IndInv, stage = "idle", UNCHANGED <<vars, told>>, AnswerInv'
    PROVE  IndInv'
<1>1. SearchInv'
  BY SearchFrame DEF IndInv
<1>2. ToldInv' /\ PendingInv'
  BY DEF IndInv, ToldInv, PendingInv, vars
<1> QED
  BY <1>1, <1>2 DEF IndInv, AnswerInv

LEMMA SearchToolsKeeps ==
    ASSUME IndInv, NEW tokens \in Queries \cup {Absent}, NEW service,
           NEW wanted \in Limits \cup {Absent}, SearchTools(tokens, service, wanted)
    PROVE  IndInv'
<1>1. CASE tokens = Absent
  <2>1. stage = "idle" /\ answer' = [is |-> "error"] /\ UNCHANGED <<vars, told>>
    BY <1>1 DEF SearchTools, Ready, Reply
  <2>2. answer'.is = "error"
    BY <2>1
  <2> QED
    BY <2>1, <2>2, PlainAnswer, ReplyKeeps
<1>2. CASE tokens # Absent
  <2>1. tokens \in Seq(Strings) /\ <<>> \notin ToSet(tokens)
    BY <1>2, QueriesAssumption
  <2>2. LimitOf(wanted) \in Nat /\ LimitOf(wanted) >= 1
    <3>1. CASE wanted = Absent
      BY <3>1, DefaultLimitAssumption DEF LimitOf
    <3>2. CASE wanted # Absent
      <4>1. wanted \in Nat
        BY <3>2, LimitsAssumption
      <4>2. Max({wanted, 1}) = IF wanted >= 1 THEN wanted ELSE 1
        BY <4>1 DEF Max
      <4> QED
        BY <3>2, <4>1, <4>2 DEF LimitOf
    <3> QED
      BY <3>1, <3>2
  <2>3. Begin(tokens, service, LimitOf(wanted), "search_tools")
    BY <1>2 DEF SearchTools
  <2> QED
    BY <2>1, <2>2, <2>3, BeginKeeps
<1> QED
  BY <1>1, <1>2

LEMMA CallSearchWithKeeps ==
    ASSUME IndInv, NEW tokens \in Queries, CallSearchWith(tokens, 0)
    PROVE  IndInv'
<1>1. tokens \in Seq(Strings) /\ <<>> \notin ToSet(tokens)
  BY QueriesAssumption
<1>2. Begin(tokens, AnyService, 0, "other")
  BY DEF CallSearchWith
<1> QED
  BY <1>1, <1>2, BeginKeeps

\* The hits are tools of the catalog, and there are none only if none matched.
LEMMA SearchPayloadKeeps ==
    ASSUME IndInv, SearchPayload
    PROVE  IndInv'
<1>1. /\ stage = "done" /\ stage' = "idle" /\ query' = <<>> /\ limit' = 0
      /\ UNCHANGED catalog
  BY DEF SearchPayload
<1>2. InputInv' /\ InputInv /\ BestHitsInOrder
  <2>1. <<>> \in Seq(Strings) /\ <<>> \notin ToSet(<<>>)
    BY DEF ToSet
  <2> QED
    BY <1>1, <2>1 DEF IndInv, SearchInv, InputInv
<1>3. SearchInv' /\ PendingInv'
  BY <1>1, <1>2, IdleSearch DEF PendingInv
<1>4. CASE answer.caller # "search_tools"
  <2>1. answer' = NoAnswer /\ UNCHANGED told
    BY <1>4 DEF SearchPayload
  <2>2. answer'.is = "none"
    BY <2>1 DEF NoAnswer
  <2>3. ToldInv'
    BY <2>1 DEF IndInv, ToldInv
  <2> QED
    BY <1>3, <2>2, <2>3, PlainAnswer DEF IndInv, AnswerInv
<1>5. CASE answer.caller = "search_tools"
  <2>1. /\ told' = {Known(i) : i \in ToSet(hits)}
        /\ answer' = [is |-> "hits", shown |-> Len(hits), total |-> total]
    BY <1>5 DEF SearchPayload
  <2>2. /\ total = Cardinality(Matching(query)) /\ Len(hits) = Min({limit, total})
        /\ \A n \in DOMAIN hits : hits[n] \in Matching(query)
    BY <1>1, <1>2 DEF BestHitsInOrder
  <2>3. \A i \in ToSet(hits) : i \in DOMAIN Index
    BY <2>2 DEF ToSet, Matching
  <2>4. ToldInv'
    <3> SUFFICES ASSUME NEW i \in ToSet(hits)
                 PROVE  /\ Addressable(Known(i).service)
                        /\ Known(i).upstream \in Strings /\ Known(i).upstream # <<>>
                        /\ Known(i).name = Joined(Known(i).service, Known(i).upstream)
      BY <2>1 DEF ToldInv
    <3>1. i \in DOMAIN Index
      BY <2>3
    <3>2. /\ Known(i).name = NamespacedName(i) /\ Known(i).service = ServiceAt(i)
          /\ Known(i).upstream = UpstreamAt(i)
      BY <1>2, <3>1, NameOfTool
    <3> QED
      BY <1>2, <3>1, <3>2, NameOfTool
  <2>5. answer'.is = "hits" /\ answer'.shown = Len(hits) /\ answer'.total = total
    BY <2>1
  <2>6. Len(hits) = 0 <=> total = 0
    <3>1. limit >= 1 /\ limit \in Nat /\ total \in Nat
      BY <1>1, <1>2, <1>5, <2>2, Ranking DEF IndInv, PendingInv, InputInv
    <3>2. Min({limit, total}) = IF limit <= total THEN limit ELSE total
      BY <3>1 DEF Min
    <3> QED
      BY <2>2, <3>1, <3>2
  <2>7. EmptyMeansNoMatch'
    BY <2>5, <2>6 DEF EmptyMeansNoMatch
  <2>8. CallReachesItsTool' /\ BrokenToolIsContained'
    <3>1. /\ answer'.is # "called" /\ answer'.is # "not exposed" /\ answer'.is # "no route"
          /\ answer'.is # "described" /\ answer'.is # "listed" /\ answer'.is # "no list"
      BY <2>5
    <3> QED
      BY <3>1 DEF CallReachesItsTool, BrokenToolIsContained
  <2> QED
    BY <1>3, <2>4, <2>7, <2>8 DEF IndInv
<1> QED
  BY <1>4, <1>5

\* A described name gets the entry of the one tool that has it.
LEMMA DescribeToolsKeeps ==
    ASSUME IndInv, NEW names, DescribeTools(names)
    PROVE  IndInv'
<1>1. InputInv /\ stage = "idle"
  BY DEF IndInv, SearchInv, DescribeTools, Ready
<1>2. CASE Reply([is |-> "error"])
  <2>1. answer' = [is |-> "error"] /\ UNCHANGED <<vars, told>>
    BY <1>2 DEF Reply
  <2>2. answer'.is = "error"
    BY <2>1
  <2> QED
    BY <1>1, <2>1, <2>2, PlainAnswer, ReplyKeeps
<1>3. CASE Reply([is |-> "described", asked |-> names,
                  entries |-> [n \in DOMAIN names |-> Described(names[n])]])
  <2>1. /\ answer' = [is |-> "described", asked |-> names,
                      entries |-> [n \in DOMAIN names |-> Described(names[n])]]
        /\ UNCHANGED <<vars, told>>
    BY <1>3 DEF Reply
  <2>2. /\ answer'.is = "described" /\ answer'.asked = names
        /\ DOMAIN answer'.entries = DOMAIN names
        /\ \A n \in DOMAIN names : answer'.entries[n] = Described(names[n])
    BY <2>1
  <2>3. ASSUME NEW n \in DOMAIN names, NEW i \in DOMAIN Index, NamespacedName(i) = names[n]
        PROVE  /\ answer'.entries[n].is # "unknown"
               /\ answer'.entries[n].tool = Known(i)
               /\ answer'.entries[n].is = "schema error" <=> Index[i].tool.broken
    <3>1. Get(names[n]) = {i}
      BY <1>1, <2>3, GetFinds
    <3>2. Described(names[n]) =
             [is |-> IF Index[i].tool.broken THEN "schema error" ELSE "schemas",
              tool |-> Known(i)]
      BY <3>1 DEF Described
    <3>3. Index[i].tool.broken \in BOOLEAN
      BY <1>1, NameOfTool
    <3>4. CASE Index[i].tool.broken
      <4> DEFINE entry == [is |-> "schema error", tool |-> Known(i)]
      <4>1. entry.is = "schema error" /\ entry.tool = Known(i)
        OBVIOUS
      <4>2. Described(names[n]) = entry
        BY <3>2, <3>4
      <4> HIDE DEF entry
      <4> QED
        BY <2>2, <3>4, <4>1, <4>2
    <3>5. CASE ~ Index[i].tool.broken
      <4> DEFINE entry == [is |-> "schemas", tool |-> Known(i)]
      <4>1. entry.is = "schemas" /\ entry.tool = Known(i)
        OBVIOUS
      <4>2. Described(names[n]) = entry
        BY <3>2, <3>5
      <4> HIDE DEF entry
      <4> QED
        BY <2>2, <3>5, <4>1, <4>2
    <3> QED
      BY <3>3, <3>4, <3>5
  <2>4. UNCHANGED <<Index, catalog>>
    BY <2>1 DEF vars, input, Index
  <2>5. BrokenToolIsContained'
    <3>1. \A i : NamespacedName(i)' = NamespacedName(i) /\ Known(i)' = Known(i)
      BY <2>4 DEF NamespacedName, Known
    <3>2. answer'.is # "listed" /\ answer'.is # "no list"
      BY <2>2
    <3> QED
      BY <2>2, <2>3, <2>4, <3>1, <3>2 DEF BrokenToolIsContained
  <2>6. CallReachesItsTool' /\ EmptyMeansNoMatch'
    <3>1. /\ answer'.is # "called" /\ answer'.is # "not exposed" /\ answer'.is # "no route"
          /\ answer'.is # "hits"
      BY <2>2
    <3> QED
      BY <3>1 DEF CallReachesItsTool, EmptyMeansNoMatch
  <2> QED
    BY <1>1, <2>1, <2>5, <2>6, ReplyKeeps DEF AnswerInv
<1> QED
  BY <1>2, <1>3 DEF DescribeTools

\* The list has every tool that is not broken, each under a name of its own.
LEMMA ListFlatKeeps ==
    ASSUME IndInv, ListFlat
    PROVE  IndInv'
<1> DEFINE whole == {i \in DOMAIN Index : ~Index[i].tool.broken}
<1>1. InputInv /\ stage = "idle" /\ UNCHANGED vars
  BY DEF IndInv, SearchInv, ListFlat, Ready, Reply
<1>2. /\ UNCHANGED <<Index, catalog>>
      /\ \A i : NamespacedName(i)' = NamespacedName(i) /\ Known(i)' = Known(i)
  BY <1>1 DEF vars, input, Index, NamespacedName, Known
<1>3. CASE whole = {} /\ Index # <<>>
  <2>1. answer' = [is |-> "no list"] /\ UNCHANGED told
    BY <1>3 DEF ListFlat, Reply
  <2>2. answer'.is = "no list"
    BY <2>1
  <2>3. \A i \in DOMAIN Index : Index[i].tool.broken
    BY <1>3
  <2>4. BrokenToolIsContained'
    <3>1. answer'.is # "described" /\ answer'.is # "listed"
      BY <2>2
    <3> QED
      BY <1>2, <1>3, <2>3, <3>1 DEF BrokenToolIsContained
  <2>5. CallReachesItsTool' /\ EmptyMeansNoMatch'
    <3>1. /\ answer'.is # "called" /\ answer'.is # "not exposed" /\ answer'.is # "no route"
          /\ answer'.is # "hits"
      BY <2>2
    <3> QED
      BY <3>1 DEF CallReachesItsTool, EmptyMeansNoMatch
  <2> QED
    BY <1>1, <2>1, <2>4, <2>5, ReplyKeeps DEF AnswerInv
<1>4. CASE ~ (whole = {} /\ Index # <<>>)
  <2>1. told' = {Known(i) : i \in whole} /\ answer' = [is |-> "listed"]
    BY <1>4 DEF ListFlat
  <2>2. answer'.is = "listed"
    BY <2>1
  <2>3. \A i \in DOMAIN Index : Known(i) \in told' <=> ~Index[i].tool.broken
    <3> SUFFICES ASSUME NEW i \in DOMAIN Index
                 PROVE  Known(i) \in told' <=> i \in whole
      OBVIOUS
    <3>1. \A j \in whole : Known(i) = Known(j) => i = j
      BY <1>1, GetFinds
    <3> HIDE DEF whole
    <3> QED
      BY <2>1, <3>1
  <2>4. told' = {} => Index = <<>>
    BY <1>4, <2>1
  <2>5. BrokenToolIsContained'
    <3>1. answer'.is # "described" /\ answer'.is # "no list"
      BY <2>2
    <3> QED
      BY <1>2, <2>3, <2>4, <3>1 DEF BrokenToolIsContained
  <2>6. CallReachesItsTool' /\ EmptyMeansNoMatch'
    <3>1. /\ answer'.is # "called" /\ answer'.is # "not exposed" /\ answer'.is # "no route"
          /\ answer'.is # "hits"
      BY <2>2
    <3> QED
      BY <3>1 DEF CallReachesItsTool, EmptyMeansNoMatch
  <2>7. ToldInv'
    <3> SUFFICES ASSUME NEW i \in whole
                 PROVE  /\ Addressable(Known(i).service)
                        /\ Known(i).upstream \in Strings /\ Known(i).upstream # <<>>
                        /\ Known(i).name = Joined(Known(i).service, Known(i).upstream)
      BY <2>1 DEF ToldInv
    <3>1. /\ Known(i).name = NamespacedName(i) /\ Known(i).service = ServiceAt(i)
          /\ Known(i).upstream = UpstreamAt(i)
      BY <1>1, NameOfTool
    <3> QED
      BY <1>1, <3>1, NameOfTool
  <2>8. SearchInv' /\ PendingInv'
    <3>1. SearchInv'
      BY <1>1, SearchFrame DEF IndInv
    <3>2. stage' = "idle"
      BY <1>1 DEF vars
    <3> QED
      BY <3>1, <3>2 DEF PendingInv
  <2> QED
    BY <2>5, <2>6, <2>7, <2>8 DEF IndInv
<1> QED
  BY <1>3, <1>4

\* A name the catalog has is routed to the halves it was put together from.
LEMMA CallKeeps ==
    ASSUME IndInv, NEW name, NEW arguments, Call(name, arguments)
    PROVE  IndInv'
<1>1. InputInv /\ stage = "idle" /\ ToldInv
  BY DEF IndInv, SearchInv, Call, Ready
<1>2. PICK with : Reply(with) /\ \/ with = [is |-> "error"]
                                 \/ Get(name) = {} /\ with = [is |-> "not exposed", name |-> name]
                                 \/ Get(name) # {} /\ with = Dispatched(name)
  BY DEF Call
<1>3. answer' = with /\ UNCHANGED <<vars, told>>
  BY <1>2 DEF Reply
<1>4. /\ UNCHANGED <<Index, catalog>>
      /\ \A i : NamespacedName(i)' = NamespacedName(i) /\ Known(i)' = Known(i)
  BY <1>3 DEF vars, input, Index, NamespacedName, Known
<1>5. CASE with = [is |-> "error"]
  <2>1. answer'.is = "error"
    BY <1>3, <1>5
  <2> QED
    BY <1>1, <1>3, <2>1, PlainAnswer, ReplyKeeps
<1>6. CASE Get(name) = {} /\ with = [is |-> "not exposed", name |-> name]
  <2>1. answer'.is = "not exposed" /\ answer'.name = name
    BY <1>3, <1>6
  <2>2. \A i \in DOMAIN Index : NamespacedName(i) # name
    <3> SUFFICES ASSUME NEW i \in DOMAIN Index, NamespacedName(i) = name PROVE FALSE
      OBVIOUS
    <3>1. Get(name) = {i}
      BY <1>1, GetFinds
    <3> QED
      BY <1>6, <3>1
  <2>3. CallReachesItsTool'
    <3>1. answer'.is # "called" /\ answer'.is # "no route"
      BY <2>1
    <3> QED
      BY <1>4, <2>1, <2>2, <3>1 DEF CallReachesItsTool
  <2>4. BrokenToolIsContained' /\ EmptyMeansNoMatch'
    <3>1. /\ answer'.is # "described" /\ answer'.is # "listed" /\ answer'.is # "no list"
          /\ answer'.is # "hits"
      BY <2>1
    <3> QED
      BY <3>1 DEF BrokenToolIsContained, EmptyMeansNoMatch
  <2> QED
    BY <1>1, <1>3, <2>3, <2>4, ReplyKeeps DEF AnswerInv
<1>7. CASE Get(name) # {} /\ with = Dispatched(name)
  <2>1. PICK i \in DOMAIN Index : NamespacedName(i) = name
    BY <1>7 DEF Get
  <2> DEFINE halves == [service |-> ServiceAt(i), tool |-> UpstreamAt(i)]
  <2>2. Split(name) = {halves} /\ halves.service \in Routes
    BY <1>1, <2>1, NameOfTool
  <2>3. Dispatched(name) = [is |-> "called", name |-> name, at |-> halves]
    <3> HIDE DEF halves
    <3> QED
      BY <2>2 DEF Dispatched
  <2>4. /\ answer'.is = "called" /\ answer'.name = name
        /\ answer'.at.service = ServiceAt(i) /\ answer'.at.tool = UpstreamAt(i)
    BY <1>3, <1>7, <2>3
  <2>5. Known(i) = [name |-> answer'.name, service |-> answer'.at.service,
                    upstream |-> answer'.at.tool]
    BY <1>1, <2>1, <2>4, NameOfTool
  <2>6. ASSUME NEW k \in told, k.name = name
        PROVE  k.service = answer'.at.service /\ k.upstream = answer'.at.tool
    <3>1. /\ Addressable(k.service) /\ k.upstream \in Strings /\ k.upstream # <<>>
          /\ Joined(k.service, k.upstream) = name
      BY <1>1, <2>6 DEF ToldInv
    <3>2. /\ Addressable(ServiceAt(i)) /\ UpstreamAt(i) \in Strings /\ UpstreamAt(i) # <<>>
          /\ Joined(ServiceAt(i), UpstreamAt(i)) = name
      BY <1>1, <2>1, NameOfTool
    <3>3. k.service = ServiceAt(i) /\ k.upstream = UpstreamAt(i)
      BY <3>1, <3>2, JoinedOnce
    <3> QED
      BY <2>4, <3>3
  <2>7. CallReachesItsTool'
    <3>1. answer'.is # "not exposed" /\ answer'.is # "no route"
      BY <2>4
    <3>2. told' = told
      BY <1>3
    <3> QED
      BY <1>4, <2>4, <2>5, <2>6, <3>1, <3>2 DEF CallReachesItsTool
  <2>8. BrokenToolIsContained' /\ EmptyMeansNoMatch'
    <3>1. /\ answer'.is # "described" /\ answer'.is # "listed" /\ answer'.is # "no list"
          /\ answer'.is # "hits"
      BY <2>4
    <3> QED
      BY <3>1 DEF BrokenToolIsContained, EmptyMeansNoMatch
  <2> QED
    BY <1>1, <1>3, <2>7, <2>8, ReplyKeeps DEF AnswerInv
<1> QED
  BY <1>2, <1>5, <1>6, <1>7

LEMMA RefreshKeeps ==
    ASSUME IndInv, NEW fresh \in Catalogs, Refresh(fresh)
    PROVE  IndInv'
<1>1. /\ catalog' = fresh /\ stage' = "idle" /\ stage = "idle" /\ answer = NoAnswer
      /\ UNCHANGED <<query, filter, limit, told, answer>>
  BY DEF Refresh, Ready, surface
<1>2. SearchInv'
  <2>1. InputInv'
    BY <1>1 DEF IndInv, SearchInv, InputInv
  <2> QED
    BY <1>1, <2>1, IdleSearch
<1>3. ToldInv' /\ PendingInv'
  BY <1>1 DEF IndInv, ToldInv, PendingInv
<1>4. answer'.is = "none"
  BY <1>1 DEF NoAnswer
<1> QED
  BY <1>2, <1>3, <1>4, PlainAnswer DEF IndInv, AnswerInv

LEMMA ReadKeeps ==
    ASSUME IndInv, Read
    PROVE  IndInv'
<1>1. /\ stage = "idle" /\ answer' = NoAnswer /\ told' \subseteq told /\ UNCHANGED vars
  BY DEF Read
<1>2. SearchInv'
  BY <1>1, SearchFrame DEF IndInv
<1>3. ToldInv' /\ PendingInv'
  BY <1>1 DEF IndInv, ToldInv, PendingInv, vars
<1>4. answer'.is = "none"
  BY <1>1 DEF NoAnswer
<1> QED
  BY <1>2, <1>3, <1>4, PlainAnswer DEF IndInv, AnswerInv

\* A search goes on while its caller waits.
LEMMA SearchKeeps ==
    ASSUME IndInv, Next, UNCHANGED surface
    PROVE  IndInv'
<1>1. SearchInv'
  BY MatchRanks, SelectLeads, DeliverSorts DEF IndInv, Next
<1>2. UNCHANGED <<catalog, limit, told, answer>> /\ stage # "idle"
  BY DEF Next, Match, Select, Deliver, input, surface
<1>3. ToldInv' /\ PendingInv'
  BY <1>2 DEF IndInv, ToldInv, PendingInv
<1> QED
  BY <1>1, <1>2, <1>3, AnswerFrame DEF IndInv, AnswerInv

LEMMA StartEstablishes == ASSUME Start PROVE IndInv
<1>1. /\ catalog \in Catalogs /\ query = <<>> /\ limit = 0 /\ stage = "idle"
      /\ answer = NoAnswer /\ told = {}
  BY DEF Start
<1>2. SearchInv
  <2>1. <<>> \in Seq(Strings) /\ <<>> \notin ToSet(<<>>)
    BY DEF ToSet
  <2> QED
    BY <1>1, <2>1 DEF SearchInv, InputInv, SelectInv, DeliverInv, BestHitsInOrder
<1>3. ToldInv /\ PendingInv
  BY <1>1 DEF ToldInv, PendingInv
<1>4. answer.is = "none"
  BY <1>1 DEF NoAnswer
<1>5. CallReachesItsTool /\ BrokenToolIsContained /\ EmptyMeansNoMatch
  <2>1. /\ answer.is # "called" /\ answer.is # "not exposed" /\ answer.is # "no route"
        /\ answer.is # "described" /\ answer.is # "listed" /\ answer.is # "no list"
        /\ answer.is # "hits"
    BY <1>4
  <2> QED
    BY <2>1 DEF CallReachesItsTool, BrokenToolIsContained, EmptyMeansNoMatch
<1> QED
  BY <1>2, <1>3, <1>5 DEF IndInv

LEMMA StepKeeps == ASSUME IndInv, [Serve]_<<vars, surface>> PROVE IndInv'
<1>1. CASE Requests
  <2>1. ASSUME NEW tokens \in Queries \cup {Absent}, NEW service,
               NEW wanted \in Limits \cup {Absent}, SearchTools(tokens, service, wanted)
        PROVE  IndInv'
    BY <2>1, SearchToolsKeeps
  <2>2. ASSUME NEW tokens \in Queries, CallSearchWith(tokens, 0) PROVE IndInv'
    BY <2>2, CallSearchWithKeeps
  <2>3. ASSUME NEW names, DescribeTools(names) PROVE IndInv'
    BY <2>3, DescribeToolsKeeps
  <2>4. CASE ListFlat
    BY <2>4, ListFlatKeeps
  <2>5. ASSUME NEW name, NEW arguments, Call(name, arguments) PROVE IndInv'
    BY <2>5, CallKeeps
  <2> QED
    BY <1>1, <2>1, <2>2, <2>3, <2>4, <2>5 DEF Requests
<1>2. CASE Next /\ UNCHANGED surface
  BY <1>2, SearchKeeps
<1>3. CASE SearchPayload
  BY <1>3, SearchPayloadKeeps
<1>4. CASE Read
  BY <1>4, ReadKeeps
<1>5. ASSUME NEW fresh \in Catalogs, Refresh(fresh) PROVE IndInv'
  BY <1>5, RefreshKeeps
<1>6. CASE UNCHANGED <<vars, surface>>
  <2>1. UNCHANGED <<vars, catalog, stage, limit, told, answer>>
    BY <1>6 DEF surface, vars, input
  <2>2. SearchInv'
    BY <2>1, SearchFrame DEF IndInv
  <2>3. ToldInv' /\ PendingInv'
    BY <2>1 DEF IndInv, ToldInv, PendingInv
  <2> QED
    BY <2>1, <2>2, <2>3, AnswerFrame DEF IndInv, AnswerInv
<1> QED
  BY <1>1, <1>2, <1>3, <1>4, <1>5, <1>6 DEF Serve

-----------------------------------------------------------------------------
(* Theorems *)

\* Whatever the client asks, in whatever order, and whenever the catalog is
\* replaced: the search, the names and the replies are what IndInv says.
THEOREM Invariance == Surface => []IndInv
<1>1. Start => IndInv
  BY StartEstablishes
<1>2. IndInv /\ [Serve]_<<vars, surface>> => IndInv'
  BY StepKeeps
<1> QED
  BY <1>1, <1>2, PTL DEF Surface

\* For every catalog, query and limit, the hits of a search are the beginning of
\* the full ranking, in its order, and the total counts all that match.
THEOREM SearchRanksTheWhole == Surface => []BestHitsInOrder
<1>1. IndInv => BestHitsInOrder
  BY DEF IndInv, SearchInv
<1> QED
  BY <1>1, Invariance, PTL

\* Whatever the brand, the separators and the weights of phrases: a tool whose name
\* words are the query is before every tool that is only found by its service.
THEOREM NamesBeatServices == Surface => []NamedToolOutranks
<1>1. IndInv => NamedToolOutranks
  <2> SUFFICES ASSUME IndInv, stage = "select", query # <<>>,
                      NEW x \in DOMAIN candidates, NEW y \in DOMAIN candidates,
                      Index[candidates[x].tool].tool.words = query,
                      \A token \in ToSet(query) :
                         TokenScore(Index[candidates[y].tool].tool, token) = 0
               PROVE  candidates[x].score > candidates[y].score
    BY DEF NamedToolOutranks
  <2>1. InputInv /\ ToSet(candidates) = Ranked
    BY DEF IndInv, SearchInv, SelectInv
  <2>2. candidates[x] \in Ranked /\ candidates[y] \in Ranked
    BY <2>1 DEF ToSet
  <2> QED
    BY <2>1, <2>2, NamedIsFirst
<1> QED
  BY <1>1, Invariance, PTL

\* However an id is written and whether it carries the brand word or not: a query
\* that spells it out finds all tools of its service and ranks them as named by it.
THEOREM SpelledServicesAreFound == Surface => []ServiceIsFoundByItsName
<1>1. IndInv => ServiceIsFoundByItsName
  <2> SUFFICES ASSUME IndInv, stage = "select", NEW s \in DOMAIN catalog,
                      NEW named \in {query} \cup (IF query # <<>> /\ Head(query) = Brand
                                                     THEN {Tail(query)} ELSE {}),
                      SpellsOut(named, catalog[s].id), catalog[s].id # Brand,
                      NEW i \in DOMAIN Index, Index[i].service = s,
                      filter \in {AnyService, s}
               PROVE  \E k \in DOMAIN candidates :
                         candidates[k].tool = i /\ candidates[k].score >= 32
    BY DEF ServiceIsFoundByItsName
  <2>1. InputInv /\ ToSet(candidates) = Ranked
    BY DEF IndInv, SearchInv, SelectInv
  <2>2. query # <<>>
    <3>1. CASE query = <<>>
      <4>1. named = query
        BY <3>1
      <4> QED
        BY <2>1, <3>1, <4>1, IdsAreProper, SpelledOut DEF InputInv, Tokens
    <3> QED
      BY <3>1
  <2>3. \/ SpellsOut(query, catalog[s].id)
        \/ Head(query) = Brand /\ SpellsOut(Tail(query), catalog[s].id)
    OBVIOUS
  <2>4. Candidate(i, query) \in Ranked /\ Candidate(i, query).score >= 32
    BY <2>1, <2>2, <2>3, SpelledIsFound
  <2>5. PICK k \in DOMAIN candidates : candidates[k] = Candidate(i, query)
    BY <2>1, <2>4 DEF ToSet
  <2> QED
    BY <2>4, <2>5, CandidateOf
<1> QED
  BY <1>1, Invariance, PTL

\* A called name reaches the service and the tool that the client was told, under
\* every catalog, and is refused only if no tool has it.
THEOREM NamesLeadToTheirTools == Surface => []CallReachesItsTool
<1>1. IndInv => CallReachesItsTool
  BY DEF IndInv
<1> QED
  BY <1>1, Invariance, PTL

\* A tool that cannot be materialized takes nothing but itself out of a reply.
THEOREM BreakageIsLocal == Surface => []BrokenToolIsContained
<1>1. IndInv => BrokenToolIsContained
  BY DEF IndInv
<1> QED
  BY <1>1, Invariance, PTL

\* A search_tools that shows no hit had none to show.
THEOREM NoHitsNoMatches == Surface => []EmptyMeansNoMatch
<1>1. IndInv => EmptyMeansNoMatch
  BY DEF IndInv
<1> QED
  BY <1>1, Invariance, PTL

================================================================================
