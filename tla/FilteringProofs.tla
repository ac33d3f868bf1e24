--------------------------- MODULE FilteringProofs ---------------------------
(****************************************************************************)
(* What Kept returns, for every sequence and every set: a sequence of its    *)
(* elements, in their order, and all of them that are in the set.  Its       *)
(* recursion goes over the prefixes of the sequence, and induction over it   *)
(* is that of NaturalInduction, for a set of numbers; it rests on the        *)
(* library's theorem that < on Nat is well-founded.                          *)
(****************************************************************************)
EXTENDS Filtering, WellFoundedInduction, TLAPS

\* A set of natural numbers that is not empty has a least element.
LEMMA LeastNatural ==
    ASSUME NEW S \in SUBSET Nat, S # {}
    PROVE  \E n \in S : \A m \in S : n <= m
<1> DEFINE R == {p \in Nat \X Nat : p[1] < p[2]}
<1>1. OpToRel(<, Nat) = R
  BY Zenon DEF OpToRel
<1>2. IsWellFoundedOn(R, Nat)
  BY <1>1, NatLessThanWellFounded, Zenon
<1>3. PICK n \in S : \A m \in S : ~ (<<m, n>> \in R)
  <2> HIDE DEF R
  <2> QED
    BY <1>2, WFMin
<1>4. \A m \in S : n <= m
  <2> SUFFICES ASSUME NEW m \in S PROVE n <= m
    OBVIOUS
  <2>1. m \in Nat /\ n \in Nat /\ <<m, n>> \in Nat \X Nat
    OBVIOUS
  <2>2. ~ (m < n)
    BY <1>3, <2>1
  <2> QED
    BY <2>1, <2>2
<1> QED
  BY <1>4

\* Induction, for the set of the numbers that have a property.
LEMMA NaturalInduction ==
    ASSUME NEW P, 0 \in P, \A n \in Nat : n \in P => n + 1 \in P
    PROVE  \A n \in Nat : n \in P
<1> SUFFICES ASSUME Nat \ P # {} PROVE FALSE
  OBVIOUS
<1>1. PICK n \in Nat \ P : \A m \in Nat \ P : n <= m
  BY LeastNatural
<1>2. n # 0 /\ n - 1 \in Nat /\ ~ (n <= n - 1)
  OBVIOUS
<1>3. n - 1 \in P
  BY <1>1, <1>2
<1> QED
  BY <1>2, <1>3

\* upTo has what is kept of every prefix of s, a sequence over S.
Computes(upTo, S, s, K) ==
    /\ upTo \in [0 .. Len(s) -> Seq(S)]
    /\ Kept(s, K) = upTo[Len(s)]
    /\ \A n \in 0 .. Len(s) :
          upTo[n] = IF n = 0 THEN <<>>
                    ELSE IF s[n] \in K THEN Append(upTo[n - 1], s[n])
                         ELSE upTo[n - 1]

\* Kept is what its definition says, for every prefix.
LEMMA KeptUpTo ==
    ASSUME NEW S, NEW s \in Seq(S), NEW K
    PROVE  \E upTo : Computes(upTo, S, s, K)
<1> DEFINE Step(f, n) == IF n = 0 THEN <<>>
                         ELSE IF s[n] \in K THEN Append(f[n - 1], s[n]) ELSE f[n - 1]
           Upto(f, n) == f \in [0 .. n -> Seq(S)] /\ \A k \in 0 .. n : f[k] = Step(f, k)
           P == {n \in Nat : n <= Len(s) => \E f : Upto(f, n)}
<1>1. Len(s) \in Nat /\ \A n \in 1 .. Len(s) : s[n] \in S
  OBVIOUS
<1>2. 0 \in P
  <2>1. Upto([k \in 0 .. 0 |-> <<>>], 0)
    OBVIOUS
  <2> QED
    BY <2>1
<1>3. ASSUME NEW n \in Nat, n \in P PROVE n + 1 \in P
  <2> SUFFICES ASSUME n + 1 <= Len(s) PROVE \E g : Upto(g, n + 1)
    <3> HIDE DEF Upto
    <3> QED
      OBVIOUS
  <2>1. PICK f : Upto(f, n)
    <3> HIDE DEF Upto
    <3> QED
      BY <1>1, <1>3
  <2> DEFINE last == IF s[n + 1] \in K THEN Append(f[n], s[n + 1]) ELSE f[n]
             g == [k \in 0 .. n + 1 |-> IF k = n + 1 THEN last ELSE f[k]]
  <2>2. last \in Seq(S)
    <3>1. f[n] \in Seq(S) /\ s[n + 1] \in S
      BY <1>1, <2>1
    <3> QED
      BY <3>1
  <2>3. g \in [0 .. n + 1 -> Seq(S)]
    BY <2>1, <2>2
  <2>4. ASSUME NEW k \in 0 .. n + 1 PROVE g[k] = Step(g, k)
    <3>1. CASE k = n + 1
      <4>1. g[n] = f[n]
        OBVIOUS
      <4> QED
        BY <3>1, <4>1
    <3>2. CASE k \in 0 .. n
      <4>1. g[k] = f[k] /\ (k # 0 => g[k - 1] = f[k - 1])
        BY <3>2
      <4>2. f[k] = Step(f, k)
        BY <2>1, <3>2
      <4> HIDE DEF g
      <4> QED
        BY <3>2, <4>1, <4>2
    <3> QED
      BY <3>1, <3>2
  <2> QED
    BY <2>3, <2>4
<1>4. \A n \in Nat : n \in P
  <2> HIDE DEF P
  <2> QED
    BY <1>2, <1>3, NaturalInduction
<1>5. PICK f : Upto(f, Len(s))
  <2> HIDE DEF Upto
  <2> QED
    BY <1>1, <1>4
<1> DEFINE r == CHOOSE h : h = [n \in 0 .. Len(s) |-> Step(h, n)]
<1>6. f = [n \in 0 .. Len(s) |-> Step(f, n)]
  BY <1>5
<1>7. r = [n \in 0 .. Len(s) |-> Step(r, n)]
  <2> HIDE DEF Step
  <2> QED
    BY <1>6
<1>8. Kept(s, K) = r[Len(s)]
  BY DEF Kept
<1> DEFINE Q == {n \in Nat : n <= Len(s) => r[n] = f[n]}
<1>9. \A n \in Nat : n \in Q
  <2> HIDE DEF r
  <2>1. 0 \in Q
    BY <1>1, <1>5, <1>7
  <2>2. ASSUME NEW n \in Nat, n \in Q PROVE n + 1 \in Q
    <3> SUFFICES ASSUME n + 1 <= Len(s) PROVE r[n + 1] = f[n + 1]
      OBVIOUS
    <3>1. n + 1 \in 0 .. Len(s)
      BY <1>1
    <3>2. r[n + 1] = Step(r, n + 1)
      <4> HIDE DEF Step
      <4> QED
        BY <1>7, <3>1
    <3>3. f[n + 1] = Step(f, n + 1)
      BY <1>5, <3>1
    <3> QED
      BY <1>1, <2>2, <3>2, <3>3
  <2> HIDE DEF Q
  <2> QED
    BY <2>1, <2>2, NaturalInduction
<1>10. Kept(s, K) = f[Len(s)]
  BY <1>1, <1>8, <1>9
<1> QED
  BY <1>5, <1>10 DEF Computes

\* at has the place in s of everything that is kept.
ArePlaces(at, s, K) ==
    /\ at \in [1 .. Len(Kept(s, K)) -> 1 .. Len(s)]
    /\ \A i \in 1 .. Len(Kept(s, K)) : Kept(s, K)[i] = s[at[i]] /\ s[at[i]] \in K
    /\ \A i, j \in 1 .. Len(Kept(s, K)) : i < j => at[i] < at[j]
    /\ \A n \in 1 .. Len(s) : s[n] \in K => \E i \in 1 .. Len(Kept(s, K)) : at[i] = n

\* What is kept is kept in order: its places in the sequence increase, and they
\* are the places of the elements to keep.
LEMMA KeptInOrder ==
    ASSUME NEW S, NEW s \in Seq(S), NEW K
    PROVE  /\ Kept(s, K) \in Seq(S)
           /\ Len(Kept(s, K)) <= Len(s)
           /\ (\E n \in 1 .. Len(s) : s[n] \notin K) => Len(Kept(s, K)) < Len(s)
           /\ \E at : ArePlaces(at, s, K)
<1>0. PICK upTo : Computes(upTo, S, s, K)
  BY KeptUpTo
<1>1. /\ upTo \in [0 .. Len(s) -> Seq(S)]
      /\ Kept(s, K) = upTo[Len(s)]
      /\ \A n \in 0 .. Len(s) :
            upTo[n] = IF n = 0 THEN <<>>
                      ELSE IF s[n] \in K THEN Append(upTo[n - 1], s[n])
                           ELSE upTo[n - 1]
  BY <1>0 DEF Computes
<1> DEFINE Places(n, at) ==
              /\ at \in [1 .. Len(upTo[n]) -> 1 .. n]
              /\ \A i \in 1 .. Len(upTo[n]) : upTo[n][i] = s[at[i]] /\ s[at[i]] \in K
              /\ \A i, j \in 1 .. Len(upTo[n]) : i < j => at[i] < at[j]
              /\ \A m \in 1 .. n : s[m] \in K => \E i \in 1 .. Len(upTo[n]) : at[i] = m
           Short(n) == /\ Len(upTo[n]) <= n
                       /\ (\E m \in 1 .. n : s[m] \notin K) => Len(upTo[n]) < n
           Good(n) == Short(n) /\ \E at : Places(n, at)
           P == {n \in Nat : n <= Len(s) => Good(n)}
<1>2. Len(s) \in Nat /\ \A n \in 1 .. Len(s) : s[n] \in S
  OBVIOUS
<1>3. 0 \in P
  <2>1. upTo[0] = <<>>
    BY <1>1, <1>2
  <2>2. Places(0, <<>>)
    BY <2>1
  <2> HIDE DEF Places
  <2> QED
    BY <2>1, <2>2
<1>4. ASSUME NEW n \in Nat, n \in P PROVE n + 1 \in P
  <2> SUFFICES ASSUME n + 1 <= Len(s) PROVE Good(n + 1)
    <3> HIDE DEF Good
    <3> QED
      OBVIOUS
  <2>1. PICK at : Short(n) /\ Places(n, at)
    <3> HIDE DEF Places
    <3> QED
      BY <1>2, <1>4
  <2>2. /\ n \in 0 .. Len(s) /\ n + 1 \in 1 .. Len(s) /\ n + 1 \in 0 .. Len(s)
        /\ n + 1 # 0 /\ (n + 1) - 1 = n
        /\ upTo[n] \in Seq(S) /\ s[n + 1] \in S
    <3>1. /\ n \in 0 .. Len(s) /\ n + 1 \in 1 .. Len(s) /\ n + 1 \in 0 .. Len(s)
          /\ n + 1 # 0 /\ (n + 1) - 1 = n
      BY <1>2
    <3> QED
      BY <1>1, <1>2, <3>1
  <2>3. CASE s[n + 1] \notin K
    <3>1. upTo[n + 1] = upTo[n]
      BY <1>1, <2>2, <2>3
    <3> DEFINE l == Len(upTo[n])
    <3>2. l \in Nat /\ at \in [1 .. l -> 1 .. n + 1]
      BY <2>1, <2>2
    <3>3. \A m \in 1 .. n + 1 : s[m] \in K => m \in 1 .. n
      BY <2>3
    <3>4. Places(n + 1, at)
      BY <2>1, <3>1, <3>2, <3>3
    <3>5. Short(n + 1)
      BY <2>1, <3>1, <3>2
    <3> HIDE DEF Places, Short
    <3> QED
      BY <3>4, <3>5
  <2>4. CASE s[n + 1] \in K
    <3> DEFINE l == Len(upTo[n])
               more == [i \in 1 .. l + 1 |-> IF i = l + 1 THEN n + 1 ELSE at[i]]
    <3>1. upTo[n + 1] = Append(upTo[n], s[n + 1])
      BY <1>1, <2>2, <2>4
    <3>2. /\ l \in Nat /\ Len(upTo[n + 1]) = l + 1
          /\ \A i \in 1 .. l : upTo[n + 1][i] = upTo[n][i]
          /\ upTo[n + 1][l + 1] = s[n + 1]
      BY <2>2, <3>1
    <3>3. /\ more[l + 1] = n + 1
          /\ \A i \in 1 .. l : more[i] = at[i] /\ at[i] \in 1 .. n
          /\ \A i \in 1 .. l + 1 : i \in 1 .. l \/ i = l + 1
      <4> l \in Nat
        BY <3>2
      <4> at \in [1 .. l -> 1 .. n]
        BY <2>1
      <4> HIDE DEF l, Places
      <4> QED
        OBVIOUS
    <3>4. more \in [1 .. l + 1 -> 1 .. n + 1]
      BY <2>1, <3>2
    <3> HIDE DEF more, l
    <3>5. \A i \in 1 .. l + 1 : upTo[n + 1][i] = s[more[i]] /\ s[more[i]] \in K
      BY <2>1, <2>4, <3>2, <3>3 DEF l
    <3>6. \A i, j \in 1 .. l + 1 : i < j => more[i] < more[j]
      BY <2>1, <3>2, <3>3 DEF l
    <3>7. \A m \in 1 .. n + 1 : s[m] \in K => \E i \in 1 .. l + 1 : more[i] = m
      <4> SUFFICES ASSUME NEW m \in 1 .. n + 1, s[m] \in K
                   PROVE  \E i \in 1 .. l + 1 : more[i] = m
        OBVIOUS
      <4>1. CASE m = n + 1
        BY <3>2, <3>3, <4>1
      <4>2. CASE m \in 1 .. n
        <5>1. PICK i \in 1 .. l : at[i] = m
          BY <2>1, <4>2 DEF l
        <5>2. i \in 1 .. l + 1 /\ more[i] = m
          BY <3>2, <3>3, <5>1
        <5> QED
          BY <5>2
      <4> QED
        BY <4>1, <4>2
    <3>8. Places(n + 1, more)
      BY <3>2, <3>4, <3>5, <3>6, <3>7
    <3>9. Short(n + 1)
      <4>1. l <= n /\ ((\E m \in 1 .. n : s[m] \notin K) => l < n)
        BY <2>1 DEF l
      <4>2. \A m \in 1 .. n + 1 : s[m] \notin K => m \in 1 .. n
        BY <2>4
      <4> HIDE DEF Places, l
      <4> QED
        BY <3>2, <4>1, <4>2
    <3> HIDE DEF Places, Short
    <3> QED
      BY <3>8, <3>9
  <2> QED
    BY <2>3, <2>4
<1>5. Good(Len(s))
  <2> HIDE DEF Good
  <2>1. \A n \in Nat : n \in P
    <3> HIDE DEF P
    <3> QED
      BY <1>3, <1>4, NaturalInduction
  <2> QED
    BY <1>2, <2>1
<1>6. Kept(s, K) \in Seq(S)
  BY <1>1, <1>2
<1>7. PICK at : Short(Len(s)) /\ Places(Len(s), at)
  <2> HIDE DEF Places
  <2> QED
    BY <1>5
<1> DEFINE kept == Kept(s, K)
<1>8. kept = upTo[Len(s)]
  BY <1>1
<1>9. /\ at \in [1 .. Len(kept) -> 1 .. Len(s)]
      /\ \A i \in 1 .. Len(kept) : kept[i] = s[at[i]] /\ s[at[i]] \in K
      /\ \A i, j \in 1 .. Len(kept) : i < j => at[i] < at[j]
      /\ \A n \in 1 .. Len(s) : s[n] \in K => \E i \in 1 .. Len(kept) : at[i] = n
  <2> HIDE DEF kept
  <2> QED
    BY <1>7, <1>8
<1>10. ArePlaces(at, s, K)
  BY <1>9 DEF ArePlaces
<1> QED
  BY <1>6, <1>7, <1>8, <1>10

\* What is kept of the numbers up to m: those in K, each once.
LEMMA KeptNumbers ==
    ASSUME NEW m \in Nat, NEW K \in SUBSET (1 .. m)
    PROVE  /\ Len(Kept([n \in 1 .. m |-> n], K)) \in Nat
           /\ Kept([n \in 1 .. m |-> n], K)
                 \in [1 .. Len(Kept([n \in 1 .. m |-> n], K)) -> K]
           /\ \A i, j \in 1 .. Len(Kept([n \in 1 .. m |-> n], K)) :
                 i < j => Kept([n \in 1 .. m |-> n], K)[i] < Kept([n \in 1 .. m |-> n], K)[j]
           /\ \A k \in K : \E i \in 1 .. Len(Kept([n \in 1 .. m |-> n], K)) :
                 Kept([n \in 1 .. m |-> n], K)[i] = k
<1> DEFINE all == [n \in 1 .. m |-> n]
           kept == Kept(all, K)
<1>1. all \in Seq(Nat) /\ Len(all) = m /\ \A n \in 1 .. m : all[n] = n
  OBVIOUS
<1> HIDE DEF all
<1>2. kept \in Seq(Nat)
  BY <1>1, KeptInOrder
<1>3a. PICK at : ArePlaces(at, all, K)
  <2>1. all \in Seq(Nat)
    BY <1>1
  <2> QED
    BY <2>1, KeptInOrder
<1>3. /\ at \in [1 .. Len(kept) -> 1 .. Len(all)]
      /\ \A i \in 1 .. Len(kept) : kept[i] = all[at[i]] /\ all[at[i]] \in K
      /\ \A i, j \in 1 .. Len(kept) : i < j => at[i] < at[j]
      /\ \A n \in 1 .. Len(all) : all[n] \in K => \E i \in 1 .. Len(kept) : at[i] = n
  BY <1>3a DEF ArePlaces
<1> HIDE DEF kept
<1> DEFINE l == Len(kept)
<1>4. l \in Nat /\ kept \in [1 .. l -> Nat]
  BY <1>2
<1>5. \A i \in 1 .. l : kept[i] = at[i] /\ kept[i] \in K
  BY <1>1, <1>3
<1>6. kept \in [1 .. l -> K]
  BY <1>4, <1>5
<1>7. \A i, j \in 1 .. l : i < j => kept[i] < kept[j]
  BY <1>3, <1>5
<1>8. \A k \in K : \E i \in 1 .. l : kept[i] = k
  BY <1>1, <1>3, <1>5
<1> QED
  BY <1>4, <1>6, <1>7, <1>8 DEF kept, all

\* The first element to keep is kept first.
LEMMA KeptFirst ==
    ASSUME NEW S, NEW s \in Seq(S), NEW K, NEW n \in 1 .. Len(s), s[n] \in K,
           \A m \in 1 .. n - 1 : s[m] \notin K
    PROVE  /\ Kept(s, K) \in Seq(S) /\ Kept(s, K) # <<>>
           /\ Kept(s, K)[1] = s[n]
<1> DEFINE kept == Kept(s, K)
           l == Len(kept)
<1>1. kept \in Seq(S)
  BY KeptInOrder
<1>2a. PICK at : ArePlaces(at, s, K)
  BY KeptInOrder
<1>2. /\ at \in [1 .. Len(kept) -> 1 .. Len(s)]
      /\ \A i \in 1 .. Len(kept) : kept[i] = s[at[i]] /\ s[at[i]] \in K
      /\ \A i, j \in 1 .. Len(kept) : i < j => at[i] < at[j]
      /\ \A m \in 1 .. Len(s) : s[m] \in K => \E i \in 1 .. Len(kept) : at[i] = m
  BY <1>2a DEF ArePlaces
<1> HIDE DEF kept
<1>3. l \in Nat /\ Len(s) \in Nat
  BY <1>1
<1>4. PICK i \in 1 .. l : at[i] = n
  BY <1>2
<1>5. 1 \in 1 .. l /\ kept # <<>>
  BY <1>1, <1>3, <1>4
<1>6. at[1] = n
  <2> SUFFICES ASSUME i # 1 PROVE FALSE
    BY <1>4
  <2>1. 1 < i
    BY <1>3
  <2>2. at[1] < n /\ at[1] \in 1 .. Len(s)
    BY <1>2, <1>4, <1>5, <2>1
  <2>3. at[1] \in 1 .. n - 1
    BY <1>3, <2>2
  <2> QED
    BY <1>2, <1>5, <2>3
<1> QED
  BY <1>1, <1>2, <1>5, <1>6 DEF kept

\* What is kept is among the elements to keep; without any, nothing is.
LEMMA KeptAmong ==
    ASSUME NEW S, NEW s \in Seq(S), NEW K
    PROVE  /\ Kept(s, K) \in Seq(S)
           /\ \A i \in 1 .. Len(Kept(s, K)) : Kept(s, K)[i] \in K
           /\ (\A m \in 1 .. Len(s) : s[m] \notin K) => Kept(s, K) = <<>>
           /\ (\E m \in 1 .. Len(s) : s[m] \in K) => Kept(s, K) # <<>>
<1> DEFINE kept == Kept(s, K)
           l == Len(kept)
<1>1. kept \in Seq(S)
  BY KeptInOrder
<1>2a. PICK at : ArePlaces(at, s, K)
  BY KeptInOrder
<1>2. /\ at \in [1 .. Len(kept) -> 1 .. Len(s)]
      /\ \A i \in 1 .. Len(kept) : kept[i] = s[at[i]] /\ s[at[i]] \in K
      /\ \A i, j \in 1 .. Len(kept) : i < j => at[i] < at[j]
      /\ \A m \in 1 .. Len(s) : s[m] \in K => \E i \in 1 .. Len(kept) : at[i] = m
  BY <1>2a DEF ArePlaces
<1> HIDE DEF kept
<1>3. l \in Nat /\ Len(s) \in Nat /\ (kept = <<>> <=> l = 0)
  BY <1>1
<1>4. \A i \in 1 .. l : kept[i] \in K
  BY <1>2
<1>5. (\A m \in 1 .. Len(s) : s[m] \notin K) => kept = <<>>
  <2> SUFFICES ASSUME \A m \in 1 .. Len(s) : s[m] \notin K, l # 0 PROVE FALSE
    BY <1>3
  <2>1. 1 \in 1 .. l
    BY <1>3
  <2>2. at[1] \in 1 .. Len(s) /\ s[at[1]] \in K
    BY <1>2, <2>1
  <2> QED
    BY <2>2
<1>6. (\E m \in 1 .. Len(s) : s[m] \in K) => kept # <<>>
  <2> SUFFICES ASSUME NEW m \in 1 .. Len(s), s[m] \in K PROVE l # 0
    BY <1>3
  <2>1. PICK i \in 1 .. l : at[i] = m
    BY <1>2
  <2> QED
    BY <1>3, <2>1
<1> QED
  BY <1>1, <1>4, <1>5, <1>6 DEF kept

\* Of one element that is to be kept.
LEMMA KeptOfOne ==
    ASSUME NEW S, NEW s \in Seq(S), NEW K, Len(s) = 1, s[1] \in K
    PROVE  Kept(s, K) = s
<1>0. PICK upTo : Computes(upTo, S, s, K)
  BY KeptUpTo
<1>1. /\ upTo \in [0 .. Len(s) -> Seq(S)]
      /\ Kept(s, K) = upTo[Len(s)]
      /\ \A n \in 0 .. Len(s) :
            upTo[n] = IF n = 0 THEN <<>>
                      ELSE IF s[n] \in K THEN Append(upTo[n - 1], s[n])
                           ELSE upTo[n - 1]
  BY <1>0 DEF Computes
<1>2. upTo[0] = <<>>
  BY <1>1
<1>3. upTo[1] = <<s[1]>>
  BY <1>1, <1>2
<1> QED
  BY <1>1, <1>3

\* Of two elements, the first of which is to be kept.
LEMMA KeptOfTwo ==
    ASSUME NEW S, NEW s \in Seq(S), NEW K, Len(s) = 2, s[1] \in K
    PROVE  Kept(s, K) = IF s[2] \in K THEN s ELSE <<s[1]>>
<1>0. PICK upTo : Computes(upTo, S, s, K)
  BY KeptUpTo
<1>1. /\ upTo \in [0 .. Len(s) -> Seq(S)]
      /\ Kept(s, K) = upTo[Len(s)]
      /\ \A n \in 0 .. Len(s) :
            upTo[n] = IF n = 0 THEN <<>>
                      ELSE IF s[n] \in K THEN Append(upTo[n - 1], s[n])
                           ELSE upTo[n - 1]
  BY <1>0 DEF Computes
<1>2. upTo[0] = <<>>
  BY <1>1
<1>3. upTo[1] = <<s[1]>>
  BY <1>1, <1>2
<1>4. upTo[2] = IF s[2] \in K THEN Append(upTo[1], s[2]) ELSE upTo[1]
  BY <1>1
<1>5. Append(<<s[1]>>, s[2]) = s
  OBVIOUS
<1> QED
  BY <1>1, <1>3, <1>4, <1>5

=============================================================================
