-------------------------- MODULE SnapshotFilesProofs --------------------------
(****************************************************************************)
(* Theorems about SnapshotFiles: for any registry, any number of format      *)
(* versions and however many commands and edits, the pair of files and what  *)
(* is published of it.                                                       *)
(*                                                                           *)
(* The inductive invariant says what the command that is running has in its  *)
(* hand, and that nothing is missing as long as nobody asked for less.       *)
(****************************************************************************)
EXTENDS SnapshotFiles, FilteringProofs, FiniteSetTheorems

USE FilesAssumption

-----------------------------------------------------------------------------
(* The inductive invariant *)

\* A command with a snapshot to write.
Writing == {"json", "json open", "archive", "bin", "bin open"}

Increasing(list) == \A i, j \in 1 .. Len(list) : i < j => list[i] < list[j]

\* What is written is sorted, and the archive is built of what the JSON holds.
\* The process reports nothing before it ends.
CommandInv ==
    /\ command # Idle => exit = "running"
    /\ command.at \in Writing =>
          Increasing(command.snapshot.services)
    /\ command.at \in {"archive", "bin", "bin open"} => json = Whole(command.snapshot)

\* No binary is of a version the source has not reached.
VersionInv == tool <= format

\* As long as nobody asked for a partial capture, nor edited the JSON, no file
\* lacks a service, nor does a snapshot on its way there.
WholeInv ==
    ~partial =>
       /\ command.at # "fetch partial"
       /\ json.is = "whole" => ToSet(json.holds.services) = Services
       /\ command.at \in Writing =>
             ToSet(command.snapshot.services) = Services

IndInv ==
    /\ TypeOK
    /\ CommandInv
    /\ VersionInv
    /\ WholeInv
    /\ SuccessLeavesAPair
    /\ PublishedServesReviewed
    /\ PublishedIsWhole

-----------------------------------------------------------------------------
(* Sorting *)

\* A bijection of 1 .. n that keeps the order changes nothing.
LEMMA OnlyIdentityKeepsOrder ==
    ASSUME NEW n \in Nat, NEW p \in [1 .. n -> 1 .. n],
           \A i, j \in 1 .. n : i < j => p[i] < p[j]
    PROVE  \A i \in 1 .. n : p[i] = i
<1>1. \A i \in 1 .. n : p[i] >= i
  <2> DEFINE Low == {i \in 1 .. n : p[i] < i}
  <2> SUFFICES ASSUME Low # {} PROVE FALSE
    OBVIOUS
  <2>1. PICK i \in Low : \A j \in Low : i <= j
    <3>1. Low \in SUBSET Nat
      OBVIOUS
    <3> QED
      BY <3>1, LeastNatural, Zenon
  <2>2. i - 1 \in 1 .. n
    BY <2>1
  <2>3. i - 1 \notin Low
    BY <2>1
  <2>4. p[i - 1] >= i - 1 /\ p[i - 1] < p[i]
    BY <2>1, <2>2, <2>3
  <2> QED
    BY <2>1, <2>2, <2>4
<1>2. \A i \in 1 .. n : p[i] <= i
  <2> DEFINE High == {k \in 0 .. n - 1 : p[n - k] > n - k}
  <2> SUFFICES ASSUME High # {} PROVE FALSE
    <3> SUFFICES ASSUME NEW i \in 1 .. n, High = {} PROVE p[i] <= i
      OBVIOUS
    <3>1. n - i \in 0 .. n - 1 /\ n - (n - i) = i
      OBVIOUS
    <3>2. ~ (p[i] > i)
      BY <3>1
    <3> QED
      BY <3>2
  <2>1. PICK k \in High : \A j \in High : k <= j
    <3>1. High \in SUBSET Nat
      OBVIOUS
    <3> QED
      BY <3>1, LeastNatural, Zenon
  <2>2. k \in 0 .. n - 1 /\ n - k \in 1 .. n /\ p[n - k] > n - k
    BY <2>1
  <2>3. k # 0
    BY <2>2
  <2>4. k - 1 \in 0 .. n - 1 /\ n - (k - 1) \in 1 .. n /\ k - 1 < k
    BY <2>2, <2>3
  <2>5. p[n - (k - 1)] <= n - (k - 1)
    <3>1. ASSUME k - 1 \in High PROVE FALSE
      <4> HIDE DEF High
      <4>1. k <= k - 1
        BY <2>1, <3>1
      <4> QED
        BY <2>2, <4>1
    <3> QED
      BY <2>4, <3>1
  <2>6. p[n - k] < p[n - (k - 1)]
    BY <2>2, <2>4
  <2> QED
    BY <2>2, <2>4, <2>5, <2>6
<1> QED
  BY <1>1, <1>2

\* Sorting a list leaves its length and what it holds.
LEMMA SortingKeeps ==
    ASSUME NEW list \in Seq(Services), NEW sorted \in InOrder(list)
    PROVE  /\ sorted \in Seq(Services) /\ Len(sorted) = Len(list)
           /\ ToSet(sorted) = ToSet(list)
           /\ IsInjective(list) => Increasing(sorted)
<1> DEFINE n == Len(list)
<1>1. n \in Nat /\ DOMAIN list = 1 .. n /\ \A i \in 1 .. n : list[i] \in Services
  OBVIOUS
<1>2. PICK p \in Bijection(1 .. n, 1 .. n) : sorted = [i \in 1 .. n |-> list[p[i]]]
  BY <1>1 DEF InOrder
<1>3. \A i, j \in 1 .. n : i < j => sorted[i] <= sorted[j]
  BY <1>1 DEF InOrder
<1>4. /\ \A i \in 1 .. n : p[i] \in 1 .. n /\ sorted[i] = list[p[i]]
      /\ \A i, j \in 1 .. n : i # j => p[i] # p[j]
      /\ \A j \in 1 .. n : \E i \in 1 .. n : p[i] = j
  BY <1>2 DEF Bijection, Injection, Surjection, IsInjective
<1> HIDE DEF n
<1>5. sorted \in Seq(Services) /\ Len(sorted) = n
  <2>1. sorted \in [1 .. n -> Services]
    BY <1>1, <1>2, <1>4
  <2> QED
    BY <1>1, <2>1
<1>6. ToSet(sorted) = ToSet(list)
  <2>1. \A x : x \in ToSet(list) <=> \E i \in 1 .. n : list[i] = x
    BY <1>1 DEF ToSet
  <2>2. \A x : x \in ToSet(sorted) <=> \E i \in 1 .. n : sorted[i] = x
    BY <1>5 DEF ToSet
  <2>3. ASSUME NEW x \in ToSet(sorted) PROVE x \in ToSet(list)
    <3>1. PICK i \in 1 .. n : sorted[i] = x
      BY <2>2
    <3> QED
      BY <1>4, <2>1, <3>1
  <2>4. ASSUME NEW x \in ToSet(list) PROVE x \in ToSet(sorted)
    <3>1. PICK j \in 1 .. n : list[j] = x
      BY <2>1
    <3>2. PICK i \in 1 .. n : p[i] = j
      BY <1>4
    <3> QED
      BY <1>4, <2>2, <3>1, <3>2
  <2> QED
    BY <2>3, <2>4
<1>7. ASSUME IsInjective(list) PROVE Increasing(sorted)
  <2> SUFFICES ASSUME NEW i \in 1 .. n, NEW j \in 1 .. n, i < j
               PROVE  sorted[i] < sorted[j]
    BY <1>5 DEF Increasing
  <2>1. p[i] \in 1 .. n /\ p[j] \in 1 .. n /\ p[i] # p[j]
    <3>1. i # j
      BY <1>1
    <3> QED
      BY <1>4, <3>1
  <2>2. sorted[i] # sorted[j]
    <3>1. list[p[i]] # list[p[j]]
      BY <1>1, <1>7, <2>1 DEF IsInjective
    <3> QED
      BY <1>4, <3>1
  <2>3. sorted[i] \in Nat /\ sorted[j] \in Nat
    <3>1. sorted[i] \in Services /\ sorted[j] \in Services
      BY <1>5
    <3> QED
      BY <3>1
  <2> QED
    BY <1>3, <2>2, <2>3
<1> QED
  BY <1>5, <1>6, <1>7 DEF n

\* A list that is sorted and holds nothing twice stays as it is.
LEMMA SortedStays ==
    ASSUME NEW list \in Seq(Services), Increasing(list)
    PROVE  InOrder(list) = {list} /\ IsInjective(list)
<1> DEFINE n == Len(list)
<1>1. n \in Nat /\ DOMAIN list = 1 .. n /\ \A i \in 1 .. n : list[i] \in Nat
  <2>1. n \in Nat /\ DOMAIN list = 1 .. n /\ \A i \in 1 .. n : list[i] \in Services
    OBVIOUS
  <2> HIDE DEF n
  <2> QED
    BY <2>1
<1>2. \A i, j \in 1 .. n : i < j => list[i] < list[j]
  BY DEF Increasing
<1>3. list = [i \in 1 .. n |-> list[i]]
  BY <1>1
<1> HIDE DEF n
<1>4. IsInjective(list)
  <2> SUFFICES ASSUME NEW i \in 1 .. n, NEW j \in 1 .. n, i # j PROVE list[i] # list[j]
    BY <1>1 DEF IsInjective
  <2>1. i < j \/ j < i
    BY <1>1
  <2> QED
    BY <1>1, <1>2, <2>1
<1>5. ASSUME NEW sorted \in InOrder(list) PROVE sorted = list
  <2>1. PICK p \in Bijection(1 .. n, 1 .. n) : sorted = [i \in 1 .. n |-> list[p[i]]]
    BY <1>1, <1>5 DEF InOrder
  <2>2. \A i, j \in 1 .. n : i < j => sorted[i] <= sorted[j]
    BY <1>1, <1>5 DEF InOrder
  <2>3. /\ p \in [1 .. n -> 1 .. n]
        /\ \A i, j \in 1 .. n : i # j => p[i] # p[j]
    BY <2>1 DEF Bijection, Injection, IsInjective
  <2>4. ASSUME NEW i \in 1 .. n, NEW j \in 1 .. n, i < j PROVE p[i] < p[j]
    <3>1. p[i] \in 1 .. n /\ p[j] \in 1 .. n /\ p[i] # p[j]
      BY <1>1, <2>3, <2>4
    <3>2. list[p[i]] <= list[p[j]]
      BY <2>1, <2>2, <2>4
    <3>3. ~ (p[j] < p[i])
      BY <1>1, <1>2, <3>1, <3>2
    <3> QED
      BY <1>1, <3>1, <3>3
  <2>5. \A i \in 1 .. n : p[i] = i
    BY <1>1, <2>3, <2>4, OnlyIdentityKeepsOrder
  <2> QED
    BY <1>3, <2>1, <2>5
<1>6. list \in InOrder(list)
  <2> DEFINE id == [i \in 1 .. n |-> i]
  <2>1. id \in Bijection(1 .. n, 1 .. n)
    BY DEF Bijection, Injection, Surjection, IsInjective
  <2>2. list = [i \in 1 .. n |-> list[id[i]]]
    BY <1>3
  <2>3. \A i, j \in 1 .. n : i < j => list[i] <= list[j]
    BY <1>1, <1>2
  <2> HIDE DEF id
  <2>4. list \in {[i \in 1 .. n |-> list[q[i]]] : q \in Bijection(1 .. n, 1 .. n)}
    BY <2>1, <2>2
  <2> QED
    BY <1>1, <2>3, <2>4 DEF InOrder
<1> QED
  BY <1>4, <1>5, <1>6

\* A list that holds nothing twice and is as long as the registry holds all of it.
LEMMA LongListIsWhole ==
    ASSUME NEW list \in Seq(Services), Increasing(list), Len(list) >= Cardinality(Services)
    PROVE  ToSet(list) = Services
<1> DEFINE n == Len(list)
<1>1. n \in Nat /\ DOMAIN list = 1 .. n /\ \A i \in 1 .. n : list[i] \in Services
  OBVIOUS
<1>2. list \in [1 .. n -> Services]
  OBVIOUS
<1>3. list \in Injection(1 .. n, Services)
  <2>1. IsInjective(list)
    BY SortedStays
  <2> QED
    BY <1>1, <1>2, <2>1 DEF Injection, IsInjective
<1> HIDE DEF n
<1>4. Cardinality(1 .. n) = n
  <2>1. 1 \in Int /\ n \in Int /\ IF 1 > n THEN n = 0 ELSE n - 1 + 1 = n
    BY <1>1
  <2>2. Cardinality(1 .. n) = IF 1 > n THEN 0 ELSE n - 1 + 1
    BY <2>1, FS_Interval, Zenon
  <2> QED
    BY <2>1, <2>2
<1>5. /\ Cardinality(1 .. n) <= Cardinality(Services)
      /\ Cardinality(1 .. n) = Cardinality(Services) <=> list \in Surjection(1 .. n, Services)
  BY <1>3, FS_Injection
<1>6. Cardinality(Services) \in Nat
  BY FS_CardinalityType
<1>7. list \in Surjection(1 .. n, Services)
  BY <1>1, <1>4, <1>5, <1>6 DEF n
<1> QED
  BY <1>1, <1>7 DEF Surjection, ToSet

\* A list is a sequence of services, and the other way round if it is not too long.
LEMMA ListsAreSequences ==
    /\ \A list \in Lists : list \in Seq(Services)
    /\ \A list \in Seq(Services) : Len(list) <= Cardinality(Services) => list \in Lists
    /\ \A list \in Lists : Len(list) <= Cardinality(Services)
<1>1. Cardinality(Services) \in Nat
  BY FS_CardinalityType
<1>2. ASSUME NEW list \in Lists
      PROVE  list \in Seq(Services) /\ Len(list) <= Cardinality(Services)
  <2>1. PICK n \in 0 .. Cardinality(Services) : list \in [1 .. n -> Services]
    BY DEF Lists
  <2> QED
    BY <1>1, <2>1
<1>3. ASSUME NEW list \in Seq(Services), Len(list) <= Cardinality(Services)
      PROVE  list \in Lists
  <2>1. Len(list) \in 0 .. Cardinality(Services) /\ list \in [1 .. Len(list) -> Services]
    BY <1>1, <1>3
  <2> QED
    BY <2>1 DEF Lists
<1> QED
  BY <1>2, <1>3

-----------------------------------------------------------------------------
(* Catalogs and archives *)

\* Loading a file yields a snapshot, sorted, of the same services.
LEMMA LoadedSnapshot ==
    ASSUME NEW held \in Snapshots, NEW snapshot \in Loaded(Whole(held))
    PROVE  /\ snapshot \in Snapshots
           /\ Increasing(snapshot.services)
           /\ ToSet(snapshot.services) = ToSet(held.services)
<1>1. IsInjective(held.services) /\ snapshot \in Sorted(held)
  BY DEF Loaded, Whole, IsCatalog
<1>2. PICK list \in InOrder(held.services) : snapshot = [held EXCEPT !.services = list]
  BY <1>1 DEF Sorted
<1>3. held.services \in Lists
  BY DEF Snapshots
<1>4. /\ list \in Seq(Services) /\ Len(list) = Len(held.services)
      /\ ToSet(list) = ToSet(held.services) /\ Increasing(list)
  BY <1>1, <1>3, ListsAreSequences, SortingKeeps
<1>5. list \in Lists
  BY <1>3, <1>4, ListsAreSequences
<1> QED
  BY <1>2, <1>4, <1>5 DEF Snapshots

\* A snapshot that is sorted is loaded as it is.
LEMMA SortedLoadsItself ==
    ASSUME NEW snapshot \in Snapshots, Increasing(snapshot.services)
    PROVE  Loaded(Whole(snapshot)) = {snapshot}
<1>1. snapshot.services \in Seq(Services)
  BY ListsAreSequences DEF Snapshots
<1>2. InOrder(snapshot.services) = {snapshot.services} /\ IsInjective(snapshot.services)
  BY <1>1, SortedStays
<1>3. [snapshot EXCEPT !.services = snapshot.services] = snapshot
  BY DEF Snapshots
<1>4. Sorted(snapshot) = {snapshot}
  BY <1>2, <1>3 DEF Sorted
<1> QED
  BY <1>2, <1>4 DEF Loaded, Whole, IsCatalog

\* What embeds as the snapshot it was made of loads as that snapshot too: to
\* sort the services of the one is to sort those of the other.
LEMMA EmbeddedAsReviewed ==
    ASSUME NEW held \in Snapshots, NEW version,
           Embedded(Whole(ArchiveOf(held, version)), version) = {held}
    PROVE  Loaded(Whole(held)) = {held}
<1> DEFINE archive == ArchiveOf(held, version)
<1>1. /\ archive.services = held.services /\ archive.generated_at = held.generated_at
  BY DEF ArchiveOf
<1>2. IsInjective(held.services) /\ FromArchive(archive) = {held}
  BY <1>1 DEF Embedded, IsCatalog, Whole
<1> HIDE DEF archive
<1>3. held.odd = "none"
  BY <1>2 DEF FromArchive
<1>4. \A list : [held EXCEPT !.services = list]
                  = [generated_at |-> held.generated_at, services |-> list, odd |-> "none"]
  BY <1>3 DEF Snapshots
<1>5. Sorted(held) = {[generated_at |-> held.generated_at, services |-> list, odd |-> "none"] :
                        list \in InOrder(held.services)}
  BY <1>4 DEF Sorted
<1>6. Sorted(held) = FromArchive(archive)
  BY <1>1, <1>5 DEF FromArchive
<1> QED
  BY <1>2, <1>6 DEF Loaded, Whole, IsCatalog

-----------------------------------------------------------------------------
(* Commands and files *)

\* A command that writes has a snapshot in its hand, and goes on with it.
LEMMA CommandKinds ==
    /\ Idle \in Commands /\ Idle.at \notin Writing
    /\ \A source \in {"load", "fetch", "fetch partial"} :
          LET c == [at |-> source]
          IN  c \in Commands /\ c # Idle /\ c.at = source /\ c.at \notin Writing
    /\ \A at \in Writing, snapshot \in Snapshots :
          LET c == [at |-> at, snapshot |-> snapshot]
          IN  c \in Commands /\ c.at = at /\ c.snapshot = snapshot
    /\ \A c \in Commands : c.at \in Writing =>
          /\ c # Idle /\ c.snapshot \in Snapshots
          /\ \A at : [c EXCEPT !.at = at] = [at |-> at, snapshot |-> c.snapshot]
<1>1. Idle \in Commands /\ Idle.at = "idle"
  BY DEF Commands, Idle
<1>2. ASSUME NEW source \in {"load", "fetch", "fetch partial"}
      PROVE  /\ [at |-> source] \in Commands /\ [at |-> source].at = source
             /\ source \notin Writing /\ [at |-> source] # Idle
  BY DEF Commands, Idle, Writing
<1>3. ASSUME NEW at \in Writing, NEW snapshot \in Snapshots
      PROVE  [at |-> at, snapshot |-> snapshot] \in Commands
  BY DEF Commands, Writing
<1>4. ASSUME NEW c \in Commands, c.at \in Writing
      PROVE  c \in [at : Writing, snapshot : Snapshots]
  <2>1. ~ (c \in {Idle}) /\ ~ (c \in [at : {"load", "fetch", "fetch partial"}])
    BY <1>1, <1>4 DEF Writing
  <2> QED
    BY <2>1 DEF Commands, Writing
<1>5. \A c \in [at : Writing, snapshot : Snapshots] :
         /\ c.snapshot \in Snapshots
         /\ \A at : [c EXCEPT !.at = at] = [at |-> at, snapshot |-> c.snapshot]
  OBVIOUS
<1>6. "idle" \notin Writing
  BY DEF Writing
<1> QED
  BY <1>1, <1>2, <1>3, <1>4, <1>5, <1>6

\* A file that is whole holds one of its contents.
LEMMA FileKinds ==
    ASSUME NEW C
    PROVE  /\ Absent \in Files(C) /\ Torn \in Files(C)
           /\ Absent.is # "whole" /\ Torn.is # "whole"
           /\ \A content \in C : Whole(content) \in Files(C)
           /\ \A content : Whole(content).is = "whole" /\ Whole(content).holds = content
           /\ \A file \in Files(C) :
                 file.is = "whole" => file = Whole(file.holds) /\ file.holds \in C
<1>1. Absent.is = "absent" /\ Torn.is = "torn"
  BY DEF Absent, Torn
<1>2. \A content : Whole(content).is = "whole" /\ Whole(content).holds = content
  BY DEF Whole
<1>3. \A file \in Files(C) : file = Absent \/ file = Torn \/ \E content \in C : file = Whole(content)
  BY DEF Files
<1>4. Absent \in Files(C) /\ Torn \in Files(C) /\ \A content \in C : Whole(content) \in Files(C)
  BY DEF Files
<1> QED
  BY <1>1, <1>2, <1>3, <1>4

\* An archive keeps the services and the stamp.
LEMMA ArchiveType ==
    ASSUME NEW held \in Snapshots, NEW version \in 1 .. MaxFormat
    PROVE  ArchiveOf(held, version) \in Archives
BY DEF ArchiveOf, Archives, Snapshots

-----------------------------------------------------------------------------
(* The steps of a command *)

\* A command that ends without success leaves the files as they are.
LEMMA ExitInv ==
    ASSUME IndInv, NEW how \in {"printed", "refused", "failed", "killed"},
           Exit(how), UNCHANGED <<json, bin>>
    PROVE  IndInv'
<1>1. /\ command' = Idle /\ exit' = how
      /\ UNCHANGED <<json, bin, format, tool, published, commands, edits, partial>>
  BY DEF Exit
<1>2. TypeOK'
  BY <1>1, CommandKinds DEF IndInv, TypeOK
<1>3. Idle.at \notin Writing /\ Idle.at # "fetch partial"
  BY CommandKinds DEF Idle
<1>4. CommandInv' /\ VersionInv'
  BY <1>1, <1>3 DEF IndInv, CommandInv, VersionInv, Writing
<1>5. WholeInv'
  BY <1>1, <1>3 DEF IndInv, WholeInv
<1>6. SuccessLeavesAPair' /\ PublishedServesReviewed' /\ PublishedIsWhole'
  BY <1>1 DEF IndInv, SuccessLeavesAPair, PublishedServesReviewed, PublishedIsWhole
<1> QED
  BY <1>2, <1>4, <1>5, <1>6 DEF IndInv

\* A command whose snapshot is sorted, and whole unless asked otherwise, goes on
\* to write it.
LEMMA EmitInv ==
    ASSUME IndInv, command # Idle, NEW snapshot \in Snapshots, Increasing(snapshot.services),
           ~partial => ToSet(snapshot.services) = Services,
           Emit(snapshot)
    PROVE  IndInv'
<1>1. CASE Exit("printed") /\ UNCHANGED <<json, bin>>
  BY <1>1, ExitInv
<1>2. CASE /\ command' = [at |-> "json", snapshot |-> snapshot]
           /\ UNCHANGED <<json, bin, format, tool, exit, published, commands, edits, partial>>
  <2>1. /\ command' \in Commands /\ command'.at = "json" /\ command'.snapshot = snapshot
        /\ exit' = "running"
    BY <1>2, CommandKinds DEF Writing, IndInv, CommandInv
  <2>2. TypeOK'
    BY <1>2, <2>1 DEF IndInv, TypeOK
  <2>3. CommandInv' /\ VersionInv'
    BY <1>2, <2>1 DEF IndInv, CommandInv, VersionInv
  <2>4. WholeInv'
    BY <1>2, <2>1 DEF IndInv, WholeInv
  <2>5. SuccessLeavesAPair' /\ PublishedServesReviewed' /\ PublishedIsWhole'
    BY <1>2, <2>1 DEF IndInv, SuccessLeavesAPair, PublishedServesReviewed, PublishedIsWhole
  <2> QED
    BY <2>2, <2>3, <2>4, <2>5 DEF IndInv
<1> QED
  BY <1>1, <1>2 DEF Emit

\* --from loads what is there, and all that is there.
LEMMA LoadInv ==
    ASSUME IndInv, Load
    PROVE  IndInv'
<1>1. CASE Exit("refused") /\ UNCHANGED <<json, bin>>
  BY <1>1, ExitInv
<1>2. ASSUME NEW snapshot \in Loaded(json), Emit(snapshot) PROVE IndInv'
  <2>1. json.is = "whole"
    BY DEF Loaded
  <2>2. json = Whole(json.holds) /\ json.holds \in Snapshots
    BY <2>1, FileKinds DEF IndInv, TypeOK
  <2>3. /\ snapshot \in Snapshots /\ Increasing(snapshot.services)
        /\ ToSet(snapshot.services) = ToSet(json.holds.services)
    BY <2>2, LoadedSnapshot
  <2>4. command # Idle
    BY DEF Load, Idle
  <2>5. ~partial => ToSet(snapshot.services) = Services
    BY <2>1, <2>3 DEF IndInv, WholeInv
  <2> QED
    BY <1>2, <2>3, <2>4, <2>5, EmitInv
<1> QED
  BY <1>1, <1>2 DEF Load

\* A fan-out that is short is refused unless a partial capture was asked for.
LEMMA FetchInv ==
    ASSUME IndInv, NEW services \in Captures, NEW odd \in Oddities \ {"misfiled"},
           Fetch(services, odd)
    PROVE  IndInv'
<1> DEFINE snapshot == [generated_at |-> commands, services |-> services, odd |-> odd]
<1>1. CASE Exit("refused") /\ UNCHANGED <<json, bin>>
  BY <1>1, ExitInv
<1>2. CASE /\ Emit(snapshot)
           /\ ~ (Len(services) < Cardinality(Services) /\ command.at = "fetch")
  <2>1. services \in Lists /\ services \in Seq(Services) /\ Increasing(services)
    BY ListsAreSequences DEF Captures, Increasing
  <2>2. snapshot \in Snapshots
    BY <2>1 DEF IndInv, TypeOK, Snapshots
  <2>3. command.at \in {"fetch", "fetch partial"} /\ command # Idle
    <3>1. command.at \in {"fetch", "fetch partial"}
      BY DEF Fetch
    <3>2. Idle.at = "idle"
      BY DEF Idle
    <3> QED
      BY <3>1, <3>2
  <2>4. ~partial => ToSet(services) = Services
    <3>1. Cardinality(Services) \in Nat /\ Len(services) \in Nat
      BY <2>1, FS_CardinalityType
    <3>2. ~partial => Len(services) >= Cardinality(Services)
      <4>1. ~partial => command.at = "fetch"
        BY <2>3 DEF IndInv, WholeInv
      <4> QED
        BY <1>2, <3>1, <4>1
    <3> QED
      BY <2>1, <3>2, LongListIsWhole
  <2>5. snapshot.services = services
    OBVIOUS
  <2> HIDE DEF snapshot
  <2> QED
    BY <1>2, <2>1, <2>2, <2>3, <2>4, <2>5, EmitInv
<1> QED
  BY <1>1, <1>2 DEF Fetch

\* A command that goes on keeps its snapshot.
LEMMA ProceedInv ==
    ASSUME IndInv, command.at \in Writing, NEW at \in Writing, Proceed(at),
           json' \in {Torn, json, Whole(command.snapshot)}, bin' \in {Torn, bin},
           at \in {"archive", "bin", "bin open"} => json' = Whole(command.snapshot)
    PROVE  IndInv'
<1>1. /\ command' = [command EXCEPT !.at = at]
      /\ UNCHANGED <<format, tool, exit, published, commands, edits, partial>>
  BY DEF Proceed
<1>2. /\ command # Idle /\ command.snapshot \in Snapshots /\ exit = "running"
      /\ command' = [at |-> at, snapshot |-> command.snapshot]
  BY <1>1, CommandKinds DEF IndInv, TypeOK, CommandInv
<1> /\ command' \in Commands /\ command'.at = at /\ command'.snapshot = command.snapshot
    /\ command' # Idle
  BY <1>2, CommandKinds
<1>3. json' \in Files(Snapshots) /\ bin' \in Files(Archives)
  <2>1. json \in Files(Snapshots) /\ bin \in Files(Archives)
    BY DEF IndInv, TypeOK
  <2>2. /\ Torn \in Files(Snapshots) /\ Torn \in Files(Archives)
        /\ Whole(command.snapshot) \in Files(Snapshots)
    BY <1>2, FileKinds
  <2> QED
    BY <2>1, <2>2
<1>4. TypeOK'
  BY <1>1, <1>2, <1>3 DEF IndInv, TypeOK
<1>5. CommandInv' /\ VersionInv'
  BY <1>1, <1>2 DEF IndInv, CommandInv, VersionInv
<1>6. WholeInv'
  <2> SUFFICES ASSUME ~partial PROVE WholeInv'
    BY <1>1 DEF WholeInv
  <2>1. at # "fetch partial"
    BY DEF Writing
  <2>2. ToSet(command.snapshot.services) = Services
    BY DEF IndInv, WholeInv
  <2>3. json'.is = "whole" => ToSet(json'.holds.services) = Services
    BY <2>2, FileKinds DEF IndInv, WholeInv
  <2> QED
    BY <1>2, <2>1, <2>2, <2>3 DEF WholeInv
<1>7. SuccessLeavesAPair' /\ PublishedServesReviewed' /\ PublishedIsWhole'
  BY <1>1, <1>2 DEF IndInv, SuccessLeavesAPair, PublishedServesReviewed, PublishedIsWhole
<1> QED
  BY <1>4, <1>5, <1>6, <1>7 DEF IndInv

\* The last step of a command: the archive is of the snapshot the JSON holds, and
\* that one loads as it is.
LEMMA FillBinInv ==
    ASSUME IndInv, FillBin
    PROVE  IndInv'
<1>1. /\ command.at = "bin open"
      /\ bin' = Whole(ArchiveOf(command.snapshot, tool))
      /\ command' = Idle /\ exit' = "ok"
      /\ UNCHANGED <<json, format, tool, published, commands, edits, partial>>
  BY DEF FillBin, Exit
<1>2. /\ command.snapshot \in Snapshots /\ Increasing(command.snapshot.services)
      /\ json = Whole(command.snapshot)
      /\ tool \in 1 .. MaxFormat /\ format \in 1 .. MaxFormat /\ tool <= format
  BY <1>1, CommandKinds DEF IndInv, TypeOK, CommandInv, VersionInv, Writing
<1>3. bin' \in Files(Archives)
  BY <1>1, <1>2, ArchiveType, FileKinds
<1>4. TypeOK'
  BY <1>1, <1>3, CommandKinds DEF IndInv, TypeOK
<1>5. Idle.at \notin Writing /\ Idle.at # "fetch partial"
  BY CommandKinds DEF Idle
<1>6. CommandInv' /\ VersionInv'
  BY <1>1, <1>5 DEF IndInv, CommandInv, VersionInv, Writing
<1>7. WholeInv'
  BY <1>1, <1>5 DEF IndInv, WholeInv
<1>8. SuccessLeavesAPair'
  <2>1. json.holds = command.snapshot
    BY <1>2, FileKinds
  <2>2. Loaded(json) = {json.holds}
    BY <1>2, <2>1, SortedLoadsItself
  <2>3. tool \in 1 .. format
    BY <1>2
  <2>4. bin' = Whole(ArchiveOf(json.holds, tool))
    BY <1>1, <2>1
  <2>5. Loaded(json)' = Loaded(json)
    BY <1>1 DEF Loaded
  <2> QED
    BY <1>1, <2>2, <2>3, <2>4, <2>5 DEF SuccessLeavesAPair
<1>9. PublishedServesReviewed' /\ PublishedIsWhole'
  BY <1>1 DEF IndInv, PublishedServesReviewed, PublishedIsWhole
<1> QED
  BY <1>4, <1>6, <1>7, <1>8, <1>9 DEF IndInv

\* There is room for one more command below the bound.
LEMMA OneMore == \A n \in 0 .. MaxCommands : n < MaxCommands => n + 1 \in 0 .. MaxCommands
OBVIOUS

\* A command begins, asked for a partial capture or not.
LEMMA StartInv ==
    ASSUME IndInv, NEW source \in {"load", "fetch", "fetch partial"}, Start(source)
    PROVE  IndInv'
<1>1. /\ commands < MaxCommands /\ commands' = commands + 1
      /\ command' = [at |-> source] /\ exit' = "running"
      /\ partial' = (partial \/ source = "fetch partial")
      /\ UNCHANGED <<json, bin, format, tool, published, edits>>
  BY DEF Start
<1>2. /\ command' \in Commands /\ command'.at = source /\ source \notin Writing
  BY <1>1, CommandKinds
<1>3. commands' \in 0 .. MaxCommands
  <2>1. commands \in 0 .. MaxCommands
    BY DEF IndInv, TypeOK
  <2> QED
    BY <1>1, <2>1, OneMore, Zenon
<1>4. partial' \in BOOLEAN
  BY <1>1, Zenon
<1>5. TypeOK'
  BY <1>1, <1>2, <1>3, <1>4 DEF IndInv, TypeOK
<1>6. CommandInv' /\ VersionInv'
  BY <1>1, <1>2 DEF IndInv, CommandInv, VersionInv, Writing
<1>7. ~partial' => ~partial /\ source # "fetch partial"
  BY <1>1, Zenon
<1>8. WholeInv'
  BY <1>1, <1>2, <1>7 DEF IndInv, WholeInv
<1>9. SuccessLeavesAPair' /\ PublishedServesReviewed' /\ PublishedIsWhole'
  BY <1>1, <1>7 DEF IndInv, SuccessLeavesAPair, PublishedServesReviewed, PublishedIsWhole
<1> QED
  BY <1>5, <1>6, <1>8, <1>9 DEF IndInv

\* Every step of a command.
LEMMA CommandStep ==
    ASSUME IndInv, SnapshotCommand
    PROVE  IndInv'
<1>1. CASE OpenJson
  BY <1>1, ProceedInv DEF OpenJson, Writing
<1>2. CASE FillJson
  BY <1>2, ProceedInv DEF FillJson, Writing
<1>3. CASE BuildArchive
  <2>1. CASE Proceed("bin") /\ UNCHANGED <<json, bin>>
    BY <1>3, <2>1, ProceedInv DEF BuildArchive, Writing, IndInv, CommandInv
  <2>2. CASE Exit("failed") /\ UNCHANGED <<json, bin>>
    BY <2>2, ExitInv
  <2> QED
    BY <1>3, <2>1, <2>2 DEF BuildArchive
<1>4. CASE OpenBin
  BY <1>4, ProceedInv DEF OpenBin, Writing, IndInv, CommandInv
<1>5. CASE WriteFails
  BY <1>5, ExitInv DEF WriteFails
<1>6. CASE Kill
  BY <1>6, ExitInv DEF Kill
<1> QED
  BY <1>1, <1>2, <1>3, <1>4, <1>5, <1>6, StartInv, LoadInv, FetchInv, FillBinInv
     DEF SnapshotCommand

-----------------------------------------------------------------------------
(* The steps of the repository *)

\* An edit may leave anything in the JSON; what follows is not ours to promise.
LEMMA EditInv ==
    ASSUME IndInv, NEW file \in Files(Snapshots), Edit(file)
    PROVE  IndInv'
<1>1. /\ command = Idle /\ json' = file /\ exit' = "edited" /\ partial' = TRUE
      /\ UNCHANGED <<bin, format, tool, command, published, commands>>
  BY DEF Edit
<1>2. edits' \in 0 .. MaxEdits
  <2>1. edits \in 0 .. MaxEdits
    BY DEF IndInv, TypeOK
  <2>2. edits < MaxEdits /\ edits' = edits + 1
    BY DEF Edit
  <2> QED
    BY <2>1, <2>2
<1>3. TypeOK'
  BY <1>1, <1>2 DEF IndInv, TypeOK
<1>4. Idle.at \notin Writing
  BY CommandKinds
<1>5. CommandInv' /\ VersionInv'
  BY <1>1, <1>4 DEF IndInv, CommandInv, VersionInv, Writing
<1>6. WholeInv' /\ SuccessLeavesAPair' /\ PublishedServesReviewed' /\ PublishedIsWhole'
  BY <1>1 DEF IndInv, WholeInv, SuccessLeavesAPair, PublishedServesReviewed, PublishedIsWhole
<1> QED
  BY <1>3, <1>5, <1>6 DEF IndInv

\* The source reaches another version, or a binary is built of what it is.
LEMMA VersionStep ==
    ASSUME IndInv, Bump \/ Build
    PROVE  IndInv'
<1>1. /\ UNCHANGED <<json, bin, command, exit, published, commands, edits, partial>>
      /\ \/ format < MaxFormat /\ format' = format + 1 /\ tool' = tool
         \/ format' = format /\ tool' = format
  BY DEF Bump, Build
<1>2. format \in 1 .. MaxFormat /\ tool \in 1 .. MaxFormat /\ tool <= format
  BY DEF IndInv, TypeOK, VersionInv
<1>3. /\ format' \in 1 .. MaxFormat /\ tool' \in 1 .. MaxFormat /\ tool' <= format'
      /\ format <= format'
  BY <1>1, <1>2
<1>4. TypeOK'
  BY <1>1, <1>3 DEF IndInv, TypeOK
<1>5. CommandInv' /\ VersionInv' /\ WholeInv'
  BY <1>1, <1>3 DEF IndInv, CommandInv, VersionInv, WholeInv, Writing
<1>6. SuccessLeavesAPair'
  <2> SUFFICES ASSUME exit = "ok" PROVE SuccessLeavesAPair'
    BY <1>1 DEF SuccessLeavesAPair
  <2>1. PICK version \in 1 .. format : bin = Whole(ArchiveOf(json.holds, version))
    BY DEF IndInv, SuccessLeavesAPair
  <2>2. version \in 1 .. format'
    BY <1>2, <1>3
  <2>3. Loaded(json)' = Loaded(json) /\ Loaded(json) = {json.holds}
    BY <1>1 DEF Loaded, IndInv, SuccessLeavesAPair
  <2> QED
    BY <1>1, <2>1, <2>2, <2>3 DEF SuccessLeavesAPair
<1>7. PublishedServesReviewed' /\ PublishedIsWhole'
  BY <1>1 DEF IndInv, PublishedServesReviewed, PublishedIsWhole
<1> QED
  BY <1>4, <1>5, <1>6, <1>7 DEF IndInv

\* What the identity tests let pass is served as it was reviewed.
LEMMA PublishInv ==
    ASSUME IndInv, Publish
    PROVE  IndInv'
<1>1. /\ command = Idle /\ IdentityHolds
      /\ published' = [reviewed |-> json.holds, format |-> format, embedded |-> bin.holds]
      /\ UNCHANGED <<json, bin, format, tool, command, exit, commands, edits, partial>>
  BY DEF Publish
<1>2. /\ json.is = "whole" /\ bin = Whole(ArchiveOf(json.holds, format))
      /\ Embedded(bin, format) = {json.holds}
  BY <1>1 DEF IdentityHolds
<1>3. json.holds \in Snapshots /\ format \in 1 .. MaxFormat
  BY <1>2, FileKinds DEF IndInv, TypeOK
<1>4. bin.holds = ArchiveOf(json.holds, format) /\ bin.holds \in Archives
  BY <1>2, <1>3, FileKinds, ArchiveType
<1>5. TypeOK'
  BY <1>1, <1>3, <1>4 DEF IndInv, TypeOK
<1>6. CommandInv' /\ VersionInv' /\ WholeInv'
  BY <1>1 DEF IndInv, CommandInv, VersionInv, WholeInv
<1>7. SuccessLeavesAPair'
  <2>1. Loaded(json)' = Loaded(json)
    BY <1>1 DEF Loaded
  <2> QED
    BY <1>1, <2>1 DEF IndInv, SuccessLeavesAPair
<1>8. PublishedServesReviewed'
  <2>1. Loaded(Whole(json.holds)) = {json.holds}
    BY <1>2, <1>3, EmbeddedAsReviewed
  <2>2. Embedded(Whole(bin.holds), format) = {json.holds}
    BY <1>2, <1>4
  <2> QED
    BY <1>1, <2>1, <2>2 DEF PublishedServesReviewed
<1>9. PublishedIsWhole'
  <2>1. bin.holds.services = json.holds.services
    BY <1>4 DEF ArchiveOf
  <2>2. ~partial => ToSet(json.holds.services) = Services
    BY <1>2 DEF IndInv, WholeInv
  <2> QED
    BY <1>1, <2>1, <2>2 DEF PublishedIsWhole
<1> QED
  BY <1>5, <1>6, <1>7, <1>8, <1>9 DEF IndInv

-----------------------------------------------------------------------------
(* Theorems *)

\* The repository begins with a whole pair.
LEMMA InitInv == Init => IndInv
<1> SUFFICES ASSUME Init PROVE IndInv
  OBVIOUS
<1>1. PICK services \in Captures :
         LET first == [generated_at |-> 0, services |-> services, odd |-> "none"]
         IN  /\ ToSet(services) = Services
             /\ json = Whole(first) /\ bin = Whole(ArchiveOf(first, 1))
  BY DEF Init
<1> DEFINE first == [generated_at |-> 0, services |-> services, odd |-> "none"]
<1>2. /\ format = 1 /\ tool = 1 /\ command = Idle /\ exit = "none"
      /\ published = Absent /\ commands = 0 /\ edits = 0 /\ partial = FALSE
  BY DEF Init
<1>3. first \in Snapshots
  BY DEF Captures, Snapshots, Oddities
<1>4. /\ ToSet(first.services) = Services
      /\ json = Whole(first) /\ bin = Whole(ArchiveOf(first, 1))
  BY <1>1
<1> HIDE DEF first
<1>5. json \in Files(Snapshots) /\ bin \in Files(Archives) /\ json.holds = first
  BY <1>3, <1>4, FileKinds, ArchiveType
<1>6. Idle \in Commands /\ Idle.at \notin Writing
  BY CommandKinds
<1>7. TypeOK
  <2>1. 1 \in 1 .. MaxFormat /\ 0 \in 0 .. MaxCommands /\ 0 \in 0 .. MaxEdits
    OBVIOUS
  <2> QED
    BY <1>2, <1>5, <1>6, <2>1, Zenon DEF TypeOK
<1>8. CommandInv /\ VersionInv /\ WholeInv
  BY <1>2, <1>4, <1>5, <1>6 DEF CommandInv, VersionInv, WholeInv, Writing, Idle
<1>9. SuccessLeavesAPair /\ PublishedServesReviewed /\ PublishedIsWhole
  BY <1>2 DEF SuccessLeavesAPair, PublishedServesReviewed, PublishedIsWhole
<1> QED
  BY <1>7, <1>8, <1>9 DEF IndInv

\* IndInv holds whatever people, cargo and the disk do.
THEOREM Invariance == Spec => []IndInv
<1>1. ASSUME IndInv, [Next]_vars PROVE IndInv'
  <2>1. CASE UNCHANGED vars
    <3>1. UNCHANGED <<json, bin, format, tool, command, exit, published, commands, edits, partial>>
      BY <2>1 DEF vars
    <3>2. Loaded(json)' = Loaded(json)
      BY <3>1 DEF Loaded
    <3> QED
      BY <1>1, <3>1, <3>2
         DEF IndInv, TypeOK, CommandInv, VersionInv, WholeInv, SuccessLeavesAPair,
             PublishedServesReviewed, PublishedIsWhole
  <2>2. CASE SnapshotCommand
    BY <1>1, <2>2, CommandStep
  <2>3. CASE Repository
    <3>1. \A snapshot \in Snapshots : Whole(snapshot) \in Files(Snapshots)
      BY FileKinds
    <3>2. Torn \in Files(Snapshots)
      BY FileKinds
    <3> QED
      BY <1>1, <2>3, <3>1, <3>2, EditInv, VersionStep, PublishInv DEF Repository
  <2> QED
    BY <1>1, <2>1, <2>2, <2>3 DEF Next
<1> QED
  BY InitInv, <1>1, PTL DEF Spec

\* Every variable keeps its type: a command that writes has a snapshot.
THEOREM TypeCorrectness == Spec => []TypeOK
<1>1. IndInv => TypeOK
  BY DEF IndInv
<1> QED
  BY Invariance, <1>1, PTL

\* A command that reports success leaves a JSON that loads as it is and the
\* archive of it, whatever state it found the files in.
THEOREM SuccessIsAPair == Spec => []SuccessLeavesAPair
<1>1. IndInv => SuccessLeavesAPair
  BY DEF IndInv
<1> QED
  BY Invariance, <1>1, PTL

\* A published binary serves the catalog that was reviewed.
THEOREM ReviewedIsServed == Spec => []PublishedServesReviewed
<1>1. IndInv => PublishedServesReviewed
  BY DEF IndInv
<1> QED
  BY Invariance, <1>1, PTL

\* A published binary lacks a service only if someone asked for less.
THEOREM NothingIsMissing == Spec => []PublishedIsWhole
<1>1. IndInv => PublishedIsWhole
  BY DEF IndInv
<1> QED
  BY Invariance, <1>1, PTL
================================================================================
