---------------------------- MODULE ServerProofs -----------------------------
(***************************************************************************)
(* Proofs about the list of servers: what collect_server_list returns for  *)
(* every configuration and every list of found processes, that the marks   *)
(* of the settings dialog (monitored_flags) agree with it, and that the    *)
(* scan that finds the processes names the right one.                      *)
(*                                                                         *)
(* The merge and the marks are loops over a list, FoldLeft in the model.  A*)
(* fold is shown to be a chain of lists, one for each turn of the loop, and*)
(* what holds of every list of the chain is shown by induction.            *)
(***************************************************************************)
EXTENDS ServerScan, SettingsDialog, DataInduction, FiniteSetTheorems, SequenceTheorems, TLAPS

PushSet(entries, n, f) ==
  [s \in SUBSET (1 .. n) |->
     IF s = {} THEN <<>> ELSE push_server(f[s \ {Max(s)}], entries[Max(s)])]

\* The recursive function by which the fold of push_server is defined exists, for
\* the positions up to every n.
LEMMA PushSetExists ==
  ASSUME NEW entries
  PROVE  \A n \in Nat : \E f : f = PushSet(entries, n, f)
<1> DEFINE S == {n \in Nat : \E f : f = PushSet(entries, n, f)}
<1>1. 0 \in S
  <2> DEFINE g == [s \in SUBSET (1 .. 0) |-> <<>>]
  <2>1. \A s \in SUBSET (1 .. 0) : s = {}
    OBVIOUS
  <2>2. g = PushSet(entries, 0, g)
    BY <2>1 DEF PushSet
  <2> QED
    BY <2>2
<1>2. ASSUME NEW n \in Nat, n \in S
      PROVE  n + 1 \in S
  <2>1. PICK f : f = PushSet(entries, n, f)
    BY <1>2
  <2> DEFINE g == [s \in SUBSET (1 .. (n + 1)) |->
                     IF n + 1 \in s THEN push_server(f[s \ {n + 1}], entries[n + 1]) ELSE f[s]]
  <2>2. ASSUME NEW s \in SUBSET (1 .. (n + 1))
        PROVE  g[s] = IF s = {} THEN <<>> ELSE push_server(g[s \ {Max(s)}], entries[Max(s)])
    <3>1. CASE n + 1 \in s
      <4>1. Max(s) = n + 1
        BY <3>1, MaxIs
      <4>2. s \ {n + 1} \in SUBSET (1 .. (n + 1)) /\ n + 1 \notin s \ {n + 1}
        OBVIOUS
      <4>3. g[s \ {n + 1}] = f[s \ {n + 1}]
        BY <4>2
      <4> QED
        BY <3>1, <4>1, <4>3
    <3>2. CASE n + 1 \notin s
      <4>1. s \in SUBSET (1 .. n)
        BY <3>2
      <4>2. f[s] = IF s = {} THEN <<>> ELSE push_server(f[s \ {Max(s)}], entries[Max(s)])
        BY <2>1, <4>1 DEF PushSet
      <4>3. s \ {Max(s)} \in SUBSET (1 .. (n + 1)) /\ n + 1 \notin s \ {Max(s)}
        BY <3>2
      <4>4. g[s \ {Max(s)}] = f[s \ {Max(s)}]
        BY <4>3
      <4> QED
        BY <3>2, <4>2, <4>4
    <3> QED
      BY <3>1, <3>2
  <2>3. g = PushSet(entries, n + 1, g)
    BY <2>2 DEF PushSet
  <2> HIDE DEF g
  <2> QED
    BY <2>3
<1> HIDE DEF S
<1>3. \A n \in Nat : n \in S
  BY <1>1, <1>2, SetInduction
<1> QED
  BY <1>3 DEF S

\* The fold of push_server over a list of entries is the value of that function.
LEMMA FoldIsPushSet ==
  ASSUME NEW n \in Nat, NEW entries, DOMAIN entries = 1 .. n
  PROVE  \E f : f = PushSet(entries, n, f) /\ FoldLeft(push_server, <<>>, entries) = f[1 .. n]
<1> DEFINE f == CHOOSE f : f = PushSet(entries, n, f)
<1>1. f = PushSet(entries, n, f)
  BY PushSetExists
<1>2. FoldLeft(push_server, <<>>, entries) = f[1 .. n]
  BY DEF FoldLeft, MapThenFoldSet, PushSet
<1> QED
  BY <1>1, <1>2

\* The list after each entry has been pushed.
Pushes(entries, n, g) ==
  /\ g[0] = <<>>
  /\ \A k \in 1 .. n : g[k] = push_server(g[k - 1], entries[k])

\* The fold as the code's loop: a chain of lists that begins with the empty one,
\* each push_server of the one before and the next entry.
LEMMA FoldPushes ==
  ASSUME NEW n \in Nat, NEW entries, DOMAIN entries = 1 .. n
  PROVE  \E g : Pushes(entries, n, g) /\ FoldLeft(push_server, <<>>, entries) = g[n]
<1>1. PICK f : f = PushSet(entries, n, f) /\ FoldLeft(push_server, <<>>, entries) = f[1 .. n]
  BY FoldIsPushSet
<1> DEFINE g == [k \in 0 .. n |-> f[1 .. k]]
<1>2. g[0] = <<>>
  BY <1>1 DEF PushSet
<1>3. ASSUME NEW k \in 1 .. n
      PROVE  g[k] = push_server(g[k - 1], entries[k])
  <2>1. Max(1 .. k) = k
    <3>1. (1 .. k) \in SUBSET Nat /\ k \in 1 .. k /\ \A y \in 1 .. k : k >= y
      OBVIOUS
    <3> QED
      BY <3>1, MaxIs
  <2>2. (1 .. k) \in SUBSET (1 .. n) /\ 1 .. k # {} /\ (1 .. k) \ {k} = 1 .. (k - 1)
    OBVIOUS
  <2>3. f[1 .. k] = push_server(f[(1 .. k) \ {k}], entries[k])
    BY <1>1, <2>1, <2>2 DEF PushSet
  <2>4. g[k] = f[1 .. k] /\ g[k - 1] = f[1 .. (k - 1)]
    OBVIOUS
  <2> QED
    BY <2>2, <2>3, <2>4
<1>4. FoldLeft(push_server, <<>>, entries) = g[n]
  BY <1>1
<1> HIDE DEF g
<1> QED
  BY <1>2, <1>3, <1>4 DEF Pushes

-----------------------------------------------------------------------------
(* What push_server keeps.                                                 *)

AnyKey(entries) == {Key[entries[i].endpoint] : i \in DOMAIN entries}
AnySpec(entries) ==
  [key : AnyKey(entries), endpoint : {entries[i].endpoint : i \in DOMAIN entries},
   identity : {None} \union {entries[i].identity : i \in DOMAIN entries}]

DistinctKeys(out) == \A i, j \in DOMAIN out : out[i].key = out[j].key => i = j

FromEntries(entries, k, out) ==
  \A i \in DOMAIN out :
    \/ out[i].identity = None
    \/ \E j \in 1 .. k : /\ entries[j].identity = out[i].identity
                         /\ Key[entries[j].endpoint] = out[i].key

CoversEntries(entries, k, out) ==
  /\ \A j \in 1 .. k : \E i \in DOMAIN out : out[i].key = Key[entries[j].endpoint]
  /\ \A i \in DOMAIN out : \E j \in 1 .. k : out[i].key = Key[entries[j].endpoint]

Merged(entries, k, out) ==
  /\ out \in Seq(AnySpec(entries))
  /\ DistinctKeys(out)
  /\ FromEntries(entries, k, out)
  /\ CoversEntries(entries, k, out)

KeepsKeys(out, next) ==
  /\ Len(out) <= Len(next)
  /\ \A i \in 1 .. Len(out) : next[i].key = out[i].key

\* One turn of the loop keeps what is true of the list so far, and removes no key.
LEMMA PushMerges ==
  ASSUME NEW n \in Nat, NEW entries, DOMAIN entries = 1 .. n,
         NEW k \in 1 .. n, NEW out, Merged(entries, k - 1, out)
  PROVE  LET next == push_server(out, entries[k])
         IN  Merged(entries, k, next) /\ KeepsKeys(out, next)
<1> DEFINE next == push_server(out, entries[k])
           key == Key[entries[k].endpoint]
           S == AnySpec(entries)
<1>1. out \in Seq(S) /\ DOMAIN out = 1 .. Len(out) /\ Len(out) \in Nat
  BY DEF Merged
<1>2. CASE \E spec \in Range(out) : spec.key = key
  <2>1. next = [i \in DOMAIN out |->
                  IF out[i].key = key THEN [out[i] EXCEPT !.identity = Or(@, entries[k].identity)]
                  ELSE out[i]]
    BY <1>2 DEF push_server
  <2>2. ASSUME NEW i \in DOMAIN out
        PROVE  /\ next[i] \in S
               /\ next[i].key = out[i].key
               /\ \/ next[i].identity = out[i].identity
                  \/ next[i].identity = entries[k].identity /\ out[i].key = key
    <3>1. out[i] \in S
      BY <1>1
    <3>2. entries[k].identity \in {None} \union {entries[j].identity : j \in DOMAIN entries}
      OBVIOUS
    <3> QED
      BY <2>1, <3>1, <3>2 DEF AnySpec, Or
  <2>3. DOMAIN next = DOMAIN out /\ next \in Seq(S) /\ Len(next) = Len(out)
    BY <1>1, <2>1, <2>2
  <2>4. DistinctKeys(next)
    BY <2>2, <2>3 DEF Merged, DistinctKeys
  <2>5. FromEntries(entries, k, next)
    BY <2>2, <2>3 DEF Merged, FromEntries
  <2>6. CoversEntries(entries, k, next)
    <3>1. \E i \in DOMAIN out : out[i].key = key
      BY <1>2 DEF Range
    <3>2. CoversEntries(entries, k - 1, out)
      BY DEF Merged
    <3>3. \A j \in 1 .. k : j \in 1 .. (k - 1) \/ j = k
      OBVIOUS
    <3>3a. \A i \in DOMAIN out : i \in DOMAIN next /\ next[i].key = out[i].key
      BY <2>2, <2>3
    <3> HIDE DEF next
    <3>3b. ASSUME NEW j \in 1 .. (k - 1)
           PROVE  \E i \in DOMAIN next : next[i].key = Key[entries[j].endpoint]
      BY <3>2, <3>3a DEF CoversEntries
    <3>3c. \E i \in DOMAIN next : next[i].key = Key[entries[k].endpoint]
      BY <3>1, <3>3a
    <3>4. \A j \in 1 .. k : \E i \in DOMAIN next : next[i].key = Key[entries[j].endpoint]
      BY <3>3, <3>3b, <3>3c
    <3>5. \A i \in DOMAIN next : \E j \in 1 .. k : next[i].key = Key[entries[j].endpoint]
      BY <2>2, <2>3, <3>2 DEF CoversEntries
    <3> QED
      BY <3>4, <3>5 DEF CoversEntries
  <2>7. KeepsKeys(out, next)
    BY <1>1, <2>2, <2>3 DEF KeepsKeys
  <2> QED
    BY <2>3, <2>4, <2>5, <2>6, <2>7 DEF Merged
<1>3. CASE ~ \E spec \in Range(out) : spec.key = key
  <2> DEFINE new == [key |-> key, endpoint |-> entries[k].endpoint,
                     identity |-> entries[k].identity]
  <2>1. next = Append(out, new)
    BY <1>3 DEF push_server
  <2>2. new \in S
    BY DEF AnySpec, AnyKey
  <2>3. /\ next \in Seq(S) /\ Len(next) = Len(out) + 1 /\ DOMAIN next = 1 .. Len(next)
        /\ \A i \in 1 .. Len(out) : next[i] = out[i]
        /\ next[Len(out) + 1] = new
    BY <1>1, <2>1, <2>2
  <2>4. \A i \in 1 .. Len(out) : out[i].key # key
    BY <1>1, <1>3 DEF Range
  <2> HIDE DEF next
  <2>4a. \A i \in DOMAIN next : \/ i \in DOMAIN out /\ next[i].key = out[i].key /\ next[i].key # key
                                \/ i = Len(out) + 1 /\ next[i].key = key
    BY <1>1, <2>3, <2>4
  <2>4b. DistinctKeys(out)
    BY DEF Merged
  <2>5. DistinctKeys(next)
    BY <2>4a, <2>4b DEF DistinctKeys
  <2>6. FromEntries(entries, k, next)
    <3>1. FromEntries(entries, k - 1, out)
      BY DEF Merged
    <3>2. \A j \in 1 .. (k - 1) : j \in 1 .. k
      OBVIOUS
    <3>3. ASSUME NEW i \in DOMAIN out
          PROVE  \/ out[i].identity = None
                 \/ \E j \in 1 .. k : /\ entries[j].identity = out[i].identity
                                      /\ Key[entries[j].endpoint] = out[i].key
      BY <3>1, <3>2 DEF FromEntries
    <3>4. \A i \in DOMAIN next : \/ i \in DOMAIN out /\ next[i] = out[i]
                                 \/ next[i] = new
      BY <1>1, <2>3
    <3>5. k \in 1 .. k /\ new.identity = entries[k].identity /\ new.key = Key[entries[k].endpoint]
      OBVIOUS
    <3> HIDE DEF new
    <3> QED
      BY <3>3, <3>4, <3>5 DEF FromEntries
  <2>7. CoversEntries(entries, k, next)
    <3>1. CoversEntries(entries, k - 1, out)
      BY DEF Merged
    <3>2. \A j \in 1 .. k : j \in 1 .. (k - 1) \/ j = k
      OBVIOUS
    <3>3. next[Len(out) + 1].key = key /\ Len(out) + 1 \in DOMAIN next
      BY <1>1, <2>3
    <3>4. ASSUME NEW j \in 1 .. k
          PROVE  \E i \in DOMAIN next : next[i].key = Key[entries[j].endpoint]
      <4>1. CASE j = k
        BY <3>3, <4>1
      <4>2. CASE j \in 1 .. (k - 1)
        <5>1. PICK i \in DOMAIN out : out[i].key = Key[entries[j].endpoint]
          BY <3>1, <4>2 DEF CoversEntries
        <5>2. i \in 1 .. Len(out) /\ i \in DOMAIN next
          BY <1>1, <2>3
        <5>3. next[i] = out[i]
          BY <2>3, <5>2
        <5> QED
          BY <5>1, <5>2, <5>3
      <4> QED
        BY <3>2, <4>1, <4>2
    <3>5. \A i \in DOMAIN next : i \in DOMAIN out \/ i = Len(out) + 1
      BY <1>1, <2>3
    <3>6. \A i \in DOMAIN next : \E j \in 1 .. k : next[i].key = Key[entries[j].endpoint]
      BY <1>1, <2>3, <3>1, <3>3, <3>5 DEF CoversEntries
    <3> QED
      BY <3>4, <3>6 DEF CoversEntries
  <2>8. KeepsKeys(out, next)
    BY <1>1, <2>3 DEF KeepsKeys
  <2> QED
    BY <2>3, <2>5, <2>6, <2>7, <2>8 DEF Merged, next
<1> QED
  BY <1>2, <1>3

\* What is true of the list so far is true after every turn of the loop.
LEMMA AllMerged ==
  ASSUME NEW n \in Nat, NEW entries, DOMAIN entries = 1 .. n, NEW g, Pushes(entries, n, g)
  PROVE  \A k \in 0 .. n : Merged(entries, k, g[k])
<1> DEFINE S == {k \in Nat : k <= n => Merged(entries, k, g[k])}
<1>1. 0 \in S
  <2>1. g[0] = <<>>
    BY DEF Pushes
  <2>2. <<>> \in Seq(AnySpec(entries)) /\ DOMAIN <<>> = {}
    OBVIOUS
  <2>3. 1 .. 0 = {}
    OBVIOUS
  <2>4. Merged(entries, 0, <<>>)
    BY <2>2, <2>3 DEF Merged, DistinctKeys, FromEntries, CoversEntries
  <2> QED
    BY <2>1, <2>4
<1>2. ASSUME NEW k \in Nat, k \in S
      PROVE  k + 1 \in S
  <2> SUFFICES ASSUME k + 1 <= n PROVE Merged(entries, k + 1, g[k + 1])
    OBVIOUS
  <2>1. k + 1 \in 1 .. n /\ (k + 1) - 1 = k /\ k <= n
    OBVIOUS
  <2>2. Merged(entries, k, g[k])
    BY <1>2, <2>1
  <2>3. g[k + 1] = push_server(g[k], entries[k + 1])
    BY <2>1 DEF Pushes
  <2> QED
    BY <2>1, <2>2, <2>3, PushMerges
<1> HIDE DEF S
<1>3. \A k \in Nat : k \in S
  BY <1>1, <1>2, SetInduction
<1> QED
  BY <1>3 DEF S

\* A key keeps its place in the list through all later turns.
LEMMA PushesKeepKeys ==
  ASSUME NEW n \in Nat, NEW entries, DOMAIN entries = 1 .. n, NEW g, Pushes(entries, n, g),
         NEW m \in 0 .. n
  PROVE  \A k \in m .. n : KeepsKeys(g[m], g[k])
<1> DEFINE S == {d \in Nat : m + d <= n => KeepsKeys(g[m], g[m + d])}
<1>0. \A k \in 0 .. n : Len(g[k]) \in Nat
  <2>1. \A k \in 0 .. n : g[k] \in Seq(AnySpec(entries))
    BY AllMerged DEF Merged
  <2> QED
    BY <2>1
<1>1. 0 \in S
  <2>1. KeepsKeys(g[m], g[m])
    BY <1>0 DEF KeepsKeys
  <2>2. m + 0 = m
    OBVIOUS
  <2>3. KeepsKeys(g[m], g[m + 0])
    BY <2>1, <2>2
  <2> QED
    BY <2>3
<1>2. ASSUME NEW d \in Nat, d \in S
      PROVE  d + 1 \in S
  <2> SUFFICES ASSUME m + (d + 1) <= n PROVE KeepsKeys(g[m], g[m + (d + 1)])
    OBVIOUS
  <2> DEFINE k == m + (d + 1)
  <2>1. k \in 1 .. n /\ k - 1 = m + d /\ m + d <= n /\ k - 1 \in 0 .. n /\ k \in 0 .. n
    OBVIOUS
  <2>2. KeepsKeys(g[m], g[k - 1])
    BY <1>2, <2>1
  <2>3. g[k] = push_server(g[k - 1], entries[k]) /\ Merged(entries, k - 1, g[k - 1])
    BY <2>1, AllMerged DEF Pushes
  <2> HIDE DEF k
  <2>4. KeepsKeys(g[k - 1], g[k])
    BY <2>1, <2>3, PushMerges
  <2>4a. Len(g[m]) \in Nat /\ Len(g[k - 1]) \in Nat /\ Len(g[k]) \in Nat
    BY <1>0, <2>1
  <2>4b. Len(g[m]) <= Len(g[k])
    BY <2>2, <2>4, <2>4a DEF KeepsKeys
  <2>4c. \A i \in 1 .. Len(g[m]) : i \in 1 .. Len(g[k - 1])
    BY <2>2, <2>4a DEF KeepsKeys
  <2>4d. \A i \in 1 .. Len(g[m]) : g[k][i].key = g[m][i].key
    BY <2>2, <2>4, <2>4c DEF KeepsKeys
  <2>5. KeepsKeys(g[m], g[k])
    BY <2>4b, <2>4d DEF KeepsKeys
  <2> QED
    BY <2>5 DEF k
<1> HIDE DEF S
<1>3. \A d \in Nat : d \in S
  BY <1>1, <1>2, SetInduction
<1>4. ASSUME NEW k \in m .. n PROVE KeepsKeys(g[m], g[k])
  <2>1. k - m \in Nat /\ m + (k - m) = k /\ k <= n
    OBVIOUS
  <2> QED
    BY <1>3, <2>1 DEF S
<1> QED
  BY <1>4

-----------------------------------------------------------------------------
(* The candidates.                                                         *)

\* The first candidate with an endpoint is a candidate with that endpoint.
LEMMA FirstOfMember ==
  ASSUME NEW C, NEW list \in Seq(C), NEW endpoint,
         \E c \in Range(list) : c.endpoint = endpoint
  PROVE  FirstOf(list, endpoint) \in Range(list) /\ FirstOf(list, endpoint).endpoint = endpoint
<1> DEFINE s == {i \in DOMAIN list : list[i].endpoint = endpoint}
<1>1. s # {} /\ s \in SUBSET Nat
  BY DEF Range
<1>2. Min(s) \in s
  BY <1>1, MinMember
<1> QED
  BY <1>2 DEF FirstOf, Range

\* Every element of a finite set has its place in a total order of it.
LEMMA OrderedMember ==
  ASSUME NEW S, IsFiniteSet(S), S \subseteq DOMAIN Rank
  PROVE  LET seq == Ordered(S, LAMBDA e, f : Rank[e] < Rank[f])
         IN  /\ DOMAIN seq = 1 .. Cardinality(S)
             /\ \A i \in DOMAIN seq : seq[i] \in S
<1> DEFINE n == Cardinality(S)
           Below(x) == {y \in S : Rank[y] < Rank[x]}
           r == [x \in S |-> Cardinality(Below(x)) + 1]
<1>0. n \in Nat
  BY FS_CardinalityType
<1>b. \A x \in S : Below(x) \in SUBSET S /\ x \notin Below(x)
  BY RankAssumption
<1>c. ASSUME NEW x \in S, NEW y \in S, Rank[x] < Rank[y]
      PROVE  Below(x) \in SUBSET Below(y) /\ x \in Below(y)
  BY <1>c, RankAssumption
<1> HIDE DEF n, Below
<1>1. ASSUME NEW x \in S
      PROVE  IsFiniteSet(Below(x)) /\ Cardinality(Below(x)) \in Nat /\ Cardinality(Below(x)) < n
  <2>1. IsFiniteSet(Below(x)) /\ Cardinality(Below(x)) <= n /\ Cardinality(Below(x)) # n
    BY <1>b, FS_Subset DEF n
  <2>2. Cardinality(Below(x)) \in Nat
    BY <2>1, FS_CardinalityType
  <2> QED
    BY <1>0, <2>1, <2>2
<1>r. \A x \in S : r[x] = Cardinality(Below(x)) + 1
  OBVIOUS
<1>2. r \in [S -> 1 .. n]
  BY <1>0, <1>1
<1>3. ASSUME NEW x \in S, NEW y \in S, Rank[x] < Rank[y]
      PROVE  r[x] < r[y]
  <2>1. /\ Cardinality(Below(x)) <= Cardinality(Below(y))
        /\ Cardinality(Below(x)) # Cardinality(Below(y))
    BY <1>1, <1>3, <1>b, <1>c, FS_Subset
  <2> QED
    BY <1>1, <1>r, <2>1
<1>4. r \in Injection(S, 1 .. n)
  <2>1. ASSUME NEW x \in S, NEW y \in S, r[x] = r[y] PROVE x = y
    <3>1. ~(Rank[x] < Rank[y]) /\ ~(Rank[y] < Rank[x])
      BY <1>2, <1>3, <2>1
    <3> QED
      BY <3>1, RankAssumption
  <2> HIDE DEF r
  <2> QED
    BY <1>2, <2>1 DEF Injection, IsInjective
<1>5. IsFiniteSet(1 .. n) /\ Cardinality(1 .. n) = n
  BY <1>0, FS_Interval
<1> HIDE DEF r
<1>6. r \in Surjection(S, 1 .. n)
  BY <1>4, <1>5, FS_Injection DEF n
<1>7. \A i \in 1 .. n : \E x \in S : r[x] = i
  BY <1>6 DEF Surjection
<1>8. ASSUME NEW i \in 1 .. n
      PROVE  (CHOOSE x \in S : Cardinality(Below(x)) = i - 1) \in S
  <2>1. PICK x \in S : r[x] = i
    BY <1>7
  <2>2. Cardinality(Below(x)) = i - 1
    BY <1>1, <1>r, <2>1
  <2> QED
    BY <2>2
<1> QED
  BY <1>8 DEF Ordered, n, Below

\* Sorting and removing duplicates invents no candidate.
LEMMA DedupedMembers ==
  ASSUME NEW C, NEW found \in Seq(C), \A c \in C : c.endpoint \in DOMAIN Rank
  PROVE  SortedAndDeduped(found) \in Seq(Range(found))
<1> DEFINE S == {c.endpoint : c \in Range(found)}
           seq == Ordered(S, LAMBDA e, f : Rank[e] < Rank[f])
           h == [i \in 1 .. Len(found) |-> found[i].endpoint]
<1>1. Len(found) \in Nat /\ DOMAIN found = 1 .. Len(found)
  OBVIOUS
<1>2. IsFiniteSet(1 .. Len(found))
  BY <1>1, FS_Interval
<1>3. h \in Surjection(1 .. Len(found), S)
  <2>1. h \in [1 .. Len(found) -> S]
    BY <1>1 DEF Range
  <2>2. ASSUME NEW e \in S PROVE \E i \in 1 .. Len(found) : h[i] = e
    <3>1. PICK c \in Range(found) : c.endpoint = e
      OBVIOUS
    <3>2. PICK i \in DOMAIN found : found[i] = c
      BY DEF Range
    <3> QED
      BY <1>1, <3>1, <3>2
  <2> HIDE DEF h
  <2> QED
    BY <2>1, <2>2 DEF Surjection
<1>4. IsFiniteSet(S)
  BY <1>2, <1>3, FS_Surjection
<1>5. S \subseteq DOMAIN Rank
  BY DEF Range
<1> HIDE DEF S
<1>6. DOMAIN seq = 1 .. Cardinality(S) /\ \A i \in DOMAIN seq : seq[i] \in S
  BY <1>4, <1>5, OrderedMember
<1>7. Cardinality(S) \in Nat
  BY <1>4, FS_CardinalityType
<1>8. SortedAndDeduped(found) = [i \in DOMAIN seq |-> FirstOf(found, seq[i])]
  BY DEF SortedAndDeduped, S
<1> HIDE DEF seq
<1>9. ASSUME NEW i \in DOMAIN seq PROVE FirstOf(found, seq[i]) \in Range(found)
  <2>1. \E c \in Range(found) : c.endpoint = seq[i]
    BY <1>6 DEF S
  <2> QED
    BY <2>1, FirstOfMember
<1> QED
  BY <1>6, <1>7, <1>8, <1>9

\* A configured candidate has no process.
Configured(endpoint) == [endpoint |-> endpoint, pid |-> None, start |-> None]

\* The candidates are the ones that were found, and the configured one.
LEMMA CandidateMembers ==
  ASSUME NEW C, NEW found \in Seq(C), \A c \in C : c.endpoint \in DOMAIN Rank, NEW configured
  PROVE  collect_candidates(found, configured) \in Seq(Range(found) \union {Configured(configured)})
<1> DEFINE list == SortedAndDeduped(found)
           T == Range(found) \union {Configured(configured)}
<1>1. list \in Seq(Range(found))
  BY DedupedMembers
<1> HIDE DEF list
<1>2. list \in Seq(T) /\ Append(list, Configured(configured)) \in Seq(T)
  BY <1>1
<1> QED
  BY <1>2 DEF collect_candidates, list, Configured

\* The endpoints of the configuration, in the order in which they are pushed.
ConfiguredEndpoints(given) ==
  (IF given.server = None THEN <<>> ELSE <<given.server>>) \o given.servers

\* An entry that a scan contributes.
FromScan(entry, found) ==
  \/ entry.identity = None
  \/ \E c \in Range(found) : entry.endpoint = c.endpoint /\ entry.identity = IdentityOf(c)

\* The entries that are pushed: the configured endpoints first, without identity,
\* then what the scan found.
LEMMA EntriesOf ==
  ASSUME NEW C, NEW found \in Seq(C), \A c \in C : c.endpoint \in DOMAIN Rank,
         NEW X, NEW given, given.servers \in Seq(X)
  PROVE  LET entries == Entries(given, found)
             configured == ConfiguredEndpoints(given)
         IN  /\ Len(configured) \in Nat /\ DOMAIN configured = 1 .. Len(configured)
             /\ Len(entries) \in Nat /\ DOMAIN entries = 1 .. Len(entries)
             /\ Len(configured) <= Len(entries)
             /\ \A i \in 1 .. Len(configured) :
                  entries[i].endpoint = configured[i] /\ entries[i].identity = None
             /\ \A i \in (Len(configured) + 1) .. Len(entries) : FromScan(entries[i], found)
<1> DEFINE unidentified(endpoint) == [endpoint |-> endpoint, identity |-> None]
           candidates == collect_candidates(found, given.server)
           primary == IF given.server = None THEN <<>> ELSE <<given.server>>
           a == IF given.server = None THEN <<>> ELSE <<unidentified(given.server)>>
           b == [i \in DOMAIN given.servers |-> unidentified(given.servers[i])]
           scanned(i) == [endpoint |-> candidates[i].endpoint, identity |-> IdentityOf(candidates[i])]
           d == IF ~given.auto_discovery THEN <<>> ELSE [i \in DOMAIN candidates |-> scanned(i)]
           Y == X \union {given.server}
           U == {unidentified(e) : e \in Y}
           E == U \union {scanned(i) : i \in DOMAIN candidates}
<1>1. candidates \in Seq(Range(found) \union {Configured(given.server)})
  BY CandidateMembers
<1>2. primary \in Seq(Y) /\ given.servers \in Seq(Y) /\ a \in Seq(U) /\ Len(a) = Len(primary)
  <2>1. given.servers \in Seq(Y)
    OBVIOUS
  <2>2. CASE given.server = None
    BY <2>1, <2>2
  <2>3. CASE given.server # None
    <3>1. given.server \in Y /\ unidentified(given.server) \in U
      OBVIOUS
    <3>2. a = <<unidentified(given.server)>> /\ primary = <<given.server>>
      BY <2>3
    <3> HIDE DEF a, primary, U, Y, unidentified
    <3> QED
      BY <2>1, <3>1, <3>2
  <2> QED
    BY <2>2, <2>3
<1>3. \A i \in 1 .. Len(a) : a[i] = unidentified(primary[i])
  OBVIOUS
<1>4. b \in Seq(U) /\ Len(b) = Len(given.servers)
  <2>1. DOMAIN b = 1 .. Len(given.servers) /\ Len(given.servers) \in Nat
    BY <1>2
  <2>2. ASSUME NEW i \in DOMAIN b PROVE b[i] \in U
    <3>1. given.servers[i] \in Y
      BY <1>2, <2>1
    <3> QED
      BY <2>1, <3>1
  <2> DEFINE n == Len(given.servers)
  <2>3. b \in [1 .. n -> U]
    BY <2>1, <2>2
  <2> HIDE DEF b, U, n
  <2>4. n \in Nat
    BY <2>1 DEF n
  <2>5. b \in Seq(U) /\ Len(b) = n
    BY <2>3, <2>4
  <2> QED
    BY <2>5 DEF n
<1>5. \A i \in 1 .. Len(b) : b[i] = unidentified(given.servers[i])
  BY <1>4
<1>6. d \in Seq(E)
  BY <1>1
<1>7. ASSUME NEW i \in 1 .. Len(d) PROVE FromScan(d[i], found)
  <2>1. given.auto_discovery /\ i \in DOMAIN candidates /\ d[i] = scanned(i)
    BY <1>1, <1>6
  <2>2. candidates[i] \in Range(found) \/ candidates[i] = Configured(given.server)
    BY <1>1, <2>1
  <2>3. CASE candidates[i] \in Range(found)
    BY <2>1, <2>3 DEF FromScan
  <2>4. CASE candidates[i] = Configured(given.server)
    BY <2>1, <2>4 DEF FromScan, IdentityOf, Configured
  <2> QED
    BY <2>2, <2>3, <2>4
<1>8. Entries(given, found) = (a \o b) \o d
  BY DEF Entries
<1>9. ConfiguredEndpoints(given) = primary \o given.servers
  BY DEF ConfiguredEndpoints
<1> HIDE DEF a, b, d, primary, candidates, U, E, Y
<1>10. a \in Seq(E) /\ b \in Seq(E)
  BY <1>2, <1>4 DEF E
<1>11. a \o b \in Seq(E) /\ (a \o b) \o d \in Seq(E)
  BY <1>6, <1>10
<1>12. primary \o given.servers \in Seq(Y) /\ Len(primary \o given.servers) = Len(a \o b)
  <2>1. primary \o given.servers \in Seq(Y)
    BY <1>2
  <2>2. Len(primary \o given.servers) = Len(primary) + Len(given.servers)
    BY <1>2
  <2>3. Len(a \o b) = Len(a) + Len(b)
    BY <1>10
  <2> QED
    BY <1>2, <1>4, <2>1, <2>2, <2>3
<1>13. ASSUME NEW i \in 1 .. Len(a \o b)
       PROVE  (a \o b)[i] = unidentified((primary \o given.servers)[i])
  BY <1>2, <1>3, <1>4, <1>5, <1>10
<1>14. Len((a \o b) \o d) = Len(a \o b) + Len(d)
  BY <1>6, <1>11
<1>15. ASSUME NEW i \in 1 .. Len(a \o b)
       PROVE  ((a \o b) \o d)[i] = (a \o b)[i]
  BY <1>6, <1>11
<1>16. ASSUME NEW i \in (Len(a \o b) + 1) .. (Len(a \o b) + Len(d))
       PROVE  i - Len(a \o b) \in 1 .. Len(d) /\ ((a \o b) \o d)[i] = d[i - Len(a \o b)]
  BY <1>6, <1>11
<1>17. Len(a \o b) \in Nat /\ Len(d) \in Nat
  BY <1>6, <1>11
<1> DEFINE entries == (a \o b) \o d
           configured == primary \o given.servers
<1>18. Len(configured) \in Nat /\ DOMAIN configured = 1 .. Len(configured)
  BY <1>12
<1>19. Len(entries) \in Nat /\ DOMAIN entries = 1 .. Len(entries) /\ Len(configured) <= Len(entries)
  BY <1>11, <1>12, <1>14, <1>17
<1>20. ASSUME NEW i \in 1 .. Len(configured)
       PROVE  entries[i].endpoint = configured[i] /\ entries[i].identity = None
  <2>1. entries[i] = unidentified(configured[i])
    BY <1>12, <1>13, <1>15
  <2> QED
    BY <2>1
<1>21. ASSUME NEW i \in (Len(configured) + 1) .. Len(entries)
       PROVE  FromScan(entries[i], found)
  BY <1>7, <1>12, <1>14, <1>16
<1> HIDE DEF entries, configured
<1> QED
  BY <1>8, <1>9, <1>18, <1>19, <1>20, <1>21 DEF entries, configured

-----------------------------------------------------------------------------
(* collect_server_list.                                                    *)

\* The cap splits the list in two: the first MAX_MONITORED_SERVERS, and the rest
\* in the same order.
LEMMA SplitParts ==
  ASSUME NEW S, NEW out \in Seq(S)
  PROVE  LET list == SplitAtCap(out)
         IN  /\ list.monitored \in Seq(S) /\ list.overflow \in Seq(S)
             /\ Len(list.monitored) = Lower(MAX_MONITORED_SERVERS, Len(out))
             /\ \A i \in 1 .. Len(list.monitored) : i \in DOMAIN out /\ list.monitored[i] = out[i]
             /\ \A i \in 1 .. Len(list.overflow) :
                  /\ MAX_MONITORED_SERVERS + i \in DOMAIN out
                  /\ list.overflow[i] = out[MAX_MONITORED_SERVERS + i]
<1> DEFINE m == Lower(MAX_MONITORED_SERVERS, Len(out))
           c == MAX_MONITORED_SERVERS
<1>1. c \in Nat /\ Len(out) \in Nat /\ DOMAIN out = 1 .. Len(out) /\ m \in 0 .. Len(out)
  BY CapAssumption DEF Lower
<1> DEFINE a == SubSeq(out, 1, m)
           b == SubSeq(out, c + 1, Len(out))
<1>s. SplitAtCap(out).monitored = a /\ SplitAtCap(out).overflow = b
  BY DEF SplitAtCap
<1> HIDE DEF m, c
<1>2. /\ SubSeq(out, 1, m) \in Seq(S) /\ Len(SubSeq(out, 1, m)) = m
      /\ \A i \in 1 .. m : SubSeq(out, 1, m)[i] = out[i]
  BY <1>1
<1>a. /\ a \in Seq(S) /\ Len(a) = m
      /\ \A i \in 1 .. Len(a) : i \in DOMAIN out /\ a[i] = out[i]
  <2>1. \A i \in 1 .. m : i \in DOMAIN out
    BY <1>1
  <2> QED
    BY <1>2, <2>1
<1>3. CASE c >= Len(out)
  <2>1. b = <<>>
    BY <1>1, <1>3
  <2> HIDE DEF a, b
  <2>2. b \in Seq(S) /\ Len(b) = 0
    BY <2>1
  <2> QED
    BY <1>a, <1>s, <2>2 DEF m, c
<1>4. CASE c < Len(out)
  <2>1. /\ SubSeq(out, c + 1, Len(out)) \in Seq(S)
        /\ Len(SubSeq(out, c + 1, Len(out))) = Len(out) - c
        /\ \A i \in 1 .. (Len(out) - c) : SubSeq(out, c + 1, Len(out))[i] = out[c + i]
    <3>1. c + 1 \in Int /\ Len(out) \in Int /\ c + 1 <= Len(out)
      BY <1>1, <1>4
    <3>2. \A i \in (c + 1) .. Len(out) : out[i] \in S
      BY <1>1
    <3>3. /\ SubSeq(out, c + 1, Len(out)) \in Seq(S)
          /\ Len(SubSeq(out, c + 1, Len(out))) = Len(out) - (c + 1) + 1
          /\ \A i \in 1 .. (Len(out) - (c + 1) + 1) :
               SubSeq(out, c + 1, Len(out))[i] = out[(c + 1) + i - 1]
      BY <3>1, <3>2, SubSeqProperties
    <3>4. Len(out) - (c + 1) + 1 = Len(out) - c
      BY <1>1
    <3>5. \A i \in 1 .. (Len(out) - c) : (c + 1) + i - 1 = c + i
      BY <1>1
    <3> QED
      BY <3>3, <3>4, <3>5
  <2> HIDE DEF a
  <2>2. /\ b \in Seq(S) /\ Len(b) = Len(out) - c
        /\ \A i \in 1 .. Len(b) : b[i] = out[c + i]
    BY <2>1
  <2> HIDE DEF b
  <2>3. \A i \in 1 .. Len(b) : c + i \in DOMAIN out
    BY <1>1, <1>4, <2>2
  <2> QED
    BY <1>a, <1>s, <2>2, <2>3 DEF m, c
<1> QED
  BY <1>1, <1>3, <1>4

\* The identity of a specification is that of a process that was found at an
\* endpoint with its key.
Identified(spec, found) ==
  \/ spec.identity = None
  \/ \E c \in Range(found) : spec.identity = IdentityOf(c) /\ spec.key = Key[c.endpoint]

\* What collect_server_list splits at the cap.
CollectedOut(given, found) ==
  LET out == FoldLeft(push_server, <<>>, Entries(given, found))
  IN  IF out # <<>> THEN out
      ELSE push_server(<<>>, [endpoint |-> DEFAULT_SERVER, identity |-> None])

\* The list before the cap is applied: not empty, each key once, each identity of
\* a process that was found.
LEMMA CollectedOutFacts ==
  ASSUME NEW C, NEW found \in Seq(C), \A c \in C : c.endpoint \in DOMAIN Rank,
         NEW X, NEW given, given.servers \in Seq(X)
  PROVE  LET out == CollectedOut(given, found)
         IN  /\ \E S : out \in Seq(S)
             /\ out # <<>>
             /\ DistinctKeys(out)
             /\ \A i \in DOMAIN out : Identified(out[i], found)
<1> DEFINE entries == Entries(given, found)
           n == Len(entries)
           fold == FoldLeft(push_server, <<>>, entries)
           fallback == push_server(<<>>, [endpoint |-> DEFAULT_SERVER, identity |-> None])
<1>1. n \in Nat /\ DOMAIN entries = 1 .. n
  BY EntriesOf
<1>2. \A i \in 1 .. n : FromScan(entries[i], found)
  <2> DEFINE m == Len(ConfiguredEndpoints(given))
  <2>1. /\ m \in Nat
        /\ \A i \in 1 .. m : entries[i].identity = None
        /\ \A i \in (m + 1) .. n : FromScan(entries[i], found)
    BY EntriesOf
  <2> QED
    BY <1>1, <2>1 DEF FromScan
<1> HIDE DEF entries, n
<1>3. PICK g : Pushes(entries, n, g) /\ fold = g[n]
  BY <1>1, FoldPushes
<1>4. Merged(entries, n, fold)
  BY <1>1, <1>3, AllMerged
<1> HIDE DEF fold
<1>5. CASE fold # <<>>
  <2>1. CollectedOut(given, found) = fold
    BY <1>5 DEF CollectedOut, fold, entries
  <2>2. ASSUME NEW i \in DOMAIN fold PROVE Identified(fold[i], found)
    <3>1. CASE fold[i].identity = None
      BY <3>1 DEF Identified
    <3>2. CASE fold[i].identity # None
      <4>1. PICK j \in 1 .. n : /\ entries[j].identity = fold[i].identity
                                /\ Key[entries[j].endpoint] = fold[i].key
        BY <1>4, <3>2 DEF Merged, FromEntries
      <4>2. PICK c \in Range(found) : /\ entries[j].endpoint = c.endpoint
                                      /\ entries[j].identity = IdentityOf(c)
        BY <1>2, <3>2, <4>1 DEF FromScan
      <4> QED
        BY <4>1, <4>2 DEF Identified
    <3> QED
      BY <3>1, <3>2
  <2> QED
    BY <1>4, <1>5, <2>1, <2>2 DEF Merged
<1>6. CASE fold = <<>>
  <2> DEFINE spec == [key |-> Key[DEFAULT_SERVER], endpoint |-> DEFAULT_SERVER, identity |-> None]
  <2>1. CollectedOut(given, found) = fallback
    BY <1>6 DEF CollectedOut, fold, entries
  <2>2. Range(<<>>) = {}
    BY DEF Range
  <2>3. fallback = Append(<<>>, spec)
    BY <2>2 DEF push_server
  <2>4. Append(<<>>, spec) = <<spec>>
    OBVIOUS
  <2> HIDE DEF fallback
  <2>5. Identified(spec, found)
    BY DEF Identified
  <2> HIDE DEF spec
  <2>6. <<spec>> \in Seq({spec}) /\ <<spec>> # <<>> /\ DOMAIN <<spec>> = {1} /\ <<spec>>[1] = spec
    OBVIOUS
  <2> DEFINE out == <<spec>>
  <2>7. DistinctKeys(out) /\ \A i \in DOMAIN out : Identified(out[i], found)
    BY <2>5, <2>6 DEF DistinctKeys
  <2>8. CollectedOut(given, found) = out
    BY <2>1, <2>3, <2>4
  <2>9. \E S : out \in Seq(S)
    BY <2>6
  <2>10. out # <<>>
    BY <2>6
  <2> HIDE DEF out
  <2> QED
    BY <2>7, <2>8, <2>9, <2>10
<1> QED
  BY <1>5, <1>6

\* collect_server_list never returns an empty list and never monitors more than
\* the cap; no key appears twice, within the monitored servers or beyond the cap;
\* and the identity of every entry is that of a process that was found at an
\* endpoint with the entry's key (push_server, collect_server_list).  This is what
\* the application loop assumes of the lists it is given.
THEOREM CollectedLists ==
  ASSUME NEW C, NEW found \in Seq(C), \A c \in C : c.endpoint \in DOMAIN Rank,
         NEW X, NEW given, given.servers \in Seq(X)
  PROVE  LET list == collect_server_list(given, found)
         IN  /\ list.monitored # <<>>
             /\ Len(list.monitored) <= MAX_MONITORED_SERVERS
             /\ DistinctKeys(list.monitored) /\ DistinctKeys(list.overflow)
             /\ \A s \in Range(list.monitored), t \in Range(list.overflow) : s.key # t.key
             /\ \A spec \in Range(list.monitored) \union Range(list.overflow) :
                  Identified(spec, found)
<1> DEFINE out == CollectedOut(given, found)
           list == SplitAtCap(out)
           c == MAX_MONITORED_SERVERS
<1>1. collect_server_list(given, found) = SplitAtCap(out)
  BY DEF collect_server_list, CollectedOut
<1>2. /\ \E S : out \in Seq(S)
      /\ out # <<>> /\ DistinctKeys(out)
      /\ \A i \in DOMAIN out : Identified(out[i], found)
  BY CollectedOutFacts
<1>3. PICK S : out \in Seq(S)
  BY <1>2
<1> HIDE DEF out
<1>4. /\ list.monitored \in Seq(S) /\ list.overflow \in Seq(S)
      /\ Len(list.monitored) = Lower(c, Len(out))
      /\ \A i \in 1 .. Len(list.monitored) : i \in DOMAIN out /\ list.monitored[i] = out[i]
      /\ \A i \in 1 .. Len(list.overflow) : c + i \in DOMAIN out /\ list.overflow[i] = out[c + i]
  BY <1>3, SplitParts
<1>5. c \in Nat \ {0} /\ Len(out) \in Nat \ {0}
  BY <1>2, <1>3, CapAssumption
<1> DEFINE a == list.monitored
           b == list.overflow
<1>6. /\ DOMAIN a = 1 .. Len(a) /\ Len(a) \in Nat /\ DOMAIN b = 1 .. Len(b) /\ Len(b) \in Nat
      /\ Len(a) <= c /\ Len(a) # 0
      /\ \A i \in DOMAIN a : i \in DOMAIN out /\ a[i] = out[i]
      /\ \A i \in DOMAIN b : c + i \in DOMAIN out /\ b[i] = out[c + i]
  <2>1. a \in Seq(S) /\ b \in Seq(S)
    BY <1>4
  <2> HIDE DEF a, b
  <2>2. DOMAIN a = 1 .. Len(a) /\ Len(a) \in Nat /\ DOMAIN b = 1 .. Len(b) /\ Len(b) \in Nat
    BY <2>1
  <2>3. Len(a) <= c /\ Len(a) # 0
    BY <1>4, <1>5 DEF Lower, a
  <2> QED
    BY <1>4, <2>2, <2>3 DEF a, b
<1> HIDE DEF list, a, b
<1>7. a # <<>>
  BY <1>6
<1>8. DistinctKeys(a)
  BY <1>2, <1>6 DEF DistinctKeys
<1>9. DistinctKeys(b)
  <2> SUFFICES ASSUME NEW i \in DOMAIN b, NEW j \in DOMAIN b, b[i].key = b[j].key PROVE i = j
    BY DEF DistinctKeys
  <2>1. c + i \in DOMAIN out /\ c + j \in DOMAIN out /\ b[i] = out[c + i] /\ b[j] = out[c + j]
    BY <1>6
  <2>2. c + i = c + j
    BY <1>2, <2>1 DEF DistinctKeys
  <2>3. i \in Int /\ j \in Int /\ c \in Int
    BY <1>5, <1>6
  <2> QED
    BY <2>2, <2>3
<1>10. \A s \in Range(a), t \in Range(b) : s.key # t.key
  <2> SUFFICES ASSUME NEW i \in DOMAIN a, NEW j \in DOMAIN b PROVE a[i].key # b[j].key
    BY DEF Range
  <2>1. i \in DOMAIN out /\ c + j \in DOMAIN out /\ a[i] = out[i] /\ b[j] = out[c + j]
    BY <1>6
  <2>2. i # c + j
    BY <1>5, <1>6
  <2> QED
    BY <1>2, <2>1, <2>2 DEF DistinctKeys
<1>11. \A spec \in Range(a) \union Range(b) : Identified(spec, found)
  BY <1>2, <1>6 DEF Range
<1> QED
  BY <1>1, <1>6, <1>7, <1>8, <1>9, <1>10, <1>11 DEF list, a, b

-----------------------------------------------------------------------------
(* The marks of the settings dialog.                                       *)

KeepSet(list, n, f) ==
  [s \in SUBSET (1 .. n) |-> IF s = {} THEN <<>> ELSE Keep(f[s \ {Max(s)}], list[Max(s)])]

\* The recursive function by which the fold of Keep is defined exists, for the
\* positions up to every n.
LEMMA KeepSetExists ==
  ASSUME NEW list
  PROVE  \A n \in Nat : \E f : f = KeepSet(list, n, f)
<1> DEFINE S == {n \in Nat : \E f : f = KeepSet(list, n, f)}
<1>1. 0 \in S
  <2> DEFINE g == [s \in SUBSET (1 .. 0) |-> <<>>]
  <2>1. \A s \in SUBSET (1 .. 0) : s = {}
    OBVIOUS
  <2>2. g = KeepSet(list, 0, g)
    BY <2>1 DEF KeepSet
  <2> QED
    BY <2>2
<1>2. ASSUME NEW n \in Nat, n \in S
      PROVE  n + 1 \in S
  <2>1. PICK f : f = KeepSet(list, n, f)
    BY <1>2
  <2> DEFINE g == [s \in SUBSET (1 .. (n + 1)) |->
                     IF n + 1 \in s THEN Keep(f[s \ {n + 1}], list[n + 1]) ELSE f[s]]
  <2>2. ASSUME NEW s \in SUBSET (1 .. (n + 1))
        PROVE  g[s] = IF s = {} THEN <<>> ELSE Keep(g[s \ {Max(s)}], list[Max(s)])
    <3>1. CASE n + 1 \in s
      <4>1. Max(s) = n + 1
        BY <3>1, MaxIs
      <4>2. s \ {n + 1} \in SUBSET (1 .. (n + 1)) /\ n + 1 \notin s \ {n + 1}
        OBVIOUS
      <4>3. g[s \ {n + 1}] = f[s \ {n + 1}]
        BY <4>2
      <4> QED
        BY <3>1, <4>1, <4>3
    <3>2. CASE n + 1 \notin s
      <4>1. s \in SUBSET (1 .. n)
        BY <3>2
      <4>2. f[s] = IF s = {} THEN <<>> ELSE Keep(f[s \ {Max(s)}], list[Max(s)])
        BY <2>1, <4>1 DEF KeepSet
      <4>3. s \ {Max(s)} \in SUBSET (1 .. (n + 1)) /\ n + 1 \notin s \ {Max(s)}
        BY <3>2
      <4>4. g[s \ {Max(s)}] = f[s \ {Max(s)}]
        BY <4>3
      <4> QED
        BY <3>2, <4>2, <4>4
    <3> QED
      BY <3>1, <3>2
  <2>3. g = KeepSet(list, n + 1, g)
    BY <2>2 DEF KeepSet
  <2> HIDE DEF g
  <2> QED
    BY <2>3
<1> HIDE DEF S
<1>3. \A n \in Nat : n \in S
  BY <1>1, <1>2, SetInduction
<1> QED
  BY <1>3 DEF S

\* The kept endpoints after each entry of the list.
Keeps(list, n, h) ==
  /\ h[0] = <<>>
  /\ \A k \in 1 .. n : h[k] = Keep(h[k - 1], list[k])

\* Distinct as a loop: a chain of lists, each Keep of the one before and the next.
LEMMA DistinctKeeps ==
  ASSUME NEW n \in Nat, NEW list, DOMAIN list = 1 .. n
  PROVE  \E h : Keeps(list, n, h) /\ Distinct(list) = h[n]
<1> DEFINE f == CHOOSE f : f = KeepSet(list, n, f)
           h == [k \in 0 .. n |-> f[1 .. k]]
<1>1. f = KeepSet(list, n, f)
  BY KeepSetExists
<1>2. Distinct(list) = f[1 .. n]
  BY DEF Distinct, FoldLeft, MapThenFoldSet, KeepSet
<1> HIDE DEF f
<1>3. h[0] = <<>>
  BY <1>1 DEF KeepSet
<1>4. ASSUME NEW k \in 1 .. n
      PROVE  h[k] = Keep(h[k - 1], list[k])
  <2>1. Max(1 .. k) = k
    <3>1. (1 .. k) \in SUBSET Nat /\ k \in 1 .. k /\ \A y \in 1 .. k : k >= y
      OBVIOUS
    <3> QED
      BY <3>1, MaxIs
  <2>2. (1 .. k) \in SUBSET (1 .. n) /\ 1 .. k # {} /\ (1 .. k) \ {k} = 1 .. (k - 1)
    OBVIOUS
  <2>3. f[1 .. k] = Keep(f[(1 .. k) \ {k}], list[k])
    BY <1>1, <2>1, <2>2 DEF KeepSet
  <2>4. h[k] = f[1 .. k] /\ h[k - 1] = f[1 .. (k - 1)]
    OBVIOUS
  <2> QED
    BY <2>2, <2>3, <2>4
<1>5. Distinct(list) = h[n]
  BY <1>2
<1> HIDE DEF h
<1> QED
  BY <1>3, <1>4, <1>5 DEF Keeps

\* Two lists that name the same keys in the same order.
SameKeys(kept, out) ==
  /\ Len(kept) = Len(out)
  /\ \A i \in 1 .. Len(out) : Key[kept[i]] = out[i].key

\* Pushing the configured endpoints keeps those that Distinct keeps.
LEMMA SameChain ==
  ASSUME NEW X, NEW list \in Seq(X), NEW n \in Nat, NEW entries, DOMAIN entries = 1 .. n,
         Len(list) <= n, \A i \in 1 .. Len(list) : entries[i].endpoint = list[i],
         NEW g, Pushes(entries, n, g), NEW h, Keeps(list, Len(list), h)
  PROVE  \A k \in 0 .. Len(list) : h[k] \in Seq(X) /\ SameKeys(h[k], g[k])
<1> DEFINE S == {k \in Nat : k <= Len(list) => h[k] \in Seq(X) /\ SameKeys(h[k], g[k])}
<1>0. Len(list) \in Nat
  OBVIOUS
<1>1. 0 \in S
  <2>1. h[0] = <<>> /\ g[0] = <<>>
    BY DEF Pushes, Keeps
  <2>2. <<>> \in Seq(X) /\ SameKeys(<<>>, <<>>)
    BY DEF SameKeys
  <2> QED
    BY <2>1, <2>2
<1>2. ASSUME NEW k \in Nat, k \in S
      PROVE  k + 1 \in S
  <2> SUFFICES ASSUME k + 1 <= Len(list) PROVE h[k + 1] \in Seq(X) /\ SameKeys(h[k + 1], g[k + 1])
    OBVIOUS
  <2>1. k + 1 \in 1 .. Len(list) /\ k + 1 \in 1 .. n /\ k \in 0 .. n /\ (k + 1) - 1 = k
    BY <1>0
  <2> DEFINE kept == h[k]
             out == g[k]
             e == list[k + 1]
             entry == entries[k + 1]
  <2>2. kept \in Seq(X) /\ SameKeys(kept, out) /\ e \in X /\ entry.endpoint = e
    BY <1>2, <2>1
  <2>3. out \in Seq(AnySpec(entries))
    BY <2>1, AllMerged DEF Merged
  <2>4. h[k + 1] = Keep(kept, e) /\ g[k + 1] = push_server(out, entry)
    BY <2>1 DEF Pushes, Keeps
  <2> HIDE DEF kept, out, e, entry
  <2>5. /\ Len(kept) \in Nat /\ Len(out) = Len(kept)
        /\ DOMAIN kept = 1 .. Len(kept) /\ DOMAIN out = 1 .. Len(out)
    BY <2>2, <2>3 DEF SameKeys
  <2>6. find_duplicate(kept, e) <=> \E spec \in Range(out) : spec.key = Key[e]
    BY <2>2, <2>5 DEF find_duplicate, SharesIdentity, SameKeys, Range
  <2>7. CASE find_duplicate(kept, e)
    <3>1. Keep(kept, e) = kept
      BY <2>7 DEF Keep
    <3>2. push_server(out, entry) =
            [i \in DOMAIN out |->
               IF out[i].key = Key[e] THEN [out[i] EXCEPT !.identity = Or(@, entry.identity)]
               ELSE out[i]]
      BY <2>2, <2>6, <2>7 DEF push_server
    <3>3. \A i \in DOMAIN out : push_server(out, entry)[i].key = out[i].key
      <4>1. \A i \in DOMAIN out : out[i] \in AnySpec(entries)
        BY <2>3
      <4> QED
        BY <3>2, <4>1 DEF AnySpec
    <3>4. Len(push_server(out, entry)) = Len(out)
      BY <2>5, <3>2
    <3> HIDE DEF push_server
    <3> QED
      BY <2>2, <2>4, <2>5, <3>1, <3>3, <3>4 DEF SameKeys
  <2>8. CASE ~find_duplicate(kept, e)
    <3> DEFINE new == [key |-> Key[e], endpoint |-> e, identity |-> entry.identity]
    <3>1. Keep(kept, e) = Append(kept, e)
      BY <2>8 DEF Keep
    <3>2. push_server(out, entry) = Append(out, new)
      BY <2>2, <2>6, <2>8 DEF push_server
    <3>3. new.key = Key[e]
      OBVIOUS
    <3> HIDE DEF new
    <3>4. /\ Append(kept, e) \in Seq(X) /\ Len(Append(kept, e)) = Len(kept) + 1
          /\ \A i \in 1 .. Len(kept) : Append(kept, e)[i] = kept[i]
          /\ Append(kept, e)[Len(kept) + 1] = e
      BY <2>2, AppendProperties
    <3>5. /\ Len(Append(out, new)) = Len(out) + 1
          /\ \A i \in 1 .. Len(out) : Append(out, new)[i] = out[i]
          /\ Append(out, new)[Len(out) + 1] = new
      <4>1. out \in Seq(AnySpec(entries) \union {new})
        BY <2>3
      <4> QED
        BY <4>1, AppendProperties
    <3> QED
      BY <2>2, <2>4, <2>5, <3>1, <3>2, <3>3, <3>4, <3>5 DEF SameKeys
  <2> QED
    BY <2>7, <2>8
<1> HIDE DEF S
<1>3. \A k \in Nat : k \in S
  BY <1>1, <1>2, SetInduction
<1> QED
  BY <1>0, <1>3 DEF S

\* The mark of an additional server says whether it will be monitored.
MarkIsRight(given, found, i) ==
  monitored_flags(given.server, given.servers)[i] <=>
    \E spec \in Range(collect_server_list(given, found).monitored) :
      spec.key = Key[given.servers[i]]

\* For a configuration with a primary server, the mark of an additional server says
\* whether collect_server_list monitors it, whatever a scan has found besides:
\* discovered servers never displace a configured one, and the merge by key keeps
\* the places that the dialog counts (monitored_flags, collect_server_list).
THEOREM FlagsAgree ==
  ASSUME NEW C, NEW found \in Seq(C), \A c \in C : c.endpoint \in DOMAIN Rank,
         NEW X, NEW given, given.servers \in Seq(X), given.server # None,
         NEW i \in DOMAIN given.servers
  PROVE  MarkIsRight(given, found, i)
<1> DEFINE conf == ConfiguredEndpoints(given)
           m == Len(conf)
           entries == Entries(given, found)
           n == Len(entries)
           Y == X \union {given.server}
           unique == Distinct(conf)
           out == CollectedOut(given, found)
           cap == MAX_MONITORED_SERVERS
           key == Key[given.servers[i]]
<1>1. /\ m \in Nat /\ n \in Nat /\ DOMAIN entries = 1 .. n /\ m <= n
      /\ \A j \in 1 .. m : entries[j].endpoint = conf[j]
  BY EntriesOf
<1>2. conf = <<given.server>> \o given.servers
  BY DEF ConfiguredEndpoints
<1>3. conf \in Seq(Y) /\ DOMAIN conf = 1 .. m /\ i + 1 \in 1 .. m /\ conf[i + 1] = given.servers[i]
  <2>1. <<given.server>> \in Seq(Y) /\ given.servers \in Seq(Y) /\ Len(<<given.server>>) = 1
    OBVIOUS
  <2>2. /\ conf \in Seq(Y) /\ Len(conf) = 1 + Len(given.servers)
        /\ \A j \in 1 .. (1 + Len(given.servers)) :
             conf[j] = IF j <= 1 THEN <<given.server>>[j] ELSE given.servers[j - 1]
    BY <1>2, <2>1, ConcatProperties
  <2>3. i \in 1 .. Len(given.servers) /\ Len(given.servers) \in Nat
    BY <2>1
  <2>4. i + 1 \in 1 .. (1 + Len(given.servers)) /\ ~(i + 1 <= 1) /\ (i + 1) - 1 = i
    BY <2>3
  <2> QED
    BY <2>2, <2>4
<1> HIDE DEF conf, m, entries, n
<1>4. PICK g : Pushes(entries, n, g) /\ FoldLeft(push_server, <<>>, entries) = g[n]
  BY <1>1, FoldPushes
<1>5. PICK h : Keeps(conf, m, h) /\ unique = h[m]
  BY <1>1, <1>3, DistinctKeeps
<1>6. unique \in Seq(Y) /\ SameKeys(unique, g[m])
  <2>1. Len(conf) = m /\ m \in 0 .. m
    BY <1>1 DEF m
  <2> QED
    <3>1. /\ conf \in Seq(Y) /\ Len(conf) <= n /\ Keeps(conf, Len(conf), h)
          /\ \A j \in 1 .. Len(conf) : entries[j].endpoint = conf[j]
      BY <1>1, <1>3, <1>5, <2>1
    <3> HIDE DEF Y
    <3>2. \A k \in 0 .. Len(conf) : h[k] \in Seq(Y) /\ SameKeys(h[k], g[k])
      BY <1>1, <1>4, <3>1, SameChain
    <3> QED
      BY <1>5, <2>1, <3>2
<1>7. Merged(entries, m, g[m]) /\ Merged(entries, n, g[n]) /\ KeepsKeys(g[m], g[n])
  BY <1>1, <1>4, AllMerged, PushesKeepKeys
<1> HIDE DEF out, unique
<1>8. PICK p \in DOMAIN g[m] : g[m][p].key = key
  <2>1. Key[entries[i + 1].endpoint] = key
    BY <1>1, <1>3
  <2>2. CoversEntries(entries, m, g[m])
    BY <1>7 DEF Merged
  <2> QED
    BY <1>3, <2>1, <2>2 DEF CoversEntries
<1> HIDE DEF key
<1>9. /\ p \in 1 .. Len(g[m]) /\ Len(g[m]) \in Nat /\ Len(g[n]) \in Nat /\ Len(g[m]) <= Len(g[n])
      /\ DOMAIN g[n] = 1 .. Len(g[n])
  BY <1>7, <1>8 DEF Merged, KeepsKeys
<1>10. out = g[n]
  <2>1. g[n] # <<>>
    BY <1>9
  <2> QED
    BY <1>4, <2>1 DEF CollectedOut, entries, out
<1>11. p \in DOMAIN out /\ out[p].key = key /\ \A q \in DOMAIN out : out[q].key = key => q = p
  <2>1. p \in DOMAIN g[n] /\ g[n][p].key = key
    BY <1>7, <1>8, <1>9 DEF KeepsKeys
  <2> QED
    BY <1>7, <1>10, <2>1 DEF Merged, DistinctKeys
<1>12. Len(unique) = Len(g[m]) /\ DOMAIN unique = 1 .. Len(unique) /\ Key[unique[p]] = key
  BY <1>6, <1>8, <1>9 DEF SameKeys
<1>13. \A q \in DOMAIN unique : Key[unique[q]] = key => q = p
  BY <1>6, <1>7, <1>8, <1>9, <1>12 DEF SameKeys, Merged, DistinctKeys
<1>14. cap \in Nat \ {0} /\ out \in Seq(AnySpec(entries))
  BY <1>7, <1>10, CapAssumption DEF Merged
<1>15. monitored_flags(given.server, given.servers)[i] <=> p <= cap
  <2> DEFINE shown == SubSeq(unique, 1, Lower(cap, Len(unique)))
  <2>1. monitored_flags(given.server, given.servers)[i]
          <=> \E endpoint \in Range(shown) : Key[endpoint] = key
    BY DEF monitored_flags, conf, ConfiguredEndpoints, unique, key
  <2>2. /\ Len(shown) = Lower(cap, Len(unique)) /\ DOMAIN shown = 1 .. Len(shown)
        /\ \A q \in 1 .. Len(shown) : shown[q] = unique[q]
    <3>1. Lower(cap, Len(unique)) \in 0 .. Len(unique)
      BY <1>9, <1>12, <1>14 DEF Lower
    <3> QED
      BY <1>6, <3>1
  <2> HIDE DEF shown
  <2>3. (\E endpoint \in Range(shown) : Key[endpoint] = key) <=> p <= Lower(cap, Len(unique))
    <3>1. ASSUME NEW q \in 1 .. Len(shown), Key[shown[q]] = key PROVE p <= Len(shown)
      <4>1. q \in DOMAIN unique /\ Key[unique[q]] = key
        BY <1>9, <1>12, <1>14, <2>2, <3>1 DEF Lower
      <4> QED
        BY <1>13, <2>2, <4>1
    <3>2. ASSUME p <= Len(shown) PROVE p \in DOMAIN shown /\ Key[shown[p]] = key
      BY <1>9, <1>12, <2>2, <3>2
    <3> QED
      BY <2>2, <3>1, <3>2 DEF Range
  <2>4. p <= Lower(cap, Len(unique)) <=> p <= cap
    BY <1>9, <1>12, <1>14 DEF Lower
  <2> QED
    BY <2>1, <2>3, <2>4
<1>16. (\E spec \in Range(collect_server_list(given, found).monitored) : spec.key = key)
         <=> p <= cap
  <2> DEFINE shown == SplitAtCap(out).monitored
  <2>1. collect_server_list(given, found) = SplitAtCap(out)
    BY DEF collect_server_list, CollectedOut, out
  <2>2. /\ Len(shown) = Lower(cap, Len(out)) /\ shown \in Seq(AnySpec(entries))
        /\ \A q \in 1 .. Len(shown) : q \in DOMAIN out /\ shown[q] = out[q]
    BY <1>14, SplitParts
  <2>3. DOMAIN shown = 1 .. Len(shown)
    BY <2>2
  <2> HIDE DEF shown
  <2>4. (\E spec \in Range(shown) : spec.key = key) <=> p <= Len(shown)
    <3>1. ASSUME NEW q \in 1 .. Len(shown), shown[q].key = key PROVE p <= Len(shown)
      BY <1>11, <2>2, <3>1
    <3>2. ASSUME p <= Len(shown) PROVE p \in DOMAIN shown /\ shown[p].key = key
      BY <1>9, <1>11, <2>2, <2>3, <3>2
    <3> QED
      BY <2>3, <3>1, <3>2 DEF Range
  <2>5. p <= Len(shown) <=> p <= cap
    BY <1>9, <1>10, <1>14, <2>2 DEF Lower
  <2> QED
    BY <2>1, <2>4, <2>5 DEF shown
<1> QED
  BY <1>15, <1>16 DEF key, MarkIsRight
-----------------------------------------------------------------------------
(***************************************************************************)
(* The scan.  The inductive invariant follows one pid through the three    *)
(* reads: as start times only grow, a process whose pid was given to       *)
(* another never comes back under it, so two equal start times around the  *)
(* command line are of one process.                                        *)
(***************************************************************************)

\* A candidate of the scan.
Found == [endpoint : Local, pid : ScanPids, start : Nat \union {None}]

ScanRecord ==
  [todo : SUBSET ScanPids, pid : ScanPids \union {None}, read : {0, 1, 2},
   before : Nat \union {None}, args : Local \union {NoServer}, found : Seq(Found)]

ScanTypes ==
  /\ procs \in [ScanPids -> [start : Nat, args : Local \union {NoServer}] \union {None}]
  /\ starts \in Nat
  /\ config \in Settings
  /\ scan \in ScanRecord \union {None}

\* Every process that holds a pid was noted, and no start time is to come.
ProcessesNoted ==
  \A pid \in ScanPids : procs[pid] # None =>
    /\ procs[pid].start <= starts
    /\ <<pid, procs[pid].start, procs[pid].args>> \in ran

\* The process whose start time was read holds its pid, or has lost it for good.
LostAfter(table, pid, start) == table[pid] = None \/ table[pid].start > start
BeforeIsPast ==
  scan # None /\ scan.pid # None /\ scan.before # None =>
    /\ scan.before <= starts
    /\ LostAfter(procs, scan.pid, scan.before) \/ procs[scan.pid].start = scan.before

\* The endpoint that was read is one of that process, unless it has lost its pid.
EndpointOfProcess ==
  scan # None /\ scan.pid # None /\ scan.read = 2 =>
    /\ scan.args \in Local
    /\ scan.before # None =>
         \/ <<scan.pid, scan.before, scan.args>> \in ran
         \/ LostAfter(procs, scan.pid, scan.before)

\* A candidate with a start time is of a process that served its endpoint.
FoundServes ==
  scan # None => \A c \in Range(scan.found) :
                   c.start # None => <<c.pid, c.start, c.endpoint>> \in ran

ScanInv ==
  /\ ScanTypes
  /\ ProcessesNoted
  /\ BeforeIsPast
  /\ EndpointOfProcess
  /\ FoundServes

\* Before the first process and the first scan.
LEMMA ScanInvInit == ScanInit => ScanInv
<1> SUFFICES ASSUME ScanInit PROVE ScanInv
  OBVIOUS
<1> USE DEF ScanInit
<1>1. ScanTypes
  BY DEF ScanTypes, ScanRecord
<1>2. ProcessesNoted
  BY DEF ProcessesNoted
<1>3. BeforeIsPast /\ EndpointOfProcess /\ FoundServes
  BY DEF BeforeIsPast, EndpointOfProcess, FoundServes
<1> QED
  BY <1>1, <1>2, <1>3 DEF ScanInv

\* A process that starts gets a start time that no earlier one had, is noted, and
\* cannot be taken for the process that held its pid.
LEMMA StartKeeps ==
  ASSUME ScanInv, NEW pid \in ScanPids, StartProcess(pid)
  PROVE  ScanInv'
<1>1. PICK args \in Local \union {NoServer} :
        /\ starts' = starts + 1
        /\ procs' = [procs EXCEPT ![pid] = [start |-> starts + 1, args |-> args]]
        /\ ran' = ran \union Serves(pid, procs'[pid])
        /\ UNCHANGED <<config, scan, listed, resolved>>
  BY DEF StartProcess
<1>2. ScanTypes
  BY DEF ScanInv
<1>3. /\ procs'[pid] = [start |-> starts + 1, args |-> args]
      /\ \A p \in ScanPids \ {pid} : procs'[p] = procs[p]
      /\ procs'[pid].start = starts + 1 /\ procs'[pid].args = args
  BY <1>1, <1>2 DEF ScanTypes, ScanRecord
<1>4. ran \subseteq ran' /\ <<pid, starts + 1, args>> \in ran'
  BY <1>1, <1>3 DEF Serves
<1>5. ScanTypes'
  BY <1>1, <1>2 DEF ScanTypes, ScanRecord
<1>6. \A p \in ScanPids : procs[p] # None => procs[p].start \in Nat
  BY <1>2 DEF ScanTypes, ScanRecord
<1>7. ProcessesNoted'
  <2> SUFFICES ASSUME NEW p \in ScanPids, procs'[p] # None
               PROVE  procs'[p].start <= starts' /\ <<p, procs'[p].start, procs'[p].args>> \in ran'
    BY DEF ProcessesNoted
  <2>1. CASE p = pid
    BY <1>1, <1>2, <1>3, <1>4, <2>1 DEF ScanTypes, ScanRecord
  <2>2. CASE p # pid
    BY <1>1, <1>2, <1>3, <1>4, <1>6, <2>2 DEF ScanTypes, ScanRecord, ScanInv, ProcessesNoted
  <2> QED
    BY <2>1, <2>2
<1>8. \A p \in ScanPids, start \in Nat :
        start <= starts /\ LostAfter(procs, p, start) => LostAfter(procs', p, start)
  BY <1>1, <1>2, <1>3 DEF ScanTypes, ScanRecord, LostAfter
<1>9. BeforeIsPast'
  <2> SUFFICES ASSUME scan # None, scan.pid # None, scan.before # None
               PROVE  /\ scan.before <= starts'
                      /\ LostAfter(procs', scan.pid, scan.before) \/ procs'[scan.pid].start = scan.before
    BY <1>1 DEF BeforeIsPast, LostAfter
  <2>1. scan.pid \in ScanPids /\ scan.before \in Nat
    BY <1>2 DEF ScanTypes, ScanRecord
  <2>2. /\ scan.before <= starts
        /\ LostAfter(procs, scan.pid, scan.before) \/ procs[scan.pid].start = scan.before
    BY DEF ScanInv, BeforeIsPast
  <2>3. starts \in Nat /\ scan.before <= starts'
    BY <1>1, <1>2, <2>1, <2>2 DEF ScanTypes, ScanRecord
  <2>4. CASE scan.pid = pid
    <3>1. procs'[scan.pid].start > scan.before
      BY <1>3, <2>1, <2>2, <2>3, <2>4
    <3> QED
      BY <2>3, <3>1 DEF LostAfter
  <2>5. CASE scan.pid # pid
    <3>1. procs'[scan.pid] = procs[scan.pid]
      BY <1>3, <2>1, <2>5
    <3> QED
      BY <2>2, <2>3, <3>1 DEF LostAfter
  <2> QED
    BY <2>4, <2>5
<1>10. EndpointOfProcess'
  <2> SUFFICES ASSUME scan # None, scan.pid # None, scan.read = 2
               PROVE  /\ scan.args \in Local
                      /\ scan.before # None =>
                           \/ <<scan.pid, scan.before, scan.args>> \in ran'
                           \/ LostAfter(procs', scan.pid, scan.before)
    BY <1>1 DEF EndpointOfProcess, LostAfter
  <2>1. scan.pid \in ScanPids /\ (scan.before # None => scan.before \in Nat)
    BY <1>2 DEF ScanTypes, ScanRecord
  <2> QED
    BY <1>4, <1>8, <2>1 DEF ScanInv, EndpointOfProcess, BeforeIsPast
<1>11. FoundServes'
  BY <1>1, <1>4 DEF ScanInv, FoundServes
<1> QED
  BY <1>5, <1>7, <1>9, <1>10, <1>11 DEF ScanInv

\* A process that exits leaves its pid; what was read of it stays true of the past.
LEMMA ExitKeeps ==
  ASSUME ScanInv, NEW pid \in ScanPids, ExitProcess(pid)
  PROVE  ScanInv'
<1>1. /\ procs' = [procs EXCEPT ![pid] = None]
      /\ UNCHANGED <<starts, ran, config, scan, listed, resolved>>
  BY DEF ExitProcess
<1>2. ScanTypes
  BY DEF ScanInv
<1>3. procs'[pid] = None /\ \A p \in ScanPids \ {pid} : procs'[p] = procs[p]
  BY <1>1, <1>2 DEF ScanTypes, ScanRecord
<1>4. ScanTypes'
  BY <1>1, <1>2 DEF ScanTypes, ScanRecord
<1>5. ProcessesNoted'
  BY <1>1, <1>3 DEF ScanInv, ProcessesNoted
<1>6. \A p \in ScanPids, start \in Nat : LostAfter(procs, p, start) => LostAfter(procs', p, start)
  BY <1>3 DEF LostAfter
<1>7. \A p \in ScanPids : p # pid \/ \A start : LostAfter(procs', p, start)
  BY <1>3 DEF LostAfter
<1>8. scan # None => scan.pid \in ScanPids \union {None} /\ scan.before \in Nat \union {None}
  BY <1>2 DEF ScanTypes, ScanRecord
<1>9. BeforeIsPast'
  <2> SUFFICES ASSUME scan # None, scan.pid # None, scan.before # None
               PROVE  /\ scan.before <= starts
                      /\ LostAfter(procs', scan.pid, scan.before) \/ procs'[scan.pid].start = scan.before
    BY <1>1 DEF BeforeIsPast, LostAfter
  <2>1. /\ scan.before <= starts
        /\ LostAfter(procs, scan.pid, scan.before) \/ procs[scan.pid].start = scan.before
    BY DEF ScanInv, BeforeIsPast
  <2> QED
    BY <1>3, <1>6, <1>7, <1>8, <2>1
<1>10. EndpointOfProcess'
  <2> SUFFICES ASSUME scan # None, scan.pid # None, scan.read = 2
               PROVE  /\ scan.args \in Local
                      /\ scan.before # None =>
                           \/ <<scan.pid, scan.before, scan.args>> \in ran
                           \/ LostAfter(procs', scan.pid, scan.before)
    BY <1>1 DEF EndpointOfProcess, LostAfter
  <2> QED
    BY <1>6, <1>8 DEF ScanInv, EndpointOfProcess
<1>11. FoundServes'
  BY <1>1 DEF ScanInv, FoundServes
<1> QED
  BY <1>4, <1>5, <1>9, <1>10, <1>11 DEF ScanInv

\* A scan begins with no candidate.
LEMMA BeginKeeps ==
  ASSUME ScanInv, BeginScan
  PROVE  ScanInv'
<1>1. /\ UNCHANGED <<procs, starts, ran, config>>
      /\ scan'.found = <<>> /\ scan'.pid = None /\ scan'.before = None
      /\ scan' \in [todo : SUBSET ScanPids, pid : {None}, read : {0}, before : {None},
                    args : {NoServer}, found : {<<>>}]
  BY DEF BeginScan
<1>2. ScanTypes'
  <2>1. <<>> \in Seq(Found)
    OBVIOUS
  <2>2. scan' \in ScanRecord
    BY <1>1, <2>1 DEF ScanRecord
  <2> QED
    BY <1>1, <2>2 DEF ScanInv, ScanTypes
<1>3. ProcessesNoted'
  BY <1>1 DEF ScanInv, ProcessesNoted
<1>4. BeforeIsPast' /\ EndpointOfProcess'
  BY <1>1 DEF BeforeIsPast, EndpointOfProcess
<1>5. Range(scan'.found) = {}
  BY <1>1 DEF Range
<1>6. FoundServes'
  BY <1>5 DEF FoundServes
<1> QED
  BY <1>2, <1>3, <1>4, <1>6 DEF ScanInv

\* A start time that can be read is the one of the process that holds the pid now.
LEMMA StartReadOf ==
  ASSUME ScanInv, NEW pid \in ScanPids, NEW start \in read_process_start_time(pid)
  PROVE  start = None \/ /\ start \in Nat /\ procs[pid] # None
                         /\ procs[pid].start = start /\ start <= starts
BY DEF read_process_start_time, ScanInv, ScanTypes, ScanRecord, ProcessesNoted

\* The first read of the start time: of the process that holds the pid now.
LEMMA BeforeKeeps ==
  ASSUME ScanInv, ReadStartBefore
  PROVE  ScanInv'
<1>0. PICK pid \in scan.todo : \E start \in read_process_start_time(pid) :
        scan' = [scan EXCEPT !.todo = @ \ {pid}, !.pid = pid, !.before = start, !.read = 1]
  BY DEF ReadStartBefore
<1>1. PICK start \in read_process_start_time(pid) :
        scan' = [scan EXCEPT !.todo = @ \ {pid}, !.pid = pid, !.before = start, !.read = 1]
  BY <1>0
<1>2. scan # None /\ UNCHANGED <<procs, starts, ran, config>>
  BY DEF ReadStartBefore
<1>3. ScanTypes
  BY DEF ScanInv
<1>4. pid \in ScanPids
  BY <1>2, <1>3 DEF ScanTypes, ScanRecord
<1>5. start = None \/ (start \in Nat /\ procs[pid].start = start /\ start <= starts)
  BY <1>4, StartReadOf
<1>6. ScanTypes'
  BY <1>1, <1>2, <1>3, <1>4, <1>5 DEF ScanTypes, ScanRecord
<1>7. /\ scan'.pid = pid /\ scan'.before = start /\ scan'.read = 1
      /\ scan'.found = scan.found
  BY <1>1, <1>2, <1>3 DEF ScanTypes, ScanRecord
<1>8. ProcessesNoted'
  BY <1>2 DEF ScanInv, ProcessesNoted
<1>9. BeforeIsPast'
  BY <1>2, <1>5, <1>7 DEF BeforeIsPast
<1>10. EndpointOfProcess'
  BY <1>7 DEF EndpointOfProcess
<1>11. FoundServes'
  BY <1>2, <1>7 DEF ScanInv, FoundServes
<1> QED
  BY <1>6, <1>8, <1>9, <1>10, <1>11 DEF ScanInv

\* The command line is of the process whose start time was read, or that process
\* has lost its pid for good.
LEMMA CommandLineKeeps ==
  ASSUME ScanInv, ReadCommandLine
  PROVE  ScanInv'
<1> DEFINE args == IF procs[scan.pid] = None THEN NoServer ELSE procs[scan.pid].args
<1>1. /\ scan # None /\ scan.pid # None /\ scan.read = 1
      /\ UNCHANGED <<procs, starts, ran, config>>
      /\ scan' = IF args = NoServer THEN [scan EXCEPT !.pid = None, !.read = 0, !.before = None]
                 ELSE [scan EXCEPT !.args = args, !.read = 2]
  BY DEF ReadCommandLine
<1>2. ScanTypes
  BY DEF ScanInv
<1>3. scan.pid \in ScanPids /\ scan.before \in Nat \union {None}
  BY <1>1, <1>2 DEF ScanTypes, ScanRecord
<1>4. args \in Local \union {NoServer}
  BY <1>2, <1>3 DEF ScanTypes, ScanRecord
<1>5. ProcessesNoted'
  BY <1>1 DEF ScanInv, ProcessesNoted
<1>6. CASE args = NoServer
  <2>1. scan' = [scan EXCEPT !.pid = None, !.read = 0, !.before = None]
    BY <1>1, <1>6
  <2>2. ScanTypes'
    BY <1>1, <1>2, <2>1 DEF ScanTypes, ScanRecord
  <2>3. scan'.pid = None /\ scan'.found = scan.found
    BY <1>1, <1>2, <2>1 DEF ScanTypes, ScanRecord
  <2>4. BeforeIsPast' /\ EndpointOfProcess' /\ FoundServes'
    BY <1>1, <2>3 DEF ScanInv, BeforeIsPast, EndpointOfProcess, FoundServes
  <2> QED
    BY <1>5, <2>2, <2>4 DEF ScanInv
<1>7. CASE args # NoServer
  <2>1. scan' = [scan EXCEPT !.args = args, !.read = 2]
    BY <1>1, <1>7
  <2>2. procs[scan.pid] # None /\ args = procs[scan.pid].args /\ args \in Local
    BY <1>4, <1>7
  <2> HIDE DEF args
  <2>3. ScanTypes'
    BY <1>1, <1>2, <2>1, <2>2 DEF ScanTypes, ScanRecord
  <2>4. /\ scan'.pid = scan.pid /\ scan'.before = scan.before /\ scan'.args = args
        /\ scan'.found = scan.found
    BY <1>1, <1>2, <2>1 DEF ScanTypes, ScanRecord
  <2>5. BeforeIsPast'
    BY <1>1, <2>4 DEF ScanInv, BeforeIsPast, LostAfter
  <2>6. <<scan.pid, procs[scan.pid].start, args>> \in ran
    BY <1>3, <2>2 DEF ScanInv, ProcessesNoted
  <2>7. scan.before # None =>
          LostAfter(procs, scan.pid, scan.before) \/ procs[scan.pid].start = scan.before
    BY <1>1 DEF ScanInv, BeforeIsPast
  <2>8. EndpointOfProcess'
    BY <1>1, <2>2, <2>4, <2>6, <2>7 DEF EndpointOfProcess
  <2>9. FoundServes'
    BY <1>1, <2>4 DEF ScanInv, FoundServes
  <2> QED
    BY <1>5, <2>3, <2>5, <2>8, <2>9 DEF ScanInv
<1> QED
  BY <1>6, <1>7

\* The second read of the start time: the same as the first only if the pid was
\* never lost in between, so that a candidate with a start time is of that process.
LEMMA AfterKeeps ==
  ASSUME ScanInv, ReadStartAfter
  PROVE  ScanInv'
<1>1. PICK after \in read_process_start_time(scan.pid) :
        scan' = [scan EXCEPT !.found = WithCandidate(@, scan.pid, scan.args, scan.before, after),
                             !.pid = None, !.read = 0, !.before = None, !.args = NoServer]
  BY DEF ReadStartAfter
<1>2. /\ scan # None /\ scan.pid # None /\ scan.read = 2
      /\ UNCHANGED <<procs, starts, ran, config>>
  BY DEF ReadStartAfter
<1>3. ScanTypes
  BY DEF ScanInv
<1>4. scan.pid \in ScanPids /\ scan.found \in Seq(Found) /\ scan.args \in Local
  BY <1>2, <1>3 DEF ScanTypes, ScanRecord, ScanInv, EndpointOfProcess
<1>5. after = None \/ (after \in Nat /\ procs[scan.pid] # None /\ procs[scan.pid].start = after)
  BY <1>4, StartReadOf
<1> DEFINE c == [endpoint |-> scan.args, pid |-> scan.pid, start |-> after]
           found == WithCandidate(scan.found, scan.pid, scan.args, scan.before, after)
<1>6. c \in Found
  BY <1>4, <1>5 DEF Found
<1>7. /\ found \in Seq(Found)
      /\ \A d \in Range(found) : d \in Range(scan.found) \/ (d = c /\ scan.before = after)
  <2>1. CASE scan.before # after
    BY <1>4, <2>1 DEF WithCandidate
  <2>2. CASE scan.before = after
    <3>1. found = Append(scan.found, c)
      BY <2>2 DEF WithCandidate
    <3> HIDE DEF found, c
    <3> QED
      BY <1>4, <1>6, <2>2, <3>1 DEF Range
  <2> QED
    BY <2>1, <2>2
<1>8. scan' = [scan EXCEPT !.found = found, !.pid = None, !.read = 0, !.before = None,
                           !.args = NoServer]
  BY <1>1
<1>9. after # None /\ scan.before = after => <<c.pid, c.start, c.endpoint>> \in ran
  <2> SUFFICES ASSUME after # None, scan.before = after
               PROVE  <<scan.pid, scan.before, scan.args>> \in ran
    OBVIOUS
  <2>1. ~LostAfter(procs, scan.pid, scan.before)
    BY <1>5 DEF LostAfter
  <2> QED
    BY <1>2, <2>1 DEF ScanInv, EndpointOfProcess
<1> HIDE DEF found
<1>10. ScanTypes'
  BY <1>2, <1>3, <1>7, <1>8 DEF ScanTypes, ScanRecord
<1>11. scan'.pid = None /\ scan'.found = found
  BY <1>2, <1>3, <1>8 DEF ScanTypes, ScanRecord
<1>12. FoundServes'
  <2> SUFFICES ASSUME NEW d \in Range(found), d.start # None
               PROVE  <<d.pid, d.start, d.endpoint>> \in ran
    BY <1>2, <1>11 DEF FoundServes
  <2>1. CASE d \in Range(scan.found)
    BY <1>2, <2>1 DEF ScanInv, FoundServes
  <2>2. CASE d = c /\ scan.before = after
    BY <1>9, <2>2
  <2> QED
    BY <1>7, <2>1, <2>2
<1>13. ProcessesNoted' /\ BeforeIsPast' /\ EndpointOfProcess'
  BY <1>2, <1>11 DEF ScanInv, ProcessesNoted, BeforeIsPast, EndpointOfProcess
<1> QED
  BY <1>10, <1>12, <1>13 DEF ScanInv

\* The scan ends; its candidates are used and forgotten.
LEMMA EndKeeps ==
  ASSUME ScanInv, EndScan
  PROVE  ScanInv'
<1>1. scan' = None /\ UNCHANGED <<procs, starts, ran, config>>
  BY DEF EndScan
<1>2. ScanTypes' /\ ProcessesNoted'
  BY <1>1 DEF ScanInv, ScanTypes, ScanRecord, ProcessesNoted
<1>3. BeforeIsPast' /\ EndpointOfProcess' /\ FoundServes'
  BY <1>1 DEF BeforeIsPast, EndpointOfProcess, FoundServes
<1> QED
  BY <1>2, <1>3 DEF ScanInv

\* Every step keeps the invariant, one case for each action.
LEMMA ScanInvNext == ScanInv /\ [ScanNext]_scanVars => ScanInv'
<1> SUFFICES ASSUME ScanInv, [ScanNext]_scanVars PROVE ScanInv'
  OBVIOUS
<1>1. ASSUME NEW pid \in ScanPids, StartProcess(pid) PROVE ScanInv'
  BY <1>1, StartKeeps
<1>2. ASSUME NEW pid \in ScanPids, ExitProcess(pid) PROVE ScanInv'
  BY <1>2, ExitKeeps
<1>3. CASE BeginScan
  BY <1>3, BeginKeeps
<1>4. CASE ReadStartBefore
  BY <1>4, BeforeKeeps
<1>5. CASE ReadCommandLine
  BY <1>5, CommandLineKeeps
<1>6. CASE ReadStartAfter
  BY <1>6, AfterKeeps
<1>7. CASE EndScan
  BY <1>7, EndKeeps
<1>8. CASE UNCHANGED scanVars
  BY <1>8 DEF scanVars, ScanInv, ScanTypes, ProcessesNoted, BeforeIsPast, EndpointOfProcess,
              FoundServes
<1> QED
  BY <1>1, <1>2, <1>3, <1>4, <1>5, <1>6, <1>7, <1>8 DEF ScanNext

-----------------------------------------------------------------------------
(* What is made of a scan.                                                 *)

\* A process was started with this identity to serve an endpoint of this key.
Served(identity, key, noted) ==
  \/ identity = None
  \/ \E endpoint \in Local : /\ Key[endpoint] = key
                             /\ <<identity.pid, identity.start_time, endpoint>> \in noted

\* The identity of a candidate is that of a process that served its endpoint.
LEMMA CandidateServed ==
  ASSUME ScanInv, scan # None, NEW c \in Range(scan.found)
  PROVE  Served(IdentityOf(c), Key[c.endpoint], ran)
<1>1. scan.found \in Seq(Found)
  BY DEF ScanInv, ScanTypes, ScanRecord
<1>2. c \in Found
  BY <1>1 DEF Range
<1>3. c.endpoint \in Local
  BY <1>2 DEF Found
<1>4. CASE c.pid = None \/ c.start = None
  BY <1>4 DEF IdentityOf, Served
<1>5. CASE c.pid # None /\ c.start # None
  <2>1. IdentityOf(c).pid = c.pid /\ IdentityOf(c).start_time = c.start
    BY <1>5 DEF IdentityOf
  <2>2. <<c.pid, c.start, c.endpoint>> \in ran
    BY <1>5 DEF ScanInv, FoundServes
  <2> QED
    BY <1>3, <2>1, <2>2 DEF Served
<1> QED
  BY <1>4, <1>5

\* The target of the header carries the identity of a candidate, or none.
LEMMA ResolvedServed ==
  ASSUME ScanInv, scan # None
  PROVE  LET target == resolve_monitor_target(config, scan.found)
         IN  Served(target.identity, Key[target.endpoint], ran)
<1> DEFINE candidates == collect_candidates(scan.found, config.server)
           endpoint == select_endpoint(candidates)
           C == Range(scan.found) \union {Configured(config.server)}
           identity == selected_endpoint_server(candidates, endpoint)
<1>1. scan.found \in Seq(Found) /\ \A c \in Found : c.endpoint \in DOMAIN Rank
  BY ScanAssumption DEF ScanInv, ScanTypes, ScanRecord, Found
<1>2. candidates \in Seq(C)
  BY <1>1, CandidateMembers
<1>3. /\ resolve_monitor_target(config, scan.found).endpoint = endpoint
      /\ resolve_monitor_target(config, scan.found).identity = identity
  BY DEF resolve_monitor_target
<1> HIDE DEF candidates, endpoint
<1>4. CASE ~ \E c \in Range(candidates) : c.endpoint = endpoint
  BY <1>3, <1>4 DEF selected_endpoint_server, Served
<1>5. CASE \E c \in Range(candidates) : c.endpoint = endpoint
  <2> DEFINE c == FirstOf(candidates, endpoint)
  <2>1. c \in Range(candidates) /\ c.endpoint = endpoint
    BY <1>2, <1>5, FirstOfMember
  <2>2. identity = IdentityOf(c)
    BY <1>5 DEF selected_endpoint_server
  <2> HIDE DEF c
  <2>3. c \in C
    BY <1>2, <2>1 DEF Range
  <2>4. CASE c \in Range(scan.found)
    BY <1>3, <2>1, <2>2, <2>4, CandidateServed
  <2>5. CASE c = Configured(config.server)
    BY <1>3, <2>2, <2>5 DEF IdentityOf, Configured, Served
  <2> QED
    BY <2>3, <2>4, <2>5
<1> QED
  BY <1>4, <1>5

\* So does every server of the list, under the key of the candidate's endpoint.
LEMMA ListedServed ==
  ASSUME ScanInv, scan # None
  PROVE  LET list == collect_server_list(config, scan.found)
         IN  \A spec \in Range(list.monitored) \union Range(list.overflow) :
               Served(spec.identity, spec.key, ran)
<1> DEFINE list == collect_server_list(config, scan.found)
<1>1. scan.found \in Seq(Found) /\ \A c \in Found : c.endpoint \in DOMAIN Rank
  BY ScanAssumption DEF ScanInv, ScanTypes, ScanRecord, Found
<1>2. config.servers \in Seq(DOMAIN Key)
  BY ScanAssumption DEF ScanInv, ScanTypes
<1>3. \A spec \in Range(list.monitored) \union Range(list.overflow) :
        Identified(spec, scan.found)
  BY <1>1, <1>2, CollectedLists
<1> HIDE DEF list
<1>4. ASSUME NEW spec \in Range(list.monitored) \union Range(list.overflow)
      PROVE  Served(spec.identity, spec.key, ran)
  <2>1. CASE spec.identity = None
    BY <2>1 DEF Served
  <2>2. CASE spec.identity # None
    <3>1. PICK c \in Range(scan.found) :
            spec.identity = IdentityOf(c) /\ spec.key = Key[c.endpoint]
      BY <1>3, <2>2 DEF Identified
    <3> QED
      BY <3>1, CandidateServed
  <2> QED
    BY <2>1, <2>2
<1> QED
  BY <1>4 DEF list

\* The property, with the noted processes as a parameter.
LEMMA IdentityIsServed ==
  IdentityServesEndpoint <=>
    /\ resolved # None => Served(resolved.identity, Key[resolved.endpoint], ran)
    /\ listed # None => \A spec \in Range(listed.monitored) \union Range(listed.overflow) :
                         Served(spec.identity, spec.key, ran)
BY DEF IdentityServesEndpoint, Served

\* Once noted, a process stays noted.
LEMMA RanGrows ==
  ASSUME ScanInv, [ScanNext]_scanVars
  PROVE  ran \subseteq ran'
BY DEF ScanNext, StartProcess, ExitProcess, BeginScan, ReadStartBefore, ReadCommandLine,
       ReadStartAfter, EndScan, scanVars

\* Whatever processes start and exit during a scan, the target of the header and
\* every listed server carry the identity of a process only if that very process
\* was started to serve an endpoint of that key (discover_processes, push_server,
\* resolve_monitor_target).
THEOREM IdentitySafe == ScanSpec => []IdentityServesEndpoint
<1> DEFINE Inv == ScanInv /\ IdentityServesEndpoint
<1>1. ScanInit => Inv
  <2> SUFFICES ASSUME ScanInit PROVE IdentityServesEndpoint
    BY ScanInvInit
  <2> QED
    BY IdentityIsServed DEF ScanInit
<1>2. Inv /\ [ScanNext]_scanVars => Inv'
  <2> SUFFICES ASSUME ScanInv, IdentityServesEndpoint, [ScanNext]_scanVars
               PROVE  IdentityServesEndpoint'
    BY ScanInvNext
  <2>1. ran \subseteq ran'
    BY RanGrows
  <2>2. \A identity, key : Served(identity, key, ran) => Served(identity, key, ran')
    BY <2>1 DEF Served
  <2>3. /\ resolved # None => Served(resolved.identity, Key[resolved.endpoint], ran)
        /\ listed # None => \A spec \in Range(listed.monitored) \union Range(listed.overflow) :
                             Served(spec.identity, spec.key, ran)
    BY IdentityIsServed
  <2>4. resolved' = resolved \/ resolved' = None
        \/ (scan # None /\ resolved' = resolve_monitor_target(config, scan.found))
    BY DEF ScanNext, StartProcess, ExitProcess, BeginScan, ReadStartBefore, ReadCommandLine,
           ReadStartAfter, EndScan, scanVars
  <2>5. listed' = listed \/ listed' = None
        \/ (scan # None /\ listed' = collect_server_list(config, scan.found))
    BY DEF ScanNext, StartProcess, ExitProcess, BeginScan, ReadStartBefore, ReadCommandLine,
           ReadStartAfter, EndScan, scanVars
  <2>6. resolved' # None => Served(resolved'.identity, Key[resolved'.endpoint], ran')
    BY <2>2, <2>3, <2>4, ResolvedServed
  <2>7. listed' # None => \A spec \in Range(listed'.monitored) \union Range(listed'.overflow) :
                           Served(spec.identity, spec.key, ran')
    BY <2>2, <2>3, <2>5, ListedServed
  <2> QED
    BY <2>6, <2>7 DEF IdentityServesEndpoint, Served
<1> QED
  BY <1>1, <1>2, PTL DEF ScanSpec
-----------------------------------------------------------------------------
(***************************************************************************)
(* The dialog.  The inductive invariant says that no two additional        *)
(* servers have the same key, in the dialog and in the settings, and that  *)
(* an entry that is edited stays in the list while its draft is open:      *)
(* without it a commit could replace another entry than the one it was     *)
(* begun for.                                                              *)
(***************************************************************************)

Texts == Drafts \union {EmptyText}

Pairwise(list) == \A i, j \in DOMAIN list : Key[list[i]] = Key[list[j]] => i = j

DialogFields ==
  {"help_open", "settings_open", "process_search_open", "server_selector_open", "field", "host",
   "original", "refresh", "auto_discovery", "servers", "index", "draft", "edit_index"}

\* An additional server that is being edited is one of the list, and stays so
\* until its draft is closed.
EditsAnEntry(d) ==
  d.edit_index # None => d.draft # None /\ d.edit_index \in DOMAIN d.servers

DialogGood(d) ==
  /\ DOMAIN d = DialogFields
  /\ d.servers \in Seq(Texts)
  /\ Pairwise(d.servers)
  /\ d.draft \in Texts \union {None}
  /\ EditsAnEntry(d)

SettingsGood(s) ==
  /\ DOMAIN s = {"server", "servers", "refresh", "auto_discovery"}
  /\ s.servers \in Seq(Texts)
  /\ Pairwise(s.servers)

DialogInv == DialogGood(dialog) /\ SettingsGood(settings)

\* An update that leaves the list and the draft alone.
LEMMA Untouched ==
  ASSUME NEW d, NEW e, DialogGood(d), DOMAIN e = DialogFields,
         e.servers = d.servers, e.draft = d.draft, e.edit_index = d.edit_index
  PROVE  DialogGood(e)
BY DEF DialogGood, EditsAnEntry

\* An update that closes the draft.
LEMMA DraftClosed ==
  ASSUME NEW d, NEW e, DialogGood(d), DOMAIN e = DialogFields,
         e.servers = d.servers, e.draft = None, e.edit_index = None
  PROVE  DialogGood(e)
BY DEF DialogGood, EditsAnEntry

\* No servers, no repeated key.
LEMMA EmptyPairwise == <<>> \in Seq(Texts) /\ Pairwise(<<>>)
BY DEF Pairwise

\* The dialog opens with the servers of the settings and without a draft.
LEMMA OpenGood ==
  ASSUME DialogInv
  PROVE  DialogGood(open_settings(dialog))
<1>1. DOMAIN dialog = DialogFields
  BY DEF DialogInv, DialogGood
<1> DEFINE e == open_settings(dialog)
<1>2. DOMAIN e = DialogFields
  BY <1>1 DEF open_settings
<1>3. e.servers = settings.servers /\ e.draft = None /\ e.edit_index = None
  BY <1>1 DEF open_settings, DialogFields
<1> HIDE DEF e
<1>4. DialogGood(e)
  BY <1>2, <1>3 DEF DialogInv, SettingsGood, DialogGood, EditsAnEntry
<1> QED
  BY <1>4 DEF e

\* The windows of the shell touch neither the list nor the draft, or close the
\* draft without a trace.
LEMMA ShellGood ==
  ASSUME NEW d, DialogGood(d)
  PROVE  /\ DialogGood(toggle_help(d)) /\ DialogGood(open_process_search(d))
         /\ DialogGood(open_server_selector(d)) /\ DialogGood(close_settings(d))
         /\ DialogGood([d EXCEPT !.help_open = FALSE])
         /\ DialogGood([d EXCEPT !.process_search_open = FALSE])
         /\ DialogGood([d EXCEPT !.server_selector_open = FALSE])
         /\ DialogGood([d EXCEPT !.draft = None, !.edit_index = None])
<1>1. DOMAIN d = DialogFields
  BY DEF DialogGood
<1>2. ASSUME NEW value PROVE DialogGood([d EXCEPT !.help_open = value])
  BY <1>1, Untouched DEF DialogFields
<1>3. DialogGood(toggle_help(d))
  <2> DEFINE e == toggle_help(d)
  <2>1. DOMAIN e = DialogFields /\ e.servers = d.servers /\ e.draft = d.draft
        /\ e.edit_index = d.edit_index
    BY <1>1 DEF toggle_help, DialogFields
  <2> QED
    BY <2>1, Untouched
<1>4. DialogGood(open_process_search(d)) /\ DialogGood(open_server_selector(d))
  BY <1>1, Untouched DEF open_process_search, open_server_selector, DialogFields
<1>5. DialogGood([d EXCEPT !.process_search_open = FALSE])
  BY <1>1, Untouched DEF DialogFields
<1>6. DialogGood([d EXCEPT !.server_selector_open = FALSE])
  BY <1>1, Untouched DEF DialogFields
<1>7. DialogGood(close_settings(d))
  BY <1>1, DraftClosed DEF close_settings, DialogFields
<1>8. DialogGood([d EXCEPT !.draft = None, !.edit_index = None])
  BY <1>1, DraftClosed DEF DialogFields
<1> QED
  BY <1>2, <1>3, <1>4, <1>5, <1>6, <1>7, <1>8

-----------------------------------------------------------------------------
(* The list of servers.                                                    *)

\* Removing an entry keeps the others, in their order.
LEMMA Removed ==
  ASSUME NEW S, NEW list \in Seq(S), NEW i \in DOMAIN list
  PROVE  /\ RemoveAt(list, i) \in Seq(S)
         /\ Len(RemoveAt(list, i)) = Len(list) - 1
         /\ \A j \in 1 .. (Len(list) - 1) :
              RemoveAt(list, i)[j] = IF j < i THEN list[j] ELSE list[j + 1]
<1> DEFINE n == Len(list)
           a == SubSeq(list, 1, i - 1)
           b == SubSeq(list, i + 1, n)
<1>1. n \in Nat /\ i \in 1 .. n /\ DOMAIN list = 1 .. n
  OBVIOUS
<1>2. \A j \in 1 .. n : list[j] \in S
  OBVIOUS
<1> HIDE DEF n
<1>3. /\ a \in Seq(S) /\ Len(a) = i - 1
      /\ \A j \in 1 .. (i - 1) : a[j] = list[j]
  <2>1. 1 \in Int /\ i - 1 \in Int /\ \A j \in 1 .. (i - 1) : list[j] \in S
    BY <1>1, <1>2
  <2>2. /\ a \in Seq(S) /\ Len(a) = IF 1 <= i - 1 THEN (i - 1) - 1 + 1 ELSE 0
        /\ \A j \in 1 .. ((i - 1) - 1 + 1) : a[j] = list[1 + j - 1]
    BY <2>1, SubSeqProperties
  <2>3. (i - 1) - 1 + 1 = i - 1 /\ \A j \in 1 .. (i - 1) : 1 + j - 1 = j
    BY <1>1
  <2> QED
    BY <1>1, <2>2, <2>3
<1>4. /\ b \in Seq(S) /\ Len(b) = n - i
      /\ \A j \in 1 .. (n - i) : b[j] = list[i + j]
  <2>1. i + 1 \in Int /\ n \in Int /\ \A j \in (i + 1) .. n : list[j] \in S
    BY <1>1, <1>2
  <2>2. /\ b \in Seq(S) /\ Len(b) = IF i + 1 <= n THEN n - (i + 1) + 1 ELSE 0
        /\ \A j \in 1 .. (n - (i + 1) + 1) : b[j] = list[(i + 1) + j - 1]
    BY <2>1, SubSeqProperties
  <2>3. n - (i + 1) + 1 = n - i /\ \A j \in 1 .. (n - i) : (i + 1) + j - 1 = i + j
    BY <1>1
  <2> QED
    BY <1>1, <2>2, <2>3
<1>5. RemoveAt(list, i) = a \o b
  BY DEF RemoveAt, n
<1> HIDE DEF a, b
<1>6. /\ a \o b \in Seq(S) /\ Len(a \o b) = Len(a) + Len(b)
      /\ \A j \in 1 .. (Len(a) + Len(b)) :
           (a \o b)[j] = IF j <= Len(a) THEN a[j] ELSE b[j - Len(a)]
  BY <1>3, <1>4, ConcatProperties
<1>7. Len(a) + Len(b) = n - 1
  BY <1>1, <1>3, <1>4
<1>8. ASSUME NEW j \in 1 .. (n - 1)
      PROVE  (a \o b)[j] = IF j < i THEN list[j] ELSE list[j + 1]
  <2>1. CASE j < i
    BY <1>1, <1>3, <1>6, <1>7, <2>1
  <2>2. CASE ~(j < i)
    <3>1. j - (i - 1) \in 1 .. (n - i) /\ i + (j - (i - 1)) = j + 1 /\ ~(j <= i - 1)
      BY <1>1, <2>2
    <3>2. (a \o b)[j] = b[j - (i - 1)]
      BY <1>3, <1>6, <1>7, <3>1
    <3>3. b[j - (i - 1)] = list[j + 1]
      BY <1>4, <3>1
    <3> QED
      BY <2>2, <3>2, <3>3
  <2> QED
    BY <2>1, <2>2
<1> QED
  BY <1>5, <1>6, <1>7, <1>8 DEF n

\* Removing an entry from a list without repeated keys repeats none, and keeps the
\* others.
LEMMA RemovedPairwise ==
  ASSUME NEW list \in Seq(Texts), Pairwise(list), NEW i \in DOMAIN list
  PROVE  /\ RemoveAt(list, i) \in Seq(Texts) /\ Pairwise(RemoveAt(list, i))
         /\ \A j \in DOMAIN list \ {i} : list[j] \in Range(RemoveAt(list, i))
<1> DEFINE left == RemoveAt(list, i)
           n == Len(list)
<1>1. n \in Nat /\ i \in 1 .. n /\ DOMAIN list = 1 .. n
  OBVIOUS
<1>2. /\ left \in Seq(Texts) /\ Len(left) = n - 1
      /\ \A j \in 1 .. (n - 1) : left[j] = IF j < i THEN list[j] ELSE list[j + 1]
  BY Removed
<1> HIDE DEF left, n
<1>3. DOMAIN left = 1 .. (n - 1)
  BY <1>1, <1>2
<1>4. Pairwise(left)
  <2> SUFFICES ASSUME NEW j \in 1 .. (n - 1), NEW k \in 1 .. (n - 1), Key[left[j]] = Key[left[k]]
               PROVE  j = k
    BY <1>3 DEF Pairwise
  <2> DEFINE at(x) == IF x < i THEN x ELSE x + 1
  <2>1. left[j] = list[at(j)] /\ left[k] = list[at(k)]
    BY <1>2
  <2>2. at(j) \in 1 .. n /\ at(k) \in 1 .. n
    BY <1>1
  <2>3. at(j) = at(k)
    BY <1>1, <2>1, <2>2 DEF Pairwise
  <2> QED
    BY <1>1, <2>3
<1>5. ASSUME NEW j \in DOMAIN list \ {i} PROVE list[j] \in Range(left)
  <2> DEFINE k == IF j < i THEN j ELSE j - 1
  <2>1. k \in 1 .. (n - 1) /\ (IF k < i THEN k ELSE k + 1) = j
    BY <1>1
  <2>2. left[k] = list[j]
    BY <1>1, <1>2, <2>1
  <2> QED
    BY <1>3, <2>1, <2>2 DEF Range
<1> QED
  BY <1>2, <1>4, <1>5 DEF left

\* Deleting an additional server.
LEMMA DeleteGood ==
  ASSUME NEW d, DialogGood(d), d.draft = None
  PROVE  DialogGood(settings_server_delete(d))
<1>1. CASE d.index \notin DOMAIN d.servers
  BY <1>1 DEF settings_server_delete
<1>2. CASE d.index \in DOMAIN d.servers
  <2> DEFINE left == RemoveAt(d.servers, d.index)
             e == settings_server_delete(d)
  <2>1. left \in Seq(Texts) /\ Pairwise(left)
    BY <1>2, RemovedPairwise DEF DialogGood
  <2>2. DOMAIN e = DialogFields /\ e.servers = left /\ e.draft = d.draft
        /\ e.edit_index = d.edit_index
    BY <1>2 DEF settings_server_delete, DialogGood, DialogFields
  <2> HIDE DEF e, left
  <2>3. DialogGood(e)
    BY <2>1, <2>2 DEF DialogGood, EditsAnEntry
  <2> QED
    BY <2>3 DEF e
<1> QED
  BY <1>1, <1>2

\* Committing a draft: an invalid or repeated one is refused, a valid one appended
\* or put in the place of the entry that is edited.
LEMMA CommitGood ==
  ASSUME NEW d, DialogGood(d), d.draft # None
  PROVE  DialogGood(settings_server_draft_commit(d))
<1> DEFINE e == settings_server_draft_commit(d)
           servers == IF d.edit_index # None THEN [d.servers EXCEPT ![d.edit_index] = d.draft]
                      ELSE Append(d.servers, d.draft)
<1>1. e = d \/ /\ ~find_duplicate(OtherEntries(d), d.draft)
               /\ e = [d EXCEPT !.servers = servers, !.index = Or(d.edit_index, Len(servers)),
                                !.draft = None, !.edit_index = None]
  BY DEF settings_server_draft_commit
<1>2. CASE e = d
  BY <1>2
<1>3. CASE /\ ~find_duplicate(OtherEntries(d), d.draft)
           /\ e = [d EXCEPT !.servers = servers, !.index = Or(d.edit_index, Len(servers)),
                            !.draft = None, !.edit_index = None]
  <2>1. d.servers \in Seq(Texts) /\ Pairwise(d.servers) /\ d.draft \in Texts
    BY DEF DialogGood
  <2>2. \A text \in Range(OtherEntries(d)) : Key[text] # Key[d.draft]
    BY <1>3 DEF find_duplicate, SharesIdentity
  <2>3. servers \in Seq(Texts) /\ Pairwise(servers)
    <3>1. CASE d.edit_index # None
      <4>1. d.edit_index \in DOMAIN d.servers
        BY <3>1 DEF DialogGood, EditsAnEntry
      <4>2. \A j \in DOMAIN d.servers \ {d.edit_index} : Key[d.servers[j]] # Key[d.draft]
        BY <2>1, <2>2, <3>1, <4>1, RemovedPairwise DEF OtherEntries
      <4>3. servers = [d.servers EXCEPT ![d.edit_index] = d.draft]
        BY <3>1
      <4> QED
        BY <2>1, <4>1, <4>2, <4>3 DEF Pairwise
    <3>2. CASE d.edit_index = None
      <4>1. \A j \in DOMAIN d.servers : Key[d.servers[j]] # Key[d.draft]
        BY <2>2, <3>2 DEF OtherEntries, Range
      <4>2. servers = Append(d.servers, d.draft)
        BY <3>2
      <4> HIDE DEF servers
      <4>3. /\ servers \in Seq(Texts) /\ Len(servers) = Len(d.servers) + 1
            /\ \A j \in 1 .. Len(d.servers) : servers[j] = d.servers[j]
            /\ servers[Len(d.servers) + 1] = d.draft
        BY <2>1, <4>2, AppendProperties
      <4>4. /\ DOMAIN servers = 1 .. (Len(d.servers) + 1) /\ Len(d.servers) \in Nat
            /\ DOMAIN d.servers = 1 .. Len(d.servers)
        BY <2>1, <4>3
      <4>5. \A j \in DOMAIN servers :
              \/ /\ j \in DOMAIN d.servers /\ servers[j] = d.servers[j]
                 /\ Key[servers[j]] # Key[d.draft]
              \/ j = Len(d.servers) + 1 /\ servers[j] = d.draft
        BY <4>1, <4>3, <4>4
      <4>6. Pairwise(d.servers)
        BY DEF DialogGood
      <4>7. Pairwise(servers)
        BY <4>5, <4>6 DEF Pairwise
      <4> QED
        BY <4>3, <4>7
    <3> QED
      BY <3>1, <3>2
  <2> HIDE DEF servers
  <2>4. DOMAIN e = DialogFields /\ e.servers = servers /\ e.draft = None /\ e.edit_index = None
    BY <1>3 DEF DialogGood, DialogFields
  <2> HIDE DEF e
  <2>5. DialogGood(e)
    BY <2>3, <2>4 DEF DialogGood, EditsAnEntry
  <2> QED
    BY <2>5 DEF e
<1> QED
  BY <1>1, <1>2, <1>3

\* Editing another field.
LEMMA FieldGood ==
  ASSUME NEW d, DialogGood(d)
  PROVE  /\ \A value : DialogGood([d EXCEPT !.field = value])
         /\ \A value : DialogGood([d EXCEPT !.host = value])
         /\ \A value : DialogGood([d EXCEPT !.refresh = value])
         /\ \A value : DialogGood([d EXCEPT !.auto_discovery = value])
         /\ \A value : DialogGood([d EXCEPT !.index = value])
<1>1. DOMAIN d = DialogFields
  BY DEF DialogGood
<1>2. ASSUME NEW value PROVE DialogGood([d EXCEPT !.field = value])
  BY <1>1, Untouched DEF DialogFields
<1>3. ASSUME NEW value PROVE DialogGood([d EXCEPT !.host = value])
  BY <1>1, Untouched DEF DialogFields
<1>4. ASSUME NEW value PROVE DialogGood([d EXCEPT !.refresh = value])
  BY <1>1, Untouched DEF DialogFields
<1>5. ASSUME NEW value PROVE DialogGood([d EXCEPT !.auto_discovery = value])
  BY <1>1, Untouched DEF DialogFields
<1>6. ASSUME NEW value PROVE DialogGood([d EXCEPT !.index = value])
  BY <1>1, Untouched DEF DialogFields
<1> QED
  BY <1>2, <1>3, <1>4, <1>5, <1>6

\* Beginning to add or to edit an additional server.
LEMMA BeginGood ==
  ASSUME NEW d, DialogGood(d), d.draft = None
  PROVE  DialogGood(settings_server_begin_add(d)) /\ DialogGood(settings_server_begin_edit(d))
<1>1. DOMAIN d = DialogFields /\ d.servers \in Seq(Texts) /\ Pairwise(d.servers)
  BY DEF DialogGood
<1>2. DialogGood(settings_server_begin_add(d))
  <2> DEFINE e == settings_server_begin_add(d)
  <2>1. DOMAIN e = DialogFields /\ e.servers = d.servers /\ e.draft = EmptyText
        /\ e.edit_index = None
    BY <1>1 DEF settings_server_begin_add, DialogFields
  <2> HIDE DEF e
  <2>2. DialogGood(e)
    BY <1>1, <2>1 DEF DialogGood, EditsAnEntry, Texts
  <2> QED
    BY <2>2 DEF e
<1>3. CASE d.index \notin DOMAIN d.servers
  BY <1>2, <1>3 DEF settings_server_begin_edit
<1>4. CASE d.index \in DOMAIN d.servers
  <2> DEFINE e == settings_server_begin_edit(d)
  <2>1. DOMAIN e = DialogFields /\ e.servers = d.servers /\ e.draft = d.servers[d.index]
        /\ e.edit_index = d.index
    BY <1>1, <1>4 DEF settings_server_begin_edit, DialogFields
  <2>2. d.servers[d.index] \in Texts /\ d.servers[d.index] # None
    BY <1>1, <1>4, DialogAssumption DEF Texts
  <2> HIDE DEF e
  <2>3. DialogGood(e)
    BY <1>1, <1>4, <2>1, <2>2 DEF DialogGood, EditsAnEntry
  <2> QED
    BY <1>2, <2>3 DEF e
<1> QED
  BY <1>3, <1>4

-----------------------------------------------------------------------------
(* The keys.                                                               *)

\* The dialog as the program starts.
LEMMA DialogInvInit == DialogInit => DialogInv
<1> SUFFICES ASSUME DialogInit PROVE DialogInv
  OBVIOUS
<1>1. DOMAIN dialog = DialogFields /\ dialog.servers = <<>> /\ dialog.draft = None
      /\ dialog.edit_index = None
  BY DEF DialogInit, DialogFields
<1>2. DialogGood(dialog)
  BY <1>1, EmptyPairwise DEF DialogGood, EditsAnEntry
<1>3. DOMAIN settings = {"server", "servers", "refresh", "auto_discovery"}
      /\ settings.servers = <<>>
  BY DEF DialogInit
<1>4. SettingsGood(settings)
  BY <1>3, EmptyPairwise DEF SettingsGood
<1> QED
  BY <1>2, <1>4 DEF DialogInv

\* Every step keeps the invariant, one case for each action.
LEMMA DialogInvNext == DialogInv /\ [DialogNext]_dialogVars => DialogInv'
<1> SUFFICES ASSUME DialogInv, [DialogNext]_dialogVars PROVE DialogInv'
  OBVIOUS
<1>g. DialogGood(dialog) /\ SettingsGood(settings)
  BY DEF DialogInv
<1>p. ASSUME NEW next, Press(next), DialogGood(next) PROVE DialogInv'
  BY <1>p, <1>g DEF Press, DialogInv
<1>1. CASE DashboardKey
  <2>1. \/ Press(open_server_selector(dialog)) \/ Press(open_process_search(dialog))
        \/ Press(toggle_help(dialog)) \/ Press(open_settings(dialog))
        \/ Press([dialog EXCEPT !.help_open = FALSE])
    BY <1>1 DEF DashboardKey
  <2> QED
    BY <1>g, <1>p, <2>1, OpenGood, ShellGood
<1>2. CASE RefreshKey
  <2>1. PICK value \in InRange :
          settings' = [settings EXCEPT !.refresh = value] /\ dialog' = dialog
    BY <1>2 DEF RefreshKey
  <2>2. DOMAIN settings' = DOMAIN settings /\ settings'.servers = settings.servers
    BY <1>g, <2>1 DEF SettingsGood
  <2>3. SettingsGood(settings')
    BY <1>g, <2>2 DEF SettingsGood
  <2> QED
    BY <1>g, <2>1, <2>3 DEF DialogInv
<1>3. CASE LeaveSearchKey \/ LeaveSelectorKey \/ CancelKey
  BY <1>3, <1>g, <1>p, ShellGood DEF LeaveSearchKey, LeaveSelectorKey, CancelKey
<1>4. CASE DraftKey
  <2>1. dialog.draft # None
    BY <1>4 DEF DraftKey, Editing
  <2>2. ASSUME NEW text \in Drafts PROVE DialogGood([dialog EXCEPT !.draft = text])
    <3> DEFINE e == [dialog EXCEPT !.draft = text]
    <3>1. DOMAIN e = DialogFields /\ e.servers = dialog.servers /\ e.draft = text
          /\ e.edit_index = dialog.edit_index
      BY <1>g DEF DialogGood, DialogFields
    <3>2. text # None /\ text \in Texts
      BY DialogAssumption DEF Texts
    <3> HIDE DEF e
    <3>3. DialogGood(e)
      BY <1>g, <3>1, <3>2 DEF DialogGood, EditsAnEntry
    <3> QED
      BY <3>3 DEF e
  <2>3. \/ \E text \in Drafts : Press([dialog EXCEPT !.draft = text])
        \/ Press([dialog EXCEPT !.draft = None, !.edit_index = None])
        \/ Press(settings_server_draft_commit(dialog))
    BY <1>4 DEF DraftKey
  <2> QED
    BY <1>g, <1>p, <2>1, <2>2, <2>3, CommitGood, ShellGood
<1>5. CASE MoveFieldKey
  <2>1. PICK step \in {-1, 1} : \/ Press([dialog EXCEPT !.field = Neighbour(@, step)])
                                \/ Press(settings_server_step(dialog, step))
    BY <1>5 DEF MoveFieldKey
  <2>2. \A value : DialogGood([dialog EXCEPT !.field = value])
                   /\ DialogGood([dialog EXCEPT !.index = value])
    BY <1>g, FieldGood
  <2>3. DialogGood(settings_server_step(dialog, step))
    BY <2>2 DEF settings_server_step
  <2> QED
    BY <1>p, <2>1, <2>2, <2>3
<1>6. CASE ListKey
  <2>1. dialog.draft = None
    BY <1>6 DEF ListKey, Choosing
  <2> QED
    BY <1>6, <1>g, <1>p, <2>1, BeginGood, DeleteGood DEF ListKey
<1>7. CASE EditFieldKey
  <2>1. \E value : \/ Press([dialog EXCEPT !.host = value])
                   \/ Press([dialog EXCEPT !.refresh = value])
                   \/ Press([dialog EXCEPT !.auto_discovery = value])
    BY <1>7 DEF EditFieldKey
  <2> QED
    BY <1>g, <1>p, <2>1, FieldGood
<1>8. CASE SaveKey
  <2>1. /\ settings_config(dialog) # None /\ settings' = settings_config(dialog)
        /\ dialog' = close_settings(dialog)
    BY <1>8 DEF SaveKey
  <2>2. DOMAIN settings' = {"server", "servers", "refresh", "auto_discovery"}
        /\ settings'.servers = dialog.servers
    BY <2>1 DEF settings_config
  <2>3. SettingsGood(settings')
    BY <1>g, <2>2 DEF SettingsGood, DialogGood
  <2> QED
    BY <1>g, <2>1, <2>3, ShellGood DEF DialogInv
<1>9. CASE UNCHANGED dialogVars
  BY <1>9, <1>g DEF dialogVars, DialogInv
<1> QED
  BY <1>1, <1>2, <1>3, <1>4, <1>5, <1>6, <1>7, <1>8, <1>9 DEF DialogNext

\* A list without repeated keys is all that the agreement of the marks needs:
\* FlagsAgree, for the settings that the dialog would apply.
LEMMA GoodPredicts == DialogInv => FlagsPredictMonitoring
<1> SUFFICES ASSUME DialogInv PROVE FlagsPredictMonitoring
  OBVIOUS
<1>1. DialogGood(dialog)
  BY DEF DialogInv
<1>2. \A i, j \in DOMAIN dialog.servers : Key[dialog.servers[i]] = Key[dialog.servers[j]] => i = j
  BY <1>1 DEF DialogGood, Pairwise
<1>3. ASSUME NEW found \in Candidates, NEW saved, saved.servers \in Seq(Texts),
             saved.server # None, NEW i \in DOMAIN saved.servers
      PROVE  monitored_flags(saved.server, saved.servers)[i] =
               \E spec \in Range(collect_server_list(saved, found).monitored) :
                 spec.key = Key[saved.servers[i]]
  <2> DEFINE C == Range(found)
  <2>1. found \in Seq(C) /\ \A c \in C : c.endpoint \in DOMAIN Rank
    BY DialogAssumption
  <2>2. monitored_flags(saved.server, saved.servers)[i] \in BOOLEAN
    BY DEF monitored_flags
  <2> HIDE DEF C
  <2>3. MarkIsRight(saved, found, i)
    BY <1>3, <2>1, FlagsAgree
  <2> QED
    BY <2>2, <2>3 DEF MarkIsRight
<1>4. settings_config(dialog) # None =>
        /\ settings_config(dialog).server # None
        /\ settings_config(dialog).servers \in Seq(Texts)
  BY <1>1 DEF settings_config, DialogGood
<1> QED
  BY <1>2, <1>3, <1>4 DEF FlagsPredictMonitoring

\* Through any sequence of adding, editing in place, deleting and saving, the
\* additional servers stay pairwise distinct as servers, and the marks of the list
\* tell which of them would be monitored if the dialog were saved now
\* (settings_server_draft_commit, monitored_flags, collect_server_list).
THEOREM FlagsSafe == DialogSpec => []FlagsPredictMonitoring
<1>1. DialogSpec => []DialogInv
  BY DialogInvInit, DialogInvNext, PTL DEF DialogSpec
<1> QED
  BY <1>1, GoodPredicts, PTL
==============================================================================
