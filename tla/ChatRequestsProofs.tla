-------------------------- MODULE ChatRequestsProofs --------------------------
(***************************************************************************)
(* Proofs about ChatRequests, for any clients, requests and capacity: the  *)
(* two structures of the sticky cache stay one cache within its capacity;  *)
(* what trimming drops stays dropped and what it leaves is whole, for      *)
(* histories of any length; a follow-up extends the prompt before it; and  *)
(* no prompt shows a memory twice.                                         *)
(***************************************************************************)
EXTENDS ChatRequests, FiniteSetTheorems, WellFoundedInduction, TLAPS

\* The list enumerates the keys of the map.
Enumerates(list, keys) ==
    /\ list \in Seq(keys)
    /\ \A i, j \in 1..Len(list) : list[i] = list[j] => i = j
    /\ \A k \in keys : \E i \in 1..Len(list) : list[i] = k

CacheInv == Enumerates(lru, DOMAIN entries) /\ Len(lru) <= Capacity

-----------------------------------------------------------------------------
(* Lists of keys *)

LEMMA PrefixOfList ==
    ASSUME NEW S, NEW s \in Seq(S), NEW m \in 0..Len(s)
    PROVE  /\ Len(SubSeq(s, 1, m)) = m
           /\ \A i \in 1..m : SubSeq(s, 1, m)[i] = s[i]
  OBVIOUS

\* A list that enumerates a set is as long as the set is large.
LEMMA EnumeratedSize ==
    ASSUME NEW list, NEW keys, Enumerates(list, keys)
    PROVE  IsFiniteSet(keys) /\ Cardinality(keys) = Len(list)
<1>1. Len(list) \in Nat /\ list \in [1..Len(list) -> keys]
  BY DEF Enumerates
<1>2. list \in Bijection(1..Len(list), keys)
  BY <1>1 DEF Enumerates, Bijection, Injection, Surjection, IsInjective
<1>3. ExistsBijection(1..Len(list), keys)
  BY <1>2 DEF ExistsBijection
<1>4. IsFiniteSet(1..Len(list)) /\ Cardinality(1..Len(list)) = Len(list)
  BY <1>1, FS_Interval
<1>5. QED
  BY <1>3, <1>4, FS_Bijection

\* splice: a key of the list comes to its front, and nothing else changes.
LEMMA ToFrontEnumerates ==
    ASSUME NEW k, NEW keys, Enumerates(lru, keys), k \in keys
    PROVE  Enumerates(ToFront(k), keys) /\ Len(ToFront(k)) = Len(lru)
<1> DEFINE n == Len(lru)
           p == CHOOSE i \in DOMAIN lru : lru[i] = k
           front == ToFront(k)
<1>1. n \in Nat /\ DOMAIN lru = 1..n /\ lru \in Seq(keys)
  BY DEF Enumerates
<1>2. p \in 1..n /\ lru[p] = k
  BY <1>1 DEF Enumerates
<1>3. front = <<k>> \o SubSeq(lru, 1, p - 1) \o SubSeq(lru, p + 1, n)
  BY DEF ToFront
<1>4. /\ SubSeq(lru, 1, p - 1) \in Seq(keys) /\ Len(SubSeq(lru, 1, p - 1)) = p - 1
      /\ \A i \in 1..(p - 1) : SubSeq(lru, 1, p - 1)[i] = lru[i]
  BY <1>1, <1>2
<1>5. /\ SubSeq(lru, p + 1, n) \in Seq(keys) /\ Len(SubSeq(lru, p + 1, n)) = n - p
      /\ \A i \in 1..(n - p) : SubSeq(lru, p + 1, n)[i] = lru[p + i]
  BY <1>1, <1>2
<1>6. <<k>> \in Seq(keys) /\ Len(<<k>>) = 1 /\ <<k>>[1] = k
  OBVIOUS
<1>7. /\ front \in Seq(keys) /\ Len(front) = n
      /\ \A i \in 1..n : front[i] = IF i = 1 THEN k
                                    ELSE IF i <= p THEN lru[i - 1] ELSE lru[i]
  <2> DEFINE before == SubSeq(lru, 1, p - 1)
             after == SubSeq(lru, p + 1, n)
             head == <<k>> \o before
  <2>1. /\ head \in Seq(keys) /\ Len(head) = p
        /\ \A i \in 1..p : head[i] = IF i = 1 THEN k ELSE before[i - 1]
    BY <1>1, <1>2, <1>4
  <2>2. \A i \in 1..p : head[i] = IF i = 1 THEN k ELSE lru[i - 1]
    BY <1>1, <1>2, <1>4, <2>1
  <2> HIDE DEF before, after, head, front, p, n
  <2>3. front = head \o after
    BY <1>3 DEF before, after, head, front
  <2>4. /\ after \in Seq(keys) /\ Len(after) = n - p
        /\ \A i \in 1..(n - p) : after[i] = lru[p + i]
    BY <1>5 DEF after
  <2>5. front \in Seq(keys) /\ Len(front) = n
    <3>1. head \o after \in Seq(keys) /\ Len(head \o after) = Len(head) + Len(after)
      BY <2>1, <2>4
    <3>2. n \in Nat /\ p \in 1..n
      BY <1>1, <1>2
    <3>3. QED
      BY <2>1, <2>3, <2>4, <3>1, <3>2
  <2>6. \A i \in 1..n : front[i] = IF i <= p THEN head[i] ELSE after[i - p]
    BY <1>1, <1>2, <2>1, <2>3, <2>4
  <2>7. \A i \in 1..n : ~ (i <= p) => after[i - p] = lru[i]
    BY <1>1, <1>2, <2>4
  <2>8. QED
    BY <1>1, <1>2, <2>2, <2>5, <2>6, <2>7
<1> HIDE DEF p, front
<1>a. \A i, j \in 1..n : lru[i] = lru[j] => i = j
  BY DEF Enumerates
<1> HIDE DEF n
<1>8. \A i, j \in 1..n : front[i] = front[j] => i = j
  <2> SUFFICES ASSUME NEW i \in 1..n, NEW j \in 1..n, front[i] = front[j], i < j
               PROVE FALSE
    BY <1>1
  <2> DEFINE from(x) == IF x = 1 THEN p ELSE IF x <= p THEN x - 1 ELSE x
  <2>1. \A x \in 1..n : from(x) \in 1..n /\ front[x] = lru[from(x)]
    BY <1>1, <1>2, <1>7
  <2>2. from(i) # from(j)
    BY <1>1, <1>2
  <2>3. from(i) \in 1..n /\ from(j) \in 1..n /\ lru[from(i)] = lru[from(j)]
    BY <2>1
  <2> HIDE DEF from
  <2>4. QED
    BY <1>a, <2>2, <2>3
<1>9. ASSUME NEW x \in keys PROVE \E i \in 1..n : front[i] = x
  <2>1. PICK i \in 1..n : lru[i] = x
    BY DEF Enumerates, n
  <2>2. CASE i < p
    BY <1>1, <1>2, <1>7, <2>1, <2>2
  <2>3. CASE i = p
    BY <1>1, <1>2, <1>7, <2>1, <2>3
  <2>4. CASE i > p
    BY <1>1, <1>2, <1>7, <2>1, <2>4
  <2>5. QED
    BY <1>1, <1>2, <2>1, <2>2, <2>3, <2>4
<1>10. QED
  BY <1>7, <1>8, <1>9 DEF Enumerates, front, n

\* push_front of a key that the list has not.
LEMMA PushEnumerates ==
    ASSUME NEW k, NEW keys, Enumerates(lru, keys), k \notin keys
    PROVE  /\ Enumerates(<<k>> \o lru, keys \cup {k})
           /\ Len(<<k>> \o lru) = Len(lru) + 1
<1> DEFINE n == Len(lru)
           list == <<k>> \o lru
<1>1. n \in Nat /\ lru \in Seq(keys) /\ lru \in Seq(keys \cup {k})
  BY DEF Enumerates
<1>2. /\ list \in Seq(keys \cup {k}) /\ Len(list) = n + 1
      /\ \A i \in 1..(n + 1) : list[i] = IF i = 1 THEN k ELSE lru[i - 1]
  BY <1>1
<1>3. \A i \in 1..n : lru[i] \in keys
  BY <1>1
<1>a. \A i, j \in 1..n : lru[i] = lru[j] => i = j
  BY DEF Enumerates
<1> HIDE DEF list, n
<1>4. \A i, j \in 1..(n + 1) : list[i] = list[j] => i = j
  <2> SUFFICES ASSUME NEW i \in 1..(n + 1), NEW j \in 1..(n + 1),
                      list[i] = list[j], i < j
               PROVE FALSE
    BY <1>1
  <2>1. j - 1 \in 1..n /\ list[j] = lru[j - 1]
    BY <1>1, <1>2
  <2>2. CASE i = 1
    BY <1>1, <1>2, <1>3, <2>1, <2>2
  <2>3. CASE i # 1
    <3>1. i - 1 \in 1..n /\ list[i] = lru[i - 1]
      BY <1>1, <1>2, <2>3
    <3>2. QED
      BY <1>1, <1>a, <2>1, <3>1
  <2>4. QED
    BY <2>2, <2>3
<1>5. ASSUME NEW x \in keys \cup {k} PROVE \E i \in 1..(n + 1) : list[i] = x
  <2>1. CASE x = k
    BY <1>1, <1>2, <2>1
  <2>2. CASE x \in keys
    <3>1. PICK i \in 1..n : lru[i] = x
      BY <2>2 DEF Enumerates, n
    <3>2. i + 1 \in 1..(n + 1) /\ list[i + 1] = x
      BY <1>1, <1>2, <3>1
    <3>3. QED
      BY <3>2
  <2>3. QED
    BY <2>1, <2>2
<1>6. QED
  BY <1>2, <1>4, <1>5 DEF Enumerates, list, n

\* pop_back, with the erasure of the key that was at the back.
LEMMA PopEnumerates ==
    ASSUME NEW list, NEW keys, Enumerates(list, keys), Len(list) >= 1
    PROVE  /\ Enumerates(SubSeq(list, 1, Len(list) - 1), keys \ {list[Len(list)]})
           /\ Len(SubSeq(list, 1, Len(list) - 1)) = Len(list) - 1
<1> DEFINE n == Len(list)
           short == SubSeq(list, 1, n - 1)
           rest == keys \ {list[n]}
<1>1. n \in Nat \ {0} /\ list \in Seq(keys)
  BY DEF Enumerates
<1>a. \A i, j \in 1..n : list[i] = list[j] => i = j
  BY DEF Enumerates
<1>2. Len(short) = n - 1 /\ \A i \in 1..(n - 1) : short[i] = list[i]
  <2>1. n - 1 \in 0..Len(list)
    BY <1>1
  <2>2. QED
    BY <1>1, <2>1, PrefixOfList
<1>3. \A i \in 1..(n - 1) : list[i] \in rest
  BY <1>1, <1>a
<1>4. short \in Seq(rest)
  BY <1>1, <1>3
<1> HIDE DEF short, n
<1>5. \A i, j \in 1..(n - 1) : short[i] = short[j] => i = j
  BY <1>1, <1>a, <1>2
<1>6. ASSUME NEW x \in rest PROVE \E i \in 1..(n - 1) : short[i] = x
  <2>1. PICK i \in 1..n : list[i] = x
    BY DEF Enumerates, n
  <2>2. i # n
    BY <2>1
  <2>3. QED
    BY <1>1, <1>2, <2>1, <2>2
<1>7. QED
  BY <1>2, <1>4, <1>5, <1>6 DEF Enumerates, short, n

-----------------------------------------------------------------------------
(* The operations of the cache *)

LEMMA GetKeeps ==
    ASSUME CacheInv, NEW k, CacheGet(k)
    PROVE  CacheInv'
<1>1. CASE k \in DOMAIN entries
  BY <1>1, ToFrontEnumerates DEF CacheInv, CacheGet
<1>2. CASE k \notin DOMAIN entries
  BY <1>2 DEF CacheInv, CacheGet
<1>3. QED
  BY <1>1, <1>2

LEMMA PutKeeps ==
    ASSUME CacheInv, NEW k, NEW entry, CachePut(k, entry)
    PROVE  CacheInv'
<1> DEFINE keys == DOMAIN entries
           n == Len(lru)
<1>1. Capacity \in Nat /\ n \in Nat /\ n <= Capacity
  BY RequestAssumption DEF CacheInv, Enumerates
<1>2. CASE k \in keys
  <2>1. keys \cup {k} = keys
    BY <1>2
  <2>2. lru' = ToFront(k) /\ DOMAIN entries' = keys
    BY <1>2, <2>1 DEF CachePut
  <2>3. QED
    BY <1>2, <2>2, ToFrontEnumerates DEF CacheInv
<1>3. CASE k \notin keys
  <2> DEFINE list == <<k>> \o lru
             all == keys \cup {k}
  <2>1. Enumerates(list, all) /\ Len(list) = n + 1
    BY <1>3, PushEnumerates DEF CacheInv
  <2>2. Cardinality(all) = n + 1
    BY <2>1, EnumeratedSize
  <2> HIDE DEF list
  <2>3. CASE n + 1 > Capacity
    <3>1. /\ lru' = SubSeq(list, 1, Len(list) - 1)
          /\ DOMAIN entries' = all \ {list[Len(list)]}
      BY <1>3, <2>2, <2>3 DEF CachePut, list
    <3>2. Enumerates(lru', DOMAIN entries') /\ Len(lru') = n
      BY <1>1, <2>1, <3>1, PopEnumerates
    <3>3. QED
      BY <1>1, <3>2 DEF CacheInv
  <2>4. CASE ~ (n + 1 > Capacity)
    <3>1. lru' = list /\ DOMAIN entries' = all
      BY <1>3, <2>2, <2>4 DEF CachePut, list
    <3>2. QED
      BY <1>1, <2>1, <2>4, <3>1 DEF CacheInv
  <2>5. QED
    BY <2>3, <2>4
<1>4. QED
  BY <1>2, <1>3

-----------------------------------------------------------------------------

LEMMA InitCache == Init => CacheInv
<1> SUFFICES ASSUME Init PROVE CacheInv
  OBVIOUS
<1>1. lru = <<>> /\ entries = <<>> /\ Capacity \in Nat
  BY RequestAssumption DEF Init
<1>2. DOMAIN entries = {}
  BY <1>1
<1>3. QED
  BY <1>1, <1>2 DEF CacheInv, Enumerates

LEMMA NextCache == CacheInv /\ [Next]_vars => CacheInv'
<1> SUFFICES ASSUME CacheInv, [Next]_vars PROVE CacheInv'
  OBVIOUS
<1>1. UNCHANGED <<lru, entries>> => CacheInv'
  BY DEF CacheInv
<1>2. CASE UNCHANGED vars \/ \E m \in Memories : Purge(m)
  BY <1>1, <1>2 DEF vars, Purge, cacheVars
<1>3. ASSUME NEW c \in Clients, Ask(c) \/ ToolResult(c) PROVE CacheInv'
  BY <1>1, <1>3 DEF Ask, ToolResult, Says, cacheVars
<1>4. ASSUME NEW c \in Clients, Rewind(c) PROVE CacheInv'
  BY <1>1, <1>4 DEF Rewind, cacheVars
<1>5. ASSUME NEW c \in Clients, Receive(c) \/ Refuse(c) PROVE CacheInv'
  BY <1>1, <1>5 DEF Receive, Refuse, cacheVars
<1>6. ASSUME NEW c \in Clients, Lookup(c) PROVE CacheInv'
  <2>1. PICK k : CacheGet(k)
    BY <1>6 DEF Lookup
  <2>2. QED
    BY <2>1, GetKeeps
<1>7. ASSUME NEW c \in Clients, InjectNothing(c) PROVE CacheInv'
  <2>1. CASE Sticky
    BY <1>7, <2>1, PutKeeps DEF InjectNothing, Remember
  <2>2. CASE ~ Sticky
    BY <1>1, <1>7, <2>2 DEF InjectNothing, cacheVars
  <2>3. QED
    BY <2>1, <2>2
<1>8. ASSUME NEW c \in Clients, InjectMemories(c) PROVE CacheInv'
  <2>1. CASE Sticky
    <3>1. PICK hits : Remember(c, hits)
      BY <1>8, <2>1 DEF InjectMemories
    <3>2. QED
      BY <3>1, PutKeeps DEF Remember
  <2>2. CASE ~ Sticky
    BY <1>1, <1>8, <2>2 DEF InjectMemories, cacheVars
  <2>3. QED
    BY <2>1, <2>2
<1>9. ASSUME NEW c \in Clients, InjectFacts(c) PROVE CacheInv'
  BY <1>1, <1>9 DEF InjectFacts, cacheVars
<1>10. ASSUME NEW c \in Clients, Answer(c) \/ Unreachable(c) PROVE CacheInv'
  BY <1>1, <1>10 DEF Answer, Unreachable, cacheVars
<1>11. QED
  BY <1>2, <1>3, <1>4, <1>5, <1>6, <1>7, <1>8, <1>9, <1>10
  DEF Next, RequestStep

LEMMA CacheInvImplies == CacheInv => CacheIsOne
<1> SUFFICES ASSUME CacheInv PROVE CacheIsOne
  OBVIOUS
<1>1. lru \in Seq(DOMAIN entries) /\ Len(lru) \in Nat /\ DOMAIN lru = 1..Len(lru)
  BY DEF CacheInv, Enumerates
<1>2. IsInjective(lru)
  BY <1>1 DEF CacheInv, Enumerates, IsInjective
<1>3. Range(lru) = DOMAIN entries
  <2>1. \A i \in DOMAIN lru : lru[i] \in DOMAIN entries
    BY <1>1
  <2>2. \A k \in DOMAIN entries : \E i \in DOMAIN lru : lru[i] = k
    BY <1>1 DEF CacheInv, Enumerates
  <2>3. QED
    BY <2>1, <2>2, Zenon DEF Range
<1>4. QED
  BY <1>2, <1>3 DEF CacheIsOne, CacheInv

\* However many handlers read and write it, the sticky cache's list names each of
\* its entries once and nothing else, and holds no more than --sticky-cache-entries
\* (sticky.cpp:60-85), zero included.
THEOREM CacheIsOneEver == Spec => []CacheIsOne
<1>1. Spec => []CacheInv
  BY InitCache, NextCache, PTL DEF Spec
<1>2. QED
  BY <1>1, CacheInvImplies, PTL

-----------------------------------------------------------------------------
(* Induction, with a set of numbers for the predicate *)

LEMMA LeastNumber ==
    ASSUME NEW T \in SUBSET Nat, T # {}
    PROVE  \E m \in T : \A k \in T : m <= k
<1>1. PICK m \in T : \A k \in T : <<k, m>> \notin OpToRel(<, Nat)
  BY NatLessThanWellFounded, WFMin
<1>2. \A k \in T : ~(k < m)
  BY <1>1 DEF OpToRel
<1> QED
  BY <1>2

LEMMA AllNumbers ==
    ASSUME NEW S, 0 \in S, \A n \in Nat : n \in S => n + 1 \in S
    PROVE  Nat \subseteq S
<1> SUFFICES ASSUME Nat \ S # {} PROVE FALSE
  OBVIOUS
<1>1. PICK m \in Nat \ S : \A k \in Nat \ S : m <= k
  BY LeastNumber
<1>2. m - 1 \in Nat /\ m - 1 \notin Nat \ S
  BY <1>1
<1> QED
  BY <1>1, <1>2

-----------------------------------------------------------------------------
(* What messages weigh together *)

Weight(messages, j) == Size[messages[j].content]
Weigh(messages, S) == MapThenSumSet(LAMBDA j : Size[messages[j].content], S)

Sized(messages, S) == IsFiniteSet(S) /\ \A j \in S : Weight(messages, j) \in Nat

First(s) == CHOOSE x \in s : TRUE

(* The sum of a set from those of smaller ones, as MapThenSumSet takes it. *)
SumFrom(messages, g, s) ==
    IF s = {} THEN 0 ELSE Weight(messages, First(s)) + g[s \ {First(s)}]

IsSum(messages, S, g) == g = [s \in SUBSET S |-> SumFrom(messages, g, s)]

LEMMA Smaller ==
    ASSUME NEW S, IsFiniteSet(S), NEW s \in SUBSET S
    PROVE  /\ IsFiniteSet(s) /\ Cardinality(s) \in Nat
           /\ s # {} => First(s) \in s
           /\ \A x \in s : /\ s \ {x} \in SUBSET S
                           /\ Cardinality(s \ {x}) = Cardinality(s) - 1
           /\ Cardinality(s) = 0 => s = {}
<1>1. IsFiniteSet(s) /\ Cardinality(s) \in Nat
  BY FS_Subset, FS_CardinalityType
<1>2. \A x \in s : Cardinality(s \ {x}) = Cardinality(s) - 1
  BY <1>1, FS_RemoveElement
<1>3. Cardinality(s) = 0 => s = {}
  BY <1>1, FS_EmptySet
<1> QED
  BY <1>1, <1>2, <1>3 DEF First

LEMMA SumExists ==
    ASSUME NEW messages, NEW S, Sized(messages, S)
    PROVE  \E g \in [SUBSET S -> Nat] : IsSum(messages, S, g)
<1> DEFINE UpTo(n, g) == \A s \in SUBSET S : Cardinality(s) <= n =>
                           g[s] = SumFrom(messages, g, s)
           Levels == {n \in Nat : \E g \in [SUBSET S -> Nat] : UpTo(n, g)}
<1>0. IsFiniteSet(S)
  BY DEF Sized
<1>1. 0 \in Levels
  <2>1. [s \in SUBSET S |-> 0] \in [SUBSET S -> Nat]
    OBVIOUS
  <2>2. UpTo(0, [s \in SUBSET S |-> 0])
    <3> SUFFICES ASSUME NEW s \in SUBSET S, Cardinality(s) <= 0
                 PROVE  s = {}
      BY DEF SumFrom
    <3> QED
      BY <1>0, Smaller
  <2> QED
    BY <2>1, <2>2
<1>2. ASSUME NEW n \in Nat, n \in Levels PROVE n + 1 \in Levels
  <2>1. PICK g \in [SUBSET S -> Nat] : UpTo(n, g)
    BY <1>2
  <2> DEFINE h == [s \in SUBSET S |-> IF Cardinality(s) <= n THEN g[s]
                                      ELSE SumFrom(messages, g, s)]
  <2>2. \A s \in SUBSET S : SumFrom(messages, g, s) \in Nat
    <3> SUFFICES ASSUME NEW s \in SUBSET S, s # {}
                 PROVE  Weight(messages, First(s)) + g[s \ {First(s)}] \in Nat
      BY DEF SumFrom
    <3>1. First(s) \in s /\ s \ {First(s)} \in SUBSET S
      BY <1>0, Smaller
    <3>2. Weight(messages, First(s)) \in Nat
      BY <3>1 DEF Sized
    <3> QED
      BY <3>1, <3>2
  <2>3. h \in [SUBSET S -> Nat]
    BY <2>2
  <2>4. \A s \in SUBSET S : h[s] = IF Cardinality(s) <= n THEN g[s]
                                   ELSE SumFrom(messages, g, s)
    OBVIOUS
  <2> HIDE DEF h
  <2>5. ASSUME NEW s \in SUBSET S, Cardinality(s) <= n + 1
        PROVE  h[s] = SumFrom(messages, h, s)
    <3>1. h[s] = SumFrom(messages, g, s)
      BY <2>1, <2>4
    <3>2. SumFrom(messages, g, s) = SumFrom(messages, h, s)
      <4>1. CASE s = {}
        BY <4>1 DEF SumFrom
      <4>2. CASE s # {}
        <5> DEFINE rest == s \ {First(s)}
        <5>1. /\ rest \in SUBSET S /\ Cardinality(rest) = Cardinality(s) - 1
              /\ Cardinality(s) \in Nat
          BY <1>0, <4>2, Smaller
        <5>2. h[rest] = g[rest]
          BY <2>4, <2>5, <5>1
        <5> QED
          BY <4>2, <5>2 DEF SumFrom
      <4> QED
        BY <4>1, <4>2
    <3> QED
      BY <3>1, <3>2
  <2>6. UpTo(n + 1, h)
    BY <2>5
  <2> HIDE DEF UpTo
  <2> QED
    BY <2>3, <2>6
<1>3. Cardinality(S) \in Levels
  <2>1. Cardinality(S) \in Nat
    BY <1>0, FS_CardinalityType
  <2> HIDE DEF Levels
  <2> QED
    BY <1>1, <1>2, <2>1, AllNumbers
<1>4. PICK g \in [SUBSET S -> Nat] : UpTo(Cardinality(S), g)
  BY <1>3
<1>5. \A s \in SUBSET S : g[s] = SumFrom(messages, g, s)
  BY <1>0, <1>4, FS_Subset
<1>6. g = [s \in SUBSET S |-> SumFrom(messages, g, s)]
  BY <1>5
<1> QED
  BY <1>6 DEF IsSum

(* Two tables of sums agree where both have an entry. *)
LEMMA SumUnique ==
    ASSUME NEW messages, NEW S, Sized(messages, S), NEW T \in SUBSET S,
           NEW g, IsSum(messages, S, g), NEW h, IsSum(messages, T, h)
    PROVE  \A s \in SUBSET T : g[s] = h[s]
<1> DEFINE Agree(n) == \A s \in SUBSET T : Cardinality(s) <= n => g[s] = h[s]
           Sizes == {n \in Nat : Agree(n)}
<1>0. IsFiniteSet(S) /\ IsFiniteSet(T)
  BY FS_Subset DEF Sized
<1>1. /\ \A s \in SUBSET T : g[s] = SumFrom(messages, g, s)
      /\ \A s \in SUBSET T : h[s] = SumFrom(messages, h, s)
  <2>1. g = [s \in SUBSET S |-> SumFrom(messages, g, s)]
    BY DEF IsSum
  <2>2. h = [s \in SUBSET T |-> SumFrom(messages, h, s)]
    BY DEF IsSum
  <2>3. \A s \in SUBSET T : s \in SUBSET S
    OBVIOUS
  <2>4. \A s \in SUBSET S : g[s] = SumFrom(messages, g, s)
    BY <2>1
  <2>5. \A s \in SUBSET T : h[s] = SumFrom(messages, h, s)
    BY <2>2
  <2> QED
    BY <2>3, <2>4, <2>5
<1>2. 0 \in Sizes
  <2> SUFFICES ASSUME NEW s \in SUBSET T, Cardinality(s) <= 0 PROVE g[s] = h[s]
    OBVIOUS
  <2>1. s = {}
    BY <1>0, Smaller
  <2> QED
    BY <1>1, <2>1 DEF SumFrom
<1>3. ASSUME NEW n \in Nat, n \in Sizes PROVE n + 1 \in Sizes
  <2> SUFFICES ASSUME NEW s \in SUBSET T, Cardinality(s) <= n + 1, s # {}
               PROVE  g[s] = h[s]
    BY <1>1 DEF SumFrom
  <2> DEFINE rest == s \ {First(s)}
  <2>1. /\ rest \in SUBSET T /\ Cardinality(rest) = Cardinality(s) - 1
        /\ Cardinality(s) \in Nat
    BY <1>0, Smaller
  <2>2. g[rest] = h[rest]
    BY <1>3, <2>1
  <2> QED
    BY <1>1, <2>2 DEF SumFrom
<1>4. \A s \in SUBSET T : Cardinality(s) \in Nat
  BY <1>0, Smaller
<1> HIDE DEF Sizes
<1>5. \A s \in SUBSET T : Cardinality(s) \in Sizes
  BY <1>2, <1>3, <1>4, AllNumbers
<1> USE DEF Sizes
<1> QED
  BY <1>4, <1>5

(* What MapThenSumSet gives is the entry of the table. *)
LEMMA WeighIsSum ==
    ASSUME NEW messages, NEW S, Sized(messages, S), NEW T \in SUBSET S,
           NEW g, IsSum(messages, S, g)
    PROVE  Weigh(messages, T) = g[T]
<1> DEFINE F(f) == [s \in SUBSET T |-> IF s = {} THEN 0
                     ELSE Size[messages[CHOOSE x \in s : TRUE].content]
                            + f[s \ {CHOOSE x \in s : TRUE}]]
           iter == CHOOSE f : f = F(f)
<1>1. Weigh(messages, T) = iter[T]
  BY DEF Weigh, MapThenSumSet, MapThenFoldSet
<1>2. Sized(messages, T)
  BY FS_Subset DEF Sized
<1>3. PICK h : IsSum(messages, T, h)
  BY <1>2, SumExists
<1>4. \A f : (f = F(f)) <=> IsSum(messages, T, f)
  BY DEF IsSum, SumFrom, First, Weight
<1>5. IsSum(messages, T, iter)
  BY <1>3, <1>4
<1> HIDE DEF iter
<1>6. g[T] = iter[T]
  BY <1>5, SumUnique
<1> QED
  BY <1>1, <1>6

(* Weigh is the sum it means to be: nothing weighs nothing, and what is taken
   out of a set lowers its weight by its own. *)
LEMMA WeighBasics ==
    ASSUME NEW messages, NEW S, Sized(messages, S)
    PROVE  /\ Weigh(messages, S) \in Nat
           /\ Weigh(messages, {}) = 0
           /\ S # {} => Weigh(messages, S) =
                          Weight(messages, First(S)) + Weigh(messages, S \ {First(S)})
<1>1. PICK g \in [SUBSET S -> Nat] : IsSum(messages, S, g)
  BY SumExists
<1>2. \A T \in SUBSET S : Weigh(messages, T) = g[T]
  BY <1>1, WeighIsSum
<1>3. \A s \in SUBSET S : g[s] = SumFrom(messages, g, s)
  BY <1>1 DEF IsSum
<1> QED
  BY <1>1, <1>2, <1>3 DEF SumFrom

LEMMA WeighRemove ==
    ASSUME NEW messages, NEW S, Sized(messages, S), NEW a \in S
    PROVE  Weigh(messages, S) = Weight(messages, a) + Weigh(messages, S \ {a})
<1> DEFINE Removes(n) ==
             \A s \in SUBSET S : Cardinality(s) <= n =>
               \A x \in s : Weigh(messages, s) =
                              Weight(messages, x) + Weigh(messages, s \ {x})
           Sizes == {n \in Nat : Removes(n)}
<1>0. IsFiniteSet(S)
  BY DEF Sized
<1>1. \A s \in SUBSET S : Sized(messages, s)
  BY FS_Subset DEF Sized
<1>2. 0 \in Sizes
  BY <1>0, Smaller
<1>3. ASSUME NEW n \in Nat, n \in Sizes PROVE n + 1 \in Sizes
  <2> SUFFICES ASSUME NEW s \in SUBSET S, Cardinality(s) <= n + 1, NEW x \in s
               PROVE  Weigh(messages, s) =
                        Weight(messages, x) + Weigh(messages, s \ {x})
    OBVIOUS
  <2> DEFINE f == First(s)
  <2>1. f \in s /\ Sized(messages, s)
    BY <1>0, <1>1, Smaller
  <2>2. Weigh(messages, s) = Weight(messages, f) + Weigh(messages, s \ {f})
    BY <2>1, WeighBasics
  <2>3. CASE x = f
    BY <2>2, <2>3
  <2>4. CASE x # f
    <3> HIDE DEF f
    <3>1. /\ s \ {f} \in SUBSET S /\ s \ {x} \in SUBSET S
          /\ Cardinality(s \ {f}) <= n /\ Cardinality(s \ {x}) <= n
      BY <1>0, <2>1, Smaller
    <3>2. x \in s \ {f} /\ f \in s \ {x}
      BY <2>1, <2>4
    <3> DEFINE both == (s \ {x}) \ {f}
    <3>3. Weigh(messages, s \ {f}) = Weight(messages, x) + Weigh(messages, both)
      <4>1. (s \ {f}) \ {x} = both
        OBVIOUS
      <4>2. Weigh(messages, s \ {f}) =
              Weight(messages, x) + Weigh(messages, (s \ {f}) \ {x})
        BY <1>3, <3>1, <3>2
      <4> HIDE DEF both
      <4> QED
        BY <4>1, <4>2
    <3>4. Weigh(messages, s \ {x}) = Weight(messages, f) + Weigh(messages, both)
      BY <1>3, <3>1, <3>2
    <3>6. Weight(messages, f) \in Nat /\ Weight(messages, x) \in Nat
      BY <2>1 DEF Sized
    <3>7. Weigh(messages, both) \in Nat
      <4>1. both \in SUBSET S
        OBVIOUS
      <4> QED
        BY <1>1, <4>1, WeighBasics
    <3> QED
      BY <2>2, <3>3, <3>4, <3>6, <3>7
  <2> QED
    BY <2>3, <2>4
<1>4. Cardinality(S) \in Nat
  BY <1>0, FS_CardinalityType
<1> HIDE DEF Sizes
<1>5. Cardinality(S) \in Sizes
  BY <1>2, <1>3, <1>4, AllNumbers
<1> USE DEF Sizes
<1> QED
  BY <1>4, <1>5

LEMMA WeighMonotone ==
    ASSUME NEW messages, NEW S, Sized(messages, S), NEW T \in SUBSET S
    PROVE  Weigh(messages, T) <= Weigh(messages, S)
<1> DEFINE Grows(n) ==
             \A s \in SUBSET S : T \subseteq s /\ Cardinality(s) <= n =>
               Weigh(messages, T) <= Weigh(messages, s)
           Sizes == {n \in Nat : Grows(n)}
<1>0. IsFiniteSet(S)
  BY DEF Sized
<1>1. \A s \in SUBSET S : Sized(messages, s) /\ Weigh(messages, s) \in Nat
  <2>1. \A s \in SUBSET S : Sized(messages, s)
    BY FS_Subset DEF Sized
  <2> QED
    BY <2>1, WeighBasics
<1>2. 0 \in Sizes
  <2> SUFFICES ASSUME NEW s \in SUBSET S, T \subseteq s, Cardinality(s) <= 0
               PROVE  Weigh(messages, T) <= Weigh(messages, s)
    OBVIOUS
  <2>1. T = s
    <3>1. s = {}
      BY <1>0, Smaller
    <3> QED
      BY <3>1
  <2> QED
    BY <1>1, <2>1
<1>3. ASSUME NEW n \in Nat, n \in Sizes PROVE n + 1 \in Sizes
  <2> SUFFICES ASSUME NEW s \in SUBSET S, T \subseteq s, Cardinality(s) <= n + 1
               PROVE  Weigh(messages, T) <= Weigh(messages, s)
    OBVIOUS
  <2>1. CASE s = T
    BY <1>1, <2>1
  <2>2. CASE s # T
    <3>1. PICK x \in s : x \notin T
      BY <2>2
    <3>2. s \ {x} \in SUBSET S /\ Cardinality(s \ {x}) <= n /\ T \subseteq s \ {x}
      BY <1>0, <3>1, Smaller
    <3>3. Weigh(messages, T) <= Weigh(messages, s \ {x})
      BY <1>3, <3>2
    <3>4. Weigh(messages, s) = Weight(messages, x) + Weigh(messages, s \ {x})
      BY <1>1, WeighRemove
    <3>5. Weight(messages, x) \in Nat
      BY DEF Sized
    <3> QED
      BY <1>1, <3>2, <3>3, <3>4, <3>5
  <2> QED
    BY <2>1, <2>2
<1>4. Cardinality(S) \in Nat
  BY <1>0, FS_CardinalityType
<1> HIDE DEF Sizes
<1>5. Cardinality(S) \in Sizes
  BY <1>2, <1>3, <1>4, AllNumbers
<1> USE DEF Sizes
<1> QED
  BY <1>4, <1>5

(* Messages that say the same weigh the same. *)
LEMMA WeighSame ==
    ASSUME NEW a, NEW b, NEW S, Sized(a, S), Sized(b, S),
           \A j \in S : Weight(a, j) = Weight(b, j)
    PROVE  Weigh(a, S) = Weigh(b, S)
<1>1. PICK g : IsSum(a, S, g)
  BY SumExists
<1>2. \A s \in SUBSET S : SumFrom(a, g, s) = SumFrom(b, g, s)
  <2> SUFFICES ASSUME NEW s \in SUBSET S, s # {}
               PROVE  Weight(a, First(s)) = Weight(b, First(s))
    BY DEF SumFrom
  <2>1. First(s) \in s
    BY DEF First
  <2> QED
    BY <2>1
<1>3. [s \in SUBSET S |-> SumFrom(a, g, s)] = [s \in SUBSET S |-> SumFrom(b, g, s)]
  BY <1>2
<1>4. IsSum(b, S, g)
  BY <1>1, <1>3 DEF IsSum
<1> QED
  BY <1>1, <1>4, WeighIsSum

-----------------------------------------------------------------------------
(* The least and the greatest of some positions *)

LEMMA MinOf ==
    ASSUME NEW T \in SUBSET Nat, T # {}
    PROVE  Min(T) \in T /\ \A k \in T : Min(T) <= k
<1>1. \E m \in T : \A k \in T : m <= k
  BY LeastNumber
<1> QED
  BY <1>1 DEF Min

LEMMA MaxOf ==
    ASSUME NEW n \in Nat, NEW T \in SUBSET (1..n), T # {}
    PROVE  Max(T) \in T /\ \A k \in T : k <= Max(T)
<1> DEFINE Above == {b \in Nat : \A k \in T : k <= b}
<1>1. n \in Above
  OBVIOUS
<1>2. PICK b \in Above : \A k \in Above : b <= k
  <2> HIDE DEF Above
  <2>1. Above # {}
    BY <1>1
  <2>2. Above \in SUBSET Nat
    BY DEF Above
  <2> QED
    BY <2>1, <2>2, LeastNumber
<1>3. b \in T
  <2> SUFFICES ASSUME b \notin T PROVE FALSE
    OBVIOUS
  <2>1. b \in Nat /\ \A k \in T : k < b /\ 1 <= k /\ k \in Nat
    OBVIOUS
  <2>2. b - 1 \in Nat /\ \A k \in T : k <= b - 1
    <3>1. PICK t \in T : TRUE
      OBVIOUS
    <3>2. b \in Nat /\ t < b /\ 1 <= t /\ t \in Nat
      BY <2>1
    <3>3. b - 1 \in Nat
      BY <3>2
    <3>4. \A k \in T : k <= b - 1
      BY <2>1
    <3> QED
      BY <3>3, <3>4
  <2>3. b - 1 \in Above
    BY <2>2
  <2> QED
    BY <1>2, <2>1, <2>3
<1>4. \E m \in T : \A k \in T : m >= k
  BY <1>2, <1>3
<1> QED
  BY <1>4 DEF Max

-----------------------------------------------------------------------------
(* Trimming: what was dropped stays dropped as a conversation goes on *)

Roles == {"system", "user", "assistant", "tool"}
Message == [role : Roles, content : Contents]
ConversationInv == conversation \in [Clients -> Seq(Message)]

\* What TokensFrom adds up.
Rest(messages, i) == {j \in NonSystem(messages) : j >= i}

LEMMA RestSized ==
    ASSUME NEW m \in Seq(Message), NEW i \in Nat
    PROVE  /\ Sized(m, Rest(m, i)) /\ TokensFrom(m, i) = Weigh(m, Rest(m, i))
           /\ \A j \in 1..Len(m) : Weight(m, j) \in Nat \ {0}
<1>1. \A j \in 1..Len(m) : Weight(m, j) \in Nat \ {0}
  <2> SUFFICES ASSUME NEW j \in 1..Len(m) PROVE Size[m[j].content] \in Nat \ {0}
    BY DEF Weight
  <2>1. m[j] \in Message
    OBVIOUS
  <2>2. m[j].content \in Contents
    BY <2>1 DEF Message
  <2> QED
    BY <2>2, HistoryAssumption
<1>2. Rest(m, i) \subseteq 1..Len(m)
  BY DEF Rest, NonSystem
<1>3. IsFiniteSet(1..Len(m))
  BY FS_Interval
<1>4. Sized(m, Rest(m, i))
  BY <1>1, <1>2, <1>3, FS_Subset DEF Sized
<1>5. TokensFrom(m, i) = Weigh(m, Rest(m, i))
  BY DEF TokensFrom, Weigh, Rest
<1> QED
  BY <1>1, <1>4, <1>5

(* A further message leaves the earlier positions and their weight. *)
LEMMA Further ==
    ASSUME NEW m \in Seq(Message), NEW x \in Message
    PROVE  LET n == Append(m, x)
           IN  /\ n \in Seq(Message) /\ Len(n) = Len(m) + 1
               /\ \A i \in 1..Len(m) : n[i] = m[i]
               /\ NonSystem(m) \subseteq NonSystem(n)
               /\ UserStarts(m) \subseteq UserStarts(n)
               /\ UserStarts(n) \subseteq UserStarts(m) \cup {Len(m) + 1}
               /\ UserStarts(n) \subseteq 1..Len(n)
               /\ \A i \in Nat : /\ TokensFrom(m, i) \in Nat
                                 /\ TokensFrom(n, i) \in Nat
                                 /\ TokensFrom(m, i) <= TokensFrom(n, i)
<1> DEFINE n == Append(m, x)
<1>1. /\ n \in Seq(Message) /\ Len(n) = Len(m) + 1 /\ Len(m) \in Nat
      /\ \A i \in 1..Len(m) : n[i] = m[i]
  OBVIOUS
<1>2. DOMAIN m = 1..Len(m) /\ DOMAIN n = 1..(Len(m) + 1)
  BY <1>1
<1> HIDE DEF n
<1>3. NonSystem(m) \subseteq NonSystem(n)
  BY <1>1, <1>2 DEF NonSystem
<1>4. /\ UserStarts(m) \subseteq UserStarts(n)
      /\ UserStarts(n) \subseteq UserStarts(m) \cup {Len(m) + 1}
      /\ UserStarts(n) \subseteq 1..Len(n)
  BY <1>1, <1>2 DEF UserStarts
<1>5. ASSUME NEW i \in Nat
      PROVE  /\ TokensFrom(m, i) \in Nat /\ TokensFrom(n, i) \in Nat
             /\ TokensFrom(m, i) <= TokensFrom(n, i)
  <2>1. Rest(m, i) \subseteq Rest(n, i) /\ Rest(m, i) \subseteq 1..Len(m)
    BY <1>2, <1>3 DEF Rest, NonSystem
  <2>2. /\ Sized(m, Rest(m, i)) /\ TokensFrom(m, i) = Weigh(m, Rest(m, i))
        /\ Sized(n, Rest(n, i)) /\ TokensFrom(n, i) = Weigh(n, Rest(n, i))
    BY <1>1, RestSized
  <2>3. Sized(n, Rest(m, i))
    BY <2>1, <2>2, FS_Subset DEF Sized
  <2>4. \A j \in Rest(m, i) : Weight(m, j) = Weight(n, j)
    BY <1>1, <2>1 DEF Weight
  <2>5. Weigh(m, Rest(m, i)) = Weigh(n, Rest(m, i))
    BY <2>2, <2>3, <2>4, WeighSame
  <2>6. Weigh(n, Rest(m, i)) <= Weigh(n, Rest(n, i))
    BY <2>1, <2>2, WeighMonotone
  <2>7. Weigh(m, Rest(m, i)) \in Nat /\ Weigh(n, Rest(n, i)) \in Nat
    BY <2>2, WeighBasics
  <2> QED
    BY <2>2, <2>5, <2>6, <2>7
<1> QED
  BY <1>1, <1>3, <1>4, <1>5 DEF n

(* The cut is at a user message, and never before one that fits. *)
LEMMA CutAt ==
    ASSUME NEW m \in Seq(Message), UserStarts(m) # {}
    PROVE  LET fitting == {i \in UserStarts(m) : TokensFrom(m, i) <= HistoryTarget}
           IN  /\ CutIndex(m) \in UserStarts(m) /\ CutIndex(m) \in 1..Len(m)
               /\ fitting = {} => \A i \in UserStarts(m) : i <= CutIndex(m)
               /\ fitting # {} => /\ CutIndex(m) \in fitting
                                  /\ \A i \in fitting : CutIndex(m) <= i
<1> DEFINE fitting == {i \in UserStarts(m) : TokensFrom(m, i) <= HistoryTarget}
<1>1. UserStarts(m) \in SUBSET (1..Len(m)) /\ Len(m) \in Nat
  BY DEF UserStarts
<1>2. fitting \in SUBSET Nat /\ fitting \subseteq UserStarts(m)
  BY <1>1
<1>3. CutIndex(m) = IF fitting = {} THEN Max(UserStarts(m)) ELSE Min(fitting)
  BY DEF CutIndex
<1> HIDE DEF fitting
<1>4. CASE fitting = {}
  BY <1>1, <1>3, <1>4, MaxOf DEF fitting
<1>5. CASE fitting # {}
  <2>1. CutIndex(m) \in fitting /\ \A i \in fitting : CutIndex(m) <= i
    BY <1>2, <1>3, <1>5, MinOf
  <2> QED
    BY <1>1, <1>2, <1>5, <2>1 DEF fitting
<1> QED
  BY <1>4, <1>5

LEMMA DroppedOnAppend ==
    ASSUME NEW m \in Seq(Message), NEW x \in Message
    PROVE  DroppedMessages(m) \subseteq DroppedMessages(Append(m, x))
<1> DEFINE n == Append(m, x)
           Fit(a) == {i \in UserStarts(a) : TokensFrom(a, i) <= HistoryTarget}
<1>1. /\ n \in Seq(Message) /\ Len(n) = Len(m) + 1
      /\ NonSystem(m) \subseteq NonSystem(n)
      /\ UserStarts(m) \subseteq UserStarts(n)
      /\ UserStarts(n) \subseteq UserStarts(m) \cup {Len(m) + 1}
      /\ \A i \in Nat : /\ TokensFrom(m, i) \in Nat /\ TokensFrom(n, i) \in Nat
                        /\ TokensFrom(m, i) <= TokensFrom(n, i)
  BY Further
<1> HIDE DEF n
<1> SUFFICES ASSUME OverBudget(m) PROVE DroppedMessages(m) \subseteq DroppedMessages(n)
  BY DEF DroppedMessages, n
<1>2. UserStarts(m) # {} /\ UserStarts(n) # {} /\ Len(m) \in Nat
  <2>1. UserStarts(m) # {}
    BY DEF OverBudget
  <2>2. UserStarts(m) \subseteq UserStarts(n)
    BY <1>1
  <2>3. UserStarts(n) # {}
    BY <2>1, <2>2
  <2>4. Len(m) \in Nat
    OBVIOUS
  <2> QED
    BY <2>1, <2>3, <2>4
<1>3. OverBudget(n)
  <2>1. HistoryBudget \in Nat /\ HistoryBudget > 0 /\ TokensFrom(m, 1) > HistoryBudget
    BY HistoryAssumption DEF OverBudget
  <2>2. /\ TokensFrom(m, 1) \in Nat /\ TokensFrom(n, 1) \in Nat
        /\ TokensFrom(m, 1) <= TokensFrom(n, 1)
    BY <1>1
  <2>3. TokensFrom(n, 1) > HistoryBudget
    BY <2>1, <2>2
  <2> QED
    BY <1>2, <2>1, <2>3 DEF OverBudget
<1>4. /\ CutIndex(m) \in UserStarts(m) /\ CutIndex(m) \in 1..Len(m)
      /\ Fit(m) # {} => /\ CutIndex(m) \in Fit(m)
                        /\ \A i \in Fit(m) : CutIndex(m) <= i
  BY <1>2, CutAt
<1>5. /\ CutIndex(n) \in UserStarts(n) /\ CutIndex(n) \in 1..Len(n)
      /\ Fit(n) = {} => \A i \in UserStarts(n) : i <= CutIndex(n)
      /\ Fit(n) # {} => CutIndex(n) \in Fit(n)
  BY <1>1, <1>2, CutAt
<1>6. CutIndex(m) <= CutIndex(n)
  <2>1. CASE Fit(n) = {}
    BY <1>1, <1>4, <1>5, <2>1
  <2>2. CASE Fit(n) # {} /\ CutIndex(n) = Len(m) + 1
    BY <1>2, <1>4, <2>2
  <2>3. CASE Fit(n) # {} /\ CutIndex(n) # Len(m) + 1
    <3>1. CutIndex(n) \in UserStarts(m) /\ CutIndex(n) \in Nat
      BY <1>1, <1>5, <2>3
    <3>2. TokensFrom(n, CutIndex(n)) <= HistoryTarget
      BY <1>5, <2>3
    <3>3. HistoryTarget \in Nat
      BY HistoryAssumption
    <3>4. TokensFrom(m, CutIndex(n)) <= HistoryTarget
      <4>1. /\ TokensFrom(m, CutIndex(n)) \in Nat /\ TokensFrom(n, CutIndex(n)) \in Nat
            /\ TokensFrom(m, CutIndex(n)) <= TokensFrom(n, CutIndex(n))
        BY <1>1, <3>1
      <4> QED
        BY <3>2, <3>3, <4>1
    <3>5. CutIndex(n) \in Fit(m)
      BY <3>1, <3>4
    <3> QED
      BY <1>4, <3>5
  <2> QED
    BY <2>1, <2>2, <2>3
<1>7. \A i \in NonSystem(m) : i \in Nat
  BY DEF NonSystem
<1>8. \A i \in NonSystem(m) : i < CutIndex(m) => i < CutIndex(n)
  BY <1>4, <1>5, <1>6, <1>7
<1> QED
  BY <1>1, <1>3, <1>8 DEF DroppedMessages

LEMMA InitConversation == Init => ConversationInv
<1>1. "text" \in Contents
  BY RequestAssumption
<1>2. <<>> \in Seq(Message) /\ <<[role |-> "system", content |-> "text"]>> \in Seq(Message)
  BY <1>1 DEF Message, Roles
<1> QED
  BY <1>2, RequestAssumption DEF Init, ConversationInv

(* What a step does to a conversation: nothing, one message more, or a part of it. *)
ConversationStep(c) ==
    \/ conversation'[c] = conversation[c]
    \/ \E x \in Message : conversation'[c] = Append(conversation[c], x)
    \/ \E i \in 1..Len(conversation[c]) :
         /\ i < Len(conversation[c])
         /\ conversation'[c] = SubSeq(conversation[c], 1, i)

LEMMA StepConversation ==
    ConversationInv /\ [Next]_vars =>
        /\ \A c \in Clients : ConversationStep(c)
        /\ conversation' \in [Clients -> Seq(Message)]
<1> SUFFICES ASSUME ConversationInv, [Next]_vars
             PROVE  /\ \A c \in Clients : ConversationStep(c)
                    /\ conversation' \in [Clients -> Seq(Message)]
  OBVIOUS
<1> USE DEF ConversationInv
<1>1. ASSUME NEW d \in Clients, NEW x \in Message,
             conversation' = [conversation EXCEPT ![d] = Append(@, x)]
      PROVE  /\ \A c \in Clients : ConversationStep(c)
             /\ conversation' \in [Clients -> Seq(Message)]
  BY <1>1 DEF ConversationStep
<1>2. ASSUME UNCHANGED conversation
      PROVE  /\ \A c \in Clients : ConversationStep(c)
             /\ conversation' \in [Clients -> Seq(Message)]
  BY <1>2 DEF ConversationStep
<1>3. ASSUME NEW d \in Clients, NEW i \in 1..Len(conversation[d]),
             i < Len(conversation[d]),
             conversation' = [conversation EXCEPT ![d] = SubSeq(@, 1, i)]
      PROVE  /\ \A c \in Clients : ConversationStep(c)
             /\ conversation' \in [Clients -> Seq(Message)]
  BY <1>3 DEF ConversationStep
<1>4. AskContents \cup AnswerContents \cup CallContents \cup {"text"} \subseteq Contents
  BY RequestAssumption
<1>5. CASE UNCHANGED vars \/ \E m \in Memories : Purge(m)
  BY <1>2, <1>5 DEF vars, Purge
<1>6. CASE \E c \in Clients : RequestStep(c)
  <2>1. PICK d \in Clients :
          \/ Ask(d) \/ ToolResult(d) \/ Rewind(d)
          \/ Receive(d) \/ Refuse(d) \/ Lookup(d)
          \/ InjectNothing(d) \/ InjectMemories(d) \/ InjectFacts(d)
          \/ Answer(d) \/ Unreachable(d)
    BY <1>6 DEF RequestStep
  <2>2. CASE Ask(d)
    <3>1. PICK content \in AskContents :
            conversation' = [conversation EXCEPT
              ![d] = Append(@, [role |-> "user", content |-> content])]
      BY <2>2 DEF Ask, Says
    <3>2. [role |-> "user", content |-> content] \in Message
      BY <1>4 DEF Message, Roles
    <3> QED
      BY <1>1, <3>1, <3>2
  <2>3. CASE ToolResult(d)
    <3>1. conversation' = [conversation EXCEPT
              ![d] = Append(@, [role |-> "tool", content |-> "text"])]
      BY <2>3 DEF ToolResult, Says
    <3>2. [role |-> "tool", content |-> "text"] \in Message
      BY <1>4 DEF Message, Roles
    <3> QED
      BY <1>1, <3>1, <3>2
  <2>4. CASE Rewind(d)
    <3>1. PICK i \in UserStarts(conversation[d]) :
            /\ i < Len(conversation[d])
            /\ conversation' = [conversation EXCEPT ![d] = SubSeq(@, 1, i)]
      BY <2>4 DEF Rewind
    <3>2. i \in 1..Len(conversation[d])
      BY DEF UserStarts
    <3> QED
      BY <1>3, <3>1, <3>2
  <2>5. CASE Answer(d)
    <3>1. PICK content \in AnswerContents \cup CallContents :
            conversation' = [conversation EXCEPT
              ![d] = Append(@, [role |-> "assistant", content |-> content])]
      BY <2>5 DEF Answer
    <3>2. [role |-> "assistant", content |-> content] \in Message
      BY <1>4 DEF Message, Roles
    <3> QED
      BY <1>1, <3>1, <3>2
  <2>6. CASE Receive(d) \/ Refuse(d) \/ Lookup(d) \/ Unreachable(d)
    BY <1>2, <2>6 DEF Receive, Refuse, Lookup, Unreachable
  <2>7. CASE InjectNothing(d) \/ InjectMemories(d) \/ InjectFacts(d)
    BY <1>2, <2>7 DEF InjectNothing, InjectMemories, InjectFacts, Forward
  <2> QED
    BY <2>1, <2>2, <2>3, <2>4, <2>5, <2>6, <2>7
<1> QED
  BY <1>5, <1>6 DEF Next

LEMMA NextConversation == ConversationInv /\ [Next]_vars => ConversationInv'
  BY StepConversation DEF ConversationInv

DroppedStep ==
    \A c \in Clients :
        /\ conversation[c] # conversation'[c]
        /\ IsPrefix(conversation[c], conversation'[c])
        => DroppedMessages(conversation[c]) \subseteq DroppedMessages(conversation'[c])

LEMMA StepDropped == ConversationInv /\ [Next]_vars => DroppedStep
<1> SUFFICES ASSUME ConversationInv, [Next]_vars, NEW c \in Clients,
                    conversation[c] # conversation'[c],
                    IsPrefix(conversation[c], conversation'[c])
             PROVE  DroppedMessages(conversation[c])
                      \subseteq DroppedMessages(conversation'[c])
  BY DEF DroppedStep
<1>1. ConversationStep(c)
  BY StepConversation
<1>2. conversation[c] \in Seq(Message)
  BY DEF ConversationInv
<1>3. CASE \E x \in Message : conversation'[c] = Append(conversation[c], x)
  BY <1>2, <1>3, DroppedOnAppend
<1>4. CASE \E i \in 1..Len(conversation[c]) :
             /\ i < Len(conversation[c])
             /\ conversation'[c] = SubSeq(conversation[c], 1, i)
  <2>1. PICK i \in 1..Len(conversation[c]) :
             /\ i < Len(conversation[c])
             /\ conversation'[c] = SubSeq(conversation[c], 1, i)
    BY <1>4
  <2>2. Len(conversation'[c]) = i
    BY <1>2, <2>1
  <2>3. Len(conversation[c]) <= Len(conversation'[c])
    BY DEF IsPrefix
  <2> QED
    BY <2>1, <2>2, <2>3
<1> QED
  BY <1>1, <1>3, <1>4 DEF ConversationStep

(* A message that trimming took out of a conversation stays out of it as it
   goes on: the first user message from which on all fits can only move on. *)
THEOREM DroppedStaysDroppedEver == Spec => DroppedStaysDropped
<1>1. Init => ConversationInv
  BY InitConversation
<1>2. ConversationInv /\ [Next]_vars => ConversationInv'
  BY NextConversation
<1>3. ConversationInv /\ [Next]_vars => [DroppedStep]_vars
  BY StepDropped
<1>4. DroppedStaysDropped <=> [][DroppedStep]_vars
  BY PTL DEF DroppedStaysDropped, DroppedStep
<1> QED
  BY <1>1, <1>2, <1>3, <1>4, PTL DEF Spec

-----------------------------------------------------------------------------
(* Positions in their order *)

Rank(S, i) == Cardinality({j \in S : j < i})

LEMMA RankOrders ==
    ASSUME NEW S \in SUBSET Nat, IsFiniteSet(S)
    PROVE  /\ Cardinality(S) \in Nat
           /\ \A i \in S : Rank(S, i) \in Nat /\ Rank(S, i) < Cardinality(S)
           /\ \A i, k \in S : i < k => Rank(S, i) < Rank(S, k)
<1> DEFINE Below(i) == {j \in S : j < i}
<1>1. \A i \in Nat : IsFiniteSet(Below(i)) /\ Cardinality(Below(i)) \in Nat
  BY FS_Subset, FS_CardinalityType
<1>2. ASSUME NEW i \in S, NEW T \in SUBSET S, Below(i) \subseteq T, i \in T
      PROVE  Cardinality(Below(i)) < Cardinality(T)
  <2>1. IsFiniteSet(T) /\ Cardinality(T) \in Nat
    BY FS_Subset, FS_CardinalityType
  <2>2. Below(i) \in SUBSET T /\ i \notin Below(i)
    BY <1>2
  <2>3. /\ Cardinality(Below(i)) <= Cardinality(T)
        /\ Cardinality(T) = Cardinality(Below(i)) => T = Below(i)
    BY <2>1, <2>2, FS_Subset
  <2>4. T # Below(i)
    BY <1>2, <2>2
  <2> HIDE DEF Below
  <2> QED
    BY <1>1, <2>1, <2>3, <2>4
<1>3. \A i \in S : Rank(S, i) = Cardinality(Below(i))
  BY DEF Rank
<1>4. \A i \in S : Below(i) \in SUBSET S
  OBVIOUS
<1>5. \A i \in S : Cardinality(Below(i)) < Cardinality(S)
  <2> HIDE DEF Below
  <2> QED
    BY <1>2, <1>4
<1>6. ASSUME NEW i \in S, NEW k \in S, i < k
      PROVE  Cardinality(Below(i)) < Cardinality(Below(k))
  <2>1. \A j \in S : j < i => j < k
    BY <1>6
  <2>2. Below(i) \subseteq Below(k) /\ i \in Below(k) /\ Below(k) \in SUBSET S
    BY <1>6, <2>1
  <2> HIDE DEF Below
  <2> QED
    BY <1>2, <2>2
<1>7. Cardinality(S) \in Nat
  BY FS_CardinalityType
<1> HIDE DEF Below
<1> QED
  BY <1>1, <1>3, <1>5, <1>6, <1>7

(* Nth numbers the positions, each once, from 1 on. *)
LEMMA NthOrders ==
    ASSUME NEW S \in SUBSET Nat, IsFiniteSet(S)
    PROVE  /\ \A n \in 1..Cardinality(S) : Nth(S, n) \in S /\ Rank(S, Nth(S, n)) = n - 1
           /\ \A i \in S : /\ Rank(S, i) + 1 \in 1..Cardinality(S)
                           /\ Nth(S, Rank(S, i) + 1) = i
<1> DEFINE ranks == [i \in S |-> Rank(S, i)]
           below == 0..(Cardinality(S) - 1)
<1>1. /\ Cardinality(S) \in Nat
      /\ \A i \in S : Rank(S, i) \in Nat /\ Rank(S, i) < Cardinality(S)
      /\ \A i, k \in S : i < k => Rank(S, i) < Rank(S, k)
  BY RankOrders
<1>2. \A i, k \in S : Rank(S, i) = Rank(S, k) => i = k
  <2> SUFFICES ASSUME NEW i \in S, NEW k \in S, Rank(S, i) = Rank(S, k), i # k
               PROVE  FALSE
    OBVIOUS
  <2>1. i < k \/ k < i
    OBVIOUS
  <2>2. Rank(S, i) < Rank(S, k) \/ Rank(S, k) < Rank(S, i)
    BY <1>1, <2>1
  <2> QED
    BY <1>1, <2>2
<1>3. ranks \in Injection(S, below)
  <2>1. ranks \in [S -> below]
    BY <1>1
  <2>2. \A i, k \in S : ranks[i] = ranks[k] => i = k
    BY <1>2
  <2> QED
    BY <2>1, <2>2 DEF Injection, IsInjective
<1>4. IsFiniteSet(below) /\ Cardinality(below) = Cardinality(S)
  BY <1>1, FS_Interval
<1>5. ranks \in Surjection(S, below)
  <2> HIDE DEF ranks, below
  <2> QED
    BY <1>3, <1>4, FS_Injection
<1>6. \A r \in below : \E i \in S : Rank(S, i) = r
  <2>1. \A r \in below : \E i \in S : ranks[i] = r
    <3> HIDE DEF ranks, below
    <3> QED
      BY <1>5 DEF Surjection
  <2> QED
    BY <2>1
<1>7. ASSUME NEW n \in 1..Cardinality(S)
      PROVE  Nth(S, n) \in S /\ Rank(S, Nth(S, n)) = n - 1
  <2>1. n - 1 \in below
    BY <1>1
  <2>2. \E i \in S : Rank(S, i) = n - 1
    BY <1>6, <2>1
  <2>3. Nth(S, n) = CHOOSE i \in S : Rank(S, i) = n - 1
    BY DEF Nth, Rank
  <2> QED
    BY <2>2, <2>3
<1>8. ASSUME NEW i \in S
      PROVE  Rank(S, i) + 1 \in 1..Cardinality(S) /\ Nth(S, Rank(S, i) + 1) = i
  <2>1. Rank(S, i) + 1 \in 1..Cardinality(S)
    BY <1>1
  <2>2. /\ Nth(S, Rank(S, i) + 1) \in S
        /\ Rank(S, Nth(S, Rank(S, i) + 1)) = (Rank(S, i) + 1) - 1
    BY <1>7, <2>1
  <2>3. (Rank(S, i) + 1) - 1 = Rank(S, i)
    BY <1>1
  <2> QED
    BY <1>2, <2>1, <2>2, <2>3
<1> QED
  BY <1>7, <1>8

Increases(g, P, Q) ==
    /\ g \in [P -> Q]
    /\ \A q \in Q : \E p \in P : g[p] = q
    /\ \A p, r \in P : p < r => g[p] < g[r]

(* What an increasing numbering of Q by P makes of the n-th. *)
LEMMA NthImage ==
    ASSUME NEW P \in SUBSET Nat, IsFiniteSet(P), NEW Q \in SUBSET Nat,
           NEW g, Increases(g, P, Q)
    PROVE  /\ IsFiniteSet(Q) /\ Cardinality(Q) = Cardinality(P)
           /\ \A p, r \in P : g[p] = g[r] => p = r
           /\ \A n \in 1..Cardinality(P) : Nth(Q, n) = g[Nth(P, n)]
<1>1. ASSUME NEW p \in P, NEW r \in P
      PROVE  (p < r <=> g[p] < g[r]) /\ (g[p] = g[r] => p = r)
  <2>1. p \in Nat /\ r \in Nat /\ g[p] \in Nat /\ g[r] \in Nat
    BY DEF Increases
  <2>2. (p < r => g[p] < g[r]) /\ (r < p => g[r] < g[p])
    BY DEF Increases
  <2>3. p = r => g[p] = g[r]
    OBVIOUS
  <2> QED
    BY <2>1, <2>2, <2>3
<1>2. ASSUME NEW A \in SUBSET P, NEW B \in SUBSET Q,
             \A p \in P : p \in A <=> g[p] \in B
      PROVE  IsFiniteSet(B) /\ Cardinality(B) = Cardinality(A)
  <2> DEFINE h == [p \in A |-> g[p]]
  <2>1. h \in [A -> B]
    BY <1>2
  <2>2. \A b \in B : \E p \in A : h[p] = b
    BY <1>2 DEF Increases
  <2>3. \A p, r \in A : h[p] = h[r] => p = r
    BY <1>1
  <2> HIDE DEF h
  <2>4. h \in Bijection(A, B)
    BY <2>1, <2>2, <2>3 DEF Bijection, Injection, Surjection, IsInjective
  <2>5. IsFiniteSet(A)
    BY FS_Subset
  <2> QED
    BY <2>4, <2>5, FS_Bijection DEF ExistsBijection
<1>3. IsFiniteSet(Q) /\ Cardinality(Q) = Cardinality(P)
  BY <1>2 DEF Increases
<1>4. ASSUME NEW p \in P PROVE Rank(Q, g[p]) = Rank(P, p)
  <2>1. {j \in P : j < p} \in SUBSET P /\ {j \in Q : j < g[p]} \in SUBSET Q
    OBVIOUS
  <2>2. \A r \in P : r \in {j \in P : j < p} <=> g[r] \in {j \in Q : j < g[p]}
    BY <1>1 DEF Increases
  <2> QED
    BY <1>2, <2>1, <2>2 DEF Rank
<1>5. ASSUME NEW n \in 1..Cardinality(P) PROVE Nth(Q, n) = g[Nth(P, n)]
  <2>1. Nth(P, n) \in P /\ Rank(P, Nth(P, n)) = n - 1
    BY NthOrders
  <2>2. g[Nth(P, n)] \in Q /\ Rank(Q, g[Nth(P, n)]) = n - 1
    BY <1>4, <2>1 DEF Increases
  <2>3. Nth(Q, (n - 1) + 1) = g[Nth(P, n)]
    BY <1>3, <2>2, NthOrders
  <2>4. (n - 1) + 1 = n
    OBVIOUS
  <2> QED
    BY <2>3, <2>4
<1> QED
  BY <1>1, <1>3, <1>5

(* The last of some positions are the last ones of all in their order. *)
LEMMA NthOfLast ==
    ASSUME NEW B \in SUBSET Nat, IsFiniteSet(B), NEW cut \in Nat
    PROVE  LET A == {i \in B : i >= cut}
               d == Cardinality(B) - Cardinality(A)
           IN  /\ IsFiniteSet(A) /\ Cardinality(A) \in Nat /\ d \in Nat
               /\ \A n \in 1..Cardinality(A) : Nth(A, n) = Nth(B, d + n)
<1> DEFINE A == {i \in B : i >= cut}
           d == Cardinality(B) - Cardinality(A)
           C == {i \in B : i < cut}
<1>0. \A i \in B : i < cut <=> ~(i >= cut)
  OBVIOUS
<1>1. A \in SUBSET B /\ C \in SUBSET B /\ A \cap C = {} /\ B = C \cup A
  <2>1. A \in SUBSET B /\ C \in SUBSET B
    OBVIOUS
  <2>2. A \cap C = {}
    BY <1>0
  <2>3. B = C \cup A
    BY <1>0
  <2> QED
    BY <2>1, <2>2, <2>3
<1>2. IsFiniteSet(A) /\ IsFiniteSet(C)
  BY <1>1, FS_Subset
<1>3. /\ Cardinality(A) \in Nat /\ Cardinality(C) \in Nat
      /\ Cardinality(B) = Cardinality(C) + Cardinality(A)
  <2>1. Cardinality(A) \in Nat /\ Cardinality(C) \in Nat
    BY <1>2, FS_CardinalityType
  <2>2. Cardinality(C \cup A) = Cardinality(C) + Cardinality(A) - Cardinality(C \cap A)
    BY <1>2, FS_Union
  <2>3. C \cap A = {}
    BY <1>1
  <2>4. Cardinality(C \cap A) = 0
    BY <2>3, FS_EmptySet
  <2> HIDE DEF A, C
  <2> QED
    BY <1>1, <2>1, <2>2, <2>4
<1>4. ASSUME NEW i \in A PROVE Rank(B, i) = d + Rank(A, i)
  <2> DEFINE E == {j \in A : j < i}
  <2>1. {j \in B : j < i} = C \cup E
    <3>1. i \in Nat /\ i >= cut
      OBVIOUS
    <3>2. \A j \in B : j < cut => j < i
      BY <3>1
    <3>3. \A j \in B : j < i <=> j \in C \/ j \in E
      BY <1>0, <3>2
    <3> QED
      BY <1>1, <3>3
  <2>2. IsFiniteSet(E) /\ C \cap E = {}
    BY <1>1, <1>2, FS_Subset
  <2>3. Cardinality(C \cup E) = Cardinality(C) + Cardinality(E) - Cardinality(C \cap E)
    BY <1>2, <2>2, FS_Union
  <2>4. Cardinality(C \cap E) = 0
    BY <2>2, FS_EmptySet
  <2>5. Cardinality(E) \in Nat
    BY <2>2, FS_CardinalityType
  <2>6. Rank(B, i) = Cardinality(C \cup E) /\ Rank(A, i) = Cardinality(E)
    BY <2>1 DEF Rank
  <2> HIDE DEF A, C, E
  <2> QED
    BY <1>3, <2>3, <2>4, <2>5, <2>6
<1>5. ASSUME NEW n \in 1..Cardinality(A) PROVE Nth(A, n) = Nth(B, d + n)
  <2>1. A \in SUBSET Nat
    OBVIOUS
  <2>2. Nth(A, n) \in A /\ Rank(A, Nth(A, n)) = n - 1
    <3> HIDE DEF A
    <3> QED
      BY <1>2, <2>1, NthOrders
  <2>3. Rank(B, Nth(A, n)) = d + (n - 1)
    BY <1>4, <2>2
  <2>4. Nth(B, Rank(B, Nth(A, n)) + 1) = Nth(A, n)
    <3>1. Nth(A, n) \in B
      BY <2>2
    <3> HIDE DEF A
    <3> QED
      BY <3>1, NthOrders
  <2>5. d + (n - 1) + 1 = d + n
    <3> HIDE DEF A, C
    <3> QED
      BY <1>3
  <2> QED
    BY <2>3, <2>4, <2>5
<1> HIDE DEF A, C
<1> QED
  BY <1>2, <1>3, <1>5 DEF A

(* Messages weigh the same wherever they stand. *)
LEMMA WeighImage ==
    ASSUME NEW a, NEW b, NEW P \in SUBSET Nat, NEW Q \in SUBSET Nat, NEW g,
           Increases(g, P, Q), Sized(a, P), Sized(b, Q),
           \A p \in P : Weight(a, p) = Weight(b, g[p])
    PROVE  Weigh(a, P) = Weigh(b, Q)
<1> DEFINE Image(s) == {q \in Q : \E p \in s : g[p] = q}
           Same(n) == \A s \in SUBSET P : Cardinality(s) <= n =>
                        Weigh(a, s) = Weigh(b, Image(s))
           Sizes == {n \in Nat : Same(n)}
<1>0. IsFiniteSet(P) /\ IsFiniteSet(Q)
  BY DEF Sized
<1>1. \A p, r \in P : g[p] = g[r] => p = r
  BY <1>0, NthImage
<1>2. /\ \A s \in SUBSET P : Sized(a, s)
      /\ \A s \in SUBSET Q : Sized(b, s)
  BY FS_Subset DEF Sized
<1>3. 0 \in Sizes
  <2> SUFFICES ASSUME NEW s \in SUBSET P, Cardinality(s) <= 0
               PROVE  Weigh(a, s) = Weigh(b, Image(s))
    OBVIOUS
  <2>1. s = {}
    <3>1. Cardinality(s) \in Nat /\ (Cardinality(s) = 0 => s = {})
      BY <1>0, Smaller
    <3>2. Cardinality(s) = 0
      BY <3>1
    <3> QED
      BY <3>1, <3>2
  <2>2. Image(s) = {}
    BY <2>1
  <2> HIDE DEF Image
  <2> QED
    BY <2>1, <2>2, WeighBasics
<1>4. ASSUME NEW n \in Nat, n \in Sizes PROVE n + 1 \in Sizes
  <2> SUFFICES ASSUME NEW s \in SUBSET P, Cardinality(s) <= n + 1
               PROVE  Weigh(a, s) = Weigh(b, Image(s))
    OBVIOUS
  <2>1. CASE s = {}
    <3>1. Image(s) = {}
      BY <2>1
    <3> HIDE DEF Image
    <3> QED
      BY <2>1, <3>1, WeighBasics
  <2>2. CASE s # {}
    <3>1. PICK x \in s : TRUE
      BY <2>2
    <3>2. s \ {x} \in SUBSET P /\ Cardinality(s \ {x}) <= n
      <4>1. /\ s \ {x} \in SUBSET P /\ Cardinality(s \ {x}) = Cardinality(s) - 1
            /\ Cardinality(s) \in Nat
        BY <1>0, <3>1, Smaller
      <4> QED
        BY <4>1
    <3>3. Weigh(a, s \ {x}) = Weigh(b, Image(s \ {x}))
      BY <1>4, <3>2
    <3>4. Image(s \ {x}) = Image(s) \ {g[x]}
      BY <1>1, <3>1
    <3>5. g[x] \in Image(s) /\ Image(s) \in SUBSET Q
      BY <3>1 DEF Increases
    <3> HIDE DEF Image
    <3>6. Weigh(a, s) = Weight(a, x) + Weigh(a, s \ {x})
      BY <1>2, <3>1, WeighRemove
    <3>7. Weigh(b, Image(s)) = Weight(b, g[x]) + Weigh(b, Image(s) \ {g[x]})
      BY <1>2, <3>5, WeighRemove
    <3>8. Weight(a, x) = Weight(b, g[x])
      BY <3>1
    <3> QED
      BY <3>3, <3>4, <3>6, <3>7, <3>8
  <2> QED
    BY <2>1, <2>2
<1>5. Cardinality(P) \in Nat
  BY <1>0, FS_CardinalityType
<1> HIDE DEF Sizes
<1>6. Cardinality(P) \in Sizes
  BY <1>3, <1>4, <1>5, AllNumbers
<1> USE DEF Sizes
<1>7. Weigh(a, P) = Weigh(b, Image(P))
  BY <1>5, <1>6
<1>8. Image(P) = Q
  BY DEF Increases
<1> HIDE DEF Image
<1> QED
  BY <1>7, <1>8

\* The positions up to the n-th that g takes from B.
From(g, n, B) == {p \in 1..n : g[p] \in B}

(* The messages at some positions of a list that takes its own from another. *)
LEMMA AtImage ==
    ASSUME NEW all, NEW w, NEW n \in Nat, NEW K \in SUBSET Nat, NEW g,
           Increases(g, 1..n, K), \A p \in 1..n : w[p] = all[g[p]],
           NEW B \in SUBSET K
    PROVE  /\ \E h : /\ Increases(h, From(g, n, B), B)
                     /\ \A p \in From(g, n, B) : h[p] = g[p]
           /\ AtPositions(w, From(g, n, B)) = AtPositions(all, B)
<1> DEFINE P == From(g, n, B)
           h == [p \in P |-> g[p]]
<1> USE DEF From
<1>1. P \in SUBSET (1..n) /\ P \in SUBSET Nat
  OBVIOUS
<1>2. IsFiniteSet(P)
  BY <1>1, FS_Interval, FS_Subset
<1>3. Increases(h, P, B)
  <2>1. h \in [P -> B]
    OBVIOUS
  <2>2. \A q \in B : \E p \in P : h[p] = q
    BY DEF Increases
  <2>3. \A p, r \in P : p < r => h[p] < h[r]
    BY DEF Increases
  <2> QED
    BY <2>1, <2>2, <2>3 DEF Increases
<1>4. \A p \in P : h[p] = g[p] /\ p \in 1..n
  OBVIOUS
<1>5. B \in SUBSET Nat
  OBVIOUS
<1> HIDE DEF P, h
<1>6. /\ IsFiniteSet(B) /\ Cardinality(B) = Cardinality(P)
      /\ \A k \in 1..Cardinality(P) : Nth(B, k) = h[Nth(P, k)]
  BY <1>1, <1>2, <1>3, <1>5, NthImage
<1>7. ASSUME NEW k \in 1..Cardinality(P) PROVE w[Nth(P, k)] = all[Nth(B, k)]
  <2>1. Nth(P, k) \in P
    BY <1>1, <1>2, NthOrders
  <2> QED
    BY <1>4, <1>6, <2>1
<1>8. AtPositions(w, P) = AtPositions(all, B)
  BY <1>6, <1>7 DEF AtPositions
<1> QED
  BY <1>3, <1>4, <1>8 DEF P

-----------------------------------------------------------------------------
(* The window *)

\* The positions that a window keeps.
KeptPositions(m) ==
    {i \in 1..Len(m) : IsSystem(m[i]) \/ i >= CutIndex(m)}

LEMMA OneThenOther ==
    ASSUME NEW T, NEW s \in Seq(T), NEW t \in Seq(T)
    PROVE  /\ s \o t \in Seq(T) /\ Len(s \o t) = Len(s) + Len(t)
           /\ \A p \in 1..(Len(s) + Len(t)) :
                (s \o t)[p] = IF p <= Len(s) THEN s[p] ELSE t[p - Len(s)]
  OBVIOUS

LEMMA WindowTakes ==
    ASSUME NEW m \in Seq(Message), OverBudget(m)
    PROVE  LET w == Retained(m)
           IN  /\ w \in Seq(Message)
               /\ \E g : /\ Increases(g, 1..Len(w), KeptPositions(m))
                         /\ \A p \in 1..Len(w) : w[p] = m[g[p]]
<1> DEFINE cut == CutIndex(m)
           S == {i \in 1..(cut - 1) : IsSystem(m[i])}
           k == Cardinality(S)
           head == AtPositions(m, S)
           tail == SubSeq(m, cut, Len(m))
           n == k + (Len(m) - cut + 1)
           g == [p \in 1..n |-> IF p <= k THEN Nth(S, p) ELSE cut + (p - k - 1)]
           w == Retained(m)
<1>1. cut \in 1..Len(m) /\ Len(m) \in Nat /\ cut \in Nat
  <2>1. UserStarts(m) # {}
    BY DEF OverBudget
  <2> QED
    BY <2>1, CutAt
<1> HIDE DEF cut
<1>2. S \in SUBSET Nat /\ S \subseteq 1..(cut - 1) /\ IsFiniteSet(S)
  <2>1. IsFiniteSet(1..(cut - 1))
    BY <1>1, FS_Interval
  <2> QED
    <3>1. S \in SUBSET (1..(cut - 1))
      OBVIOUS
    <3>2. S \in SUBSET Nat
      BY <1>1
    <3> HIDE DEF S
    <3> QED
      BY <2>1, <3>1, <3>2, FS_Subset
<1>3. /\ k \in Nat
      /\ \A p \in 1..k : Nth(S, p) \in S /\ Rank(S, Nth(S, p)) = p - 1
      /\ \A i \in S : /\ Rank(S, i) + 1 \in 1..k
                      /\ Nth(S, Rank(S, i) + 1) = i
      /\ \A i, j \in S : i < j => Rank(S, i) < Rank(S, j)
      /\ \A i \in S : Rank(S, i) \in Nat
  <2> HIDE DEF S
  <2> QED
    BY <1>2, NthOrders, RankOrders
<1>4. w = head \o tail
  BY DEF Retained, cut
<1>5. /\ tail \in Seq(Message) /\ Len(tail) = Len(m) - cut + 1
      /\ \A q \in 1..(Len(m) - cut + 1) : tail[q] = m[cut + q - 1]
  BY <1>1
<1>6. \A p \in 1..k : Nth(S, p) \in 1..(cut - 1) /\ IsSystem(m[Nth(S, p)])
  BY <1>3
<1> HIDE DEF S, k, tail
<1>7. /\ head \in Seq(Message) /\ Len(head) = k
      /\ \A p \in 1..k : head[p] = m[Nth(S, p)]
  <2>1. head = [p \in 1..k |-> m[Nth(S, p)]]
    BY DEF AtPositions, k
  <2>2. \A p \in 1..k : m[Nth(S, p)] \in Message
    BY <1>1, <1>6
  <2> HIDE DEF head
  <2> QED
    BY <1>3, <2>1, <2>2
<1> HIDE DEF head
<1>8. /\ w \in Seq(Message) /\ Len(w) = n /\ n \in Nat
      /\ \A p \in 1..n : w[p] = IF p <= k THEN head[p] ELSE tail[p - k]
  <2> HIDE DEF w
  <2>0. n \in Nat
    BY <1>1, <1>3
  <2>1. w \in Seq(Message) /\ Len(w) = n
    <3>1. head \o tail \in Seq(Message) /\ Len(head \o tail) = Len(head) + Len(tail)
      BY <1>5, <1>7, OneThenOther
    <3> QED
      BY <1>4, <1>5, <1>7, <3>1
  <2>2. \A p \in 1..n : w[p] = IF p <= k THEN head[p] ELSE tail[p - k]
    <3>1. \A p \in 1..(Len(head) + Len(tail)) :
            (head \o tail)[p] = IF p <= Len(head) THEN head[p] ELSE tail[p - Len(head)]
      BY <1>5, <1>7, OneThenOther
    <3> QED
      BY <1>4, <1>5, <1>7, <3>1
  <2> QED
    BY <2>0, <2>1, <2>2
<1>9. ASSUME NEW p \in 1..n PROVE w[p] = m[g[p]]
  <2> HIDE DEF w
  <2>1. CASE p <= k
    <3>1. p \in 1..k
      BY <1>3, <2>1
    <3>2. w[p] = head[p] /\ head[p] = m[Nth(S, p)]
      BY <1>7, <1>8, <2>1, <3>1
    <3>3. g[p] = Nth(S, p)
      BY <2>1
    <3> QED
      BY <3>2, <3>3
  <2>2. CASE ~(p <= k)
    <3>1. p - k \in 1..(Len(m) - cut + 1) /\ cut + (p - k) - 1 = cut + (p - k - 1)
      BY <1>1, <1>3, <2>2
    <3>2. tail[p - k] = m[cut + (p - k - 1)]
      BY <1>5, <3>1
    <3> QED
      BY <1>8, <2>2, <3>2
  <2> QED
    BY <2>1, <2>2
<1>10. Increases(g, 1..n, KeptPositions(m))
  <2>1. ASSUME NEW p \in 1..n PROVE g[p] \in KeptPositions(m)
    <3>1. CASE p <= k
      <4>1. p \in 1..k
        BY <1>3, <3>1
      <4>2. Nth(S, p) \in 1..Len(m) /\ IsSystem(m[Nth(S, p)])
        BY <1>1, <1>6, <4>1
      <4> QED
        BY <3>1, <4>2 DEF KeptPositions
    <3>2. CASE ~(p <= k)
      <4>1. cut + (p - k - 1) \in 1..Len(m) /\ cut + (p - k - 1) >= cut
        BY <1>1, <1>3, <3>2
      <4> QED
        BY <3>2, <4>1 DEF KeptPositions, cut
    <3> QED
      BY <3>1, <3>2
  <2>2. ASSUME NEW i \in KeptPositions(m) PROVE \E p \in 1..n : g[p] = i
    <3>0. i \in 1..Len(m) /\ (IsSystem(m[i]) \/ i >= cut)
      BY DEF KeptPositions, cut
    <3>1. CASE i >= cut
      <4> DEFINE p == i - cut + k + 1
      <4>1. p \in 1..n /\ ~(p <= k) /\ cut + (p - k - 1) = i
        BY <1>1, <1>3, <3>0, <3>1
      <4> HIDE DEF p
      <4> QED
        BY <4>1
    <3>2. CASE ~(i >= cut)
      <4>1. i \in S
        <5>1. i \in 1..(cut - 1)
          BY <1>1, <3>0, <3>2
        <5> QED
          BY <3>0, <3>2, <5>1 DEF S
      <4>2. Rank(S, i) + 1 \in 1..k /\ Nth(S, Rank(S, i) + 1) = i
        BY <1>3, <4>1
      <4>3. Rank(S, i) + 1 \in 1..n /\ Rank(S, i) + 1 <= k
        BY <1>1, <1>3, <4>2
      <4> QED
        BY <4>2, <4>3
    <3> QED
      BY <3>1, <3>2
  <2>3. ASSUME NEW p \in 1..n, NEW r \in 1..n, p < r PROVE g[p] < g[r]
    <3>1. CASE r <= k
      <4>1. p \in 1..k /\ r \in 1..k
        <5>1. p \in Nat /\ r \in Nat /\ 1 <= p /\ 1 <= r
          OBVIOUS
        <5> HIDE DEF n
        <5> QED
          BY <1>3, <2>3, <3>1, <5>1
      <4> DEFINE i == Nth(S, p)
                 j == Nth(S, r)
      <4>2. /\ i \in S /\ j \in S /\ Rank(S, i) = p - 1 /\ Rank(S, j) = r - 1
            /\ i \in Nat /\ j \in Nat
        BY <1>2, <1>3, <4>1
      <4> HIDE DEF i, j
      <4>3. Rank(S, i) < Rank(S, j)
        BY <2>3, <4>2
      <4>4. ~(j < i) /\ i # j
        BY <1>3, <4>2, <4>3
      <4>5. i < j
        BY <4>2, <4>4
      <4> QED
        BY <4>1, <4>5 DEF i, j
    <3>2. CASE ~(r <= k) /\ p <= k
      <4>1. g[p] \in 1..(cut - 1)
        BY <1>3, <1>6, <3>2
      <4>2. g[r] = cut + (r - k - 1) /\ g[r] >= cut /\ g[r] \in Nat
        BY <1>1, <1>3, <3>2
      <4> HIDE DEF g
      <4> QED
        BY <1>1, <4>1, <4>2
    <3>3. CASE ~(r <= k) /\ ~(p <= k)
      BY <1>1, <1>3, <2>3, <3>3
    <3> QED
      BY <3>1, <3>2, <3>3
  <2>4. g \in [1..n -> KeptPositions(m)]
    BY <2>1
  <2> HIDE DEF g
  <2> QED
    BY <2>2, <2>3, <2>4 DEF Increases
<1> HIDE DEF g, n
<1> QED
  BY <1>8, <1>9, <1>10

(* A list whose last messages are another's. *)
LEMMA SuffixOf ==
    ASSUME NEW T, NEW s \in Seq(T), NEW t \in Seq(T), NEW d \in Nat,
           Len(t) = d + Len(s), \A n \in 1..Len(s) : s[n] = t[d + n]
    PROVE  IsSuffix(s, t)
<1> DEFINE a == Reverse(s)
           b == Reverse(t)
           l == Len(s)
<1>1. l \in Nat /\ Len(t) = d + l
  OBVIOUS
<1>2. a = [i \in 1..l |-> s[(l - i) + 1]] /\ b = [i \in 1..(d + l) |-> t[((d + l) - i) + 1]]
  BY <1>1 DEF Reverse
<1>3. /\ \A i \in 1..l : (l - i) + 1 \in 1..l
      /\ \A i \in 1..(d + l) : ((d + l) - i) + 1 \in 1..(d + l)
  BY <1>1
<1>4. a \in Seq(T) /\ Len(a) = l
  <2>1. a \in [1..l -> T]
    BY <1>2, <1>3
  <2> QED
    BY <1>1, <2>1
<1>5. b \in Seq(T) /\ Len(b) = d + l
  <2>1. b \in [1..(d + l) -> T]
    BY <1>1, <1>2, <1>3
  <2> QED
    BY <1>1, <2>1
<1>6. \A i \in 1..l : a[i] = b[i]
  <2> SUFFICES ASSUME NEW i \in 1..l PROVE a[i] = b[i]
    OBVIOUS
  <2>1. a[i] = s[(l - i) + 1] /\ b[i] = t[((d + l) - i) + 1]
    BY <1>1, <1>2
  <2>2. s[(l - i) + 1] = t[d + ((l - i) + 1)]
    BY <1>3
  <2>3. d + ((l - i) + 1) = ((d + l) - i) + 1
    BY <1>1
  <2> QED
    BY <2>1, <2>2, <2>3
<1> HIDE DEF a, b, l
<1>7. SubSeq(a, 1, Len(a)) = SubSeq(b, 1, Len(a))
  <2>1. SubSeq(a, 1, l) \in Seq(T) /\ Len(SubSeq(a, 1, l)) = l
    BY <1>1, <1>4
  <2>2. SubSeq(b, 1, l) \in Seq(T) /\ Len(SubSeq(b, 1, l)) = l
    BY <1>1, <1>5
  <2>3. \A i \in 1..l : SubSeq(a, 1, l)[i] = SubSeq(b, 1, l)[i]
    BY <1>1, <1>4, <1>5, <1>6
  <2>4. SubSeq(a, 1, l) = SubSeq(b, 1, l)
    BY <2>1, <2>2, <2>3
  <2> QED
    BY <1>4, <2>4
<1>8. Len(a) <= Len(b)
  BY <1>1, <1>4, <1>5
<1> QED
  BY <1>7, <1>8 DEF IsSuffix, IsPrefix, a, b

\* A window is what the backend accepts and within the target.
Whole(all) ==
    LET w == Retained(all)
        talk == AtPositions(w, NonSystem(w))
    IN  /\ talk[1].role = "user"
        /\ IsSuffix(talk, AtPositions(all, NonSystem(all)))
        /\ AtPositions(w, DOMAIN w \ NonSystem(w))
             = AtPositions(all, DOMAIN all \ NonSystem(all))
        /\ \/ TokensFrom(w, 1) <= HistoryTarget
           \/ Cardinality(UserStarts(w)) = 1

LEMMA WindowWhole ==
    ASSUME NEW m \in Seq(Message), OverBudget(m)
    PROVE  Whole(m)
<1> DEFINE w == Retained(m)
           L == Len(m)
           n == Len(w)
           K == KeptPositions(m)
           cut == CutIndex(m)
           A == {i \in NonSystem(m) : i >= cut}
           Systems == DOMAIN m \ NonSystem(m)
           U == {i \in UserStarts(m) : i >= cut}
<1>1. PICK g : Increases(g, 1..n, K) /\ \A p \in 1..n : w[p] = m[g[p]]
  BY WindowTakes
<1>2. w \in Seq(Message) /\ n \in Nat /\ DOMAIN w = 1..n
  BY WindowTakes
<1>3. /\ cut \in UserStarts(m) /\ cut \in 1..L /\ L \in Nat /\ DOMAIN m = 1..L
  <2>1. UserStarts(m) # {}
    BY DEF OverBudget
  <2> QED
    BY <2>1, CutAt
<1>4. /\ K \in SUBSET Nat /\ A \in SUBSET K /\ Systems \in SUBSET K /\ U \in SUBSET K
      /\ NonSystem(m) \in SUBSET (1..L)
  BY <1>3 DEF KeptPositions, NonSystem, UserStarts, IsSystem
<1>5. \A p \in 1..n : g[p] \in K /\ g[p] \in 1..L
  BY <1>1 DEF Increases, KeptPositions
<1>6. /\ NonSystem(w) = {p \in 1..n : g[p] \in A}
      /\ DOMAIN w \ NonSystem(w) = {p \in 1..n : g[p] \in Systems}
      /\ UserStarts(w) = {p \in 1..n : g[p] \in U}
  <2>1. \A p \in 1..n : IsSystem(w[p]) <=> IsSystem(m[g[p]])
    BY <1>1
  <2>2. \A p \in 1..n : g[p] \in A <=> ~ IsSystem(w[p])
    BY <1>3, <1>5, <2>1 DEF KeptPositions, NonSystem
  <2>3. \A p \in 1..n : g[p] \in Systems <=> IsSystem(w[p])
    BY <1>3, <1>5, <2>1 DEF NonSystem
  <2>4. \A p \in 1..n : g[p] \in U <=> w[p].role = "user"
    BY <1>1, <1>3, <1>5 DEF KeptPositions, UserStarts, IsSystem
  <2> HIDE DEF A, Systems, U, w, n
  <2>5. NonSystem(w) = {p \in 1..n : ~ IsSystem(w[p])}
    BY <1>2 DEF NonSystem
  <2>6. DOMAIN w \ NonSystem(w) = {p \in 1..n : IsSystem(w[p])}
    BY <1>2, <2>5
  <2>7. UserStarts(w) = {p \in 1..n : w[p].role = "user"}
    BY <1>2 DEF UserStarts
  <2> QED
    BY <2>2, <2>3, <2>4, <2>5, <2>6, <2>7
<1>7. \A i \in A : i \in Nat
  BY <1>4
<1>8. IsFiniteSet(NonSystem(m)) /\ NonSystem(m) \in SUBSET Nat
  <2>1. IsFiniteSet(1..L)
    BY <1>3, FS_Interval
  <2> QED
    BY <1>4, <2>1, FS_Subset
<1> DEFINE d == Cardinality(NonSystem(m)) - Cardinality(A)
<1>9. /\ IsFiniteSet(A) /\ Cardinality(A) \in Nat /\ d \in Nat
      /\ \A k \in 1..Cardinality(A) : Nth(A, k) = Nth(NonSystem(m), d + k)
  BY <1>3, <1>8, NthOfLast
<1>10. cut \in A
  <2>1. m[cut].role = "user" /\ cut \in DOMAIN m
    BY <1>3 DEF UserStarts
  <2> QED
    BY <1>3, <2>1 DEF NonSystem, IsSystem
<1> HIDE DEF w, n, L, cut, A, K, Systems, U
<1>11. /\ AtPositions(w, NonSystem(w)) = AtPositions(m, A)
       /\ AtPositions(w, DOMAIN w \ NonSystem(w)) = AtPositions(m, Systems)
       /\ \E h : Increases(h, NonSystem(w), A) /\ \A p \in NonSystem(w) : h[p] = g[p]
  <2>1. ASSUME NEW B \in SUBSET K
        PROVE  /\ AtPositions(w, From(g, n, B)) = AtPositions(m, B)
               /\ \E h : /\ Increases(h, From(g, n, B), B)
                         /\ \A p \in From(g, n, B) : h[p] = g[p]
    <3>1. /\ n \in Nat /\ K \in SUBSET Nat /\ Increases(g, 1..n, K) /\ B \in SUBSET K
          /\ \A p \in 1..n : w[p] = m[g[p]]
      BY <1>1, <1>2, <1>4
    <3> QED
      BY <3>1, AtImage
  <2>2. /\ From(g, n, A) = NonSystem(w)
        /\ From(g, n, Systems) = DOMAIN w \ NonSystem(w)
    BY <1>6 DEF From
  <2> QED
    BY <1>4, <2>1, <2>2
<1>12. AtPositions(m, A)[1].role = "user"
  <2>1. Rank(A, cut) = 0
    <3>1. {j \in A : j < cut} = {}
      BY <1>3, <1>7 DEF A
    <3> QED
      BY <3>1, FS_EmptySet DEF Rank
  <2>2. A \in SUBSET Nat
    BY <1>7
  <2>3. Rank(A, cut) + 1 \in 1..Cardinality(A) /\ Nth(A, Rank(A, cut) + 1) = cut
    BY <1>9, <1>10, <2>2, NthOrders
  <2>4. 1 \in 1..Cardinality(A) /\ Nth(A, 1) = cut
    BY <2>1, <2>3
  <2>5. AtPositions(m, A)[1] = m[cut]
    BY <2>4 DEF AtPositions
  <2> QED
    BY <1>3, <2>5 DEF UserStarts
<1>13. IsSuffix(AtPositions(m, A), AtPositions(m, NonSystem(m)))
  <2> DEFINE s == AtPositions(m, A)
             t == AtPositions(m, NonSystem(m))
             a == Cardinality(A)
             b == Cardinality(NonSystem(m))
  <2>1. A \in SUBSET Nat /\ A \subseteq NonSystem(m)
    BY <1>7 DEF A
  <2>2. b \in Nat /\ a \in Nat /\ b = d + a
    <3>1. b \in Nat
      BY <1>8, FS_CardinalityType
    <3> QED
      BY <1>9, <3>1
  <2>3. /\ \A k \in 1..a : Nth(A, k) \in A
        /\ \A k \in 1..b : Nth(NonSystem(m), k) \in NonSystem(m)
    BY <1>8, <1>9, <2>1, NthOrders
  <2>4. \A i \in NonSystem(m) : m[i] \in Message
    BY <1>3, <1>4 DEF L
  <2>5. s = [k \in 1..a |-> m[Nth(A, k)]] /\ t = [k \in 1..b |-> m[Nth(NonSystem(m), k)]]
    BY DEF AtPositions
  <2> HIDE DEF s, t, a, b, d
  <2>6. s \in [1..a -> Message] /\ t \in [1..b -> Message]
    BY <2>1, <2>3, <2>4, <2>5
  <2>7. s \in Seq(Message) /\ Len(s) = a /\ t \in Seq(Message) /\ Len(t) = b
    BY <2>2, <2>6
  <2>8. \A k \in 1..a : s[k] = t[d + k]
    <3> SUFFICES ASSUME NEW k \in 1..a PROVE s[k] = t[d + k]
      OBVIOUS
    <3>1. d + k \in 1..b
      BY <1>9, <2>2
    <3>2. s[k] = m[Nth(A, k)] /\ t[d + k] = m[Nth(NonSystem(m), d + k)]
      BY <2>5, <3>1
    <3>3. Nth(A, k) = Nth(NonSystem(m), d + k)
      BY <1>9 DEF a
    <3> QED
      BY <3>2, <3>3
  <2>9. IsSuffix(s, t)
    BY <1>9, <2>2, <2>7, <2>8, SuffixOf
  <2> QED
    BY <2>9 DEF s, t
<1>14. TokensFrom(w, 1) = TokensFrom(m, cut)
  <2>1. /\ Sized(w, Rest(w, 1)) /\ TokensFrom(w, 1) = Weigh(w, Rest(w, 1))
        /\ Sized(m, Rest(m, cut)) /\ TokensFrom(m, cut) = Weigh(m, Rest(m, cut))
    <3>1. cut \in Nat
      BY <1>3
    <3> QED
      BY <1>2, <3>1, RestSized
  <2>2. Rest(m, cut) = A /\ Rest(w, 1) = NonSystem(w)
    <3>1. Rest(m, cut) = A
      BY DEF Rest, A
    <3>2. \A p \in NonSystem(w) : p >= 1
      BY <1>2 DEF NonSystem
    <3> QED
      BY <3>1, <3>2 DEF Rest
  <2>3. PICK h : Increases(h, NonSystem(w), A) /\ \A p \in NonSystem(w) : h[p] = g[p]
    BY <1>11
  <2>4. NonSystem(w) \in SUBSET (1..n) /\ NonSystem(w) \in SUBSET Nat /\ A \in SUBSET Nat
    BY <1>2, <1>7 DEF NonSystem
  <2>5. \A p \in NonSystem(w) : Weight(w, p) = Weight(m, h[p])
    BY <1>1, <2>3, <2>4 DEF Weight
  <2>6. Weigh(w, NonSystem(w)) = Weigh(m, A)
    BY <2>1, <2>2, <2>3, <2>4, <2>5, WeighImage
  <2> QED
    BY <2>1, <2>2, <2>6
<1>15. TokensFrom(w, 1) <= HistoryTarget \/ Cardinality(UserStarts(w)) = 1
  <2> DEFINE fitting == {i \in UserStarts(m) : TokensFrom(m, i) <= HistoryTarget}
  <2>1. /\ fitting = {} => \A i \in UserStarts(m) : i <= cut
        /\ fitting # {} => cut \in fitting
    <3>1. UserStarts(m) # {}
      BY <1>3
    <3> QED
      BY <3>1, CutAt DEF cut
  <2>2. CASE fitting # {}
    BY <1>14, <2>1, <2>2
  <2>3. CASE fitting = {}
    <3>1. U = {cut}
      <4>1. \A i \in UserStarts(m) : i <= cut /\ i \in Nat
        BY <2>1, <2>3 DEF UserStarts
      <4>2. cut \in Nat
        BY <1>3
      <4>3. \A i \in UserStarts(m) : i >= cut => i = cut
        BY <4>1, <4>2
      <4>4. cut \in U
        BY <1>3, <4>2 DEF U
      <4> QED
        BY <4>3, <4>4 DEF U
    <3>2. PICK p \in 1..n : g[p] = cut
      <4>1. cut \in K
        BY <1>4, <3>1
      <4> QED
        BY <1>1, <4>1 DEF Increases
    <3>3. \A q, r \in 1..n : g[q] = g[r] => q = r
      <4>1. IsFiniteSet(1..n) /\ 1..n \in SUBSET Nat
        BY <1>2, FS_Interval
      <4> DEFINE P == 1..n
      <4>2. IsFiniteSet(P) /\ P \in SUBSET Nat /\ Increases(g, P, K) /\ K \in SUBSET Nat
        BY <1>1, <1>4, <4>1
      <4> HIDE DEF P
      <4>3. \A q, r \in P : g[q] = g[r] => q = r
        BY <4>2, NthImage
      <4> QED
        BY <4>3 DEF P
    <3>4. UserStarts(w) = {p}
      BY <1>6, <3>1, <3>2, <3>3
    <3> QED
      BY <3>4, FS_Singleton
  <2> QED
    BY <2>2, <2>3
<1>16. DOMAIN m \ NonSystem(m) = Systems
  BY DEF Systems
<1> QED
  BY <1>11, <1>12, <1>13, <1>15, <1>16 DEF Whole, w

(* A conversation over its budget is sent as what the backend accepts and within
   the target: system messages, a user message, and all to the end. *)
THEOREM WindowIsWholeEver == Spec => []WindowIsWhole
<1>1. Init => ConversationInv
  BY InitConversation
<1>2. ConversationInv /\ [Next]_vars => ConversationInv'
  BY NextConversation
<1>3. ConversationInv => WindowIsWhole
  <2> SUFFICES ASSUME ConversationInv, NEW c \in Clients, OverBudget(conversation[c])
               PROVE  Whole(conversation[c])
    BY DEF WindowIsWhole, Whole
  <2>1. conversation[c] \in Seq(Message)
    BY DEF ConversationInv
  <2> QED
    BY <2>1, WindowWhole
<1> QED
  BY <1>1, <1>2, <1>3, PTL DEF Spec

-----------------------------------------------------------------------------
(* Follow-ups: a request puts back in front of every earlier turn what the     *)
(* cache has for it, so the prompt of the next question begins with the prompt *)
(* sent before.  The invariant, for each client: what was sent is what the     *)
(* cache remembers of it, as far as it still has the keys; and what a request  *)
(* looked up so far is what was sent, or the cache has since given it up.      *)

\* Clients that keep their memories apart: the keys of each are its own.
AgentsApart == \A c, d \in Clients : AgentOf[c] = AgentOf[d] => c = d

\* What the cache has for a key, as apply_sticky_history shows it.
Shows(e, k) == IF k \in DOMAIN e /\ e[k] # NoEntry THEN <<Block(e[k], FALSE, 0)>> ELSE <<>>

\* A prompt is the messages with blocks at the user messages.
Dressed(prompt, m) ==
    /\ prompt = [i \in 1..Len(m) |-> prompt[i]]
    /\ \A i \in 1..Len(m) :
         prompt[i] = [role |-> m[i].role, content |-> m[i].content, blocks |-> prompt[i].blocks]
    /\ \A i \in 1..Len(m) : m[i].role # "user" => prompt[i].blocks = <<>>

LEMMA PlainIsDressed ==
    ASSUME NEW m \in Seq(Message)
    PROVE  Dressed(Plain(m), m) /\ \A i \in 1..Len(m) : Plain(m)[i].blocks = <<>>
<1>1. Plain(m) = [i \in 1..Len(m) |->
        [role |-> m[i].role, content |-> m[i].content, blocks |-> <<>>]]
  BY DEF Plain
<1>2. \A i \in 1..Len(m) : Plain(m)[i] =
        [role |-> m[i].role, content |-> m[i].content, blocks |-> <<>>]
  BY <1>1
<1>3. Plain(m) = [i \in 1..Len(m) |-> Plain(m)[i]]
  BY <1>1
<1> QED
  BY <1>2, <1>3 DEF Dressed

LEMMA AboveDresses ==
    ASSUME NEW m \in Seq(Message), NEW p, Dressed(p, m), NEW i \in UserStarts(m),
           p[i].blocks = <<>>, NEW b
    PROVE  /\ Dressed(AboveUser(p, i, b), m)
           /\ AboveUser(p, i, b)[i].blocks = <<b>>
           /\ \A j \in 1..Len(m) \ {i} : AboveUser(p, i, b)[j] = p[j]
<1> DEFINE q == AboveUser(p, i, b)
           n == Len(m)
<1>1. i \in 1..n /\ m[i].role = "user" /\ n \in Nat
  BY DEF UserStarts
<1>2. p = [j \in 1..n |-> p[j]]
  BY DEF Dressed
<1>3. p[i] = [role |-> m[i].role, content |-> m[i].content, blocks |-> p[i].blocks]
  BY <1>1 DEF Dressed
<1>4. q = [p EXCEPT ![i] = [p[i] EXCEPT !.blocks = <<b>> \o p[i].blocks]]
  BY DEF AboveUser
<1>5. <<b>> \o p[i].blocks = <<b>>
  <2>1. <<b>> \o <<>> = <<b>>
    OBVIOUS
  <2> QED
    BY <2>1
<1> HIDE DEF q, n
<1>6. DOMAIN p = 1..n
  BY <1>2
<1>7. q = [j \in 1..n |-> q[j]] /\ \A j \in 1..n \ {i} : q[j] = p[j]
  BY <1>2, <1>4, <1>6
<1>8. q[i] = [role |-> m[i].role, content |-> m[i].content, blocks |-> <<b>>]
  <2>1. q[i] = [p[i] EXCEPT !.blocks = <<b>>]
    BY <1>1, <1>4, <1>5, <1>6
  <2> QED
    BY <1>3, <2>1
<1>9. q[i].blocks = <<b>>
  BY <1>8
<1>10. Dressed(q, m)
  <2>1. \A j \in 1..n : q[j] = [role |-> m[j].role, content |-> m[j].content,
                               blocks |-> q[j].blocks]
    <3> SUFFICES ASSUME NEW j \in 1..n
                 PROVE  q[j] = [role |-> m[j].role, content |-> m[j].content,
                                blocks |-> q[j].blocks]
      OBVIOUS
    <3>1. CASE j = i
      BY <1>8, <1>9, <3>1
    <3>2. CASE j # i
      BY <1>7, <3>2 DEF Dressed, n
    <3> QED
      BY <3>1, <3>2
  <2>2. \A j \in 1..n : m[j].role # "user" => q[j].blocks = <<>>
    BY <1>1, <1>7 DEF Dressed, n
  <2> QED
    BY <1>7, <2>1, <2>2 DEF Dressed, n
<1> QED
  BY <1>7, <1>9, <1>10 DEF q, n

\* Prompts of a history and of its beginning, with the same blocks there.
LEMMA DressedPrefix ==
    ASSUME NEW m \in Seq(Message), NEW n \in Seq(Message), IsPrefix(m, n),
           NEW p, NEW q, Dressed(p, m), Dressed(q, n),
           \A i \in UserStarts(m) : p[i].blocks = q[i].blocks
    PROVE  IsPrefix(p, q)
<1>1. /\ Len(m) \in Nat /\ Len(n) \in Nat /\ Len(m) <= Len(n)
      /\ \A i \in 1..Len(m) : m[i] = n[i]
  BY DEF IsPrefix
<1>2. ASSUME NEW i \in 1..Len(m) PROVE p[i] = q[i]
  <2>1. i \in 1..Len(n) /\ m[i] = n[i]
    BY <1>1
  <2>2. p[i].blocks = q[i].blocks
    <3>1. CASE m[i].role = "user"
      <4>1. i \in UserStarts(m)
        BY <3>1 DEF UserStarts
      <4> QED
        BY <4>1
    <3>2. CASE m[i].role # "user"
      BY <2>1, <3>2 DEF Dressed
    <3> QED
      BY <3>1, <3>2
  <2> QED
    BY <2>1, <2>2 DEF Dressed
<1>3. p = [i \in 1..Len(m) |-> p[i]] /\ q = [i \in 1..Len(n) |-> q[i]]
  BY DEF Dressed
<1> DEFINE P == {p[i] : i \in 1..Len(m)} \cup {q[i] : i \in 1..Len(n)}
<1>4. p \in Seq(P) /\ Len(p) = Len(m) /\ q \in Seq(P) /\ Len(q) = Len(n)
  <2>1. p \in [1..Len(m) -> P] /\ q \in [1..Len(n) -> P]
    BY <1>3
  <2> HIDE DEF P
  <2> QED
    BY <1>1, <2>1
<1> HIDE DEF P
<1>5. SubSeq(p, 1, Len(p)) = SubSeq(q, 1, Len(p))
  BY <1>1, <1>2, <1>4
<1> QED
  BY <1>1, <1>4, <1>5 DEF IsPrefix

\* A history over the budget stays over it as it goes on.
LEMMA OverGrows ==
    ASSUME NEW m \in Seq(Message), NEW n \in Seq(Message), IsPrefix(m, n), OverBudget(m)
    PROVE  OverBudget(n)
<1>1. /\ Len(m) \in Nat /\ Len(n) \in Nat /\ Len(m) <= Len(n)
      /\ \A i \in 1..Len(m) : m[i] = n[i]
  BY DEF IsPrefix
<1>2. NonSystem(m) \subseteq NonSystem(n) /\ UserStarts(m) \subseteq UserStarts(n)
  BY <1>1 DEF NonSystem, UserStarts
<1>3. Rest(m, 1) \subseteq Rest(n, 1) /\ Rest(m, 1) \subseteq 1..Len(m)
  BY <1>2 DEF Rest, NonSystem
<1>4. /\ Sized(m, Rest(m, 1)) /\ TokensFrom(m, 1) = Weigh(m, Rest(m, 1))
      /\ Sized(n, Rest(n, 1)) /\ TokensFrom(n, 1) = Weigh(n, Rest(n, 1))
  BY RestSized
<1>5. Sized(n, Rest(m, 1))
  BY <1>3, <1>4, FS_Subset DEF Sized
<1>6. \A j \in Rest(m, 1) : Weight(m, j) = Weight(n, j)
  BY <1>1, <1>3 DEF Weight
<1>7. Weigh(m, Rest(m, 1)) = Weigh(n, Rest(m, 1))
  BY <1>4, <1>5, <1>6, WeighSame
<1>8. Weigh(n, Rest(m, 1)) <= Weigh(n, Rest(n, 1))
  BY <1>3, <1>4, WeighMonotone
<1>9. TokensFrom(m, 1) \in Nat /\ TokensFrom(n, 1) \in Nat
  BY <1>4, WeighBasics
<1>10. TokensFrom(m, 1) <= TokensFrom(n, 1)
  BY <1>4, <1>7, <1>8
<1>11. HistoryBudget \in Nat
  BY HistoryAssumption
<1> QED
  BY <1>2, <1>9, <1>10, <1>11 DEF OverBudget

-----------------------------------------------------------------------------

IsRequest(r) ==
    r = [stage |-> r.stage, window |-> r.window, dropped |-> r.dropped,
         prompt |-> r.prompt, next |-> r.next, shown |-> r.shown]

\* A request for the whole history m: the turns before next have what the cache
\* has for them, or had.
Hist(c, r, m, e) ==
    /\ r.window = m /\ r.dropped = 0 /\ UserStarts(m) # {}
    /\ r.next \in 1..LastUser(m)
    /\ Dressed(r.prompt, m)
    /\ \A i \in UserStarts(m) : r.next <= i => r.prompt[i].blocks = <<>>
    /\ \A i \in UserStarts(m) :
         i < r.next /\ Key(c, m, i) \in DOMAIN e =>
           r.prompt[i].blocks = Shows(e, Key(c, m, i))

\* What was sent is what the cache remembers of it.
SentOk(c, s, e) ==
    /\ Dressed(s.prompt, s.asked)
    /\ \A i \in UserStarts(s.asked) :
         Key(c, s.asked, i) \in DOMAIN e =>
           s.prompt[i].blocks = Shows(e, Key(c, s.asked, i))

\* The turns looked up so far show what they showed, or the cache gave it up.
Follow(c, r, s, e) ==
    \A i \in UserStarts(s.asked) :
      i < r.next =>
        \/ r.prompt[i].blocks = s.prompt[i].blocks
        \/ s.prompt[i].blocks # <<>> /\ Key(c, s.asked, i) \notin DOMAIN e

Quiet(r) == r.stage \in {"idle", "refused"}

ClientOk(c, r, s, m, e) ==
    /\ IsRequest(r)
    /\ m \in Seq(Message) /\ s.asked \in Seq(Message)
    /\ UserStarts(m) # {} \/ (m = Opening /\ Quiet(r))
    /\ s.asked = <<>> \/ s.facts \/ OverBudget(s.asked) \/ SentOk(c, s, e)
    /\ r.stage = "history" /\ ~ OverBudget(m) => Hist(c, r, m, e)
    /\ r.stage = "history" /\ ~ OverBudget(m) /\ FollowsUp(s.asked, m) /\ ~ s.facts
         => Follow(c, r, s, e)

\* The cache f has lost entries of e, but nothing else became of those of c.
Kept(c, f, e) ==
    \A k \in DOMAIN f : k[1] = AgentOf[c] => k \in DOMAIN e /\ f[k] = e[k]

LEMMA KeyIsOwn ==
    ASSUME NEW c \in Clients, NEW m, NEW i
    PROVE  Key(c, m, i)[1] = AgentOf[c]
  BY DEF Key

LEMMA ClientKept ==
    ASSUME NEW c \in Clients, NEW r, NEW s, NEW m, NEW e, NEW f,
           ClientOk(c, r, s, m, e), Kept(c, f, e)
    PROVE  ClientOk(c, r, s, m, f)
<1>1. \A n, i : Key(c, n, i) \in DOMAIN f =>
        Key(c, n, i) \in DOMAIN e /\ Shows(f, Key(c, n, i)) = Shows(e, Key(c, n, i))
  BY KeyIsOwn DEF Kept, Shows
<1>2. SentOk(c, s, e) => SentOk(c, s, f)
  BY <1>1 DEF SentOk
<1>3. Hist(c, r, m, e) => Hist(c, r, m, f)
  BY <1>1 DEF Hist
<1>4. Follow(c, r, s, e) => Follow(c, r, s, f)
  BY <1>1 DEF Follow
<1> QED
  BY <1>2, <1>3, <1>4 DEF ClientOk

\* Between requests only what was sent matters.
LEMMA ClientBetween ==
    ASSUME NEW c, NEW r, NEW s, NEW m, NEW e, ClientOk(c, r, s, m, e),
           NEW q, IsRequest(q), q.stage # "history",
           NEW n \in Seq(Message), UserStarts(n) # {} \/ (n = Opening /\ Quiet(q))
    PROVE  ClientOk(c, q, s, n, e)
  BY DEF ClientOk

LEMMA ClientStands ==
    ASSUME NEW c, NEW q, IsRequest(q), q.stage # "history",
           NEW n \in Seq(Message), UserStarts(n) # {},
           NEW s, s.asked \in Seq(Message), NEW e,
           s.asked = <<>> \/ s.facts \/ OverBudget(s.asked) \/ SentOk(c, s, e)
    PROVE  ClientOk(c, q, s, n, e)
  BY DEF ClientOk

LEMMA WholeWindow ==
    ASSUME NEW m, ~ OverBudget(m)
    PROVE  Retained(m) = m /\ Cardinality(DroppedMessages(m)) = 0
  BY FS_EmptySet DEF Retained, DroppedMessages

LEMMA LastUserOf ==
    ASSUME NEW m \in Seq(Message), UserStarts(m) # {}
    PROVE  /\ LastUser(m) \in UserStarts(m) /\ LastUser(m) \in 1..Len(m)
           /\ \A i \in UserStarts(m) : i \in Nat /\ i <= LastUser(m)
<1>1. UserStarts(m) \in SUBSET (1..Len(m)) /\ Len(m) \in Nat
  BY DEF UserStarts
<1>2. LastUser(m) \in UserStarts(m) /\ \A i \in UserStarts(m) : i <= LastUser(m)
  BY <1>1, MaxOf DEF LastUser
<1> QED
  BY <1>1, <1>2

LEMMA DressedUsers ==
    ASSUME NEW m \in Seq(Message), NEW p, Dressed(p, m)
    PROVE  UserStarts(p) = UserStarts(m)
<1>1. DOMAIN p = 1..Len(m) /\ \A i \in 1..Len(m) : p[i].role = m[i].role
  BY DEF Dressed
<1> QED
  BY <1>1 DEF UserStarts

\* A request comes in.
LEMMA ClientReceives ==
    ASSUME NEW c, NEW r, NEW s, NEW m, NEW e, ClientOk(c, r, s, m, e),
           UserStarts(m) # {},
           NEW q, q = [stage |-> "history", window |-> Retained(m),
                       dropped |-> Cardinality(DroppedMessages(m)),
                       prompt |-> Plain(Retained(m)), next |-> 1, shown |-> {}]
    PROVE  ClientOk(c, q, s, m, e)
<1>1. IsRequest(q) /\ q.next = 1 /\ q.stage = "history"
  BY DEF IsRequest
<1>2. m \in Seq(Message) /\ s.asked \in Seq(Message)
  BY DEF ClientOk
<1>3. ASSUME ~ OverBudget(m) PROVE Hist(c, q, m, e)
  <2>1. q.window = m /\ q.dropped = 0 /\ q.prompt = Plain(m)
    BY <1>3, WholeWindow
  <2>2. 1 \in 1..LastUser(m) /\ \A i \in UserStarts(m) : i \in 1..Len(m)
    BY <1>2, LastUserOf DEF UserStarts
  <2> QED
    BY <1>1, <1>2, <2>1, <2>2, PlainIsDressed DEF Hist
<1>4. Follow(c, q, s, e)
  BY <1>1, <1>2 DEF Follow, UserStarts
<1> QED
  BY <1>1, <1>2, <1>3, <1>4 DEF ClientOk

\* One of the earlier turns is looked up.
LookedUp(c, r, e) ==
    LET i == Min(EarlierTurns(r))
        k == Key(c, r.window, i)
        hits == IF k \in DOMAIN e THEN e[k] ELSE NoEntry
    IN  [r EXCEPT !.next = i + 1,
                  !.shown = @ \cup Ids(hits),
                  !.prompt = IF hits = NoEntry THEN @
                             ELSE AboveUser(@, i, Block(hits, FALSE, 0))]

LooksUp(c, r, m, e, i, q) ==
    /\ IsRequest(r) /\ m \in Seq(Message) /\ r.window = m /\ Dressed(r.prompt, m)
    /\ \A j \in UserStarts(m) : r.next <= j => r.prompt[j].blocks = <<>>
    /\ Sticky /\ EarlierTurns(r) # {}
    /\ i = Min(EarlierTurns(r)) /\ q = LookedUp(c, r, e)

LEMMA LookupShows ==
    ASSUME NEW c, NEW r, NEW m, NEW e, NEW i, NEW q, LooksUp(c, r, m, e, i, q)
    PROVE  /\ i \in UserStarts(m) /\ r.next <= i /\ i < LastUser(m)
           /\ \A j \in UserStarts(m) : r.next <= j /\ j < LastUser(m) => i <= j
           /\ IsRequest(q) /\ q.stage = r.stage /\ q.next = i + 1
           /\ q.window = m /\ q.dropped = r.dropped
           /\ q.shown = r.shown \cup
                Ids(IF Key(c, m, i) \in DOMAIN e THEN e[Key(c, m, i)] ELSE NoEntry)
           /\ Dressed(q.prompt, m)
           /\ q.prompt[i].blocks = Shows(e, Key(c, m, i))
           /\ \A j \in 1..Len(m) \ {i} : q.prompt[j] = r.prompt[j]
<1> DEFINE T == EarlierTurns(r)
           k == Key(c, m, i)
           hits == IF k \in DOMAIN e THEN e[k] ELSE NoEntry
           prompt == IF hits = NoEntry THEN r.prompt
                     ELSE AboveUser(r.prompt, i, Block(hits, FALSE, 0))
<1>0. /\ IsRequest(r) /\ m \in Seq(Message) /\ r.window = m /\ Dressed(r.prompt, m)
      /\ \A j \in UserStarts(m) : r.next <= j => r.prompt[j].blocks = <<>>
      /\ Sticky /\ EarlierTurns(r) # {}
      /\ i = Min(EarlierTurns(r)) /\ q = LookedUp(c, r, e)
  BY DEF LooksUp
<1>1. r.window = m /\ Dressed(r.prompt, m)
      /\ \A j \in UserStarts(m) : r.next <= j => r.prompt[j].blocks = <<>>
  BY <1>0
<1>2. T = {j \in UserStarts(m) : r.next <= j /\ j < LastUser(m)}
  BY <1>0, <1>1 DEF EarlierTurns
<1>3. T \in SUBSET Nat
  BY <1>0, <1>2 DEF UserStarts
<1>4. i \in T /\ \A j \in T : i <= j
  BY <1>0, <1>3, MinOf
<1>5. q = [r EXCEPT !.next = i + 1, !.shown = r.shown \cup Ids(hits), !.prompt = prompt]
  BY <1>0, <1>1 DEF LookedUp
<1>6. IsRequest(q) /\ q.stage = r.stage /\ q.next = i + 1 /\ q.window = r.window
      /\ q.dropped = r.dropped /\ q.prompt = prompt /\ q.shown = r.shown \cup Ids(hits)
  <2> HIDE DEF prompt, hits
  <2> QED
    BY <1>0, <1>5 DEF IsRequest
<1>7. i \in UserStarts(m) /\ r.prompt[i].blocks = <<>> /\ i \in 1..Len(m)
  <2>1. i \in UserStarts(m) /\ r.next <= i
    BY <1>2, <1>4
  <2> QED
    BY <1>0, <1>1, <2>1 DEF UserStarts
<1>8. /\ Dressed(prompt, m)
      /\ prompt[i].blocks = Shows(e, k)
      /\ \A j \in 1..Len(m) \ {i} : prompt[j] = r.prompt[j]
  <2>1. CASE hits = NoEntry
    BY <1>1, <1>7, <2>1 DEF Shows
  <2>2. CASE hits # NoEntry
    <3>1. Shows(e, k) = <<Block(hits, FALSE, 0)>>
      BY <2>2 DEF Shows
    <3>2. prompt = AboveUser(r.prompt, i, Block(hits, FALSE, 0))
      BY <2>2
    <3> DEFINE b == Block(hits, FALSE, 0)
    <3> HIDE DEF prompt, hits, k, b
    <3>3. /\ Dressed(AboveUser(r.prompt, i, b), m)
          /\ AboveUser(r.prompt, i, b)[i].blocks = <<b>>
          /\ \A j \in 1..Len(m) \ {i} : AboveUser(r.prompt, i, b)[j] = r.prompt[j]
      BY <1>0, <1>1, <1>7, AboveDresses
    <3> QED
      BY <3>1, <3>2, <3>3 DEF b
  <2> QED
    BY <2>1, <2>2
<1> HIDE DEF prompt, hits, k
<1>9. \A j \in UserStarts(m) : r.next <= j /\ j < LastUser(m) => i <= j
  BY <1>2, <1>4
<1>10. r.next <= i /\ i < LastUser(m)
  BY <1>2, <1>4
<1> QED
  BY <1>1, <1>6, <1>7, <1>8, <1>9, <1>10 DEF k, hits

LEMMA LookupIsRequest ==
    ASSUME NEW c, NEW r, IsRequest(r), NEW e
    PROVE  IsRequest(LookedUp(c, r, e)) /\ LookedUp(c, r, e).stage = r.stage
<1> DEFINE q == LookedUp(c, r, e)
<1>1. \E n, shown, prompt : q = [r EXCEPT !.next = n, !.shown = shown, !.prompt = prompt]
  BY DEF LookedUp
<1> HIDE DEF q
<1>2. PICK n, shown, prompt : q = [r EXCEPT !.next = n, !.shown = shown, !.prompt = prompt]
  BY <1>1
<1>3. IsRequest(q) /\ q.stage = r.stage
  BY <1>2 DEF IsRequest
<1> QED
  BY <1>3 DEF q

LEMMA PrefixKeys ==
    ASSUME NEW c, NEW m \in Seq(Message), NEW n \in Seq(Message), IsPrefix(m, n)
    PROVE  /\ UserStarts(m) \subseteq UserStarts(n)
           /\ Len(m) \in Nat /\ Len(m) <= Len(n)
           /\ \A i \in UserStarts(m) : i \in 1..Len(m) /\ Key(c, m, i) = Key(c, n, i)
<1>1. /\ Len(m) \in Nat /\ Len(n) \in Nat /\ Len(m) <= Len(n)
      /\ \A i \in 1..Len(m) : m[i] = n[i]
  BY DEF IsPrefix
<1>2. UserStarts(m) \subseteq UserStarts(n) /\ \A i \in UserStarts(m) : i \in 1..Len(m)
  BY <1>1 DEF UserStarts
<1>3. ASSUME NEW i \in 1..Len(m) PROVE SubSeq(m, 1, i) = SubSeq(n, 1, i)
  BY <1>1
<1> QED
  BY <1>1, <1>2, <1>3 DEF Key

LEMMA ClientLooksUp ==
    ASSUME NEW c, NEW r, NEW s, NEW m, NEW e, ClientOk(c, r, s, m, e),
           r.stage = "history", Sticky, EarlierTurns(r) # {}
    PROVE  ClientOk(c, LookedUp(c, r, e), s, m, e)
<1> DEFINE q == LookedUp(c, r, e)
           i == Min(EarlierTurns(r))
<1>1. IsRequest(q) /\ q.stage = r.stage
  BY LookupIsRequest DEF ClientOk
<1> SUFFICES ASSUME ~ OverBudget(m)
             PROVE  /\ Hist(c, q, m, e)
                    /\ FollowsUp(s.asked, m) /\ ~ s.facts => Follow(c, q, s, e)
  BY <1>1 DEF ClientOk, Quiet
<1>2. m \in Seq(Message) /\ IsRequest(r) /\ Hist(c, r, m, e)
  BY DEF ClientOk
<1>3. /\ i \in UserStarts(m) /\ r.next <= i /\ i < LastUser(m)
      /\ \A j \in UserStarts(m) : r.next <= j /\ j < LastUser(m) => i <= j
      /\ IsRequest(q) /\ q.stage = r.stage /\ q.next = i + 1
      /\ q.window = m /\ q.dropped = 0
      /\ Dressed(q.prompt, m)
      /\ q.prompt[i].blocks = Shows(e, Key(c, m, i))
      /\ \A j \in 1..Len(m) \ {i} : q.prompt[j] = r.prompt[j]
  <2>1. LooksUp(c, r, m, e, i, q) /\ r.dropped = 0
    BY <1>2 DEF LooksUp, Hist
  <2> HIDE DEF i, q
  <2> QED
    BY <2>1, LookupShows
<1>4. /\ UserStarts(m) # {} /\ r.next \in Nat /\ LastUser(m) \in Nat
      /\ \A j \in UserStarts(m) : j \in 1..Len(m) /\ j \in Nat
  BY <1>2, LastUserOf DEF Hist, UserStarts
<1> HIDE DEF q, i
<1>5. ASSUME NEW j \in UserStarts(m), j < q.next, j # i PROVE j < r.next
  BY <1>3, <1>4, <1>5
<1>6. Hist(c, q, m, e)
  <2>1. q.next \in 1..LastUser(m)
    BY <1>3, <1>4
  <2>2. ASSUME NEW j \in UserStarts(m), q.next <= j PROVE q.prompt[j].blocks = <<>>
    <3>1. j # i /\ r.next <= j
      BY <1>3, <1>4, <2>2
    <3> QED
      BY <1>2, <1>3, <1>4, <3>1 DEF Hist
  <2>3. ASSUME NEW j \in UserStarts(m), j < q.next, Key(c, m, j) \in DOMAIN e
        PROVE  q.prompt[j].blocks = Shows(e, Key(c, m, j))
    <3>1. CASE j = i
      BY <1>3, <3>1
    <3>2. CASE j # i
      BY <1>2, <1>3, <1>4, <1>5, <2>3, <3>2 DEF Hist
    <3> QED
      BY <3>1, <3>2
  <2> QED
    BY <1>3, <1>4, <2>1, <2>2, <2>3 DEF Hist
<1>7. ASSUME FollowsUp(s.asked, m), ~ s.facts PROVE Follow(c, q, s, e)
  <2>1. s.asked # <<>> /\ IsPrefix(s.asked, m) /\ s.asked \in Seq(Message)
    BY <1>7 DEF FollowsUp, ClientOk
  <2>2. SentOk(c, s, e) /\ Follow(c, r, s, e)
    BY <1>2, <1>7, <2>1, OverGrows DEF ClientOk
  <2>3. /\ UserStarts(s.asked) \subseteq UserStarts(m)
        /\ \A j \in UserStarts(s.asked) : Key(c, s.asked, j) = Key(c, m, j)
    BY <1>2, <2>1, PrefixKeys
  <2>4. ASSUME NEW j \in UserStarts(s.asked), j < q.next
        PROVE  \/ q.prompt[j].blocks = s.prompt[j].blocks
               \/ s.prompt[j].blocks # <<>> /\ Key(c, s.asked, j) \notin DOMAIN e
    <3>1. CASE j = i
      <4>1. Key(c, s.asked, j) = Key(c, m, i)
        BY <2>3, <3>1
      <4>2. CASE Key(c, m, i) \in DOMAIN e
        BY <1>3, <2>2, <3>1, <4>1, <4>2 DEF SentOk
      <4>3. CASE Key(c, m, i) \notin DOMAIN e
        BY <1>3, <3>1, <4>1, <4>3 DEF Shows
      <4> QED
        BY <4>2, <4>3
    <3>2. CASE j # i
      <4>1. j \in UserStarts(m) /\ j < r.next /\ q.prompt[j] = r.prompt[j]
        BY <1>3, <1>4, <1>5, <2>3, <2>4, <3>2
      <4> QED
        BY <2>2, <4>1 DEF Follow
    <3> QED
      BY <3>1, <3>2
  <2> QED
    BY <2>4 DEF Follow
<1> QED
  BY <1>6, <1>7 DEF q

\* The prompt as it is sent: with a block for the last turn, or without.
Posted(r, p) ==
    p = r.prompt \/ \E b : p = AboveUser(r.prompt, LastUser(r.prompt), b)

LEMMA LookedUpAll ==
    ASSUME NEW c, NEW r, NEW m \in Seq(Message), NEW e, Hist(c, r, m, e),
           Sticky, EarlierTurns(r) = {}
    PROVE  /\ LastUser(r.prompt) = LastUser(m) /\ LastUser(m) \in UserStarts(m)
           /\ LastUser(m) \in 1..Len(m)
           /\ r.prompt[LastUser(m)].blocks = <<>>
           /\ \A i \in UserStarts(m) : i # LastUser(m) => i < LastUser(m) /\ i < r.next
<1>1. UserStarts(m) # {} /\ r.window = m /\ Dressed(r.prompt, m)
      /\ r.next \in Nat /\ r.next <= LastUser(m)
      /\ \A i \in UserStarts(m) : r.next <= i => r.prompt[i].blocks = <<>>
  <2>1. UserStarts(m) # {}
    BY DEF Hist
  <2>2. LastUser(m) \in Nat
    BY <2>1, LastUserOf
  <2> QED
    BY <2>1, <2>2 DEF Hist
<1>2. /\ LastUser(m) \in UserStarts(m) /\ LastUser(m) \in 1..Len(m)
      /\ \A i \in UserStarts(m) : i \in Nat /\ i <= LastUser(m)
  BY <1>1, LastUserOf
<1>3. LastUser(r.prompt) = LastUser(m)
  BY <1>1, DressedUsers DEF LastUser
<1>4. {i \in UserStarts(m) : r.next <= i /\ i < LastUser(m)} = {}
  BY <1>1 DEF EarlierTurns
<1>5. ASSUME NEW i \in UserStarts(m), i # LastUser(m) PROVE i < LastUser(m) /\ i < r.next
  <2>1. i \in Nat /\ i < LastUser(m)
    BY <1>2, <1>5
  <2>2. ~ (r.next <= i)
    BY <1>4, <2>1
  <2> QED
    BY <1>1, <2>1, <2>2
<1> QED
  BY <1>1, <1>2, <1>3, <1>5

Ready(c, r, m, e) ==
    /\ m \in Seq(Message) /\ Hist(c, r, m, e)
    /\ Sticky /\ EarlierTurns(r) = {}

LEMMA PostedDressed ==
    ASSUME NEW c, NEW r, NEW m, NEW e, Ready(c, r, m, e), NEW p, Posted(r, p)
    PROVE  /\ Dressed(p, m)
           /\ \A i \in 1..Len(m) : i # LastUser(m) => p[i] = r.prompt[i]
<1> DEFINE l == LastUser(m)
<1>1. /\ LastUser(r.prompt) = l /\ l \in UserStarts(m)
      /\ r.prompt[l].blocks = <<>> /\ Dressed(r.prompt, m) /\ m \in Seq(Message)
  <2>1. /\ m \in Seq(Message) /\ Hist(c, r, m, e)
        /\ Sticky /\ EarlierTurns(r) = {}
    BY DEF Ready
  <2>2. Dressed(r.prompt, m)
    BY <2>1 DEF Hist
  <2> QED
    BY <2>1, <2>2, LookedUpAll
<1> HIDE DEF l
<1>2. ASSUME NEW b
      PROVE  /\ Dressed(AboveUser(r.prompt, l, b), m)
             /\ AboveUser(r.prompt, l, b)[l].blocks = <<b>>
             /\ \A i \in 1..Len(m) \ {l} : AboveUser(r.prompt, l, b)[i] = r.prompt[i]
  BY <1>1, AboveDresses
<1>3. \A i \in 1..Len(m) : i # l => p[i] = r.prompt[i]
  BY <1>1, <1>2 DEF Posted
<1>4. Dressed(p, m)
  BY <1>1, <1>2 DEF Posted
<1> QED
  BY <1>3, <1>4 DEF l

\* What a follow-up sends begins with what was sent before.
LEMMA FollowUpPosts ==
    ASSUME NEW c, NEW r, NEW s, NEW m, NEW e, ClientOk(c, r, s, m, e),
           r.stage = "history", Sticky, EarlierTurns(r) = {}, NEW p, Posted(r, p),
           ~ OverBudget(m), FollowsUp(s.asked, m), ~ s.facts,
           \A i \in UserStarts(s.asked) :
             s.prompt[i].blocks # <<>> => Key(c, s.asked, i) \in DOMAIN e
    PROVE  IsPrefix(s.prompt, p)
<1>1. /\ m \in Seq(Message) /\ s.asked \in Seq(Message)
      /\ s.asked # <<>> /\ IsPrefix(s.asked, m) /\ Len(s.asked) < LastUser(m)
      /\ Hist(c, r, m, e) /\ Follow(c, r, s, e)
  BY DEF FollowsUp, ClientOk
<1>6. Ready(c, r, m, e)
  BY <1>1 DEF Ready
<1>2. SentOk(c, s, e)
  BY <1>1, OverGrows DEF ClientOk
<1>3. /\ UserStarts(s.asked) \subseteq UserStarts(m)
      /\ Len(s.asked) \in Nat /\ Len(s.asked) <= Len(m)
      /\ \A i \in UserStarts(s.asked) : i \in 1..Len(s.asked)
  BY <1>1, PrefixKeys
<1>4. ASSUME NEW i \in UserStarts(s.asked) PROVE s.prompt[i].blocks = p[i].blocks
  <2>1. i \in UserStarts(m) /\ i \in 1..Len(m) /\ i # LastUser(m)
    <3>1. LastUser(m) \in 1..Len(m)
      BY <1>1, LookedUpAll
    <3> QED
      BY <1>1, <1>3, <3>1
  <2>2. i < r.next
    BY <1>1, <2>1, LookedUpAll
  <2>3. p[i] = r.prompt[i]
    <3>1. \A j \in 1..Len(m) : j # LastUser(m) => p[j] = r.prompt[j]
      BY <1>6, PostedDressed
    <3> QED
      BY <2>1, <3>1
  <2>4. r.prompt[i].blocks = s.prompt[i].blocks
    BY <1>1, <2>2 DEF Follow
  <2> QED
    BY <2>3, <2>4
<1>5. Dressed(p, m) /\ Dressed(s.prompt, s.asked)
  BY <1>6, <1>2, PostedDressed DEF SentOk
<1> QED
  BY <1>1, <1>4, <1>5, DressedPrefix

\* What is sent is what the cache then remembers of it.
Remembers(c, r, m, e, f, hits, s) ==
    /\ Ready(c, r, m, e)
    /\ \A k \in DOMAIN f :
         IF k = Key(c, m, LastUser(m)) THEN f[k] = hits
                                       ELSE k \in DOMAIN e /\ f[k] = e[k]
    /\ s.asked = m
    /\ s.prompt = IF hits = NoEntry THEN r.prompt
                  ELSE AboveUser(r.prompt, LastUser(r.prompt), Block(hits, FALSE, 0))

LEMMA PostedIsRemembered ==
    ASSUME NEW c, NEW r, NEW m, NEW e, NEW f, NEW hits, NEW s,
           Remembers(c, r, m, e, f, hits, s)
    PROVE  SentOk(c, s, f)
<1>0. /\ m \in Seq(Message) /\ Hist(c, r, m, e) /\ Sticky /\ EarlierTurns(r) = {}
      /\ \A k \in DOMAIN f :
           IF k = Key(c, m, LastUser(m)) THEN f[k] = hits
                                         ELSE k \in DOMAIN e /\ f[k] = e[k]
      /\ s.asked = m
      /\ s.prompt = IF hits = NoEntry THEN r.prompt
                    ELSE AboveUser(r.prompt, LastUser(r.prompt), Block(hits, FALSE, 0))
      /\ Ready(c, r, m, e)
  BY DEF Remembers, Ready
<1> DEFINE l == LastUser(m)
           p == s.prompt
           block == Block(hits, FALSE, 0)
<1>1. Posted(r, p)
  BY <1>0 DEF Posted
<1> HIDE DEF block
<1>2. /\ Dressed(p, m)
      /\ \A i \in 1..Len(m) : i # l => p[i] = r.prompt[i]
      /\ hits # NoEntry => p[l].blocks = <<block>>
  <2>1. /\ Dressed(p, m)
        /\ \A i \in 1..Len(m) : i # l => p[i] = r.prompt[i]
        /\ AboveUser(r.prompt, LastUser(r.prompt), block)[l].blocks = <<block>>
    <3>1. Ready(c, r, m, e)
      BY <1>0
    <3>2. /\ Dressed(p, m)
          /\ \A i \in 1..Len(m) : i # LastUser(m) => p[i] = r.prompt[i]
      <4> HIDE DEF p, l
      <4> QED
        BY <1>1, <3>1, PostedDressed
    <3>3. AboveUser(r.prompt, LastUser(r.prompt), block)[LastUser(m)].blocks = <<block>>
      <4>1. Dressed(r.prompt, m) /\ LastUser(r.prompt) = LastUser(m)
            /\ LastUser(m) \in UserStarts(m) /\ r.prompt[LastUser(m)].blocks = <<>>
        BY <1>0, LookedUpAll DEF Hist
      <4> HIDE DEF l
      <4>2. AboveUser(r.prompt, l, block)[l].blocks = <<block>>
        BY <1>0, <4>1, AboveDresses DEF l
      <4> QED
        BY <4>1, <4>2 DEF l
    <3> QED
      BY <3>2, <3>3
  <2>2. hits # NoEntry => p = AboveUser(r.prompt, LastUser(r.prompt), block)
    BY <1>0 DEF block
  <2> QED
    BY <2>1, <2>2
<1>3. /\ l \in 1..Len(m) /\ r.prompt[l].blocks = <<>>
      /\ \A i \in UserStarts(m) : i # l => i < l /\ i < r.next
  BY <1>0, LookedUpAll
<1>4. ASSUME NEW i \in UserStarts(m), Key(c, m, i) \in DOMAIN f
      PROVE  p[i].blocks = Shows(f, Key(c, m, i))
  <2>1. CASE i = l
    <3>1. f[Key(c, m, i)] = hits
      BY <1>0, <1>4, <2>1
    <3>2. Shows(f, Key(c, m, i)) = IF hits = NoEntry THEN <<>> ELSE <<block>>
      BY <1>4, <3>1 DEF Shows, block
    <3>3. hits = NoEntry => p[l].blocks = <<>>
      BY <1>0, <1>3
    <3> QED
      BY <1>2, <2>1, <3>2, <3>3
  <2>2. CASE i # l
    <3>1. i < l /\ i < r.next /\ i \in 1..Len(m)
      BY <1>0, <1>3, <2>2 DEF UserStarts
    <3>2. Key(c, m, i) # Key(c, m, l)
      <4>1. Len(SubSeq(m, 1, i)) = i /\ Len(SubSeq(m, 1, l)) = l
        BY <1>0, <1>3, <3>1
      <4>2. i # l
        BY <2>2
      <4> HIDE DEF l
      <4>3. SubSeq(m, 1, i) # SubSeq(m, 1, l)
        BY <4>1, <4>2
      <4> QED
        BY <4>3 DEF Key
    <3>3. Key(c, m, i) \in DOMAIN e /\ f[Key(c, m, i)] = e[Key(c, m, i)]
      BY <1>0, <1>4, <3>2
    <3>4. r.prompt[i].blocks = Shows(e, Key(c, m, i))
      BY <1>0, <3>1, <3>3 DEF Hist
    <3>5. Shows(f, Key(c, m, i)) = Shows(e, Key(c, m, i))
      BY <1>4, <3>3 DEF Shows
    <3> QED
      BY <1>2, <2>2, <3>1, <3>4, <3>5
  <2> QED
    BY <2>1, <2>2
<1> QED
  BY <1>0, <1>2, <1>4 DEF SentOk

-----------------------------------------------------------------------------
(* The steps *)

FollowInv ==
    /\ ConversationInv
    /\ request = [c \in Clients |-> request[c]] /\ sent = [c \in Clients |-> sent[c]]
    /\ \A c \in Clients :
         ClientOk(c, request[c], sent[c], conversation[c], entries)

\* A step of one client leaves to the others what they have, and of their cache
\* entries only takes.
OthersKept(c) ==
    \A d \in Clients \ {c} :
        /\ request'[d] = request[d] /\ sent'[d] = sent[d]
        /\ conversation'[d] = conversation[d]
        /\ Kept(d, entries', entries)

LEMMA PutKept ==
    ASSUME NEW k, NEW hits, CachePut(k, hits)
    PROVE  \A x \in DOMAIN entries' :
             IF x = k THEN entries'[x] = hits
                      ELSE x \in DOMAIN entries /\ entries'[x] = entries[x]
<1> DEFINE all == DOMAIN entries \cup {k}
           list == IF k \in DOMAIN entries THEN ToFront(k) ELSE <<k>> \o lru
           over == k \notin DOMAIN entries /\ Cardinality(all) > Capacity
           gone == IF over THEN {list[Len(list)]} ELSE {}
<1>1. entries' = [x \in all \ gone |-> IF x = k THEN hits ELSE entries[x]]
  BY DEF CachePut
<1> HIDE DEF gone
<1> QED
  BY <1>1

LEMMA OwnPutKept ==
    ASSUME AgentsApart, NEW c \in Clients, NEW m, NEW i, NEW hits,
           CachePut(Key(c, m, i), hits)
    PROVE  \A d \in Clients \ {c} : Kept(d, entries', entries)
<1> SUFFICES ASSUME NEW d \in Clients \ {c}
             PROVE  Kept(d, entries', entries)
  OBVIOUS
<1>1. AgentOf[d] # AgentOf[c]
  BY DEF AgentsApart
<1>2. Key(c, m, i)[1] # AgentOf[d]
  BY <1>1, KeyIsOwn
<1> DEFINE k == Key(c, m, i)
<1> HIDE DEF k
<1>3. \A x \in DOMAIN entries' :
        IF x = k THEN entries'[x] = hits
                 ELSE x \in DOMAIN entries /\ entries'[x] = entries[x]
  BY PutKept DEF k
<1> QED
  BY <1>2, <1>3 DEF Kept, k

LEMMA SameKept == entries' = entries => \A d \in Clients : Kept(d, entries', entries)
  BY DEF Kept

\* What a client's own step has to show.
OwnOk(c) ==
    /\ request' = [d \in Clients |-> request'[d]] /\ sent' = [d \in Clients |-> sent'[d]]
    /\ ClientOk(c, request'[c], sent'[c], conversation'[c], entries')

Follows(c) ==
    /\ FollowsUp(sent[c].asked, sent'[c].asked)
    /\ ~ sent[c].facts
    /\ ~ OverBudget(sent'[c].asked)
    /\ ShownKeys(c) \subseteq DOMAIN entries

Extended(c) ==
    sent[c] # sent'[c] /\ Follows(c) => IsPrefix(sent[c].prompt, sent'[c].prompt)

StepFollows(c) == OwnOk(c) /\ OthersKept(c) /\ Extended(c)

\* What every proof about the steps stands on.
RequestsOk ==
    /\ ConversationInv
    /\ request = [c \in Clients |-> request[c]] /\ sent = [c \in Clients |-> sent[c]]
    /\ \A c \in Clients :
         /\ IsRequest(request[c])
         /\ \/ UserStarts(conversation[c]) # {}
            \/ conversation[c] = Opening /\ Quiet(request[c])

LEMMA FollowsRequests == FollowInv => RequestsOk
  BY DEF FollowInv, ClientOk, RequestsOk

Begins(p, q) == Len(p) <= Len(q) /\ \A i \in 1..Len(p) : p[i] = q[i]

\* A conversation up to a question.
Asked == {a \in Seq(Message) : a # <<>> /\ a[Len(a)].role = "user"}

\* A question of the conversation m that was answered, or is being answered.
Counts(q, m, stage) == Begins(q, m) /\ (Len(q) < Len(m) \/ stage = "waiting")

\* A step that sends nothing and stores nothing, between requests.
Talks(c, q, n) ==
    /\ IsRequest(q) /\ q.stage # "history"
    /\ n \in Seq(Message) /\ UserStarts(n) # {}
    /\ request' = [request EXCEPT ![c] = q]
    /\ conversation' = [conversation EXCEPT ![c] = n]
    /\ entries' = entries /\ putFor' = putFor /\ sent' = sent
    /\ \A a \in Asked :
         Counts(a, n, q.stage) => Counts(a, conversation[c], request[c].stage)

LEMMA TalkStep ==
    ASSUME FollowInv, NEW c \in Clients, NEW q, NEW n, Talks(c, q, n)
    PROVE  StepFollows(c)
<1>0. /\ IsRequest(q) /\ q.stage # "history"
      /\ n \in Seq(Message) /\ UserStarts(n) # {}
      /\ request' = [request EXCEPT ![c] = q]
      /\ conversation' = [conversation EXCEPT ![c] = n]
      /\ entries' = entries /\ sent' = sent
  BY DEF Talks
<1>1. request'[c] = q /\ conversation'[c] = n
  BY <1>0 DEF FollowInv, ConversationInv
<1>2. ClientOk(c, q, sent[c], n, entries)
  BY <1>0, ClientBetween DEF FollowInv
<1>3. \A d \in Clients \ {c} :
        request'[d] = request[d] /\ conversation'[d] = conversation[d]
  BY <1>0 DEF FollowInv, ConversationInv
<1>4. request' = [d \in Clients |-> request'[d]] /\ sent' = [d \in Clients |-> sent'[d]]
  BY <1>0 DEF FollowInv
<1> QED
  BY <1>0, <1>1, <1>2, <1>3, <1>4, SameKept DEF StepFollows, OwnOk, OthersKept, Extended

LEMMA UsersOnAppend ==
    ASSUME NEW m \in Seq(Message), NEW x \in Message, UserStarts(m) # {} \/ x.role = "user"
    PROVE  UserStarts(Append(m, x)) # {} /\ Append(m, x) \in Seq(Message)
<1>1. Append(m, x) \in Seq(Message) /\ Len(Append(m, x)) = Len(m) + 1 /\ Len(m) \in Nat
      /\ Append(m, x)[Len(m) + 1] = x /\ \A i \in 1..Len(m) : Append(m, x)[i] = m[i]
  OBVIOUS
<1>2. CASE x.role = "user"
  <2>1. Len(m) + 1 \in UserStarts(Append(m, x))
    BY <1>1, <1>2 DEF UserStarts
  <2> QED
    BY <1>1, <2>1
<1>3. CASE UserStarts(m) # {}
  <2>1. PICK i \in UserStarts(m) : TRUE
    BY <1>3
  <2>2. i \in 1..Len(m) /\ m[i].role = "user"
    BY DEF UserStarts
  <2>3. i \in 1..(Len(m) + 1) /\ Append(m, x)[i].role = "user"
    BY <1>1, <2>2
  <2>4. i \in UserStarts(Append(m, x))
    BY <1>1, <2>3 DEF UserStarts
  <2> QED
    BY <1>1, <2>4
<1> QED
  BY <1>2, <1>3

LEMMA UsersOfPart ==
    ASSUME NEW m \in Seq(Message), NEW i \in UserStarts(m)
    PROVE  UserStarts(SubSeq(m, 1, i)) # {} /\ SubSeq(m, 1, i) \in Seq(Message)
<1>1. i \in 1..Len(m) /\ m[i].role = "user" /\ Len(m) \in Nat
  BY DEF UserStarts
<1>2. SubSeq(m, 1, i) \in Seq(Message) /\ Len(SubSeq(m, 1, i)) = i
      /\ SubSeq(m, 1, i)[i] = m[i]
  BY <1>1
<1>3. i \in UserStarts(SubSeq(m, 1, i))
  BY <1>1, <1>2 DEF UserStarts
<1> QED
  BY <1>2, <1>3

LEMMA BeginsOnAppend ==
    ASSUME NEW m \in Seq(Message), NEW x, NEW q \in Asked,
           Begins(q, Append(m, x)), Len(q) < Len(Append(m, x))
    PROVE  Begins(q, m) /\ (Len(q) < Len(m) \/ (m # <<>> /\ m[Len(m)].role = "user"))
<1>1. /\ Len(m) \in Nat /\ Len(Append(m, x)) = Len(m) + 1
      /\ \A i \in 1..Len(m) : Append(m, x)[i] = m[i]
  OBVIOUS
<1>2. q \in Seq(Message) /\ q # <<>> /\ q[Len(q)].role = "user"
  BY DEF Asked
<1>3. Len(q) \in Nat /\ Len(q) > 0
  BY <1>2
<1>4. Len(q) <= Len(m) /\ \A i \in 1..Len(q) : q[i] = m[i]
  BY <1>1, <1>3 DEF Begins
<1>5. ASSUME Len(q) = Len(m) PROVE m # <<>> /\ m[Len(m)].role = "user"
  <2>1. Len(q) \in 1..Len(q)
    BY <1>3
  <2>2. q[Len(q)] = m[Len(q)]
    BY <1>4, <2>1
  <2> QED
    BY <1>2, <1>3, <1>5, <2>2
<1> QED
  BY <1>1, <1>3, <1>4, <1>5 DEF Begins

\* A conversation at a message that is no system message has a question.
LEMMA HasQuestion ==
    ASSUME RequestsOk, NEW c \in Clients, NEW R, R # "system", AtLast(c, R)
    PROVE  UserStarts(conversation[c]) # {}
<1>1. UserStarts(conversation[c]) # {} \/ conversation[c] = Opening
  BY DEF RequestsOk
<1>2. Opening = <<>> \/ Opening = <<[role |-> "system", content |-> "text"]>>
  BY RequestAssumption
<1>3. Last(<<[role |-> "system", content |-> "text"]>>).role = "system"
  BY DEF Last
<1> QED
  BY <1>1, <1>2, <1>3 DEF AtLast

\* The client speaks when it is its turn.
ItsTurn(m) == m = <<>> \/ m[Len(m)].role # "user"

LEMMA SaysStep ==
    ASSUME RequestsOk, NEW c \in Clients, NEW x \in Message, Idle(c),
           UserStarts(conversation[c]) # {} \/ x.role = "user",
           ItsTurn(conversation[c]),
           conversation' = [conversation EXCEPT ![c] = Append(@, x)],
           UNCHANGED <<request, cacheVars, history>>
    PROVE  \E q, n : Talks(c, q, n)
<1>1. /\ request' = [request EXCEPT ![c] = request[c]]
      /\ entries' = entries /\ putFor' = putFor /\ sent' = sent
  BY DEF RequestsOk, cacheVars, history
<1>2. IsRequest(request[c]) /\ request[c].stage \notin {"history", "waiting"}
  BY DEF RequestsOk, Idle
<1>3. conversation[c] \in Seq(Message)
  BY DEF RequestsOk, ConversationInv
<1>4. UserStarts(Append(conversation[c], x)) # {} /\ Append(conversation[c], x) \in Seq(Message)
  BY <1>3, UsersOnAppend
<1>5. conversation' = [conversation EXCEPT ![c] = Append(conversation[c], x)]
  BY DEF RequestsOk, ConversationInv
<1> DEFINE n == Append(conversation[c], x)
<1>6. \A a \in Asked : Begins(a, n) /\ Len(a) < Len(n) =>
                          Begins(a, conversation[c]) /\ Len(a) < Len(conversation[c])
  BY <1>3, BeginsOnAppend DEF ItsTurn
<1> HIDE DEF n
<1>7. Talks(c, request[c], n)
  BY <1>1, <1>2, <1>4, <1>5, <1>6 DEF Talks, Counts, n
<1> QED
  BY <1>7

LEMMA AtLastIs ==
    ASSUME RequestsOk, NEW c \in Clients, NEW R, R # "user",
           conversation[c] = Opening \/ AtLast(c, R)
    PROVE  ItsTurn(conversation[c])
<1>1. Opening = <<>> \/ Opening = <<[role |-> "system", content |-> "text"]>>
  BY RequestAssumption
<1>2. ItsTurn(Opening)
  <2> DEFINE x == [role |-> "system", content |-> "text"]
  <2>1. <<x>>[Len(<<x>>)] = x /\ x.role # "user"
    OBVIOUS
  <2> HIDE DEF x
  <2> QED
    BY <1>1, <2>1 DEF ItsTurn, x
<1> QED
  BY <1>2 DEF ItsTurn, AtLast, Last

LEMMA AskStep ==
    ASSUME RequestsOk, NEW c \in Clients, Ask(c)
    PROVE  \E q, n : Talks(c, q, n)
<1>1. PICK content \in AskContents :
        conversation' = [conversation EXCEPT
          ![c] = Append(@, [role |-> "user", content |-> content])]
  BY DEF Ask, Says
<1>2. [role |-> "user", content |-> content] \in Message
  BY RequestAssumption DEF Message, Roles
<1>3. Idle(c) /\ UNCHANGED <<request, cacheVars, history>>
  BY DEF Ask, Says
<1>4. ItsTurn(conversation[c])
  BY AtLastIs DEF Ask
<1> DEFINE x == [role |-> "user", content |-> content]
<1>5. x.role = "user"
  OBVIOUS
<1> HIDE DEF x
<1> QED
  BY <1>1, <1>2, <1>3, <1>4, <1>5, SaysStep DEF x

LEMMA ToolResultStep ==
    ASSUME RequestsOk, NEW c \in Clients, ToolResult(c)
    PROVE  \E q, n : Talks(c, q, n)
<1>1. conversation' = [conversation EXCEPT
          ![c] = Append(@, [role |-> "tool", content |-> "text"])]
  BY DEF ToolResult, Says
<1>2. [role |-> "tool", content |-> "text"] \in Message
  BY RequestAssumption DEF Message, Roles
<1>3. Idle(c) /\ UNCHANGED <<request, cacheVars, history>>
  BY DEF ToolResult, Says
<1>4. UserStarts(conversation[c]) # {} /\ ItsTurn(conversation[c])
  BY HasQuestion, AtLastIs DEF ToolResult
<1> DEFINE x == [role |-> "tool", content |-> "text"]
<1> HIDE DEF x
<1> QED
  BY <1>1, <1>2, <1>3, <1>4, SaysStep DEF x

LEMMA NoRequestIs ==
    /\ IsRequest(NoRequest) /\ NoRequest.stage = "idle"
    /\ \A t : IsRequest([NoRequest EXCEPT !.stage = t])
              /\ [NoRequest EXCEPT !.stage = t].stage = t
  BY DEF NoRequest, IsRequest

\* The handler's steps leave the conversation.
LEMMA EndStep ==
    ASSUME RequestsOk, NEW c \in Clients, NEW q, IsRequest(q),
           q.stage \notin {"history", "waiting"},
           UserStarts(conversation[c]) # {},
           request' = [request EXCEPT ![c] = q],
           UNCHANGED <<conversation, cacheVars, history>>
    PROVE  \E p, n : Talks(c, p, n)
<1>1. conversation' = [conversation EXCEPT ![c] = conversation[c]]
      /\ conversation[c] \in Seq(Message)
  BY DEF RequestsOk, ConversationInv
<1>2. entries' = entries /\ putFor' = putFor /\ sent' = sent
  BY DEF cacheVars, history
<1>3. \A a \in Asked : Counts(a, conversation[c], q.stage) =>
                          Counts(a, conversation[c], request[c].stage)
  BY DEF Counts
<1>4. Talks(c, q, conversation[c])
  BY <1>1, <1>2, <1>3 DEF Talks
<1> QED
  BY <1>4

LEMMA RefuseStep ==
    ASSUME RequestsOk, NEW c \in Clients, Refuse(c)
    PROVE  \E q, n : Talks(c, q, n)
<1>1. UserStarts(conversation[c]) # {}
  BY HasQuestion DEF Refuse, CanReceive
<1>2. /\ request' = [request EXCEPT ![c] = [NoRequest EXCEPT !.stage = "refused"]]
      /\ UNCHANGED <<conversation, cacheVars, history>>
  BY DEF Refuse
<1> DEFINE q == [NoRequest EXCEPT !.stage = "refused"]
<1>3. IsRequest(q) /\ q.stage \notin {"history", "waiting"}
  BY NoRequestIs
<1> HIDE DEF q
<1> QED
  BY <1>1, <1>2, <1>3, EndStep DEF q

LEMMA Waiting ==
    ASSUME RequestsOk, NEW c \in Clients, request[c].stage \in {"waiting", "history"}
    PROVE  UserStarts(conversation[c]) # {}
  BY DEF RequestsOk, Quiet

LEMMA UnreachableStep ==
    ASSUME RequestsOk, NEW c \in Clients, Unreachable(c)
    PROVE  \E q, n : Talks(c, q, n)
<1>1. UserStarts(conversation[c]) # {}
  BY Waiting DEF Unreachable
<1>2. /\ request' = [request EXCEPT ![c] = NoRequest]
      /\ UNCHANGED <<conversation, cacheVars, history>>
  BY DEF Unreachable
<1> QED
  BY <1>1, <1>2, NoRequestIs, EndStep

LEMMA AnswerStep ==
    ASSUME RequestsOk, NEW c \in Clients, Answer(c)
    PROVE  \E q, n : Talks(c, q, n)
<1>1. PICK content \in AnswerContents \cup CallContents :
        conversation' = [conversation EXCEPT
          ![c] = Append(@, [role |-> "assistant", content |-> content])]
  BY DEF Answer
<1> DEFINE x == [role |-> "assistant", content |-> content]
           n == Append(conversation[c], x)
<1>2. x \in Message
  BY RequestAssumption DEF Message, Roles
<1>3. UserStarts(conversation[c]) # {}
  BY Waiting DEF Answer
<1>4. conversation[c] \in Seq(Message)
      /\ conversation' = [conversation EXCEPT ![c] = n]
  BY <1>1 DEF RequestsOk, ConversationInv
<1> HIDE DEF x
<1>5. UserStarts(n) # {} /\ n \in Seq(Message)
  BY <1>2, <1>3, <1>4, UsersOnAppend
<1>6. request' = [request EXCEPT ![c] = NoRequest]
      /\ entries' = entries /\ putFor' = putFor /\ sent' = sent
  BY DEF Answer, cacheVars, history
<1>7. \A a \in Asked : Counts(a, n, NoRequest.stage) =>
                          Counts(a, conversation[c], request[c].stage)
  <2>1. request[c].stage = "waiting" /\ NoRequest.stage # "waiting"
    BY NoRequestIs DEF Answer
  <2>2. \A a \in Asked : Begins(a, n) /\ Len(a) < Len(n) => Begins(a, conversation[c])
    BY <1>4, BeginsOnAppend
  <2> HIDE DEF n
  <2> QED
    BY <2>1, <2>2 DEF Counts
<1> HIDE DEF n
<1>8. Talks(c, NoRequest, n)
  BY <1>4, <1>5, <1>6, <1>7, NoRequestIs DEF Talks
<1> QED
  BY <1>8

LEMMA RewindStep ==
    ASSUME FollowInv, NEW c \in Clients, Rewind(c)
    PROVE  StepFollows(c)
<1>1. PICK i \in UserStarts(conversation[c]) :
        conversation' = [conversation EXCEPT ![c] = SubSeq(@, 1, i)]
  BY DEF Rewind
<1>2. /\ Idle(c) /\ request' = request /\ entries' = entries
      /\ sent' = [sent EXCEPT ![c] = NothingSent]
  BY DEF Rewind, cacheVars
<1>3. conversation[c] \in Seq(Message)
  BY DEF FollowInv, ConversationInv
<1> DEFINE n == SubSeq(conversation[c], 1, i)
<1>4. UserStarts(n) # {} /\ n \in Seq(Message)
  BY <1>3, UsersOfPart
<1>5. conversation'[c] = n /\ sent'[c] = NothingSent
  BY <1>1, <1>2 DEF FollowInv, ConversationInv
<1>6. \A d \in Clients \ {c} : sent'[d] = sent[d] /\ conversation'[d] = conversation[d]
  BY <1>1, <1>2 DEF FollowInv, ConversationInv
<1>7. request' = [d \in Clients |-> request'[d]] /\ sent' = [d \in Clients |-> sent'[d]]
  BY <1>2 DEF FollowInv
<1>8. NothingSent.asked = <<>> /\ <<>> \in Seq(Message)
  BY DEF NothingSent
<1> HIDE DEF n
<1>9. ClientOk(c, request[c], NothingSent, n, entries)
  <2>1. IsRequest(request[c]) /\ request[c].stage # "history"
    BY <1>2 DEF FollowInv, ClientOk, Idle
  <2> DEFINE t == NothingSent
  <2>2. t.asked \in Seq(Message) /\ t.asked = <<>>
    BY <1>8
  <2> HIDE DEF t
  <2>3. ClientOk(c, request[c], t, n, entries)
    BY <1>4, <2>1, <2>2, ClientStands
  <2> QED
    BY <2>3 DEF t
<1>10. ~ FollowsUp(sent[c].asked, NothingSent.asked)
  BY <1>8 DEF FollowsUp, UserStarts
<1> QED
  BY <1>2, <1>5, <1>6, <1>7, <1>9, <1>10, SameKept
  DEF StepFollows, OwnOk, OthersKept, Extended, Follows

\* Steps within a request: only the request changes.
LEMMA WithinStep ==
    ASSUME FollowInv, NEW c \in Clients, NEW q,
           ClientOk(c, q, sent[c], conversation[c], entries),
           request' = [request EXCEPT ![c] = q],
           conversation' = conversation, sent' = sent, entries' = entries
    PROVE  StepFollows(c)
<1>1. request'[c] = q /\ \A d \in Clients \ {c} : request'[d] = request[d]
  BY DEF FollowInv
<1>2. request' = [d \in Clients |-> request'[d]] /\ sent' = [d \in Clients |-> sent'[d]]
  BY DEF FollowInv
<1> QED
  BY <1>1, <1>2, SameKept DEF StepFollows, OwnOk, OthersKept, Extended

LEMMA ReceiveStep ==
    ASSUME FollowInv, NEW c \in Clients, Receive(c)
    PROVE  StepFollows(c)
<1> DEFINE m == conversation[c]
           q == [stage |-> "history", window |-> Retained(m),
                 dropped |-> Cardinality(DroppedMessages(m)),
                 prompt |-> Plain(Retained(m)), next |-> 1, shown |-> {}]
<1>1. request' = [request EXCEPT ![c] = q] /\ conversation' = conversation
      /\ sent' = sent /\ entries' = entries
  BY DEF Receive, cacheVars, history
<1>2. UserStarts(m) # {}
  BY FollowsRequests, HasQuestion DEF Receive, CanReceive
<1>3. ClientOk(c, request[c], sent[c], m, entries)
  BY DEF FollowInv
<1>4. ClientOk(c, q, sent[c], m, entries)
  <2> HIDE DEF m
  <2> QED
    BY <1>2, <1>3, ClientReceives
<1> HIDE DEF q
<1> QED
  BY <1>1, <1>4, WithinStep

LEMMA LookupIs ==
    ASSUME RequestsOk, NEW c \in Clients, Lookup(c)
    PROVE  request' = [request EXCEPT ![c] = LookedUp(c, request[c], entries)]
<1> DEFINE r == request[c]
           i == Min(EarlierTurns(r))
           k == Key(c, r.window, i)
           hits == IF k \in DOMAIN entries THEN entries[k] ELSE NoEntry
           n == i + 1
           hits2 == Ids(hits)
           b == Block(hits, FALSE, 0)
           q == LookedUp(c, r, entries)
<1>1. request' = [request EXCEPT ![c].next = n,
                                 ![c].shown = @ \cup hits2,
                                 ![c].prompt = IF hits = NoEntry THEN @
                                               ELSE AboveUser(@, i, b)]
  BY DEF Lookup
<1>2. q = [r EXCEPT !.next = n, !.shown = @ \cup hits2,
                    !.prompt = IF hits = NoEntry THEN @ ELSE AboveUser(@, i, b)]
  BY DEF LookedUp
<1>3. /\ r = [stage |-> r.stage, window |-> r.window, dropped |-> r.dropped,
              prompt |-> r.prompt, next |-> r.next, shown |-> r.shown]
      /\ request = [d \in Clients |-> request[d]]
  BY DEF RequestsOk, IsRequest
<1> HIDE DEF n, hits2, b, hits, i, k, q
<1>4. request' = [request EXCEPT ![c] = q]
  BY <1>1, <1>2, <1>3
<1> QED
  BY <1>4 DEF q

LEMMA LookupStep ==
    ASSUME FollowInv, NEW c \in Clients, Lookup(c)
    PROVE  StepFollows(c)
<1> DEFINE r == request[c]
           q == LookedUp(c, r, entries)
<1>1. r.stage = "history" /\ EarlierTurns(r) # {} /\ Sticky
  BY DEF Lookup, EarlierTurns
<1>2. conversation' = conversation /\ sent' = sent /\ entries' = entries
  BY DEF Lookup, CacheGet, history
<1>3. ClientOk(c, q, sent[c], conversation[c], entries)
  <2>1. ClientOk(c, r, sent[c], conversation[c], entries)
    BY DEF FollowInv
  <2> HIDE DEF r
  <2> QED
    BY <1>1, <2>1, ClientLooksUp
<1>4. request' = [request EXCEPT ![c] = q]
  BY FollowsRequests, LookupIs
<1> HIDE DEF q
<1> QED
  BY <1>2, <1>3, <1>4, WithinStep

\* A prompt is sent.
LEMMA PostStep ==
    ASSUME FollowInv, Sticky, NEW c \in Clients, Retrieving(c),
           NEW p, NEW hasBlock, NEW facts, Forward(c, p, hasBlock, facts),
           Posted(request[c], p),
           \A d \in Clients \ {c} : Kept(d, entries', entries),
           \/ facts
           \/ OverBudget(conversation[c])
           \/ SentOk(c, [asked |-> conversation[c], prompt |-> p, facts |-> facts], entries')
    PROVE  StepFollows(c)
<1> DEFINE r == request[c]
           m == conversation[c]
           s == sent'[c]
           q == [NoRequest EXCEPT !.stage = "waiting"]
<1>1. PICK final : /\ sent' = [sent EXCEPT ![c] = [asked |-> m, prompt |-> final,
                                                   facts |-> facts]]
                   /\ r.dropped = 0 => final = p
  BY DEF Forward
<1>2. request' = [request EXCEPT ![c] = q] /\ conversation' = conversation
  BY DEF Forward
<1>3. IsRequest(q) /\ q.stage = "waiting"
  BY NoRequestIs
<1>4. /\ s.asked = m /\ s.prompt = final /\ s.facts = facts
      /\ s = [asked |-> m, prompt |-> final, facts |-> facts]
      /\ \A d \in Clients \ {c} : sent'[d] = sent[d]
      /\ sent' = [d \in Clients |-> sent'[d]]
  BY <1>1 DEF FollowInv
<1> HIDE DEF q
<1>5. /\ request'[c] = q /\ \A d \in Clients \ {c} : request'[d] = request[d]
      /\ request' = [d \in Clients |-> request'[d]]
  BY <1>2 DEF FollowInv
<1>6. ClientOk(c, r, sent[c], m, entries) /\ r.stage = "history" /\ EarlierTurns(r) = {}
  BY DEF FollowInv, Retrieving
<1>7. m \in Seq(Message) /\ UserStarts(m) # {}
  BY <1>6 DEF ClientOk, Quiet
<1>8. ~ OverBudget(m) => s.prompt = p
  BY <1>1, <1>4, <1>6 DEF ClientOk, Hist
<1>9. ClientOk(c, q, s, m, entries')
  <2>1. s.facts \/ OverBudget(s.asked) \/ SentOk(c, s, entries')
    BY <1>4, <1>8
  <2> DEFINE f == entries'
  <2>2. s.asked \in Seq(Message) /\ q.stage # "history"
    BY <1>3, <1>4, <1>7
  <2> HIDE DEF s, m, f
  <2>3. s.facts \/ OverBudget(s.asked) \/ SentOk(c, s, f)
    BY <2>1 DEF f
  <2>4. ClientOk(c, q, s, m, f)
    BY <1>3, <1>7, <2>2, <2>3, ClientStands
  <2> QED
    BY <2>4 DEF f
<1>10. Extended(c)
  <2> SUFFICES ASSUME Follows(c)
               PROVE  IsPrefix(sent[c].prompt, s.prompt)
    BY DEF Extended
  <2>1. /\ FollowsUp(sent[c].asked, m) /\ ~ sent[c].facts /\ ~ OverBudget(m)
        /\ ShownKeys(c) \subseteq DOMAIN entries
    BY <1>4 DEF Follows
  <2>2. \A i \in UserStarts(sent[c].asked) :
          sent[c].prompt[i].blocks # <<>> => Key(c, sent[c].asked, i) \in DOMAIN entries
    BY <2>1 DEF ShownKeys
  <2> DEFINE t == sent[c]
  <2>3. \A i \in UserStarts(t.asked) :
          t.prompt[i].blocks # <<>> => Key(c, t.asked, i) \in DOMAIN entries
    BY <2>2
  <2>4. Posted(r, p)
    OBVIOUS
  <2>5. IsPrefix(t.prompt, p)
    <3> HIDE DEF t, r, m
    <3> QED
      BY <1>6, <2>1, <2>3, <2>4, FollowUpPosts DEF t
  <2> QED
    BY <1>8, <2>1, <2>5
<1> QED
  BY <1>2, <1>4, <1>5, <1>9, <1>10 DEF StepFollows, OwnOk, OthersKept

\* A prompt is sent and remembered.
LEMMA RememberStep ==
    ASSUME FollowInv, Sticky, AgentsApart, NEW c \in Clients, Retrieving(c),
           NEW hits, Remember(c, hits), NEW hasBlock,
           NEW p, p = IF hits = NoEntry THEN request[c].prompt
                      ELSE AboveUser(request[c].prompt, LastUser(request[c].prompt),
                                     Block(hits, FALSE, 0)),
           Forward(c, p, hasBlock, FALSE)
    PROVE  StepFollows(c)
<1> DEFINE r == request[c]
           m == conversation[c]
           w == r.window
           s == [asked |-> m, prompt |-> p, facts |-> FALSE]
<1>1. CachePut(Key(c, w, LastUser(w)), hits)
  BY DEF Remember
<1>2. \A d \in Clients \ {c} : Kept(d, entries', entries)
  <2> HIDE DEF w
  <2> QED
    BY <1>1, OwnPutKept
<1>3. Posted(r, p)
  BY DEF Posted
<1>4. ClientOk(c, r, sent[c], m, entries) /\ r.stage = "history" /\ EarlierTurns(r) = {}
  BY DEF FollowInv, Retrieving
<1>5. ASSUME ~ OverBudget(m) PROVE SentOk(c, s, entries')
  <2>1. m \in Seq(Message) /\ Hist(c, r, m, entries) /\ w = m
    BY <1>4, <1>5 DEF ClientOk, Hist
  <2> DEFINE k == Key(c, m, LastUser(m))
  <2>2. \A x \in DOMAIN entries' :
          IF x = k THEN entries'[x] = hits
                   ELSE x \in DOMAIN entries /\ entries'[x] = entries[x]
    <3>1. CachePut(k, hits)
      BY <1>1, <2>1
    <3> HIDE DEF k
    <3> QED
      BY <3>1, PutKept
  <2>3. s.asked = m /\ s.prompt = IF hits = NoEntry THEN r.prompt
           ELSE AboveUser(r.prompt, LastUser(r.prompt), Block(hits, FALSE, 0))
    OBVIOUS
  <2> HIDE DEF s, r, m
  <2> DEFINE f == entries'
  <2>4. \A x \in DOMAIN f :
          IF x = Key(c, m, LastUser(m)) THEN f[x] = hits
                   ELSE x \in DOMAIN entries /\ f[x] = entries[x]
    BY <2>2
  <2> HIDE DEF f
  <2>5. Remembers(c, r, m, entries, f, hits, s)
    BY <1>4, <2>1, <2>3, <2>4 DEF Remembers, Ready
  <2>6. SentOk(c, s, f)
    BY <2>5, PostedIsRemembered
  <2> QED
    BY <2>6 DEF f
<1> QED
  BY <1>2, <1>3, <1>5, PostStep

LEMMA InjectNothingStep ==
    ASSUME FollowInv, Sticky, AgentsApart, NEW c \in Clients, InjectNothing(c)
    PROVE  StepFollows(c)
<1>1. Retrieving(c) /\ Remember(c, NoEntry) /\ Forward(c, request[c].prompt, FALSE, FALSE)
  BY DEF InjectNothing
<1> QED
  BY <1>1, RememberStep

LEMMA InjectFactsStep ==
    ASSUME FollowInv, Sticky, AgentsApart, NEW c \in Clients, InjectFacts(c)
    PROVE  StepFollows(c)
<1>1. Retrieving(c) /\ entries' = entries
  BY DEF InjectFacts, cacheVars
<1>2. \/ Forward(c, Inject(request[c].prompt, Block(<<>>, TRUE, 0), InjectMode), TRUE, TRUE)
      \/ Forward(c, request[c].prompt, FALSE, TRUE)
  BY DEF InjectFacts
<1>3. Posted(request[c], Inject(request[c].prompt, Block(<<>>, TRUE, 0), InjectMode))
      /\ Posted(request[c], request[c].prompt)
  BY DEF Posted, Inject, Sticky
<1> QED
  BY <1>1, <1>2, <1>3, SameKept, PostStep

\* A block of a search lists something.
LEMMA InjectMemoriesLists ==
    ASSUME NEW c \in Clients, Sticky, InjectMemories(c)
    PROVE  \E hits : /\ hits # NoEntry /\ Remember(c, hits)
                    /\ Forward(c, Inject(request[c].prompt, Block(hits, FALSE, 0), InjectMode),
                               TRUE, FALSE)
<1> DEFINE r == request[c]
<1>1. PICK found \in Rankings(TopK + Cardinality(r.shown)) :
        \E n \in 1..Min({TopK, Len(Unshown(found, r.shown))}) :
          LET hits == SubSeq(Unshown(found, r.shown), 1, n)
          IN  /\ Remember(c, hits)
              /\ Forward(c, Inject(r.prompt, Block(hits, FALSE, 0), InjectMode), TRUE, FALSE)
  BY DEF InjectMemories
<1> DEFINE fresh == Unshown(found, r.shown)
           P == {i \in DOMAIN found : found[i].id \notin r.shown}
<1>2. PICK n \in 1..Min({TopK, Len(fresh)}) :
        /\ Remember(c, SubSeq(fresh, 1, n))
        /\ Forward(c, Inject(r.prompt, Block(SubSeq(fresh, 1, n), FALSE, 0), InjectMode),
                   TRUE, FALSE)
  BY <1>1
<1>3. IsFiniteSet(P) /\ Cardinality(P) \in Nat
  <2>1. PICK k \in 0..(TopK + Cardinality(r.shown)) : DOMAIN found = 1..k
    BY DEF Rankings, SeqOf
  <2>2. IsFiniteSet(1..k)
    BY FS_Interval
  <2>3. P \subseteq 1..k
    BY <2>1
  <2> QED
    BY <2>2, <2>3, FS_Subset, FS_CardinalityType
<1>4. fresh = [j \in 1..Cardinality(P) |-> found[Nth(P, j)]]
  BY DEF Unshown, AtPositions
<1> HIDE DEF fresh, P
<1>5. fresh \in Seq({fresh[j] : j \in 1..Cardinality(P)}) /\ Len(fresh) = Cardinality(P)
  BY <1>3, <1>4
<1>6. n \in Nat /\ 1 <= n /\ n <= Len(fresh)
  <2>1. TopK \in Nat /\ Len(fresh) \in Nat
    BY <1>3, <1>5, RequestAssumption
  <2>2. {TopK, Len(fresh)} \in SUBSET Nat /\ {TopK, Len(fresh)} # {}
    BY <2>1
  <2>3. Min({TopK, Len(fresh)}) <= Len(fresh) /\ Min({TopK, Len(fresh)}) \in Nat
    BY <2>2, MinOf
  <2> QED
    BY <2>1, <2>3
<1>7. Len(SubSeq(fresh, 1, n)) = n
  BY <1>5, <1>6
<1>8. SubSeq(fresh, 1, n) # NoEntry
  BY <1>6, <1>7 DEF NoEntry
<1> QED
  BY <1>2, <1>8

LEMMA InjectMemoriesStep ==
    ASSUME FollowInv, Sticky, AgentsApart, NEW c \in Clients, InjectMemories(c)
    PROVE  StepFollows(c)
<1>1. Retrieving(c)
  BY DEF InjectMemories
<1>2. PICK hits : /\ hits # NoEntry /\ Remember(c, hits)
                 /\ Forward(c, Inject(request[c].prompt, Block(hits, FALSE, 0), InjectMode),
                            TRUE, FALSE)
  BY InjectMemoriesLists
<1> DEFINE p == Inject(request[c].prompt, Block(hits, FALSE, 0), InjectMode)
<1>3. p = IF hits = NoEntry THEN request[c].prompt
          ELSE AboveUser(request[c].prompt, LastUser(request[c].prompt),
                         Block(hits, FALSE, 0))
  BY <1>2 DEF Inject, Sticky
<1> HIDE DEF p
<1> QED
  BY <1>1, <1>2, <1>3, RememberStep DEF p

-----------------------------------------------------------------------------

LEMMA InitFollows == Init => FollowInv
<1> SUFFICES ASSUME Init PROVE FollowInv
  OBVIOUS
<1>1. ConversationInv
  BY InitConversation
<1>2. /\ request = [c \in Clients |-> NoRequest] /\ sent = [c \in Clients |-> NothingSent]
      /\ conversation = [c \in Clients |-> Opening]
  BY DEF Init
<1>3. NothingSent.asked = <<>> /\ <<>> \in Seq(Message)
  BY DEF NothingSent
<1>4. ASSUME NEW c \in Clients
      PROVE  ClientOk(c, request[c], sent[c], conversation[c], entries)
  <2>1. request[c] = NoRequest /\ sent[c] = NothingSent /\ conversation[c] = Opening
        /\ Opening \in Seq(Message)
    BY <1>1, <1>2 DEF ConversationInv
  <2>2. ClientOk(c, NoRequest, NothingSent, Opening, entries)
    BY <1>3, <2>1, NoRequestIs DEF ClientOk, Quiet
  <2> QED
    BY <2>1, <2>2
<1>5. request = [c \in Clients |-> request[c]] /\ sent = [c \in Clients |-> sent[c]]
  BY <1>2
<1> QED
  BY <1>1, <1>4, <1>5 DEF FollowInv

LEMMA NextFollows ==
    ASSUME Sticky, AgentsApart, FollowInv, [Next]_vars
    PROVE  FollowInv' /\ \A c \in Clients : Extended(c)
<1>1. CASE UNCHANGED vars \/ \E m \in Memories : Purge(m)
  <2>1. /\ conversation' = conversation /\ request' = request
        /\ sent' = sent /\ entries' = entries
    BY <1>1 DEF vars, Purge, cacheVars, history
  <2>2. FollowInv'
    BY <2>1 DEF FollowInv, ConversationInv
  <2> QED
    BY <2>1, <2>2 DEF Extended
<1>2. CASE \E c \in Clients : RequestStep(c)
  <2>1. PICK c \in Clients :
          \/ Ask(c) \/ ToolResult(c) \/ Rewind(c)
          \/ Receive(c) \/ Refuse(c) \/ Lookup(c)
          \/ InjectNothing(c) \/ InjectMemories(c) \/ InjectFacts(c)
          \/ Answer(c) \/ Unreachable(c)
    BY <1>2 DEF RequestStep
  <2>2. StepFollows(c)
    <3>1. CASE Ask(c) \/ ToolResult(c) \/ Refuse(c) \/ Answer(c) \/ Unreachable(c)
      <4>1. PICK q, n : Talks(c, q, n)
        BY <3>1, FollowsRequests, AskStep, ToolResultStep, RefuseStep, AnswerStep,
           UnreachableStep
      <4> QED
        BY <4>1, TalkStep
    <3> QED
      BY <2>1, <3>1, RewindStep, ReceiveStep, LookupStep, InjectNothingStep,
         InjectMemoriesStep, InjectFactsStep
  <2>3. ConversationInv'
    BY NextConversation DEF FollowInv
  <2>4. ASSUME NEW d \in Clients
        PROVE  ClientOk(d, request'[d], sent'[d], conversation'[d], entries') /\ Extended(d)
    <3>1. CASE d = c
      BY <2>2, <3>1 DEF StepFollows, OwnOk
    <3>2. CASE d # c
      <4>1. /\ request'[d] = request[d] /\ sent'[d] = sent[d]
            /\ conversation'[d] = conversation[d] /\ Kept(d, entries', entries)
        BY <2>2, <3>2 DEF StepFollows, OthersKept
      <4>2. ClientOk(d, request[d], sent[d], conversation[d], entries)
        BY DEF FollowInv
      <4>3. ClientOk(d, request[d], sent[d], conversation[d], entries')
        BY <4>1, <4>2, ClientKept
      <4> QED
        BY <4>1, <4>3 DEF Extended
    <3> QED
      BY <3>1, <3>2
  <2> QED
    BY <2>2, <2>3, <2>4 DEF FollowInv, StepFollows, OwnOk
<1> QED
  BY <1>1, <1>2 DEF Next

\* Action property: when every client is an agent of its own, the next question of a
\* conversation extends, to the letter, the prompt sent for the one before, whatever
\* retries, tool calls and requests of others come between (README.md:309; sticky.cpp,
\* proxy.cpp apply_sticky_history).
THEOREM FollowUpExtendsEver ==
    ASSUME Sticky, AgentsApart
    PROVE  Spec => FollowUpExtends
<1>1. Init => FollowInv
  BY InitFollows
<1>2. FollowInv /\ [Next]_vars => FollowInv'
  BY NextFollows
<1>3. FollowInv /\ [Next]_vars =>
        [\A c \in Clients :
          /\ sent[c] # sent'[c]
          /\ FollowsUp(sent[c].asked, sent'[c].asked)
          /\ ~ sent[c].facts
          /\ ~ OverBudget(sent'[c].asked)
          /\ ShownKeys(c) \subseteq DOMAIN entries
          => IsPrefix(sent[c].prompt, sent'[c].prompt)]_vars
  BY NextFollows DEF Extended, Follows
<1> QED
  BY <1>1, <1>2, <1>3, PTL DEF Spec, FollowUpExtends

-----------------------------------------------------------------------------
(* No memory twice: a search excludes what the earlier turns' entries list, so *)
(* the entries of one conversation's questions are apart, as long as each is   *)
(* what its question was given last.  The invariant: of two marked entries of  *)
(* a client, one with a key that begins like the other's and the other put for *)
(* a later question, no memory is in both; and a request shows of each marked  *)
(* entry it looked up what that lists, and its search excludes it.             *)

(* Prompts and what they show *)

Blocks == [hits : Seq(Hits), facts : BOOLEAN, omitted : Nat]
Prompted == [role : Roles, content : Contents, blocks : Seq(Blocks)]

\* The ids that a prompt shows, and that it shows no hit at two places.
Shown(p) == {At(p, x).id : x \in Places(p)}
OnceEach(p) == \A x, y \in Places(p) : At(p, x) = At(p, y) => x = y

\* A place, written out.
IsPlace(p, i, j, n) ==
    /\ i \in 1..Len(p) /\ j \in 1..Len(p[i].blocks)
    /\ n \in 1..Len(p[i].blocks[j].hits)
Hit(p, i, j, n) == p[i].blocks[j].hits[n]

LEMMA InPlaces ==
    ASSUME NEW p \in Seq(Prompted)
    PROVE  \A x : x \in Places(p) <=> \E i, j, n : IsPlace(p, i, j, n) /\ x = <<i, j, n>>
<1>1. DOMAIN p = 1..Len(p) /\ \A i \in 1..Len(p) : p[i] \in Prompted
  OBVIOUS
<1>2. ASSUME NEW i \in 1..Len(p)
      PROVE  /\ DOMAIN p[i].blocks = 1..Len(p[i].blocks)
             /\ \A j \in 1..Len(p[i].blocks) :
                  DOMAIN p[i].blocks[j].hits = 1..Len(p[i].blocks[j].hits)
  <2>1. p[i].blocks \in Seq(Blocks)
    BY <1>1 DEF Prompted
  <2>2. \A j \in 1..Len(p[i].blocks) : p[i].blocks[j] \in Blocks
    BY <2>1
  <2>3. \A j \in 1..Len(p[i].blocks) : p[i].blocks[j].hits \in Seq(Hits)
    BY <2>2 DEF Blocks
  <2> QED
    BY <2>1, <2>3
<1> SUFFICES ASSUME NEW x
             PROVE  x \in Places(p) <=> \E i, j, n : IsPlace(p, i, j, n) /\ x = <<i, j, n>>
  OBVIOUS
<1>3. x \in Places(p) <=>
        \E i \in DOMAIN p : \E j \in DOMAIN p[i].blocks :
          \E n \in DOMAIN p[i].blocks[j].hits : x = <<i, j, n>>
  BY DEF Places
<1>4. ASSUME x \in Places(p)
      PROVE  \E i, j, n : IsPlace(p, i, j, n) /\ x = <<i, j, n>>
  <2>1. PICK i \in DOMAIN p : \E j \in DOMAIN p[i].blocks :
          \E n \in DOMAIN p[i].blocks[j].hits : x = <<i, j, n>>
    BY <1>3, <1>4
  <2>2. PICK j \in DOMAIN p[i].blocks :
          \E n \in DOMAIN p[i].blocks[j].hits : x = <<i, j, n>>
    BY <2>1
  <2>3. PICK n \in DOMAIN p[i].blocks[j].hits : x = <<i, j, n>>
    BY <2>2
  <2>4. IsPlace(p, i, j, n)
    BY <1>1, <1>2 DEF IsPlace
  <2> QED
    BY <2>3, <2>4
<1>5. ASSUME NEW i, NEW j, NEW n, IsPlace(p, i, j, n), x = <<i, j, n>>
      PROVE  x \in Places(p)
  <2>1. i \in DOMAIN p /\ j \in DOMAIN p[i].blocks /\ n \in DOMAIN p[i].blocks[j].hits
    BY <1>1, <1>2, <1>5 DEF IsPlace
  <2> QED
    BY <1>3, <1>5, <2>1
<1> QED
  BY <1>4, <1>5

LEMMA PlacesOnce ==
    ASSUME NEW p \in Seq(Prompted)
    PROVE  /\ OnceEach(p) <=>
                \A i, j, n, i2, j2, n2 :
                  /\ IsPlace(p, i, j, n) /\ IsPlace(p, i2, j2, n2)
                  /\ Hit(p, i, j, n) = Hit(p, i2, j2, n2)
                  => i = i2 /\ j = j2 /\ n = n2
           /\ \A m : m \in Shown(p) <=>
                \E i, j, n : IsPlace(p, i, j, n) /\ m = Hit(p, i, j, n).id
<1>1. \A x : x \in Places(p) <=> \E i, j, n : IsPlace(p, i, j, n) /\ x = <<i, j, n>>
  BY InPlaces
<1>2. \A i, j, n : At(p, <<i, j, n>>) = Hit(p, i, j, n)
  BY DEF At, Hit
<1> HIDE DEF IsPlace, Hit
<1>3. ASSUME OnceEach(p), NEW i, NEW j, NEW n, NEW i2, NEW j2, NEW n2,
             IsPlace(p, i, j, n), IsPlace(p, i2, j2, n2),
             Hit(p, i, j, n) = Hit(p, i2, j2, n2)
      PROVE  i = i2 /\ j = j2 /\ n = n2
  <2>1. <<i, j, n>> \in Places(p) /\ <<i2, j2, n2>> \in Places(p)
    BY <1>1, <1>3
  <2>2. <<i, j, n>> = <<i2, j2, n2>>
    BY <1>2, <1>3, <2>1 DEF OnceEach
  <2> QED
    BY <2>2
<1>4. ASSUME \A i, j, n, i2, j2, n2 :
               /\ IsPlace(p, i, j, n) /\ IsPlace(p, i2, j2, n2)
               /\ Hit(p, i, j, n) = Hit(p, i2, j2, n2)
               => i = i2 /\ j = j2 /\ n = n2
      PROVE  OnceEach(p)
  <2> SUFFICES ASSUME NEW x \in Places(p), NEW y \in Places(p), At(p, x) = At(p, y)
               PROVE  x = y
    BY DEF OnceEach
  <2>1. PICK i, j, n : IsPlace(p, i, j, n) /\ x = <<i, j, n>>
    BY <1>1
  <2>2. PICK i2, j2, n2 : IsPlace(p, i2, j2, n2) /\ y = <<i2, j2, n2>>
    BY <1>1
  <2>3. Hit(p, i, j, n) = Hit(p, i2, j2, n2)
    BY <1>2, <2>1, <2>2
  <2> QED
    BY <1>4, <2>1, <2>2, <2>3
<1>5. ASSUME NEW m
      PROVE  m \in Shown(p) <=> \E i, j, n : IsPlace(p, i, j, n) /\ m = Hit(p, i, j, n).id
  <2>1. ASSUME m \in Shown(p)
        PROVE  \E i, j, n : IsPlace(p, i, j, n) /\ m = Hit(p, i, j, n).id
    <3>1. PICK x \in Places(p) : m = At(p, x).id
      BY <2>1 DEF Shown
    <3>2. PICK i, j, n : IsPlace(p, i, j, n) /\ x = <<i, j, n>>
      BY <1>1
    <3>3. m = Hit(p, i, j, n).id
      BY <1>2, <3>1, <3>2
    <3> QED
      BY <3>2, <3>3
  <2>2. ASSUME NEW i, NEW j, NEW n, IsPlace(p, i, j, n), m = Hit(p, i, j, n).id
        PROVE  m \in Shown(p)
    <3>1. <<i, j, n>> \in Places(p) /\ m = At(p, <<i, j, n>>).id
      BY <1>1, <1>2, <2>2
    <3> QED
      BY <3>1 DEF Shown
  <2> QED
    BY <2>1, <2>2
<1> QED
  BY <1>3, <1>4, <1>5

\* Two hits of a memory differ in the id alone.
LEMMA OnceShows ==
    ASSUME NEW p \in Seq(Prompted), OnceEach(p)
    PROVE  ShowsOnce(p)
<1>1. ASSUME NEW x \in Places(p) PROVE At(p, x) \in Hits
  <2>1. PICK i, j, n : IsPlace(p, i, j, n) /\ x = <<i, j, n>>
    BY InPlaces
  <2>2. i \in 1..Len(p) /\ j \in 1..Len(p[i].blocks) /\ n \in 1..Len(p[i].blocks[j].hits)
    BY <2>1 DEF IsPlace
  <2>3. p[i] \in Prompted
    BY <2>2
  <2>4. p[i].blocks[j] \in Blocks
    BY <2>2, <2>3 DEF Prompted
  <2>5. p[i].blocks[j].hits[n] \in Hits
    BY <2>2, <2>4 DEF Blocks
  <2> QED
    BY <2>1, <2>5 DEF At
<1> SUFFICES ASSUME NEW x \in Places(p), NEW y \in Places(p), x # y,
                    At(p, x).memory = At(p, y).memory
             PROVE  {At(p, x).id, At(p, y).id} = {At(p, x).memory, Hole}
  BY DEF ShowsOnce
<1> DEFINE g == At(p, x)
           h == At(p, y)
<1>2. g \in Hits /\ h \in Hits /\ g # h /\ g.memory = h.memory
  BY <1>1 DEF OnceEach
<1> HIDE DEF g, h
<1>3. /\ g.id \in {g.memory, Hole} /\ h.id \in {g.memory, Hole}
      /\ g = [memory |-> g.memory, id |-> g.id] /\ h = [memory |-> h.memory, id |-> h.id]
  BY <1>2 DEF Hits
<1>4. g.id # h.id
  BY <1>2, <1>3
<1>5. {g.id, h.id} = {g.memory, Hole}
  BY <1>3, <1>4
<1> QED
  BY <1>5 DEF g, h

\* The prompt q is p with the block b put somewhere: among the blocks of a message it
\* is at place jb, and what was from there on has moved on by one.
PutInside(p, q, ib, jb, b) ==
    /\ ib \in 1..Len(p) /\ jb \in 1..(Len(p[ib].blocks) + 1)
    /\ Len(q) = Len(p)
    /\ \A i \in 1..Len(p) : i # ib => q[i] = p[i]
    /\ Len(q[ib].blocks) = Len(p[ib].blocks) + 1
    /\ q[ib].blocks[jb] = b
    /\ \A j \in 1..Len(p[ib].blocks) :
         q[ib].blocks[IF j < jb THEN j ELSE j + 1] = p[ib].blocks[j]

Fresh(p, b) == /\ IsInjective(b.hits)
               /\ \A n \in DOMAIN b.hits : b.hits[n].id \notin Shown(p)

LEMMA InsideOnce ==
    ASSUME NEW p \in Seq(Prompted), NEW q \in Seq(Prompted), NEW ib, NEW jb,
           NEW b \in Blocks, PutInside(p, q, ib, jb, b), OnceEach(p), Fresh(p, b)
    PROVE  OnceEach(q)
<1>1. /\ ib \in 1..Len(p) /\ jb \in 1..(Len(p[ib].blocks) + 1)
      /\ Len(q) = Len(p)
      /\ \A i \in 1..Len(p) : i # ib => q[i] = p[i]
      /\ Len(q[ib].blocks) = Len(p[ib].blocks) + 1
      /\ q[ib].blocks[jb] = b
      /\ \A j \in 1..Len(p[ib].blocks) :
           q[ib].blocks[IF j < jb THEN j ELSE j + 1] = p[ib].blocks[j]
  BY DEF PutInside
<1>2. Len(p) \in Nat /\ Len(p[ib].blocks) \in Nat /\ DOMAIN b.hits = 1..Len(b.hits)
  <2>1. p[ib] \in Prompted
    BY <1>1
  <2>2. p[ib].blocks \in Seq(Blocks)
    BY <2>1 DEF Prompted
  <2>3. b.hits \in Seq(Hits)
    BY DEF Blocks
  <2> QED
    BY <2>2, <2>3
<1>3. /\ \A n \in DOMAIN b.hits : b.hits[n].id \notin Shown(p)
      /\ \A m, n \in DOMAIN b.hits : b.hits[m] = b.hits[n] => m = n
  BY DEF Fresh, IsInjective
\* A place of q is the new block's or one of p.
<1> DEFINE New(i, j) == i = ib /\ j = jb
           back(i, j) == IF i = ib /\ j > jb THEN j - 1 ELSE j
<1>4. ASSUME NEW i, NEW j, NEW n, IsPlace(q, i, j, n), New(i, j)
      PROVE  n \in DOMAIN b.hits /\ Hit(q, i, j, n) = b.hits[n]
  BY <1>1, <1>2, <1>4 DEF IsPlace, Hit
<1>5. ASSUME NEW i, NEW j, NEW n, IsPlace(q, i, j, n), ~ New(i, j)
      PROVE  IsPlace(p, i, back(i, j), n) /\ Hit(q, i, j, n) = Hit(p, i, back(i, j), n)
  <2>1. i \in 1..Len(p) /\ j \in Int
    BY <1>1, <1>5 DEF IsPlace
  <2>2. CASE i # ib
    BY <1>1, <1>5, <2>1, <2>2 DEF IsPlace, Hit
  <2>3. CASE i = ib
    <3>1. j \in 1..(Len(p[ib].blocks) + 1) /\ j # jb /\ jb \in Int
      BY <1>1, <1>2, <1>5, <2>3 DEF IsPlace
    <3> DEFINE k == back(i, j)
    <3>2. k \in 1..Len(p[ib].blocks) /\ (IF k < jb THEN k ELSE k + 1) = j
      BY <1>1, <1>2, <2>3, <3>1
    <3> HIDE DEF k
    <3>3. q[ib].blocks[j] = p[ib].blocks[k]
      BY <1>1, <3>2
    <3>4. IsPlace(p, i, k, n) /\ Hit(q, i, j, n) = Hit(p, i, k, n)
      BY <1>1, <1>5, <2>3, <3>2, <3>3 DEF IsPlace, Hit
    <3> QED
      BY <3>4 DEF k
  <2> QED
    BY <2>2, <2>3
<1>6. \A i, j, n, i2, j2, n2 :
        /\ IsPlace(q, i, j, n) /\ IsPlace(q, i2, j2, n2)
        /\ Hit(q, i, j, n) = Hit(q, i2, j2, n2)
        => i = i2 /\ j = j2 /\ n = n2
  <2> SUFFICES ASSUME NEW i, NEW j, NEW n, NEW i2, NEW j2, NEW n2,
                      IsPlace(q, i, j, n), IsPlace(q, i2, j2, n2),
                      Hit(q, i, j, n) = Hit(q, i2, j2, n2)
               PROVE  i = i2 /\ j = j2 /\ n = n2
    OBVIOUS
  <2>1. j \in Int /\ j2 \in Int /\ jb \in Int
    BY <1>1 DEF IsPlace
  <2>2. CASE New(i, j) /\ New(i2, j2)
    BY <1>3, <1>4, <2>2
  <2>3. CASE New(i, j) /\ ~ New(i2, j2)
    <3>1. Hit(q, i2, j2, n2).id \in Shown(p)
      BY <1>5, <2>3, PlacesOnce
    <3> QED
      BY <1>3, <1>4, <2>3, <3>1
  <2>4. CASE ~ New(i, j) /\ New(i2, j2)
    <3>1. Hit(q, i, j, n).id \in Shown(p)
      BY <1>5, <2>4, PlacesOnce
    <3> QED
      BY <1>3, <1>4, <2>4, <3>1
  <2>5. CASE ~ New(i, j) /\ ~ New(i2, j2)
    <3>1. i = i2 /\ back(i, j) = back(i2, j2) /\ n = n2
      <4>1. /\ IsPlace(p, i, back(i, j), n) /\ IsPlace(p, i2, back(i2, j2), n2)
            /\ Hit(p, i, back(i, j), n) = Hit(p, i2, back(i2, j2), n2)
        BY <1>5, <2>5
      <4> HIDE DEF back
      <4> QED
        BY <4>1, PlacesOnce
    <3>2. j = j2
      BY <2>1, <2>5, <3>1
    <3> QED
      BY <3>1, <3>2
  <2> QED
    BY <2>2, <2>3, <2>4, <2>5
<1> QED
  BY <1>6, PlacesOnce

\* A message of the prompt is given other blocks.
Replaced(p, i, s, q) ==
    q = [p EXCEPT ![i] = [role |-> p[i].role, content |-> p[i].content, blocks |-> s]]

LEMMA WithBlocks ==
    ASSUME NEW x \in Prompted, NEW s
    PROVE  [x EXCEPT !.blocks = s] = [role |-> x.role, content |-> x.content, blocks |-> s]
  BY DEF Prompted

LEMMA BlockAdded ==
    ASSUME NEW p \in Seq(Prompted), NEW i \in 1..Len(p), NEW s \in Seq(Blocks),
           NEW q, Replaced(p, i, s, q)
    PROVE  /\ q \in Seq(Prompted) /\ Len(q) = Len(p)
           /\ q[i].blocks = s
           /\ \A k \in 1..Len(p) : q[k].role = p[k].role /\ (k # i => q[k] = p[k])
<1>1. p[i] \in Prompted /\ Len(p) \in Nat /\ DOMAIN p = 1..Len(p)
  OBVIOUS
<1> DEFINE x == [role |-> p[i].role, content |-> p[i].content, blocks |-> s]
<1>2. x \in Prompted /\ x.blocks = s /\ x.role = p[i].role
  BY <1>1 DEF Prompted
<1> HIDE DEF x
<1>3. q = [p EXCEPT ![i] = x]
  BY DEF x, Replaced
<1>4. q \in Seq(Prompted) /\ Len(q) = Len(p)
  BY <1>2, <1>3
<1>5. q[i] = x /\ \A k \in 1..Len(p) : k # i => q[k] = p[k]
  BY <1>1, <1>3
<1> QED
  BY <1>2, <1>4, <1>5

LEMMA AboveIsInside ==
    ASSUME NEW p \in Seq(Prompted), NEW i \in 1..Len(p), NEW b \in Blocks
    PROVE  LET q == AboveUser(p, i, b)
           IN  /\ q \in Seq(Prompted) /\ PutInside(p, q, i, 1, b)
               /\ \A k \in 1..Len(p) : q[k].role = p[k].role
<1> DEFINE q == AboveUser(p, i, b)
           s == <<b>> \o p[i].blocks
<1>1. p[i] \in Prompted
  OBVIOUS
<1>2. p[i].blocks \in Seq(Blocks)
  BY <1>1 DEF Prompted
<1> DEFINE t == p[i].blocks
<1>3. /\ s \in Seq(Blocks) /\ Len(s) = Len(t) + 1 /\ Len(t) \in Nat
      /\ s[1] = b /\ \A j \in 1..Len(t) : s[j + 1] = t[j]
  <2> HIDE DEF t
  <2>1. <<b>> \in Seq(Blocks) /\ t \in Seq(Blocks)
    BY <1>2 DEF t
  <2>2. /\ <<b>> \o t \in Seq(Blocks) /\ Len(<<b>> \o t) = Len(t) + 1 /\ Len(t) \in Nat
        /\ (<<b>> \o t)[1] = b /\ \A j \in 1..Len(t) : (<<b>> \o t)[j + 1] = t[j]
    BY <2>1
  <2> QED
    BY <2>2 DEF t
<1>4. Replaced(p, i, s, q)
  <2>1. [p[i] EXCEPT !.blocks = s] = [role |-> p[i].role, content |-> p[i].content, blocks |-> s]
    BY <1>1, WithBlocks
  <2>2. q = [p EXCEPT ![i] = [p[i] EXCEPT !.blocks = s]]
    BY DEF AboveUser
  <2> QED
    BY <2>1, <2>2 DEF Replaced
<1> HIDE DEF q, s
<1>5. /\ q \in Seq(Prompted) /\ Len(q) = Len(p) /\ q[i].blocks = s
      /\ \A k \in 1..Len(p) : q[k].role = p[k].role /\ (k # i => q[k] = p[k])
  BY <1>3, <1>4, BlockAdded
<1> HIDE DEF t
<1>6. /\ 1 \in 1..(Len(t) + 1) /\ Len(q[i].blocks) = Len(t) + 1
      /\ \A j \in 1..Len(t) : q[i].blocks[IF j < 1 THEN j ELSE j + 1] = t[j]
  BY <1>3, <1>5
<1>7. PutInside(p, q, i, 1, b)
  BY <1>3, <1>5, <1>6 DEF PutInside, t
<1> QED
  BY <1>5, <1>7 DEF q

BelowAll(prompt, i, block) == [prompt EXCEPT ![i].blocks = Append(@, block)]

LEMMA LastIsInside ==
    ASSUME NEW p \in Seq(Prompted), NEW i \in 1..Len(p), NEW b \in Blocks
    PROVE  LET q == BelowAll(p, i, b)
           IN  /\ q \in Seq(Prompted) /\ PutInside(p, q, i, Len(p[i].blocks) + 1, b)
               /\ \A k \in 1..Len(p) : q[k].role = p[k].role
<1> DEFINE q == BelowAll(p, i, b)
           s == Append(p[i].blocks, b)
<1>1. p[i] \in Prompted
  OBVIOUS
<1>2. p[i].blocks \in Seq(Blocks)
  BY <1>1 DEF Prompted
<1> DEFINE t == p[i].blocks
<1>3. /\ s \in Seq(Blocks) /\ Len(s) = Len(t) + 1 /\ Len(t) \in Nat
      /\ s[Len(t) + 1] = b /\ \A j \in 1..Len(t) : s[j] = t[j]
  <2> HIDE DEF t
  <2>1. t \in Seq(Blocks)
    BY <1>2 DEF t
  <2>2. /\ Append(t, b) \in Seq(Blocks) /\ Len(Append(t, b)) = Len(t) + 1 /\ Len(t) \in Nat
        /\ Append(t, b)[Len(t) + 1] = b /\ \A j \in 1..Len(t) : Append(t, b)[j] = t[j]
    BY <2>1
  <2> QED
    BY <2>2 DEF t
<1>4. Replaced(p, i, s, q)
  <2>1. [p[i] EXCEPT !.blocks = s] = [role |-> p[i].role, content |-> p[i].content, blocks |-> s]
    BY <1>1, WithBlocks
  <2>2. q = [p EXCEPT ![i] = [p[i] EXCEPT !.blocks = s]]
    BY DEF BelowAll
  <2> QED
    BY <2>1, <2>2 DEF Replaced
<1> HIDE DEF q, s
<1>5. /\ q \in Seq(Prompted) /\ Len(q) = Len(p) /\ q[i].blocks = s
      /\ \A k \in 1..Len(p) : q[k].role = p[k].role /\ (k # i => q[k] = p[k])
  BY <1>3, <1>4, BlockAdded
<1> HIDE DEF t
<1>6. /\ Len(t) + 1 \in 1..(Len(t) + 1) /\ Len(q[i].blocks) = Len(t) + 1
      /\ \A j \in 1..Len(t) : q[i].blocks[IF j < Len(t) + 1 THEN j ELSE j + 1] = t[j]
  BY <1>3, <1>5
<1>7. PutInside(p, q, i, Len(p[i].blocks) + 1, b)
  BY <1>3, <1>5, <1>6 DEF PutInside, t
<1> QED
  BY <1>5, <1>7 DEF q

LEMMA FrontOnce ==
    ASSUME NEW p \in Seq(Prompted), NEW b \in Blocks, NEW x \in Prompted, x.blocks = <<b>>,
           OnceEach(p), Fresh(p, b)
    PROVE  LET q == <<x>> \o p
           IN  q \in Seq(Prompted) /\ OnceEach(q)
<1> DEFINE q == <<x>> \o p
<1>1. /\ q \in Seq(Prompted) /\ Len(q) = Len(p) + 1 /\ Len(p) \in Nat
      /\ q[1] = x /\ \A i \in 1..Len(p) : q[i + 1] = p[i]
  <2>1. <<x>> \in Seq(Prompted)
    OBVIOUS
  <2> QED
    BY <2>1
<1> HIDE DEF q
<1>2. ASSUME NEW i, NEW j, NEW n, IsPlace(q, i, j, n), i = 1
      PROVE  j = 1 /\ n \in DOMAIN b.hits /\ Hit(q, i, j, n) = b.hits[n]
  <2>1. q[i].blocks = <<b>> /\ b.hits \in Seq(Hits)
    BY <1>1, <1>2 DEF Blocks
  <2>2. j \in 1..Len(<<b>>) /\ n \in 1..Len(q[i].blocks[j].hits)
    BY <1>2, <2>1 DEF IsPlace
  <2>3. j = 1
    BY <2>2
  <2>4. q[i].blocks[j] = b
    BY <2>1, <2>3
  <2> QED
    BY <2>1, <2>2, <2>3, <2>4 DEF Hit
<1>3. ASSUME NEW i, NEW j, NEW n, IsPlace(q, i, j, n), i # 1
      PROVE  i \in Int /\ IsPlace(p, i - 1, j, n) /\ Hit(q, i, j, n) = Hit(p, i - 1, j, n)
  <2>1. i \in 1..(Len(p) + 1)
    BY <1>1, <1>3 DEF IsPlace
  <2>2. i - 1 \in 1..Len(p) /\ (i - 1) + 1 = i
    BY <1>1, <1>3, <2>1
  <2>3. q[i] = p[i - 1]
    BY <1>1, <2>2
  <2> QED
    BY <1>3, <2>1, <2>2, <2>3 DEF IsPlace, Hit
<1>4. /\ \A n \in DOMAIN b.hits : b.hits[n].id \notin Shown(p)
      /\ \A m, n \in DOMAIN b.hits : b.hits[m] = b.hits[n] => m = n
  BY DEF Fresh, IsInjective
<1>5. \A i, j, n, i2, j2, n2 :
        /\ IsPlace(q, i, j, n) /\ IsPlace(q, i2, j2, n2)
        /\ Hit(q, i, j, n) = Hit(q, i2, j2, n2)
        => i = i2 /\ j = j2 /\ n = n2
  <2> SUFFICES ASSUME NEW i, NEW j, NEW n, NEW i2, NEW j2, NEW n2,
                      IsPlace(q, i, j, n), IsPlace(q, i2, j2, n2),
                      Hit(q, i, j, n) = Hit(q, i2, j2, n2)
               PROVE  i = i2 /\ j = j2 /\ n = n2
    OBVIOUS
  <2>1. CASE i = 1 /\ i2 = 1
    <3>1. j = 1 /\ j2 = 1 /\ n \in DOMAIN b.hits /\ n2 \in DOMAIN b.hits
          /\ b.hits[n] = b.hits[n2]
      BY <1>2, <2>1
    <3> QED
      BY <1>4, <2>1, <3>1
  <2>2. CASE i = 1 /\ i2 # 1
    <3>1. Hit(q, i2, j2, n2).id \in Shown(p)
      BY <1>3, <2>2, PlacesOnce
    <3>2. n \in DOMAIN b.hits /\ Hit(q, i, j, n) = b.hits[n]
      BY <1>2, <2>2
    <3> QED
      BY <1>4, <3>1, <3>2
  <2>3. CASE i # 1 /\ i2 = 1
    <3>1. Hit(q, i, j, n).id \in Shown(p)
      BY <1>3, <2>3, PlacesOnce
    <3>2. n2 \in DOMAIN b.hits /\ Hit(q, i2, j2, n2) = b.hits[n2]
      BY <1>2, <2>3
    <3> QED
      BY <1>4, <3>1, <3>2
  <2>4. CASE i # 1 /\ i2 # 1
    <3> DEFINE h == i - 1
               h2 == i2 - 1
    <3>1. /\ IsPlace(p, h, j, n) /\ IsPlace(p, h2, j2, n2)
          /\ Hit(p, h, j, n) = Hit(p, h2, j2, n2) /\ i \in Int /\ i2 \in Int
      BY <1>3, <2>4
    <3>2. h = h2 /\ j = j2 /\ n = n2
      <4> HIDE DEF h, h2
      <4> QED
        BY <3>1, PlacesOnce
    <3> QED
      BY <3>1, <3>2
  <2> QED
    BY <2>1, <2>2, <2>3, <2>4
<1>6. OnceEach(q)
  BY <1>1, <1>5, PlacesOnce
<1> QED
  BY <1>1, <1>6 DEF q

\* Whatever the mode, a block of memories that the prompt does not show yet leaves it
\* showing each once.
LEMMA InjectOnce ==
    ASSUME NEW p \in Seq(Prompted), UserStarts(p) # {}, NEW b \in Blocks, NEW mode,
           OnceEach(p), Fresh(p, b)
    PROVE  LET q == Inject(p, b, mode)
           IN  q \in Seq(Prompted) /\ UserStarts(q) # {} /\ OnceEach(q)
<1> DEFINE q == Inject(p, b, mode)
           l == LastUser(p)
<1>1. Len(p) \in Nat /\ DOMAIN p = 1..Len(p) /\ UserStarts(p) \in SUBSET (1..Len(p))
  BY DEF UserStarts
<1>2. l \in 1..Len(p)
  BY <1>1, MaxOf DEF LastUser
<1>3. PICK u \in 1..Len(p) : p[u].role = "user"
  BY <1>1 DEF UserStarts
<1> HIDE DEF l
<1>4. CASE mode # "system"
  <2>1. q = AboveUser(p, l, b)
    BY <1>4 DEF Inject, l
  <2> HIDE DEF q
  <2>2. q \in Seq(Prompted) /\ PutInside(p, q, l, 1, b) /\ q[u].role = p[u].role
    BY <1>2, <2>1, AboveIsInside
  <2>3. OnceEach(q)
    BY <2>2, InsideOnce
  <2>4. u \in DOMAIN q
    BY <1>1, <2>2 DEF PutInside
  <2> QED
    BY <1>3, <2>2, <2>3, <2>4 DEF UserStarts, q
<1>5. CASE mode = "system" /\ p # <<>> /\ IsSystem(p[1])
  <2>1. q = BelowAll(p, 1, b)
    BY <1>5 DEF Inject, BelowAll
  <2>0. 1 \in 1..Len(p)
    BY <1>1, <1>3
  <2>2. /\ q \in Seq(Prompted) /\ PutInside(p, q, 1, Len(p[1].blocks) + 1, b)
        /\ q[u].role = p[u].role
    BY <2>0, <2>1, LastIsInside
  <2> HIDE DEF q
  <2>3. OnceEach(q)
    BY <2>2, InsideOnce
  <2>4. u \in DOMAIN q
    BY <1>1, <2>2 DEF PutInside
  <2> QED
    BY <1>3, <2>2, <2>3, <2>4 DEF UserStarts, q
<1>6. CASE mode = "system" /\ ~ (p # <<>> /\ IsSystem(p[1]))
  <2> DEFINE x == [role |-> "system", content |-> "text", blocks |-> <<b>>]
  <2>1. q = <<x>> \o p
    BY <1>6 DEF Inject
  <2>2. x \in Prompted /\ x.blocks = <<b>>
    BY RequestAssumption DEF Prompted, Roles
  <2> HIDE DEF q, x
  <2>3. q \in Seq(Prompted) /\ OnceEach(q)
    BY <2>1, <2>2, FrontOnce
  <2>4. u + 1 \in DOMAIN q /\ q[u + 1] = p[u]
    <3>1. <<x>> \in Seq(Prompted)
      BY <2>2
    <3>2. Len(q) = Len(p) + 1 /\ \A i \in 1..Len(p) : q[i + 1] = p[i]
      BY <2>1, <3>1
    <3> QED
      BY <1>1, <2>3, <3>2
  <2> QED
    BY <1>3, <2>3, <2>4 DEF UserStarts, q
<1> QED
  BY <1>4, <1>5, <1>6

\* A window begins the talk with a question, so it has one.
LEMMA WindowAsks ==
    ASSUME NEW m \in Seq(Message), UserStarts(m) # {}
    PROVE  /\ Retained(m) \in Seq(Message) /\ UserStarts(Retained(m)) # {}
           /\ Cardinality(DroppedMessages(m)) \in Nat
<1>1. Cardinality(DroppedMessages(m)) \in Nat
  <2>1. DroppedMessages(m) \subseteq 1..Len(m) /\ Len(m) \in Nat
    BY DEF DroppedMessages, NonSystem
  <2>2. IsFiniteSet(1..Len(m))
    BY <2>1, FS_Interval
  <2> QED
    BY <2>1, <2>2, FS_Subset, FS_CardinalityType
<1>2. CASE ~ OverBudget(m)
  BY <1>1, <1>2 DEF Retained
<1>3. CASE OverBudget(m)
  <2> DEFINE w == Retained(m)
             K == KeptPositions(m)
             cut == CutIndex(m)
  <2>1. w \in Seq(Message)
    BY <1>3, WindowTakes
  <2>2. PICK g : Increases(g, 1..Len(w), K) /\ \A p \in 1..Len(w) : w[p] = m[g[p]]
    BY <1>3, WindowTakes
  <2>3. cut \in UserStarts(m) /\ cut \in 1..Len(m)
    BY CutAt
  <2>4. cut \in K
    BY <2>3 DEF KeptPositions
  <2> HIDE DEF w, K, cut
  <2>5. PICK p \in 1..Len(w) : g[p] = cut
    BY <2>2, <2>4 DEF Increases
  <2>6. w[p].role = "user"
    BY <2>2, <2>3, <2>5 DEF UserStarts
  <2>7. p \in UserStarts(w)
    BY <2>1, <2>6 DEF UserStarts
  <2> QED
    BY <1>1, <2>1, <2>7 DEF w
<1> QED
  BY <1>2, <1>3

\* Hits, none of them twice.
Distinct(s) == s \in Seq(Hits) /\ IsInjective(s)

LEMMA FirstsDistinct ==
    ASSUME NEW s, Distinct(s), NEW n \in 1..Len(s)
    PROVE  /\ Distinct(SubSeq(s, 1, n)) /\ DOMAIN SubSeq(s, 1, n) = 1..n
           /\ \A i \in 1..n : i \in DOMAIN s /\ SubSeq(s, 1, n)[i] = s[i]
<1>1. s \in Seq(Hits) /\ Len(s) \in Nat /\ \A i, j \in 1..Len(s) : s[i] = s[j] => i = j
  BY DEF Distinct, IsInjective
<1> DEFINE t == SubSeq(s, 1, n)
<1>2. t \in Seq(Hits) /\ Len(t) = n /\ \A i \in 1..n : i \in 1..Len(s) /\ t[i] = s[i]
  BY <1>1
<1> HIDE DEF t
<1>3. IsInjective(t)
  BY <1>1, <1>2 DEF IsInjective
<1> QED
  BY <1>1, <1>2, <1>3 DEF t, Distinct

LEMMA RankingDistinct ==
    ASSUME NEW N, NEW s \in Rankings(N)
    PROVE  Distinct(s)
<1>1. PICK t \in SeqOf(Memories, N) : IsInjective(t) /\ s = [i \in DOMAIN t |-> Served(t[i])]
  BY DEF Rankings
<1>2. PICK k \in 0..N : t \in [1..k -> Memories]
  BY DEF SeqOf
<1>3. \A m \in Memories : Served(m) \in Hits /\ Served(m).memory = m
  BY DEF Served, Hits
<1>4. s \in [1..k -> Hits] /\ \A i \in 1..k : s[i].memory = t[i]
  BY <1>1, <1>2, <1>3
<1>5. \A i, j \in 1..k : s[i] = s[j] => i = j
  BY <1>1, <1>2, <1>4 DEF IsInjective
<1>6. s \in Seq(Hits)
  BY <1>4
<1> QED
  BY <1>4, <1>5, <1>6 DEF Distinct, IsInjective

\* What filter_excluded_memories leaves.
LEMMA UnshownDistinct ==
    ASSUME NEW s, Distinct(s), NEW shown
    PROVE  /\ Distinct(Unshown(s, shown))
           /\ \A i \in DOMAIN Unshown(s, shown) : Unshown(s, shown)[i].id \notin shown
<1> DEFINE P == {i \in DOMAIN s : s[i].id \notin shown}
           k == Cardinality(P)
           t == Unshown(s, shown)
<1>1. s \in Seq(Hits) /\ Len(s) \in Nat /\ DOMAIN s = 1..Len(s)
      /\ \A i, j \in 1..Len(s) : s[i] = s[j] => i = j
  BY DEF Distinct, IsInjective
<1>2. IsFiniteSet(P) /\ P \in SUBSET Nat /\ k \in Nat
  <2>1. P \subseteq 1..Len(s) /\ IsFiniteSet(1..Len(s))
    BY <1>1, FS_Interval
  <2> QED
    BY <2>1, FS_Subset, FS_CardinalityType
<1>3. t = [n \in 1..k |-> s[Nth(P, n)]]
  BY DEF Unshown, AtPositions
<1>4. \A i \in P : i \in 1..Len(s) /\ s[i].id \notin shown
  BY <1>1
<1> HIDE DEF P, t
<1>5. \A n \in 1..k : Nth(P, n) \in P /\ Rank(P, Nth(P, n)) = n - 1
  BY <1>2, NthOrders
<1>6. \A i, j \in 1..k : Nth(P, i) = Nth(P, j) => i = j
  <2> SUFFICES ASSUME NEW i \in 1..k, NEW j \in 1..k, Nth(P, i) = Nth(P, j)
               PROVE  i = j
    OBVIOUS
  <2>1. i - 1 = j - 1
    BY <1>5
  <2>2. i \in Int /\ j \in Int
    BY <1>2
  <2> QED
    BY <2>1, <2>2
<1> HIDE DEF k
<1>7. t \in [1..k -> Hits] /\ \A n \in 1..k : t[n] = s[Nth(P, n)]
  BY <1>1, <1>3, <1>4, <1>5
<1>8. t \in Seq(Hits) /\ DOMAIN t = 1..k
  BY <1>2, <1>7
<1>9. \A i, j \in 1..k : t[i] = t[j] => i = j
  BY <1>1, <1>4, <1>5, <1>6, <1>7
<1>10. IsInjective(t)
  BY <1>8, <1>9 DEF IsInjective
<1>11. \A i \in 1..k : t[i].id \notin shown
  BY <1>4, <1>5, <1>7
<1> QED
  BY <1>8, <1>10, <1>11 DEF Distinct, t

-----------------------------------------------------------------------------
(* The invariant *)

Disjoint(s, t) == \A i \in DOMAIN s, j \in DOMAIN t : s[i] # t[j]

\* The marks are on entries, and say whose they are and for which question.
Marked(k, mark) ==
    \E c \in Clients : \E a, q \in Asked : k = <<AgentOf[c], a>> /\ mark = <<c, q>>

MarksOk(e, pf) ==
    /\ DOMAIN pf \subseteq DOMAIN e
    /\ \A k \in DOMAIN e : Distinct(e[k])
    /\ \A k \in DOMAIN pf : Marked(k, pf[k])
    /\ ~ Sticky => DOMAIN pf = {}

Own(c, k, pf) == k \in DOMAIN pf /\ pf[k][1] = c

\* Of two questions of the conversation the later one's entry excludes the earlier one's,
\* if its window began with the earlier one's.
Later(c, k, l, stage, m, pf) ==
    /\ Own(c, k, pf) /\ Own(c, l, pf)
    /\ Counts(pf[k][2], m, stage) /\ Counts(pf[l][2], m, stage)
    /\ Len(pf[k][2]) < Len(pf[l][2])
    /\ Begins(k[2], l[2]) /\ Len(k[2]) < Len(l[2])

Chain(c, stage, m, e, pf) ==
    \A k, l : Later(c, k, l, stage, m, pf) => Disjoint(e[k], e[l])

\* The turns looked up so far show their own entry or nothing, and a search excludes it.
LooksOwn(c, r, e, pf, i) ==
    LET k == Key(c, r.window, i)
    IN  Own(c, k, pf) =>
          /\ r.prompt[i].blocks = <<>> \/ r.prompt[i].blocks = <<Block(e[k], FALSE, 0)>>
          /\ \A n \in DOMAIN e[k] : e[k][n].id \in r.shown

Lookups(c, r, e, pf) ==
    /\ r.window \in Seq(Message) /\ UserStarts(r.window) # {}
    /\ r.dropped \in Nat
    /\ r.next \in 1..LastUser(r.window) /\ (Sticky \/ r.next = 1)
    /\ Dressed(r.prompt, r.window)
    /\ \A i \in UserStarts(r.window) : r.next <= i => r.prompt[i].blocks = <<>>
    /\ \A i \in UserStarts(r.window) : i < r.next => LooksOwn(c, r, e, pf, i)

OnceOk(c, r, m, e, pf) ==
    /\ Chain(c, r.stage, m, e, pf)
    /\ r.stage = "history" => Lookups(c, r, e, pf)

OnceInv ==
    /\ RequestsOk
    /\ MarksOk(entries, putFor)
    /\ \A c \in Clients : OnceOk(c, request[c], conversation[c], entries, putFor)

\* Marks of a client may go, with their entries; new ones are none of its own.
KeptMarks(c, f, pg, e, pf) ==
    \A k : Own(c, k, pg) => Own(c, k, pf) /\ pg[k] = pf[k] /\ f[k] = e[k]

LEMMA OnceKept ==
    ASSUME NEW c, NEW r, NEW m, NEW e, NEW pf, NEW f, NEW pg,
           OnceOk(c, r, m, e, pf), KeptMarks(c, f, pg, e, pf)
    PROVE  OnceOk(c, r, m, f, pg)
<1>1. Chain(c, r.stage, m, f, pg)
  <2> SUFFICES ASSUME NEW k, NEW l, Later(c, k, l, r.stage, m, pg)
               PROVE  Disjoint(f[k], f[l])
    BY DEF Chain
  <2>1. Own(c, k, pg) /\ Own(c, l, pg)
    BY DEF Later
  <2>2. /\ Own(c, k, pf) /\ pg[k] = pf[k] /\ f[k] = e[k]
        /\ Own(c, l, pf) /\ pg[l] = pf[l] /\ f[l] = e[l]
    BY <2>1 DEF KeptMarks
  <2>3. Later(c, k, l, r.stage, m, pf)
    BY <2>2 DEF Later
  <2> QED
    BY <2>2, <2>3 DEF OnceOk, Chain
<1>2. ASSUME NEW i, LooksOwn(c, r, e, pf, i) PROVE LooksOwn(c, r, f, pg, i)
  <2> DEFINE k == Key(c, r.window, i)
  <2> SUFFICES ASSUME Own(c, k, pg)
               PROVE  /\ \/ r.prompt[i].blocks = <<>>
                         \/ r.prompt[i].blocks = <<Block(f[k], FALSE, 0)>>
                      /\ \A n \in DOMAIN f[k] : f[k][n].id \in r.shown
    BY DEF LooksOwn
  <2>1. Own(c, k, pf) /\ f[k] = e[k]
    <3> HIDE DEF k
    <3> QED
      BY DEF KeptMarks
  <2>2. /\ r.prompt[i].blocks = <<>> \/ r.prompt[i].blocks = <<Block(e[k], FALSE, 0)>>
        /\ \A n \in DOMAIN e[k] : e[k][n].id \in r.shown
    BY <1>2, <2>1 DEF LooksOwn
  <2> HIDE DEF k
  <2> QED
    BY <2>1, <2>2
<1>3. ASSUME Lookups(c, r, e, pf) PROVE Lookups(c, r, f, pg)
  <2>1. \A i \in UserStarts(r.window) : i < r.next => LooksOwn(c, r, f, pg, i)
    BY <1>2, <1>3 DEF Lookups
  <2> QED
    BY <1>3, <2>1 DEF Lookups
<1> QED
  BY <1>1, <1>3 DEF OnceOk

\* A question ends at a user message.
LEMMA AskedEnds ==
    ASSUME NEW m \in Seq(Message), NEW q \in Asked, Begins(q, m)
    PROVE  /\ Len(q) \in Nat /\ Len(q) > 0 /\ Len(q) \in UserStarts(m)
           /\ SubSeq(m, 1, Len(q)) = q
           /\ Len(q) <= LastUser(m)
<1>1. q \in Seq(Message) /\ q # <<>> /\ q[Len(q)].role = "user"
  BY DEF Asked
<1>2. Len(q) \in Nat /\ Len(m) \in Nat /\ Len(q) > 0 /\ Len(q) <= Len(m)
      /\ \A i \in 1..Len(q) : q[i] = m[i]
  BY <1>1 DEF Begins
<1>3. Len(q) \in 1..Len(m) /\ m[Len(q)].role = "user"
  BY <1>1, <1>2
<1>4. Len(q) \in UserStarts(m)
  BY <1>3 DEF UserStarts
<1>5. SubSeq(m, 1, Len(q)) = q
  BY <1>1, <1>2
<1>6. Len(q) <= LastUser(m)
  BY <1>4, LastUserOf
<1> QED
  BY <1>2, <1>4, <1>5, <1>6

LEMMA MarkIs ==
    ASSUME NEW e, NEW pf, MarksOk(e, pf), NEW c, NEW k, Own(c, k, pf)
    PROVE  /\ c \in Clients /\ k = <<AgentOf[c], k[2]>> /\ k[2] \in Asked
           /\ pf[k] = <<c, pf[k][2]>> /\ pf[k][2] \in Asked
           /\ k \in DOMAIN e /\ Distinct(e[k])
<1>1. k \in DOMAIN pf /\ pf[k][1] = c /\ Marked(k, pf[k])
  BY DEF Own, MarksOk
<1>2. PICK d \in Clients : \E a, q \in Asked : k = <<AgentOf[d], a>> /\ pf[k] = <<d, q>>
  BY <1>1 DEF Marked
<1>3. PICK a \in Asked, q \in Asked : k = <<AgentOf[d], a>> /\ pf[k] = <<d, q>>
  BY <1>2
<1>4. d = c /\ k[2] = a /\ pf[k][2] = q
  BY <1>1, <1>3
<1> QED
  BY <1>1, <1>3, <1>4 DEF MarksOk

SendsOnce(c) ==
    sent'[c] # sent[c] /\ ~ sent'[c].facts /\ OwnBlocks(c) => ShowsOnce(sent'[c].prompt)

\* What a client's step has to show.
StepOnce(c) ==
    /\ request' = [d \in Clients |-> request'[d]] /\ sent' = [d \in Clients |-> sent'[d]]
    /\ IsRequest(request'[c])
    /\ UserStarts(conversation'[c]) # {}
    /\ MarksOk(entries', putFor')
    /\ OnceOk(c, request'[c], conversation'[c], entries', putFor')
    /\ SendsOnce(c)
    /\ \A d \in Clients \ {c} :
         /\ request'[d] = request[d] /\ sent'[d] = sent[d]
         /\ conversation'[d] = conversation[d]
         /\ KeptMarks(d, entries', putFor', entries, putFor)

\* Marks and entries as they were: of what counts nothing is new.
LEMMA ChainKept ==
    ASSUME NEW c, NEW m, NEW n, NEW t, NEW u, NEW e, NEW pf,
           Chain(c, t, m, e, pf), MarksOk(e, pf),
           \A a \in Asked : Counts(a, n, u) => Counts(a, m, t)
    PROVE  Chain(c, u, n, e, pf)
<1> SUFFICES ASSUME NEW k, NEW l, Later(c, k, l, u, n, pf)
             PROVE  Disjoint(e[k], e[l])
  BY DEF Chain
<1>1. Own(c, k, pf) /\ Own(c, l, pf)
  BY DEF Later
<1>2. pf[k][2] \in Asked /\ pf[l][2] \in Asked
  BY <1>1, MarkIs
<1>3. Later(c, k, l, t, m, pf)
  BY <1>2 DEF Later
<1> QED
  BY <1>3 DEF Chain

LEMMA SameMarks ==
    entries' = entries /\ putFor' = putFor =>
      /\ OnceInv => MarksOk(entries', putFor')
      /\ \A d \in Clients : KeptMarks(d, entries', putFor', entries, putFor)
  BY DEF KeptMarks, OnceInv

LEMMA TalkOnce ==
    ASSUME OnceInv, NEW c \in Clients, NEW q, NEW n, Talks(c, q, n)
    PROVE  StepOnce(c)
<1> DEFINE r == request[c]
           m == conversation[c]
<1>1. /\ IsRequest(q) /\ q.stage # "history"
      /\ n \in Seq(Message) /\ UserStarts(n) # {}
      /\ request' = [request EXCEPT ![c] = q]
      /\ conversation' = [conversation EXCEPT ![c] = n]
      /\ entries' = entries /\ putFor' = putFor /\ sent' = sent
      /\ \A a \in Asked : Counts(a, n, q.stage) => Counts(a, m, r.stage)
  BY DEF Talks
<1>2. request'[c] = q /\ conversation'[c] = n
  BY <1>1 DEF OnceInv, RequestsOk, ConversationInv
<1>3. /\ \A d \in Clients \ {c} :
           request'[d] = request[d] /\ conversation'[d] = conversation[d]
      /\ request' = [d \in Clients |-> request'[d]] /\ sent' = [d \in Clients |-> sent'[d]]
  BY <1>1 DEF OnceInv, RequestsOk, ConversationInv
<1>4. Chain(c, r.stage, m, entries, putFor) /\ MarksOk(entries, putFor)
  BY DEF OnceInv, OnceOk
<1>5. Chain(c, q.stage, n, entries, putFor)
  <2> HIDE DEF m, r
  <2> QED
    BY <1>1, <1>4, ChainKept
<1>6. OnceOk(c, q, n, entries, putFor)
  BY <1>1, <1>5 DEF OnceOk
<1> QED
  BY <1>1, <1>2, <1>3, <1>4, <1>6, SameMarks DEF StepOnce, SendsOnce

LEMMA EmptyShowsOnce == ShowsOnce(<<>>)
  BY DEF ShowsOnce, Places

LEMMA RewindOnce ==
    ASSUME OnceInv, NEW c \in Clients, Rewind(c)
    PROVE  StepOnce(c)
<1> DEFINE r == request[c]
           m == conversation[c]
<1>1. PICK i \in UserStarts(m) :
        conversation' = [conversation EXCEPT ![c] = SubSeq(@, 1, i)] /\ i < Len(m)
  BY DEF Rewind
<1>2. /\ Idle(c) /\ request' = request /\ entries' = entries /\ putFor' = putFor
      /\ sent' = [sent EXCEPT ![c] = NothingSent]
  BY DEF Rewind, cacheVars
<1>3. m \in Seq(Message) /\ IsRequest(r)
  BY DEF OnceInv, RequestsOk, ConversationInv
<1> DEFINE n == SubSeq(m, 1, i)
<1>4. UserStarts(n) # {} /\ n \in Seq(Message)
  <2> HIDE DEF m
  <2> QED
    BY <1>3, UsersOfPart
<1>5. Len(n) = i /\ i \in 1..Len(m) /\ Len(m) \in Nat /\ \A j \in 1..i : n[j] = m[j]
  <2>1. i \in 1..Len(m)
    BY <1>3 DEF UserStarts
  <2> HIDE DEF m
  <2> QED
    BY <1>3, <2>1
<1>6. conversation'[c] = n /\ sent'[c] = NothingSent
  BY <1>1, <1>2 DEF OnceInv, RequestsOk, ConversationInv
<1>7. /\ \A d \in Clients \ {c} : sent'[d] = sent[d] /\ conversation'[d] = conversation[d]
      /\ request' = [d \in Clients |-> request'[d]] /\ sent' = [d \in Clients |-> sent'[d]]
  BY <1>1, <1>2 DEF OnceInv, RequestsOk, ConversationInv
<1>8. r.stage \notin {"history", "waiting"}
  BY <1>2 DEF Idle
<1> HIDE DEF n
<1>9. \A a \in Asked : Counts(a, n, r.stage) => Counts(a, m, r.stage)
  <2> SUFFICES ASSUME NEW a \in Asked, Counts(a, n, r.stage)
               PROVE  Counts(a, m, r.stage)
    OBVIOUS
  <2>1. Begins(a, n) /\ Len(a) < Len(n)
    BY <1>8 DEF Counts
  <2>2. Len(a) \in Nat
    BY DEF Asked
  <2> HIDE DEF m, r
  <2>3. Len(a) < Len(m) /\ \A j \in 1..Len(a) : a[j] = m[j]
    BY <1>5, <2>1, <2>2 DEF Begins
  <2> QED
    BY <1>5, <2>2, <2>3 DEF Counts, Begins
<1>10. Chain(c, r.stage, m, entries, putFor) /\ MarksOk(entries, putFor)
  BY DEF OnceInv, OnceOk
<1>11. Chain(c, r.stage, n, entries, putFor)
  <2> HIDE DEF m, r
  <2> QED
    BY <1>9, <1>10, ChainKept
<1>12. OnceOk(c, r, n, entries, putFor)
  BY <1>8, <1>11 DEF OnceOk
<1>13. SendsOnce(c)
  BY <1>6, EmptyShowsOnce DEF SendsOnce, NothingSent
<1> QED
  BY <1>2, <1>3, <1>4, <1>6, <1>7, <1>10, <1>12, <1>13, SameMarks DEF StepOnce

\* Steps within a request: only the request changes, and nothing is sent.
LEMMA WithinOnce ==
    ASSUME OnceInv, NEW c \in Clients, NEW q, IsRequest(q), q.stage # "waiting",
           Lookups(c, q, entries, putFor), UserStarts(conversation[c]) # {},
           request' = [request EXCEPT ![c] = q],
           conversation' = conversation, sent' = sent,
           entries' = entries, putFor' = putFor
    PROVE  StepOnce(c)
<1> DEFINE m == conversation[c]
           t == request[c].stage
<1>1. request'[c] = q /\ \A d \in Clients \ {c} : request'[d] = request[d]
  BY DEF OnceInv, RequestsOk
<1>2. request' = [d \in Clients |-> request'[d]] /\ sent' = [d \in Clients |-> sent'[d]]
  BY DEF OnceInv, RequestsOk
<1>3. Chain(c, t, m, entries, putFor) /\ MarksOk(entries, putFor)
  BY DEF OnceInv, OnceOk
<1>4. Chain(c, q.stage, m, entries, putFor)
  <2>1. \A a \in Asked : Counts(a, m, q.stage) => Counts(a, m, t)
    BY DEF Counts
  <2> HIDE DEF m, t
  <2> QED
    BY <1>3, <2>1, ChainKept
<1>5. OnceOk(c, q, m, entries, putFor)
  BY <1>4 DEF OnceOk
<1> QED
  BY <1>1, <1>2, <1>3, <1>5, SameMarks DEF StepOnce, SendsOnce

LEMMA ReceiveOnce ==
    ASSUME OnceInv, NEW c \in Clients, Receive(c)
    PROVE  StepOnce(c)
<1> DEFINE m == conversation[c]
           w == Retained(m)
           q == [stage |-> "history", window |-> w,
                 dropped |-> Cardinality(DroppedMessages(m)),
                 prompt |-> Plain(w), next |-> 1, shown |-> {}]
<1>1. request' = [request EXCEPT ![c] = q] /\ conversation' = conversation
      /\ sent' = sent /\ entries' = entries /\ putFor' = putFor
  BY DEF Receive, cacheVars, history
<1>2. UserStarts(m) # {} /\ m \in Seq(Message)
  BY HasQuestion DEF Receive, CanReceive, OnceInv, RequestsOk, ConversationInv
<1>3. /\ w \in Seq(Message) /\ UserStarts(w) # {}
      /\ Cardinality(DroppedMessages(m)) \in Nat
  <2> HIDE DEF m
  <2> QED
    BY <1>2, WindowAsks
<1> HIDE DEF w
<1>4. /\ IsRequest(q) /\ q.stage = "history" /\ q.window = w /\ q.next = 1
      /\ q.prompt = Plain(w) /\ q.dropped = Cardinality(DroppedMessages(m))
  BY DEF IsRequest
<1>5. 1 \in 1..LastUser(w) /\ \A i \in UserStarts(w) : i \in 1..Len(w) /\ ~ (i < 1)
  BY <1>3, LastUserOf DEF UserStarts
<1>6. Dressed(Plain(w), w) /\ \A i \in 1..Len(w) : Plain(w)[i].blocks = <<>>
  BY <1>3, PlainIsDressed
<1> HIDE DEF q
<1>7. Lookups(c, q, entries, putFor)
  BY <1>3, <1>4, <1>5, <1>6 DEF Lookups
<1> QED
  BY <1>1, <1>2, <1>4, <1>7, WithinOnce

LEMMA LookupsNext ==
    ASSUME NEW c, NEW r, NEW e, NEW pf, IsRequest(r), MarksOk(e, pf),
           Lookups(c, r, e, pf), Sticky, EarlierTurns(r) # {}
    PROVE  Lookups(c, LookedUp(c, r, e), e, pf)
<1> DEFINE q == LookedUp(c, r, e)
           i == Min(EarlierTurns(r))
           w == r.window
           k == Key(c, w, i)
           hits == IF k \in DOMAIN e THEN e[k] ELSE NoEntry
<1>1. /\ w \in Seq(Message) /\ UserStarts(w) # {} /\ r.dropped \in Nat
      /\ r.next \in 1..LastUser(w) /\ Dressed(r.prompt, w)
      /\ \A j \in UserStarts(w) : r.next <= j => r.prompt[j].blocks = <<>>
      /\ \A j \in UserStarts(w) : j < r.next => LooksOwn(c, r, e, pf, j)
  BY DEF Lookups
<1>2. /\ i \in UserStarts(w) /\ r.next <= i /\ i < LastUser(w)
      /\ \A j \in UserStarts(w) : r.next <= j /\ j < LastUser(w) => i <= j
      /\ q.next = i + 1 /\ q.window = w /\ q.dropped = r.dropped
      /\ q.shown = r.shown \cup Ids(hits)
      /\ Dressed(q.prompt, w)
      /\ q.prompt[i].blocks = Shows(e, k)
      /\ \A j \in 1..Len(w) \ {i} : q.prompt[j] = r.prompt[j]
  <2>1. LooksUp(c, r, w, e, i, q)
    BY <1>1 DEF LooksUp
  <2> HIDE DEF i, q, w
  <2> QED
    BY <2>1, LookupShows
<1>3. /\ LastUser(w) \in 1..Len(w) /\ Len(w) \in Nat
      /\ \A j \in UserStarts(w) : j \in 1..Len(w) /\ j \in Nat /\ j <= LastUser(w)
  <2> HIDE DEF w
  <2> QED
    BY <1>1, LastUserOf DEF UserStarts
<1>4. r.next \in Nat /\ i \in Nat /\ LastUser(w) \in Nat
  BY <1>1, <1>2, <1>3
<1> HIDE DEF q, i, w
<1>5. q.next \in 1..LastUser(w)
  BY <1>2, <1>4
<1>6. ASSUME NEW j \in UserStarts(w), q.next <= j PROVE q.prompt[j].blocks = <<>>
  <2>1. j # i /\ r.next <= j
    BY <1>2, <1>3, <1>4, <1>6
  <2> QED
    BY <1>1, <1>2, <1>3, <2>1
<1>7. ASSUME NEW j \in UserStarts(w), j < q.next PROVE LooksOwn(c, q, e, pf, j)
  <2>1. CASE j = i
    <3> SUFFICES ASSUME Own(c, k, pf)
                 PROVE  /\ \/ q.prompt[i].blocks = <<>>
                           \/ q.prompt[i].blocks = <<Block(e[k], FALSE, 0)>>
                        /\ \A n \in DOMAIN e[k] : e[k][n].id \in q.shown
      BY <1>2, <2>1 DEF LooksOwn
    <3>1. k \in DOMAIN e
      BY DEF Own, MarksOk
    <3>2. hits = e[k]
      BY <3>1
    <3> HIDE DEF k, hits
    <3>3. \A n \in DOMAIN e[k] : e[k][n].id \in q.shown
      BY <1>2, <3>2 DEF Ids, Range
    <3>4. \/ q.prompt[i].blocks = <<>>
          \/ q.prompt[i].blocks = <<Block(e[k], FALSE, 0)>>
      <4>1. q.prompt[i].blocks = Shows(e, k)
        BY <1>2
      <4> QED
        BY <4>1 DEF Shows
    <3> QED
      BY <3>3, <3>4
  <2>2. CASE j # i
    <3>1. j < r.next
      <4>1. j \in Nat /\ j < i + 1
        BY <1>2, <1>3, <1>7
      <4>2. j < i /\ j < LastUser(w)
        BY <1>2, <1>4, <2>2, <4>1
      <4>3. ~ (r.next <= j)
        BY <1>2, <1>4, <4>1, <4>2
      <4> QED
        BY <1>4, <4>1, <4>3
    <3>2. q.prompt[j] = r.prompt[j] /\ r.shown \subseteq q.shown /\ q.window = r.window
      BY <1>2, <1>3, <2>2 DEF w
    <3>3. LooksOwn(c, r, e, pf, j)
      BY <1>1, <3>1
    <3> QED
      BY <3>2, <3>3 DEF LooksOwn
  <2> QED
    BY <2>1, <2>2
<1> QED
  BY <1>1, <1>2, <1>5, <1>6, <1>7 DEF Lookups, q

LEMMA LookupOnce ==
    ASSUME OnceInv, NEW c \in Clients, Lookup(c)
    PROVE  StepOnce(c)
<1> DEFINE r == request[c]
           q == LookedUp(c, r, entries)
<1>1. r.stage = "history" /\ EarlierTurns(r) # {} /\ Sticky
  BY DEF Lookup, EarlierTurns
<1>2. conversation' = conversation /\ sent' = sent /\ entries' = entries /\ putFor' = putFor
  BY DEF Lookup, CacheGet, history
<1>3. IsRequest(r) /\ Lookups(c, r, entries, putFor) /\ MarksOk(entries, putFor)
      /\ UserStarts(conversation[c]) # {}
  BY <1>1 DEF OnceInv, OnceOk, RequestsOk, Quiet
<1>4. request' = [request EXCEPT ![c] = q]
  BY <1>3, LookupIs DEF OnceInv, RequestsOk
<1>5. Lookups(c, q, entries, putFor)
  <2> HIDE DEF r
  <2> QED
    BY <1>1, <1>3, LookupsNext
<1>6. IsRequest(q) /\ q.stage = "history"
  <2> HIDE DEF r
  <2> QED
    BY <1>1, <1>3, LookupIsRequest
<1> HIDE DEF q
<1> QED
  BY <1>2, <1>3, <1>4, <1>5, <1>6, WithinOnce

-----------------------------------------------------------------------------
(* What is posted *)

LEMMA PartBegins ==
    ASSUME NEW s \in Seq(Message), NEW i \in Int, i <= Len(s), SubSeq(s, 1, i) # <<>>
    PROVE  /\ i >= 1 /\ Len(SubSeq(s, 1, i)) = i /\ Begins(SubSeq(s, 1, i), s)
           /\ \A j \in Int : i < j /\ j <= Len(s) => Begins(SubSeq(s, 1, i), SubSeq(s, 1, j))
<1>1. Len(s) \in Nat
  OBVIOUS
<1>2. i >= 1
  <2> SUFFICES ASSUME i < 1 PROVE FALSE
    OBVIOUS
  <2>1. SubSeq(s, 1, i) = <<>>
    OBVIOUS
  <2> QED
    BY <2>1
<1>3. Len(SubSeq(s, 1, i)) = i /\ \A n \in 1..i : SubSeq(s, 1, i)[n] = s[n]
  BY <1>1, <1>2
<1>4. Begins(SubSeq(s, 1, i), s)
  BY <1>3 DEF Begins
<1>5. ASSUME NEW j \in Int, i < j, j <= Len(s)
      PROVE  Begins(SubSeq(s, 1, i), SubSeq(s, 1, j))
  <2>1. Len(SubSeq(s, 1, j)) = j /\ \A n \in 1..j : SubSeq(s, 1, j)[n] = s[n]
    BY <1>1, <1>2, <1>5
  <2>2. \A n \in 1..i : n \in 1..j
    BY <1>5
  <2> QED
    BY <1>3, <1>5, <2>1, <2>2 DEF Begins
<1> QED
  BY <1>2, <1>3, <1>4, <1>5

\* A turn that shows its own entry, which a search excludes.
Lit(c, r, m, e, pf, i) ==
    LET k == Key(c, r.window, i)
    IN  /\ i \in UserStarts(r.window) /\ i < LastUser(r.window)
        /\ r.prompt[i].blocks = <<Block(e[k], FALSE, 0)>>
        /\ Own(c, k, pf)
        /\ pf[k][2] = SubSeq(m, 1, i + (Len(m) - Len(r.window)))
        /\ \A n \in DOMAIN e[k] : e[k][n].id \in r.shown

LitOnly(c, r, m, e, pf) ==
    \A i \in UserStarts(r.window) : r.prompt[i].blocks # <<>> => Lit(c, r, m, e, pf, i)

LEMMA OwnLit ==
    ASSUME OnceInv, NEW c \in Clients, Retrieving(c), OwnBlocks(c)
    PROVE  LitOnly(c, request[c], conversation[c], entries, putFor)
<1> DEFINE r == request[c]
           m == conversation[c]
           w == r.window
<1> SUFFICES ASSUME NEW i \in UserStarts(w), r.prompt[i].blocks # <<>>
             PROVE  Lit(c, r, m, entries, putFor, i)
  BY DEF LitOnly
<1> DEFINE k == Key(c, w, i)
           a == SubSeq(m, 1, i + (Len(m) - Len(w)))
<1>1. k \in DOMAIN putFor /\ putFor[k] = <<c, a>>
  BY DEF OwnBlocks
<1>2. Lookups(c, r, entries, putFor)
  BY DEF OnceInv, OnceOk, Retrieving
<1> HIDE DEF r, m
<1>3. /\ w \in Seq(Message) /\ UserStarts(w) # {} /\ r.next \in 1..LastUser(w)
      /\ \A j \in UserStarts(w) : r.next <= j => r.prompt[j].blocks = <<>>
      /\ \A j \in UserStarts(w) : j < r.next => LooksOwn(c, r, entries, putFor, j)
  BY <1>2 DEF Lookups
<1>4. LastUser(w) \in Nat /\ i \in Nat
  <2> HIDE DEF w
  <2> QED
    BY <1>3, LastUserOf DEF UserStarts
<1>5. ~ (r.next <= i)
  BY <1>3
<1>6. i < r.next /\ i < LastUser(w)
  <2>1. r.next \in Nat /\ r.next <= LastUser(w)
    BY <1>3, <1>4
  <2> HIDE DEF w
  <2> QED
    BY <1>4, <1>5, <2>1
<1>7. Own(c, k, putFor) /\ putFor[k][2] = a
  <2> HIDE DEF k, a
  <2> QED
    BY <1>1 DEF Own
<1>8. LooksOwn(c, r, entries, putFor, i)
  BY <1>3, <1>6
<1> QED
  BY <1>6, <1>7, <1>8 DEF LooksOwn, Lit

\* Its place in the prompt.
LitPlaced(c, r, m, e, pf) ==
    \A i, j, n : IsPlace(r.prompt, i, j, n) =>
      /\ Lit(c, r, m, e, pf, i) /\ j = 1
      /\ n \in DOMAIN e[Key(c, r.window, i)]
      /\ Hit(r.prompt, i, j, n) = e[Key(c, r.window, i)][n]

LEMMA LitPlaces ==
    ASSUME NEW c, NEW r, NEW m, NEW e, NEW pf, MarksOk(e, pf), LitOnly(c, r, m, e, pf),
           r.window \in Seq(Message), Dressed(r.prompt, r.window)
    PROVE  /\ r.prompt \in Seq(Prompted)
           /\ UserStarts(r.prompt) = UserStarts(r.window)
           /\ LitPlaced(c, r, m, e, pf)
<1> DEFINE p == r.prompt
           w == r.window
<1>1. /\ p = [i \in 1..Len(w) |-> p[i]]
      /\ \A i \in 1..Len(w) :
           p[i] = [role |-> w[i].role, content |-> w[i].content, blocks |-> p[i].blocks]
      /\ \A i \in 1..Len(w) : w[i].role # "user" => p[i].blocks = <<>>
  BY DEF Dressed
<1>2. Len(w) \in Nat /\ \A i \in 1..Len(w) : w[i].role \in Roles /\ w[i].content \in Contents
  <2>1. \A i \in 1..Len(w) : w[i] \in Message
    OBVIOUS
  <2> QED
    BY <2>1 DEF Message
<1>3. ASSUME NEW i \in 1..Len(w) PROVE p[i].blocks = <<>> \/ Lit(c, r, m, e, pf, i)
  <2>1. CASE w[i].role = "user"
    <3>1. i \in UserStarts(w)
      BY <2>1 DEF UserStarts
    <3> QED
      BY <3>1 DEF LitOnly
  <2> QED
    BY <1>1, <2>1
<1>4. ASSUME NEW i, Lit(c, r, m, e, pf, i)
      PROVE  /\ p[i].blocks = <<Block(e[Key(c, w, i)], FALSE, 0)>>
             /\ Block(e[Key(c, w, i)], FALSE, 0) \in Blocks
             /\ Block(e[Key(c, w, i)], FALSE, 0).hits = e[Key(c, w, i)]
             /\ DOMAIN e[Key(c, w, i)] = 1..Len(e[Key(c, w, i)])
  <2> DEFINE k == Key(c, w, i)
  <2>1. Own(c, k, pf) /\ p[i].blocks = <<Block(e[k], FALSE, 0)>>
    BY <1>4 DEF Lit
  <2> HIDE DEF k, p, w
  <2>2. e[k] \in Seq(Hits)
    BY <2>1, MarkIs DEF Distinct
  <2> QED
    BY <2>1, <2>2 DEF Block, Blocks, k, p, w
<1>5. ASSUME NEW i \in 1..Len(w) PROVE p[i].blocks \in Seq(Blocks)
  <2>1. CASE p[i].blocks = <<>>
    BY <2>1
  <2>2. CASE Lit(c, r, m, e, pf, i)
    <3> DEFINE b == Block(e[Key(c, w, i)], FALSE, 0)
    <3>1. p[i].blocks = <<b>> /\ b \in Blocks
      BY <1>4, <2>2
    <3> HIDE DEF b
    <3> QED
      BY <3>1
  <2> QED
    BY <1>3, <2>1, <2>2
<1>6. p \in Seq(Prompted) /\ Len(p) = Len(w)
  <2>1. ASSUME NEW i \in 1..Len(w) PROVE p[i] \in Prompted
    <3> DEFINE role == w[i].role
               content == w[i].content
               blocks == p[i].blocks
    <3>1. role \in Roles /\ content \in Contents /\ blocks \in Seq(Blocks)
      BY <1>2, <1>5
    <3>2. p[i] = [role |-> role, content |-> content, blocks |-> blocks]
      BY <1>1
    <3> HIDE DEF role, content, blocks
    <3> QED
      BY <3>1, <3>2 DEF Prompted
  <2>2. p \in [1..Len(w) -> Prompted]
    BY <1>1, <2>1
  <2> QED
    BY <1>2, <2>2
<1>7. UserStarts(p) = UserStarts(w)
  <2> HIDE DEF p, w
  <2> QED
    BY DressedUsers DEF p, w
<1>8. ASSUME NEW i, NEW j, NEW n, IsPlace(p, i, j, n)
      PROVE  /\ Lit(c, r, m, e, pf, i) /\ j = 1 /\ n \in DOMAIN e[Key(c, w, i)]
             /\ Hit(p, i, j, n) = e[Key(c, w, i)][n]
  <2>1. i \in 1..Len(w) /\ j \in 1..Len(p[i].blocks) /\ n \in 1..Len(p[i].blocks[j].hits)
    BY <1>6, <1>8 DEF IsPlace
  <2>2. p[i].blocks # <<>>
    BY <2>1
  <2>3. Lit(c, r, m, e, pf, i)
    BY <1>3, <2>1, <2>2
  <2> DEFINE k == Key(c, w, i)
             b == Block(e[k], FALSE, 0)
  <2>4. p[i].blocks = <<b>> /\ b.hits = e[k] /\ DOMAIN e[k] = 1..Len(e[k])
    BY <1>4, <2>3
  <2> HIDE DEF b, k
  <2>5. j = 1 /\ p[i].blocks[j] = b
    <3>1. j \in 1..Len(<<b>>)
      BY <2>1, <2>4
    <3>2. j = 1
      BY <3>1
    <3> QED
      BY <2>4, <3>2
  <2> QED
    BY <2>1, <2>3, <2>4, <2>5 DEF Hit, k
<1> QED
  BY <1>6, <1>7, <1>8 DEF LitPlaced

\* Two of them are two questions of the conversation, whose entries are apart.
LEMMA LitApart ==
    ASSUME NEW c, NEW r, NEW m \in Seq(Message), NEW e, NEW pf, MarksOk(e, pf),
           r.window \in Seq(Message), Chain(c, r.stage, m, e, pf),
           NEW i, NEW j, Lit(c, r, m, e, pf, i), Lit(c, r, m, e, pf, j), i < j
    PROVE  Disjoint(e[Key(c, r.window, i)], e[Key(c, r.window, j)])
<1> DEFINE w == r.window
           d == Len(m) - Len(w)
           k == Key(c, w, i)
           l == Key(c, w, j)
<1>1. /\ i \in UserStarts(w) /\ i < LastUser(w) /\ Own(c, k, pf)
      /\ pf[k][2] = SubSeq(m, 1, i + d)
      /\ j \in UserStarts(w) /\ j < LastUser(w) /\ Own(c, l, pf)
      /\ pf[l][2] = SubSeq(m, 1, j + d)
  BY DEF Lit
<1>2. /\ pf[k][2] \in Asked /\ pf[l][2] \in Asked
      /\ k[2] = SubSeq(w, 1, i) /\ l[2] = SubSeq(w, 1, j)
      /\ k[2] \in Asked /\ l[2] \in Asked
  <2>1. k[2] = SubSeq(w, 1, i) /\ l[2] = SubSeq(w, 1, j)
    BY DEF Key
  <2> HIDE DEF k, l
  <2> QED
    BY <1>1, <2>1, MarkIs
<1> HIDE DEF k, l
<1>3. i \in Nat /\ j \in Nat /\ LastUser(w) \in Nat /\ LastUser(w) <= Len(w)
      /\ Len(w) \in Nat /\ Len(m) \in Nat /\ d \in Int
  <2>1. i \in 1..Len(w) /\ j \in 1..Len(w) /\ UserStarts(w) # {}
    BY <1>1 DEF UserStarts
  <2>2. LastUser(w) \in 1..Len(w)
    <3>1. w \in Seq(Message)
      OBVIOUS
    <3> HIDE DEF w
    <3> QED
      BY <2>1, <3>1, LastUserOf
  <2> QED
    BY <2>1, <2>2
<1>4. i + d < Len(m) /\ j + d < Len(m) /\ i + d \in Int /\ j + d \in Int /\ i + d < j + d
      /\ i < j /\ j <= Len(w)
  <2> DEFINE u == LastUser(w)
             W == Len(w)
             M == Len(m)
  <2>1. /\ i \in Nat /\ j \in Nat /\ u \in Nat /\ W \in Nat /\ M \in Nat
        /\ i < u /\ j < u /\ u <= W
    BY <1>1, <1>3
  <2> HIDE DEF u, W, M
  <2>2. i + (M - W) < M /\ j + (M - W) < M /\ i + (M - W) < j + (M - W) /\ j <= W
        /\ i + (M - W) \in Int /\ j + (M - W) \in Int
    BY <2>1
  <2> QED
    BY <2>1, <2>2 DEF M, W
<1>5. pf[k][2] # <<>> /\ pf[l][2] # <<>> /\ k[2] # <<>> /\ l[2] # <<>>
  BY <1>2 DEF Asked
<1> DEFINE x == i + d
           y == j + d
<1>6. w \in Seq(Message)
  OBVIOUS
<1> HIDE DEF w, d, x, y
<1>7. Len(pf[k][2]) = x /\ Begins(pf[k][2], m) /\ Len(pf[l][2]) = y /\ Begins(pf[l][2], m)
  <2>1. x \in Int /\ x <= Len(m) /\ SubSeq(m, 1, x) = pf[k][2]
        /\ y \in Int /\ y <= Len(m) /\ SubSeq(m, 1, y) = pf[l][2]
    BY <1>1, <1>3, <1>4 DEF x, y
  <2> QED
    BY <1>5, <2>1, PartBegins
<1>8. Len(k[2]) = i /\ Len(l[2]) = j /\ Begins(k[2], l[2])
  <2>1. i \in Int /\ j \in Int /\ i <= Len(w) /\ j <= Len(w)
    BY <1>3, <1>4
  <2> QED
    BY <1>2, <1>4, <1>5, <1>6, <2>1, PartBegins
<1>9. Later(c, k, l, r.stage, m, pf)
  BY <1>1, <1>4, <1>7, <1>8 DEF Later, Counts, x, y
<1> QED
  BY <1>9 DEF Chain, k, l, w

LEMMA LitOnce ==
    ASSUME NEW c, NEW r, NEW m \in Seq(Message), NEW e, NEW pf, MarksOk(e, pf),
           LitOnly(c, r, m, e, pf), Chain(c, r.stage, m, e, pf),
           r.window \in Seq(Message), Dressed(r.prompt, r.window)
    PROVE  /\ OnceEach(r.prompt)
           /\ \A x \in Shown(r.prompt) : Sticky /\ x \in r.shown
<1> DEFINE p == r.prompt
           w == r.window
           E(i) == e[Key(c, w, i)]
<1>1. /\ p \in Seq(Prompted)
      /\ \A i, j, n : IsPlace(p, i, j, n) =>
           /\ Lit(c, r, m, e, pf, i) /\ j = 1
           /\ n \in DOMAIN E(i) /\ Hit(p, i, j, n) = E(i)[n]
  <2>1. p \in Seq(Prompted) /\ LitPlaced(c, r, m, e, pf)
    BY LitPlaces
  <2> QED
    BY <2>1 DEF LitPlaced
<1>2. ASSUME NEW i, Lit(c, r, m, e, pf, i)
      PROVE  /\ i \in Nat /\ IsInjective(E(i)) /\ Sticky
             /\ \A n \in DOMAIN E(i) : E(i)[n].id \in r.shown
  <2> DEFINE k == Key(c, w, i)
  <2>1. Own(c, k, pf) /\ i \in UserStarts(w) /\ \A n \in DOMAIN e[k] : e[k][n].id \in r.shown
    BY <1>2 DEF Lit
  <2> HIDE DEF k
  <2>2. IsInjective(e[k])
    BY <2>1, MarkIs DEF Distinct
  <2>3. Sticky
    BY <2>1 DEF MarksOk, Own
  <2>4. i \in Nat
    BY <2>1 DEF UserStarts
  <2> QED
    BY <2>1, <2>2, <2>3, <2>4 DEF k
<1>3. \A i, j, n, i2, j2, n2 :
        /\ IsPlace(p, i, j, n) /\ IsPlace(p, i2, j2, n2)
        /\ Hit(p, i, j, n) = Hit(p, i2, j2, n2)
        => i = i2 /\ j = j2 /\ n = n2
  <2> SUFFICES ASSUME NEW i, NEW j, NEW n, NEW i2, NEW j2, NEW n2,
                      IsPlace(p, i, j, n), IsPlace(p, i2, j2, n2),
                      Hit(p, i, j, n) = Hit(p, i2, j2, n2)
               PROVE  i = i2 /\ j = j2 /\ n = n2
    OBVIOUS
  <2>1. /\ Lit(c, r, m, e, pf, i) /\ j = 1 /\ n \in DOMAIN E(i)
        /\ Lit(c, r, m, e, pf, i2) /\ j2 = 1 /\ n2 \in DOMAIN E(i2)
        /\ E(i)[n] = E(i2)[n2]
    BY <1>1
  <2>2. ~ (i < i2)
    <3> SUFFICES ASSUME i < i2 PROVE FALSE
      OBVIOUS
    <3>1. Disjoint(E(i), E(i2))
      BY <2>1, LitApart
    <3> HIDE DEF E
    <3> QED
      BY <2>1, <3>1 DEF Disjoint
  <2>3. ~ (i2 < i)
    <3> SUFFICES ASSUME i2 < i PROVE FALSE
      OBVIOUS
    <3>1. Disjoint(E(i2), E(i))
      BY <2>1, LitApart
    <3> HIDE DEF E
    <3> QED
      BY <2>1, <3>1 DEF Disjoint
  <2>4. i = i2
    BY <1>2, <2>1, <2>2, <2>3
  <2>5. n = n2
    <3>1. IsInjective(E(i))
      BY <1>2, <2>1
    <3> HIDE DEF E
    <3> QED
      BY <2>1, <2>4, <3>1 DEF IsInjective
  <2> QED
    BY <2>1, <2>4, <2>5
<1>4. OnceEach(p)
  BY <1>1, <1>3, PlacesOnce
<1>5. ASSUME NEW x \in Shown(p) PROVE Sticky /\ x \in r.shown
  <2>1. PICK i, j, n : IsPlace(p, i, j, n) /\ x = Hit(p, i, j, n).id
    BY <1>1, PlacesOnce
  <2>2. Lit(c, r, m, e, pf, i) /\ n \in DOMAIN E(i) /\ x = E(i)[n].id
    BY <1>1, <2>1
  <2> HIDE DEF E
  <2> QED
    BY <1>2, <2>2
<1> QED
  BY <1>4, <1>5

-----------------------------------------------------------------------------
(* What is remembered *)

\* The marks pg and entries f after a post for the question asked last: those outside S
\* are of other questions and as before; those in S are of this question, and exclude
\* what the earlier turns of its window have.
PostMarks(c, m, e, pf, f, pg, S) ==
    /\ \A k : Own(c, k, pg) /\ k \notin S =>
         /\ Own(c, k, pf) /\ pg[k] = pf[k] /\ f[k] = e[k]
         /\ pf[k] # <<c, SubSeq(m, 1, LastUser(m))>>
    /\ \A k \in S : Own(c, k, pg) =>
         /\ pg[k][2] = SubSeq(m, 1, LastUser(m))
         /\ \A x : Own(c, x, pf) /\ Begins(x[2], k[2]) /\ Len(x[2]) < Len(k[2])
                   => Disjoint(e[x], f[k])

LEMMA ChainPosted ==
    ASSUME NEW c, NEW m \in Seq(Message), UserStarts(m) # {}, NEW e, NEW pf,
           MarksOk(e, pf), Chain(c, "history", m, e, pf),
           NEW f, NEW pg, NEW S, PostMarks(c, m, e, pf, f, pg, S)
    PROVE  Chain(c, "waiting", m, f, pg)
<1> SUFFICES ASSUME NEW k, NEW l, Later(c, k, l, "waiting", m, pg)
             PROVE  Disjoint(f[k], f[l])
  BY DEF Chain
<1>1. /\ Own(c, k, pg) /\ Own(c, l, pg) /\ Begins(pg[k][2], m) /\ Begins(pg[l][2], m)
      /\ Len(pg[k][2]) < Len(pg[l][2])
      /\ Begins(k[2], l[2]) /\ Len(k[2]) < Len(l[2])
  BY DEF Later, Counts
<1> DEFINE u == LastUser(m)
<1>2. u \in 1..Len(m) /\ Len(m) \in Nat
  BY LastUserOf
<1>3. Len(SubSeq(m, 1, u)) = u
  <2> HIDE DEF u
  <2> QED
    BY <1>2
\* The marks outside S are of earlier questions.
<1>4. ASSUME NEW x, Own(c, x, pg), x \notin S, Begins(pg[x][2], m)
      PROVE  /\ Own(c, x, pf) /\ pg[x] = pf[x] /\ f[x] = e[x]
             /\ Len(pf[x][2]) \in Nat /\ Len(pf[x][2]) <= u /\ Len(pf[x][2]) < Len(m)
  <2>1. /\ Own(c, x, pf) /\ pg[x] = pf[x] /\ f[x] = e[x]
        /\ pf[x] # <<c, SubSeq(m, 1, u)>>
    BY <1>4 DEF PostMarks
  <2>2. pf[x] = <<c, pf[x][2]>> /\ pf[x][2] \in Asked
    BY <2>1, MarkIs
  <2> DEFINE q == pf[x][2]
  <2> HIDE DEF q, u
  <2>3. q \in Asked /\ Begins(q, m)
    BY <1>4, <2>1, <2>2 DEF q
  <2>4. Len(q) \in Nat /\ SubSeq(m, 1, Len(q)) = q /\ Len(q) <= u
    BY <2>3, AskedEnds DEF u
  <2>5. q # SubSeq(m, 1, u)
    BY <2>1, <2>2 DEF q
  <2>6. Len(q) # u
    BY <2>4, <2>5
  <2>7. Len(q) < Len(m)
    <3>1. Len(q) \in Nat /\ Len(q) <= u /\ Len(q) # u
      BY <2>4, <2>6
    <3>2. u \in Nat /\ u <= Len(m) /\ Len(m) \in Nat
      BY <1>2
    <3> QED
      BY <3>1, <3>2
  <2> QED
    BY <2>1, <2>4, <2>7 DEF q
<1>5. CASE k \in S
  <2>1. pg[k][2] = SubSeq(m, 1, u)
    BY <1>1, <1>5 DEF PostMarks
  <2>2. Len(pg[k][2]) = u
    BY <1>3, <2>1
  <2>3. CASE l \in S
    <3>1. pg[l][2] = SubSeq(m, 1, u)
      BY <1>1, <2>3 DEF PostMarks
    <3>2. Len(pg[l][2]) = u
      BY <1>3, <3>1
    <3> HIDE DEF u
    <3> QED
      BY <1>1, <1>2, <2>2, <3>2
  <2>4. CASE l \notin S
    <3>1. Len(pg[l][2]) \in Nat /\ Len(pg[l][2]) <= u
      BY <1>1, <1>4, <2>4
    <3> HIDE DEF u
    <3> QED
      BY <1>1, <1>2, <2>2, <3>1
  <2> QED
    BY <2>3, <2>4
<1>6. CASE k \notin S /\ l \in S
  <2>1. Own(c, k, pf) /\ f[k] = e[k]
    BY <1>1, <1>4, <1>6
  <2>2. Disjoint(e[k], f[l])
    BY <1>1, <1>6, <2>1 DEF PostMarks
  <2> QED
    BY <2>1, <2>2
<1>7. CASE k \notin S /\ l \notin S
  <2>1. /\ Own(c, k, pf) /\ pg[k] = pf[k] /\ f[k] = e[k] /\ Len(pf[k][2]) < Len(m)
        /\ Own(c, l, pf) /\ pg[l] = pf[l] /\ f[l] = e[l] /\ Len(pf[l][2]) < Len(m)
    BY <1>1, <1>4, <1>7
  <2>2. Later(c, k, l, "history", m, pf)
    BY <1>1, <2>1 DEF Later, Counts
  <2> QED
    BY <2>1, <2>2 DEF Chain
<1> QED
  BY <1>5, <1>6, <1>7

\* A part of a history that ends at one of its questions.
LEMMA AskedPart ==
    ASSUME NEW m \in Seq(Message), NEW i \in UserStarts(m)
    PROVE  SubSeq(m, 1, i) \in Asked /\ Len(SubSeq(m, 1, i)) = i
<1>1. i \in 1..Len(m) /\ m[i].role = "user" /\ Len(m) \in Nat
  BY DEF UserStarts
<1> DEFINE a == SubSeq(m, 1, i)
<1>2. a \in Seq(Message) /\ Len(a) = i /\ a[i] = m[i]
  BY <1>1
<1> HIDE DEF a
<1>3. a # <<>> /\ a[Len(a)].role = "user"
  BY <1>1, <1>2
<1> QED
  BY <1>2, <1>3 DEF Asked, a

\* The entry of an earlier turn of the window, whatever it was put for, was looked up.
LEMMA EarlierShown ==
    ASSUME NEW c, NEW r, NEW e, NEW pf, MarksOk(e, pf), Lookups(c, r, e, pf),
           Sticky, EarlierTurns(r) = {},
           NEW K, K = Key(c, r.window, LastUser(r.window)),
           NEW x, Own(c, x, pf), Begins(x[2], K[2]), Len(x[2]) < Len(K[2])
    PROVE  \A n \in DOMAIN e[x] : e[x][n].id \in r.shown
<1> DEFINE w == r.window
           u == LastUser(w)
           i == Len(x[2])
<1>1. /\ w \in Seq(Message) /\ UserStarts(w) # {}
      /\ \A j \in UserStarts(w) : j < r.next => LooksOwn(c, r, e, pf, j)
      /\ r.next \in 1..u
  BY DEF Lookups
<1>2. u \in UserStarts(w) /\ u \in 1..Len(w) /\ Len(w) \in Nat
  <2> HIDE DEF w
  <2> QED
    BY <1>1, LastUserOf
<1>3. K[2] = SubSeq(w, 1, u)
  BY DEF Key
<1>4. x = <<AgentOf[c], x[2]>> /\ x[2] \in Asked
  BY MarkIs
<1> HIDE DEF w, u
<1>5. Len(K[2]) = u /\ \A n \in 1..u : K[2][n] = w[n]
  BY <1>1, <1>2, <1>3
<1>6. i < u /\ i \in Nat /\ Begins(x[2], w)
  <2>1. i \in Nat
    BY <1>4 DEF Asked
  <2>2. i < u /\ \A n \in 1..i : x[2][n] = K[2][n]
    BY <1>5 DEF Begins
  <2>3. \A n \in 1..i : n \in 1..u
    BY <1>2, <2>1, <2>2
  <2>4. \A n \in 1..i : x[2][n] = w[n]
    BY <1>5, <2>2, <2>3
  <2>5. i <= Len(w)
    BY <1>2, <2>1, <2>2
  <2> QED
    BY <2>1, <2>2, <2>4, <2>5 DEF Begins
<1>7. i \in UserStarts(w) /\ SubSeq(w, 1, i) = x[2]
  BY <1>1, <1>4, <1>6, AskedEnds
<1>8. x = Key(c, w, i)
  BY <1>4, <1>7 DEF Key
<1>9. i < r.next
  <2>1. ~ (r.next <= i /\ i < u)
    BY <1>7 DEF EarlierTurns, w, u
  <2>2. r.next \in Nat
    BY <1>1, <1>2
  <2> QED
    BY <1>6, <2>1, <2>2
<1>10. LooksOwn(c, r, e, pf, i)
  BY <1>1, <1>7, <1>9
<1> HIDE DEF i
<1> QED
  BY <1>8, <1>10 DEF LooksOwn, w

\* What is known of a client whose turns are all looked up.
AllLookedUp(c, r, m, e, pf) ==
    /\ r.stage = "history" /\ EarlierTurns(r) = {} /\ IsRequest(r)
    /\ m \in Seq(Message) /\ UserStarts(m) # {}
    /\ MarksOk(e, pf) /\ Chain(c, "history", m, e, pf) /\ Lookups(c, r, e, pf)

LEMMA RetrievingIs ==
    ASSUME OnceInv, NEW c \in Clients, Retrieving(c)
    PROVE  AllLookedUp(c, request[c], conversation[c], entries, putFor)
<1>1. request[c].stage = "history" /\ EarlierTurns(request[c]) = {}
  BY DEF Retrieving
<1>2. OnceOk(c, request[c], conversation[c], entries, putFor) /\ MarksOk(entries, putFor)
  BY DEF OnceInv
<1>3. /\ IsRequest(request[c]) /\ conversation[c] \in Seq(Message)
      /\ UserStarts(conversation[c]) # {}
  BY <1>1, Waiting DEF OnceInv, RequestsOk, ConversationInv
<1> QED
  BY <1>1, <1>2, <1>3 DEF AllLookedUp, OnceOk

\* A turn is remembered.
LEMMA RememberMarks ==
    ASSUME OnceInv, Sticky, NEW c \in Clients, Retrieving(c),
           NEW hits, Remember(c, hits), Distinct(hits),
           \A n \in DOMAIN hits : hits[n].id \notin request[c].shown
    PROVE  /\ MarksOk(entries', putFor')
           /\ Chain(c, "waiting", conversation[c], entries', putFor')
           /\ \A d \in Clients \ {c} : KeptMarks(d, entries', putFor', entries, putFor)
<1> DEFINE r == request[c]
           m == conversation[c]
           w == r.window
           K == Key(c, w, LastUser(w))
           Q == Question(c)
           f == entries'
           pg == putFor'
<1>1. AllLookedUp(c, r, m, entries, putFor)
  BY RetrievingIs
<1>2. /\ m \in Seq(Message) /\ UserStarts(m) # {} /\ MarksOk(entries, putFor)
      /\ Chain(c, "history", m, entries, putFor) /\ Lookups(c, r, entries, putFor)
      /\ EarlierTurns(r) = {} /\ w \in Seq(Message) /\ UserStarts(w) # {}
  BY <1>1 DEF AllLookedUp, Lookups
<1>3. CachePut(K, hits)
      /\ pg = [x \in (OfOthers(c) \cup {K}) \cap DOMAIN f |->
                 IF x = K THEN Question(c) ELSE putFor[x]]
  BY DEF Remember
<1>4. \A x \in DOMAIN f :
        IF x = K THEN f[x] = hits ELSE x \in DOMAIN entries /\ f[x] = entries[x]
  <2> HIDE DEF K
  <2> QED
    BY <1>3, PutKept
<1>5. Q = <<c, SubSeq(m, 1, LastUser(m))>> /\ SubSeq(m, 1, LastUser(m)) \in Asked
  <2>1. Q = <<c, SubSeq(m, 1, LastUser(m))>>
    BY DEF Question
  <2> HIDE DEF m
  <2>2. LastUser(m) \in UserStarts(m)
    BY <1>2, LastUserOf
  <2> QED
    BY <1>2, <2>1, <2>2, AskedPart
<1>6. K = <<AgentOf[c], K[2]>> /\ K[2] \in Asked
  <2>1. K = <<AgentOf[c], SubSeq(w, 1, LastUser(w))>>
    BY DEF Key
  <2> HIDE DEF w, K
  <2>2. LastUser(w) \in UserStarts(w)
    BY <1>2, LastUserOf
  <2> QED
    BY <1>2, <2>1, <2>2, AskedPart
<1> DEFINE a == SubSeq(m, 1, LastUser(m))
<1>7. /\ DOMAIN pg \subseteq DOMAIN f
      /\ \A x \in DOMAIN pg : x # K => x \in DOMAIN putFor /\ putFor[x] # Q /\ pg[x] = putFor[x]
      /\ K \in DOMAIN pg => pg[K] = Q
  <2> HIDE DEF f, K, pg
  <2> QED
    BY <1>3 DEF OfOthers
<1> HIDE DEF K, Q, f, pg, a, m, w, r
<1>8. Marked(K, Q)
  BY <1>5, <1>6 DEF Marked
<1>9. MarksOk(f, pg)
  <2>1. \A x \in DOMAIN f : Distinct(f[x])
    BY <1>2, <1>4 DEF MarksOk
  <2>2. \A x \in DOMAIN pg : Marked(x, pg[x])
    BY <1>2, <1>7, <1>8 DEF MarksOk
  <2> QED
    BY <1>7, <2>1, <2>2 DEF MarksOk
<1>10. ASSUME NEW d, NEW x, Own(d, x, pg), x # K
       PROVE  Own(d, x, putFor) /\ pg[x] = putFor[x] /\ f[x] = entries[x] /\ putFor[x] # Q
  <2>1. x \in DOMAIN pg /\ pg[x][1] = d
    BY <1>10 DEF Own
  <2>2. x \in DOMAIN f /\ x \in DOMAIN putFor /\ pg[x] = putFor[x] /\ putFor[x] # Q
    BY <1>7, <1>10, <2>1
  <2>3. f[x] = entries[x]
    BY <1>4, <1>10, <2>2
  <2> QED
    BY <2>1, <2>2, <2>3 DEF Own
<1>11. PostMarks(c, m, entries, putFor, f, pg, {K})
  <2>1. \A x : Own(c, x, pg) /\ x \notin {K} =>
          /\ Own(c, x, putFor) /\ pg[x] = putFor[x] /\ f[x] = entries[x]
          /\ putFor[x] # <<c, SubSeq(m, 1, LastUser(m))>>
    BY <1>5, <1>10 DEF a
  <2>2. ASSUME Own(c, K, pg)
        PROVE  pg[K][2] = SubSeq(m, 1, LastUser(m)) /\ f[K] = hits
    <3>1. K \in DOMAIN pg /\ K \in DOMAIN f
      BY <1>7, <2>2 DEF Own
    <3> QED
      BY <1>4, <1>5, <1>7, <3>1
  <2>3. ASSUME Own(c, K, pg), NEW x, Own(c, x, putFor), Begins(x[2], K[2]),
               Len(x[2]) < Len(K[2])
        PROVE  Disjoint(entries[x], f[K])
    <3>1. \A n \in DOMAIN entries[x] : entries[x][n].id \in r.shown
      <4>1. K = Key(c, r.window, LastUser(r.window))
        BY DEF K, w
      <4> QED
        BY <1>2, <2>3, <4>1, EarlierShown
    <3>2. f[K] = hits /\ \A n \in DOMAIN hits : hits[n].id \notin r.shown
      BY <2>2, <2>3 DEF r
    <3> QED
      BY <3>1, <3>2 DEF Disjoint
  <2> QED
    BY <2>1, <2>2, <2>3 DEF PostMarks
<1>12. Chain(c, "waiting", m, f, pg)
  BY <1>2, <1>11, ChainPosted
<1>13. ASSUME NEW d \in Clients \ {c} PROVE KeptMarks(d, f, pg, entries, putFor)
  <2> SUFFICES ASSUME NEW x, Own(d, x, pg)
               PROVE  Own(d, x, putFor) /\ pg[x] = putFor[x] /\ f[x] = entries[x]
    BY DEF KeptMarks
  <2>1. x # K
    <3>1. x \in DOMAIN pg /\ pg[x][1] = d
      BY DEF Own
    <3>2. Q[1] = c
      BY <1>5
    <3> QED
      BY <1>7, <3>1, <3>2
  <2> QED
    BY <1>10, <2>1
<1> QED
  BY <1>9, <1>12, <1>13 DEF f, pg, m

\* A turn that is not told to the cache, of a cache that is not told anything.
LEMMA UntoldMarks ==
    ASSUME OnceInv, ~ Sticky, NEW c \in Clients, Retrieving(c),
           UNCHANGED <<cacheVars, putFor>>
    PROVE  /\ MarksOk(entries', putFor')
           /\ Chain(c, "waiting", conversation[c], entries', putFor')
           /\ \A d \in Clients \ {c} : KeptMarks(d, entries', putFor', entries, putFor)
<1>1. entries' = entries /\ putFor' = putFor
  BY DEF cacheVars
<1>2. MarksOk(entries, putFor) /\ DOMAIN putFor = {}
  BY DEF OnceInv, MarksOk
<1>3. Chain(c, "waiting", conversation[c], entries, putFor)
  BY <1>2 DEF Chain, Later, Own
<1> QED
  BY <1>1, <1>2, <1>3, SameMarks

\* Facts leave the cache, and the entry is no longer this turn's.
LEMMA FactsMarks ==
    ASSUME OnceInv, NEW c \in Clients, Retrieving(c),
           putFor' = [k \in OfOthers(c) |-> putFor[k]], entries' = entries
    PROVE  /\ MarksOk(entries', putFor')
           /\ Chain(c, "waiting", conversation[c], entries', putFor')
           /\ \A d \in Clients \ {c} : KeptMarks(d, entries', putFor', entries, putFor)
<1> DEFINE r == request[c]
           m == conversation[c]
           pg == putFor'
<1>1. /\ m \in Seq(Message) /\ UserStarts(m) # {} /\ MarksOk(entries, putFor)
      /\ Chain(c, "history", m, entries, putFor)
  BY RetrievingIs DEF AllLookedUp
<1>2. \A x \in DOMAIN pg : x \in DOMAIN putFor /\ putFor[x] # Question(c) /\ pg[x] = putFor[x]
  BY DEF OfOthers
<1>3. Question(c) = <<c, SubSeq(m, 1, LastUser(m))>>
  BY DEF Question
<1> HIDE DEF pg, m
<1>4. ASSUME NEW d, NEW x, Own(d, x, pg)
      PROVE  /\ Own(d, x, putFor) /\ pg[x] = putFor[x]
             /\ putFor[x] # <<c, SubSeq(m, 1, LastUser(m))>>
  BY <1>2, <1>3, <1>4 DEF Own
<1>5. MarksOk(entries, pg)
  BY <1>1, <1>2 DEF MarksOk
<1>6. PostMarks(c, m, entries, putFor, entries, pg, {})
  BY <1>4 DEF PostMarks
<1>7. Chain(c, "waiting", m, entries, pg)
  BY <1>1, <1>6, ChainPosted
<1>8. \A d : KeptMarks(d, entries, pg, entries, putFor)
  BY <1>4 DEF KeptMarks
<1> QED
  BY <1>5, <1>7, <1>8 DEF pg, m

\* What the cache knows after a post.
MarksAfter(c) ==
    /\ MarksOk(entries', putFor')
    /\ Chain(c, "waiting", conversation[c], entries', putFor')
    /\ \A d \in Clients \ {c} : KeptMarks(d, entries', putFor', entries, putFor)

Fine(p) == p \in Seq(Prompted) /\ UserStarts(p) # {} /\ OnceEach(p)

\* The prompt so far, if the blocks in it are the turns' own.
LEMMA PromptFine ==
    ASSUME OnceInv, NEW c \in Clients, Retrieving(c), OwnBlocks(c)
    PROVE  /\ Fine(request[c].prompt)
           /\ \A x \in Shown(request[c].prompt) : Sticky /\ x \in request[c].shown
<1> DEFINE r == request[c]
           m == conversation[c]
<1>1. AllLookedUp(c, r, m, entries, putFor) /\ LitOnly(c, r, m, entries, putFor)
  BY RetrievingIs, OwnLit
<1> HIDE DEF r, m
<1>2. /\ m \in Seq(Message) /\ MarksOk(entries, putFor) /\ r.stage = "history"
      /\ Chain(c, r.stage, m, entries, putFor) /\ LitOnly(c, r, m, entries, putFor)
      /\ r.window \in Seq(Message) /\ UserStarts(r.window) # {} /\ Dressed(r.prompt, r.window)
  BY <1>1 DEF AllLookedUp, Lookups
<1>3. r.prompt \in Seq(Prompted) /\ UserStarts(r.prompt) = UserStarts(r.window)
  BY <1>2, LitPlaces
<1>4. OnceEach(r.prompt) /\ \A x \in Shown(r.prompt) : Sticky /\ x \in r.shown
  BY <1>2, LitOnce
<1> QED
  BY <1>2, <1>3, <1>4 DEF Fine, r

\* A prompt is sent.
LEMMA PostOnce ==
    ASSUME OnceInv, NEW c \in Clients, Retrieving(c),
           NEW p, NEW hasBlock, NEW facts, Forward(c, p, hasBlock, facts),
           MarksAfter(c), ~ facts /\ OwnBlocks(c) => Fine(p)
    PROVE  StepOnce(c)
<1> DEFINE r == request[c]
           m == conversation[c]
           q == [NoRequest EXCEPT !.stage = "waiting"]
           notice == Block(<<>>, FALSE, r.dropped)
           mode == IF hasBlock THEN InjectMode ELSE "system"
           final == IF r.dropped = 0 THEN p ELSE Inject(p, notice, mode)
           s == [asked |-> m, prompt |-> final, facts |-> facts]
<1>1. sent' = [sent EXCEPT ![c] = s]
      /\ request' = [request EXCEPT ![c] = q] /\ conversation' = conversation
  BY DEF Forward
<1>2. IsRequest(q) /\ q.stage = "waiting"
  BY NoRequestIs
<1>3. s.prompt = final /\ s.facts = facts
  OBVIOUS
<1>4. ASSUME ~ facts, OwnBlocks(c) PROVE ShowsOnce(final)
  <2>1. Fine(p)
    BY <1>4
  <2>2. notice \in Blocks /\ notice.hits = <<>>
    <3>1. r.dropped \in Nat
      BY RetrievingIs DEF AllLookedUp, Lookups
    <3>2. <<>> \in Seq(Hits)
      OBVIOUS
    <3> QED
      BY <3>1, <3>2 DEF Block, Blocks
  <2> HIDE DEF notice, mode, r
  <2>3. Fresh(p, notice)
    BY <2>2 DEF Fresh, IsInjective
  <2>4. Inject(p, notice, mode) \in Seq(Prompted) /\ OnceEach(Inject(p, notice, mode))
    BY <2>1, <2>2, <2>3, InjectOnce DEF Fine
  <2> QED
    BY <2>1, <2>4, OnceShows DEF Fine
<1> HIDE DEF q, s, final
<1>5. /\ request'[c] = q /\ sent'[c] = s
      /\ \A d \in Clients \ {c} : request'[d] = request[d] /\ sent'[d] = sent[d]
      /\ request' = [d \in Clients |-> request'[d]] /\ sent' = [d \in Clients |-> sent'[d]]
  BY <1>1 DEF OnceInv, RequestsOk
<1>6. SendsOnce(c)
  BY <1>3, <1>4, <1>5 DEF SendsOnce
<1>7. UserStarts(m) # {}
  BY RetrievingIs DEF AllLookedUp
<1>8. /\ MarksOk(entries', putFor') /\ Chain(c, "waiting", m, entries', putFor')
      /\ \A d \in Clients \ {c} : KeptMarks(d, entries', putFor', entries, putFor)
  BY DEF MarksAfter
<1>9. OnceOk(c, request'[c], conversation'[c], entries', putFor')
  BY <1>1, <1>2, <1>5, <1>8 DEF OnceOk
<1> QED
  BY <1>1, <1>2, <1>5, <1>6, <1>7, <1>8, <1>9 DEF StepOnce

LEMMA InjectNothingOnce ==
    ASSUME OnceInv, NEW c \in Clients, InjectNothing(c)
    PROVE  StepOnce(c)
<1>1. Retrieving(c) /\ Forward(c, request[c].prompt, FALSE, FALSE)
  BY DEF InjectNothing
<1>2. MarksAfter(c)
  <2>1. CASE Sticky
    <3>1. Remember(c, NoEntry)
      BY <2>1 DEF InjectNothing
    <3>2. Distinct(NoEntry) /\ DOMAIN NoEntry = {}
      BY DEF Distinct, IsInjective, NoEntry
    <3> QED
      BY <1>1, <2>1, <3>1, <3>2, RememberMarks DEF MarksAfter
  <2>2. CASE ~ Sticky
    <3>1. UNCHANGED <<cacheVars, putFor>>
      BY <2>2 DEF InjectNothing
    <3> QED
      BY <1>1, <2>2, <3>1, UntoldMarks DEF MarksAfter
  <2> QED
    BY <2>1, <2>2
<1> QED
  BY <1>1, <1>2, PromptFine, PostOnce

LEMMA InjectFactsOnce ==
    ASSUME OnceInv, NEW c \in Clients, InjectFacts(c)
    PROVE  StepOnce(c)
<1>1. /\ Retrieving(c) /\ entries' = entries
      /\ putFor' = [k \in OfOthers(c) |-> putFor[k]]
  BY DEF InjectFacts, cacheVars
<1>2. MarksAfter(c)
  BY <1>1, FactsMarks DEF MarksAfter
<1>3. \/ Forward(c, Inject(request[c].prompt, Block(<<>>, TRUE, 0), InjectMode), TRUE, TRUE)
      \/ Forward(c, request[c].prompt, FALSE, TRUE)
  BY DEF InjectFacts
<1>4. ASSUME NEW p, NEW hasBlock, Forward(c, p, hasBlock, TRUE) PROVE StepOnce(c)
  BY <1>1, <1>2, <1>4, PostOnce
<1> QED
  BY <1>3, <1>4

LEMMA InjectMemoriesOnce ==
    ASSUME OnceInv, NEW c \in Clients, InjectMemories(c)
    PROVE  StepOnce(c)
<1> DEFINE r == request[c]
<1>1. Retrieving(c)
  BY DEF InjectMemories
<1>2. PICK found \in Rankings(TopK + Cardinality(r.shown)) :
        LET fresh == IF Sticky THEN Unshown(found, r.shown) ELSE found
        IN  \E n \in 1..Min({TopK, Len(fresh)}) :
            LET hits == SubSeq(fresh, 1, n)
            IN  /\ IF Sticky THEN Remember(c, hits) ELSE UNCHANGED <<cacheVars, putFor>>
                /\ Forward(c, Inject(r.prompt, Block(hits, FALSE, 0), InjectMode), TRUE, FALSE)
  BY DEF InjectMemories
<1> DEFINE fresh == IF Sticky THEN Unshown(found, r.shown) ELSE found
<1>3. PICK n \in 1..Min({TopK, Len(fresh)}) :
        /\ IF Sticky THEN Remember(c, SubSeq(fresh, 1, n)) ELSE UNCHANGED <<cacheVars, putFor>>
        /\ Forward(c, Inject(r.prompt, Block(SubSeq(fresh, 1, n), FALSE, 0), InjectMode),
                   TRUE, FALSE)
  BY <1>2
<1> DEFINE hits == SubSeq(fresh, 1, n)
<1>4. Distinct(fresh) /\ (Sticky => \A i \in DOMAIN fresh : fresh[i].id \notin r.shown)
  <2>1. Distinct(found)
    BY RankingDistinct
  <2> QED
    BY <2>1, UnshownDistinct
<1> HIDE DEF fresh
<1>5. n \in 1..Len(fresh)
  <2>1. TopK \in Nat /\ Len(fresh) \in Nat
    BY <1>4, RequestAssumption DEF Distinct
  <2>2. {TopK, Len(fresh)} \in SUBSET Nat /\ {TopK, Len(fresh)} # {}
    BY <2>1
  <2>3. Min({TopK, Len(fresh)}) <= Len(fresh) /\ Min({TopK, Len(fresh)}) \in Nat
    BY <2>2, MinOf
  <2> QED
    BY <2>1, <2>3
<1>6. /\ Distinct(hits) /\ DOMAIN hits = 1..n
      /\ \A i \in 1..n : i \in DOMAIN fresh /\ hits[i] = fresh[i]
  BY <1>4, <1>5, FirstsDistinct
<1> HIDE DEF hits
<1>7. Sticky => \A i \in DOMAIN hits : hits[i].id \notin r.shown
  BY <1>4, <1>6
<1>8. /\ Sticky => Remember(c, hits)
      /\ ~ Sticky => UNCHANGED <<cacheVars, putFor>>
      /\ Forward(c, Inject(r.prompt, Block(hits, FALSE, 0), InjectMode), TRUE, FALSE)
  BY <1>3 DEF hits
<1>9. MarksAfter(c)
  <2>1. CASE Sticky
    BY <1>1, <1>6, <1>7, <1>8, <2>1, RememberMarks DEF MarksAfter
  <2>2. CASE ~ Sticky
    BY <1>1, <1>8, <2>2, UntoldMarks DEF MarksAfter
  <2> QED
    BY <2>1, <2>2
<1> DEFINE block == Block(hits, FALSE, 0)
           p == Inject(r.prompt, block, InjectMode)
<1>10. ASSUME OwnBlocks(c) PROVE Fine(p)
  <2>1. Fine(r.prompt) /\ \A x \in Shown(r.prompt) : Sticky /\ x \in r.shown
    BY <1>1, <1>10, PromptFine
  <2>2. block \in Blocks /\ block.hits = hits
    BY <1>6 DEF Block, Blocks, Distinct
  <2> HIDE DEF block
  <2>3. Fresh(r.prompt, block)
    <3>1. IsInjective(hits)
      BY <1>6 DEF Distinct
    <3>2. \A i \in DOMAIN hits : hits[i].id \notin Shown(r.prompt)
      BY <1>7, <2>1
    <3> QED
      BY <2>2, <3>1, <3>2 DEF Fresh
  <2> HIDE DEF r
  <2> QED
    BY <2>1, <2>2, <2>3, InjectOnce DEF Fine
<1>11. Forward(c, p, TRUE, FALSE)
  BY <1>8
<1> HIDE DEF p
<1> QED
  BY <1>1, <1>9, <1>10, <1>11, PostOnce

-----------------------------------------------------------------------------

LEMMA InitOnce == Init => OnceInv
<1> SUFFICES ASSUME Init PROVE OnceInv
  OBVIOUS
<1>1. RequestsOk
  BY InitFollows, FollowsRequests
<1>2. /\ request = [c \in Clients |-> NoRequest] /\ entries = <<>> /\ putFor = <<>>
      /\ DOMAIN entries = {} /\ DOMAIN putFor = {}
  BY DEF Init
<1>3. MarksOk(entries, putFor)
  BY <1>2 DEF MarksOk
<1>4. ASSUME NEW c \in Clients
      PROVE  OnceOk(c, request[c], conversation[c], entries, putFor)
  <2>1. request[c].stage # "history"
    BY <1>2, NoRequestIs
  <2>2. Chain(c, request[c].stage, conversation[c], entries, putFor)
    BY <1>2 DEF Chain, Later, Own
  <2> QED
    BY <2>1, <2>2 DEF OnceOk
<1> QED
  BY <1>1, <1>3, <1>4 DEF OnceInv

LEMMA NextOnce ==
    ASSUME OnceInv, [Next]_vars
    PROVE  OnceInv' /\ \A c \in Clients : SendsOnce(c)
<1>1. CASE UNCHANGED vars \/ \E m \in Memories : Purge(m)
  <2>1. /\ conversation' = conversation /\ request' = request
        /\ sent' = sent /\ entries' = entries /\ putFor' = putFor
    BY <1>1 DEF vars, Purge, cacheVars, history
  <2>2. OnceInv'
    BY <2>1 DEF OnceInv, RequestsOk, ConversationInv
  <2> QED
    BY <2>1, <2>2 DEF SendsOnce
<1>2. CASE \E c \in Clients : RequestStep(c)
  <2>1. PICK c \in Clients :
          \/ Ask(c) \/ ToolResult(c) \/ Rewind(c)
          \/ Receive(c) \/ Refuse(c) \/ Lookup(c)
          \/ InjectNothing(c) \/ InjectMemories(c) \/ InjectFacts(c)
          \/ Answer(c) \/ Unreachable(c)
    BY <1>2 DEF RequestStep
  <2>2. StepOnce(c)
    <3>1. CASE Ask(c) \/ ToolResult(c) \/ Refuse(c) \/ Answer(c) \/ Unreachable(c)
      <4>1. PICK q, n : Talks(c, q, n)
        BY <3>1, AskStep, ToolResultStep, RefuseStep, AnswerStep, UnreachableStep
        DEF OnceInv
      <4> QED
        BY <4>1, TalkOnce
    <3> QED
      BY <2>1, <3>1, RewindOnce, ReceiveOnce, LookupOnce, InjectNothingOnce,
         InjectMemoriesOnce, InjectFactsOnce
  <2>3. ConversationInv'
    BY NextConversation DEF OnceInv, RequestsOk
  <2>4. ASSUME NEW d \in Clients
        PROVE  /\ OnceOk(d, request'[d], conversation'[d], entries', putFor')
               /\ IsRequest(request'[d])
               /\ \/ UserStarts(conversation'[d]) # {}
                  \/ conversation'[d] = Opening /\ Quiet(request'[d])
               /\ SendsOnce(d)
    <3>1. CASE d = c
      BY <2>2, <3>1 DEF StepOnce
    <3>2. CASE d # c
      <4>1. /\ request'[d] = request[d] /\ sent'[d] = sent[d]
            /\ conversation'[d] = conversation[d]
            /\ KeptMarks(d, entries', putFor', entries, putFor)
        BY <2>2, <3>2 DEF StepOnce
      <4>2. OnceOk(d, request[d], conversation[d], entries, putFor)
        BY DEF OnceInv
      <4>3. OnceOk(d, request[d], conversation[d], entries', putFor')
        BY <4>1, <4>2, OnceKept
      <4> QED
        BY <4>1, <4>3 DEF OnceInv, RequestsOk, SendsOnce
    <3> QED
      BY <3>1, <3>2
  <2>5. /\ request' = [d \in Clients |-> request'[d]] /\ sent' = [d \in Clients |-> sent'[d]]
        /\ MarksOk(entries', putFor')
    BY <2>2 DEF StepOnce
  <2> QED
    BY <2>3, <2>4, <2>5 DEF OnceInv, RequestsOk
<1> QED
  BY <1>1, <1>2 DEF Next

\* Action property: a prompt never shows a memory at two places, in any of the modes,
\* unless the memory was purged between the two, if the blocks above its earlier turns are
\* what these turns were given last and the turn was not answered with facts
\* (proxy.cpp:130, 184; sticky.cpp; memory_store.cpp:1065).
THEOREM NoMemoryTwiceEver == Spec => NoMemoryTwice
<1>1. Init => OnceInv
  BY InitOnce
<1>2. OnceInv /\ [Next]_vars => OnceInv'
  BY NextOnce
<1>3. OnceInv /\ [Next]_vars =>
        [\A c \in Clients :
          /\ sent'[c] # sent[c] /\ ~ sent'[c].facts
          /\ OwnBlocks(c)
          => ShowsOnce(sent'[c].prompt)]_vars
  BY NextOnce DEF SendsOnce
<1> QED
  BY <1>1, <1>2, <1>3, PTL DEF Spec, NoMemoryTwice
=============================================================================
