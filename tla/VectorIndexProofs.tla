-------------------------- MODULE VectorIndexProofs --------------------------
(***************************************************************************)
(* Proofs about VectorIndex.  Types hold whatever models are used; that    *)
(* the array is the map, and its waste bounded, needs one model, that is,  *)
(* one length D.                                                           *)
(***************************************************************************)
EXTENDS VectorIndex, FiniteSetTheorems, SequenceTheorems, TLAPS

(* Multiples and remainders: n = d * q + r determines q and r. *)
LEMMA MultiplesApart ==
    ASSUME NEW d \in Nat \ {0}, NEW x \in Int, NEW y \in Int, x < y
    PROVE  d * x + d <= d * y
<1>1. y - x - 1 \in Nat
  OBVIOUS
<1>2. d * (y - x - 1) >= 0
  BY <1>1
<1> QED
  BY <1>2

LEMMA MultiplesGrow ==
    ASSUME NEW d \in Nat, NEW x \in Nat, NEW y \in Nat, x <= y
    PROVE  2 * d * x <= 2 * d * y
<1>1. y - x \in Nat
  OBVIOUS
<1>2. d * (y - x) >= 0
  BY <1>1
<1> QED
  BY <1>2

LEMMA Division ==
    ASSUME NEW a \in Nat, NEW d \in Nat \ {0}
    PROVE  a \div d \in Int /\ a % d \in 0..(d - 1) /\ a = d * (a \div d) + (a % d)
OBVIOUS

LEMMA QuotientUnique ==
    ASSUME NEW d \in Nat \ {0}, NEW q \in Nat, NEW r \in 0..(d - 1)
    PROVE  (d * q + r) \div d = q /\ (d * q + r) % d = r
<1> DEFINE a == d * q + r
<1>0. a \in Nat
  OBVIOUS
<1>1. a \div d \in Int /\ a % d \in 0..(d - 1) /\ a = d * (a \div d) + (a % d)
  BY <1>0, Division
<1>2. ~(a \div d < q) /\ ~(q < a \div d)
  BY <1>1, MultiplesApart
<1>3. a \div d = q
  BY <1>1, <1>2
<1> QED
  BY <1>1, <1>3

(* Sets of memories are finite. *)
LEMMA MemoriesFinite ==
    ASSUME NEW S \in SUBSET MemoryIds
    PROVE  IsFiniteSet(S) /\ Cardinality(S) \in Nat
<1>1. IsFiniteSet(MemoryIds)
  BY FS_Interval, IndexAssumption DEF MemoryIds
<1> QED
  BY <1>1, FS_Subset, FS_CardinalityType

(* A place in the vector belongs to one entry, and each place to some. *)
LEMMA PlaceFound ==
    ASSUME NEW S \in SUBSET MemoryIds, NEW place \in Places(S),
           NEW p \in 1..Cardinality(S)
    PROVE  \E k \in S : place[k] = p
<1>1. IsFiniteSet(S) /\ Cardinality(S) \in Nat
  BY MemoriesFinite
<1>2. IsFiniteSet(1..Cardinality(S)) /\ Cardinality(1..Cardinality(S)) = Cardinality(S)
  BY <1>1, FS_Interval
<1>3. place \in Injection(S, 1..Cardinality(S))
  <2>1. place \in [S -> 1..Cardinality(S)]
    BY DEF Places
  <2>2. \A i, j \in S : i # j => place[i] # place[j]
    <3> SUFFICES ASSUME NEW i \in S, NEW j \in S, i # j
                 PROVE  place[i] # place[j]
      OBVIOUS
    <3>1. i < j \/ j < i
      BY DEF MemoryIds
    <3>2. place[i] < place[j] \/ place[j] < place[i]
      BY <3>1 DEF Places
    <3> QED
      BY <2>1, <3>2
  <2> QED
    BY <2>1, <2>2 DEF Injection, IsInjective
<1>4. place \in Surjection(S, 1..Cardinality(S))
  BY <1>1, <1>2, <1>3, FS_Injection
<1> QED
  BY <1>4 DEF Surjection

LEMMA PlaceOfOne ==
    ASSUME NEW S \in SUBSET MemoryIds, NEW place \in Places(S), NEW k \in S
    PROVE  /\ place[k] \in 1..Cardinality(S)
           /\ (CHOOSE i \in S : place[i] = place[k]) = k
<1>1. \A i \in S : place[i] = place[k] => i = k
  <2> SUFFICES ASSUME NEW i \in S, i # k
               PROVE  place[i] # place[k]
    OBVIOUS
  <2>1. i < k \/ k < i
    BY DEF MemoryIds
  <2>2. place[i] \in Nat /\ place[k] \in Nat
    BY MemoriesFinite DEF Places
  <2> QED
    BY <2>1, <2>2 DEF Places
<1> QED
  BY <1>1 DEF Places

-----------------------------------------------------------------------------
(* Recompaction *)

AnyFloat == Float \cup {Garbage}

LEMMA SliceType ==
    ASSUME NEW floats \in Seq(AnyFloat), NEW offset \in Nat, NEW d \in Nat, NEW n \in 1..d
    PROVE  Slice(floats, offset, d)[n] \in AnyFloat
<1>1. offset + n <= Len(floats) => floats[offset + n] \in AnyFloat
  <2>1. Len(floats) \in Nat /\ offset + n \in Nat \ {0}
    OBVIOUS
  <2> QED
    BY <2>1, ElementOfSeq
<1> QED
  BY <1>1 DEF Slice, AnyFloat

(* The float at position r of the entry at place p. *)
LEMMA RepackedAt ==
    ASSUME NEW entries, DOMAIN entries \in SUBSET MemoryIds, dim \in Nat \ {0},
           NEW place \in Places(DOMAIN entries), NEW k \in DOMAIN entries,
           NEW r \in 0..(2 * dim - 1)
    PROVE  /\ PackedAt(place[k]) + r + 1 \in 1..(2 * dim * Cardinality(DOMAIN entries))
           /\ Repacked(entries, place)[PackedAt(place[k]) + r + 1] =
                IF r < dim THEN Slice(embeddings, entries[k].user, dim)[r + 1]
                           ELSE Slice(embeddings, entries[k].assist, dim)[r - dim + 1]
<1> DEFINE q == place[k] - 1
           d == 2 * dim
           n == PackedAt(place[k]) + r + 1
           size == Cardinality(DOMAIN entries)
<1>1. size \in Nat /\ place[k] \in 1..size /\ q \in Nat /\ q < size
  BY MemoriesFinite, PlaceOfOne
<1>2. d \in Nat \ {0} /\ r \in 0..(d - 1)
  OBVIOUS
<1>3. n = d * q + r + 1 /\ n - 1 = d * q + r
  BY <1>1 DEF PackedAt
<1> HIDE DEF d, n, q, size
<1>4. (n - 1) \div d = q /\ (n - 1) % d = r
  <2>1. (d * q + r) \div d = q /\ (d * q + r) % d = r
    BY <1>1, <1>2, QuotientUnique
  <2> QED
    BY <1>3, <2>1
<1>5. n \in 1..(d * size)
  <2>1. d * q + d <= d * size
    BY <1>1, <1>2, MultiplesApart
  <2>2. d * q \in Nat /\ d * size \in Nat
    BY <1>1, <1>2
  <2> QED
    BY <1>2, <1>3, <2>1, <2>2
<1>6. (CHOOSE i \in DOMAIN entries : place[i] = q + 1) = k
  <2>1. q + 1 = place[k]
    BY <1>1 DEF q
  <2> QED
    BY <2>1, PlaceOfOne
<1>7. Repacked(entries, place)[n] =
        LET i == CHOOSE i \in DOMAIN entries : place[i] = (n - 1) \div d + 1
            m == (n - 1) % d
        IN  IF m < dim THEN Slice(embeddings, entries[i].user, dim)[m + 1]
                       ELSE Slice(embeddings, entries[i].assist, dim)[m - dim + 1]
  BY <1>5 DEF Repacked, d, size
<1>8. Repacked(entries, place)[n] =
        IF r < dim THEN Slice(embeddings, entries[k].user, dim)[r + 1]
                   ELSE Slice(embeddings, entries[k].assist, dim)[r - dim + 1]
  BY <1>4, <1>6, <1>7
<1> QED
  BY <1>5, <1>8 DEF n, d, size

LEMMA RepackedType ==
    ASSUME embeddings \in Seq(AnyFloat), NEW entries, dim \in Nat \ {0},
           DOMAIN entries \in SUBSET MemoryIds,
           \A k \in DOMAIN entries : entries[k].user \in Nat /\ entries[k].assist \in Nat,
           NEW place \in Places(DOMAIN entries)
    PROVE  /\ Repacked(entries, place) \in Seq(AnyFloat)
           /\ Len(Repacked(entries, place)) = 2 * dim * Cardinality(DOMAIN entries)
<1> DEFINE d == 2 * dim
           size == Cardinality(DOMAIN entries)
           new == Repacked(entries, place)
<1>1. size \in Nat /\ d \in Nat \ {0} /\ d * size \in Nat
  BY MemoriesFinite
<1>2. new = [n \in 1..(d * size) |-> new[n]]
  BY DEF Repacked
<1>3. \A k \in DOMAIN entries, r \in 0..(d - 1) :
        new[PackedAt(place[k]) + r + 1] =
          IF r < dim THEN Slice(embeddings, entries[k].user, dim)[r + 1]
                     ELSE Slice(embeddings, entries[k].assist, dim)[r - dim + 1]
  BY RepackedAt
<1>4. \A p \in Nat : PackedAt(p) = d * (p - 1)
  BY DEF PackedAt
<1>5. dim < d /\ d - dim = dim
  OBVIOUS
<1> HIDE DEF d, size, new
<1>6. ASSUME NEW n \in 1..(d * size)
      PROVE  new[n] \in AnyFloat
  <2> DEFINE q == (n - 1) \div d
             r == (n - 1) % d
  <2>1. q \in Int /\ r \in 0..(d - 1) /\ n - 1 = d * q + r
    BY <1>1, Division
  <2> HIDE DEF q, r
  <2>2. q >= 0
    <3> SUFFICES ASSUME q < 0 PROVE FALSE
      BY <2>1
    <3>1. d * q + d <= d * 0
      BY <1>1, <2>1, MultiplesApart
    <3> QED
      BY <1>1, <2>1, <3>1
  <2>3. q < size
    <3> SUFFICES ASSUME size <= q PROVE FALSE
      BY <1>1, <2>1
    <3>1. d * size <= d * q
      BY <1>1, <2>1, MultiplesApart
    <3>2. d * q \in Int
      BY <1>1, <2>1
    <3> QED
      BY <1>1, <2>1, <3>1, <3>2
  <2>4. q + 1 \in 1..size
    BY <1>1, <2>1, <2>2, <2>3
  <2>5. PICK k \in DOMAIN entries : place[k] = q + 1
    BY <2>4, PlaceFound DEF size
  <2>6. n = PackedAt(place[k]) + r + 1
    BY <1>1, <1>4, <2>1, <2>2, <2>5
  <2>7. new[n] = IF r < dim THEN Slice(embeddings, entries[k].user, dim)[r + 1]
                            ELSE Slice(embeddings, entries[k].assist, dim)[r - dim + 1]
    BY <1>3, <2>1, <2>6
  <2>8. /\ r < dim => r + 1 \in 1..dim
        /\ ~(r < dim) => r - dim + 1 \in 1..dim
    BY <1>1, <1>5, <2>1
  <2> QED
    BY <2>7, <2>8, SliceType
<1>7. new \in [1..(d * size) -> AnyFloat]
  BY <1>2, <1>6
<1>8. new \in Seq(AnyFloat) /\ Len(new) = d * size
  BY <1>1, <1>7
<1> QED
  BY <1>8 DEF new, d, size

-----------------------------------------------------------------------------
(* Type correctness *)

LEMMA VectorType ==
    ASSUME NEW k \in MemoryIds, NEW side \in {"user", "assist"}, NEW d \in Nat
    PROVE  /\ Vector(k, side, d) \in Seq(AnyFloat) /\ Len(Vector(k, side, d)) = d
           /\ \A n \in 1..d : Vector(k, side, d)[n] = <<k, side, n>>
<1>1. Vector(k, side, d) \in [1..d -> AnyFloat]
  BY DEF Vector, Float, AnyFloat
<1> QED
  BY <1>1 DEF Vector

(* Appending: what was there stays where it was. *)
LEMMA Appended ==
    ASSUME TypeOK, NEW k \in MemoryIds, NEW d \in Dims, AppendEntry(k, d)
    PROVE  /\ embeddings' \in Seq(AnyFloat)
           /\ Len(embeddings') = Len(embeddings) + 2 * d
           /\ \A n \in 1..Len(embeddings) : embeddings'[n] = embeddings[n]
           /\ \A n \in 1..d :
                /\ embeddings'[Len(embeddings) + n] = <<k, "user", n>>
                /\ embeddings'[Len(embeddings) + d + n] = <<k, "assist", n>>
           /\ DOMAIN cache' = DOMAIN cache \cup {k}
           /\ \A i \in DOMAIN cache : i # k => cache'[i] = cache[i]
           /\ cache'[k] = [id |-> k, user |-> Len(embeddings),
                           assist |-> Len(embeddings) + d]
           /\ cache' \in [DOMAIN cache' -> Entry] /\ DOMAIN cache' \subseteq MemoryIds
           /\ dim' \in Dims \cup {0}
<1> DEFINE u == Vector(k, "user", d)
           a == Vector(k, "assist", d)
<1>1. /\ embeddings \in Seq(AnyFloat) /\ Len(embeddings) \in Nat /\ d \in Nat \ {0}
      /\ cache \in [DOMAIN cache -> Entry] /\ DOMAIN cache \subseteq MemoryIds
  BY IndexAssumption DEF TypeOK, AnyFloat
<1>2. /\ u \in Seq(AnyFloat) /\ Len(u) = d /\ \A n \in 1..d : u[n] = <<k, "user", n>>
      /\ a \in Seq(AnyFloat) /\ Len(a) = d /\ \A n \in 1..d : a[n] = <<k, "assist", n>>
  BY <1>1, VectorType
<1>3. embeddings' = embeddings \o (u \o a)
  BY DEF AppendEntry, Both
<1> HIDE DEF u, a
<1>4. /\ u \o a \in Seq(AnyFloat) /\ Len(u \o a) = 2 * d
      /\ \A n \in 1..d : (u \o a)[n] = u[n] /\ (u \o a)[d + n] = a[n]
  <2>1. /\ u \o a \in Seq(AnyFloat) /\ Len(u \o a) = Len(u) + Len(a)
        /\ \A n \in 1..(Len(u) + Len(a)) :
             (u \o a)[n] = IF n <= Len(u) THEN u[n] ELSE a[n - Len(u)]
    BY <1>2, ConcatProperties
  <2> QED
    BY <1>1, <1>2, <2>1
<1>5. /\ embeddings' \in Seq(AnyFloat) /\ Len(embeddings') = Len(embeddings) + 2 * d
      /\ \A n \in 1..Len(embeddings) : embeddings'[n] = embeddings[n]
      /\ \A n \in 1..(2 * d) : embeddings'[Len(embeddings) + n] = (u \o a)[n]
  <2> DEFINE w == u \o a
             l == Len(embeddings)
  <2>1. w \in Seq(AnyFloat) /\ Len(w) = 2 * d
    BY <1>4
  <2>2. /\ embeddings \o w \in Seq(AnyFloat) /\ Len(embeddings \o w) = l + Len(w)
        /\ \A n \in 1..(l + Len(w)) :
             (embeddings \o w)[n] = IF n <= l THEN embeddings[n] ELSE w[n - l]
    BY <1>1, <2>1, ConcatProperties
  <2> HIDE DEF w
  <2> QED
    BY <1>1, <1>3, <2>1, <2>2 DEF w
<1>6. \A n \in 1..d : /\ embeddings'[Len(embeddings) + n] = <<k, "user", n>>
                      /\ embeddings'[Len(embeddings) + d + n] = <<k, "assist", n>>
  <2> SUFFICES ASSUME NEW n \in 1..d
               PROVE  /\ embeddings'[Len(embeddings) + n] = <<k, "user", n>>
                      /\ embeddings'[Len(embeddings) + d + n] = <<k, "assist", n>>
    OBVIOUS
  <2>1. n \in 1..(2 * d) /\ d + n \in 1..(2 * d)
        /\ Len(embeddings) + (d + n) = Len(embeddings) + d + n
    BY <1>1
  <2> QED
    BY <1>2, <1>4, <1>5, <2>1
<1>7. /\ DOMAIN cache' = DOMAIN cache \cup {k}
      /\ \A i \in DOMAIN cache : i # k => cache'[i] = cache[i]
      /\ cache'[k] = [id |-> k, user |-> Len(embeddings), assist |-> Len(embeddings) + d]
      /\ cache' = [i \in DOMAIN cache' |-> cache'[i]]
  BY DEF AppendEntry
<1>8. cache' \in [DOMAIN cache' -> Entry] /\ DOMAIN cache' \subseteq MemoryIds
  <2>1. cache'[k] \in Entry
    BY <1>1, <1>7 DEF Entry
  <2> QED
    BY <1>1, <1>7, <2>1
<1>9. dim' \in Dims \cup {0}
  BY DEF AppendEntry, TypeOK
<1> QED
  BY <1>5, <1>6, <1>7, <1>8, <1>9

(* Erasing leaves the remaining entries; either nothing else changes or they
   are repacked in some order. *)
LEMMA Erased ==
    ASSUME TypeOK, NEW S \in SUBSET MemoryIds, EraseEntries(S),
           NEW left, left = {k \in DOMAIN cache : cache[k].id \notin S}
    PROVE  /\ DOMAIN cache' = left
           /\ \A k \in left : cache'[k].id = cache[k].id
           /\ \/ /\ cache' = Restrict(cache, left) /\ embeddings' = embeddings
                 /\ holes' = holes + Cardinality(S)
                 /\ ~ShouldRecompact(holes + Cardinality(S), left)
              \/ \E place \in Places(left) :
                   /\ dim \in Nat \ {0} /\ holes' = 0
                   /\ cache' = RepackedEntries(Restrict(cache, left), place)
                   /\ embeddings' = Repacked(Restrict(cache, left), place)
<1>1. /\ DOMAIN Restrict(cache, left) = left
      /\ \A k \in left : Restrict(cache, left)[k] = cache[k] /\ cache[k] \in Entry
  BY DEF Restrict, TypeOK
<1>2. CASE ShouldRecompact(holes + Cardinality(S), left)
  <2>1. PICK place \in Places(left) :
          /\ cache' = RepackedEntries(Restrict(cache, left), place)
          /\ embeddings' = Repacked(Restrict(cache, left), place)
          /\ holes' = 0
    BY <1>2 DEF EraseEntries
  <2>2. dim \in Nat \ {0}
    BY <1>2, IndexAssumption DEF ShouldRecompact, TypeOK
  <2>3. DOMAIN cache' = left /\ \A k \in left : cache'[k].id = cache[k].id
    BY <1>1, <2>1 DEF RepackedEntries, Entry
  <2> QED
    BY <2>1, <2>2, <2>3
<1>3. CASE ~ShouldRecompact(holes + Cardinality(S), left)
  BY <1>1, <1>3 DEF EraseEntries
<1> QED
  BY <1>2, <1>3

LEMMA ErasedType ==
    ASSUME TypeOK, NEW S \in SUBSET MemoryIds, EraseEntries(S)
    PROVE  /\ cache' \in [DOMAIN cache' -> Entry] /\ DOMAIN cache' \subseteq MemoryIds
           /\ embeddings' \in Seq(AnyFloat) /\ holes' \in Nat
<1> DEFINE left == {k \in DOMAIN cache : cache[k].id \notin S}
           kept == Restrict(cache, left)
<1>1. /\ cache \in [DOMAIN cache -> Entry] /\ left \in SUBSET MemoryIds
      /\ embeddings \in Seq(AnyFloat) /\ holes \in Nat /\ Cardinality(S) \in Nat
  BY MemoriesFinite DEF TypeOK, AnyFloat
<1>2. DOMAIN kept = left /\ kept \in [left -> Entry]
  BY <1>1 DEF Restrict
<1> HIDE DEF left, kept
<1>3. CASE cache' = kept /\ embeddings' = embeddings /\ holes' = holes + Cardinality(S)
  BY <1>1, <1>2, <1>3
<1>4. ASSUME NEW place \in Places(left), dim \in Nat \ {0}, holes' = 0,
             cache' = RepackedEntries(kept, place), embeddings' = Repacked(kept, place)
      PROVE  /\ cache' \in [DOMAIN cache' -> Entry] /\ DOMAIN cache' \subseteq MemoryIds
             /\ embeddings' \in Seq(AnyFloat) /\ holes' \in Nat
  <2>1. \A k \in left : kept[k].user \in Nat /\ kept[k].assist \in Nat
    BY <1>2 DEF Entry
  <2>2. embeddings' \in Seq(AnyFloat)
    BY <1>1, <1>2, <1>4, <2>1, RepackedType
  <2>3. \A k \in left : PackedAt(place[k]) \in Nat /\ PackedAt(place[k]) + dim \in Nat
    <3> SUFFICES ASSUME NEW k \in left
                 PROVE  PackedAt(place[k]) \in Nat /\ PackedAt(place[k]) + dim \in Nat
      OBVIOUS
    <3>1. place[k] - 1 \in Nat
      BY <1>1, PlaceOfOne, MemoriesFinite
    <3> QED
      BY <1>4, <3>1 DEF PackedAt
  <2>4. cache' \in [left -> Entry]
    BY <1>2, <1>4, <2>3 DEF RepackedEntries, Entry
  <2> QED
    BY <1>1, <1>4, <2>2, <2>4
<1> QED
  BY <1>3, <1>4, Erased DEF left, kept

LEMMA IndexTypeStep == TypeOK /\ [Next]_vars => TypeOK'
<1> SUFFICES ASSUME TypeOK, [Next]_vars
             PROVE  TypeOK'
  OBVIOUS
<1>0. /\ rows \in [DOMAIN rows -> Dims] /\ DOMAIN rows \subseteq MemoryIds
      /\ nextMemory \in 1..(MaxMemory + 1) /\ MaxMemory \in Nat
      /\ holes \in Nat /\ model \in Dims
      /\ cache \in [DOMAIN cache -> Entry] /\ DOMAIN cache \subseteq MemoryIds
  BY IndexAssumption DEF TypeOK
<1>1. CASE Insert
  <2>1. nextMemory \in MemoryIds /\ nextMemory' \in 1..(MaxMemory + 1)
    BY <1>0, <1>1 DEF Insert, MemoryIds
  <2>2. rows' \in [DOMAIN rows' -> Dims] /\ DOMAIN rows' \subseteq MemoryIds
        /\ loading' \subseteq DOMAIN rows'
    BY <1>0, <1>1, <2>1 DEF Insert
  <2>3. AppendEntry(nextMemory, model)
    BY <1>1 DEF Insert
  <2> QED
    BY <1>0, <1>1, <2>1, <2>2, <2>3, Appended DEF Insert, TypeOK, AnyFloat
<1>2. CASE \E S \in SUBSET MemoryIds : Erase(S)
  <2>1. PICK S \in SUBSET MemoryIds : Erase(S)
    BY <1>2
  <2>2. rows' \in [DOMAIN rows' -> Dims] /\ DOMAIN rows' \subseteq MemoryIds
        /\ loading' \subseteq DOMAIN rows'
    BY <1>0, <2>1 DEF Erase, DeleteRows, Restrict
  <2>3. EraseEntries(S)
    BY <2>1 DEF Erase
  <2> QED
    BY <2>1, <2>2, <2>3, ErasedType DEF Erase, TypeOK, AnyFloat
<1>3. CASE \E S \in SUBSET MemoryIds : Purge(S)
  <2>1. PICK S \in SUBSET MemoryIds : Purge(S)
    BY <1>3
  <2>2. rows' \in [DOMAIN rows' -> Dims] /\ DOMAIN rows' \subseteq MemoryIds
        /\ loading' \subseteq DOMAIN rows'
    BY <1>0, <2>1 DEF Purge, DeleteRows, Restrict
  <2>3. cache' \in [DOMAIN cache' -> Entry] /\ DOMAIN cache' \subseteq MemoryIds
    BY <1>0, <2>1 DEF Purge, Entry
  <2>4. holes' \in Nat
    <3>1. Cardinality({k \in DOMAIN cache : cache[k].id \in S}) \in Nat
      BY <1>0, MemoriesFinite
    <3> QED
      BY <1>0, <2>1, <3>1 DEF Purge
  <2> QED
    BY <2>1, <2>2, <2>3, <2>4 DEF Purge, TypeOK
<1>4. CASE \E m \in Dims : Reopen(m)
  <2>1. <<>> \in Seq(AnyFloat)
    BY EmptySeq
  <2> QED
    BY <1>0, <1>4, <2>1 DEF Reopen, TypeOK, AnyFloat
<1>5. CASE \E k \in MemoryIds : LoadRow(k)
  <2>1. PICK k \in MemoryIds : LoadRow(k)
    BY <1>5
  <2>2. rows[k] \in Dims /\ AppendEntry(k, rows[k])
    BY <1>0, <2>1 DEF LoadRow, TypeOK
  <2> QED
    BY <1>0, <2>1, <2>2, Appended DEF LoadRow, TypeOK, AnyFloat
<1>6. CASE UNCHANGED vars
  BY <1>6 DEF vars, TypeOK
<1> QED
  BY <1>1, <1>2, <1>3, <1>4, <1>5, <1>6 DEF Next

(* The array holds floats or what was read past its end, and the offsets,
   counts and rows stay what they are typed to be, with any models. *)
THEOREM IndexTypeCorrect == Spec => []TypeOK
<1>1. Init => TypeOK
  <2>1. <<>> \in Seq(AnyFloat)
    BY EmptySeq
  <2> QED
    BY <2>1, IndexAssumption DEF Init, TypeOK, AnyFloat
<1> QED
  BY <1>1, IndexTypeStep, PTL DEF Spec

-----------------------------------------------------------------------------
(* One model: the array is a map *)

(* Every entry's offsets lead to its own floats, inside the array; and what
   keeps a new or reloaded memory from having an entry already. *)
OwnFloats(k, D) ==
    /\ cache[k].user + D <= Len(embeddings) /\ cache[k].assist + D <= Len(embeddings)
    /\ \A n \in 1..D : /\ embeddings[cache[k].user + n] = <<k, "user", n>>
                       /\ embeddings[cache[k].assist + n] = <<k, "assist", n>>

OwnInv(D) ==
    /\ dim = 0 => DOMAIN cache = {} /\ embeddings = <<>>
    /\ \A k \in DOMAIN cache \cup DOMAIN rows : k < nextMemory
    /\ loading \cap DOMAIN cache = {}
    /\ \A k \in DOMAIN cache : OwnFloats(k, D)

LEMMA OwnInit ==
    ASSUME NEW D
    PROVE  Init => OwnInv(D)
BY DEF Init, OwnInv

LEMMA OwnAppended ==
    ASSUME NEW D \in Nat \ {0}, Dims = {D}, TypeOK, OwnInv(D),
           NEW k \in MemoryIds, k \notin DOMAIN cache, AppendEntry(k, D)
    PROVE  /\ \A i \in DOMAIN cache' : OwnFloats(i, D)'
           /\ dim' # 0
<1>1. /\ Len(embeddings) \in Nat /\ Len(embeddings') = Len(embeddings) + 2 * D
      /\ \A n \in 1..Len(embeddings) : embeddings'[n] = embeddings[n]
      /\ \A n \in 1..D :
           /\ embeddings'[Len(embeddings) + n] = <<k, "user", n>>
           /\ embeddings'[Len(embeddings) + D + n] = <<k, "assist", n>>
      /\ DOMAIN cache' = DOMAIN cache \cup {k}
      /\ \A i \in DOMAIN cache : i # k => cache'[i] = cache[i]
      /\ cache'[k].user = Len(embeddings) /\ cache'[k].assist = Len(embeddings) + D
  <2>1. D \in Dims /\ Len(embeddings) \in Nat
    BY DEF TypeOK
  <2>2. /\ Len(embeddings') = Len(embeddings) + 2 * D
        /\ \A n \in 1..Len(embeddings) : embeddings'[n] = embeddings[n]
        /\ \A n \in 1..D :
             /\ embeddings'[Len(embeddings) + n] = <<k, "user", n>>
             /\ embeddings'[Len(embeddings) + D + n] = <<k, "assist", n>>
    BY <2>1, Appended
  <2>3. /\ DOMAIN cache' = DOMAIN cache \cup {k}
        /\ \A i \in DOMAIN cache : i # k => cache'[i] = cache[i]
        /\ cache'[k] = [id |-> k, user |-> Len(embeddings),
                        assist |-> Len(embeddings) + D]
    BY <2>1, Appended
  <2>4. cache'[k].user = Len(embeddings) /\ cache'[k].assist = Len(embeddings) + D
    BY <2>3
  <2> QED
    BY <2>1, <2>2, <2>3, <2>4
<1>2. OwnFloats(k, D)'
  <2>1. /\ cache'[k].user + D <= Len(embeddings') /\ cache'[k].assist + D <= Len(embeddings')
    BY <1>1
  <2>2. \A n \in 1..D : /\ embeddings'[cache'[k].user + n] = <<k, "user", n>>
                        /\ embeddings'[cache'[k].assist + n] = <<k, "assist", n>>
    BY <1>1
  <2> QED
    BY <2>1, <2>2 DEF OwnFloats
<1>3. ASSUME NEW i \in DOMAIN cache
      PROVE  OwnFloats(i, D)'
  <2>1. cache'[i] = cache[i] /\ cache[i].user \in Nat /\ cache[i].assist \in Nat
    BY <1>1 DEF TypeOK, Entry
  <2>2. OwnFloats(i, D)
    BY DEF OwnInv
  <2>3. \A n \in 1..D : /\ cache[i].user + n \in 1..Len(embeddings)
                        /\ cache[i].assist + n \in 1..Len(embeddings)
    <3> SUFFICES ASSUME NEW n \in 1..D
                 PROVE  /\ cache[i].user + n \in 1..Len(embeddings)
                        /\ cache[i].assist + n \in 1..Len(embeddings)
      OBVIOUS
    <3>1. /\ cache[i].user + D <= Len(embeddings)
          /\ cache[i].assist + D <= Len(embeddings)
          /\ Len(embeddings) \in Nat
      BY <1>1, <2>2 DEF OwnFloats
    <3> QED
      BY <2>1, <3>1
  <2>4. /\ cache[i].user + D <= Len(embeddings')
        /\ cache[i].assist + D <= Len(embeddings')
    BY <1>1, <2>1, <2>2 DEF OwnFloats
  <2>5. \A n \in 1..D : /\ embeddings'[cache[i].user + n] = <<i, "user", n>>
                        /\ embeddings'[cache[i].assist + n] = <<i, "assist", n>>
    BY <1>1, <2>2, <2>3 DEF OwnFloats
  <2> QED
    BY <2>1, <2>4, <2>5 DEF OwnFloats
<1>4. dim' # 0
  BY DEF AppendEntry
<1> QED
  BY <1>1, <1>2, <1>3, <1>4

LEMMA OwnErased ==
    ASSUME NEW D \in Nat \ {0}, Dims = {D}, TypeOK, OwnInv(D),
           NEW S \in SUBSET MemoryIds, EraseEntries(S)
    PROVE  /\ DOMAIN cache' \subseteq DOMAIN cache
           /\ \A k \in DOMAIN cache' : OwnFloats(k, D)'
           /\ dim = 0 => embeddings' = embeddings
<1> DEFINE left == {k \in DOMAIN cache : cache[k].id \notin S}
           kept == Restrict(cache, left)
<1>1. /\ DOMAIN kept = left /\ left \in SUBSET MemoryIds
      /\ \A k \in left : kept[k] = cache[k] /\ cache[k].user \in Nat
                         /\ cache[k].assist \in Nat /\ OwnFloats(k, D)
  BY DEF Restrict, TypeOK, Entry, OwnInv
<1>2. DOMAIN cache' = left /\ left \subseteq DOMAIN cache
  BY Erased
<1> HIDE DEF left, kept
<1>3. ASSUME cache' = kept, embeddings' = embeddings
      PROVE  \A k \in left : OwnFloats(k, D)'
  <2> SUFFICES ASSUME NEW k \in left
               PROVE  OwnFloats(k, D)'
    OBVIOUS
  <2>1. OwnFloats(k, D) /\ cache'[k] = cache[k]
    BY <1>1, <1>3
  <2> QED
    BY <1>3, <2>1 DEF OwnFloats
<1>4. ASSUME NEW place \in Places(left), dim \in Nat \ {0},
             cache' = RepackedEntries(kept, place), embeddings' = Repacked(kept, place)
      PROVE  \A k \in left : OwnFloats(k, D)'
  <2>0. dim = D /\ embeddings \in Seq(AnyFloat)
    BY <1>4 DEF TypeOK, AnyFloat
  <2> SUFFICES ASSUME NEW k \in left
               PROVE  OwnFloats(k, D)'
    OBVIOUS
  <2> DEFINE base == PackedAt(place[k])
             size == Cardinality(left)
  <2>1. cache'[k].user = base /\ cache'[k].assist = base + D
    <3>1. cache'[k] = [kept[k] EXCEPT !.user = PackedAt(place[k]),
                                      !.assist = PackedAt(place[k]) + D]
      BY <1>1, <1>4, <2>0 DEF RepackedEntries
    <3>2. kept[k] \in Entry
      BY <1>1, <1>2 DEF TypeOK
    <3> QED
      BY <3>1, <3>2 DEF Entry
  <2>2. Len(embeddings') = 2 * D * size
    BY <1>1, <1>4, <2>0, RepackedType
  <2>3. \A r \in 0..(2 * D - 1) :
          /\ base + r + 1 \in 1..(2 * D * size)
          /\ embeddings'[base + r + 1] =
               IF r < D THEN Slice(embeddings, cache[k].user, D)[r + 1]
                        ELSE Slice(embeddings, cache[k].assist, D)[r - D + 1]
    <3> SUFFICES ASSUME NEW r \in 0..(2 * D - 1)
                 PROVE  /\ base + r + 1 \in 1..(2 * D * size)
                        /\ embeddings'[base + r + 1] =
                             IF r < D THEN Slice(embeddings, cache[k].user, D)[r + 1]
                                      ELSE Slice(embeddings, cache[k].assist, D)[r - D + 1]
      OBVIOUS
    <3>1. r \in 0..(2 * dim - 1) /\ k \in DOMAIN kept /\ place \in Places(DOMAIN kept)
          /\ DOMAIN kept \in SUBSET MemoryIds
      BY <1>1, <2>0
    <3>2. /\ base + r + 1 \in 1..(2 * dim * Cardinality(DOMAIN kept))
          /\ Repacked(kept, place)[base + r + 1] =
                IF r < dim THEN Slice(embeddings, kept[k].user, dim)[r + 1]
                           ELSE Slice(embeddings, kept[k].assist, dim)[r - dim + 1]
      BY <1>4, <3>1, RepackedAt
    <3> QED
      BY <1>1, <1>4, <2>0, <3>2
  <2>4. \A n \in 1..D : /\ Slice(embeddings, cache[k].user, D)[n] = <<k, "user", n>>
                        /\ Slice(embeddings, cache[k].assist, D)[n] = <<k, "assist", n>>
    <3>1. /\ cache[k].user \in Nat /\ cache[k].assist \in Nat /\ OwnFloats(k, D)
          /\ Len(embeddings) \in Nat
      BY <1>1, <2>0
    <3>2. \A n \in 1..D : /\ cache[k].user + n <= Len(embeddings)
                          /\ cache[k].assist + n <= Len(embeddings)
      BY <3>1 DEF OwnFloats
    <3> QED
      BY <3>1, <3>2 DEF Slice, OwnFloats
  <2>5. base \in Int /\ 2 * D * size \in Nat
    <3>1. place[k] \in Nat /\ size \in Nat
      BY <1>1, MemoriesFinite, PlaceOfOne
    <3> QED
      BY <2>0, <3>1 DEF PackedAt
  <2> HIDE DEF base
  <2>6. \A n \in 1..D : embeddings'[base + n] = <<k, "user", n>>
    <3> SUFFICES ASSUME NEW n \in 1..D
                 PROVE  embeddings'[base + n] = <<k, "user", n>>
      OBVIOUS
    <3>1. n - 1 \in 0..(2 * D - 1) /\ n - 1 < D /\ base + (n - 1) + 1 = base + n
          /\ n - 1 + 1 = n
      BY <2>5
    <3> QED
      BY <2>3, <2>4, <3>1
  <2>7. \A n \in 1..D : embeddings'[base + D + n] = <<k, "assist", n>>
    <3> SUFFICES ASSUME NEW n \in 1..D
                 PROVE  embeddings'[base + D + n] = <<k, "assist", n>>
      OBVIOUS
    <3>1. /\ D + n - 1 \in 0..(2 * D - 1) /\ ~(D + n - 1 < D)
          /\ base + (D + n - 1) + 1 = base + D + n /\ (D + n - 1) - D + 1 = n
      BY <2>5
    <3> QED
      BY <2>3, <2>4, <3>1
  <2>8. base + D + D <= 2 * D * size
    <3>1. 2 * D - 1 \in 0..(2 * D - 1) /\ base + (2 * D - 1) + 1 = base + D + D
      BY <2>5
    <3> QED
      BY <2>3, <2>5, <3>1
  <2> QED
    BY <2>1, <2>2, <2>5, <2>6, <2>7, <2>8 DEF OwnFloats
<1>5. \A k \in DOMAIN cache' : OwnFloats(k, D)'
  BY <1>2, <1>3, <1>4, Erased DEF left, kept
<1>6. dim = 0 => embeddings' = embeddings
  BY Erased
<1> QED
  BY <1>2, <1>5, <1>6

LEMMA OwnStep ==
    ASSUME NEW D \in Nat \ {0}, Dims = {D}, TypeOK, OwnInv(D), [Next]_vars
    PROVE  OwnInv(D)'
<1>0. /\ nextMemory \in Nat /\ DOMAIN cache \subseteq MemoryIds /\ DOMAIN rows \subseteq MemoryIds
      /\ rows \in [DOMAIN rows -> Dims] /\ model = D /\ loading \subseteq DOMAIN rows
      /\ \A k \in MemoryIds : k \in Nat
  BY DEF TypeOK, MemoryIds
<1>1. CASE Insert
  <2>1. /\ nextMemory \in MemoryIds /\ nextMemory' = nextMemory + 1
        /\ AppendEntry(nextMemory, D) /\ loading' = {}
        /\ DOMAIN rows' = DOMAIN rows \cup {nextMemory}
    BY <1>0, <1>1 DEF Insert, TypeOK, MemoryIds
  <2>2. nextMemory \notin DOMAIN cache
    BY <1>0 DEF OwnInv
  <2>3. (\A i \in DOMAIN cache' : OwnFloats(i, D)') /\ dim' # 0
    BY <2>1, <2>2, OwnAppended
  <2>4. DOMAIN cache' = DOMAIN cache \cup {nextMemory}
    BY <2>1 DEF AppendEntry
  <2>5. \A k \in DOMAIN cache' \cup DOMAIN rows' : k < nextMemory'
    BY <1>0, <2>1, <2>4 DEF OwnInv
  <2> QED
    BY <2>1, <2>3, <2>5 DEF OwnInv
<1>2. CASE \E S \in SUBSET MemoryIds : Erase(S)
  <2>1. PICK S \in SUBSET MemoryIds : Erase(S)
    BY <1>2
  <2>2. /\ EraseEntries(S) /\ loading' = {} /\ nextMemory' = nextMemory /\ dim' = dim
        /\ DOMAIN rows' \subseteq DOMAIN rows
    BY <2>1 DEF Erase, DeleteRows, Restrict
  <2>3. /\ DOMAIN cache' \subseteq DOMAIN cache
        /\ \A k \in DOMAIN cache' : OwnFloats(k, D)'
        /\ dim = 0 => embeddings' = embeddings
    BY <2>2, OwnErased
  <2> QED
    BY <2>2, <2>3 DEF OwnInv
<1>3. CASE \E S \in SUBSET MemoryIds : Purge(S)
  <2>1. PICK S \in SUBSET MemoryIds : Purge(S)
    BY <1>3
  <2>2. /\ DOMAIN cache' = DOMAIN cache /\ DOMAIN rows' \subseteq DOMAIN rows
        /\ UNCHANGED <<embeddings, dim, loading, nextMemory>>
        /\ \A k \in DOMAIN cache : cache'[k].user = cache[k].user
                                   /\ cache'[k].assist = cache[k].assist
    BY <2>1 DEF Purge, DeleteRows, Restrict, TypeOK, Entry
  <2>3. \A k \in DOMAIN cache' : OwnFloats(k, D)'
    <3> SUFFICES ASSUME NEW k \in DOMAIN cache
                 PROVE  OwnFloats(k, D)'
      BY <2>2
    <3>1. OwnFloats(k, D)
      BY DEF OwnInv
    <3> QED
      BY <2>2, <3>1 DEF OwnFloats
  <2> QED
    BY <2>2, <2>3 DEF OwnInv
<1>4. CASE \E m \in Dims : Reopen(m)
  BY <1>4 DEF Reopen, OwnInv
<1>5. CASE \E k \in MemoryIds : LoadRow(k)
  <2>1. PICK k \in MemoryIds : LoadRow(k)
    BY <1>5
  <2>2. /\ k \in loading /\ k \notin DOMAIN cache /\ loading' = loading \ {k}
        /\ AppendEntry(k, D) /\ rows' = rows /\ nextMemory' = nextMemory
    BY <1>0, <2>1 DEF LoadRow, OwnInv
  <2>3. (\A i \in DOMAIN cache' : OwnFloats(i, D)') /\ dim' # 0
    BY <2>2, OwnAppended
  <2>4. DOMAIN cache' = DOMAIN cache \cup {k} /\ k \in DOMAIN rows
    BY <1>0, <2>2 DEF AppendEntry
  <2> QED
    BY <2>2, <2>3, <2>4 DEF OwnInv
<1>6. CASE UNCHANGED vars
  BY <1>6 DEF vars, OwnInv, OwnFloats
<1> QED
  BY <1>1, <1>2, <1>3, <1>4, <1>5, <1>6 DEF Next

(* What a reader finds at the offsets is the memories' own vectors. *)
LEMMA Served ==
    ASSUME NEW D \in Nat \ {0}, Dims = {D}, TypeOK, OwnInv(D)
    PROVE  ServedVectors = [k \in DOMAIN cache |-> OwnVectors[k]]
<1>1. TheDim = D /\ model = D /\ embeddings \in Seq(AnyFloat)
  BY DEF TheDim, TypeOK, AnyFloat
<1>2. ASSUME NEW k \in DOMAIN cache
      PROVE  /\ Slice(embeddings, cache[k].user, model) = Vector(k, "user", TheDim)
             /\ Slice(embeddings, cache[k].assist, model) = Vector(k, "assist", TheDim)
  <2>1. /\ cache[k].user \in Nat /\ cache[k].assist \in Nat /\ OwnFloats(k, D)
        /\ Len(embeddings) \in Nat
    BY <1>1 DEF TypeOK, Entry, OwnInv
  <2>2. \A n \in 1..D : /\ cache[k].user + n <= Len(embeddings)
                        /\ cache[k].assist + n <= Len(embeddings)
    BY <2>1 DEF OwnFloats
  <2> QED
    BY <1>1, <2>1, <2>2 DEF Slice, Vector, OwnFloats
<1>3. DOMAIN cache \subseteq MemoryIds
  BY DEF TypeOK
<1> QED
  BY <1>2, <1>3 DEF ServedVectors, OwnVectors

(* With one embedding model the flat array implements the map: whatever is
   inserted, deleted, purged, recompacted or reloaded, a memory's entry leads
   to its two vectors. *)
THEOREM ArrayIsVectorMap ==
    ASSUME NEW D \in Nat \ {0}, Dims = {D}
    PROVE  Spec => IsVectorMap
<1>1. Init => Map!Init
  BY DEF Init, Map!Init, ServedVectors
<1>2. TypeOK /\ OwnInv(D) => ServedVectors = [k \in DOMAIN cache |-> OwnVectors[k]]
  BY Served
<1>3. TypeOK' /\ OwnInv(D)' => ServedVectors' = [k \in DOMAIN cache' |-> OwnVectors[k]]
  <2>1. (TypeOK /\ OwnInv(D) => ServedVectors = [k \in DOMAIN cache |-> OwnVectors[k]])'
    BY <1>2, PTL
  <2> QED
    BY <2>1
<1>4. ASSUME TypeOK, TypeOK', OwnInv(D), OwnInv(D)', [Next]_vars
      PROVE  [Map!Next]_ServedVectors
  <2> DEFINE own(S) == [k \in S |-> OwnVectors[k]]
  <2>0. ServedVectors = own(DOMAIN cache) /\ ServedVectors' = own(DOMAIN cache')
    BY <1>2, <1>3, <1>4
  <2>1. ASSUME NEW k \in MemoryIds \ DOMAIN cache, AppendEntry(k, D)
        PROVE  Map!Next
    <3>1. DOMAIN cache' = DOMAIN cache \cup {k}
      BY <2>1 DEF AppendEntry
    <3>2. Map!Add(k)
      BY <2>0, <3>1 DEF Map!Add
    <3> QED
      BY <2>0, <3>2 DEF Map!Next
  <2>2. ASSUME DOMAIN cache' \subseteq DOMAIN cache
        PROVE  Map!Next
    <3> DEFINE gone == DOMAIN cache \ DOMAIN cache'
    <3>1. DOMAIN cache \ gone = DOMAIN cache'
      BY <2>2
    <3>2. Map!Forget(gone)
      BY <2>0, <3>1 DEF Map!Forget, Map!Restrict
    <3>3. gone \in SUBSET DOMAIN ServedVectors
      BY <2>0
    <3> QED
      BY <3>2, <3>3 DEF Map!Next
  <2>3. CASE Insert
    <3>1. nextMemory \in MemoryIds \ DOMAIN cache
      BY <1>4, <2>3 DEF Insert, OwnInv, TypeOK, MemoryIds
    <3>2. AppendEntry(nextMemory, D)
      BY <1>4, <2>3 DEF Insert, TypeOK
    <3> QED
      BY <2>1, <3>1, <3>2
  <2>4. CASE \E S \in SUBSET MemoryIds : Erase(S)
    <3>1. PICK S \in SUBSET MemoryIds : Erase(S)
      BY <2>4
    <3> QED
      BY <1>4, <2>2, <3>1, OwnErased DEF Erase
  <2>5. CASE \E S \in SUBSET MemoryIds : Purge(S)
    BY <2>2, <2>5 DEF Purge
  <2>6. CASE \E m \in Dims : Reopen(m)
    BY <2>2, <2>6 DEF Reopen
  <2>7. CASE \E k \in MemoryIds : LoadRow(k)
    <3>1. PICK k \in MemoryIds : LoadRow(k)
      BY <2>7
    <3>2. k \in MemoryIds \ DOMAIN cache /\ AppendEntry(k, D)
      BY <1>4, <3>1 DEF LoadRow, OwnInv, TypeOK
    <3> QED
      BY <2>1, <3>2
  <2>8. CASE UNCHANGED vars
    BY <2>2, <2>8 DEF vars
  <2> QED
    BY <1>4, <2>3, <2>4, <2>5, <2>6, <2>7, <2>8 DEF Next
<1>5. Spec => [](TypeOK /\ OwnInv(D))
  <2>1. TypeOK /\ OwnInv(D) /\ [Next]_vars => OwnInv(D)'
    BY OwnStep
  <2>2. Init => OwnInv(D)
    BY OwnInit
  <2> QED
    BY <2>1, <2>2, IndexTypeCorrect, PTL DEF Spec
<1> QED
  BY <1>1, <1>4, <1>5, PTL DEF Spec, IsVectorMap, Map!Spec

-----------------------------------------------------------------------------
(* Waste *)

(* Floats of the array that are no live entry's.  holes_count_ never counts
   fewer (the purge makes it count more), which is why looking at it is enough
   to keep the waste below the limit. *)
Waste(D) == Len(embeddings) - 2 * D * Cardinality(DOMAIN cache)

WasteInv(D) ==
    /\ \A k \in DOMAIN cache : cache[k].id \in {k, Hole}
    /\ Waste(D) <= 2 * D * holes
    /\ Waste(D) <= Threshold

LEMMA WasteTypes ==
    ASSUME NEW D \in Nat \ {0}, Dims = {D}, TypeOK
    PROVE  /\ Len(embeddings) \in Nat /\ holes \in Nat /\ Threshold \in Nat
           /\ Cardinality(DOMAIN cache) \in Nat /\ IsFiniteSet(DOMAIN cache)
           /\ Waste(D) \in Int
<1>1. Len(embeddings) \in Nat /\ holes \in Nat /\ Threshold \in Nat
  BY IndexAssumption DEF TypeOK
<1>2. Cardinality(DOMAIN cache) \in Nat /\ IsFiniteSet(DOMAIN cache)
  BY MemoriesFinite DEF TypeOK
<1> QED
  BY <1>1, <1>2 DEF Waste

LEMMA WasteAppended ==
    ASSUME NEW D \in Nat \ {0}, Dims = {D}, TypeOK, WasteInv(D),
           NEW k \in MemoryIds, k \notin DOMAIN cache, AppendEntry(k, D),
           holes' = holes
    PROVE  WasteInv(D)'
<1>1. D \in Dims /\ Hole \notin MemoryIds
  BY DEF Hole, MemoryIds
<1>2. /\ DOMAIN cache' = DOMAIN cache \cup {k}
      /\ \A i \in DOMAIN cache : i # k => cache'[i] = cache[i]
      /\ cache'[k] = [id |-> k, user |-> Len(embeddings),
                      assist |-> Len(embeddings) + D]
      /\ Len(embeddings') = Len(embeddings) + 2 * D
  BY <1>1, Appended
<1>3. \A i \in DOMAIN cache' : cache'[i].id \in {i, Hole}
  BY <1>2 DEF WasteInv
<1>4. Cardinality(DOMAIN cache') = Cardinality(DOMAIN cache) + 1
  BY <1>2, WasteTypes, FS_AddElement
<1>5. Waste(D)' = Waste(D)
  <2> DEFINE l == Len(embeddings)
             c == Cardinality(DOMAIN cache)
  <2>1. l \in Nat /\ c \in Nat
    BY WasteTypes
  <2>2. Waste(D) = l - 2 * D * c /\ Waste(D)' = (l + 2 * D) - 2 * D * (c + 1)
    BY <1>2, <1>4 DEF Waste
  <2> HIDE DEF l, c
  <2> QED
    BY <2>1, <2>2
<1> QED
  BY <1>3, <1>5 DEF WasteInv

LEMMA WasteErased ==
    ASSUME NEW D \in Nat \ {0}, Dims = {D}, TypeOK, OwnInv(D), WasteInv(D),
           NEW S \in SUBSET MemoryIds, EraseEntries(S)
    PROVE  WasteInv(D)'
<1> DEFINE left == {k \in DOMAIN cache : cache[k].id \notin S}
           kept == Restrict(cache, left)
           all == Cardinality(DOMAIN cache)
           some == Cardinality(left)
           n == holes + Cardinality(S)
<1>2. DOMAIN cache' = left /\ \A k \in left : cache'[k].id = cache[k].id
  BY Erased
<1>1. \A k \in DOMAIN cache' : cache'[k].id \in {k, Hole}
  BY <1>2 DEF WasteInv
<1>3. /\ some \in Nat /\ all \in Nat /\ Cardinality(S) \in Nat /\ n \in Nat
      /\ all - some <= Cardinality(S)
  <2>1. IsFiniteSet(DOMAIN cache) /\ IsFiniteSet(S) /\ Cardinality(S) \in Nat
    BY WasteTypes, MemoriesFinite
  <2>2. DOMAIN cache \ left \subseteq S
    BY DEF WasteInv, Hole, MemoryIds
  <2>3. /\ IsFiniteSet(left) /\ some \in Nat
        /\ IsFiniteSet(DOMAIN cache \ left)
        /\ Cardinality(DOMAIN cache \ left) \in Nat
        /\ Cardinality(DOMAIN cache \ left) <= Cardinality(S)
    BY <2>1, <2>2, FS_Subset, FS_CardinalityType
  <2>4. Cardinality(DOMAIN cache \ left) = all - Cardinality(DOMAIN cache \cap left)
    BY <2>1, <2>3, FS_Difference
  <2>5. DOMAIN cache \cap left = left
    OBVIOUS
  <2>6. holes \in Nat /\ all \in Nat
    BY WasteTypes
  <2>7. all - some <= Cardinality(S)
    BY <2>3, <2>4, <2>5
  <2> HIDE DEF all, some, left
  <2> QED
    BY <2>1, <2>3, <2>6, <2>7
<1>4. ASSUME NEW place \in Places(left), dim \in Nat \ {0}, holes' = 0,
             cache' = RepackedEntries(kept, place), embeddings' = Repacked(kept, place)
      PROVE  Waste(D)' <= 2 * D * holes' /\ Waste(D)' <= Threshold
  <2>1. dim = D /\ embeddings \in Seq(AnyFloat)
    BY <1>4 DEF TypeOK, AnyFloat
  <2>2. /\ DOMAIN kept = left /\ left \in SUBSET MemoryIds
        /\ \A k \in left : kept[k].user \in Nat /\ kept[k].assist \in Nat
    BY DEF Restrict, TypeOK, Entry
  <2>3. Len(embeddings') = 2 * D * some
    BY <1>4, <2>1, <2>2, RepackedType
  <2>4. Waste(D)' = 0
    BY <1>2, <1>3, <2>3 DEF Waste
  <2> QED
    BY <1>4, <2>4, WasteTypes
<1>5. ASSUME cache' = kept, embeddings' = embeddings, holes' = n,
             ~ShouldRecompact(n, left)
      PROVE  Waste(D)' <= 2 * D * holes' /\ Waste(D)' <= Threshold
  <2>1. Waste(D)' = Len(embeddings) - 2 * D * some
    BY <1>2, <1>5 DEF Waste
  <2>2. Waste(D)' <= 2 * D * n
    <3>1. Waste(D)' = Waste(D) + 2 * D * (all - some)
      BY <1>3, <2>1, WasteTypes DEF Waste
    <3>2. 2 * D * (all - some) <= 2 * D * Cardinality(S)
      BY <1>3
    <3>3. Waste(D) <= 2 * D * holes
      BY DEF WasteInv
    <3> QED
      BY <1>3, <3>1, <3>2, <3>3, WasteTypes
  <2>3. CASE dim = 0
    <3>1. embeddings = <<>>
      BY <2>3 DEF OwnInv
    <3>2. Waste(D)' <= 0
      BY <1>3, <2>1, <3>1
    <3> QED
      BY <1>3, <1>5, <2>1, <2>2, <3>2, WasteTypes
  <2>4. CASE n = 0
    BY <1>3, <1>5, <2>1, <2>2, <2>4, WasteTypes
  <2>5. CASE dim # 0 /\ n # 0
    <3>1. dim = D /\ ~(2 * D * n >= Threshold)
      BY <1>5, <2>5 DEF ShouldRecompact, TypeOK
    <3> QED
      BY <1>3, <1>5, <2>1, <2>2, <3>1, WasteTypes
  <2> QED
    BY <2>3, <2>4, <2>5
<1>6. Waste(D)' <= 2 * D * holes' /\ Waste(D)' <= Threshold
  BY <1>4, <1>5, Erased
<1> QED
  BY <1>1, <1>6 DEF WasteInv

LEMMA WasteStep ==
    ASSUME NEW D \in Nat \ {0}, Dims = {D}, TypeOK, TypeOK', OwnInv(D),
           WasteInv(D), [Next]_vars
    PROVE  WasteInv(D)'
<1>1. CASE Insert
  <2>1. nextMemory \in MemoryIds /\ nextMemory \notin DOMAIN cache
    BY <1>1 DEF Insert, OwnInv, TypeOK, MemoryIds
  <2>2. AppendEntry(nextMemory, D) /\ holes' = holes
    BY <1>1 DEF Insert, TypeOK
  <2> QED
    BY <2>1, <2>2, WasteAppended
<1>2. CASE \E S \in SUBSET MemoryIds : Erase(S)
  <2>1. PICK S \in SUBSET MemoryIds : Erase(S)
    BY <1>2
  <2> QED
    BY <2>1, WasteErased DEF Erase
<1>3. CASE \E S \in SUBSET MemoryIds : Purge(S)
  <2>1. PICK S \in SUBSET MemoryIds : Purge(S)
    BY <1>3
  <2> DEFINE purged == {k \in DOMAIN cache : cache[k].id \in S}
  <2>2. /\ DOMAIN cache' = DOMAIN cache /\ embeddings' = embeddings
        /\ holes' = holes + Cardinality(purged)
        /\ \A k \in DOMAIN cache : cache'[k].id \in {cache[k].id, Hole}
    BY <2>1 DEF Purge, TypeOK, Entry
  <2>3. Waste(D)' = Waste(D) /\ \A k \in DOMAIN cache' : cache'[k].id \in {k, Hole}
    BY <2>2 DEF Waste, WasteInv
  <2>4. Cardinality(purged) \in Nat
    BY MemoriesFinite DEF TypeOK
  <2>5. holes \in Nat /\ holes' \in Nat /\ holes <= holes' /\ Waste(D) \in Int
    BY <2>2, <2>4, WasteTypes
  <2> HIDE DEF purged
  <2>6. 2 * D * holes <= 2 * D * holes'
    BY <2>5, MultiplesGrow
  <2> QED
    BY <2>3, <2>5, <2>6 DEF WasteInv
<1>4. CASE \E m \in Dims : Reopen(m)
  <2>1. DOMAIN cache' = {} /\ embeddings' = <<>> /\ holes' = 0
    BY <1>4 DEF Reopen
  <2>2. Waste(D)' = 0
    BY <2>1, FS_EmptySet DEF Waste
  <2> QED
    BY <2>1, <2>2, WasteTypes DEF WasteInv
<1>5. CASE \E k \in MemoryIds : LoadRow(k)
  <2>1. PICK k \in MemoryIds : LoadRow(k)
    BY <1>5
  <2>2. k \notin DOMAIN cache /\ AppendEntry(k, D) /\ holes' = holes
    BY <2>1 DEF LoadRow, OwnInv, TypeOK
  <2> QED
    BY <2>2, WasteAppended
<1>6. CASE UNCHANGED vars
  BY <1>6 DEF vars, WasteInv, Waste
<1> QED
  BY <1>1, <1>2, <1>3, <1>4, <1>5, <1>6 DEF Next

(* With one model, what the array holds for nobody stays below the 4 MB at
   which it is recompacted, although the purge and an emptied cache leave
   recompaction undone. *)
THEOREM WasteBoundedEver ==
    ASSUME NEW D \in Nat \ {0}, Dims = {D}
    PROVE  Spec => []WasteBounded
<1>1. Init => WasteInv(D)
  <2> SUFFICES ASSUME Init PROVE WasteInv(D)
    OBVIOUS
  <2>1. DOMAIN cache = {} /\ embeddings = <<>> /\ holes = 0 /\ Threshold \in Nat
    BY IndexAssumption DEF Init
  <2>2. Waste(D) = 0
    BY <2>1, FS_EmptySet DEF Waste
  <2> QED
    BY <2>1, <2>2 DEF WasteInv
<1>2. Init => OwnInv(D)
  BY OwnInit
<1>3. TypeOK /\ OwnInv(D) /\ [Next]_vars => OwnInv(D)'
  BY OwnStep
<1>4. TypeOK /\ TypeOK' /\ OwnInv(D) /\ WasteInv(D) /\ [Next]_vars => WasteInv(D)'
  BY WasteStep
<1>5. TypeOK /\ WasteInv(D) => WasteBounded
  BY DEF TypeOK, WasteInv, Waste, WasteBounded
<1> QED
  BY <1>1, <1>2, <1>3, <1>4, <1>5, IndexTypeCorrect, PTL DEF Spec
=============================================================================
