----------------------------- MODULE VectorIndex -----------------------------
(***************************************************************************)
(* The flat array of embeddings under the RAM cache.  A cache entry has    *)
(* the offsets of its two vectors in embeddings_; deletions leave holes,   *)
(* and recompaction copies the live vectors to a new array and moves the   *)
(* offsets.  All of it is under cache_mutex_, so the part an operation     *)
(* plays here is one step (module MemoryStore has its steps on the tables  *)
(* and what is read between them).  As there, entries are keyed by the     *)
(* memory they were built from, whose order is the order in the vector.    *)
(*                                                                         *)
(* A float is named by what it is: the memory, the side, the position in   *)
(* its vector.  The length of a vector is the embedding model's, and a     *)
(* database may be opened with a model of another length.                  *)
(***************************************************************************)
EXTENDS Integers, FiniteSets, Sequences, Functions

CONSTANTS
    Dims,          \* embedding lengths of the models in use
    Threshold,     \* floats in 4 MB
    Ttl,           \* memory_ttl_days, 0 for off
    MaxMemory      \* bound: memories ever inserted

Hole == -1
Garbage == <<0, "none", 0>>   \* read past the end of the array
MemoryIds == 1..MaxMemory

ASSUME IndexAssumption ==
    /\ Dims \subseteq Nat \ {0} /\ Dims # {}
    /\ {Threshold, Ttl, MaxMemory} \subseteq Nat

VARIABLES
    rows,          \* memories in the table: id -> length of its vectors
    cache,         \* cache_: memory -> [id, user, assist], offsets from 0
    embeddings,    \* embeddings_
    dim,           \* emb_dim_, 0 before the first vector
    holes,         \* holes_count_
    model,         \* the length the running model gives
    loading,       \* rows load_cache has not come to
    nextMemory

vars == <<rows, cache, embeddings, dim, holes, model, loading, nextMemory>>

Vector(k, side, d) == [n \in 1..d |-> <<k, side, n>>]
Both(k, d) == Vector(k, "user", d) \o Vector(k, "assist", d)
Float == MemoryIds \X {"user", "assist"} \X Nat
Entry == [id : MemoryIds \cup {Hole}, user : Nat, assist : Nat]

TypeOK ==
    /\ DOMAIN rows \subseteq MemoryIds /\ rows \in [DOMAIN rows -> Dims]
    /\ DOMAIN cache \subseteq MemoryIds /\ cache \in [DOMAIN cache -> Entry]
    /\ embeddings \in Seq(Float \cup {Garbage})
    /\ dim \in Dims \cup {0}
    /\ holes \in Nat
    /\ model \in Dims
    /\ loading \subseteq DOMAIN rows
    /\ nextMemory \in 1..(MaxMemory + 1)

-----------------------------------------------------------------------------
(* Reading d floats at an offset *)
Slice(floats, offset, d) ==
    [n \in 1..d |-> IF offset + n <= Len(floats) THEN floats[offset + n] ELSE Garbage]

(* The places of S in the vector: 1 for the first, and so on. *)
Places(S) == {place \in [S -> 1..Cardinality(S)] :
                \A i, j \in S : i < j => place[i] < place[j]}

(* Recompaction: 2 * dim floats for each entry in its place. *)
PackedAt(place) == 2 * dim * (place - 1)

RepackedEntries(entries, place) ==
    [k \in DOMAIN entries |->
       [entries[k] EXCEPT !.user = PackedAt(place[k]),
                          !.assist = PackedAt(place[k]) + dim]]

(* Mutant: the second vector is copied from the first one's offset. *)
RepackedUserTwice(entries, place) ==
    [n \in 1..(2 * dim * Cardinality(DOMAIN entries)) |->
       LET k == CHOOSE i \in DOMAIN entries : place[i] = (n - 1) \div (2 * dim) + 1
       IN  Slice(embeddings, entries[k].user, dim)[((n - 1) % dim) + 1]]

Repacked(entries, place) ==
    [n \in 1..(2 * dim * Cardinality(DOMAIN entries)) |->
       LET k == CHOOSE i \in DOMAIN entries : place[i] = (n - 1) \div (2 * dim) + 1
           r == (n - 1) % (2 * dim)
       IN  IF r < dim THEN Slice(embeddings, entries[k].user, dim)[r + 1]
                      ELSE Slice(embeddings, entries[k].assist, dim)[r - dim + 1]]

(* Mutant: the limits are looked at before the new holes are counted. *)
ShouldRecompactLate(n, left) ==
    /\ dim # 0 /\ holes # 0
    /\ \/ 2 * dim * holes >= Threshold
       \/ left # {} /\ holes > Cardinality(left) \div 4

ShouldRecompact(n, left) ==
    /\ dim # 0 /\ n # 0
    /\ \/ 2 * dim * n >= Threshold
       \/ left # {} /\ n > Cardinality(left) \div 4

(* The end of evict and of remove: entries leave cache_, the number of deleted
   memories is added to the holes, and the array may be recompacted. *)
EraseEntries(S) ==
    LET left == {k \in DOMAIN cache : cache[k].id \notin S}
        n == holes + Cardinality(S)
    IN  IF ShouldRecompact(n, left)
        THEN /\ \E place \in Places(left) :
                  /\ cache' = RepackedEntries(Restrict(cache, left), place)
                  /\ embeddings' = Repacked(Restrict(cache, left), place)
             /\ holes' = 0
        ELSE /\ cache' = Restrict(cache, left)
             /\ holes' = n
             /\ UNCHANGED embeddings

(* What add_to_cache and load_cache do for one memory. *)
AppendEntry(k, d) ==
    /\ cache' = [i \in DOMAIN cache \cup {k} |->
                   IF i = k THEN [id |-> k, user |-> Len(embeddings),
                                  assist |-> Len(embeddings) + d]
                            ELSE cache[i]]
    /\ embeddings' = embeddings \o Both(k, d)
    /\ dim' = IF dim = 0 THEN d ELSE dim

DeleteRows(S) ==
    /\ loading = {}
    /\ S # {} /\ S \subseteq DOMAIN rows
    /\ rows' = Restrict(rows, DOMAIN rows \ S)

-----------------------------------------------------------------------------

Insert ==
    /\ loading = {}
    /\ nextMemory <= MaxMemory
    /\ rows' = [k \in DOMAIN rows \cup {nextMemory} |->
                  IF k = nextMemory THEN model ELSE rows[k]]
    /\ AppendEntry(nextMemory, model)
    /\ nextMemory' = nextMemory + 1
    /\ UNCHANGED <<holes, model, loading>>

(* evict takes several, remove takes one. *)
Erase(S) ==
    /\ DeleteRows(S)
    /\ EraseEntries(S)
    /\ UNCHANGED <<dim, model, loading, nextMemory>>

(* purge_expired: the entries stay, and so do their vectors. *)
Purge(S) ==
    /\ Ttl > 0
    /\ DeleteRows(S)
    /\ cache' = [k \in DOMAIN cache |->
                   IF cache[k].id \in S THEN [cache[k] EXCEPT !.id = Hole]
                                        ELSE cache[k]]
    /\ holes' = holes + Cardinality({k \in DOMAIN cache : cache[k].id \in S})
    /\ UNCHANGED <<embeddings, dim, model, loading, nextMemory>>

(* A new process, perhaps with another model, reads the rows in order of id. *)
Reopen(m) ==
    /\ cache' = [k \in {} |-> k] /\ embeddings' = <<>>
    /\ dim' = 0 /\ holes' = 0
    /\ model' = m
    /\ loading' = DOMAIN rows
    /\ UNCHANGED <<rows, nextMemory>>

LoadRow(k) ==
    /\ k \in loading /\ \A j \in loading : k <= j
    /\ AppendEntry(k, rows[k])
    /\ loading' = loading \ {k}
    /\ UNCHANGED <<rows, holes, model, nextMemory>>

Init ==
    /\ rows = [k \in {} |-> k] /\ cache = [k \in {} |-> k]
    /\ embeddings = <<>>
    /\ dim = 0 /\ holes = 0
    /\ model \in Dims
    /\ loading = {}
    /\ nextMemory = 1

Next ==
    \/ Insert
    \/ \E S \in SUBSET MemoryIds : Erase(S) \/ Purge(S)
    \/ \E m \in Dims : Reopen(m)
    \/ \E k \in MemoryIds : LoadRow(k)

Spec == Init /\ [][Next]_vars

-----------------------------------------------------------------------------
(* Properties *)

TheDim == CHOOSE d \in Dims : TRUE

(* The map the array stands for: what a reader finds at an entry's offsets. *)
ServedVectors ==
    [k \in DOMAIN cache |-> <<Slice(embeddings, cache[k].user, model),
                              Slice(embeddings, cache[k].assist, model)>>]

OwnVectors ==
    [k \in MemoryIds |-> <<Vector(k, "user", TheDim), Vector(k, "assist", TheDim)>>]

Map == INSTANCE VectorMap WITH
         Memories <- MemoryIds, Vectors <- OwnVectors, map <- ServedVectors

(* With one model the array implements the map: appending, deleting, purging,
   recompacting and reloading leave every other memory's two vectors what
   they were, wherever in the array they have moved to. *)
IsVectorMap == Map!Spec

(* The vectors nobody refers to any more never add up to the 4 MB at which
   the array is recompacted, however deletions, purges and inserts follow each
   other, and although an emptied cache is no occasion to recompact. *)
WasteBounded ==
    Len(embeddings) - 2 * model * Cardinality(DOMAIN cache) <= Threshold

(* What the source says and the code does not do; refuted by a run.

   find_duplicate's "Check dimension matches": the vector of an entry that
   passes the check is its memory's own. *)
CheckedVectorsAreOwn ==
    \A k \in DOMAIN cache :
      cache[k].assist - cache[k].user = model =>
        Slice(embeddings, cache[k].user, model) = Vector(k, "user", model)

=============================================================================
