------------------------ MODULE HybridSearchProofs ------------------------
(***************************************************************************)
(* What a search returns, for every value of the constants.                *)
(*                                                                         *)
(* A search only reads, so every behaviour of HybridSearch is one of       *)
(* MemoryStore and the theorems about the store hold in it.  SearchInv     *)
(* says what the rankings in hand still mean while the store changes.      *)
(* What the rankings agree on holds of the fused answer whatever they say. *)
(***************************************************************************)
EXTENDS HybridSearch, MemoryStoreProofs

LEMMA StoreSteps == [SearchNext]_searchVars => [Next]_vars
<1> SUFFICES ASSUME [SearchNext]_searchVars PROVE [Next]_vars
  OBVIOUS
<1>1. CASE Write
  BY <1>1 DEF Write, Next, RestartStep
<1>2. CASE Die \/ Midnight
  BY <1>2 DEF Die, Midnight, Next, RestartStep
<1>3. CASE ~(Write \/ Die \/ Midnight)
  BY <1>3 DEF SearchNext, searchVars, PlainSearch, DenseSearch, LexicalQuery,
              Fuse, Deliver
<1> QED
  BY <1>1, <1>2, <1>3

(* The store is the store of MemoryStore, whatever is searched meanwhile. *)
THEOREM SearchOnlyReads == SearchSpec => Spec
<1>1. SearchInit => Init
  BY DEF SearchInit
<1> QED
  BY <1>1, StoreSteps, PTL DEF SearchSpec, Spec

StoreInv == TypeInv /\ OpInv /\ TableInv /\ CacheInv

LEMMA StoreAlways == SearchSpec => []StoreInv
<1>1. Spec => []StoreInv
  BY CacheAlways DEF StoreInv
<1> QED
  BY <1>1, SearchOnlyReads, PTL

-----------------------------------------------------------------------------
Stages == {"idle", "dense", "lexical", "fused", "done"}
Locked == query.at \in {"lexical", "fused"}

(* The call holds the store still; its ids were live when it began or are rows
   now; what it copied is of namespaces its caller sees. *)
SearchInv ==
    /\ query.at \in Stages
    /\ query.at = "dense" \/ Locked =>
         \A r \in DOMAIN query.dense :
           /\ Visible(query.agent, query.dense[r].agent)
           /\ query.dense[r].id \notin query.gone
    /\ Locked =>
         /\ pc = "idle"
         /\ \A r \in DOMAIN query.lexical :
              /\ query.lexical[r] \in DOMAIN memories
              /\ Visible(query.agent, memories[query.lexical[r]].agent)
    /\ query.gone \cap DOMAIN memories = {}
    /\ query.gone \subseteq 1..(nextMemory - 1)
    /\ DOMAIN query.dense \subseteq Nat \ {0}

LEMMA RankedFromSet ==
    ASSUME NEW S, NEW n \in Nat, NEW s \in Rankings(S, n)
    PROVE  /\ \A r \in DOMAIN s : s[r] \in S
           /\ DOMAIN s \subseteq Nat \ {0}
           /\ \A q, r \in DOMAIN s : s[q] = s[r] => q = r
BY DEF Rankings, IsInjective

(* What the cache has under an id is what the dense ranking may copy. *)
LEMMA CopiesAreCurrent ==
    ASSUME StoreInv, Running, NEW a, NEW n \in Nat, NEW s \in DenseRankings(a, n)
    PROVE  \A r \in DOMAIN s : Visible(a, s[r].agent) /\ s[r].id \notin Gone
<1> SUFFICES ASSUME NEW r \in DOMAIN s
             PROVE  Visible(a, s[r].agent) /\ s[r].id \notin Gone
  OBVIOUS
<1>1. PICK k \in Readable(a) : s[r] = Copy(k)
  BY RankedFromSet DEF DenseRankings
<1>2. cache[k].id \notin Gone
  <2>1. CASE cache[k].id = Hole
    BY <2>1 DEF Gone, Hole, StoreInv, TypeInv, TypeOK
  <2>2. CASE cache[k].id # Hole
    BY <1>1, <2>2 DEF StoreInv, CacheInv, EntriesInv, ServedInv, LiveIds, Gone,
                      Readable
  <2> QED
    BY <2>1, <2>2
<1> QED
  BY <1>1, <1>2 DEF Copy, Readable

-----------------------------------------------------------------------------
(* The second look at the cache *)

LEMMA LexicalEntry ==
    ASSUME StoreInv, SearchInv, Locked, NEW id \in LexicalIds
    PROVE  /\ id \in DOMAIN memories
           /\ id # Hole
           /\ Cached(id) = {id}
           /\ Visible(query.agent, cache[id].agent)
<1>1. /\ id \in DOMAIN memories
      /\ Visible(query.agent, memories[id].agent)
  BY DEF LexicalIds, SearchInv
<1>2. id # Hole
  BY <1>1, HoleIsNoId DEF StoreInv, TypeInv, TypeOK, IsTable
<1>3. CacheCoherent
  BY CoherentBetweenOperations DEF StoreInv
<1>4. id \in LiveIds /\ cache[id].agent = memories[id].agent
  BY <1>1, <1>3 DEF CacheCoherent, SearchInv
<1>5. Cached(id) = {id}
  BY <1>2, <1>3, <1>4 DEF Cached, LiveIds, CacheCoherent, SearchInv
<1> QED
  BY <1>1, <1>2, <1>4, <1>5

LEMMA FusedItems ==
    ASSUME StoreInv, SearchInv, query.at = "lexical"
    PROVE  /\ \A x \in ById : Visible(query.agent, x.agent) /\ x.id \notin query.gone
           /\ \A x, y \in ById : x.id = y.id => x = y
<1> DEFINE Copied == {Copy(k) : k \in UNION {Cached(id) :
                                             id \in LexicalIds \ DenseIds}}
<1>1. \A x \in Copied :
        /\ x.id \in LexicalIds \ DenseIds
        /\ x = Copy(x.id)
        /\ Visible(query.agent, x.agent)
        /\ x.id \notin query.gone
  <2> SUFFICES ASSUME NEW id \in LexicalIds \ DenseIds, NEW k \in Cached(id)
               PROVE  /\ Copy(k).id = id
                      /\ k = id
                      /\ Visible(query.agent, Copy(k).agent)
                      /\ id \notin query.gone
    OBVIOUS
  <2>1. k = id
    BY LexicalEntry DEF Locked
  <2>2. cache[k].id = id
    BY DEF Cached
  <2>3. id \in DOMAIN memories /\ Visible(query.agent, cache[id].agent)
    BY LexicalEntry DEF Locked
  <2> QED
    BY <2>1, <2>2, <2>3 DEF Copy, SearchInv
<1>2. \A r \in FirstRanks : /\ query.dense[r].id \in DenseIds
                            /\ Visible(query.agent, query.dense[r].agent)
                            /\ query.dense[r].id \notin query.gone
  BY DEF FirstRanks, DenseIds, SearchInv, Locked
<1>3. \A q, r \in FirstRanks : query.dense[q].id = query.dense[r].id => q = r
  <2> SUFFICES ASSUME NEW q \in FirstRanks, NEW r \in FirstRanks, q < r
               PROVE  query.dense[q].id # query.dense[r].id
    BY DEF FirstRanks, SearchInv
  <2>1. q \in 1..(r - 1)
    BY DEF FirstRanks, SearchInv
  <2> QED
    BY <2>1 DEF FirstRanks
<1> HIDE DEF Copied
<1>4. ById = {query.dense[r] : r \in FirstRanks} \cup Copied
  BY DEF ById, Copied
<1>5. \A x \in ById : Visible(query.agent, x.agent) /\ x.id \notin query.gone
  BY <1>1, <1>2, <1>4
<1>6. ASSUME NEW x \in ById, NEW y \in ById, x.id = y.id PROVE x = y
  <2>1. CASE x \in Copied /\ y \in Copied
    BY <1>1, <1>6, <2>1
  <2>2. CASE x \notin Copied /\ y \notin Copied
    BY <1>3, <1>4, <1>6, <2>2
  <2>3. CASE (x \in Copied) # (y \in Copied)
    BY <1>1, <1>2, <1>4, <1>6, <2>3
  <2> QED
    BY <2>1, <2>2, <2>3
<1> QED
  BY <1>5, <1>6

-----------------------------------------------------------------------------
(* The invariant, and what an answer holds *)

IInv == SearchInv /\ ResultsWereThere /\ ResultIsOwn

LEMMA SearchInvInit == SearchInit => IInv
BY DEF SearchInit, IInv, SearchInv, ResultsWereThere, ResultIsOwn, NoQuery, Init,
       Stages, Locked, Answered

(* Nothing the store does, and no death, spoils what a search has in hand. *)
LEMMA SearchInvStore ==
    ASSUME StoreInv, IInv, Write \/ Die \/ Midnight
    PROVE  IInv'
<1> USE DEF IInv, SearchInv, ResultsWereThere, ResultIsOwn, Locked, Answered
<1>1. CASE Die
  <2>1. nextMemory' = nextMemory /\ query' = NoQuery
    BY <1>1 DEF Die, Crash, tables
  <2> QED
    BY <2>1 DEF NoQuery, Stages
<1>2. CASE Midnight
  BY <1>2 DEF Midnight, DayPasses, tables, op
<1>3. CASE Write
  <2>1. query' = query /\ ~Locked
    BY <1>3 DEF Write, LockFree
  <2>2. DOMAIN memories' \subseteq DOMAIN memories \cup {nextMemory}
    BY <1>3, NewRows DEF Write, Next, RestartStep, StoreInv
  <2>3. nextMemory \in Nat /\ nextMemory' \in Nat /\ nextMemory <= nextMemory'
    BY <1>3, NewRows DEF Write, Next, RestartStep, StoreInv, TypeInv, TypeOK
  <2> QED
    BY <2>1, <2>2, <2>3
<1> QED
  BY <1>1, <1>2, <1>3

LEMMA SearchInvSearch ==
    ASSUME StoreInv, IInv,
           (\E a \in Agents : PlainSearch(a) \/ DenseSearch(a))
           \/ LexicalQuery \/ Fuse \/ Deliver
    PROVE  IInv'
<1> USE DEF IInv, SearchInv, ResultsWereThere, ResultIsOwn, Locked, Answered
<1>1. UNCHANGED <<memories, nextMemory, pc>>
  BY DEF PlainSearch, DenseSearch, LexicalQuery, Fuse, Deliver, vars, tables, op
<1>2. /\ Gone \cap DOMAIN memories = {}
      /\ Gone \subseteq 1..(nextMemory - 1)
  BY DEF Gone
<1>3. ASSUME NEW a \in Agents, PlainSearch(a) PROVE IInv'
  <2>1. PICK ranking \in DenseRankings(a, TopK) :
          query' = [NoQuery EXCEPT !.at = "done", !.agent = a, !.gone = Gone,
                                   !.result = ranking]
    BY <1>3 DEF PlainSearch
  <2>2. \A r \in DOMAIN ranking :
          Visible(a, ranking[r].agent) /\ ranking[r].id \notin Gone
    BY <1>3, CopiesAreCurrent, SearchAssumption DEF PlainSearch
  <2> QED
    BY <1>1, <1>2, <2>1, <2>2 DEF NoQuery, Stages
<1>4. ASSUME NEW a \in Agents, DenseSearch(a) PROVE IInv'
  <2>1. PICK ranking \in DenseRankings(a, Candidates) :
          query' = [NoQuery EXCEPT !.at = "dense", !.agent = a, !.gone = Gone,
                                   !.dense = ranking]
    BY <1>4 DEF DenseSearch
  <2>2. \A r \in DOMAIN ranking :
          Visible(a, ranking[r].agent) /\ ranking[r].id \notin Gone
    BY <1>4, CopiesAreCurrent, SearchAssumption DEF DenseSearch
  <2>3. DOMAIN ranking \subseteq Nat \ {0}
    BY RankedFromSet, SearchAssumption DEF DenseRankings
  <2> QED
    BY <1>1, <1>2, <2>1, <2>2, <2>3 DEF NoQuery, Stages
<1>5. CASE LexicalQuery
  <2>1. PICK ranking \in Rankings(Matching(query.agent), Candidates) :
          query' = [query EXCEPT !.at = "lexical", !.lexical = ranking]
    BY <1>5 DEF LexicalQuery
  <2>2. \A r \in DOMAIN ranking : ranking[r] \in Matching(query.agent)
    BY RankedFromSet, SearchAssumption
  <2>3. query.at = "dense" /\ pc' = "idle"
    BY <1>1, <1>5 DEF LexicalQuery
  <2>4. \A r \in DOMAIN query'.lexical :
          /\ query'.lexical[r] \in DOMAIN memories'
          /\ Visible(query'.agent, memories'[query'.lexical[r]].agent)
    BY <1>1, <2>1, <2>2 DEF Matching
  <2> QED
    BY <1>1, <2>1, <2>3, <2>4 DEF Stages
<1>6. CASE Fuse
  <2>1. PICK ranking \in Rankings(ById, TopK) :
          query' = [query EXCEPT !.at = "fused", !.result = ranking]
    BY <1>6 DEF Fuse
  <2>2. /\ \A r \in DOMAIN ranking : ranking[r] \in ById
        /\ \A q, r \in DOMAIN ranking : ranking[q] = ranking[r] => q = r
    BY RankedFromSet, SearchAssumption
  <2>3. query.at = "lexical"
    BY <1>6 DEF Fuse
  <2> QED
    BY <1>1, <2>1, <2>2, <2>3, FusedItems DEF Stages
<1>7. CASE Deliver
  BY <1>1, <1>7 DEF Deliver, NoQuery, Stages
<1> QED
  BY <1>3, <1>4, <1>5, <1>6, <1>7

LEMMA SearchAlways == SearchSpec => [](StoreInv /\ IInv)
<1>1. ASSUME StoreInv, IInv, [SearchNext]_searchVars PROVE IInv'
  <2>1. CASE UNCHANGED searchVars
    BY <1>1, <2>1 DEF searchVars, vars, tables, op, IInv, SearchInv,
                      ResultsWereThere, ResultIsOwn, Locked, Answered
  <2> QED
    BY <1>1, <2>1, SearchInvStore, SearchInvSearch DEF SearchNext
<1> QED
  BY <1>1, SearchInvInit, StoreAlways, PTL DEF SearchSpec

(* A lexical hit is a live cache entry of its namespace: find_if never misses,
   however the store changed between the two rankings. *)
THEOREM LexicalHitsFoundEver == SearchSpec => []LexicalHitsFound
<1>1. StoreInv /\ IInv => LexicalHitsFound
  <2> SUFFICES ASSUME StoreInv, IInv, query.at = "lexical", NEW id \in LexicalIds
               PROVE  \E k \in DOMAIN cache :
                        /\ Cached(id) = {k}
                        /\ Visible(query.agent, cache[k].agent)
    BY DEF LexicalHitsFound
  <2>1. /\ Cached(id) = {id}
        /\ Visible(query.agent, cache[id].agent)
    BY LexicalEntry DEF IInv, Locked
  <2> QED
    BY <2>1 DEF Cached
<1> QED
  BY <1>1, SearchAlways, PTL

(* What was deleted before a search began is not in its answer. *)
THEOREM ResultsWereThereEver == SearchSpec => []ResultsWereThere
BY SearchAlways, PTL DEF IInv

(* An answer keeps to the namespaces its caller sees; a fused one names no id
   twice. *)
THEOREM ResultIsOwnEver == SearchSpec => []ResultIsOwn
BY SearchAlways, PTL DEF IInv

-----------------------------------------------------------------------------
(* The fused order *)

(* The sum over no rank, and over one: the recursive function that
   SumFunctionOnSet unfolds to exists on the subsets of one element. *)
LEMMA SumOverNone == ASSUME NEW f PROVE SumFunctionOnSet(f, {}) = 0
<1> DEFINE F(g) == [s \in SUBSET {} |-> IF s = {} THEN 0
                     ELSE f[CHOOSE x \in s : TRUE] + g[s \ {CHOOSE x \in s : TRUE}]]
           iter == CHOOSE g : g = F(g)
           zero == [s \in SUBSET {} |-> 0]
<1>1. SumFunctionOnSet(f, {}) = iter[{}]
  BY DEF SumFunctionOnSet, FoldFunctionOnSet, MapThenFoldSet
<1>2. zero = F(zero)
  OBVIOUS
<1>3. iter = F(iter)
  BY <1>2
<1> QED
  BY <1>1, <1>3

LEMMA SumOverOne ==
    ASSUME NEW f, NEW r, f[r] \in Int
    PROVE  SumFunctionOnSet(f, {r}) = f[r]
<1> DEFINE F(g) == [s \in SUBSET {r} |-> IF s = {} THEN 0
                     ELSE f[CHOOSE x \in s : TRUE] + g[s \ {CHOOSE x \in s : TRUE}]]
           iter == CHOOSE g : g = F(g)
           sums == [s \in SUBSET {r} |-> IF s = {} THEN 0 ELSE f[r]]
<1>1. SumFunctionOnSet(f, {r}) = iter[{r}]
  BY DEF SumFunctionOnSet, FoldFunctionOnSet, MapThenFoldSet
<1>2. \A s \in SUBSET {r} : s # {} => (CHOOSE x \in s : TRUE) = r /\ s \ {r} = {}
  OBVIOUS
<1>3. sums = F(sums)
  <2>1. \A s \in SUBSET {r} : sums[s] = F(sums)[s]
    BY <1>2
  <2> QED
    BY <2>1
<1>4. iter = F(iter)
  BY <1>3
<1> HIDE DEF iter
<1>5. iter[{r}] = F(iter)[{r}]
  BY <1>4
<1>6. iter[{}] = 0
  BY <1>4
<1>7. (CHOOSE x \in {r} : TRUE) = r /\ {r} \ {r} = {}
  BY <1>2
<1>8. iter[{r}] = f[r] + iter[{}]
  BY <1>5, <1>7
<1> QED
  BY <1>1, <1>6, <1>8

(* What a list of ids gives to an id that it has at most once. *)
PlacesOf(list, id) == {r \in DOMAIN list : list[r] = id}
GivenBy(list, id) == SumFunctionOnSet(Weight, PlacesOf(list, id))

OnceAtMost(list, id) == \A q, r \in PlacesOf(list, id) : q = r

LEMMA RankGives ==
    ASSUME NEW list, NEW id, DOMAIN list \subseteq 1..Candidates, OnceAtMost(list, id)
    PROVE  /\ GivenBy(list, id) \in Nat
           /\ PlacesOf(list, id) = {} => GivenBy(list, id) = 0
           /\ \A r \in PlacesOf(list, id) : GivenBy(list, id) = Weight[r]
<1>1. CASE PlacesOf(list, id) = {}
  BY <1>1, SumOverNone DEF GivenBy
<1>2. CASE PlacesOf(list, id) # {}
  <2>1. PICK r \in PlacesOf(list, id) : PlacesOf(list, id) = {r}
    BY <1>2 DEF OnceAtMost
  <2>2. Weight[r] \in Nat
    BY <2>1, SearchAssumption DEF PlacesOf
  <2>3. GivenBy(list, id) = Weight[r]
    BY <2>1, <2>2, SumOverOne DEF GivenBy
  <2> QED
    BY <2>1, <2>2, <2>3
<1> QED
  BY <1>1, <1>2

(* Being ahead in a list gives more, and being in it without the other, too. *)
LEMMA BeatingGives ==
    ASSUME NEW list, NEW a, NEW b, DOMAIN list \subseteq 1..Candidates,
           OnceAtMost(list, a), OnceAtMost(list, b), Beats(list, a, b),
           \A r \in DOMAIN list : 1..r \subseteq DOMAIN list
    PROVE  /\ GivenBy(list, b) <= GivenBy(list, a)
           /\ PlacesOf(list, b) # {} =>
                GivenBy(list, b) < GivenBy(list, a) /\ PlacesOf(list, a) # {}
<1>1. CASE PlacesOf(list, b) = {}
  BY <1>1, RankGives
<1>2. CASE PlacesOf(list, b) # {}
  <2>1. PICK r \in PlacesOf(list, b) : TRUE
    BY <1>2
  <2>2. r \in DOMAIN list /\ list[r] = b /\ r \in 1..Candidates
    BY <2>1 DEF PlacesOf
  <2>3. PICK q \in 1..(r - 1) : list[q] = a
    BY <2>2 DEF Beats
  <2>4. q \in 1..r /\ q < r
    BY <2>2, <2>3, SearchAssumption
  <2>5. q \in DOMAIN list
    BY <2>2, <2>4
  <2>6. q \in PlacesOf(list, a) /\ q \in 1..Candidates
    BY <2>3, <2>5 DEF PlacesOf
  <2>7. Weight[q] > Weight[r] /\ Weight[q] \in Nat /\ Weight[r] \in Nat
    BY <2>2, <2>4, <2>6, SearchAssumption
  <2>8. GivenBy(list, a) = Weight[q] /\ GivenBy(list, b) = Weight[r]
    BY <2>1, <2>6, RankGives
  <2> QED
    BY <2>6, <2>7, <2>8
<1> QED
  BY <1>1, <1>2

(* A list of ranks begins at 1 and is no longer than what was asked for. *)
IsRanking(list) == /\ DOMAIN list \subseteq 1..Candidates
                   /\ \A r \in DOMAIN list : 1..r \subseteq DOMAIN list

DenseList == IdsOf(query.dense)

(* What the two rankings name once: each lexical id, and each dense one that is
   not overwritten. *)
ListsInv ==
    query.at \in {"dense", "lexical", "fused"} =>
      /\ IsRanking(query.dense)
      /\ \A r \in DOMAIN query.dense : query.dense[r].id \in MemoryIds \cup {Hole}
      /\ \A q, r \in DOMAIN query.dense :
           query.dense[q].id = query.dense[r].id /\ query.dense[r].id # Hole => q = r
      /\ query.at # "dense" =>
           /\ IsRanking(query.lexical)
           /\ \A r \in DOMAIN query.lexical : query.lexical[r] \in MemoryIds
           /\ \A q, r \in DOMAIN query.lexical :
                query.lexical[q] = query.lexical[r] => q = r

LEMMA RankingsRank ==
    ASSUME NEW S, NEW n \in Nat, n <= Candidates, NEW s \in Rankings(S, n)
    PROVE  IsRanking(s)
<1>1. PICK m \in 0..n : DOMAIN s = 1..m
  BY DEF Rankings
<1>2. Candidates \in Nat
  BY SearchAssumption
<1> QED
  BY <1>1, <1>2 DEF IsRanking

(* The dense list is copied from one state of the cache, where an id that is not
   overwritten is the entry's own. *)
LEMMA CopiedOnce ==
    ASSUME StoreInv, NEW a, NEW n \in Nat, NEW s \in DenseRankings(a, n)
    PROVE  /\ \A r \in DOMAIN s : s[r].id \in MemoryIds \cup {Hole}
           /\ \A q, r \in DOMAIN s : s[q].id = s[r].id /\ s[r].id # Hole => q = r
<1>1. \A r \in DOMAIN s : \E k \in DOMAIN cache : s[r] = Copy(k)
  BY RankedFromSet DEF DenseRankings, Readable
<1>2. \A k \in DOMAIN cache : /\ cache[k].id \in MemoryIds \cup {Hole}
                              /\ cache[k].id \in {k, Hole}
  BY DEF StoreInv, TypeInv, TypeOK, IsTable, Entry, CacheInv, EntriesInv
<1>3. ASSUME NEW q \in DOMAIN s, NEW r \in DOMAIN s, s[q].id = s[r].id, s[r].id # Hole
      PROVE  s[q] = s[r]
  BY <1>1, <1>2, <1>3 DEF Copy
<1>4. \A q, r \in DOMAIN s : s[q] = s[r] => q = r
  BY RankedFromSet DEF DenseRankings
<1> QED
  BY <1>1, <1>2, <1>3, <1>4 DEF Copy

LEMMA ListsStep ==
    ASSUME StoreInv, IInv, ListsInv, [SearchNext]_searchVars
    PROVE  ListsInv'
<1> USE DEF ListsInv, IsRanking
<1>1. CASE UNCHANGED query \/ query' = NoQuery
  BY <1>1 DEF NoQuery
<1>2. ASSUME NEW a \in Agents, DenseSearch(a) PROVE ListsInv'
  <2>1. PICK ranking \in DenseRankings(a, Candidates) :
          query' = [NoQuery EXCEPT !.at = "dense", !.agent = a, !.gone = Gone,
                                   !.dense = ranking]
    BY <1>2 DEF DenseSearch
  <2>2. IsRanking(ranking)
    BY RankingsRank, SearchAssumption DEF DenseRankings
  <2>3. /\ \A r \in DOMAIN ranking : ranking[r].id \in MemoryIds \cup {Hole}
        /\ \A q, r \in DOMAIN ranking :
             ranking[q].id = ranking[r].id /\ ranking[r].id # Hole => q = r
    BY CopiedOnce, SearchAssumption
  <2>4. query'.at = "dense" /\ query'.dense = ranking
    BY <2>1 DEF NoQuery
  <2> QED
    BY <2>2, <2>3, <2>4
<1>3. ASSUME NEW a \in Agents, PlainSearch(a) PROVE ListsInv'
  BY <1>3 DEF PlainSearch, NoQuery
<1>4. CASE LexicalQuery
  <2>1. PICK ranking \in Rankings(Matching(query.agent), Candidates) :
          query' = [query EXCEPT !.at = "lexical", !.lexical = ranking]
    BY <1>4 DEF LexicalQuery
  <2>2. IsRanking(ranking)
    BY RankingsRank, SearchAssumption
  <2>3. /\ \A r \in DOMAIN ranking : ranking[r] \in MemoryIds
        /\ \A q, r \in DOMAIN ranking : ranking[q] = ranking[r] => q = r
    BY RankedFromSet, SearchAssumption DEF Matching, StoreInv, TypeInv, TypeOK, IsTable
  <2>4. query.at = "dense" /\ query'.dense = query.dense
    BY <1>4, <2>1 DEF LexicalQuery
  <2>5. query'.lexical = ranking
    BY <2>1
  <2> QED
    BY <2>1, <2>2, <2>3, <2>4, <2>5
<1>5. CASE Fuse
  BY <1>5 DEF Fuse
<1> QED
  BY <1>1, <1>2, <1>3, <1>4, <1>5
     DEF SearchNext, Write, Die, Midnight, Deliver, searchVars

(* Of two ids put in one order by every list that has the second, the first has
   the greater sum. *)
LEMMA AgreementAdds ==
    ASSUME ListsInv, query.at = "lexical",
           NEW a \in MemoryIds, NEW b, b # Hole,
           Beats(DenseList, a, b), Beats(query.lexical, a, b),
           b \in DenseIds \cup LexicalIds
    PROVE  Fused(a) > Fused(b) /\ a \in DenseIds \cup LexicalIds
<1>1. /\ IsRanking(DenseList) /\ IsRanking(query.lexical)
      /\ DOMAIN DenseList = DOMAIN query.dense
  BY DEF ListsInv, IsRanking, DenseList, IdsOf
<1>2. \A id : id # Hole => OnceAtMost(DenseList, id) /\ OnceAtMost(query.lexical, id)
  BY DEF ListsInv, OnceAtMost, PlacesOf, DenseList, IdsOf
<1>3. /\ \A id : id \in DenseIds <=> PlacesOf(DenseList, id) # {}
      /\ \A id : id \in LexicalIds <=> PlacesOf(query.lexical, id) # {}
  BY DEF DenseIds, LexicalIds, PlacesOf, DenseList, IdsOf
<1>4. ASSUME NEW id
      PROVE  Fused(id) = GivenBy(DenseList, id) + GivenBy(query.lexical, id)
  <2>1. PlacesOf(DenseList, id) = {r \in DOMAIN query.dense : query.dense[r].id = id}
    BY DEF PlacesOf, DenseList, IdsOf
  <2> QED
    BY <2>1 DEF Fused, GivenBy, PlacesOf
<1>5. a # Hole
  BY HoleIsNoId
<1>6. /\ GivenBy(DenseList, a) \in Nat /\ GivenBy(DenseList, b) \in Nat
      /\ GivenBy(query.lexical, a) \in Nat /\ GivenBy(query.lexical, b) \in Nat
  BY <1>1, <1>2, <1>5, RankGives DEF IsRanking
<1>7. /\ GivenBy(DenseList, b) <= GivenBy(DenseList, a)
      /\ PlacesOf(DenseList, b) # {} =>
           GivenBy(DenseList, b) < GivenBy(DenseList, a) /\ PlacesOf(DenseList, a) # {}
  BY <1>1, <1>2, <1>5, BeatingGives DEF IsRanking
<1>8. /\ GivenBy(query.lexical, b) <= GivenBy(query.lexical, a)
      /\ PlacesOf(query.lexical, b) # {} =>
           /\ GivenBy(query.lexical, b) < GivenBy(query.lexical, a)
           /\ PlacesOf(query.lexical, a) # {}
  BY <1>1, <1>2, <1>5, BeatingGives DEF IsRanking
<1>9. PlacesOf(DenseList, b) # {} \/ PlacesOf(query.lexical, b) # {}
  BY <1>3
<1> QED
  BY <1>3, <1>4, <1>6, <1>7, <1>8, <1>9

(* Every id of the two lists has its item among those that are sorted. *)
LEMMA EveryIdHasItem ==
    ASSUME StoreInv, IInv, ListsInv, query.at = "lexical",
           NEW a \in MemoryIds, a \in DenseIds \cup LexicalIds
    PROVE  \E x \in ById : x.id = a
<1>1. CASE a \in DenseIds
  <2>1. PICK r \in DOMAIN query.dense : query.dense[r].id = a
    BY <1>1 DEF DenseIds
  <2>2. a # Hole /\ r \in 1..Candidates /\ 1..r \subseteq DOMAIN query.dense
    BY <2>1, HoleIsNoId DEF ListsInv, IsRanking
  <2>3. ASSUME NEW q \in 1..(r - 1) PROVE query.dense[q].id # a
    <3>1. q \in 1..r /\ q # r
      BY <2>2, <2>3, SearchAssumption
    <3> QED
      BY <2>1, <2>2, <3>1 DEF ListsInv
  <2>4. r \in FirstRanks
    BY <2>1, <2>3 DEF FirstRanks
  <2> QED
    BY <2>1, <2>4 DEF ById
<1>2. CASE a \in LexicalIds \ DenseIds
  <2>1. Cached(a) = {a}
    BY <1>2, LexicalEntry DEF Locked, IInv
  <2>2. Copy(a) \in ById /\ Copy(a).id = a
    BY <1>2, <2>1 DEF ById, Copy, Cached
  <2> QED
    BY <2>2
<1> QED
  BY <1>1, <1>2

LEMMA ItemsAreNamed ==
    ASSUME StoreInv, IInv, query.at = "lexical", NEW x \in ById
    PROVE  x.id \in DenseIds \cup LexicalIds
<1>1. CASE \E r \in FirstRanks : x = query.dense[r]
  BY <1>1 DEF FirstRanks, DenseIds
<1>2. CASE \E id \in LexicalIds \ DenseIds : \E k \in Cached(id) : x = Copy(k)
  BY <1>2 DEF Cached, Copy
<1> QED
  BY <1>1, <1>2 DEF ById

LEMMA FuseKeepsAgreement ==
    ASSUME StoreInv, IInv, ListsInv, Fuse
    PROVE  AgreementKept'
<1>1. query.at = "lexical"
  BY DEF Fuse
<1>2. PICK ranking \in Rankings(ById, TopK) :
        /\ \A q, r \in DOMAIN ranking : Ahead(ranking[q], ranking[r]) => q < r
        /\ \A x \in ById \ Range(ranking), r \in DOMAIN ranking : ~Ahead(x, ranking[r])
        /\ query' = [query EXCEPT !.at = "fused", !.result = ranking]
  BY DEF Fuse
<1>3. query'.result = ranking /\ query'.dense = query.dense /\ query'.lexical = query.lexical
  BY <1>2
<1>4. /\ \A r \in DOMAIN ranking : ranking[r] \in ById
      /\ DOMAIN ranking \subseteq Nat \ {0}
  BY RankedFromSet, SearchAssumption
<1> SUFFICES ASSUME NEW r \in DOMAIN ranking, NEW a \in MemoryIds,
                    ranking[r].id # Hole,
                    Beats(DenseList, a, ranking[r].id),
                    Beats(query.lexical, a, ranking[r].id)
             PROVE  \E q \in 1..(r - 1) : ranking[q].id = a
  BY <1>3 DEF AgreementKept, DenseList, IdsOf, Beats
<1>5. ranking[r].id \in DenseIds \cup LexicalIds
  BY <1>1, <1>4, ItemsAreNamed
<1>6. Fused(a) > Fused(ranking[r].id) /\ a \in DenseIds \cup LexicalIds
  BY <1>1, <1>5, AgreementAdds
<1>7. PICK x \in ById : x.id = a
  BY <1>1, <1>6, EveryIdHasItem
<1>8. Ahead(x, ranking[r])
  BY <1>6, <1>7 DEF Ahead
<1>9. PICK q \in DOMAIN ranking : x = ranking[q]
  BY <1>2, <1>8 DEF Range
<1>10. q < r /\ q \in Nat \ {0} /\ r \in Nat
  BY <1>2, <1>4, <1>8, <1>9
<1> QED
  BY <1>7, <1>9, <1>10

(* Unanimity, for any lists and any strictly falling weights: what all rankings
   put ahead of a memory is ahead of it in the answer, whatever the store did
   between the two rankings and wherever the answer was cut. *)
THEOREM AgreementKeptEver == SearchSpec => []AgreementKept
<1> DEFINE Inv == ListsInv /\ AgreementKept
<1>1. SearchInit => Inv
  BY DEF SearchInit, NoQuery, ListsInv, AgreementKept
<1>2. StoreInv /\ IInv /\ Inv /\ [SearchNext]_searchVars => Inv'
  <2> SUFFICES ASSUME StoreInv, IInv, ListsInv, AgreementKept, [SearchNext]_searchVars
               PROVE  AgreementKept'
    BY ListsStep
  <2>1. CASE query' = query
    BY <2>1 DEF AgreementKept
  <2>2. CASE query'.at # "fused"
    BY <2>2 DEF AgreementKept
  <2>3. query' = query \/ query'.at # "fused" \/ Fuse
    <3>1. (\E a \in Agents : PlainSearch(a) \/ DenseSearch(a)) => query'.at # "fused"
      BY DEF PlainSearch, DenseSearch, NoQuery
    <3>2. LexicalQuery => query' = query \/ query'.at # "fused"
      BY DEF LexicalQuery
    <3>3. Deliver \/ Die => query'.at # "fused"
      BY DEF Deliver, Die, NoQuery
    <3> QED
      BY <3>1, <3>2, <3>3 DEF SearchNext, Write, Midnight, searchVars
  <2> QED
    BY <2>1, <2>2, <2>3, FuseKeepsAgreement
<1> QED
  BY <1>1, <1>2, SearchAlways, PTL DEF SearchSpec
=============================================================================
