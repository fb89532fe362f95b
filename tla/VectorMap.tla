------------------------------ MODULE VectorMap ------------------------------
(***************************************************************************)
(* What the flat array of embeddings is meant to be: a map from memories   *)
(* to their vectors, in which adding one and forgetting some leave all     *)
(* others as they are.                                                     *)
(***************************************************************************)
EXTENDS Functions

CONSTANTS
    Memories,
    Vectors        \* Vectors[k]: the two vectors of memory k

VARIABLE map

Init == map = [k \in {} |-> k]

Add(k) == map' = [j \in DOMAIN map \cup {k} |->
                    IF j = k THEN Vectors[k] ELSE map[j]]

Forget(S) == map' = Restrict(map, DOMAIN map \ S)

Next == \/ \E k \in Memories \ DOMAIN map : Add(k)
        \/ \E S \in SUBSET DOMAIN map : Forget(S)

Spec == Init /\ [][Next]_map
=============================================================================
