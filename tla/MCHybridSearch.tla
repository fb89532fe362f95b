--------------------------- MODULE MCHybridSearch ---------------------------
(* An instance of HybridSearch for TLC. *)
EXTENDS HybridSearch

NoDays == [t \in Texts |-> {}]

(* 1/61, 1/62 and 1/63, the default rrf_k, times 61 * 62 * 63. *)
DefaultWeight == <<3906, 3843, 3782>>
=============================================================================
