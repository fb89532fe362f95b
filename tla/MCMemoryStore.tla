--------------------------- MODULE MCMemoryStore ---------------------------
(* Instances of MemoryStore for TLC. *)
EXTENDS MemoryStore, TLC

(* Every text mentions the same two days, or none does. *)
TwoDays == [t \in Texts |-> {1, 2}]
NoDays == [t \in Texts |-> {}]

(* Keys and values are only compared for equality. *)
KeysAndValues == Permutations(Keys) \cup Permutations(Values)
=============================================================================
