--------------------------- MODULE MCSavePipeline ---------------------------
(* Instances of SavePipeline for TLC. *)
EXTENDS SavePipeline

CONSTANTS t1, t2, t3

NoDays == [t \in Texts |-> {}]

(* t1 and t2 are close, so are t2 and t3; t1 and t3 are not. *)
Chain == [t \in Texts |-> [u \in Texts |->
            CASE t = u -> 4
              [] {t, u} = {t1, t2} -> 3
              [] {t, u} = {t2, t3} -> 2
              [] OTHER -> 1]]
=============================================================================
