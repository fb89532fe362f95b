-------------------------- MODULE MCEmbeddingQueue --------------------------
(* Texts without tokens, of one, of a full context, and of more. *)
EXTENDS EmbeddingQueue, TLC

CONSTANTS none, short, full, huge

TokensOf == (none :> 0) @@ (short :> 1) @@ (full :> NBatch) @@ (huge :> NBatch + 1)
TokensOfTexts == [t \in Texts |-> TokensOf[t]]

=============================================================================
