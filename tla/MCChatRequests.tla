----------------------------- MODULE MCChatRequests -----------------------------
EXTENDS ChatRequests, TLC

CONSTANTS c1, MessagesOfOne, MessagesOfOthers

\* Each client is an agent of its own; the first holds the longer conversation; a tool
\* call without words weighs four tokens and all other messages one.
OwnAgents == [c \in Clients |-> c]
MessageBounds == [c \in Clients |-> IF c = c1 THEN MessagesOfOne ELSE MessagesOfOthers]
Tokens == [content \in Contents |-> IF content = "null" THEN 4 ELSE 1]
NoOpening == <<>>
SystemOpening == <<[role |-> "system", content |-> "text"]>>
MemorySymmetry == Permutations(Memories)
================================================================================
