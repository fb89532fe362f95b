------------------------------- MODULE HistoryTrim -------------------------------
(* src/src/history.cpp: a conversation that outgrew --history-budget is cut at *)
(* a user message.  A message is its role and its content; what a content      *)
(* weighs is given by Size (dump().size() / 4 + 1, never zero).                *)
EXTENDS Integers, Sequences, FiniteSets, FiniteSetsExt

CONSTANTS
    Contents,       \* what a message can say
    Size,           \* its estimated tokens
    HistoryBudget,  \* --history-budget, 0 when off
    HistoryTarget   \* floor(budget * --history-trim-ratio), the ratio in (0, 1]

ASSUME HistoryAssumption ==
    /\ Size \in [Contents -> Nat \ {0}]
    /\ HistoryBudget \in Nat
    /\ HistoryTarget \in 0..HistoryBudget

IsSystem(m) == m.role = "system"
NonSystem(messages) == {i \in DOMAIN messages : ~ IsSystem(messages[i])}
UserStarts(messages) == {i \in DOMAIN messages : messages[i].role = "user"}

\* The tokens of the non-system messages from the i-th on.
TokensFrom(messages, i) ==
    MapThenSumSet(LAMBDA j : Size[messages[j].content],
                  {j \in NonSystem(messages) : j >= i})

(* Mutant: a last turn beyond the budget stops the trimming altogether. *)
CutIndexGivingUp(messages) ==
    LET fitting == {i \in UserStarts(messages) :
                        TokensFrom(messages, i) <= HistoryTarget}
        last == Max(UserStarts(messages))
    IN  IF fitting # {} THEN Min(fitting)
        ELSE IF TokensFrom(messages, last) > HistoryBudget THEN Min(UserStarts(messages))
        ELSE last

\* Where the window may begin: the first user message from which on all fits the
\* target; the last user message when none does.
CutIndex(messages) ==
    LET fitting == {i \in UserStarts(messages) :
                        TokensFrom(messages, i) <= HistoryTarget}
    IN  IF fitting = {} THEN Max(UserStarts(messages)) ELSE Min(fitting)

OverBudget(messages) ==
    /\ HistoryBudget > 0
    /\ TokensFrom(messages, 1) > HistoryBudget
    /\ UserStarts(messages) # {}

DroppedMessages(messages) ==
    IF OverBudget(messages)
    THEN {i \in NonSystem(messages) : i < CutIndex(messages)}
    ELSE {}

\* The n-th of a set of positions, and the messages at them in their order.
Nth(S, n) == CHOOSE i \in S : Cardinality({j \in S : j < i}) = n - 1
AtPositions(messages, S) == [n \in 1..Cardinality(S) |-> messages[Nth(S, n)]]

\* trim_history: what is left, system messages and all from the cut on.
Retained(messages) ==
    IF OverBudget(messages)
    THEN LET cut == CutIndex(messages)
         IN  AtPositions(messages, {i \in 1..(cut - 1) : IsSystem(messages[i])})
                 \o SubSeq(messages, cut, Len(messages))
    ELSE messages
================================================================================
