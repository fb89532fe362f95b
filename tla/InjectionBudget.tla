--------------------------- MODULE InjectionBudget ---------------------------
(***************************************************************************)
(* How many memories and facts a request gets: the budget the options give,*)
(* what --max-context-tokens leaves of it, the k the coverage tables ask   *)
(* for, and the loops that write lines while they fit.                     *)
(*                                                                         *)
(* A text is its length in bytes.  The three formatters (plain, compressed *)
(* and sticky) write the same lines under the same test; they differ in    *)
(* how a side is shortened, never beyond what truncate leaves.             *)
(***************************************************************************)
EXTENDS Integers

CONSTANTS
    Targets,          \* --target-coverage in percent, 0 when off
    LineChars,        \* --memory-line-chars
    ExplicitBudgets,  \* --max-inject-tokens, Unset when not given
    TopKs,            \* --top-k
    Rooms,            \* what a request leaves of --max-context-tokens
    MaxFacts,         \* --max-facts, 0 without --extract-facts
    FactBytes,        \* lengths of fact lines
    AgeBytes,         \* lengths of what format_time_ago writes
    TextBytes(_)      \* lengths of a memory's side, given --memory-line-chars

Unset == -1
NoLimit == -1         \* no --max-context-tokens

ASSUME BudgetAssumption ==
    /\ Targets \subseteq {0, 80, 90, 95}
    /\ LineChars \subseteq Nat \ {0}
    /\ ExplicitBudgets \subseteq Int
    /\ TopKs \subseteq Nat
    /\ Rooms \subseteq Nat \cup {NoLimit}
    /\ MaxFacts \in Nat
    /\ FactBytes \subseteq Nat
    /\ AgeBytes \subseteq 6..10     \* "0m ago" to "99999d ago"
    /\ \A chars \in LineChars : TextBytes(chars) \subseteq Nat

VARIABLES
    cfg,        \* the parsed options
    plan,    \* what retrieve_and_inject has decided so far
    block       \* the block being written

budgetVars == <<cfg, plan, block>>

-----------------------------------------------------------------------------
(* Sizes *)

AtLeast(a, b) == IF a >= b THEN a ELSE b
AtMost(a, b) == IF a <= b THEN a ELSE b

(* estimate_tokens *)
Tokens(bytes) == bytes \div 4 + 1

Header == 45          \* bytes of kMemoryContextHeader
Footer == 17          \* bytes of kMemoryContextFooter
FactsHeader == 29     \* "Known facts (latest values):" and a newline
MemoriesHeader == 32  \* "Relevant conversation memories:" and a newline

(* A side of a memory: kept, or cut and marked with three dots. *)
Side(size, chars) == IF size <= chars THEN size ELSE chars + 3

(* The age; the date and a comma before it with --absolute-dates. *)
Stamps(absolute) == IF absolute THEN {12 + age : age \in AgeBytes} ELSE AgeBytes

LineBytes(c) ==
    {3 + stamp + 2 + Side(u, c.chars) + 11 + Side(a, c.chars) + 1 :
       stamp \in Stamps(c.absolute),
       u \in TextBytes(c.chars), a \in TextBytes(c.chars)}

(* Mutant: the three dots of a shortened side are forgotten. *)
MaxLineTokensWithoutDots(chars, absolute) ==
    Tokens(3 + (IF absolute THEN 22 ELSE 10) + 2 + 2 * chars + 11 + 1)

MaxLineTokens(chars, absolute) ==
    Tokens(3 + (IF absolute THEN 22 ELSE 10) + 2 + 2 * (chars + 3) + 11 + 1)

RequiredTokens(k, chars, absolute) ==
    k * MaxLineTokens(chars, absolute) + Tokens(Header) + Tokens(Footer)

-----------------------------------------------------------------------------
(* The coverage tables *)

Calibrated(c) ==
    CASE c.target = 80 -> IF c.legacy THEN 7 ELSE 4
      [] c.target = 90 -> IF c.legacy THEN 15 ELSE 8
      [] c.target = 95 -> IF c.legacy THEN 26 ELSE 16
      [] OTHER -> 0

(* k for weak, middling and strong best matches *)
Terciles(c) ==
    CASE c.target = 80 -> IF c.legacy THEN <<20, 4, 3>> ELSE <<9, 3, 2>>
      [] c.target = 90 -> IF c.legacy THEN <<35, 8, 5>> ELSE <<21, 7, 4>>
      [] c.target = 95 -> IF c.legacy THEN <<69, 17, 7>> ELSE <<49, 14, 5>>
      [] OTHER -> <<0, 0, 0>>

Deepest(c) == IF c.adaptive THEN Terciles(c)[1] ELSE Calibrated(c)

(* The k of a request whose best match is in a tercile; 0 for no match at all. *)
NeededK(c, tercile) ==
    IF c.adaptive /\ tercile # 0
    THEN AtLeast(Terciles(c)[tercile], Calibrated(c)) ELSE Calibrated(c)

-----------------------------------------------------------------------------
(* Options: parse_args *)

Options == {c \in [target : Targets, legacy : BOOLEAN, adaptive : BOOLEAN,
                   absolute : BOOLEAN, chars : LineChars,
                   explicit : ExplicitBudgets, topK : TopKs] :
              c.adaptive => c.target # 0}

MaxInject(c) ==
    IF c.explicit # Unset THEN c.explicit
    ELSE IF c.target = 0 THEN 2048
    ELSE AtLeast(2048, RequiredTokens(Deepest(c), c.chars, c.absolute))

(* run() warns at the start; it reckons without --absolute-dates. *)
WarnedAtStart(c) ==
    c.target # 0 /\ MaxInject(c) < RequiredTokens(Deepest(c), c.chars, FALSE)

-----------------------------------------------------------------------------
(* retrieve_and_inject *)

NoPlan == [at |-> "guard", room |-> NoLimit, budget |-> 0, k |-> 0,
              offered |-> 0, facts |-> 0]
NoBlock == [used |-> 0, body |-> 0, facts |-> 0, lines |-> 0]

BudgetInit == cfg \in Options /\ plan = NoPlan /\ block = NoBlock

K(c) == IF c.target # 0 THEN Deepest(c) ELSE c.topK

(* The context overflow guard. *)
Guard ==
    /\ plan.at = "guard"
    /\ \E room \in Rooms :
         LET max == MaxInject(cfg)
             each == AtLeast(1, max \div AtLeast(1, K(cfg)))
         IN  plan' = [plan EXCEPT
               !.at = "search",
               !.room = room,
               !.budget = IF room = NoLimit THEN max ELSE AtMost(max, room),
               !.k = IF room # NoLimit /\ room < max
                     THEN AtLeast(1, room \div each) ELSE K(cfg)]
    /\ UNCHANGED <<cfg, block>>

(* Mutant: the footer is not reserved. *)
SpaceWithoutFooter == plan.budget - Tokens(Header)

(* What the lines may take. *)
Space == plan.budget - Tokens(Header) - Tokens(Footer)

(* The search, the choice of k for its best match, and the cut to k. *)
Retrieve ==
    /\ plan.at = "search"
    /\ \E tercile \in 0..3, facts \in 0..MaxFacts :
         LET needed == NeededK(cfg, tercile)
             k == IF cfg.adaptive THEN AtMost(plan.k, needed) ELSE plan.k
         IN  \E offered \in 0..k :
               plan' = [plan EXCEPT
                 !.at = IF (offered = 0 /\ facts = 0) \/ Space <= 0 THEN "done"
                        ELSE IF facts = 0 THEN "memories" ELSE "facts",
                 !.offered = offered,
                 !.facts = facts]
    /\ UNCHANGED <<cfg, block>>

(* One line with the heading that goes before the first of its kind. *)
Fits(bytes, heading) == block.used + heading + Tokens(bytes) <= Space
Written(bytes, heading, headingBytes) ==
    [block EXCEPT !.used = @ + heading + Tokens(bytes),
                  !.body = @ + headingBytes + bytes]

FactHeading == IF block.facts = 0 THEN FactsHeader ELSE 0
MemoryHeading == IF plan.facts # 0 /\ block.lines = 0 THEN MemoriesHeader ELSE 0
HeadingTokens(bytes) == IF bytes = 0 THEN 0 ELSE Tokens(bytes)

WriteFact ==
    /\ plan.at = "facts"
    /\ block.facts < plan.facts
    /\ \E bytes \in FactBytes :
         /\ Fits(bytes, HeadingTokens(FactHeading))
         /\ block' = [Written(bytes, HeadingTokens(FactHeading), FactHeading)
                        EXCEPT !.facts = @ + 1]
    /\ UNCHANGED <<cfg, plan>>

(* All are written, or the next does not fit. *)
FactsEnd ==
    /\ plan.at = "facts"
    /\ \/ block.facts = plan.facts
       \/ \E bytes \in FactBytes : ~Fits(bytes, HeadingTokens(FactHeading))
    /\ plan' = [plan EXCEPT !.at = "memories"]
    /\ UNCHANGED <<cfg, block>>

WriteMemory ==
    /\ plan.at = "memories"
    /\ block.lines < plan.offered
    /\ \E bytes \in LineBytes(cfg) :
         /\ Fits(bytes, HeadingTokens(MemoryHeading))
         /\ block' = [Written(bytes, HeadingTokens(MemoryHeading), MemoryHeading)
                        EXCEPT !.lines = @ + 1]
    /\ UNCHANGED <<cfg, plan>>

MemoriesEnd ==
    /\ plan.at = "memories"
    /\ \/ block.lines = plan.offered
       \/ \E bytes \in LineBytes(cfg) : ~Fits(bytes, HeadingTokens(MemoryHeading))
    /\ plan' = [plan EXCEPT !.at = "done"]
    /\ UNCHANGED <<cfg, block>>

BudgetNext == \/ Guard \/ Retrieve
              \/ WriteFact \/ FactsEnd \/ WriteMemory \/ MemoriesEnd

BudgetSpec == BudgetInit /\ [][BudgetNext]_budgetVars

-----------------------------------------------------------------------------
(* Properties *)

(* The block as it is sent, headings and all, costs by the same estimate no
   more than --max-inject-tokens and what the context leaves, though the loops
   only ever add up the estimates of its parts. *)
BlockWithinBudget ==
    plan.at = "done" /\ block.body > 0 =>
      Tokens(Header + block.body + Footer) <= plan.budget

(* "Raised to fit all k memories", "an explicit budget is kept and logged if it
   can drop calibrated memories": with a coverage target every memory offered
   is written, at any lengths of its sides and for any tercile, or run() has
   warned.  Outside are facts, which take from the same budget, a cut by
   --max-context-tokens, and an explicit budget with --absolute-dates. *)
CalibratedFit ==
    /\ plan.at = "done"
    /\ cfg.target # 0
    /\ plan.room = NoLimit /\ plan.facts = 0
    /\ cfg.absolute => cfg.explicit = Unset
    => block.lines = plan.offered \/ WarnedAtStart(cfg)
=============================================================================
