-------------------------- MODULE AlgorithmsProofs --------------------------
(***************************************************************************)
(* Proofs about the algorithms that one run walks side by side.            *)
(*                                                                         *)
(* InjectionBudget, for any options, lengths of texts and facts: what is   *)
(* sent never costs more than the budget, and the budget the options       *)
(* compute is enough for every calibrated memory.                          *)
(*                                                                         *)
(* AnswerCapture, for streams of any number of lines, text on any of them, *)
(* and any chunks: what the two streaming handlers have read.              *)
(*                                                                         *)
(* Calendar, for every era of 400 years a walk may begin in and every      *)
(* number of days it goes on: the conversions are those of a wall          *)
(* calendar, and the windows follow each other to the day.                 *)
(*                                                                         *)
(* MemorySides, for texts of any length and any caps: the units are the    *)
(* text, and the side written is full.                                     *)
(***************************************************************************)
EXTENDS InjectionBudget, AnswerCapture, Calendar, MemorySides,
        TLAPS, FiniteSetTheorems, WellFoundedInduction

(* The injection budget. *)

Option == [target : Targets, legacy : BOOLEAN, adaptive : BOOLEAN,
           absolute : BOOLEAN, chars : LineChars,
           explicit : ExplicitBudgets, topK : TopKs]

TypeInv ==
    /\ cfg \in Option
    /\ plan \in [at : {"guard", "search", "facts", "memories", "done"},
                 room : Int, budget : Int, k : Nat, offered : Nat, facts : Nat]
    /\ block \in [used : Nat, body : Nat, facts : Nat, lines : Nat]

\* The lines' estimates exceed a quarter of their bytes, and they fit.
BlockInv ==
    /\ plan.at \in {"guard", "search"} => block = NoBlock
    /\ block = NoBlock \/ (block.body < 4 * block.used /\ block.used <= Space)

BudgetInv == TypeInv /\ BlockInv

-----------------------------------------------------------------------------
(* Sizes *)

\* The estimate of a part, taken four times, is more than the part.
LEMMA TokensExceed ==
    ASSUME NEW bytes \in Nat
    PROVE  Tokens(bytes) \in Nat \ {0} /\ bytes < 4 * Tokens(bytes)
  BY DEF Tokens

\* The estimate grows with its argument.
LEMMA TokensGrow ==
    ASSUME NEW a \in Nat, NEW b \in Nat, a <= b
    PROVE  Tokens(a) <= Tokens(b)
  BY DEF Tokens

LEMMA Multiples ==
    ASSUME NEW a \in Nat, NEW b \in Nat, NEW m \in Nat, a <= b
    PROVE  /\ a * m \in Nat /\ b * m \in Nat
           /\ a * m <= b * m /\ (a + 1) * m = a * m + m
<1>1. PICK d \in Nat : b = a + d
  <2>1. b - a \in Nat /\ b = a + (b - a)
    OBVIOUS
  <2>2. QED
    BY <2>1
<1>2. b * m = a * m + d * m /\ d * m \in Nat
  BY <1>1
<1>3. QED
  BY <1>2

\* The coverage tables ask for numbers of memories.
LEMMA TablesAsk ==
    ASSUME cfg \in Option
    PROVE  /\ Calibrated(cfg) \in Nat
           /\ Terciles(cfg) \in [1..3 -> Nat]
           /\ Deepest(cfg) \in Nat
           /\ \A t \in 0..3 : NeededK(cfg, t) \in Nat
<1>1. cfg.target \in {0, 80, 90, 95} /\ cfg.legacy \in BOOLEAN
  BY BudgetAssumption DEF Option
<1>2. Calibrated(cfg) \in Nat
  BY <1>1 DEF Calibrated
<1>3. Terciles(cfg) \in [1..3 -> Nat]
  BY <1>1 DEF Terciles
<1>4. Deepest(cfg) \in Nat
  BY <1>2, <1>3 DEF Deepest
<1>5. ASSUME NEW t \in 0..3 PROVE NeededK(cfg, t) \in Nat
  BY <1>2, <1>3 DEF NeededK, AtLeast
<1>6. QED
  BY <1>2, <1>3, <1>4, <1>5

LEMMA LinesCost ==
    ASSUME cfg \in Option, NEW absolute \in BOOLEAN
    PROVE  MaxLineTokens(cfg.chars, absolute) \in Nat \ {0}
<1>1. cfg.chars \in Nat
  BY BudgetAssumption DEF Option
<1>2. QED
  BY <1>1 DEF MaxLineTokens, Tokens

LEMMA RequiredIsNat ==
    ASSUME cfg \in Option, NEW k \in Nat, NEW absolute \in BOOLEAN
    PROVE  /\ RequiredTokens(k, cfg.chars, absolute) \in Nat
           /\ RequiredTokens(k, cfg.chars, absolute)
                = k * MaxLineTokens(cfg.chars, absolute) + 17
<1> DEFINE m == MaxLineTokens(cfg.chars, absolute)
<1>1. m \in Nat
  BY LinesCost
<1>2. k * m \in Nat
  BY <1>1, Multiples
<1>3. Tokens(Header) = 12 /\ Tokens(Footer) = 5
  BY DEF Tokens, Header, Footer
<1>4. RequiredTokens(k, cfg.chars, absolute) = k * m + 12 + 5
  BY <1>3 DEF RequiredTokens
<1> HIDE DEF m
<1>5. QED
  BY <1>2, <1>4 DEF m

LEMMA MaxInjectIsInt ==
    ASSUME cfg \in Option
    PROVE  MaxInject(cfg) \in Int
<1>1. cfg.explicit \in Int
  BY BudgetAssumption DEF Option
<1>2. Deepest(cfg) \in Nat /\ cfg.absolute \in BOOLEAN
  BY TablesAsk DEF Option
<1>3. RequiredTokens(Deepest(cfg), cfg.chars, cfg.absolute) \in Nat
  BY <1>2, RequiredIsNat
<1>4. QED
  BY <1>1, <1>3 DEF MaxInject, AtLeast

\* No memory's line costs more than the options reckon for one.
LEMMA LinesAreBounded ==
    ASSUME cfg \in Option, NEW bytes \in LineBytes(cfg)
    PROVE  /\ bytes \in Nat
           /\ Tokens(bytes) <= MaxLineTokens(cfg.chars, cfg.absolute)
<1> DEFINE side == cfg.chars
           last == IF cfg.absolute THEN 22 ELSE 10
<1>1. side \in Nat /\ side \in LineChars /\ cfg.absolute \in BOOLEAN
  BY BudgetAssumption DEF Option
<1>2. PICK stamp \in Stamps(cfg.absolute), u \in TextBytes(side), a \in TextBytes(side) :
        bytes = 3 + stamp + 2 + Side(u, side) + 11 + Side(a, side) + 1
  BY DEF LineBytes
<1>3. stamp \in Nat /\ stamp <= last
  <2>1. \A age \in AgeBytes : age \in Nat /\ age <= 10
    BY BudgetAssumption
  <2>2. CASE cfg.absolute
    BY <2>1, <2>2 DEF Stamps
  <2>3. CASE ~cfg.absolute
    BY <2>1, <2>3 DEF Stamps
  <2>4. QED
    BY <2>2, <2>3
<1>4. /\ Side(u, side) \in Nat /\ Side(u, side) <= side + 3
      /\ Side(a, side) \in Nat /\ Side(a, side) <= side + 3
  BY <1>1, BudgetAssumption DEF Side
<1> DEFINE most == 3 + last + 2 + 2 * (side + 3) + 11 + 1
<1>5. bytes \in Nat /\ most \in Nat /\ bytes <= most
  BY <1>1, <1>2, <1>3, <1>4
<1>6. MaxLineTokens(side, cfg.absolute) = Tokens(most)
  BY DEF MaxLineTokens
<1>7. QED
  BY <1>5, <1>6, TokensGrow
-----------------------------------------------------------------------------
(* Within the budget *)

LEMMA WrittenFits ==
    ASSUME BudgetInv, NEW bytes \in Nat, NEW heading \in Nat,
           plan.at \in {"facts", "memories"},
           Fits(bytes, HeadingTokens(heading))
    PROVE  LET new == Written(bytes, HeadingTokens(heading), heading)
           IN  /\ new \in [used : Nat, body : Nat, facts : Nat, lines : Nat]
               /\ new.body < 4 * new.used /\ new.used <= Space
               /\ new.facts = block.facts /\ new.lines = block.lines
               /\ new.used = block.used + HeadingTokens(heading) + Tokens(bytes)
<1> DEFINE new == Written(bytes, HeadingTokens(heading), heading)
<1>1. /\ block \in [used : Nat, body : Nat, facts : Nat, lines : Nat]
      /\ block.body <= 4 * block.used
  BY DEF BudgetInv, TypeInv, BlockInv, NoBlock
<1>2. Tokens(bytes) \in Nat /\ bytes < 4 * Tokens(bytes)
  BY TokensExceed
<1>3. HeadingTokens(heading) \in Nat /\ heading <= 4 * HeadingTokens(heading)
  <2>1. Tokens(heading) \in Nat /\ heading < 4 * Tokens(heading)
    BY TokensExceed
  <2>2. HeadingTokens(heading) = IF heading = 0 THEN 0 ELSE Tokens(heading)
    BY DEF HeadingTokens
  <2>3. QED
    BY <2>1, <2>2
<1> DEFINE used == block.used + HeadingTokens(heading) + Tokens(bytes)
           body == block.body + heading + bytes
<1>a. used \in Nat /\ body \in Nat
  BY <1>1, <1>2, <1>3
<1>b. new = [block EXCEPT !.used = used, !.body = body]
  BY DEF Written
<1>c. /\ new.used = used /\ new.body = body
      /\ new.facts = block.facts /\ new.lines = block.lines
      /\ new \in [used : Nat, body : Nat, facts : Nat, lines : Nat]
  <2> HIDE DEF used, body, new
  <2>1. QED
    BY <1>1, <1>a, <1>b
<1>4. /\ new.used = block.used + HeadingTokens(heading) + Tokens(bytes)
      /\ new.body = block.body + heading + bytes
      /\ new.facts = block.facts /\ new.lines = block.lines
      /\ new \in [used : Nat, body : Nat, facts : Nat, lines : Nat]
  BY <1>c
<1>5. new.used <= Space
  BY <1>4 DEF Fits
<1> HIDE DEF new
<1>6. new.body < 4 * new.used
  BY <1>1, <1>2, <1>3, <1>4
<1>7. QED
  BY <1>4, <1>5, <1>6 DEF new

LEMMA BudgetInvInit == BudgetInit => BudgetInv
<1> SUFFICES ASSUME BudgetInit PROVE BudgetInv
  OBVIOUS
<1>1. cfg \in Option
  BY DEF BudgetInit, Options, Option
<1>2. QED
  BY <1>1 DEF BudgetInit, BudgetInv, TypeInv, BlockInv, NoPlan, NoBlock, NoLimit

LEMMA BudgetInvNext == BudgetInv /\ [BudgetNext]_budgetVars => BudgetInv'
<1> SUFFICES ASSUME BudgetInv, [BudgetNext]_budgetVars PROVE BudgetInv'
  OBVIOUS
<1> USE DEF BudgetInv
<1>1. CASE Guard
  <2>1. MaxInject(cfg) \in Int /\ K(cfg) \in Nat
    BY MaxInjectIsInt, TablesAsk, BudgetAssumption DEF TypeInv, K, Option
  <2>2. PICK room \in Rooms :
          LET max == MaxInject(cfg)
              each == AtLeast(1, max \div AtLeast(1, K(cfg)))
          IN  plan' = [plan EXCEPT
                !.at = "search",
                !.room = room,
                !.budget = IF room = NoLimit THEN max ELSE AtMost(max, room),
                !.k = IF room # NoLimit /\ room < max
                      THEN AtLeast(1, room \div each) ELSE K(cfg)]
    BY <1>1 DEF Guard
  <2> DEFINE max == MaxInject(cfg)
             atLeastOne == AtLeast(1, K(cfg))
             each == AtLeast(1, max \div atLeastOne)
             k == IF room # NoLimit /\ room < max
                  THEN AtLeast(1, room \div each) ELSE K(cfg)
             budget == IF room = NoLimit THEN max ELSE AtMost(max, room)
  <2>3. room \in Int
    BY BudgetAssumption DEF NoLimit
  <2>4. atLeastOne \in Nat \ {0}
    BY <2>1 DEF AtLeast
  <2>5. max \div atLeastOne \in Int
    BY <2>1, <2>4
  <2>6. each \in Nat \ {0}
    BY <2>5 DEF AtLeast
  <2>7. room \div each \in Int
    BY <2>3, <2>6
  <2>8. k \in Nat
    BY <2>1, <2>7 DEF AtLeast
  <2>9. budget \in Int
    BY <2>1, <2>3 DEF AtMost
  <2>10. plan' = [plan EXCEPT !.at = "search", !.room = room,
                              !.budget = budget, !.k = k]
    BY <2>2
  <2> HIDE DEF max, each, k, budget, atLeastOne
  <2>11. block' = block /\ cfg' = cfg /\ block = NoBlock
    BY <1>1 DEF Guard, BlockInv
  <2>12. TypeInv'
    BY <2>3, <2>8, <2>9, <2>10, <2>11 DEF TypeInv
  <2>13. QED
    BY <2>11, <2>12 DEF BlockInv, NoBlock
<1>2. CASE Retrieve
  <2>1. PICK tercile \in 0..3, facts \in 0..MaxFacts :
          LET needed == NeededK(cfg, tercile)
              k == IF cfg.adaptive THEN AtMost(plan.k, needed) ELSE plan.k
          IN  \E offered \in 0..k :
                plan' = [plan EXCEPT
                  !.at = IF (offered = 0 /\ facts = 0) \/ Space <= 0 THEN "done"
                         ELSE IF facts = 0 THEN "memories" ELSE "facts",
                  !.offered = offered,
                  !.facts = facts]
    BY <1>2 DEF Retrieve
  <2> DEFINE k == IF cfg.adaptive THEN AtMost(plan.k, NeededK(cfg, tercile)) ELSE plan.k
  <2>2. PICK offered \in 0..k :
          plan' = [plan EXCEPT
            !.at = IF (offered = 0 /\ facts = 0) \/ Space <= 0 THEN "done"
                   ELSE IF facts = 0 THEN "memories" ELSE "facts",
            !.offered = offered,
            !.facts = facts]
    BY <2>1
  <2>3. k \in Nat
    BY TablesAsk DEF TypeInv, AtMost
  <2>4. offered \in Nat /\ facts \in Nat
    BY <2>3, BudgetAssumption
  <2>5. block' = block /\ cfg' = cfg /\ block = NoBlock /\ plan.at = "search"
    BY <1>2 DEF Retrieve, BlockInv
  <2>6. TypeInv'
    BY <2>2, <2>4, <2>5 DEF TypeInv
  <2>7. QED
    BY <2>5, <2>6 DEF BlockInv, NoBlock
<1>3. CASE WriteFact
  <2>1. PICK bytes \in FactBytes :
          /\ Fits(bytes, HeadingTokens(FactHeading))
          /\ block' = [Written(bytes, HeadingTokens(FactHeading), FactHeading)
                         EXCEPT !.facts = @ + 1]
    BY <1>3 DEF WriteFact
  <2>2. bytes \in Nat /\ FactHeading \in Nat /\ plan.at = "facts"
    BY <1>3, BudgetAssumption DEF WriteFact, FactHeading, FactsHeader
  <2>3. cfg' = cfg /\ plan' = plan
    BY <1>3 DEF WriteFact
  <2> DEFINE new == Written(bytes, HeadingTokens(FactHeading), FactHeading)
  <2>4. /\ new \in [used : Nat, body : Nat, facts : Nat, lines : Nat]
        /\ new.body < 4 * new.used /\ new.used <= Space
    BY <2>1, <2>2, WrittenFits
  <2>5. block' = [new EXCEPT !.facts = @ + 1]
    BY <2>1
  <2> HIDE DEF new
  <2>6. QED
    BY <2>2, <2>3, <2>4, <2>5 DEF TypeInv, BlockInv, Space
<1>4. CASE FactsEnd
  BY <1>4 DEF FactsEnd, TypeInv, BlockInv, Space
<1>5. CASE WriteMemory
  <2>1. PICK bytes \in LineBytes(cfg) :
          /\ Fits(bytes, HeadingTokens(MemoryHeading))
          /\ block' = [Written(bytes, HeadingTokens(MemoryHeading), MemoryHeading)
                         EXCEPT !.lines = @ + 1]
    BY <1>5 DEF WriteMemory
  <2>2. bytes \in Nat /\ MemoryHeading \in Nat /\ plan.at = "memories"
    BY <1>5, LinesAreBounded DEF WriteMemory, MemoryHeading, MemoriesHeader, TypeInv
  <2>3. cfg' = cfg /\ plan' = plan
    BY <1>5 DEF WriteMemory
  <2> DEFINE new == Written(bytes, HeadingTokens(MemoryHeading), MemoryHeading)
  <2>4. /\ new \in [used : Nat, body : Nat, facts : Nat, lines : Nat]
        /\ new.body < 4 * new.used /\ new.used <= Space
    BY <2>1, <2>2, WrittenFits
  <2>5. block' = [new EXCEPT !.lines = @ + 1]
    BY <2>1
  <2> HIDE DEF new
  <2>6. QED
    BY <2>2, <2>3, <2>4, <2>5 DEF TypeInv, BlockInv, Space
<1>6. CASE MemoriesEnd
  BY <1>6 DEF MemoriesEnd, TypeInv, BlockInv, Space
<1>7. CASE UNCHANGED budgetVars
  BY <1>7 DEF budgetVars, TypeInv, BlockInv, Space
<1>8. QED
  BY <1>1, <1>2, <1>3, <1>4, <1>5, <1>6, <1>7 DEF BudgetNext

LEMMA InvariantKeepsBudget == BudgetInv => BlockWithinBudget
<1> SUFFICES ASSUME BudgetInv, plan.at = "done", block.body > 0
             PROVE  Tokens(Header + block.body + Footer) <= plan.budget
  BY DEF BlockWithinBudget
<1>1. /\ block.used \in Nat /\ block.body \in Nat /\ plan.budget \in Int
      /\ block.body < 4 * block.used /\ block.used <= Space
  BY DEF BudgetInv, TypeInv, BlockInv, NoBlock
<1>2. Space = plan.budget - 17
  BY <1>1 DEF Space, Tokens, Header, Footer
<1>3. Tokens(Header + block.body + Footer) <= block.used + 16
  BY <1>1 DEF Tokens, Header, Footer
<1>4. QED
  BY <1>1, <1>2, <1>3 DEF Tokens, Header, Footer

(* The block as it is sent costs, by the estimate of its whole text, no more
   than the budget, for any options, facts, memories and context limit. *)
THEOREM BlockWithinBudgetEver == BudgetSpec => []BlockWithinBudget
<1>1. BudgetSpec => []BudgetInv
  BY BudgetInvInit, BudgetInvNext, PTL DEF BudgetSpec
<1>2. QED
  BY <1>1, InvariantKeepsBudget, PTL

-----------------------------------------------------------------------------
(* Enough for every calibrated memory *)

\* What CalibratedFit asks for and no step changes, with a budget that fits.
Sufficient ==
    /\ cfg.target # 0
    /\ cfg.absolute => cfg.explicit = Unset
    /\ ~WarnedAtStart(cfg)

\* Each line costs at most what the options reckon for one, and there is room
\* for all that are offered.
Paid ==
    LET each == MaxLineTokens(cfg.chars, cfg.absolute)
    IN  /\ plan.offered * each <= Space
        /\ block.lines <= plan.offered
        /\ block.used <= block.lines * each

FitInv ==
    Sufficient /\ plan.room = NoLimit =>
      /\ plan.at = "search" => plan.k = Deepest(cfg) /\ plan.budget = MaxInject(cfg)
      /\ plan.at \notin {"guard", "search"} /\ plan.facts = 0 =>
           /\ Paid
           /\ plan.at # "facts"
           /\ plan.at = "done" => block.lines = plan.offered

LEMMA BudgetSuffices ==
    ASSUME cfg \in Option, Sufficient
    PROVE  MaxInject(cfg) >=
             Deepest(cfg) * MaxLineTokens(cfg.chars, cfg.absolute) + 17
<1>1. Deepest(cfg) \in Nat /\ cfg.absolute \in BOOLEAN
  BY TablesAsk DEF Option
<1>2. /\ RequiredTokens(Deepest(cfg), cfg.chars, cfg.absolute) \in Nat
      /\ RequiredTokens(Deepest(cfg), cfg.chars, cfg.absolute)
           = Deepest(cfg) * MaxLineTokens(cfg.chars, cfg.absolute) + 17
  BY <1>1, RequiredIsNat
<1>3. MaxInject(cfg) \in Int
  BY MaxInjectIsInt
<1>4. MaxInject(cfg) >= RequiredTokens(Deepest(cfg), cfg.chars, cfg.absolute)
  <2>1. CASE cfg.explicit = Unset
    BY <2>1, <1>2 DEF MaxInject, AtLeast, Sufficient
  <2>2. CASE cfg.explicit # Unset
    <3>1. cfg.absolute = FALSE
      BY <2>2, <1>1 DEF Sufficient
    <3>2. ~(MaxInject(cfg) < RequiredTokens(Deepest(cfg), cfg.chars, FALSE))
      BY DEF Sufficient, WarnedAtStart
    <3>3. RequiredTokens(Deepest(cfg), cfg.chars, FALSE) \in Nat
      BY <1>2, <3>1
    <3>4. MaxInject(cfg) >= RequiredTokens(Deepest(cfg), cfg.chars, FALSE)
      <4> DEFINE need == RequiredTokens(Deepest(cfg), cfg.chars, FALSE)
      <4>1. need \in Nat /\ ~(MaxInject(cfg) < need)
        BY <3>2, <3>3
      <4> HIDE DEF need
      <4>2. MaxInject(cfg) >= need
        BY <1>3, <4>1
      <4>3. QED
        BY <4>2 DEF need
    <3>5. QED
      BY <3>1, <3>4
  <2>3. QED
    BY <2>1, <2>2
<1>5. QED
  BY <1>2, <1>4

LEMMA FitInvInit == BudgetInit => FitInv
  BY DEF BudgetInit, NoPlan, FitInv

LEMMA FitInvNext ==
    BudgetInv /\ FitInv /\ [BudgetNext]_budgetVars => FitInv'
<1> SUFFICES ASSUME BudgetInv, FitInv, [BudgetNext]_budgetVars,
                    Sufficient', (plan.room = NoLimit)'
             PROVE  /\ (plan.at = "search" => plan.k = Deepest(cfg)
                                               /\ plan.budget = MaxInject(cfg))'
                    /\ (plan.at \notin {"guard", "search"} /\ plan.facts = 0)' =>
                         /\ Paid'
                         /\ (plan.at # "facts")'
                         /\ (plan.at = "done" => block.lines = plan.offered)'
  BY DEF FitInv
<1> DEFINE each == MaxLineTokens(cfg.chars, cfg.absolute)
<1>a. cfg' = cfg /\ Sufficient /\ cfg \in Option /\ TypeInv
  BY DEF BudgetNext, budgetVars, Guard, Retrieve, WriteFact, FactsEnd, WriteMemory,
         MemoriesEnd, Sufficient, WarnedAtStart, BudgetInv, TypeInv
<1>b. each \in Nat /\ Deepest(cfg) \in Nat
  BY <1>a, LinesCost, TablesAsk DEF Option
<1>1. CASE Guard
  <2>1. plan.at = "guard" /\ plan'.at = "search"
    BY <1>1, <1>a DEF Guard, TypeInv
  <2>2. PICK room \in Rooms :
          /\ plan'.room = room
          /\ plan'.budget = IF room = NoLimit THEN MaxInject(cfg)
                                              ELSE AtMost(MaxInject(cfg), room)
          /\ room = NoLimit => plan'.k = K(cfg)
    BY <1>1, <1>a DEF Guard, TypeInv
  <2>3. plan'.budget = MaxInject(cfg) /\ plan'.k = K(cfg)
    BY <2>2
  <2>4. K(cfg) = Deepest(cfg)
    BY <1>a DEF K, Sufficient
  <2>5. QED
    BY <2>1, <2>3, <2>4, <1>a
<1>2. CASE Retrieve
  <2>1. /\ plan.at = "search" /\ plan.room = NoLimit
        /\ plan'.budget = plan.budget /\ block' = block /\ block = NoBlock
    BY <1>2, <1>a DEF Retrieve, TypeInv, BudgetInv, BlockInv
  <2>2. plan.k = Deepest(cfg) /\ plan.budget = MaxInject(cfg)
    BY <2>1, <1>a DEF FitInv
  <2>3. PICK tercile \in 0..3, facts \in 0..MaxFacts :
          LET k == IF cfg.adaptive THEN AtMost(plan.k, NeededK(cfg, tercile)) ELSE plan.k
          IN  \E offered \in 0..k :
                /\ plan'.offered = offered /\ plan'.facts = facts
                /\ plan'.at = IF (offered = 0 /\ facts = 0) \/ Space <= 0 THEN "done"
                              ELSE IF facts = 0 THEN "memories" ELSE "facts"
    BY <1>2, <1>a DEF Retrieve, TypeInv
  <2>4. \A t \in 0..3 : NeededK(cfg, t) \in Nat
    BY <1>a, TablesAsk
  <2>5. /\ plan'.offered \in Nat /\ plan'.offered <= Deepest(cfg)
        /\ plan'.facts = facts
        /\ plan'.at = IF (plan'.offered = 0 /\ facts = 0) \/ Space <= 0 THEN "done"
                      ELSE IF facts = 0 THEN "memories" ELSE "facts"
    BY <2>2, <2>3, <2>4, <1>b DEF AtMost
  <2>6. /\ plan'.offered * each \in Nat /\ Deepest(cfg) * each \in Nat
        /\ plan'.offered * each <= Deepest(cfg) * each
    BY <2>5, <1>b, Multiples
  <2>7. MaxInject(cfg) >= Deepest(cfg) * each + 17
    BY <1>a, BudgetSuffices
  <2>8. Space = MaxInject(cfg) - 17 /\ Space' = Space /\ MaxInject(cfg) \in Int
    BY <1>a, <2>1, <2>2, MaxInjectIsInt DEF Space, Tokens, Header, Footer
  <2>9. each # 0
    BY <1>a, LinesCost DEF Option
  <2>10. plan'.offered # 0 => Space > 0
    <3>1. CASE plan'.offered = 0
      BY <3>1
    <3>2. CASE plan'.offered # 0
      <4>1. 1 * each <= plan'.offered * each
        BY <3>2, <2>5, <1>b, Multiples
      <4> HIDE DEF each
      <4>2. QED
        BY <4>1, <2>6, <2>7, <2>8, <2>9, <1>b
    <3>3. QED
      BY <3>1, <3>2
  <2>11. block'.lines = 0 /\ block'.used = 0
    BY <2>1 DEF NoBlock
  <2> DEFINE offered == plan'.offered
  <2>12. Paid'
    <3>1. offered * each <= Space
      <4> HIDE DEF each, offered
      <4>1. QED
        BY <2>6, <2>7, <2>8, <1>b DEF offered
    <3>2. 0 * each = 0
      BY <1>b
    <3>3. QED
      BY <3>1, <3>2, <2>5, <2>8, <2>11, <1>a DEF Paid
  <2>13. plan'.at \in {"done", "memories", "facts"}
    BY <2>5
  <2>14. Space \in Int
    BY <2>8
  <2>15. ASSUME plan'.facts = 0
         PROVE  plan'.at # "facts" /\ (plan'.at = "done" => block'.lines = plan'.offered)
    <3>1. plan'.at = IF plan'.offered = 0 \/ Space <= 0 THEN "done" ELSE "memories"
      BY <2>5, <2>15
    <3>2. plan'.at = "done" => plan'.offered = 0
      BY <3>1, <2>10, <2>14
    <3>3. QED
      BY <3>1, <3>2, <2>11
  <2>16. QED
    BY <2>12, <2>13, <2>15
<1>3. CASE WriteFact \/ FactsEnd
  BY <1>3, <1>a DEF WriteFact, FactsEnd, FitInv, TypeInv
<1>4. CASE WriteMemory
  <2>1. /\ plan' = plan /\ plan.at = "memories"
        /\ block.lines < plan.offered
    BY <1>4 DEF WriteMemory
  <2>2. PICK bytes \in LineBytes(cfg) :
          /\ Fits(bytes, HeadingTokens(MemoryHeading))
          /\ block' = [Written(bytes, HeadingTokens(MemoryHeading), MemoryHeading)
                         EXCEPT !.lines = @ + 1]
    BY <1>4 DEF WriteMemory
  <2> SUFFICES ASSUME plan.facts = 0 PROVE Paid'
    BY <2>1
  <2>3. Paid
    BY <2>1, <1>a DEF FitInv
  <2>4. MemoryHeading = 0 /\ HeadingTokens(MemoryHeading) = 0
    BY DEF MemoryHeading, HeadingTokens
  <2>5. bytes \in Nat /\ Tokens(bytes) <= each /\ Tokens(bytes) \in Nat
    BY <1>a, LinesAreBounded, TokensExceed
  <2>6. /\ block.used \in Nat /\ block.lines \in Nat /\ plan.offered \in Nat
    BY <1>a DEF TypeInv
  <2>7. block'.used = block.used + Tokens(bytes) /\ block'.lines = block.lines + 1
    BY <2>2, <2>4, <2>5, <2>6, <1>a DEF Written, TypeInv
  <2>8. (block.lines + 1) * each = block.lines * each + each /\ block.lines * each \in Nat
    BY <2>6, <1>b, Multiples
  <2>9. block'.used <= block'.lines * each
    <3>1. block.used <= block.lines * each
      BY <2>3 DEF Paid
    <3> DEFINE one == block.lines * each
    <3>2. block'.lines * each = one + each
      BY <2>7, <2>8
    <3> HIDE DEF each, one
    <3>3. block'.used <= one + each
      BY <3>1, <2>5, <2>6, <2>7, <2>8, <1>b DEF one
    <3>4. QED
      BY <3>2, <3>3
  <2>10. block'.lines <= plan'.offered
    BY <2>1, <2>6, <2>7
  <2>11. QED
    BY <2>1, <2>3, <2>9, <2>10, <1>a DEF Paid, Space
<1>5. CASE MemoriesEnd
  <2>1. /\ block' = block /\ plan' = [plan EXCEPT !.at = "done"]
        /\ plan.at = "memories"
        /\ \/ block.lines = plan.offered
           \/ \E bytes \in LineBytes(cfg) : ~Fits(bytes, HeadingTokens(MemoryHeading))
    BY <1>5 DEF MemoriesEnd
  <2>2. plan'.at = "done" /\ plan'.facts = plan.facts /\ plan'.offered = plan.offered
        /\ plan'.budget = plan.budget /\ plan'.room = plan.room
    BY <2>1, <1>a DEF TypeInv
  <2> SUFFICES ASSUME plan.facts = 0
               PROVE  Paid' /\ block.lines = plan.offered
    BY <2>1, <2>2
  <2>3. Paid
    BY <2>1, <2>2, <1>a DEF FitInv
  <2>4. MemoryHeading = 0 /\ HeadingTokens(MemoryHeading) = 0
    BY DEF MemoryHeading, HeadingTokens
  <2>5. /\ block.used \in Nat /\ block.lines \in Nat /\ plan.offered \in Nat
        /\ plan.budget \in Int /\ Space \in Int
    BY <1>a DEF TypeInv, Space, Tokens, Header, Footer
  <2>6. ASSUME block.lines # plan.offered PROVE FALSE
    <3>1. PICK bytes \in LineBytes(cfg) : ~Fits(bytes, 0)
      BY <2>1, <2>4, <2>6
    <3>2. Tokens(bytes) <= each /\ Tokens(bytes) \in Nat
      BY <1>a, LinesAreBounded, TokensExceed
    <3>3. block.lines + 1 <= plan.offered
      BY <2>3, <2>5, <2>6 DEF Paid
    <3>4. /\ (block.lines + 1) * each <= plan.offered * each
          /\ (block.lines + 1) * each = block.lines * each + each
          /\ block.lines * each \in Nat /\ plan.offered * each \in Nat
      BY <3>3, <2>5, <1>b, Multiples
    <3>5. block.used <= block.lines * each /\ plan.offered * each <= Space
      BY <2>3 DEF Paid
    <3> DEFINE one == block.lines * each
               all == plan.offered * each
    <3> HIDE DEF each, one, all
    <3>6. one + each <= all /\ block.used <= one /\ all <= Space
      BY <3>4, <3>5 DEF one, all
    <3>7. one \in Nat /\ all \in Nat
      BY <3>4 DEF one, all
    <3>8. block.used + 0 + Tokens(bytes) <= Space
      BY <3>2, <3>6, <3>7, <2>5, <1>b
    <3>9. QED
      BY <3>1, <3>8 DEF Fits
  <2>7. QED
    BY <2>1, <2>2, <2>3, <2>6, <1>a DEF Paid, Space
<1>6. CASE UNCHANGED budgetVars
  BY <1>6, <1>a DEF budgetVars, FitInv, Paid, Space
<1>7. QED
  BY <1>1, <1>2, <1>3, <1>4, <1>5, <1>6 DEF BudgetNext

(* With a coverage target every memory the search offers is written, at any
   lengths of its sides, unless run() has warned, facts are shown,
   --max-context-tokens cuts, or an explicit budget meets --absolute-dates. *)
THEOREM CalibratedFitEver == BudgetSpec => []CalibratedFit
<1>1. BudgetInv /\ FitInv => CalibratedFit
  BY DEF FitInv, CalibratedFit, Sufficient
<1>2. BudgetSpec => [](BudgetInv /\ FitInv)
  BY BudgetInvInit, BudgetInvNext, FitInvInit, FitInvNext, PTL DEF BudgetSpec
<1>3. QED
  BY <1>1, <1>2, PTL

-----------------------------------------------------------------------------
(* The capture of a streamed answer. *)

\* Only a streamed answer streams; nothing is read or saved before it comes.
PathInv ==
    /\ at = "posted" => ~request.stream
    /\ at = "received" => got = 0 /\ ~enqueued
    /\ at \in {"posted", "streaming"} => ~enqueued

\* pending_sse begins where the last whole line ended.
PendingInv ==
    request.stream /\ request.endpoint = "messages" =>
      /\ parsed = LinesRead(got)
      /\ captured = {i \in texts : NewlineAt(i) <= got}

ChunksInv ==
    request.stream /\ request.endpoint = "chat" =>
      /\ got # 0 => got \in cuts
      /\ captured = {i \in texts : TailAt(i) <= got /\ HeadAt(i) \notin cuts}

SavedInv == request.stream /\ enqueued => saved = captured

CaptureInv ==
    /\ CaptureTypeOK
    /\ PathInv /\ PendingInv /\ ChunksInv /\ SavedInv

-----------------------------------------------------------------------------
(* One chunk *)

\* The whole lines of what pending_sse holds after a chunk are those that came
\* to their end with it.
LEMMA PendingLines ==
    ASSUME CaptureTypeOK, parsed = LinesRead(got),
           NEW to \in (got + 1)..(3 * N), NEW i \in texts
    PROVE  (NewlineAt(i) <= to) <=> (NewlineAt(i) <= got \/ i \in ReadPending(to))
<1>1. i \in Nat /\ i >= 1 /\ got \in Nat /\ to \in Nat /\ got < to
  BY LinesAssumption DEF CaptureTypeOK, Lines
<1>2. i \in ReadPending(to) <=>
        parsed + 1 <= 3 * i - 2 /\ 3 * i <= to
  <2>1. parsed \in Nat
    BY LinesAssumption DEF CaptureTypeOK
  <2>2. i \in ReadPending(to) <=> {3 * i - 2, 3 * i - 1, 3 * i} \subseteq (parsed + 1)..to
    BY DEF ReadPending, HeadAt, TailAt, NewlineAt
  <2>3. QED
    BY <1>1, <2>1, <2>2
<1>3. 3 * i > got => parsed + 1 <= 3 * i - 2
  BY <1>1 DEF LinesRead
<1>4. QED
  BY <1>1, <1>2, <1>3 DEF NewlineAt

\* A line of a chat stream is read if its text is in the chunk, and was not
\* begun in an earlier one.
LEMMA ChunkLines ==
    ASSUME CaptureTypeOK, got # 0 => got \in cuts,
           NEW to \in (got + 1)..(3 * N), NEW i \in texts
    PROVE  (TailAt(i) <= to /\ HeadAt(i) \notin cuts \cup {to})
             <=> \/ TailAt(i) <= got /\ HeadAt(i) \notin cuts
                 \/ i \in ReadChunk(got + 1, to)
<1>1. i \in Nat /\ i >= 1 /\ got \in Nat /\ to \in Nat /\ got < to
  BY LinesAssumption DEF CaptureTypeOK, Lines
<1>2. cuts \subseteq 0..got
  BY DEF CaptureTypeOK
<1>3. i \in ReadChunk(got + 1, to) <=> got + 1 <= 3 * i - 2 /\ 3 * i - 1 <= to
  <2>1. i \in ReadChunk(got + 1, to) <=> {3 * i - 2, 3 * i - 1} \subseteq (got + 1)..to
    BY DEF ReadChunk, HeadAt, TailAt
  <2>2. QED
    BY <1>1, <2>1
<1>4. HeadAt(i) = 3 * i - 2 /\ TailAt(i) = 3 * i - 1
  BY DEF HeadAt, TailAt
<1>5. CASE 3 * i - 1 <= got
  BY <1>1, <1>3, <1>4, <1>5
<1>6. CASE 3 * i - 2 = got
  BY <1>1, <1>3, <1>4, <1>6
<1>7. CASE 3 * i - 2 > got
  BY <1>1, <1>2, <1>3, <1>4, <1>7
<1>8. QED
  BY <1>1, <1>5, <1>6, <1>7

-----------------------------------------------------------------------------
LEMMA CaptureInvInit == CaptureInit => CaptureInv
<1> SUFFICES ASSUME CaptureInit PROVE CaptureInv
  OBVIOUS
<1>1. \A i \in texts : i \in Nat /\ i >= 1
  BY LinesAssumption DEF CaptureInit, Lines
<1>2. CaptureTypeOK
  <2>1. 0 \in 0..(3 * N) /\ 0 \in 0..0
    BY LinesAssumption
  <2>2. QED
    BY <2>1, Zenon DEF CaptureInit, CaptureTypeOK
<1>3. PendingInv
  BY <1>1 DEF CaptureInit, PendingInv, LinesRead, NewlineAt
<1>4. ChunksInv
  BY <1>1 DEF CaptureInit, ChunksInv, TailAt
<1>5. QED
  BY <1>2, <1>3, <1>4 DEF CaptureInit, CaptureInv, PathInv, SavedInv

LEMMA CaptureInvNext == CaptureInv /\ [CaptureNext]_captureVars => CaptureInv'
<1> SUFFICES ASSUME CaptureInv, [CaptureNext]_captureVars PROVE CaptureInv'
  OBVIOUS
<1> USE DEF CaptureInv
<1>1. CASE Refuse
  BY <1>1 DEF Refuse, CaptureTypeOK, PathInv, PendingInv, ChunksInv, SavedInv
<1>2. CASE Post
  BY <1>2 DEF Post, CaptureTypeOK, PathInv, PendingInv, ChunksInv, SavedInv
<1>3. CASE Unreachable
  BY <1>3 DEF Unreachable, CaptureTypeOK, PathInv, PendingInv, ChunksInv, SavedInv
<1>4. CASE BackendError
  BY <1>4 DEF BackendError, CaptureTypeOK, PathInv, PendingInv, ChunksInv, SavedInv
<1>5. CASE Answer
  <2>1. request' = request /\ ~request.stream
    BY <1>5 DEF Answer, PathInv
  <2>2. CaptureTypeOK'
    BY <1>5, LinesAssumption DEF Answer, CaptureTypeOK
  <2>3. PathInv'
    BY <1>5, <2>1 DEF Answer, PathInv, CaptureTypeOK
  <2>4. QED
    BY <2>1, <2>2, <2>3 DEF PendingInv, ChunksInv, SavedInv
<1>6. CASE End
  BY <1>6 DEF End, CaptureTypeOK, PathInv, PendingInv, ChunksInv, SavedInv
<1>7. ASSUME NEW to \in 1..(3 * N), Chunk(to) PROVE CaptureInv'
  <2>1. /\ to \in (got + 1)..(3 * N) /\ got \in Nat /\ to \in Nat
        /\ at = "streaming" /\ at' = at /\ ~enqueued /\ enqueued' = enqueued
        /\ request' = request /\ texts' = texts /\ saved' = saved
        /\ status' = status
        /\ got' = to /\ cuts' = cuts \cup {to}
    BY <1>7, LinesAssumption DEF Chunk, PathInv, CaptureTypeOK
  <2>2. CASE request.endpoint = "chat"
    <3>1. captured' = captured \cup ReadChunk(got + 1, to) /\ parsed' = parsed
      BY <1>7, <2>2 DEF Chunk
    <3>2. ChunksInv'
      <4> SUFFICES ASSUME request.stream
                   PROVE  captured' = {i \in texts : TailAt(i) <= to
                                                     /\ HeadAt(i) \notin cuts \cup {to}}
        BY <2>1, <2>2 DEF ChunksInv
      <4>1. /\ got # 0 => got \in cuts
            /\ captured = {i \in texts : TailAt(i) <= got /\ HeadAt(i) \notin cuts}
        BY <2>2 DEF ChunksInv
      <4>2. ReadChunk(got + 1, to) \subseteq texts
        BY DEF ReadChunk
      <4>3. QED
        BY <2>1, <3>1, <4>1, <4>2, ChunkLines
    <3>3. CaptureTypeOK'
      <4>1. ReadChunk(got + 1, to) \subseteq texts
        BY DEF ReadChunk
      <4>2. QED
        BY <2>1, <3>1, <4>1 DEF CaptureTypeOK
    <3>4. PendingInv' /\ SavedInv' /\ PathInv'
      BY <2>1, <2>2 DEF PendingInv, SavedInv, PathInv
    <3>5. QED
      BY <3>2, <3>3, <3>4
  <2>3. CASE request.endpoint # "chat"
    <3>1. captured' = captured \cup ReadPending(to) /\ parsed' = LinesRead(to)
      BY <1>7, <2>3 DEF Chunk
    <3>2. PendingInv'
      <4> SUFFICES ASSUME request.stream, request.endpoint = "messages"
                   PROVE  captured' = {i \in texts : NewlineAt(i) <= to}
        BY <2>1, <3>1 DEF PendingInv
      <4>1. /\ parsed = LinesRead(got)
            /\ captured = {i \in texts : NewlineAt(i) <= got}
        BY DEF PendingInv
      <4>2. ReadPending(to) \subseteq texts
        BY DEF ReadPending
      <4>3. QED
        BY <2>1, <3>1, <4>1, <4>2, PendingLines
    <3>3. CaptureTypeOK'
      <4>1. ReadPending(to) \subseteq texts
        BY DEF ReadPending
      <4>2. LinesRead(to) \in 0..to
        BY <2>1 DEF LinesRead
      <4>3. QED
        BY <2>1, <3>1, <4>1, <4>2 DEF CaptureTypeOK
    <3>4. ChunksInv' /\ SavedInv' /\ PathInv'
      BY <2>1, <2>3 DEF ChunksInv, SavedInv, PathInv
    <3>5. QED
      BY <3>2, <3>3, <3>4
  <2>4. QED
    BY <2>2, <2>3
<1>8. CASE UNCHANGED captureVars
  BY <1>8 DEF captureVars, CaptureTypeOK, PathInv, PendingInv, ChunksInv, SavedInv
<1>9. QED
  BY <1>1, <1>2, <1>3, <1>4, <1>5, <1>6, <1>7, <1>8 DEF CaptureNext

LEMMA CaptureInvEver == CaptureSpec => []CaptureInv
  BY CaptureInvInit, CaptureInvNext, PTL DEF CaptureSpec

(* Type correctness: nothing is read that did not come, nothing saved that was
   not on a line with text. *)
THEOREM CaptureTypeCorrect == CaptureSpec => []CaptureTypeOK
<1>1. CaptureInv => CaptureTypeOK
  BY DEF CaptureInv
<1>2. QED
  BY <1>1, CaptureInvEver, PTL

(* pending_sse loses and repeats nothing: a streamed /v1/messages answer is saved
   as the text of all its whole lines, however it was cut into chunks. *)
THEOREM MessagesSavedWholeEver == CaptureSpec => []MessagesSavedWhole
<1>1. CaptureInv => MessagesSavedWhole
  BY DEF CaptureInv, PendingInv, SavedInv, MessagesSavedWhole, Streamed
<1>2. QED
  BY <1>1, CaptureInvEver, PTL

(* A streamed chat answer is saved without the lines a chunk ended in, and only
   without those. *)
THEOREM ChatLosesCutLinesEver == CaptureSpec => []ChatLosesCutLines
<1>1. CaptureInv => ChatLosesCutLines
  BY DEF CaptureInv, ChunksInv, SavedInv, ChatLosesCutLines, Streamed
<1>2. QED
  BY <1>1, CaptureInvEver, PTL

-----------------------------------------------------------------------------
(* The calendar.

   A day number is taken apart as the program takes it: the era, its century,
   the four years, the year that begins in March, the month and the day.  A
   date goes to that place and back (DayNumber, RoundTrip), and the next page
   of the wall calendar is the next number (FollowsByOne), which makes the
   agreement inductive. *)

\* The days of the year, begun in March, before its month mp.
DaysBefore(mp) == (153 * mp + 2) \div 5
\* The number of a month in a year that begins in March.
FromMarch(month) == IF month > 2 THEN month - 3 ELSE month + 9

LEMMA Offsets ==
    /\ DaysBefore(0) = 0   /\ DaysBefore(1) = 31  /\ DaysBefore(2) = 61
    /\ DaysBefore(3) = 92  /\ DaysBefore(4) = 122 /\ DaysBefore(5) = 153
    /\ DaysBefore(6) = 184 /\ DaysBefore(7) = 214 /\ DaysBefore(8) = 245
    /\ DaysBefore(9) = 275 /\ DaysBefore(10) = 306 /\ DaysBefore(11) = 337
  BY DEF DaysBefore

LEMMA Lengths ==
    ASSUME NEW year, NEW month \in 1..12
    PROVE  DaysInMonth(year, month) =
             IF month = 2 THEN (IF IsLeapYear(year) THEN 29 ELSE 28)
             ELSE IF month \in {4, 6, 9, 11} THEN 30 ELSE 31
<1>1. \/ month = 1 \/ month = 2 \/ month = 3 \/ month = 4 \/ month = 5 \/ month = 6
      \/ month = 7 \/ month = 8 \/ month = 9 \/ month = 10 \/ month = 11 \/ month = 12
  OBVIOUS
<1> QED
  BY <1>1 DEF DaysInMonth

\* Year y is the r-th of the q-th four years of the c-th century of its era e.
Place(y, e, c, q, r) ==
    /\ e \in Int /\ c \in 0..3 /\ q \in 0..24 /\ r \in 0..3
    /\ y = 400 * e + 100 * c + 4 * q + r

LEMMA PlaceExists ==
    ASSUME NEW y \in Int
    PROVE  \E e \in Int, c \in 0..3, q \in 0..24, r \in 0..3 : Place(y, e, c, q, r)
<1> DEFINE e == y \div 400
           k == y % 400
           c == k \div 100
           l == k % 100
           q == l \div 4
           r == l % 4
<1>1. e \in Int /\ k \in 0..399 /\ y = 400 * e + k
  OBVIOUS
<1> HIDE DEF e, k
<1>2. c \in 0..3 /\ l \in 0..99 /\ k = 100 * c + l
  BY <1>1
<1> HIDE DEF c, l
<1>3. q \in 0..24 /\ r \in 0..3 /\ l = 4 * q + r
  BY <1>2
<1> HIDE DEF q, r
<1>4. Place(y, e, c, q, r)
  BY <1>1, <1>2, <1>3 DEF Place
<1> QED
  BY <1>1, <1>2, <1>3, <1>4

LEMMA EraOfYear ==
    ASSUME NEW e \in Int, NEW k \in 0..399, NEW y, y = 400 * e + k
    PROVE  FloorQuot(y, 400) = e
<1>1. CASE y >= 0
  <2>1. y \div 400 = e
    BY <1>1
  <2> QED
    BY <1>1, <2>1 DEF Quot, FloorQuot
<1>2. CASE ~(y >= 0)
  <2>1. (399 - y) \div 400 = -e
    BY <1>2
  <2>2. -(y - 399) = 399 - y /\ ~(y - 399 >= 0)
    BY <1>2
  <2> QED
    BY <1>2, <2>1, <2>2 DEF Quot, FloorQuot
<1> QED
  BY <1>1, <1>2

\* The k-th day of an era.
InEra(y, e, k) == e \in Int /\ k \in Int /\ 0 <= k /\ k <= 146096 /\ y = 146097 * e + k

LEMMA EraOfDay ==
    ASSUME NEW y, NEW e, NEW k, InEra(y, e, k)
    PROVE  FloorQuot(y, 146097) = e
<1> USE DEF InEra
<1>1. CASE y >= 0
  <2>1. y \div 146097 = e
    BY <1>1
  <2> QED
    BY <1>1, <2>1 DEF Quot, FloorQuot
<1>2. CASE ~(y >= 0)
  <2>1. (146096 - y) \div 146097 = -e
    BY <1>2
  <2>2. -(y - 146096) = 146096 - y /\ ~(y - 146096 >= 0)
    BY <1>2
  <2> QED
    BY <1>2, <2>1, <2>2 DEF Quot, FloorQuot
<1> QED
  BY <1>1, <1>2

LEMMA LeapPlace ==
    ASSUME NEW y, NEW e, NEW c, NEW q, NEW r, Place(y, e, c, q, r)
    PROVE  IsLeapYear(y + 1) <=> r = 3 /\ (q # 24 \/ c = 3)
<1> USE DEF Place
<1>1. \A a \in Int : /\ Rem(a, 4) = 0 <=> a % 4 = 0
                     /\ Rem(a, 100) = 0 <=> a % 100 = 0
                     /\ Rem(a, 400) = 0 <=> a % 400 = 0
  BY DEF Rem, Quot
<1>2. (y + 1) % 4 = 0 <=> r = 3
  OBVIOUS
<1>3. (y + 1) % 100 = 0 <=> r = 3 /\ q = 24
  OBVIOUS
<1>4. (y + 1) % 400 = 0 <=> r = 3 /\ q = 24 /\ c = 3
  OBVIOUS
<1>5. y + 1 \in Int
  OBVIOUS
<1> QED
  BY <1>1, <1>2, <1>3, <1>4, <1>5 DEF IsLeapYear

\* The days of its year, begun in March, before a day.
DayOfYear(month, day) == DaysBefore(FromMarch(month)) + day - 1

\* The year, begun in March, of a month.
MarchYear(year, month) == IF month <= 2 THEN year - 1 ELSE year

DayOfPlace(e, c, q, r, doy) ==
    146097 * e + 36524 * c + 1461 * q + 365 * r + doy - 719468

Valid(year, month, day) ==
    year \in Int /\ month \in 1..12 /\ day \in 1..DaysInMonth(year, month)

LEMMA MonthCases ==
    ASSUME NEW month \in 1..12
    PROVE  /\ FromMarch(month) \in 0..11
           /\ \/ month = 1 \/ month = 2 \/ month = 3 \/ month = 4 \/ month = 5 \/ month = 6
              \/ month = 7 \/ month = 8 \/ month = 9 \/ month = 10 \/ month = 11 \/ month = 12
           /\ FromMarch(1) = 10 /\ FromMarch(2) = 11 /\ FromMarch(3) = 0
           /\ FromMarch(4) = 1 /\ FromMarch(5) = 2 /\ FromMarch(6) = 3
           /\ FromMarch(7) = 4 /\ FromMarch(8) = 5 /\ FromMarch(9) = 6
           /\ FromMarch(10) = 7 /\ FromMarch(11) = 8 /\ FromMarch(12) = 9
  BY DEF FromMarch

LEMMA DayOfYearRange ==
    ASSUME NEW year, NEW month, NEW day, Valid(year, month, day)
    PROVE  /\ day \in 1..31 /\ DayOfYear(month, day) \in 0..365
           /\ DayOfYear(month, day) = 365 => month = 2 /\ IsLeapYear(year)
<1>1. month \in 1..12 /\ day \in 1..DaysInMonth(year, month)
  BY DEF Valid
<1>2. DaysInMonth(year, month) =
             IF month = 2 THEN (IF IsLeapYear(year) THEN 29 ELSE 28)
             ELSE IF month \in {4, 6, 9, 11} THEN 30 ELSE 31
  BY <1>1, Lengths
<1>3. day \in 1..31
  BY <1>1, <1>2
<1>4. DayOfYear(month, day) = DaysBefore(FromMarch(month)) + day - 1
  BY DEF DayOfYear
<1>5. CASE month = 2
  BY <1>1, <1>2, <1>3, <1>4, <1>5, MonthCases, Offsets
<1>6. CASE month # 2
  <2>1. DaysBefore(FromMarch(month)) \in 0..306
    BY <1>1, <1>6, MonthCases, Offsets
  <2>2. DaysBefore(FromMarch(month)) + day <= 337
    BY <1>1, <1>2, <1>6, MonthCases, Offsets
  <2> DEFINE b == DaysBefore(FromMarch(month))
  <2> HIDE DEF b
  <2>3. b \in 0..306 /\ b + day <= 337 /\ DayOfYear(month, day) = b + day - 1
    BY <1>4, <2>1, <2>2 DEF b
  <2> QED
    BY <1>3, <1>6, <2>3
<1> QED
  BY <1>3, <1>5, <1>6

LEMMA DayNumber ==
    ASSUME NEW year \in Int, NEW month \in 1..12, NEW day \in Int,
           NEW e, NEW c, NEW q, NEW r,
           Place(MarchYear(year, month), e, c, q, r)
    PROVE  DaysFromCivil(year, month, day) =
             DayOfPlace(e, c, q, r, DayOfYear(month, day))
<1> DEFINE y == MarchYear(year, month)
           k == 100 * c + 4 * q + r
           doy == DayOfYear(month, day)
<1>1. y = 400 * e + k /\ k \in 0..399 /\ e \in Int
      /\ c \in 0..3 /\ q \in 0..24 /\ r \in 0..3
  BY DEF Place
<1>2. FloorQuot(y, 400) = e
  <2> HIDE DEF y, k, doy
  <2> QED
    BY <1>1, EraOfYear
<1>3. y - e * 400 = k
  <2> HIDE DEF y, k
  <2> QED
    BY <1>1
<1>4. k \div 4 = 25 * c + q /\ k \div 100 = c
  BY <1>1
<1>5. doy = DaysBefore(FromMarch(month)) + day - 1 /\ doy \in Int
  BY MonthCases, Offsets DEF DayOfYear
<1>6. DaysFromCivil(year, month, day) =
        e * 146097 + (k * 365 + k \div 4 - k \div 100 + doy) - 719468
  <2>1. y = IF month <= 2 THEN year - 1 ELSE year
    BY DEF MarchYear
  <2> HIDE DEF y, k, doy
  <2> QED
    BY <1>2, <1>3, <1>5, <2>1 DEF DaysFromCivil, DaysBefore, FromMarch
<1> HIDE DEF doy
<1> QED
  BY <1>1, <1>4, <1>5, <1>6 DEF DayOfPlace, doy

\* A day of the year that the place has: the 366th only of a leap year's February.
FitsEra(c, q, r, doy) ==
    doy \in 0..365 /\ (doy = 365 => r = 3 /\ (q # 24 \/ c = 3))

LEMMA By1460 ==
    ASSUME NEW a \in Int, NEW b \in 0..1556
    PROVE  (1460 * a + b) \div 1460 = IF b >= 1460 THEN a + 1 ELSE a
<1>1. CASE b >= 1460
  <2>1. (1460 * a + b) \div 1460 = a + 1
    BY <1>1
  <2> QED
    BY <1>1, <2>1
<1>2. CASE ~(b >= 1460)
  <2>1. (1460 * a + b) \div 1460 = a
    BY <1>2
  <2> QED
    BY <1>2, <2>1
<1> QED
  BY <1>1, <1>2

\* A day of an era is the b-th of its c-th century.
InCentury(doe, c, b) ==
    /\ c \in 0..3 /\ b \in Int /\ 0 <= b /\ b <= 36524 /\ (b = 36524 => c = 3)
    /\ doe \in Int /\ doe = 36524 * c + b

LEMMA ByCentury ==
    ASSUME NEW doe, NEW c, NEW b, InCentury(doe, c, b)
    PROVE  /\ 0 <= doe /\ doe <= 146096
           /\ doe \div 36524 - doe \div 146096 = c
<1> USE DEF InCentury
<1>1. CASE b = 36524
  <2>1. c = 3 /\ doe = 146096
    BY <1>1
  <2>2. 146096 \div 36524 = 4 /\ 146096 \div 146096 = 1
    OBVIOUS
  <2>3. doe \div 36524 - doe \div 146096 = 3
    BY <2>1, <2>2
  <2> QED
    BY <2>1, <2>3
<1>2. CASE b # 36524
  <2>1. b \in Int /\ 0 <= b /\ b <= 36523
    BY <1>2
  <2>2. doe \div 36524 = c
    BY <2>1
  <2>3. 0 <= doe /\ doe <= 146095
    BY <2>1
  <2>4. doe \div 146096 = 0
    BY <2>3
  <2>5. doe \div 36524 - doe \div 146096 = c
    BY <2>2, <2>4
  <2> QED
    BY <2>3, <2>5
<1> QED
  BY <1>1, <1>2

LEMMA By365 ==
    ASSUME NEW a \in Int, NEW b \in 0..364
    PROVE  (365 * a + b) \div 365 = a
  OBVIOUS

LEMMA YearBack ==
    ASSUME NEW c \in 0..3, NEW q \in 0..24, NEW r \in 0..3, NEW doy, FitsEra(c, q, r, doy),
           NEW doe, doe = 36524 * c + 1461 * q + 365 * r + doy
    PROVE  /\ doe \in Int /\ 0 <= doe /\ doe <= 146096
           /\ (doe - doe \div 1460 + doe \div 36524 - doe \div 146096) \div 365
                = 100 * c + 4 * q + r
<1> DEFINE rest == 1461 * q + 365 * r + doy
           early == 24 * c + q + 365 * r + doy
           f == IF early >= 1460 THEN 1 ELSE 0
           yoe == 100 * c + 4 * q + r
<1>0. doy \in 0..365 /\ (doy = 365 => r = 3 /\ (q # 24 \/ c = 3))
  BY DEF FitsEra
<1>1. rest \in Int /\ 0 <= rest /\ rest <= 36524
  BY <1>0
<1>2. rest = 36524 => c = 3
  BY <1>0
<1>3. early \in 0..1556
  <2>1. early \in Int /\ 0 <= early /\ early <= 1556
    BY <1>0
  <2> HIDE DEF early
  <2> QED
    BY <2>1
<1>4. doe = 36524 * c + rest /\ doe \in Int
  BY <1>0
<1>5. doe = 1460 * (25 * c + q) + early
  BY <1>0
<1>6. f \in {0, 1} /\ (doy = 365 => f = 1) /\ (f = 1 => doy > 0)
  BY <1>0
<1>7. 0 <= doe /\ doe <= 146096 /\ doe \div 36524 - doe \div 146096 = c
  <2> HIDE DEF rest
  <2>1. InCentury(doe, c, rest)
    BY <1>1, <1>2, <1>4 DEF InCentury
  <2> QED
    BY <2>1, ByCentury
<1>8. doe \div 1460 = 25 * c + q + f
  <2>1. 25 * c + q \in Int
    OBVIOUS
  <2>2. f = 1 <=> early >= 1460
    OBVIOUS
  <2> DEFINE a == 25 * c + q
  <2> HIDE DEF a, early, f
  <2>3. a \in Int /\ doe = 1460 * a + early
    BY <1>5, <2>1 DEF a
  <2>4. (1460 * a + early) \div 1460 = IF early >= 1460 THEN a + 1 ELSE a
    BY <1>3, <2>3, By1460
  <2>5. doe \div 1460 = a + f
    BY <1>6, <2>2, <2>3, <2>4
  <2> QED
    BY <2>5 DEF a
<1>9. doy - f \in 0..364 /\ yoe \in Int
  <2>1. yoe \in Int
    OBVIOUS
  <2> HIDE DEF f, yoe
  <2> QED
    BY <1>0, <1>6, <2>1
<1>10. doe - (25 * c + q + f) + c = 365 * yoe + (doy - f)
  <2> HIDE DEF f
  <2> QED
    BY <1>0, <1>6
<1>11. (365 * yoe + (doy - f)) \div 365 = yoe
  <2> DEFINE b == doy - f
  <2>1. b \in 0..364 /\ yoe \in Int
    BY <1>9
  <2> HIDE DEF f, yoe, b
  <2>2. (365 * yoe + b) \div 365 = yoe
    BY <2>1, By365
  <2> QED
    BY <2>2 DEF b
<1>12. doe - doe \div 1460 + doe \div 36524 - doe \div 146096 = 365 * yoe + (doy - f)
  <2> DEFINE x == doe \div 36524
             z == doe \div 146096
  <2>1. x \in Int /\ z \in Int /\ f \in Int
    BY <1>4, <1>6
  <2>2. x - z = c
    BY <1>7
  <2> HIDE DEF x, z, f, yoe
  <2>3. doe - (25 * c + q + f) + x - z = 365 * yoe + (doy - f)
    BY <1>4, <1>10, <2>1, <2>2
  <2> QED
    BY <1>8, <2>3 DEF x, z
<1> HIDE DEF f, yoe
<1>13. (doe - doe \div 1460 + doe \div 36524 - doe \div 146096) \div 365 = yoe
  BY <1>11, <1>12
<1> QED
  BY <1>7, <1>13 DEF yoe

LEMMA MonthBack ==
    ASSUME NEW year, NEW month, NEW day, Valid(year, month, day)
    PROVE  LET doy == DayOfYear(month, day)
               mp == FromMarch(month)
           IN  /\ (5 * doy + 2) \div 153 = mp
               /\ month = IF mp < 10 THEN mp + 3 ELSE mp - 9
               /\ day = doy - DaysBefore(mp) + 1
<1>1. month \in 1..12 /\ day \in 1..DaysInMonth(year, month)
  BY DEF Valid
<1>2. DaysInMonth(year, month) =
             IF month = 2 THEN (IF IsLeapYear(year) THEN 29 ELSE 28)
             ELSE IF month \in {4, 6, 9, 11} THEN 30 ELSE 31
  BY <1>1, Lengths
<1>3. (5 * DayOfYear(month, day) + 2) \div 153 = FromMarch(month)
  <2> DEFINE mp == FromMarch(month)
             doy == DayOfYear(month, day)
  <2>0. doy = DaysBefore(mp) + day - 1 /\ mp \in 0..11 /\ day \in Int
    BY <1>1, <1>2, MonthCases DEF DayOfYear
  <2>1. 153 * mp <= 5 * doy + 2 /\ 5 * doy + 2 < 153 * mp + 153 /\ doy \in Int /\ mp \in Int
    <3>1. 153 * mp <= 5 * DaysBefore(mp) + 2 /\ DaysBefore(mp) \in Int
      BY <2>0 DEF DaysBefore
    <3>2. 1 <= day
      BY <1>1, <1>2
    <3>3. 5 * (DaysBefore(mp) + DaysInMonth(year, month)) - 3 < 153 * mp + 153
      BY <1>1, <1>2, MonthCases, Offsets
    <3>4. day <= DaysInMonth(year, month) /\ DaysInMonth(year, month) \in Int
      BY <1>1, <1>2
    <3> HIDE DEF mp, doy
    <3> QED
      BY <2>0, <3>1, <3>2, <3>3, <3>4
  <2> HIDE DEF mp, doy
  <2>2. (5 * doy + 2) \div 153 = mp
    BY <2>1
  <2> QED
    BY <2>2 DEF mp, doy
<1>4. month = IF FromMarch(month) < 10 THEN FromMarch(month) + 3 ELSE FromMarch(month) - 9
  BY <1>1 DEF FromMarch
<1>5. day = DayOfYear(month, day) - DaysBefore(FromMarch(month)) + 1
  BY <1>1, MonthCases, Offsets DEF DayOfYear
<1> QED
  BY <1>3, <1>4, <1>5

(* The conversions are each other's inverse on the days there are. *)
LEMMA RoundTrip ==
    ASSUME NEW year, NEW month, NEW day, Valid(year, month, day)
    PROVE  /\ DaysFromCivil(year, month, day) \in Int
           /\ CivilFromDays(DaysFromCivil(year, month, day)) =
                [year |-> year, month |-> month, day |-> day]
<1> DEFINE y == MarchYear(year, month)
           doy == DayOfYear(month, day)
           mp == FromMarch(month)
<1>1. /\ year \in Int /\ month \in 1..12 /\ day \in 1..31 /\ doy \in 0..365
      /\ doy = 365 => month = 2 /\ IsLeapYear(year)
  BY DayOfYearRange DEF Valid
<1>2. y \in Int
  BY <1>1 DEF MarchYear
<1>3. PICK e, c, q, r : Place(y, e, c, q, r)
  BY <1>2, PlaceExists
<1>4. /\ e \in Int /\ c \in 0..3 /\ q \in 0..24 /\ r \in 0..3
      /\ y = 400 * e + 100 * c + 4 * q + r
  BY <1>3 DEF Place
<1> DEFINE doe == 36524 * c + 1461 * q + 365 * r + doy
           number == DaysFromCivil(year, month, day)
           yoe == 100 * c + 4 * q + r
<1>5. number + 719468 = 146097 * e + doe /\ number \in Int
  <2>1. day \in Int
    BY <1>1
  <2>2. number = DayOfPlace(e, c, q, r, doy)
    BY <1>1, <1>3, <2>1, DayNumber
  <2> HIDE DEF number, doy
  <2> QED
    BY <1>1, <1>4, <2>2 DEF DayOfPlace
<1>6. FitsEra(c, q, r, doy)
  <2>1. doy = 365 => y + 1 = year
    BY <1>1 DEF MarchYear
  <2>2. IsLeapYear(y + 1) <=> r = 3 /\ (q # 24 \/ c = 3)
    BY <1>3, LeapPlace
  <2> HIDE DEF doy, y
  <2> QED
    BY <1>1, <2>1, <2>2 DEF FitsEra
<1>7. /\ doe \in Int /\ 0 <= doe /\ doe <= 146096
      /\ (doe - doe \div 1460 + doe \div 36524 - doe \div 146096) \div 365 = yoe
  <2>1. doe = 36524 * c + 1461 * q + 365 * r + doy
    OBVIOUS
  <2> HIDE DEF doe, doy
  <2>2. /\ doe \in Int /\ 0 <= doe /\ doe <= 146096
        /\ (doe - doe \div 1460 + doe \div 36524 - doe \div 146096) \div 365
             = 100 * c + 4 * q + r
    BY <1>4, <1>6, <2>1, YearBack
  <2> QED
    BY <2>2
<1>8. yoe \div 4 = 25 * c + q /\ yoe \div 100 = c /\ yoe \in 0..399
  BY <1>4
<1>9. doe - (365 * yoe + yoe \div 4 - yoe \div 100) = doy
  <2> HIDE DEF doy
  <2> QED
    BY <1>1, <1>4, <1>8
<1>10. /\ (5 * doy + 2) \div 153 = mp
       /\ month = IF mp < 10 THEN mp + 3 ELSE mp - 9
       /\ day = doy - DaysBefore(mp) + 1
  BY MonthBack
<1> HIDE DEF number, doe, doy, mp, yoe
<1>11. /\ FloorQuot(number + 719468, 146097) = e
       /\ (number + 719468) - e * 146097 = doe
  <2> DEFINE days == number + 719468
  <2>1. days = 146097 * e + doe
    BY <1>5
  <2> HIDE DEF days
  <2>2. FloorQuot(days, 146097) = e
    <3>1. InEra(days, e, doe)
      <4>1. doe \in Int /\ 0 <= doe /\ doe <= 146096
        BY <1>7
      <4>2. e \in Int
        BY <1>4
      <4> QED
        BY <2>1, <4>1, <4>2 DEF InEra
    <3> QED
      BY <3>1, EraOfDay
  <2>3. days - e * 146097 = doe
    BY <1>4, <1>7, <2>1
  <2> QED
    BY <2>2, <2>3 DEF days
<1>12. CivilFromDays(number) =
         [year |-> IF month <= 2 THEN yoe + e * 400 + 1 ELSE yoe + e * 400,
          month |-> month, day |-> day]
  BY <1>7, <1>9, <1>10, <1>11 DEF CivilFromDays, DaysBefore
<1>13. (IF month <= 2 THEN yoe + e * 400 + 1 ELSE yoe + e * 400) = year
  <2>1. y = 400 * e + yoe
    BY <1>4 DEF yoe
  <2> HIDE DEF y
  <2>2. y = IF month <= 2 THEN year - 1 ELSE year
    BY DEF y, MarchYear
  <2> QED
    BY <1>1, <1>4, <1>8, <2>1, <2>2
<1> QED
  BY <1>5, <1>12, <1>13 DEF number

(* The day after the last of a month. *)
LEMMA MonthEnds ==
    ASSUME NEW year, NEW month, Valid(year, month, DaysInMonth(year, month)),
           NEW nextYear, NEW nextMonth,
           IF month < 12 THEN nextYear = year /\ nextMonth = month + 1
                         ELSE nextYear = year + 1 /\ nextMonth = 1
    PROVE  /\ Valid(nextYear, nextMonth, 1)
           /\ DaysFromCivil(nextYear, nextMonth, 1) =
                DaysFromCivil(year, month, DaysInMonth(year, month)) + 1
<1> DEFINE long == DaysInMonth(year, month)
           y == MarchYear(year, month)
           z == MarchYear(nextYear, nextMonth)
<1>1. /\ year \in Int /\ month \in 1..12 /\ long \in Int
      /\ nextYear \in Int /\ nextMonth \in 1..12 /\ y \in Int
  <2>1. year \in Int /\ month \in 1..12
    BY DEF Valid
  <2>2. long \in Int
    BY <2>1, Lengths
  <2>3. nextYear \in Int /\ nextMonth \in 1..12
    BY <2>1
  <2> QED
    BY <2>1, <2>2, <2>3 DEF MarchYear
<1>2. long = IF month = 2 THEN (IF IsLeapYear(year) THEN 29 ELSE 28)
             ELSE IF month \in {4, 6, 9, 11} THEN 30 ELSE 31
  BY <1>1, Lengths
<1>3. Valid(nextYear, nextMonth, 1)
  <2>1. DaysInMonth(nextYear, nextMonth) \in Int /\ 1 <= DaysInMonth(nextYear, nextMonth)
    BY <1>1, Lengths
  <2>2. 1 \in 1..DaysInMonth(nextYear, nextMonth)
    BY <2>1
  <2> QED
    BY <1>1, <2>2 DEF Valid
<1>4. PICK e, c, q, r : Place(y, e, c, q, r)
  BY <1>1, PlaceExists
<1>5. DaysFromCivil(year, month, long) =
        DayOfPlace(e, c, q, r, DayOfYear(month, long))
  BY <1>1, <1>4, DayNumber
<1>6. ASSUME NEW f, NEW b, NEW p, NEW s, Place(z, f, b, p, s)
      PROVE  DaysFromCivil(nextYear, nextMonth, 1) =
               DayOfPlace(f, b, p, s, DayOfYear(nextMonth, 1))
  BY <1>1, <1>6, DayNumber
<1>7. CASE month # 2
  <2>1. z = y
    BY <1>1, <1>7 DEF MarchYear
  <2>2. DayOfYear(nextMonth, 1) = DayOfYear(month, long) + 1
    <3> HIDE DEF long
    <3>1. CASE month = 12
      BY <1>1, <1>2, <3>1, MonthCases, Offsets DEF DayOfYear
    <3>2. CASE month < 12
      <4>1. nextMonth = month + 1
        BY <3>2
      <4> QED
        BY <1>1, <1>2, <1>7, <3>2, <4>1, MonthCases, Offsets DEF DayOfYear
    <3> QED
      BY <1>1, <3>1, <3>2
  <2>3. DayOfYear(month, long) \in Int
    <3> HIDE DEF long
    <3> QED
      BY <1>1, MonthCases, Offsets DEF DayOfYear
  <2>4. DaysFromCivil(nextYear, nextMonth, 1) =
               DayOfPlace(e, c, q, r, DayOfYear(nextMonth, 1))
    BY <1>4, <1>6, <2>1
  <2> HIDE DEF long
  <2> QED
    BY <1>3, <1>4, <1>5, <2>2, <2>3, <2>4 DEF DayOfPlace, Place, long
<1>8. CASE month = 2
  <2>1. y = year - 1 /\ z = year /\ nextMonth = 3
    BY <1>1, <1>8 DEF MarchYear
  <2>2. /\ e \in Int /\ c \in 0..3 /\ q \in 0..24 /\ r \in 0..3
        /\ year = 400 * e + 100 * c + 4 * q + r + 1
    <3>1. /\ e \in Int /\ c \in 0..3 /\ q \in 0..24 /\ r \in 0..3
          /\ y = 400 * e + 100 * c + 4 * q + r
      BY <1>4 DEF Place
    <3> QED
      BY <1>1, <2>1, <3>1
  <2>3. DayOfYear(nextMonth, 1) = 0
    BY <2>1, MonthCases, Offsets DEF DayOfYear
  <2>4. DayOfYear(month, long) = IF r = 3 /\ (q # 24 \/ c = 3) THEN 365 ELSE 364
    <3>1. year = y + 1
      BY <1>1, <2>1
    <3>2. IsLeapYear(year) <=> r = 3 /\ (q # 24 \/ c = 3)
      BY <1>4, <3>1, LeapPlace
    <3>3. DayOfYear(month, long) = 337 + long - 1
      BY <1>1, <1>8, MonthCases, Offsets DEF DayOfYear
    <3> HIDE DEF long
    <3> QED
      BY <1>2, <1>8, <3>2, <3>3
  <2> DEFINE before == DayOfPlace(e, c, q, r, DayOfYear(month, long))
             after == DaysFromCivil(nextYear, nextMonth, 1)
  <2>5. after = before + 1
    <3>1. CASE r # 3
      <4>1. Place(z, e, c, q, r + 1)
        BY <2>1, <2>2, <3>1 DEF Place
      <4>2. after = DayOfPlace(e, c, q, r + 1, 0)
        BY <1>6, <2>3, <4>1
      <4>3. before = DayOfPlace(e, c, q, r, 364)
        BY <2>4, <3>1
      <4> HIDE DEF after, before
      <4> QED
        BY <2>2, <4>2, <4>3 DEF DayOfPlace
    <3>2. CASE r = 3 /\ q # 24
      <4>1. Place(z, e, c, q + 1, 0)
        BY <2>1, <2>2, <3>2 DEF Place
      <4>2. after = DayOfPlace(e, c, q + 1, 0, 0)
        BY <1>6, <2>3, <4>1
      <4>3. before = DayOfPlace(e, c, q, r, 365)
        BY <2>4, <3>2
      <4> HIDE DEF after, before
      <4> QED
        BY <2>2, <3>2, <4>2, <4>3 DEF DayOfPlace
    <3>3. CASE r = 3 /\ q = 24 /\ c # 3
      <4>1. Place(z, e, c + 1, 0, 0)
        BY <2>1, <2>2, <3>3 DEF Place
      <4>2. after = DayOfPlace(e, c + 1, 0, 0, 0)
        BY <1>6, <2>3, <4>1
      <4>3. before = DayOfPlace(e, c, q, r, 364)
        BY <2>4, <3>3
      <4> HIDE DEF after, before
      <4> QED
        BY <2>2, <3>3, <4>2, <4>3 DEF DayOfPlace
    <3>4. CASE r = 3 /\ q = 24 /\ c = 3
      <4>1. Place(z, e + 1, 0, 0, 0)
        BY <2>1, <2>2, <3>4 DEF Place
      <4>2. after = DayOfPlace(e + 1, 0, 0, 0, 0)
        BY <1>6, <2>3, <4>1
      <4>3. before = DayOfPlace(e, c, q, r, 365)
        BY <2>4, <3>4
      <4> HIDE DEF after, before
      <4> QED
        BY <2>2, <3>4, <4>2, <4>3 DEF DayOfPlace
    <3> QED
      BY <3>1, <3>2, <3>3, <3>4
  <2> QED
    BY <1>3, <1>5, <2>5
<1> QED
  BY <1>7, <1>8

(* The day after any other. *)
LEMMA DayAfter ==
    ASSUME NEW year, NEW month, NEW day, Valid(year, month, day),
           day < DaysInMonth(year, month)
    PROVE  /\ Valid(year, month, day + 1)
           /\ DaysFromCivil(year, month, day + 1) = DaysFromCivil(year, month, day) + 1
<1> DEFINE y == MarchYear(year, month)
<1>1. year \in Int /\ month \in 1..12 /\ day \in Int /\ y \in Int /\ 1 <= day
      /\ DaysInMonth(year, month) \in Int
  <2>1. year \in Int /\ month \in 1..12 /\ day \in 1..31
    BY DayOfYearRange DEF Valid
  <2>2. DaysInMonth(year, month) \in Int
    BY <2>1, Lengths
  <2> QED
    BY <2>1, <2>2 DEF MarchYear
<1>2. PICK e, c, q, r : Place(y, e, c, q, r)
  BY <1>1, PlaceExists
<1>3. DaysFromCivil(year, month, day) = DayOfPlace(e, c, q, r, DayOfYear(month, day))
  BY <1>1, <1>2, DayNumber
<1>4. DaysFromCivil(year, month, day + 1)
        = DayOfPlace(e, c, q, r, DayOfYear(month, day + 1))
  <2>1. day + 1 \in Int
    BY <1>1
  <2> QED
    BY <1>1, <1>2, <2>1, DayNumber
<1>5. DayOfYear(month, day + 1) = DayOfYear(month, day) + 1 /\ DayOfYear(month, day) \in Int
  BY <1>1, MonthCases, Offsets DEF DayOfYear
<1>6. Valid(year, month, day + 1)
  BY <1>1 DEF Valid
<1> QED
  BY <1>2, <1>3, <1>4, <1>5, <1>6 DEF DayOfPlace, Place

-----------------------------------------------------------------------------
(* The walk *)

DateInv ==
    /\ date \in [year : Int, month : Int, day : Int]
    /\ Valid(date.year, date.month, date.day)
    /\ DaysFromCivil(date.year, date.month, date.day) = today
    /\ weekday \in 0..6 /\ today \in Int
    /\ \E week \in Int : today + 3 = 7 * week + weekday

LEMMA InitDate == CalendarInit => DateInv
<1> SUFFICES ASSUME CalendarInit PROVE DateInv
  OBVIOUS
<1>1. PICK era \in Int :
        /\ today = 146097 * era
        /\ date = [year |-> 1970 + 400 * era, month |-> 1, day |-> 1]
        /\ weekday = 3
  BY CalendarAssumption DEF CalendarInit, FirstDay, DaysInEra
<1> DEFINE year == 1970 + 400 * era
<1>2. year \in Int /\ today \in Int
  BY <1>1
<1>3. Valid(year, 1, 1)
  <2>1. DaysInMonth(year, 1) = 31
    BY Lengths
  <2> QED
    BY <1>2, <2>1 DEF Valid
<1>4. DaysFromCivil(year, 1, 1) = today
  <2>1. Place(MarchYear(year, 1), era + 4, 3, 17, 1)
    BY DEF Place, MarchYear
  <2>2. DaysFromCivil(year, 1, 1) = DayOfPlace(era + 4, 3, 17, 1, DayOfYear(1, 1))
    BY <1>2, <2>1, DayNumber
  <2>3. DayOfYear(1, 1) = 306
    BY MonthCases, Offsets DEF DayOfYear
  <2> HIDE DEF year
  <2> QED
    BY <1>1, <2>2, <2>3 DEF DayOfPlace
<1>5. \E week \in Int : today + 3 = 7 * week + weekday
  <2>1. today + 3 = 7 * (20871 * era) + 3 /\ 20871 * era \in Int
    BY <1>1
  <2> QED
    BY <1>1, <2>1
<1> QED
  BY <1>1, <1>2, <1>3, <1>4, <1>5 DEF DateInv

\* The page that follows another on the wall calendar.
FollowsPage(next, page) ==
    \/ /\ page.day < DaysInMonth(page.year, page.month)
       /\ next.year = page.year /\ next.month = page.month /\ next.day = page.day + 1
    \/ /\ page.day = DaysInMonth(page.year, page.month)
       /\ next.day = 1
       /\ IF page.month < 12 THEN next.year = page.year /\ next.month = page.month + 1
                             ELSE next.year = page.year + 1 /\ next.month = 1

LEMMA FollowsByOne ==
    ASSUME NEW page, NEW next, FollowsPage(next, page), Valid(page.year, page.month, page.day)
    PROVE  /\ Valid(next.year, next.month, next.day)
           /\ DaysFromCivil(next.year, next.month, next.day) =
                DaysFromCivil(page.year, page.month, page.day) + 1
<1>1. CASE page.day < DaysInMonth(page.year, page.month)
           /\ next.year = page.year /\ next.month = page.month /\ next.day = page.day + 1
  BY <1>1, DayAfter
<1>2. CASE /\ page.day = DaysInMonth(page.year, page.month)
           /\ next.day = 1
           /\ IF page.month < 12 THEN next.year = page.year /\ next.month = page.month + 1
                                 ELSE next.year = page.year + 1 /\ next.month = 1
  BY <1>2, MonthEnds
<1> QED
  BY <1>1, <1>2 DEF FollowsPage

\* The day falls on the weekday.
OnWeekday(day, w) == w \in 0..6 /\ \E week \in Int : day + 3 = 7 * week + w

LEMMA WeekdaysFollow ==
    ASSUME NEW day \in Int, NEW w, OnWeekday(day, w)
    PROVE  OnWeekday(day + 1, (w + 1) % 7) /\ OnWeekday(day - 1, (w + 6) % 7)
<1>1. PICK week \in Int : day + 3 = 7 * week + w
  BY DEF OnWeekday
<1>2. w \in 0..6
  BY DEF OnWeekday
<1>3. OnWeekday(day + 1, (w + 1) % 7)
  <2>1. CASE w = 6
    <3> DEFINE next == week + 1
    <3>1. (w + 1) % 7 = 0 /\ (day + 1) + 3 = 7 * next + 0 /\ next \in Int
      BY <1>1, <2>1
    <3> HIDE DEF next
    <3> QED
      BY <3>1 DEF OnWeekday
  <2>2. CASE w # 6
    <3>1. (w + 1) % 7 = w + 1 /\ w + 1 \in 0..6
      BY <1>2, <2>2
    <3>2. (day + 1) + 3 = 7 * week + (w + 1)
      BY <1>1, <1>2
    <3> QED
      BY <3>1, <3>2 DEF OnWeekday
  <2> QED
    BY <2>1, <2>2
<1>4. OnWeekday(day - 1, (w + 6) % 7)
  <2>1. CASE w = 0
    <3> DEFINE last == week - 1
    <3>1. (w + 6) % 7 = 6 /\ (day - 1) + 3 = 7 * last + 6 /\ last \in Int
      BY <1>1, <2>1
    <3> HIDE DEF last
    <3> QED
      BY <3>1 DEF OnWeekday
  <2>2. CASE w # 0
    <3>1. (w + 6) % 7 = w - 1 /\ w - 1 \in 0..6
      BY <1>2, <2>2
    <3>2. (day - 1) + 3 = 7 * week + (w - 1)
      BY <1>1, <1>2
    <3> QED
      BY <3>1, <3>2 DEF OnWeekday
  <2> QED
    BY <2>1, <2>2
<1> QED
  BY <1>3, <1>4

LEMMA TomorrowFollows ==
    DateInv /\ Tomorrow =>
      FollowsPage(date', date) /\ date' \in [year : Int, month : Int, day : Int]
<1> SUFFICES ASSUME DateInv, Tomorrow
             PROVE  FollowsPage(date', date) /\ date' \in [year : Int, month : Int, day : Int]
  OBVIOUS
<1> DEFINE long == DaysInMonth(date.year, date.month)
<1>1. /\ date.year \in Int /\ date.month \in 1..12 /\ date.day \in 1..long
      /\ date \in [year : Int, month : Int, day : Int]
      /\ long \in Int /\ date.day \in Int
      /\ Valid(date.year, date.month, date.day)
      /\ DaysFromCivil(date.year, date.month, date.day) = today
      /\ weekday \in 0..6 /\ today \in Int
  <2>1. /\ date.year \in Int /\ date.month \in 1..12 /\ date.day \in 1..long
        /\ date \in [year : Int, month : Int, day : Int]
    BY DEF DateInv, Valid
  <2>2. long \in Int
    BY <2>1, Lengths
  <2> HIDE DEF long
  <2> QED
    BY <2>1, <2>2 DEF DateInv
<1>2. CASE date.day < long
  <2>1. date' = [date EXCEPT !.day = @ + 1]
    BY <1>2 DEF Tomorrow
  <2> QED
    BY <1>1, <1>2, <2>1 DEF FollowsPage
<1>3. CASE ~(date.day < long) /\ date.month < 12
  <2>1. date' = [date EXCEPT !.month = @ + 1, !.day = 1]
    BY <1>3 DEF Tomorrow
  <2>2. date.day = long
    BY <1>1, <1>3
  <2>3. date.month + 1 \in Int
    BY <1>1
  <2>4. /\ date'.year = date.year /\ date'.month = date.month + 1
        /\ date'.day = 1
        /\ date' \in [year : Int, month : Int, day : Int]
    <3> DEFINE after == date.month + 1
             first == 1
    <3>1. date' = [date EXCEPT !.month = after, !.day = first]
          /\ after \in Int /\ first \in Int
      BY <2>1, <2>3
    <3>2. date \in [year : Int, month : Int, day : Int]
      BY <1>1
    <3> HIDE DEF after, first, long
    <3>3. /\ date'.year = date.year /\ date'.month = after /\ date'.day = first
          /\ date' \in [year : Int, month : Int, day : Int]
      BY <3>1, <3>2
    <3> QED
      BY <3>3 DEF after, first
  <2> QED
    BY <1>3, <2>2, <2>4 DEF FollowsPage
<1>4. CASE ~(date.day < long) /\ ~(date.month < 12)
  <2>1. date' = [year |-> date.year + 1, month |-> 1, day |-> 1]
    BY <1>4 DEF Tomorrow
  <2>2. date.day = long
    BY <1>1, <1>4
  <2> QED
    BY <1>1, <1>4, <2>1, <2>2 DEF FollowsPage
<1> QED
  BY <1>2, <1>3, <1>4

LEMMA NextDate == DateInv /\ [CalendarNext]_calendarVars => DateInv'
<1> SUFFICES ASSUME DateInv, [CalendarNext]_calendarVars PROVE DateInv'
  OBVIOUS
<1> DEFINE long == DaysInMonth(date.year, date.month)
<1>1. /\ date.year \in Int /\ date.month \in 1..12 /\ date.day \in 1..long
      /\ date \in [year : Int, month : Int, day : Int]
      /\ long \in Int /\ date.day \in Int
      /\ Valid(date.year, date.month, date.day)
      /\ DaysFromCivil(date.year, date.month, date.day) = today
      /\ weekday \in 0..6 /\ today \in Int
  <2>1. /\ date.year \in Int /\ date.month \in 1..12 /\ date.day \in 1..long
        /\ date \in [year : Int, month : Int, day : Int]
    BY DEF DateInv, Valid
  <2>2. long \in Int
    BY <2>1, Lengths
  <2> HIDE DEF long
  <2> QED
    BY <2>1, <2>2 DEF DateInv
<1>2. OnWeekday(today, weekday)
  BY DEF DateInv, OnWeekday
<1>3. CASE Tomorrow
  <2>1. FollowsPage(date', date) /\ date' \in [year : Int, month : Int, day : Int]
    BY <1>3, TomorrowFollows
  <2>2. /\ Valid(date'.year, date'.month, date'.day)
        /\ DaysFromCivil(date'.year, date'.month, date'.day) = today + 1
    BY <1>1, <2>1, FollowsByOne
  <2>3. today' = today + 1 /\ weekday' = (weekday + 1) % 7
    BY <1>3 DEF Tomorrow
  <2>4. OnWeekday(today', weekday')
    BY <1>1, <1>2, <2>3, WeekdaysFollow
  <2> QED
    BY <1>1, <2>1, <2>2, <2>3, <2>4 DEF DateInv, OnWeekday
<1>4. CASE Yesterday
  <2>1. FollowsPage(date, date') /\ date' \in [year : Int, month : Int, day : Int]
        /\ Valid(date'.year, date'.month, date'.day)
    <3>1. CASE date.day > 1
      <4>1. date' = [date EXCEPT !.day = @ - 1]
        BY <1>4, <3>1 DEF Yesterday
      <4>2. /\ date'.year = date.year /\ date'.month = date.month
            /\ date'.day = date.day - 1
            /\ date' \in [year : Int, month : Int, day : Int]
        BY <1>1, <4>1
      <4>3. date.day - 1 \in 1..long /\ date.day - 1 < long /\ (date.day - 1) + 1 = date.day
        BY <1>1, <3>1
      <4> QED
        BY <1>1, <4>2, <4>3 DEF FollowsPage, Valid
    <3>2. CASE ~(date.day > 1) /\ date.month > 1
      <4> DEFINE before == date.month - 1
      <4>1. date' = [date EXCEPT !.month = @ - 1,
                                 !.day = DaysInMonth(date.year, date.month - 1)]
        BY <1>4, <3>2 DEF Yesterday
      <4>2. before \in 1..12 /\ before < 12 /\ before + 1 = date.month /\ date.day = 1
        BY <1>1, <3>2
      <4>3. DaysInMonth(date.year, before) \in Int /\ 1 <= DaysInMonth(date.year, before)
        BY <1>1, <4>2, Lengths
      <4>4. /\ date'.year = date.year /\ date'.month = before
            /\ date'.day = DaysInMonth(date.year, before)
            /\ date' \in [year : Int, month : Int, day : Int]
        <5>1. before \in Int
          BY <4>2
        <5> DEFINE last == DaysInMonth(date.year, before)
        <5>2. date' = [date EXCEPT !.month = before, !.day = last]
          BY <4>1
        <5>3. last \in Int
          BY <4>3
        <5> HIDE DEF before, last, long
        <5>4. date'.year = date.year /\ date'.month = before /\ date'.day = last
              /\ date' \in [year : Int, month : Int, day : Int]
          BY <1>1, <5>1, <5>2, <5>3
        <5> QED
          BY <5>4 DEF last
      <4> HIDE DEF before
      <4>5. Valid(date'.year, date'.month, date'.day)
        BY <1>1, <4>2, <4>3, <4>4 DEF Valid
      <4>6. FollowsPage(date, date')
        BY <4>2, <4>4 DEF FollowsPage
      <4> QED
        BY <4>4, <4>5, <4>6
    <3>3. CASE ~(date.day > 1) /\ ~(date.month > 1)
      <4>1. date' = [year |-> date.year - 1, month |-> 12, day |-> 31]
        BY <1>4, <3>3 DEF Yesterday
      <4>2. date.day = 1 /\ date.month = 1 /\ date.year - 1 \in Int
            /\ (date.year - 1) + 1 = date.year
        BY <1>1, <3>3
      <4>3. DaysInMonth(date.year - 1, 12) = 31
        BY Lengths
      <4>4. Valid(date'.year, date'.month, date'.day)
        BY <4>1, <4>2, <4>3 DEF Valid
      <4>5. FollowsPage(date, date')
        BY <4>1, <4>2, <4>3 DEF FollowsPage
      <4> QED
        BY <4>1, <4>2, <4>4, <4>5
    <3> QED
      BY <3>1, <3>2, <3>3
  <2>2. DaysFromCivil(date.year, date.month, date.day) =
          DaysFromCivil(date'.year, date'.month, date'.day) + 1
    BY <2>1, FollowsByOne
  <2>3. today' = today - 1 /\ weekday' = (weekday + 6) % 7
    BY <1>4 DEF Yesterday
  <2>4. OnWeekday(today', weekday')
    BY <1>1, <1>2, <2>3, WeekdaysFollow
  <2>5. DaysFromCivil(date'.year, date'.month, date'.day) = today'
    <3>1. DaysFromCivil(date'.year, date'.month, date'.day) \in Int
      BY <2>1, RoundTrip
    <3> DEFINE number == DaysFromCivil(date'.year, date'.month, date'.day)
    <3>2. today = number + 1
      BY <1>1, <2>2
    <3>3. number \in Int
      BY <3>1
    <3> HIDE DEF number
    <3>4. number = today'
      BY <1>1, <2>3, <3>2, <3>3
    <3> QED
      BY <3>4 DEF number
  <2> QED
    BY <1>1, <2>1, <2>3, <2>4, <2>5 DEF DateInv, OnWeekday
<1>5. CASE UNCHANGED calendarVars
  BY <1>5 DEF calendarVars, DateInv
<1> QED
  BY <1>3, <1>4, <1>5 DEF CalendarNext

LEMMA MondayIs ==
    ASSUME NEW day \in Int, NEW week \in Int, NEW w \in 0..6, day + 3 = 7 * week + w
    PROVE  MondayOfWeek(day) = day - w
<1>1. CASE day + 3 >= 0
  <2>1. (day + 3) \div 7 = week
    BY <1>1
  <2>2. Rem(day + 3, 7) = w
    BY <1>1, <2>1 DEF Rem, Quot
  <2> QED
    BY <2>2 DEF MondayOfWeek
<1>2. CASE ~(day + 3 >= 0)
  <2>1. CASE w = 0
    <3>1. (-(day + 3)) \div 7 = -week
      BY <2>1
    <3>2. Rem(day + 3, 7) = 0
      BY <1>2, <2>1, <3>1 DEF Rem, Quot
    <3> QED
      BY <2>1, <3>2 DEF MondayOfWeek
  <2>2. CASE w # 0
    <3>1. (-(day + 3)) \div 7 = -week - 1
      BY <2>2
    <3>2. Rem(day + 3, 7) = w - 7
      BY <1>2, <2>2, <3>1 DEF Rem, Quot
    <3> QED
      BY <2>2, <3>2 DEF MondayOfWeek
  <2> QED
    BY <2>1, <2>2
<1> QED
  BY <1>1, <1>2

LEMMA DateInvImplies == DateInv => DatesAgree
<1> SUFFICES ASSUME DateInv PROVE DatesAgree
  OBVIOUS
<1>1. CivilFromDays(today) = [year |-> date.year, month |-> date.month, day |-> date.day]
  BY RoundTrip DEF DateInv
<1>2. date = [year |-> date.year, month |-> date.month, day |-> date.day]
  BY DEF DateInv
<1>3. MondayOfWeek(today) = today - weekday
  BY MondayIs DEF DateInv
<1> QED
  BY <1>1, <1>2, <1>3 DEF DatesAgree, DateInv

(* Day numbers and civil dates are converted to each other as a wall calendar
   counts them, in every year; and weeks begin on its Mondays. *)
THEOREM DatesAgreeEver == CalendarSpec => []DatesAgree
  BY InitDate, NextDate, DateInvImplies, PTL DEF CalendarSpec

-----------------------------------------------------------------------------
(* The windows *)

\* A day number and the page of the wall calendar that name the same day.
Agree(day, page) ==
    /\ page \in [year : Int, month : Int, day : Int]
    /\ Valid(page.year, page.month, page.day)
    /\ DaysFromCivil(page.year, page.month, page.day) = day

LEMMA AgreeGives ==
    ASSUME NEW day, NEW page, Agree(day, page)
    PROVE  /\ day \in Int /\ CivilFromDays(day) = page
           /\ page.year \in Int /\ page.month \in 1..12
           /\ page.day \in 1..DaysInMonth(page.year, page.month)
<1>1. /\ DaysFromCivil(page.year, page.month, page.day) \in Int
      /\ CivilFromDays(DaysFromCivil(page.year, page.month, page.day)) =
           [year |-> page.year, month |-> page.month, day |-> page.day]
  BY RoundTrip DEF Agree
<1>2. page = [year |-> page.year, month |-> page.month, day |-> page.day]
  BY DEF Agree
<1> QED
  BY <1>1, <1>2 DEF Agree, Valid

(* The days of a month are numbered one after the other. *)
LEMMA DaysOfMonth ==
    ASSUME NEW year \in Int, NEW month \in 1..12, NEW day \in Int
    PROVE  /\ DaysFromCivil(year, month, 1) \in Int
           /\ DaysFromCivil(year, month, day) = DaysFromCivil(year, month, 1) + (day - 1)
<1> DEFINE y == MarchYear(year, month)
<1>1. y \in Int
  BY DEF MarchYear
<1>2. PICK e, c, q, r : Place(y, e, c, q, r)
  BY <1>1, PlaceExists
<1>3. DaysFromCivil(year, month, day) = DayOfPlace(e, c, q, r, DayOfYear(month, day))
  BY <1>2, DayNumber
<1>4. DaysFromCivil(year, month, 1) = DayOfPlace(e, c, q, r, DayOfYear(month, 1))
  BY <1>2, DayNumber
<1>5. /\ DayOfYear(month, 1) \in Int
      /\ DayOfYear(month, day) = DayOfYear(month, 1) + (day - 1)
  BY MonthCases, Offsets DEF DayOfYear
<1> QED
  BY <1>2, <1>3, <1>4, <1>5 DEF DayOfPlace, Place

\* The month after another.
Succeeds(nextYear, nextMonth, year, month) ==
    IF month < 12 THEN nextYear = year /\ nextMonth = month + 1
                  ELSE nextYear = year + 1 /\ nextMonth = 1

LEMMA SuccessorBegins ==
    ASSUME NEW year \in Int, NEW month \in 1..12,
           NEW nextYear, NEW nextMonth, Succeeds(nextYear, nextMonth, year, month)
    PROVE  /\ nextYear \in Int /\ nextMonth \in 1..12
           /\ DaysInMonth(year, month) \in 28..31
           /\ DaysFromCivil(nextYear, nextMonth, 1) =
                DaysFromCivil(year, month, 1) + DaysInMonth(year, month)
<1> DEFINE long == DaysInMonth(year, month)
           number(day) == DaysFromCivil(year, month, day)
           after == DaysFromCivil(nextYear, nextMonth, 1)
<1>1. nextYear \in Int /\ nextMonth \in 1..12
  BY DEF Succeeds
<1>2. long \in Int /\ 28 <= long /\ long <= 31
  BY Lengths
<1>3. Valid(year, month, long)
  <2> HIDE DEF long
  <2>1. long \in 1..long
    BY <1>2
  <2> QED
    BY <2>1 DEF Valid, long
<1>4. after = number(long) + 1
  BY <1>3, MonthEnds DEF Succeeds
<1>5. number(long) = number(1) + (long - 1) /\ number(1) \in Int
  BY <1>2, DaysOfMonth
<1> HIDE DEF long, number, after
<1>6. after = number(1) + long
  BY <1>2, <1>4, <1>5
<1> QED
  BY <1>1, <1>2, <1>6 DEF long, number, after

\* Months numbered one after the other.
Index(year, month) == 12 * year + month

(* A month counted back from another is that many months before it. *)
LEMMA MonthBeforeIs ==
    ASSUME NEW civil, civil.year \in Int, civil.month \in 1..12, NEW months \in Int
    PROVE  /\ MonthBefore(civil, months).year \in Int
           /\ MonthBefore(civil, months).month \in 1..12
           /\ Index(MonthBefore(civil, months).year, MonthBefore(civil, months).month)
                = Index(civil.year, civil.month) - months
<1> DEFINE total == civil.year * 12 + civil.month - 1 - months
           quot == Quot(total, 12)
           rem == Rem(total, 12)
<1>1. total \in Int /\ total = 12 * civil.year + civil.month - 1 - months
  OBVIOUS
<1>2. /\ quot \in Int /\ rem \in Int /\ total = 12 * quot + rem
      /\ -12 < rem /\ rem < 12
  <2> HIDE DEF total
  <2> QED
    BY <1>1 DEF Quot, Rem
<1>3. MonthBefore(civil, months) =
        IF rem < 0 THEN [year |-> quot - 1, month |-> rem + 13]
                   ELSE [year |-> quot, month |-> rem + 1]
  BY DEF MonthBefore
<1> HIDE DEF total, quot, rem
<1>4. CASE rem < 0
  BY <1>1, <1>2, <1>3, <1>4 DEF Index
<1>5. CASE ~(rem < 0)
  BY <1>1, <1>2, <1>3, <1>5 DEF Index
<1> QED
  BY <1>4, <1>5

\* Months in a row, by their numbers.
LEMMA MonthsInARow ==
    ASSUME NEW year \in Int, NEW month \in 1..12,
           NEW nextYear \in Int, NEW nextMonth \in 1..12
    PROVE  /\ Succeeds(nextYear, nextMonth, year, month)
                => /\ Index(nextYear, nextMonth) = Index(year, month) + 1
                   /\ Index(year, month) \in Int
           /\ Index(nextYear, nextMonth) = Index(year, month) + 1
                => Succeeds(nextYear, nextMonth, year, month)
           /\ Index(nextYear, nextMonth) = Index(year, month)
                => nextYear = year /\ nextMonth = month
  BY DEF Succeeds, Index

LEMMA WeeksRoll ==
    ASSUME NEW day \in Int, NEW w, OnWeekday(day, w)
    PROVE  /\ MondayOfWeek(day) = day - w /\ w \in 0..6
           /\ IF w = 6 THEN /\ LastWeek(day + 1) = ThisWeek(day)
                            /\ ThisWeek(day + 1).start = ThisWeek(day).end
                       ELSE /\ LastWeek(day + 1) = LastWeek(day)
                            /\ ThisWeek(day + 1) = ThisWeek(day)
<1> DEFINE x == (w + 1) % 7
           monday == MondayOfWeek(day)
           next == MondayOfWeek(day + 1)
<1>1. w \in 0..6 /\ monday = day - w
  BY MondayIs DEF OnWeekday
<1>2. x \in 0..6 /\ next = (day + 1) - x
  <2>1. OnWeekday(day + 1, x)
    BY WeekdaysFollow
  <2> HIDE DEF x
  <2> QED
    BY <2>1, MondayIs DEF OnWeekday
<1>3. x = IF w = 6 THEN 0 ELSE w + 1
  BY <1>1
<1> HIDE DEF x
<1>4. IF w = 6 THEN next = monday + 7 ELSE next = monday
  <2> HIDE DEF next, monday
  <2> QED
    BY <1>1, <1>2, <1>3
<1> HIDE DEF next, monday
<1>6. /\ ThisWeek(day) = [start |-> monday, end |-> monday + 7]
      /\ LastWeek(day) = [start |-> monday - 7, end |-> monday]
      /\ ThisWeek(day + 1) = [start |-> next, end |-> next + 7]
      /\ LastWeek(day + 1) = [start |-> next - 7, end |-> next]
  BY DEF ThisWeek, LastWeek, next, monday
<1>5. monday \in Int /\ (w = 6 => next = monday + 7 /\ next - 7 = monday)
                    /\ (w # 6 => next = monday)
  <2>1. monday \in Int
    BY <1>1 DEF monday
  <2> QED
    BY <1>4, <2>1
<1>7. w \in 0..6 /\ MondayOfWeek(day) = day - w
  BY <1>1 DEF monday
<1>8. CASE w = 6
  <2>1. next = monday + 7 /\ next - 7 = monday
    BY <1>5, <1>8
  <2>2. LastWeek(day + 1) = [start |-> monday, end |-> monday + 7]
    BY <1>6, <2>1
  <2>3. ThisWeek(day + 1).start = monday + 7 /\ ThisWeek(day).end = monday + 7
    BY <1>6, <2>1
  <2> QED
    BY <1>6, <1>7, <1>8, <2>2, <2>3
<1>9. CASE w # 6
  <2>1. next = monday
    BY <1>5, <1>9
  <2>2. LastWeek(day + 1) = LastWeek(day) /\ ThisWeek(day + 1) = ThisWeek(day)
    BY <1>6, <2>1
  <2> QED
    BY <1>7, <1>9, <2>2
<1> QED
  BY <1>8, <1>9

(* "n months ago" of a day: that day of the month counted back, or its last. *)
LEMMA MonthsAgo ==
    ASSUME NEW day, NEW page, Agree(day, page), NEW months \in Int
    PROVE  SubtractMonths(day, months) =
             DaysFromCivil(MonthBefore(page, months).year, MonthBefore(page, months).month,
                           Least(page.day, DaysInMonth(MonthBefore(page, months).year,
                                                       MonthBefore(page, months).month)))
  BY AgreeGives DEF SubtractMonths

LEMMA FirstAgrees ==
    ASSUME NEW year \in Int, NEW month \in 1..12
    PROVE  Agree(DaysFromCivil(year, month, 1), [year |-> year, month |-> month, day |-> 1])
<1>1. Valid(year, month, 1)
  <2> DEFINE long == DaysInMonth(year, month)
  <2>1. long \in Int /\ 28 <= long
    BY Lengths
  <2> HIDE DEF long
  <2>2. 1 \in 1..long
    BY <2>1
  <2> QED
    BY <2>2 DEF long, Valid
<1> QED
  BY <1>1 DEF Agree

\* The first of the month before.
LEMMA MonthAgo ==
    ASSUME NEW year \in Int, NEW month \in 1..12,
           NEW nextYear, NEW nextMonth, Succeeds(nextYear, nextMonth, year, month)
    PROVE  SubtractMonths(DaysFromCivil(nextYear, nextMonth, 1), 1)
             = DaysFromCivil(year, month, 1)
<1> DEFINE page == [year |-> nextYear, month |-> nextMonth, day |-> 1]
           one == 1
           before == MonthBefore(page, one)
<1>1. /\ nextYear \in Int /\ nextMonth \in 1..12 /\ DaysInMonth(year, month) \in 28..31
  BY SuccessorBegins
<1>2. before.year = year /\ before.month = month
  <2>1. page.year = nextYear /\ page.month = nextMonth
    OBVIOUS
  <2> HIDE DEF page
  <2>2. /\ before.year \in Int /\ before.month \in 1..12
        /\ Index(before.year, before.month) = Index(page.year, page.month) - 1
    <3>1. page.year \in Int /\ page.month \in 1..12 /\ one \in Int
      BY <1>1, <2>1
    <3> HIDE DEF one
    <3>2. /\ before.year \in Int /\ before.month \in 1..12
          /\ Index(before.year, before.month) = Index(page.year, page.month) - one
      BY <3>1, MonthBeforeIs
    <3> QED
      BY <3>2 DEF one
  <2>3. /\ Index(nextYear, nextMonth) = Index(year, month) + 1
        /\ Index(year, month) \in Int
    BY <1>1, MonthsInARow
  <2> HIDE DEF before
  <2>4. Index(before.year, before.month) = Index(year, month)
    BY <2>1, <2>2, <2>3
  <2> QED
    BY <2>2, <2>4, MonthsInARow
<1>3. Agree(DaysFromCivil(nextYear, nextMonth, 1), page)
  BY <1>1, FirstAgrees
<1>4. SubtractMonths(DaysFromCivil(nextYear, nextMonth, 1), 1) =
        DaysFromCivil(before.year, before.month,
                      Least(page.day, DaysInMonth(before.year, before.month)))
  <2> HIDE DEF page
  <2> QED
    BY <1>3, MonthsAgo
<1>5. Least(page.day, DaysInMonth(before.year, before.month)) = 1
  <2> HIDE DEF before
  <2> QED
    BY <1>1, <1>2 DEF Least
<1> HIDE DEF before, page
<1> QED
  BY <1>2, <1>4, <1>5

LEMMA MonthsRoll ==
    ASSUME NEW day, NEW page, NEW next, Agree(day, page), Agree(day + 1, next),
           FollowsPage(next, page)
    PROVE  IF next.day = 1 THEN /\ LastMonth(day + 1) = ThisMonth(day)
                                /\ ThisMonth(day + 1).start = ThisMonth(day).end
                           ELSE /\ LastMonth(day + 1) = LastMonth(day)
                                /\ ThisMonth(day + 1) = ThisMonth(day)
<1>1. /\ CivilFromDays(day) = page /\ CivilFromDays(day + 1) = next
      /\ page.year \in Int /\ page.month \in 1..12 /\ page.day \in Int /\ 1 <= page.day
  <2>1. page.day \in Int /\ 1 <= page.day
    <3>1. page.day \in 1..DaysInMonth(page.year, page.month)
      BY AgreeGives
    <3> QED
      BY <3>1
  <2> QED
    BY <2>1, AgreeGives
<1>2. CASE next.day = 1
  <2>1. Succeeds(next.year, next.month, page.year, page.month)
    <3>1. next.day # page.day + 1
      BY <1>1, <1>2
    <3> QED
      BY <3>1 DEF FollowsPage, Succeeds
  <2>2. SubtractMonths(DaysFromCivil(next.year, next.month, 1), 1)
          = DaysFromCivil(page.year, page.month, 1)
    BY <1>1, <2>1, MonthAgo
  <2>3. ThisMonth(day) = [start |-> DaysFromCivil(page.year, page.month, 1),
                          end |-> DaysFromCivil(next.year, next.month, 1)]
    <3>1. IF page.month = 12 THEN next.year = page.year + 1 /\ next.month = 1
                             ELSE next.year = page.year /\ next.month = page.month + 1
      BY <1>1, <2>1 DEF Succeeds
    <3> QED
      BY <1>1, <3>1 DEF ThisMonth, InMonth
  <2>4. LastMonth(day + 1) = [start |-> DaysFromCivil(page.year, page.month, 1),
                              end |-> DaysFromCivil(next.year, next.month, 1)]
    BY <1>1, <2>2 DEF LastMonth
  <2>5. ThisMonth(day + 1).start = DaysFromCivil(next.year, next.month, 1)
    BY <1>1 DEF ThisMonth, InMonth
  <2> QED
    BY <1>2, <2>3, <2>4, <2>5
<1>3. CASE next.day # 1
  <2>1. next.year = page.year /\ next.month = page.month
    BY <1>3 DEF FollowsPage
  <2>2. /\ LastMonth(day + 1) = LastMonth(day)
        /\ ThisMonth(day + 1) = ThisMonth(day)
    BY <1>1, <2>1 DEF LastMonth, ThisMonth
  <2> QED
    BY <1>3, <2>2
<1> QED
  BY <1>2, <1>3

LEMMA YearsRoll ==
    ASSUME NEW day, NEW page, NEW next, Agree(day, page), Agree(day + 1, next),
           FollowsPage(next, page)
    PROVE  IF next.day = 1 /\ next.month = 1
           THEN /\ LastYear(day + 1) = ThisYear(day)
                /\ ThisYear(day + 1).start = ThisYear(day).end
           ELSE /\ LastYear(day + 1) = LastYear(day)
                /\ ThisYear(day + 1) = ThisYear(day)
<1>1. /\ CivilFromDays(day) = page /\ CivilFromDays(day + 1) = next
      /\ page.year \in Int /\ page.month \in 1..12 /\ page.day \in Int /\ 1 <= page.day
  <2>1. page.day \in Int /\ 1 <= page.day
    <3>1. page.day \in 1..DaysInMonth(page.year, page.month)
      BY AgreeGives
    <3> QED
      BY <3>1
  <2> QED
    BY <2>1, AgreeGives
<1>2. CASE next.day = 1 /\ next.month = 1
  <2>1. next.year = page.year + 1 /\ next.year - 1 = page.year
    <3>1. next.day # page.day + 1
      BY <1>1, <1>2
    <3>2. next.month # page.month + 1
      BY <1>1, <1>2
    <3>3. next.year = page.year + 1
      BY <3>1, <3>2 DEF FollowsPage
    <3> QED
      BY <1>1, <3>3
  <2>2. /\ LastYear(day + 1) = ThisYear(day)
        /\ ThisYear(day + 1).start = ThisYear(day).end
    BY <1>1, <2>1 DEF LastYear, ThisYear
  <2> QED
    BY <1>2, <2>2
<1>3. CASE ~(next.day = 1 /\ next.month = 1)
  <2>1. next.year = page.year
    BY <1>3 DEF FollowsPage
  <2>2. LastYear(day + 1) = LastYear(day) /\ ThisYear(day + 1) = ThisYear(day)
    BY <1>1, <2>1 DEF LastYear, ThisYear
  <2> QED
    BY <1>3, <2>2
<1> QED
  BY <1>2, <1>3

(* A day later, "n months ago" is not earlier; on the first of a month, later. *)
LEMMA MonthsAgoAdvance ==
    ASSUME NEW day, NEW page, NEW next, Agree(day, page), Agree(day + 1, next),
           FollowsPage(next, page), NEW n \in Int
    PROVE  /\ SubtractMonths(day, n) <= SubtractMonths(day + 1, n)
           /\ next.day = 1 => SubtractMonths(day, n) < SubtractMonths(day + 1, n)
<1> DEFINE was == MonthBefore(page, n)
           is == MonthBefore(next, n)
           long == DaysInMonth(was.year, was.month)
           first == DaysFromCivil(was.year, was.month, 1)
<1>1. /\ page.year \in Int /\ page.month \in 1..12 /\ page.day \in Int /\ 1 <= page.day
      /\ next.year \in Int /\ next.month \in 1..12
  <2>1. page.day \in Int /\ 1 <= page.day
    <3>1. page.day \in 1..DaysInMonth(page.year, page.month)
      BY AgreeGives
    <3> QED
      BY <3>1
  <2>2. next.year \in Int /\ next.month \in 1..12
    BY AgreeGives
  <2> QED
    BY <2>1, <2>2, AgreeGives
<1>2. /\ was.year \in Int /\ was.month \in 1..12
      /\ Index(was.year, was.month) = Index(page.year, page.month) - n
  BY <1>1, MonthBeforeIs
<1>3. /\ is.year \in Int /\ is.month \in 1..12
      /\ Index(is.year, is.month) = Index(next.year, next.month) - n
  BY <1>1, MonthBeforeIs
<1>4. long \in Int /\ 28 <= long
  <2> HIDE DEF was
  <2> QED
    BY <1>2, Lengths
<1> DEFINE least == Least(page.day, long)
<1>5. /\ SubtractMonths(day, n) = first + (least - 1)
      /\ first \in Int /\ least \in Int /\ least <= long /\ least <= page.day
  <2>1. SubtractMonths(day, n) = DaysFromCivil(was.year, was.month, least)
    BY MonthsAgo
  <2>2. least \in Int /\ least <= long /\ least <= page.day
    <3> HIDE DEF long
    <3> QED
      BY <1>1, <1>4 DEF Least
  <2> HIDE DEF was, least
  <2> QED
    BY <1>2, <2>1, <2>2, DaysOfMonth
<1>6. SubtractMonths(day + 1, n) =
        DaysFromCivil(is.year, is.month, Least(next.day, DaysInMonth(is.year, is.month)))
  BY MonthsAgo
<1>7. CASE next.day = 1
  <2>1. next.day # page.day + 1
    BY <1>1, <1>7
  <2>2. Succeeds(next.year, next.month, page.year, page.month)
    BY <2>1 DEF FollowsPage, Succeeds
  <2>3. /\ Index(next.year, next.month) = Index(page.year, page.month) + 1
        /\ Index(page.year, page.month) \in Int
    BY <1>1, <2>2, MonthsInARow
  <2> HIDE DEF was, is
  <2>4. Index(is.year, is.month) = Index(was.year, was.month) + 1
    BY <1>2, <1>3, <2>3
  <2>5. Succeeds(is.year, is.month, was.year, was.month)
    BY <1>2, <1>3, <2>4, MonthsInARow
  <2>6. DaysFromCivil(is.year, is.month, 1) = first + long
    BY <1>2, <2>5, SuccessorBegins
  <2>7. Least(next.day, DaysInMonth(is.year, is.month)) = 1
    <3>1. DaysInMonth(is.year, is.month) \in Int /\ 28 <= DaysInMonth(is.year, is.month)
      BY <1>3, Lengths
    <3> QED
      BY <1>7, <3>1 DEF Least
  <2>8. SubtractMonths(day + 1, n) = first + long
    BY <1>6, <2>6, <2>7
  <2> HIDE DEF first, long, least
  <2> QED
    BY <1>4, <1>5, <2>8
<1>8. CASE next.day # 1
  <2>1. /\ next.year = page.year /\ next.month = page.month
        /\ next.day = page.day + 1
    BY <1>8 DEF FollowsPage
  <2>2. is.year = was.year /\ is.month = was.month
    BY <2>1 DEF MonthBefore
  <2> DEFINE greater == Least(page.day + 1, long)
  <2>3. SubtractMonths(day + 1, n) = DaysFromCivil(was.year, was.month, greater)
    BY <1>6, <2>1, <2>2
  <2>4. greater \in Int /\ least <= greater
    <3> HIDE DEF long
    <3> QED
      BY <1>1, <1>4 DEF Least
  <2> HIDE DEF was, greater, least, long
  <2>5. SubtractMonths(day + 1, n) = first + (greater - 1)
    BY <1>2, <2>3, <2>4, DaysOfMonth
  <2> HIDE DEF first
  <2>6. SubtractMonths(day, n) <= SubtractMonths(day + 1, n)
    BY <1>5, <2>4, <2>5
  <2> QED
    BY <1>8, <2>6
<1> QED
  BY <1>7, <1>8

LEMMA StepRollsOver == DateInv /\ DateInv' /\ [CalendarNext]_calendarVars => [RollOver]_calendarVars
<1> SUFFICES ASSUME DateInv, DateInv', CalendarNext, today' = today + 1 PROVE RollOver
  BY DEF RollOver
<1>1. today \in Int /\ OnWeekday(today, weekday)
  BY DEF DateInv, OnWeekday
<1>2. Tomorrow
  <2>1. ~Yesterday
    BY <1>1 DEF Yesterday
  <2> QED
    BY <2>1 DEF CalendarNext
<1>3. FollowsPage(date', date)
  BY <1>2, TomorrowFollows
<1>4. Agree(today, date)
  BY DEF DateInv, Agree
<1>5. Agree(today + 1, date')
  BY DEF DateInv, Agree
<1>6. Rolls(ThisWeek, LastWeek, weekday = 6)
  BY <1>1, WeeksRoll DEF Rolls
<1>7. Rolls(ThisMonth, LastMonth, date'.day = 1)
  BY <1>3, <1>4, <1>5, MonthsRoll DEF Rolls
<1>8. Rolls(ThisYear, LastYear, date'.day = 1 /\ date'.month = 1)
  BY <1>3, <1>4, <1>5, YearsRoll DEF Rolls
<1>9. ASSUME NEW n \in MonthCounts
      PROVE  /\ SubtractMonths(today, n) <= SubtractMonths(today', n)
             /\ date'.day = 1 => SubtractMonths(today, n) < SubtractMonths(today', n)
  <2>1. n \in Int
    BY CalendarAssumption
  <2> QED
    BY <1>3, <1>4, <1>5, <2>1, MonthsAgoAdvance
<1> QED
  BY <1>6, <1>7, <1>8, <1>9 DEF RollOver

(* Where a week, a month or a year ends, "this" becomes "last" to the day, in
   every year; and no day sets "n months ago" back. *)
THEOREM WindowsRollOverEver == CalendarSpec => WindowsRollOver
  BY InitDate, NextDate, StepRollsOver, PTL DEF CalendarSpec, WindowsRollOver

-----------------------------------------------------------------------------
(* The sides of a memory. *)

(* The units of a text. *)

SideSpan == [start : Nat, end : Nat]

(* No character begins before p and ends behind it. *)
Boundary(p) == p \in 1..TextEnd /\ (p \in DOMAIN text => text[p] # "rest")

Apart(spans) == \A u, v \in spans : u = v \/ u.end <= v.start \/ v.end <= u.start

(* Spans from a up to b that are the text there, white space aside. *)
Covers(spans, a, b) ==
    /\ \A u \in spans : /\ u \in SideSpan /\ a <= u.start /\ u.start < u.end /\ u.end <= b
                        /\ Boundary(u.start) /\ Boundary(u.end)
    /\ Apart(spans)
    /\ \A p \in Visible(a, b) : \E u \in spans : u.start <= p /\ p < u.end

-----------------------------------------------------------------------------
(* Least and greatest numbers *)

LEMMA LeastNumber ==
    ASSUME NEW T \in SUBSET Nat, T # {}
    PROVE  \E m \in T : \A k \in T : m <= k
<1>1. PICK m \in T : \A k \in T : <<k, m>> \notin OpToRel(<, Nat)
  BY NatLessThanWellFounded, WFMin
<1>2. \A k \in T : ~(k < m)
  BY <1>1 DEF OpToRel
<1> QED
  BY <1>2

LEMMA AllNumbers ==
    ASSUME NEW S, 0 \in S, \A n \in Nat : n \in S => n + 1 \in S
    PROVE  Nat \subseteq S
<1> SUFFICES ASSUME Nat \ S # {} PROVE FALSE
  OBVIOUS
<1>1. PICK m \in Nat \ S : \A k \in Nat \ S : m <= k
  BY LeastNumber
<1>2. m - 1 \in Nat /\ m - 1 \notin Nat \ S
  BY <1>1
<1> QED
  BY <1>1, <1>2

LEMMA MinIs ==
    ASSUME NEW T \in SUBSET Nat, T # {}
    PROVE  Min(T) \in T /\ \A k \in T : Min(T) <= k
BY LeastNumber DEF Min

LEMMA MaxIs ==
    ASSUME NEW T \in SUBSET Nat, T # {}, NEW n \in Nat, \A k \in T : k <= n
    PROVE  Max(T) \in T /\ \A k \in T : k <= Max(T)
<1> DEFINE D == {d \in Nat : n - d \in T}
<1>1. D \in SUBSET Nat /\ \A k \in T : k \in Nat /\ n - k \in D
  OBVIOUS
<1>2. D # {}
  BY <1>1
<1>3. PICK d \in D : \A e \in D : d <= e
  BY <1>1, <1>2, LeastNumber
<1>4. n - d \in T /\ d \in Nat
  BY <1>3
<1>5. ASSUME NEW k \in T PROVE n - d >= k
  <2>1. d <= n - k
    BY <1>1, <1>3
  <2> QED
    BY <1>1, <1>4, <2>1
<1>6. \E m \in T : \A k \in T : m >= k
  BY <1>4, <1>5
<1>7. Max(T) \in T /\ \A k \in T : Max(T) >= k
  BY <1>6 DEF Max
<1> QED
  BY <1>7

-----------------------------------------------------------------------------
(* Bytes *)

LEMMA TextIs ==
    ASSUME text \in Texts
    PROVE  /\ text \in Seq(Bytes) /\ Len(text) \in Nat /\ TextEnd \in Nat
           /\ DOMAIN text = 1..Len(text) /\ DOMAIN text = 1..TextEnd - 1
           /\ WellFormed(text)
BY SidesAssumption DEF TextEnd

(* After a byte that belongs to no longer character one begins. *)
LEMMA BoundaryAfter ==
    ASSUME text \in Texts, NEW p \in 2..TextEnd, text[p - 1] \notin {"lead", "rest"}
    PROVE  Boundary(p)
<1> USE TextIs
<1> SUFFICES ASSUME p \in DOMAIN text, text[p] = "rest" PROVE FALSE
  BY DEF Boundary
<1>1. PICK q \in DOMAIN text : /\ text[q] = "lead" /\ q < p /\ p <= q + 3
                               /\ \A r \in q + 1..p - 1 : text[r] = "rest"
  BY DEF WellFormed
<1>2. p \in Int /\ q \in Int
  OBVIOUS
<1>3. CASE q = p - 1
  BY <1>1, <1>3
<1>4. CASE q # p - 1
  BY <1>1, <1>2, <1>4
<1> QED
  BY <1>3, <1>4

LEMMA BoundaryEnds ==
    ASSUME text \in Texts
    PROVE  Boundary(1) /\ Boundary(TextEnd)
<1> USE TextIs
<1>1. ASSUME 1 \in DOMAIN text, text[1] = "rest" PROVE FALSE
  <2>1. PICK q \in DOMAIN text : q < 1
    BY <1>1 DEF WellFormed
  <2> QED
    BY <2>1
<1>2. 1 \in 1..TextEnd /\ TextEnd \in 1..TextEnd /\ TextEnd \notin DOMAIN text
  BY DEF TextEnd
<1> QED
  BY <1>1, <1>2 DEF Boundary

LEMMA VisibleIn ==
    ASSUME text \in Texts, NEW a \in 1..TextEnd, NEW b \in 1..TextEnd
    PROVE  /\ Visible(a, b) \in SUBSET Nat
           /\ \A p \in Visible(a, b) : a <= p /\ p < b /\ p \in DOMAIN text /\ ~IsSpace(p)
           /\ \A p \in Int : a <= p /\ p < b /\ ~IsSpace(p) => p \in Visible(a, b)
BY TextIs DEF Visible

LEMMA TrimIs ==
    ASSUME text \in Texts, NEW a, Boundary(a), NEW b, Boundary(b), a <= b
    PROVE  /\ Trim(a, b) \in SideSpan
           /\ Boundary(Trim(a, b).start) /\ Boundary(Trim(a, b).end)
           /\ a <= Trim(a, b).start /\ Trim(a, b).start <= Trim(a, b).end
           /\ Trim(a, b).end <= b
           /\ \A p \in Visible(a, b) : Trim(a, b).start <= p /\ p < Trim(a, b).end
<1> USE TextIs
<1>0. a \in 1..TextEnd /\ b \in 1..TextEnd
  BY DEF Boundary
<1>1. CASE Visible(a, b) = {}
  BY <1>0, <1>1 DEF Trim, SideSpan
<1>2. CASE Visible(a, b) # {}
  <2> DEFINE kept == Visible(a, b)
             first == Min(kept)
             last == Max(kept)
  <2>1. /\ kept \in SUBSET Nat
        /\ \A p \in kept : a <= p /\ p < b /\ p \in DOMAIN text /\ ~IsSpace(p)
        /\ \A p \in Int : a <= p /\ p < b /\ ~IsSpace(p) => p \in kept
    BY <1>0, VisibleIn
  <2>2. first \in kept /\ \A p \in kept : first <= p
    BY <1>2, <2>1, MinIs
  <2>3. last \in kept /\ \A p \in kept : p <= last
    <3>1. b \in Nat /\ \A p \in kept : p <= b
      BY <1>0, <2>1
    <3> HIDE DEF kept
    <3> QED
      BY <1>2, <2>1, <3>1, MaxIs DEF kept
  <2>4. Trim(a, b) = [start |-> first, end |-> last + 1]
    BY <1>2 DEF Trim
  <2> HIDE DEF kept, first, last
  <2>5. Boundary(first)
    <3>1. CASE first = a
      BY <3>1
    <3>2. CASE first # a
      <4>1. first - 1 \in Int /\ a <= first - 1 /\ first - 1 < b /\ first - 1 \notin kept
        BY <1>0, <2>1, <2>2, <3>2
      <4>2. IsSpace(first - 1)
        BY <2>1, <4>1
      <4>3. first \in 2..TextEnd
        BY <1>0, <2>1, <2>2, <4>1
      <4> QED
        BY <4>2, <4>3, BoundaryAfter DEF IsSpace
    <3> QED
      BY <3>1, <3>2
  <2>6. Boundary(last + 1)
    <3>1. CASE last + 1 = b
      BY <3>1
    <3>2. CASE last + 1 # b
      <4>1. last + 1 \in Int /\ a <= last + 1 /\ last + 1 < b /\ last + 1 \notin kept
        BY <1>0, <2>1, <2>3, <3>2
      <4>2. IsSpace(last + 1)
        BY <2>1, <4>1
      <4> QED
        BY <1>0, <4>1, <4>2 DEF IsSpace, Boundary
    <3> QED
      BY <3>1, <3>2
  <2>7. a <= first /\ first <= last /\ last + 1 <= b
    BY <1>0, <2>1, <2>2, <2>3
  <2>8. \A p \in Visible(a, b) : first <= p /\ p < last + 1
    BY <2>1, <2>2, <2>3 DEF kept
  <2> QED
    BY <2>1, <2>2, <2>3, <2>4, <2>5, <2>6, <2>7, <2>8 DEF SideSpan
<1> QED
  BY <1>1, <1>2

LEMMA PieceCovers ==
    ASSUME text \in Texts, NEW a, Boundary(a), NEW b, Boundary(b), a <= b
    PROVE  Covers(Piece(a, b), a, b)
<1>1. Piece(a, b) \subseteq {Trim(a, b)}
  BY DEF Piece
<1>2. \A u \in Piece(a, b) : u = Trim(a, b) /\ u.start < u.end
  BY DEF Piece
<1>3. \A p \in Visible(a, b) : Trim(a, b) \in Piece(a, b)
  <2> SUFFICES ASSUME NEW p \in Visible(a, b) PROVE Trim(a, b).start < Trim(a, b).end
    BY DEF Piece
  <2>1. p \in Nat
    BY VisibleIn DEF Boundary
  <2> QED
    BY <2>1, TrimIs DEF SideSpan
<1> QED
  BY <1>1, <1>2, <1>3, TrimIs DEF Covers, Apart

(* The text of two parts that meet. *)
LEMMA CoversBoth ==
    ASSUME text \in Texts, NEW a \in 1..TextEnd, NEW b \in 1..TextEnd, NEW c \in 1..TextEnd,
           a <= b, b <= c, NEW P, Covers(P, a, b), NEW Q, Covers(Q, b, c)
    PROVE  Covers(P \cup Q, a, c)
<1> USE TextIs
<1>1. ASSUME NEW u \in P \cup Q
      PROVE  /\ u \in SideSpan /\ a <= u.start /\ u.start < u.end /\ u.end <= c
             /\ Boundary(u.start) /\ Boundary(u.end)
  BY <1>1 DEF Covers, SideSpan
<1>2. ASSUME NEW u \in P \cup Q, NEW v \in P \cup Q
      PROVE  u = v \/ u.end <= v.start \/ v.end <= u.start
  <2>1. CASE u \in P /\ v \in P
    BY <2>1 DEF Covers, Apart
  <2>2. CASE u \in Q /\ v \in Q
    BY <2>2 DEF Covers, Apart
  <2>3. CASE u \in P /\ v \in Q
    BY <2>3 DEF Covers, SideSpan
  <2>4. CASE u \in Q /\ v \in P
    BY <2>4 DEF Covers, SideSpan
  <2> QED
    BY <2>1, <2>2, <2>3, <2>4
<1>3. ASSUME NEW p \in Visible(a, c) PROVE \E u \in P \cup Q : u.start <= p /\ p < u.end
  <2>1. p \in Int /\ a <= p /\ p < c /\ ~IsSpace(p)
    BY VisibleIn
  <2>2. p \in Visible(a, b) \/ p \in Visible(b, c)
    BY <2>1 DEF Visible
  <2> QED
    BY <2>2 DEF Covers
<1> QED
  BY <1>1, <1>2, <1>3 DEF Covers, Apart

(* White space at the ends needs no span. *)
LEMMA CoversWider ==
    ASSUME text \in Texts, NEW a \in 1..TextEnd, NEW b \in 1..TextEnd,
           NEW c \in 1..TextEnd, NEW d \in 1..TextEnd,
           a <= b, b <= c, c <= d, NEW P, Covers(P, b, c),
           \A p \in Visible(a, d) : b <= p /\ p < c
    PROVE  Covers(P, a, d)
<1> USE TextIs
<1>1. \A p \in Visible(a, d) : p \in Visible(b, c)
  BY DEF Visible
<1>2. \A u \in P : u \in SideSpan => (b <= u.start => a <= u.start) /\ (u.end <= c => u.end <= d)
  BY DEF SideSpan
<1> QED
  BY <1>1, <1>2 DEF Covers

-----------------------------------------------------------------------------
(* Long spans *)

LEMMA SplitPointIs ==
    ASSUME text \in Texts, NEW p \in 1..TextEnd, p + MaxSentence < TextEnd
    PROVE  /\ SplitPoint(p) \in Nat /\ Boundary(SplitPoint(p))
           /\ p < SplitPoint(p) /\ SplitPoint(p) <= p + MaxSentence
<1> USE TextIs
<1> DEFINE stop == p + MaxSentence
           begins == {q \in 1..stop : text[q] # "rest"}
           split == SafeEnd(stop)
           afterSpaces == {q \in p + 1..split : IsSpace(q - 1)}
<1>0. /\ p \in Nat /\ stop \in Nat /\ MaxSentence \in Nat /\ MaxSentence >= 4
      /\ stop \in DOMAIN text /\ p + 1 <= stop - 3
  BY SidesAssumption
<1>1. PICK q \in 1..stop : p < q /\ text[q] # "rest"
  <2>1. CASE text[stop] # "rest"
    BY <1>0, <2>1
  <2>2. CASE text[stop] = "rest"
    <3>1. PICK q \in DOMAIN text : text[q] = "lead" /\ q < stop /\ stop <= q + 3
      BY <1>0, <2>2 DEF WellFormed
    <3> QED
      BY <1>0, <3>1
  <2> QED
    BY <2>1, <2>2
<1>2. begins \in SUBSET Nat /\ q \in begins /\ \A r \in begins : r <= stop
  BY <1>0, <1>1
<1>3. split \in begins /\ \A r \in begins : r <= split
  <2>1. split = Max(begins)
    BY DEF SafeEnd
  <2> HIDE DEF begins, split
  <2> QED
    BY <1>0, <1>2, <2>1, MaxIs
<1>4. split \in Nat /\ p < split /\ split <= stop /\ Boundary(split)
  BY <1>0, <1>1, <1>2, <1>3 DEF Boundary
<1>5. CASE afterSpaces = {}
  BY <1>4, <1>5 DEF SplitPoint
<1>6. CASE afterSpaces # {}
  <2>1. /\ afterSpaces \in SUBSET Nat /\ \A r \in afterSpaces : r <= split
        /\ SplitPoint(p) = Max(afterSpaces)
    BY <1>0, <1>4, <1>6 DEF SplitPoint
  <2>2. Max(afterSpaces) \in afterSpaces
    <3> HIDE DEF afterSpaces
    <3> QED
      BY <1>4, <1>6, <2>1, MaxIs
  <2>3. SplitPoint(p) \in p + 1..split /\ IsSpace(SplitPoint(p) - 1)
    BY <2>1, <2>2
  <2>4. SplitPoint(p) \in 2..TextEnd
    BY <1>0, <1>4, <2>3
  <2>5. Boundary(SplitPoint(p))
    BY <2>3, <2>4, BoundaryAfter DEF IsSpace
  <2> QED
    BY <1>0, <1>4, <2>3, <2>5
<1> QED
  BY <1>5, <1>6

(* Where the next part begins, behind the spaces at the cut. *)
AfterSplit(split, end) == Min(Visible(split, end) \cup {end})

LEMMA AfterSplitIs ==
    ASSUME text \in Texts, NEW split, Boundary(split), NEW end, Boundary(end), split <= end
    PROVE  /\ AfterSplit(split, end) \in Nat /\ Boundary(AfterSplit(split, end))
           /\ split <= AfterSplit(split, end) /\ AfterSplit(split, end) <= end
           /\ \A q \in Visible(split, end) : AfterSplit(split, end) <= q
<1> DEFINE kept == Visible(split, end)
           next == AfterSplit(split, end)
<1>1. /\ split \in 1..TextEnd /\ end \in 1..TextEnd /\ TextEnd \in Nat
      /\ split \in Nat /\ end \in Nat
  BY TextIs DEF Boundary
<1>2. /\ kept \cup {end} \in SUBSET Nat
      /\ \A q \in kept : split <= q /\ q < end /\ q \in DOMAIN text /\ ~IsSpace(q)
      /\ \A q \in Int : split <= q /\ q < end /\ ~IsSpace(q) => q \in kept
  BY <1>1, VisibleIn
<1>3. next \in kept \cup {end} /\ \A q \in kept \cup {end} : next <= q
  <2> HIDE DEF kept
  <2>1. next = Min(kept \cup {end})
    BY DEF AfterSplit, kept
  <2> QED
    BY <1>2, <2>1, MinIs
<1> HIDE DEF kept, next
<1>4. next \in Nat /\ split <= next /\ next <= end
  BY <1>1, <1>2, <1>3
<1>5. Boundary(next)
  <2>1. CASE next = split \/ next = end
    BY <2>1
  <2>2. CASE next # split /\ next # end
    <3>1. next - 1 \in Int /\ split <= next - 1 /\ next - 1 < end /\ next - 1 \notin kept
      BY <1>1, <1>3, <1>4, <2>2
    <3>2. IsSpace(next - 1) /\ next \in 2..TextEnd
      BY <1>1, <1>2, <1>4, <3>1
    <3> QED
      BY <3>2, BoundaryAfter DEF IsSpace
  <2> QED
    BY <2>1, <2>2
<1> QED
  BY <1>3, <1>4, <1>5 DEF kept, next

(* The parts of a span from p on, given those from any later byte. *)
PartsFrom(g, p, end) ==
    IF end - p <= MaxSentence THEN Piece(p, end)
    ELSE Piece(p, SplitPoint(p)) \cup g[AfterSplit(SplitPoint(p), end)]

LEMMA PartsExist ==
    ASSUME text \in Texts, NEW a, Boundary(a), NEW b, Boundary(b)
    PROVE  \E g : g = [p \in a..b |-> PartsFrom(g, p, b)]
<1> DEFINE UpTo(n, g) == \A p \in a..b : b - p <= n => g[p] = PartsFrom(g, p, b)
           Levels == {n \in Nat : \E g : UpTo(n, g)}
<1>0. /\ a \in 1..TextEnd /\ b \in 1..TextEnd /\ TextEnd \in Nat
      /\ MaxSentence \in Nat /\ MaxSentence >= 4
  BY TextIs, SidesAssumption DEF Boundary
<1>1. 0 \in Levels
  <2>1. UpTo(0, [p \in a..b |-> Piece(p, b)])
    <3> SUFFICES ASSUME NEW p \in a..b, b - p <= 0 PROVE b - p <= MaxSentence
      BY DEF PartsFrom
    <3> QED
      BY <1>0
  <2> QED
    BY <2>1
<1>2. ASSUME NEW n \in Nat, n \in Levels PROVE n + 1 \in Levels
  <2>1. PICK g : UpTo(n, g)
    BY <1>2
  <2> DEFINE h == [p \in a..b |-> IF b - p <= n THEN g[p] ELSE PartsFrom(g, p, b)]
  <2>2. \A p \in a..b : h[p] = IF b - p <= n THEN g[p] ELSE PartsFrom(g, p, b)
    OBVIOUS
  <2> HIDE DEF h
  <2>3. ASSUME NEW p \in a..b, b - p <= n + 1 PROVE h[p] = PartsFrom(h, p, b)
    <3>1. h[p] = PartsFrom(g, p, b)
      BY <2>1, <2>2
    <3>2. PartsFrom(g, p, b) = PartsFrom(h, p, b)
      <4>1. CASE b - p <= MaxSentence
        BY <4>1 DEF PartsFrom
      <4>2. CASE ~(b - p <= MaxSentence)
        <5> DEFINE split == SplitPoint(p)
                   q == AfterSplit(split, b)
        <5>1. p \in 1..TextEnd /\ p + MaxSentence < TextEnd /\ p + MaxSentence < b
          BY <1>0, <4>2
        <5>2. Boundary(split) /\ p < split /\ split <= b /\ split \in Nat
          BY <1>0, <5>1, SplitPointIs
        <5>3. q \in Nat /\ split <= q /\ q <= b
          BY <5>2, AfterSplitIs
        <5>4. q \in a..b /\ b - q <= n
          BY <1>0, <2>3, <5>2, <5>3
        <5>5. h[q] = g[q]
          BY <2>2, <5>4
        <5> QED
          BY <4>2, <5>5 DEF PartsFrom
      <4> QED
        BY <4>1, <4>2
    <3> QED
      BY <3>1, <3>2
  <2>4. UpTo(n + 1, h)
    BY <2>3
  <2> HIDE DEF UpTo
  <2> QED
    BY <2>4
<1>3. b \in Levels
  <2> HIDE DEF Levels
  <2> QED
    BY <1>0, <1>1, <1>2, AllNumbers
<1>4. PICK g : UpTo(b, g)
  BY <1>3
<1> DEFINE h == [p \in a..b |-> g[p]]
<1>5. \A p \in a..b : PartsFrom(g, p, b) = PartsFrom(h, p, b)
  <2> SUFFICES ASSUME NEW p \in a..b, ~(b - p <= MaxSentence)
               PROVE  AfterSplit(SplitPoint(p), b) \in a..b
    BY DEF PartsFrom
  <2>1. p \in 1..TextEnd /\ p + MaxSentence < TextEnd /\ p + MaxSentence < b
    BY <1>0
  <2>2. Boundary(SplitPoint(p)) /\ p < SplitPoint(p) /\ SplitPoint(p) <= b /\ SplitPoint(p) \in Nat
    BY <1>0, <2>1, SplitPointIs
  <2> QED
    BY <1>0, <2>2, AfterSplitIs
<1>6. \A p \in a..b : h[p] = PartsFrom(h, p, b)
  BY <1>0, <1>4, <1>5
<1>7. h = [p \in a..b |-> PartsFrom(h, p, b)]
  BY <1>6
<1> QED
  BY <1>7

(* However a span is cut, its parts are its text. *)
LEMMA SplitLongCovers ==
    ASSUME text \in Texts, NEW a, Boundary(a), NEW b, Boundary(b), a <= b
    PROVE  Covers(SplitLong(a, b), a, b)
<1> DEFINE from[p \in a..b] == PartsFrom(from, p, b)
<1>0. /\ a \in 1..TextEnd /\ b \in 1..TextEnd /\ TextEnd \in Nat
      /\ MaxSentence \in Nat /\ MaxSentence >= 4
  BY TextIs, SidesAssumption DEF Boundary
<1>1. SplitLong(a, b) = from[a]
  BY DEF SplitLong, PartsFrom, AfterSplit
<1>2. from = [p \in a..b |-> PartsFrom(from, p, b)]
  <2>1. \E g : g = [p \in a..b |-> PartsFrom(g, p, b)]
    BY PartsExist
  <2> QED
    BY <2>1, Zenon
<1> HIDE DEF from
<1>3. \A p \in a..b : from[p] = PartsFrom(from, p, b)
  BY <1>2
<1> DEFINE Done == {n \in Nat : \A p \in a..b : b - p <= n /\ Boundary(p) => Covers(from[p], p, b)}
<1>4. 0 \in Done
  <2> SUFFICES ASSUME NEW p \in a..b, b - p <= 0, Boundary(p) PROVE Covers(from[p], p, b)
    OBVIOUS
  <2>1. b - p <= MaxSentence /\ p <= b
    BY <1>0
  <2>2. from[p] = Piece(p, b)
    BY <1>3, <2>1 DEF PartsFrom
  <2> QED
    BY <2>1, <2>2, PieceCovers
<1>5. ASSUME NEW n \in Nat, n \in Done PROVE n + 1 \in Done
  <2> SUFFICES ASSUME NEW p \in a..b, b - p <= n + 1, Boundary(p) PROVE Covers(from[p], p, b)
    OBVIOUS
  <2>1. CASE b - p <= MaxSentence
    <3>1. p <= b
      BY <1>0
    <3>2. from[p] = Piece(p, b)
      BY <1>3, <2>1 DEF PartsFrom
    <3> QED
      BY <3>1, <3>2, PieceCovers
  <2>2. CASE ~(b - p <= MaxSentence)
    <3> DEFINE split == SplitPoint(p)
               q == AfterSplit(split, b)
    <3>1. p \in 1..TextEnd /\ p + MaxSentence < TextEnd /\ p + MaxSentence < b
      BY <1>0, <2>2
    <3>2. Boundary(split) /\ p < split /\ split <= b /\ split \in Nat
      BY <1>0, <3>1, SplitPointIs
    <3>3. /\ q \in Nat /\ Boundary(q) /\ split <= q /\ q <= b
          /\ \A r \in Visible(split, b) : q <= r
      BY <3>2, AfterSplitIs
    <3>4. from[p] = Piece(p, split) \cup from[q]
      BY <1>3, <2>2 DEF PartsFrom
    <3> HIDE DEF split, q
    <3>5. q \in a..b /\ b - q <= n
      BY <1>0, <3>2, <3>3
    <3>6. Covers(from[q], q, b)
      BY <1>5, <3>3, <3>5
    <3>7. split \in 1..TextEnd /\ q \in 1..TextEnd /\ b <= b
      BY <1>0, <3>2, <3>3 DEF Boundary
    <3>8. \A r \in Visible(split, b) : q <= r /\ r < b
      BY <1>0, <3>3, <3>7, VisibleIn
    <3>9. Covers(from[q], split, b)
      BY <1>0, <3>2, <3>3, <3>6, <3>7, <3>8, CoversWider
    <3>10. Covers(Piece(p, split), p, split)
      <4>1. p <= split
        BY <1>0, <3>2
      <4> QED
        BY <3>2, <4>1, PieceCovers
    <3>11. p <= split
      BY <1>0, <3>2
    <3> QED
      BY <1>0, <3>1, <3>2, <3>4, <3>7, <3>9, <3>10, <3>11, CoversBoth
  <2> QED
    BY <2>1, <2>2
<1>6. b \in Done
  <2> HIDE DEF Done
  <2> QED
    BY <1>0, <1>4, <1>5, AllNumbers
<1>7. a \in a..b /\ b - a <= b
  BY <1>0
<1> QED
  BY <1>1, <1>6, <1>7

-----------------------------------------------------------------------------
(* Lines *)

LEMMA SentencesCover ==
    ASSUME text \in Texts, NEW line \in SideSpan, Boundary(line.start), Boundary(line.end),
           line.start <= line.end
    PROVE  Covers(Sentences(line), line.start, line.end)
<1> USE TextIs
<1> DEFINE a == line.start
           b == line.end
           stops == {p \in a..b - 1 : text[p] = "stop"}
           places == {a, b} \cup {p + 1 : p \in stops}
           Next(cut) == Min({next \in places : next > cut})
<1>0. a \in 1..TextEnd /\ b \in 1..TextEnd /\ a \in Nat /\ b \in Nat /\ a <= b
  BY DEF Boundary
<1>1. ASSUME NEW cut \in places PROVE cut \in Nat /\ a <= cut /\ cut <= b /\ Boundary(cut)
  <2>1. CASE cut \in {a, b}
    BY <1>0, <2>1
  <2>2. CASE cut \notin {a, b}
    <3>1. PICK p \in stops : cut = p + 1
      BY <2>2
    <3>2. cut \in 2..TextEnd /\ cut - 1 = p /\ a <= cut /\ cut <= b /\ text[p] = "stop"
      BY <1>0, <3>1
    <3> QED
      BY <3>2, BoundaryAfter
  <2> QED
    BY <2>1, <2>2
<1>2. a \in places /\ b \in places
  OBVIOUS
<1>3. Sentences(line) = UNION {SplitLong(cut, Next(cut)) : cut \in places \ {b}}
  BY DEF Sentences
<1> HIDE DEF places
<1>4. ASSUME NEW cut \in places \ {b}
      PROVE  /\ Next(cut) \in places /\ cut < Next(cut)
             /\ \A d \in places : cut < d => Next(cut) <= d
  <2>1. {next \in places : next > cut} \in SUBSET Nat /\ b \in {next \in places : next > cut}
    BY <1>0, <1>1, <1>2
  <2>2. Next(cut) \in {next \in places : next > cut}
        /\ \A d \in {next \in places : next > cut} : Next(cut) <= d
    BY <2>1, MinIs
  <2> QED
    BY <1>1, <2>2
<1> HIDE DEF Next
<1>5. ASSUME NEW cut \in places \ {b}
      PROVE  Covers(SplitLong(cut, Next(cut)), cut, Next(cut))
  BY <1>1, <1>4, SplitLongCovers
<1>6. \A u \in Sentences(line) : \E cut \in places \ {b} : u \in SplitLong(cut, Next(cut))
  BY <1>3
<1>7. ASSUME NEW u \in Sentences(line)
      PROVE  /\ u \in SideSpan /\ a <= u.start /\ u.start < u.end /\ u.end <= b
             /\ Boundary(u.start) /\ Boundary(u.end)
  <2>1. PICK cut \in places \ {b} : u \in SplitLong(cut, Next(cut))
    BY <1>6
  <2>2. /\ u \in SideSpan /\ cut <= u.start /\ u.start < u.end /\ u.end <= Next(cut)
        /\ Boundary(u.start) /\ Boundary(u.end)
    BY <1>5, <2>1 DEF Covers
  <2>3. a <= cut /\ Next(cut) <= b /\ cut \in Nat /\ Next(cut) \in Nat
    BY <1>1, <1>4
  <2> QED
    BY <1>0, <2>2, <2>3 DEF SideSpan
<1>8. ASSUME NEW u \in Sentences(line), NEW v \in Sentences(line)
      PROVE  u = v \/ u.end <= v.start \/ v.end <= u.start
  <2>1. PICK c \in places \ {b} : u \in SplitLong(c, Next(c))
    BY <1>6
  <2>2. PICK d \in places \ {b} : v \in SplitLong(d, Next(d))
    BY <1>6
  <2>3. CASE c = d
    BY <1>5, <2>1, <2>2, <2>3 DEF Covers, Apart
  <2>4. CASE c # d
    <3>1. c \in Nat /\ d \in Nat /\ Next(c) \in Nat /\ Next(d) \in Nat
      BY <1>1, <1>4
    <3>2. Next(c) <= d \/ Next(d) <= c
      BY <1>4, <2>4, <3>1
    <3>3. /\ u \in SideSpan /\ v \in SideSpan /\ c <= u.start /\ u.end <= Next(c)
          /\ d <= v.start /\ v.end <= Next(d)
      BY <1>5, <2>1, <2>2 DEF Covers
    <3> QED
      BY <3>1, <3>2, <3>3 DEF SideSpan
  <2> QED
    BY <2>3, <2>4
<1>9. ASSUME NEW p \in Visible(a, b)
      PROVE  \E u \in Sentences(line) : u.start <= p /\ p < u.end
  <2>1. p \in Nat /\ a <= p /\ p < b /\ ~IsSpace(p)
    BY <1>0, VisibleIn
  <2> DEFINE T == {c \in places : c <= p}
             cut == Max(T)
  <2>2. T \in SUBSET Nat /\ a \in T /\ \A c \in T : c <= p
    BY <1>1, <1>2, <2>1
  <2>3. cut \in T /\ \A c \in T : c <= cut
    <3> HIDE DEF T
    <3> QED
      BY <2>1, <2>2, MaxIs
  <2>4. cut \in places \ {b} /\ cut <= p
    BY <1>0, <2>1, <2>3
  <2>5. p < Next(cut)
    <3>1. Next(cut) \in places /\ Next(cut) \in Nat /\ cut \in Nat /\ cut < Next(cut)
      BY <1>1, <1>4, <2>4
    <3>2. Next(cut) \notin T
      <4> HIDE DEF T, cut
      <4> QED
        BY <2>3, <3>1 
    <3> QED
      BY <2>1, <3>1, <3>2
  <2>6. p \in Visible(cut, Next(cut))
    BY <1>1, <1>4, <2>1, <2>4, <2>5 DEF Visible
  <2>7. \E u \in SplitLong(cut, Next(cut)) : u.start <= p /\ p < u.end
    BY <1>5, <2>4, <2>6 DEF Covers
  <2>8. SplitLong(cut, Next(cut)) \subseteq Sentences(line)
    BY <1>3, <2>4
  <2> QED
    BY <2>7, <2>8
<1> QED
  BY <1>7, <1>8, <1>9 DEF Covers, Apart

LEMMA LineEndsAre ==
    ASSUME text \in Texts
    PROVE  /\ LineEnds \subseteq 1..TextEnd /\ 0 \notin LineEnds /\ TextEnd \in LineEnds
           /\ \A p \in LineEnds : Boundary(p) /\ (p = TextEnd \/ text[p] = "newline")
<1> USE TextIs
<1>1. 1 <= TextEnd
  BY DEF TextEnd
<1>2. LineEnds \subseteq 1..TextEnd /\ 0 \notin LineEnds /\ TextEnd \in LineEnds
  BY <1>1 DEF LineEnds
<1> QED
  BY <1>2 DEF LineEnds, Boundary

(* How far the lines before n reach. *)
Reach(n) == IF n > TextEnd THEN TextEnd ELSE n

(* The splitter has read the text up to pos. *)
ReadTo(s, pos) ==
    /\ s \in [next : Nat, code : Nat, raw : SUBSET SideSpan]
    /\ 1 <= s.next /\ s.next <= pos + 1
    /\ s.next <= TextEnd => Boundary(s.next)
    /\ \A p \in LineEnds : p <= pos => p < s.next
    /\ s.code = 0 => Covers(s.raw, 1, Reach(s.next))
    /\ s.code # 0 => Boundary(s.code) /\ s.code < s.next /\ Covers(s.raw, 1, s.code)

LEMMA AddLineReads ==
    ASSUME text \in Texts, NEW pos \in LineEnds, NEW s, ReadTo(s, pos - 1)
    PROVE  ReadTo(AddLine(s, pos), pos)
<1> USE TextIs
<1> DEFINE line == Trim(s.next, pos)
           reach == Reach(pos + 1)
<1>0. /\ pos \in 1..TextEnd /\ pos \in Nat /\ s.next \in 1..TextEnd /\ s.next <= pos
      /\ s.next \in Nat /\ s.code \in Nat /\ Boundary(s.next) /\ Reach(s.next) = s.next
      /\ reach \in 1..TextEnd /\ pos <= reach /\ reach <= pos + 1 /\ Boundary(1)
  BY BoundaryEnds DEF ReadTo, Reach, LineEnds
<1>1. Boundary(pos)
  BY <1>0 DEF Boundary, LineEnds
<1>2. /\ line \in SideSpan /\ Boundary(line.start) /\ Boundary(line.end)
      /\ s.next <= line.start /\ line.start <= line.end /\ line.end <= pos
      /\ \A p \in Visible(s.next, pos) : line.start <= p /\ p < line.end
  BY <1>0, <1>1, TrimIs
<1>3. line.start \in 1..TextEnd /\ line.end \in 1..TextEnd
  BY <1>2 DEF Boundary
<1>4. pos + 1 <= TextEnd => Boundary(pos + 1)
  <2> SUFFICES ASSUME pos + 1 <= TextEnd PROVE Boundary(pos + 1)
    OBVIOUS
  <2>1. text[pos] = "newline" /\ pos + 1 \in 2..TextEnd /\ (pos + 1) - 1 = pos
    BY <1>0 DEF LineEnds
  <2> QED
    BY <2>1, BoundaryAfter
<1>5. \A p \in LineEnds : p \in Nat /\ (p <= pos => p < pos + 1)
  BY <1>0 DEF LineEnds
<1>6. ASSUME NEW a \in 1..TextEnd, NEW p \in Visible(a, reach)
      PROVE  p < line.end /\ (s.next <= p => line.start <= p)
  <2>1. p \in Nat /\ p < reach /\ p \in DOMAIN text /\ ~IsSpace(p)
    BY <1>0, VisibleIn
  <2>2. p # pos
    BY <2>1 DEF LineEnds, IsSpace
  <2>3. p < pos
    BY <1>0, <2>1, <2>2
  <2>4. CASE s.next <= p
    <3>1. p \in Visible(s.next, pos)
      BY <1>0, <2>1, <2>3, <2>4 DEF Visible
    <3> QED
      BY <1>2, <3>1
  <2>5. CASE p < s.next
    BY <1>0, <1>2, <1>3, <2>1, <2>5
  <2> QED
    BY <1>0, <2>1, <2>4, <2>5
<1>7. ASSUME NEW spans, NEW a, Boundary(a), Covers(s.raw, 1, a), Covers(spans, a, reach),
             a <= reach
      PROVE  ReadTo([next |-> pos + 1, code |-> 0, raw |-> s.raw \cup spans], pos)
  <2>1. Covers(s.raw \cup spans, 1, reach)
    BY <1>0, <1>7, CoversBoth DEF Boundary
  <2>2. s.raw \cup spans \in SUBSET SideSpan
    BY <2>1 DEF Covers
  <2> QED
    BY <1>0, <1>4, <1>5, <2>1, <2>2 DEF ReadTo
<1>8. ASSUME s.code = 0, NEW spans, Covers(spans, line.start, line.end)
      PROVE  ReadTo([next |-> pos + 1, code |-> 0, raw |-> s.raw \cup spans], pos)
  <2>1. Covers(spans, s.next, reach)
    <3>1. \A p \in Visible(s.next, reach) : line.start <= p /\ p < line.end
      BY <1>0, <1>6, VisibleIn
    <3>2. line.end <= reach
      BY <1>0, <1>2, <1>3
    <3> QED
      BY <1>0, <1>2, <1>3, <1>8, <3>1, <3>2, CoversWider
  <2>2. Covers(s.raw, 1, s.next) /\ s.next <= reach
    BY <1>0, <1>8 DEF ReadTo
  <2> QED
    BY <1>0, <1>7, <2>1, <2>2
<1> HIDE DEF reach
<1>9. CASE s.code # 0 /\ Fenced(line)
  <2>1. Boundary(s.code) /\ s.code < s.next /\ Covers(s.raw, 1, s.code) /\ s.code \in 1..TextEnd
    BY <1>9 DEF ReadTo, Boundary
  <2>2. s.code <= line.end /\ s.code <= reach /\ line.end <= reach
    BY <1>0, <1>2, <1>3, <2>1
  <2>3. Covers(SplitLong(s.code, line.end), s.code, line.end)
    BY <1>2, <2>1, <2>2, SplitLongCovers
  <2>4. \A p \in Visible(s.code, reach) : s.code <= p /\ p < line.end
    BY <1>0, <1>6, <2>1, VisibleIn
  <2>5. Covers(SplitLong(s.code, line.end), s.code, reach)
    BY <1>0, <1>3, <2>1, <2>2, <2>3, <2>4, CoversWider
  <2>6. AddLine(s, pos)
        = [next |-> pos + 1, code |-> 0, raw |-> s.raw \cup SplitLong(s.code, line.end)]
    BY <1>9 DEF AddLine
  <2> QED
    BY <1>7, <2>1, <2>2, <2>5, <2>6
<1>10. CASE s.code # 0 /\ ~Fenced(line)
  <2>1. AddLine(s, pos) = [s EXCEPT !.next = pos + 1]
    BY <1>10 DEF AddLine
  <2> QED
    BY <1>0, <1>4, <1>5, <1>10, <2>1 DEF ReadTo
<1>11. CASE s.code = 0 /\ Fenced(line)
  <2>1. AddLine(s, pos) = [s EXCEPT !.next = pos + 1, !.code = line.start]
    BY <1>11 DEF AddLine
  <2>2. Covers(s.raw, 1, line.start)
    <3>1. Covers(s.raw, 1, s.next)
      BY <1>0, <1>11 DEF ReadTo
    <3>2. ASSUME NEW p \in Visible(1, line.start) PROVE 1 <= p /\ p < s.next
      <4>1. p \in Nat /\ p < line.start /\ 1 <= p /\ ~IsSpace(p)
        BY <1>0, <1>3, VisibleIn
      <4>2. p \notin Visible(s.next, pos)
        BY <1>2, <1>3, <4>1
      <4> QED
        BY <1>0, <1>2, <1>3, <4>1, <4>2 DEF Visible
    <3>3. 1 <= s.next
      BY <1>0
    <3> QED
      BY <1>0, <1>2, <1>3, <3>1, <3>2, <3>3, CoversWider
  <2>3. line.start \in Nat /\ line.start # 0 /\ line.start < pos + 1
    BY <1>0, <1>2, <1>3
  <2>4. /\ AddLine(s, pos) \in [next : Nat, code : Nat, raw : SUBSET SideSpan]
        /\ AddLine(s, pos).next = pos + 1 /\ AddLine(s, pos).code = line.start
        /\ AddLine(s, pos).raw = s.raw
    <3> HIDE DEF line
    <3>1. s \in [next : Nat, code : Nat, raw : SUBSET SideSpan]
      BY DEF ReadTo
    <3>2. pos + 1 \in Nat /\ line.start \in Nat
      BY <1>0, <2>3
    <3> QED
      BY <2>1, <3>1, <3>2
  <2> HIDE DEF line
  <2> QED
    BY <1>0, <1>2, <1>4, <1>5, <2>2, <2>3, <2>4 DEF ReadTo
<1>12. CASE s.code = 0 /\ ~Fenced(line) /\ IsBullet(line)
  <2>1. AddLine(s, pos)
        = [next |-> pos + 1, code |-> 0, raw |-> s.raw \cup SplitLong(line.start, line.end)]
    BY <1>12 DEF AddLine
  <2> QED
    BY <1>2, <1>8, <1>12, <2>1, SplitLongCovers
<1>13. CASE s.code = 0 /\ ~Fenced(line) /\ ~IsBullet(line)
  <2>1. AddLine(s, pos)
        = [next |-> pos + 1, code |-> 0, raw |-> s.raw \cup Sentences(line)]
    BY <1>13 DEF AddLine
  <2> QED
    BY <1>2, <1>8, <1>13, <2>1, SentencesCover
<1> QED
  BY <1>9, <1>10, <1>11, <1>12, <1>13

(* What has been read up to pos, given that for the positions before. *)
ReadFrom(g, pos) ==
    CASE pos = 0 -> [next |-> 1, code |-> 0, raw |-> {}]
      [] pos \in LineEnds -> AddLine(g[pos - 1], pos)
      [] OTHER -> g[pos - 1]

LEMMA ReadExists ==
    ASSUME text \in Texts
    PROVE  \E g : g = [pos \in 0..TextEnd |-> ReadFrom(g, pos)]
<1> USE TextIs
<1> DEFINE UpTo(n, g) == \A p \in 0..TextEnd : p <= n => g[p] = ReadFrom(g, p)
           Levels == {n \in Nat : \E g : UpTo(n, g)}
<1>1. 0 \in Levels
  <2>1. UpTo(0, [p \in 0..TextEnd |-> [next |-> 1, code |-> 0, raw |-> {}]])
    <3>1. 0 \notin LineEnds
      BY LineEndsAre
    <3> QED
      BY <3>1 DEF ReadFrom
  <2> QED
    BY <2>1
<1>2. ASSUME NEW n \in Nat, n \in Levels PROVE n + 1 \in Levels
  <2>1. PICK g : UpTo(n, g)
    BY <1>2
  <2> DEFINE h == [p \in 0..TextEnd |-> IF p <= n THEN g[p] ELSE ReadFrom(g, p)]
  <2>2. \A p \in 0..TextEnd : h[p] = IF p <= n THEN g[p] ELSE ReadFrom(g, p)
    OBVIOUS
  <2> HIDE DEF h
  <2>3. ASSUME NEW p \in 0..TextEnd, p <= n + 1 PROVE h[p] = ReadFrom(h, p)
    <3>1. h[p] = ReadFrom(g, p)
      BY <2>1, <2>2
    <3>2. ReadFrom(g, p) = ReadFrom(h, p)
      <4>1. CASE p = 0
        BY <4>1, LineEndsAre DEF ReadFrom
      <4>2. CASE p # 0
        <5>1. p - 1 \in 0..TextEnd /\ p - 1 <= n
          BY <2>3, <4>2
        <5>2. g[p - 1] = h[p - 1]
          BY <2>2, <5>1
        <5> QED
          BY <4>2, <5>2 DEF ReadFrom
      <4> QED
        BY <4>1, <4>2
    <3> QED
      BY <3>1, <3>2
  <2>4. UpTo(n + 1, h)
    BY <2>3
  <2> HIDE DEF UpTo
  <2> QED
    BY <2>4
<1>3. TextEnd \in Levels
  <2> HIDE DEF Levels
  <2> QED
    BY <1>1, <1>2, AllNumbers
<1>4. PICK g : UpTo(TextEnd, g)
  BY <1>3
<1> DEFINE h == [p \in 0..TextEnd |-> g[p]]
<1>5. ASSUME NEW p \in 0..TextEnd PROVE ReadFrom(g, p) = ReadFrom(h, p)
  <2>1. CASE p = 0
    BY <2>1, LineEndsAre DEF ReadFrom
  <2>2. CASE p # 0
    <3>1. g[p - 1] = h[p - 1]
      BY <2>2
    <3> QED
      BY <2>2, <3>1 DEF ReadFrom
  <2> QED
    BY <2>1, <2>2
<1>6. \A p \in 0..TextEnd : h[p] = ReadFrom(h, p)
  BY <1>4, <1>5
<1>7. h = [p \in 0..TextEnd |-> ReadFrom(h, p)]
  BY <1>6
<1> QED
  BY <1>7

(* All the text is in the units before they are merged. *)
LEMMA RawCovers ==
    ASSUME text \in Texts
    PROVE  Covers(RawUnits, 1, TextEnd)
<1> USE TextIs
<1> DEFINE read[pos \in 0..TextEnd] == ReadFrom(read, pos)
           all == read[TextEnd]
<1>1. RawUnits = IF all.code = 0 THEN all.raw ELSE all.raw \cup SplitLong(all.code, TextEnd)
  BY DEF RawUnits, ReadFrom
<1>2. read = [pos \in 0..TextEnd |-> ReadFrom(read, pos)]
  <2>1. \E g : g = [pos \in 0..TextEnd |-> ReadFrom(g, pos)]
    BY ReadExists
  <2> QED
    BY <2>1, Zenon
<1> HIDE DEF read
<1>3. \A pos \in 0..TextEnd : read[pos] = ReadFrom(read, pos)
  BY <1>2
<1> DEFINE Done == {n \in Nat : n <= TextEnd => ReadTo(read[n], n)}
<1>4. 0 \in Done
  <2> DEFINE start == [next |-> 1, code |-> 0, raw |-> {}]
  <2>1. read[0] = start
    <3>1. 0 \notin LineEnds
      BY LineEndsAre
    <3> QED
      BY <1>3, <3>1 DEF ReadFrom
  <2>2. Covers({}, 1, Reach(1))
    BY DEF Covers, Apart, Reach, Visible
  <2>3. ReadTo(start, 0)
    BY <2>2, BoundaryEnds DEF ReadTo, LineEnds
  <2> QED
    BY <2>1, <2>3
<1>5. ASSUME NEW n \in Nat, n \in Done PROVE n + 1 \in Done
  <2> SUFFICES ASSUME n + 1 <= TextEnd PROVE ReadTo(read[n + 1], n + 1)
    OBVIOUS
  <2>1. ReadTo(read[n], n) /\ (n + 1) - 1 = n
    BY <1>5
  <2>2. CASE n + 1 \in LineEnds
    <3>1. read[n + 1] = AddLine(read[n], n + 1)
      BY <1>3, <2>1, <2>2 DEF ReadFrom
    <3> QED
      BY <2>1, <2>2, <3>1, AddLineReads
  <2>3. CASE n + 1 \notin LineEnds
    <3>1. read[n + 1] = read[n]
      BY <1>3, <2>1, <2>3 DEF ReadFrom
    <3>2. \A p \in LineEnds : p \in Nat /\ (p <= n + 1 => p <= n)
      BY <2>3 DEF LineEnds
    <3> QED
      BY <2>1, <3>1, <3>2 DEF ReadTo
  <2> QED
    BY <2>2, <2>3
<1>6. ReadTo(all, TextEnd)
  <2>1. TextEnd \in Done
    <3> HIDE DEF Done
    <3> QED
      BY <1>4, <1>5, AllNumbers
  <2> QED
    BY <2>1
<1> HIDE DEF all
<1>7. all.next = TextEnd + 1 /\ Reach(all.next) = TextEnd
  BY <1>6 DEF ReadTo, LineEnds, Reach
<1>8. CASE all.code = 0
  BY <1>1, <1>6, <1>7, <1>8 DEF ReadTo
<1>9. CASE all.code # 0
  <2>1. Boundary(all.code) /\ Covers(all.raw, 1, all.code)
    BY <1>6, <1>9 DEF ReadTo
  <2>2. all.code \in 1..TextEnd /\ 1 <= all.code /\ all.code <= TextEnd
        /\ 1 \in 1..TextEnd /\ TextEnd \in 1..TextEnd
    BY <2>1 DEF Boundary
  <2>3. Covers(SplitLong(all.code, TextEnd), all.code, TextEnd)
    BY <2>1, <2>2, BoundaryEnds, SplitLongCovers
  <2> QED
    BY <1>1, <1>9, <2>1, <2>2, <2>3, CoversBoth
<1> QED
  BY <1>8, <1>9

-----------------------------------------------------------------------------
(* Short units *)

LEMMA FirstIs ==
    ASSUME NEW S \in SUBSET SideSpan, S # {}
    PROVE  First(S) \in S /\ \A v \in S : First(S).start <= v.start
<1> DEFINE starts == {u.start : u \in S}
<1>1. starts \in SUBSET Nat /\ starts # {}
  BY DEF SideSpan
<1>2. PICK m \in starts : \A k \in starts : m <= k
  <2> HIDE DEF starts
  <2> QED
    BY <1>1, LeastNumber
<1>3. PICK u \in S : u.start = m
  BY <1>2
<1>4. \A v \in S : u.start <= v.start
  BY <1>2, <1>3
<1> QED
  BY <1>4, Zenon DEF First

(* Units that are apart begin at different bytes. *)
LEMMA StartsDiffer ==
    ASSUME NEW S, Covers(S, 1, TextEnd), NEW u \in S, NEW v \in S
    PROVE  /\ u.start = v.start => u = v
           /\ u.start < v.start => u.end <= v.start
BY DEF Covers, Apart, SideSpan

Heads(raw) == {u \in raw : ~IsShort(u) \/ u = First(raw)}
Joined(raw, head) ==
    {u \in raw : /\ head.start <= u.start
                 /\ \A h \in Heads(raw) : head.start < h.start => u.start < h.start}
JoinedEnd(raw, head) == Max({u.end : u \in Joined(raw, head)})

LEMMA JoinedEndIs ==
    ASSUME text \in Texts, NEW raw, Covers(raw, 1, TextEnd), NEW head \in Heads(raw)
    PROVE  /\ head \in raw /\ head \in Joined(raw, head)
           /\ \E u \in raw : JoinedEnd(raw, head) = u.end
           /\ \A u \in Joined(raw, head) : u.end <= JoinedEnd(raw, head)
           /\ \A h \in Heads(raw) : head.start < h.start => JoinedEnd(raw, head) <= h.start
<1> USE TextIs
<1> DEFINE ends == {u.end : u \in Joined(raw, head)}
<1>1. head \in raw /\ head \in SideSpan
  BY DEF Heads, Covers
<1>2. head \in Joined(raw, head)
  BY <1>1 DEF Joined, SideSpan
<1>3. Joined(raw, head) \subseteq raw
  BY DEF Joined
<1>4. ends \in SUBSET Nat /\ ends # {} /\ \A k \in ends : k <= TextEnd
  BY <1>2, <1>3 DEF Covers, SideSpan
<1>5. JoinedEnd(raw, head) \in ends /\ \A k \in ends : k <= JoinedEnd(raw, head)
  <2>1. JoinedEnd(raw, head) = Max(ends)
    BY DEF JoinedEnd
  <2> HIDE DEF ends
  <2> QED
    BY <1>4, <2>1, MaxIs
<1>6. PICK u \in Joined(raw, head) : JoinedEnd(raw, head) = u.end
  BY <1>5
<1>7. ASSUME NEW h \in Heads(raw), head.start < h.start
      PROVE  JoinedEnd(raw, head) <= h.start
  <2>1. u.start < h.start /\ h \in raw
    BY <1>6, <1>7 DEF Joined, Heads
  <2> QED
    BY <1>3, <1>6, <2>1, StartsDiffer
<1> QED
  BY <1>1, <1>2, <1>3, <1>5, <1>6, <1>7

(* Merging keeps the text, and only the first unit may stay short. *)
LEMMA MergedCovers ==
    ASSUME text \in Texts, NEW raw, Covers(raw, 1, TextEnd)
    PROVE  /\ Covers(MergedUnits(raw), 1, TextEnd)
           /\ \A u, v \in MergedUnits(raw) : IsShort(u) => u.start <= v.start
<1> USE TextIs
<1> DEFINE Merged(head) == [start |-> head.start, end |-> JoinedEnd(raw, head)]
<1>0. /\ raw \in SUBSET SideSpan /\ Heads(raw) \in SUBSET raw
      /\ \A u \in raw : u.start \in Nat /\ u.end \in Nat /\ u.start < u.end
  BY DEF Covers, Heads, SideSpan
<1>1. MergedUnits(raw) = {Merged(head) : head \in Heads(raw)}
  BY DEF MergedUnits, Heads, Joined, JoinedEnd
<1>2. ASSUME NEW h \in Heads(raw)
      PROVE  /\ Merged(h) \in SideSpan /\ Merged(h).start = h.start
             /\ h.end <= Merged(h).end
             /\ 1 <= Merged(h).start /\ Merged(h).start < Merged(h).end
             /\ Merged(h).end <= TextEnd
             /\ Boundary(Merged(h).start) /\ Boundary(Merged(h).end)
  <2>1. PICK u \in raw : JoinedEnd(raw, h) = u.end
    BY JoinedEndIs
  <2>2. h \in raw /\ h.end <= JoinedEnd(raw, h)
    BY JoinedEndIs
  <2>3. /\ h.start \in Nat /\ u.end \in Nat /\ h.start < h.end /\ h.end \in Nat
        /\ 1 <= h.start /\ u.end <= TextEnd /\ Boundary(h.start) /\ Boundary(u.end)
    BY <1>0, <2>1, <2>2 DEF Covers
  <2> QED
    BY <2>1, <2>2, <2>3 DEF SideSpan
<1>3. ASSUME NEW h \in Heads(raw), NEW g \in Heads(raw), h.start < g.start
      PROVE  Merged(h).end <= Merged(g).start
  BY <1>3, JoinedEndIs
<1>4. \A h, g \in Heads(raw) : h.start < g.start \/ g.start < h.start \/ h = g
  BY <1>0, StartsDiffer
<1>5. ASSUME NEW p \in Visible(1, TextEnd)
      PROVE  \E h \in Heads(raw) : Merged(h).start <= p /\ p < Merged(h).end
  <2>1. PICK w \in raw : w.start <= p /\ p < w.end
    BY DEF Covers
  <2> DEFINE T == {h.start : h \in {g \in Heads(raw) : g.start <= w.start}}
  <2>2. T \in SUBSET Nat /\ \A k \in T : k <= w.start
    BY <1>0
  <2>3. T # {}
    <3>1. First(raw) \in Heads(raw) /\ First(raw).start <= w.start
      BY <1>0, FirstIs DEF Heads
    <3> QED
      BY <3>1
  <2>4. Max(T) \in T /\ \A k \in T : k <= Max(T)
    <3>1. w.start \in Nat
      BY <1>0
    <3> HIDE DEF T
    <3> QED
      BY <2>2, <2>3, <3>1, MaxIs
  <2>5. PICK h \in Heads(raw) : h.start <= w.start /\ h.start = Max(T)
    BY <2>4
  <2>6. ASSUME NEW g \in Heads(raw), h.start < g.start PROVE w.start < g.start
    <3>1. g.start \in T \/ ~(g.start <= w.start)
      OBVIOUS
    <3>2. g.start \in Nat /\ w.start \in Nat /\ h.start \in Nat
      BY <1>0
    <3> HIDE DEF T
    <3> QED
      BY <2>4, <2>5, <2>6, <3>1, <3>2
  <2>7. w \in Joined(raw, h)
    BY <2>5, <2>6 DEF Joined
  <2>8. w.end <= JoinedEnd(raw, h) /\ JoinedEnd(raw, h) \in Nat
    BY <1>2, <2>7, JoinedEndIs DEF SideSpan
  <2>9. p \in Nat /\ h.start \in Nat /\ w.start \in Nat /\ w.end \in Nat
    BY <1>0 DEF Visible
  <2> QED
    BY <2>1, <2>5, <2>8, <2>9
<1> HIDE DEF Merged
<1>6. Covers(MergedUnits(raw), 1, TextEnd)
  <2>1. \A u \in MergedUnits(raw) : /\ u \in SideSpan /\ 1 <= u.start /\ u.start < u.end
                                    /\ u.end <= TextEnd
                                    /\ Boundary(u.start) /\ Boundary(u.end)
    BY <1>1, <1>2
  <2>2. Apart(MergedUnits(raw))
    BY <1>1, <1>3, <1>4 DEF Apart
  <2>3. \A p \in Visible(1, TextEnd) :
          \E u \in MergedUnits(raw) : u.start <= p /\ p < u.end
    BY <1>1, <1>5
  <2> QED
    BY <2>1, <2>2, <2>3 DEF Covers
<1>7. ASSUME NEW u \in MergedUnits(raw), NEW v \in MergedUnits(raw), IsShort(u)
      PROVE  u.start <= v.start
  <2>1. PICK h \in Heads(raw) : u = Merged(h)
    BY <1>1
  <2>2. PICK g \in Heads(raw) : v = Merged(g)
    BY <1>1
  <2>3. IsShort(h)
    <3>1. u.end - u.start < MinFragment
      BY <1>7 DEF IsShort, Size
    <3>2. u.start = h.start /\ h.end <= u.end /\ u \in SideSpan
      BY <1>2, <2>1
    <3> QED
      BY <1>0, <3>1, <3>2, SidesAssumption DEF SideSpan, IsShort, Size
  <2>4. h = First(raw)
    BY <2>3 DEF Heads
  <2>5. h.start <= g.start
    BY <1>0, <2>4, FirstIs
  <2> QED
    BY <1>2, <2>1, <2>2, <2>5
<1> QED
  BY <1>6, <1>7

(* A unit is short only when it is the whole text. *)
ShortAlone == \A u \in units : IsShort(u) => units = {u}

LEMMA SplitKeepsText ==
    ASSUME text \in Texts
    PROVE  /\ Covers(SplitSentences, 1, TextEnd)
           /\ \A u \in SplitSentences : IsShort(u) => SplitSentences = {u}
<1> USE TextIs
<1> DEFINE merged == MergedUnits(RawUnits)
           first == First(merged)
           rest == merged \ {first}
           second == First(rest)
           both == [second EXCEPT !.start = first.start]
<1>1. /\ Covers(merged, 1, TextEnd)
      /\ \A u, v \in merged : IsShort(u) => u.start <= v.start
  BY RawCovers, MergedCovers
<1>2. SplitSentences = IF merged = {} \/ merged = {first} \/ ~IsShort(first) THEN merged
                       ELSE (merged \ {first, second}) \cup {both}
  BY DEF SplitSentences
<1> HIDE DEF merged
<1>3. merged \in SUBSET SideSpan /\ \A u \in merged : u.start \in Nat /\ u.end \in Nat
  BY <1>1 DEF Covers, SideSpan
<1>4. merged # {} => first \in merged /\ \A v \in merged : first.start <= v.start
  BY <1>3, FirstIs
<1>5. ASSUME NEW u \in merged, IsShort(u) PROVE u = first
  <2>1. first \in merged /\ first.start <= u.start /\ u.start <= first.start
    BY <1>1, <1>4, <1>5
  <2>2. first.start = u.start
    BY <1>3, <2>1
  <2> QED
    BY <1>1, <2>1, <2>2, StartsDiffer
<1>6. CASE merged = {} \/ merged = {first} \/ ~IsShort(first)
  BY <1>1, <1>2, <1>5, <1>6
<1>7. CASE ~(merged = {} \/ merged = {first} \/ ~IsShort(first))
  <2>1. first \in merged /\ rest # {} /\ rest \in SUBSET SideSpan
    BY <1>3, <1>4, <1>7
  <2>2. second \in rest /\ \A v \in rest : second.start <= v.start
    BY <2>1, FirstIs
  <2> HIDE DEF first, second
  <2>3. /\ first.start \in Nat /\ second.start \in Nat /\ second.end \in Nat
        /\ second \in merged /\ second # first /\ second.start < second.end
        /\ 1 <= first.start /\ second.end <= TextEnd
        /\ Boundary(first.start) /\ Boundary(second.end)
    BY <1>1, <1>3, <2>1, <2>2 DEF Covers
  <2>4. first.start < second.start /\ first.end <= second.start
    <3>1. first.start <= second.start /\ first.start # second.start
      BY <1>1, <1>4, <2>1, <2>3, StartsDiffer
    <3>2. first.start < second.start
      BY <2>3, <3>1
    <3> QED
      BY <1>1, <2>1, <2>3, <3>2, StartsDiffer
  <2>5. /\ both \in SideSpan /\ both.start = first.start /\ both.end = second.end
        /\ both = [start |-> first.start, end |-> second.end]
    BY <1>3, <2>3 DEF SideSpan
  <2> HIDE DEF both
  <2> DEFINE S == (merged \ {first, second}) \cup {both}
  <2>6. S = SplitSentences
    BY <1>2, <1>7
  <2>7. ASSUME NEW u \in merged \ {first, second} PROVE second.end <= u.start
    <3>1. second.start <= u.start /\ second.start # u.start
      BY <1>1, <2>2, <2>3, StartsDiffer
    <3>2. second.start < u.start
      BY <1>3, <2>3, <3>1
    <3> QED
      BY <1>1, <2>3, <3>2, StartsDiffer
  <2>8. ASSUME NEW u \in S
        PROVE  /\ u \in SideSpan /\ 1 <= u.start /\ u.start < u.end /\ u.end <= TextEnd
               /\ Boundary(u.start) /\ Boundary(u.end)
    <3>1. CASE u = both
      BY <2>3, <2>4, <2>5, <3>1
    <3>2. CASE u # both
      BY <1>1, <3>2 DEF Covers
    <3> QED
      BY <3>1, <3>2
  <2>9. Apart(S)
    BY <1>1, <2>5, <2>7 DEF Covers, Apart
  <2>10. ASSUME NEW p \in Visible(1, TextEnd) PROVE \E u \in S : u.start <= p /\ p < u.end
    <3>1. PICK w \in merged : w.start <= p /\ p < w.end
      BY <1>1 DEF Covers
    <3>2. p \in Nat /\ first.end \in Nat
      BY <1>3, <2>1 DEF Visible
    <3>3. CASE w = first \/ w = second
      BY <2>3, <2>4, <2>5, <3>1, <3>2, <3>3
    <3>4. CASE w \notin {first, second}
      BY <3>1, <3>4
    <3> QED
      BY <3>3, <3>4
  <2>11. ASSUME NEW u \in S PROVE ~IsShort(u)
    <3>1. CASE u = both
      <4>1. ~IsShort(second)
        BY <1>5, <2>3 DEF first
      <4> QED
        BY <2>3, <2>4, <2>5, <3>1, <4>1, SidesAssumption DEF IsShort, Size
    <3>2. CASE u # both
      BY <1>5, <3>2 DEF first
    <3> QED
      BY <3>1, <3>2
  <2> QED
    BY <2>6, <2>8, <2>9, <2>10, <2>11 DEF Covers
<1> QED
  BY <1>6, <1>7

-----------------------------------------------------------------------------
(* What a selection costs *)

WrittenBytes(S) == {w \in S \X DOMAIN text : w[2] \in w[1].start..w[1].end - 1}
Later(S) == {u \in S : \E v \in S : v.start < u.start}
Marked(S) == {u \in Later(S) : ~\E v \in S : Follows(u, v)}

LEMMA SizeIs ==
    ASSUME NEW S
    PROVE  JoinedSize(S) = Cardinality(WrittenBytes(S)) + Cardinality(Later(S))
                           + 4 * Cardinality(Marked(S))
BY DEF JoinedSize, WrittenBytes, Later, Marked, Gap

LEMMA UnitsFinite ==
    ASSUME text \in Texts, Covers(units, 1, TextEnd)
    PROVE  IsFiniteSet(units)
<1> USE TextIs
<1> DEFINE f == [u \in units |-> u.start]
<1>1. \A u \in units : u.start \in 1..TextEnd
  BY DEF Covers, Boundary
<1>2. f \in Injection(units, 1..TextEnd)
  BY <1>1, StartsDiffer DEF Injection, IsInjective
<1>3. IsFiniteSet(1..TextEnd)
  BY FS_Interval
<1> QED
  BY <1>2, <1>3, FS_Injection

LEMMA PartsFinite ==
    ASSUME text \in Texts, Covers(units, 1, TextEnd), NEW S \in SUBSET units
    PROVE  /\ IsFiniteSet(S) /\ IsFiniteSet(WrittenBytes(S))
           /\ IsFiniteSet(Later(S)) /\ IsFiniteSet(Marked(S))
           /\ Cardinality(WrittenBytes(S)) \in Nat
           /\ Cardinality(Later(S)) \in Nat /\ Cardinality(Marked(S)) \in Nat
           /\ JoinedSize(S) \in Nat
<1> USE TextIs
<1>1. IsFiniteSet(S)
  BY UnitsFinite, FS_Subset
<1>2. IsFiniteSet(S \X DOMAIN text)
  <2>1. DOMAIN text = 1..Len(text) /\ Len(text) \in Int
    OBVIOUS
  <2>2. IsFiniteSet(DOMAIN text)
    BY <2>1, FS_Interval
  <2> QED
    BY <1>1, <2>2, FS_Product
<1>3. WrittenBytes(S) \in SUBSET (S \X DOMAIN text)
  BY DEF WrittenBytes
<1>4. Later(S) \in SUBSET S /\ Marked(S) \in SUBSET S
  BY DEF Later, Marked
<1>5. /\ IsFiniteSet(WrittenBytes(S)) /\ IsFiniteSet(Later(S)) /\ IsFiniteSet(Marked(S))
  BY <1>1, <1>2, <1>3, <1>4, FS_Subset
<1>6. /\ Cardinality(WrittenBytes(S)) \in Nat
      /\ Cardinality(Later(S)) \in Nat /\ Cardinality(Marked(S)) \in Nat
  BY <1>5, FS_CardinalityType
<1> QED
  BY <1>1, <1>5, <1>6, SizeIs

(* A unit more costs its bytes. *)
LEMMA BytesGrow ==
    ASSUME text \in Texts, Covers(units, 1, TextEnd), NEW S \in SUBSET units,
           NEW j \in units, j \notin S
    PROVE  Cardinality(WrittenBytes(S \cup {j})) = Cardinality(WrittenBytes(S)) + Size(j)
<1> USE TextIs
<1> DEFINE J == {j} \X (j.start..j.end - 1)
<1>1. /\ j.start \in Nat /\ j.end \in Nat /\ 1 <= j.start /\ j.start < j.end
      /\ j.end <= TextEnd
  BY DEF Covers, SideSpan
<1>2. WrittenBytes(S \cup {j}) = WrittenBytes(S) \cup J
  BY <1>1 DEF WrittenBytes
<1>3. WrittenBytes(S) \cap J = {}
  BY DEF WrittenBytes
<1>4. IsFiniteSet(J) /\ Cardinality(J) = Size(j)
  <2>1. IsFiniteSet({j}) /\ Cardinality({j}) = 1
    BY FS_Singleton
  <2>2. /\ IsFiniteSet(j.start..j.end - 1)
        /\ Cardinality(j.start..j.end - 1) = j.end - j.start
    <3> DEFINE a == j.start
               b == j.end - 1
    <3>1. a \in Int /\ b \in Int /\ a <= b /\ b - a + 1 = j.end - j.start
      BY <1>1
    <3> HIDE DEF a, b
    <3>2. IsFiniteSet(a..b) /\ Cardinality(a..b) = IF a > b THEN 0 ELSE b - a + 1
      BY <3>1, FS_Interval, Zenon
    <3>3. IsFiniteSet(a..b) /\ Cardinality(a..b) = j.end - j.start
      BY <3>1, <3>2
    <3> QED
      BY <3>3 DEF a, b
  <2>3. IsFiniteSet(J) /\ Cardinality(J) = 1 * (j.end - j.start)
    BY <2>1, <2>2, FS_Product
  <2> QED
    BY <1>1, <2>3 DEF Size
<1>5. IsFiniteSet(WrittenBytes(S)) /\ Cardinality(WrittenBytes(S)) \in Nat
  BY PartsFinite
<1>6. Cardinality(WrittenBytes(S) \cup J)
      = Cardinality(WrittenBytes(S)) + Cardinality(J) - Cardinality(WrittenBytes(S) \cap J)
  BY <1>4, <1>5, FS_Union
<1>7. Cardinality(WrittenBytes(S) \cap J) = 0
  BY <1>3, FS_EmptySet
<1> HIDE DEF J
<1>8. Size(j) \in Int
  BY <1>1 DEF Size
<1>9. Cardinality(WrittenBytes(S) \cup J) = Cardinality(WrittenBytes(S)) + Size(j)
  <2> DEFINE w == Cardinality(WrittenBytes(S))
             c == Cardinality(J)
             i == Cardinality(WrittenBytes(S) \cap J)
             n == Cardinality(WrittenBytes(S) \cup J)
  <2>1. w \in Int /\ c = Size(j) /\ i = 0 /\ n = w + c - i
    BY <1>4, <1>5, <1>6, <1>7
  <2> HIDE DEF w, c, i, n
  <2>2. n = w + Size(j)
    BY <1>8, <2>1
  <2> QED
    BY <2>2 DEF w, n
<1> QED
  BY <1>2, <1>9

(* One unit is its own neighbour's only gap: the mark it saves is the one before
   the unit behind it. *)
LEMMA OneMarkLess ==
    ASSUME text \in Texts, Covers(units, 1, TextEnd), NEW S \in SUBSET units,
           NEW j \in units, j \notin S,
           NEW u \in Marked(S), u \notin Marked(S \cup {j})
    PROVE  /\ j \in Later(S \cup {j}) /\ j \notin Later(S)
           /\ \A v \in Marked(S) : v \notin Marked(S \cup {j}) => v = u
<1>1. \A v \in units : v.start \in Nat
  BY DEF Covers, SideSpan
<1>2. Later(S) \subseteq Later(S \cup {j})
  BY DEF Later
<1>3. ASSUME NEW v \in Marked(S), v \notin Marked(S \cup {j}) PROVE Follows(v, j) /\ v \in S
  <2>1. v \in Later(S \cup {j}) /\ ~\E w \in S : Follows(v, w)
    BY <1>2, <1>3 DEF Marked
  <2>2. v \in S
    BY <1>3 DEF Marked, Later
  <2> QED
    BY <1>3, <2>1, <2>2 DEF Marked
<1>4. Follows(u, j) /\ u \in S /\ u \in Later(S)
  BY <1>3 DEF Marked
<1>5. PICK v \in S : v.start < u.start
  BY <1>4 DEF Later
<1>6. v.start # j.start
  BY <1>5, StartsDiffer
<1>7. v.start < j.start
  BY <1>1, <1>4, <1>5, <1>6 DEF Follows
<1>8. j \in Later(S \cup {j}) /\ j \notin Later(S)
  BY <1>7 DEF Later
<1>9. ASSUME NEW w \in Marked(S), w \notin Marked(S \cup {j}) PROVE w = u
  <2>1. Follows(w, j) /\ Follows(u, j) /\ w \in units /\ u \in units
    BY <1>3, <1>4, <1>9
  <2>2. ~(w.start < u.start) /\ ~(u.start < w.start)
    BY <2>1 DEF Follows
  <2>3. w.start = u.start
    BY <1>1, <2>1, <2>2
  <2> QED
    BY <2>1, <2>3, StartsDiffer
<1> QED
  BY <1>8, <1>9

(* Selecting one unit more never makes the side shorter: the mark it may save is
   no longer than a unit and its space. *)
LEMMA SizeGrows ==
    ASSUME text \in Texts, Covers(units, 1, TextEnd), ShortAlone,
           NEW S \in SUBSET units, NEW j \in units
    PROVE  JoinedSize(S) <= JoinedSize(S \cup {j})
<1> DEFINE T == S \cup {j}
<1>0. CASE j \in S
  <2>1. S \cup {j} = S /\ JoinedSize(S) \in Nat
    BY <1>0, PartsFinite
  <2> QED
    BY <2>1
<1>1. CASE j \notin S
  <2>1. Cardinality(WrittenBytes(T)) = Cardinality(WrittenBytes(S)) + Size(j)
    BY <1>1, BytesGrow
  <2>2. T \in SUBSET units /\ Later(S) \in SUBSET Later(T)
    BY DEF Later
  <2>3. /\ IsFiniteSet(Later(S)) /\ IsFiniteSet(Later(T))
        /\ IsFiniteSet(Marked(S)) /\ IsFiniteSet(Marked(T))
        /\ Cardinality(WrittenBytes(S)) \in Nat /\ Cardinality(WrittenBytes(T)) \in Nat
        /\ Cardinality(Later(S)) \in Nat /\ Cardinality(Later(T)) \in Nat
        /\ Cardinality(Marked(S)) \in Nat /\ Cardinality(Marked(T)) \in Nat
    BY <2>2, PartsFinite
  <2>4. Size(j) \in Nat
    BY DEF Covers, SideSpan, Size
  <2>5. CASE Marked(S) \subseteq Marked(T)
    <3>1. /\ Cardinality(Later(S)) <= Cardinality(Later(T))
          /\ Cardinality(Marked(S)) <= Cardinality(Marked(T))
      BY <2>2, <2>3, <2>5, FS_Subset
    <3> QED
      BY <2>1, <2>3, <2>4, <3>1, SizeIs
  <2>6. CASE ~(Marked(S) \subseteq Marked(T))
    <3>1. PICK u \in Marked(S) : u \notin Marked(T)
      BY <2>6
    <3>2. /\ j \in Later(T) /\ j \notin Later(S)
          /\ \A v \in Marked(S) : v \notin Marked(T) => v = u
      BY <1>1, <3>1, OneMarkLess
    <3>3. Cardinality(Later(S)) + 1 <= Cardinality(Later(T))
      <4>1. Later(S) \cup {j} \in SUBSET Later(T)
        BY <2>2, <3>2
      <4>2. Cardinality(Later(S) \cup {j}) <= Cardinality(Later(T))
        BY <2>3, <4>1, FS_Subset
      <4>3. Cardinality(Later(S) \cup {j}) = Cardinality(Later(S)) + 1
        BY <2>3, <3>2, FS_AddElement
      <4> QED
        BY <4>2, <4>3
    <3>4. Cardinality(Marked(S)) <= Cardinality(Marked(T)) + 1
      <4>1. Marked(S) \in SUBSET (Marked(T) \cup {u})
        BY <3>2
      <4>2. IsFiniteSet(Marked(T) \cup {u})
            /\ Cardinality(Marked(T) \cup {u}) = Cardinality(Marked(T)) + 1
        BY <2>3, <3>1, FS_AddElement
      <4>3. Cardinality(Marked(S)) <= Cardinality(Marked(T) \cup {u})
        BY <4>1, <4>2, FS_Subset
      <4> QED
        BY <4>2, <4>3
    <3>5. Size(j) >= 3
      <4>1. ~IsShort(j)
        <5>1. u \in units /\ u # j
          BY <1>1, <3>1 DEF Marked, Later
        <5> QED
          BY <5>1 DEF ShortAlone
      <4> QED
        BY <2>4, <4>1, SidesAssumption DEF IsShort, Gap
    <3> HIDE DEF T
    <3>6. /\ JoinedSize(S) = Cardinality(WrittenBytes(S)) + Cardinality(Later(S))
                             + 4 * Cardinality(Marked(S))
          /\ JoinedSize(T) = Cardinality(WrittenBytes(T)) + Cardinality(Later(T))
                             + 4 * Cardinality(Marked(T))
      BY SizeIs
    <3>7. JoinedSize(S) <= JoinedSize(T)
      BY <2>1, <2>3, <2>4, <3>3, <3>4, <3>5, <3>6
    <3> QED
      BY <3>7 DEF T
  <2> QED
    BY <2>5, <2>6
<1> QED
  BY <1>0, <1>1

-----------------------------------------------------------------------------
(* The selection *)

(* Once split, the units are the text; those that were tried and not selected do
   not fit, and would not have fitted since. *)
SidesInv ==
    /\ text \in Texts /\ chars \in Nat
    /\ ranked \subseteq usable /\ chosen \subseteq usable /\ usable \subseteq units
    /\ sideAt = "given" => chosen = {}
    /\ sideAt # "given" => Covers(units, 1, TextEnd) /\ ShortAlone
    /\ sideAt = "written" => ranked = {}
    /\ sideAt # "given" /\ Len(text) > chars =>
         \A u \in usable \ (chosen \cup ranked) : JoinedSize(chosen \cup {u}) > chars

LEMMA SidesInvInit == SidesInit => SidesInv
BY SidesAssumption DEF SidesInit, SidesInv

LEMMA SidesInvSplit == SidesInv /\ Split => SidesInv'
<1> SUFFICES ASSUME SidesInv, Split PROVE SidesInv'
  OBVIOUS
<1>1. /\ text' = text /\ chars' = chars /\ chosen' = {} /\ units' = SplitSentences
      /\ usable' \in SUBSET units'
      /\ ranked' = IF Len(text) <= chars THEN {} ELSE usable'
      /\ sideAt' = IF ranked' = {} THEN "written" ELSE "selecting"
      /\ text \in Texts /\ chars \in Nat
  BY DEF Split, SidesInv
<1>2. Covers(SplitSentences, 1, TextEnd)
  BY <1>1, SplitKeepsText
<1>3. \A u \in SplitSentences : IsShort(u) => SplitSentences = {u}
  BY <1>1, SplitKeepsText
<1>4. Covers(units, 1, TextEnd)' /\ ShortAlone'
  BY <1>1, <1>2, <1>3 DEF Covers, Apart, Boundary, TextEnd, Visible, IsSpace, ShortAlone, IsShort, Size
<1>5. Len(text) > chars => ranked' = usable'
  BY <1>1, TextIs
<1>6. (Len(text) > chars)' =>
        (\A u \in usable \ (chosen \cup ranked) : JoinedSize(chosen \cup {u}) > chars)'
  BY <1>1, <1>5
<1> QED
  BY <1>1, <1>4, <1>6 DEF SidesInv

LEMMA SidesInvSelect == SidesInv /\ Select => SidesInv'
<1> SUFFICES ASSUME SidesInv, Select PROVE SidesInv'
  OBVIOUS
<1>1. /\ text' = text /\ chars' = chars /\ units' = units /\ usable' = usable
      /\ sideAt = "selecting"
      /\ sideAt' = IF ranked' = {} THEN "written" ELSE "selecting"
  BY DEF Select
<1>2. PICK u \in ranked : Try(u)
  BY DEF Select
<1>3. /\ text \in Texts /\ chars \in Nat
      /\ ranked \subseteq usable /\ chosen \subseteq usable /\ usable \subseteq units
      /\ Covers(units, 1, TextEnd) /\ ShortAlone
  BY <1>1 DEF SidesInv
<1>4. /\ ranked' = ranked \ {u}
      /\ \/ chosen' = chosen \cup {u}
         \/ chosen' = chosen /\ ~(JoinedSize(chosen \cup {u}) <= chars)
  BY <1>2 DEF Try
<1>5. Covers(units, 1, TextEnd)' /\ ShortAlone'
  BY <1>1, <1>3 DEF Covers, Apart, Boundary, TextEnd, Visible, IsSpace, ShortAlone, IsShort, Size
<1>6. ASSUME Len(text) > chars, NEW x \in usable, x \notin chosen', x \notin ranked'
      PROVE  JoinedSize(chosen' \cup {x}) > chars
  <2>1. \A y \in units : JoinedSize(chosen \cup {y}) \in Nat
    BY <1>3, PartsFinite
  <2>2. CASE chosen' = chosen /\ x = u
    <3>1. ~(JoinedSize(chosen \cup {x}) <= chars)
      BY <1>4, <1>6, <2>2
    <3> QED
      BY <1>3, <2>1, <2>2, <3>1
  <2>3. CASE x # u
    <3>1. JoinedSize(chosen \cup {x}) > chars
      BY <1>1, <1>4, <1>6, <2>3 DEF SidesInv
    <3>2. JoinedSize(chosen \cup {x}) <= JoinedSize((chosen \cup {x}) \cup {u})
      BY <1>3, SizeGrows
    <3>3. JoinedSize((chosen \cup {x}) \cup {u}) \in Nat
      BY <1>3, PartsFinite
    <3>4. JoinedSize((chosen \cup {x}) \cup {u}) > chars
      BY <1>3, <2>1, <3>1, <3>2, <3>3
    <3>5. chosen' \cup {x} = chosen \cup {x} \/ chosen' \cup {x} = (chosen \cup {x}) \cup {u}
      BY <1>4
    <3> QED
      BY <3>1, <3>4, <3>5
  <2>4. CASE chosen' = chosen \cup {u} /\ x = u
    BY <1>6, <2>4
  <2> QED
    BY <1>4, <2>2, <2>3, <2>4
<1>8. (\A x \in usable \ (chosen \cup ranked) : JoinedSize(chosen \cup {x}) > chars)'
        <=> \A x \in usable \ (chosen' \cup ranked') : JoinedSize(chosen' \cup {x}) > chars
  BY <1>1 DEF JoinedSize, Follows
<1>9. (sideAt # "given" /\ Len(text) > chars =>
         \A x \in usable \ (chosen \cup ranked) : JoinedSize(chosen \cup {x}) > chars)'
  BY <1>1, <1>6, <1>8
<1>10. (sideAt = "given" => chosen = {})' /\ (sideAt = "written" => ranked = {})'
  BY <1>1
<1>11. ranked' \subseteq usable' /\ chosen' \subseteq usable' /\ usable' \subseteq units'
  BY <1>1, <1>3, <1>4
<1> QED
  BY <1>1, <1>3, <1>5, <1>9, <1>10, <1>11 DEF SidesInv

LEMMA SidesInvNext == SidesInv /\ [SidesNext]_sideVars => SidesInv'
<1> SUFFICES ASSUME SidesInv, [SidesNext]_sideVars PROVE SidesInv'
  OBVIOUS
<1>1. CASE UNCHANGED sideVars
  BY <1>1 DEF sideVars, SidesInv, Covers, Apart, Boundary, TextEnd, Visible, IsSpace,
              ShortAlone, IsShort, Size, JoinedSize, Follows
<1> QED
  BY <1>1, SidesInvSplit, SidesInvSelect DEF SidesNext

LEMMA SidesInvShows == SidesInv => SidesKeepTheText
<1> SUFFICES ASSUME SidesInv PROVE SidesKeepTheText
  OBVIOUS
<1>1. ASSUME sideAt # "given" PROVE UnitsAreTheText
  <2> USE TextIs
  <2>1. text \in Texts /\ Covers(units, 1, TextEnd) /\ ShortAlone
    BY <1>1 DEF SidesInv
  <2>2. \A u, v \in units : u = v \/ u.end <= v.start \/ v.end <= u.start
    BY <2>1 DEF Covers, Apart
  <2>3. \A u \in units, p \in DOMAIN text : p \in {u.start, u.end} => text[p] # "rest"
    BY <2>1 DEF Covers, Boundary
  <2>4. ASSUME NEW p \in Visible(1, TextEnd) PROVE \E u \in units : p \in u.start..u.end - 1
    <3>1. PICK u \in units : u.start <= p /\ p < u.end
      BY <2>1, <2>4 DEF Covers
    <3>2. u.start \in Nat /\ u.end \in Nat /\ p \in Int
      BY <2>1, <2>4 DEF Covers, SideSpan, Visible
    <3>3. p \in u.start..u.end - 1
      BY <3>1, <3>2
    <3> QED
      BY <3>3
  <2> QED
    BY <2>1, <2>2, <2>3, <2>4 DEF UnitsAreTheText, ShortAlone
<1>2. ASSUME sideAt = "written" PROVE NothingMoreFits
  BY <1>2 DEF SidesInv, NothingMoreFits
<1> QED
  BY <1>1, <1>2 DEF SidesKeepTheText

(* A compressed side is made of whole parts of the text, none of them lost when
   it was split, and as many as the byte cap allows in that order. *)
THEOREM SidesKeepTheTextEver == SidesSpec => []SidesKeepTheText
<1>1. SidesSpec => []SidesInv
  BY SidesInvInit, SidesInvNext, PTL DEF SidesSpec
<1> QED
  BY <1>1, SidesInvShows, PTL
=============================================================================
