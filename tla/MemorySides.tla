---------------------------- MODULE MemorySides ----------------------------
(***************************************************************************)
(* One side of a memory under --compress-memories: how its text is split   *)
(* into units when it is saved, and which units are written when it is     *)
(* longer than --memory-line-chars.                                        *)
(*                                                                         *)
(* A text is a sequence of bytes, a byte is what the splitter takes it for.*)
(* A unit is its first byte and the byte after its last; units being apart,*)
(* the set of them has their order.  Scores only rank the units, so they   *)
(* are any order.                                                          *)
(***************************************************************************)
EXTENDS Integers, Sequences, FiniteSets, FiniteSetsExt

CONSTANTS
    Texts,
    MaxSentence,   \* kMaxSentenceBytes, 300 in the code
    MinFragment,   \* units shorter than this are merged, 20 in the code
    SideChars      \* --memory-line-chars

Gap == 5           \* bytes of the mark for skipped units

Bytes == {"letter", "lead", "rest", "space", "newline", "stop", "bullet", "tick"}

(* Texts come out of parsed JSON: a character is a byte, or one that leads up
   to three more. *)
WellFormed(t) ==
    \A p \in DOMAIN t : t[p] = "rest" =>
      \E q \in DOMAIN t : /\ t[q] = "lead" /\ q < p /\ p <= q + 3
                          /\ \A r \in q + 1..p - 1 : t[r] = "rest"

ASSUME SidesAssumption ==
    /\ Texts \subseteq Seq(Bytes)
    /\ \A t \in Texts : WellFormed(t)
    /\ MaxSentence \in Nat /\ MaxSentence >= 4    \* the widest character
    /\ MinFragment \in Nat /\ MinFragment + 2 >= Gap
    /\ SideChars \subseteq Nat \ {0}

VARIABLES
    text, chars,
    units,         \* the sentences of the text, none before it is saved
    usable,        \* the units that have a vector
    ranked,        \* those still to be tried
    chosen,        \* units selected so far
    sideAt         \* "given", "selecting" or "written"

sideVars == <<text, chars, units, usable, ranked, chosen, sideAt>>

-----------------------------------------------------------------------------
(* split_memory_sentences *)

TextEnd == Len(text) + 1
IsSpace(p) == text[p] \in {"space", "newline"}
Visible(start, end) == {p \in start..end - 1 : ~IsSpace(p)}
Size(unit) == unit.end - unit.start

(* trim_span; of nothing but spaces an empty span remains. *)
Trim(start, end) ==
    LET kept == Visible(start, end)
    IN  IF kept = {} THEN [start |-> end, end |-> end]
        ELSE [start |-> Min(kept), end |-> Max(kept) + 1]

Piece(start, end) == {span \in {Trim(start, end)} : span.start < span.end}

(* Mutant: a character may be cut in two. *)
SafeEndAnywhere(end) == end

(* utf8_safe_end *)
SafeEnd(end) == Max({p \in 1..end : text[p] # "rest"})

SplitPoint(start) ==
    LET split == SafeEnd(start + MaxSentence)
        afterSpaces == {p \in start + 1..split : IsSpace(p - 1)}
    IN  IF afterSpaces = {} THEN split ELSE Max(afterSpaces)

(* split_long_span *)
SplitLong(start, end) ==
    LET from[p \in start..end] ==
          IF end - p <= MaxSentence THEN Piece(p, end)
          ELSE LET split == SplitPoint(p)
               IN  Piece(p, split) \cup from[Min(Visible(split, end) \cup {end})]
    IN  from[start]

Fenced(line) ==
    /\ line.start + 3 <= line.end
    /\ \A p \in line.start..line.start + 2 : text[p] = "tick"

IsBullet(line) == line.start < line.end /\ text[line.start] = "bullet"

(* A line of prose is cut behind each full stop. *)
Sentences(line) ==
    LET stops == {p \in line.start..line.end - 1 : text[p] = "stop"}
        cuts == {line.start, line.end} \cup {p + 1 : p \in stops}
    IN  UNION {SplitLong(cut, Min({next \in cuts : next > cut}))
                 : cut \in cuts \ {line.end}}

LineEnds == {p \in DOMAIN text : text[p] = "newline"} \cup {TextEnd}

(* One line; code is the start of the open code block, 0 outside. *)
AddLine(before, lineEnd) ==
    LET line == Trim(before.next, lineEnd)
        Outside(spans) == [next |-> lineEnd + 1, code |-> 0, raw |-> before.raw \cup spans]
    IN  CASE before.code # 0 /\ Fenced(line) -> Outside(SplitLong(before.code, line.end))
          [] before.code # 0 /\ ~Fenced(line) -> [before EXCEPT !.next = lineEnd + 1]
          [] before.code = 0 /\ Fenced(line) ->
               [before EXCEPT !.next = lineEnd + 1, !.code = line.start]
          [] before.code = 0 /\ ~Fenced(line) /\ IsBullet(line) ->
               Outside(SplitLong(line.start, line.end))
          [] OTHER -> Outside(Sentences(line))

RawUnits ==
    LET read[pos \in 0..TextEnd] ==
          CASE pos = 0 -> [next |-> 1, code |-> 0, raw |-> {}]
            [] pos \in LineEnds -> AddLine(read[pos - 1], pos)
            [] OTHER -> read[pos - 1]
        all == read[TextEnd]
    IN  IF all.code = 0 THEN all.raw ELSE all.raw \cup SplitLong(all.code, TextEnd)

IsShort(unit) == Size(unit) < MinFragment
First(spans) == CHOOSE u \in spans : \A v \in spans : u.start <= v.start

(* Short units join the one before them, up to the next that is not short. *)
MergedUnits(raw) ==
    LET heads == {u \in raw : ~IsShort(u) \/ u = First(raw)}
        Joined(head) ==
          {u \in raw : /\ head.start <= u.start
                       /\ \A h \in heads : head.start < h.start => u.start < h.start}
    IN  {[start |-> head.start, end |-> Max({u.end : u \in Joined(head)})] : head \in heads}

(* The first one, when still short, joins the second. *)
SplitSentences ==
    LET merged == MergedUnits(RawUnits)
        first == First(merged)
        second == First(merged \ {first})
    IN  IF merged = {} \/ merged = {first} \/ ~IsShort(first) THEN merged
        ELSE (merged \ {first, second}) \cup {[second EXCEPT !.start = first.start]}

-----------------------------------------------------------------------------
(* compress_memory_side *)

Follows(u, v) ==
    v.start < u.start /\ ~\E w \in units : v.start < w.start /\ w.start < u.start

(* join_selected: a space between neighbours, the mark elsewhere. *)
JoinedSize(selected) ==
    LET written == {w \in selected \X DOMAIN text : w[2] \in w[1].start..w[1].end - 1}
        later == {u \in selected : \E v \in selected : v.start < u.start}
        marked == {u \in later : ~\E v \in selected : Follows(u, v)}
    IN  Cardinality(written) + Cardinality(later) + (Gap - 1) * Cardinality(marked)

SidesInit ==
    /\ text \in Texts /\ chars \in SideChars
    /\ units = {} /\ usable = {} /\ ranked = {} /\ chosen = {} /\ sideAt = "given"

(* Units whose embedding failed are not ranked; a text that fits is written
   as it is. *)
Split ==
    /\ sideAt = "given"
    /\ units' = SplitSentences
    /\ usable' \in SUBSET units'
    /\ ranked' = IF Len(text) <= chars THEN {} ELSE usable'
    /\ sideAt' = IF ranked' = {} THEN "written" ELSE "selecting"
    /\ UNCHANGED <<text, chars, chosen>>

(* Mutant: the first unit that does not fit ends the selection. *)
TryUntilFull(u) ==
    /\ chosen' = IF JoinedSize(chosen \cup {u}) <= chars THEN chosen \cup {u} ELSE chosen
    /\ ranked' = IF u \in chosen' THEN ranked \ {u} ELSE {}

Try(u) ==
    /\ chosen' = IF JoinedSize(chosen \cup {u}) <= chars THEN chosen \cup {u} ELSE chosen
    /\ ranked' = ranked \ {u}

Select ==
    /\ sideAt = "selecting"
    /\ \E u \in ranked : Try(u)
    /\ sideAt' = IF ranked' = {} THEN "written" ELSE "selecting"
    /\ UNCHANGED <<text, chars, units, usable>>

SidesNext == Split \/ Select

SidesSpec == SidesInit /\ [][SidesNext]_sideVars

-----------------------------------------------------------------------------
(* "UTF-8-safe sentence, bullet, and code-block units": units are apart, no
   character is cut, nothing but white space is in none, and a short one is the
   only one. *)
UnitsAreTheText ==
    /\ \A u, v \in units : u = v \/ u.end <= v.start \/ v.end <= u.start
    /\ \A u \in units, p \in DOMAIN text : p \in {u.start, u.end} => text[p] # "rest"
    /\ \A p \in Visible(1, TextEnd) : \E u \in units : p \in u.start..u.end - 1
    /\ \A u \in units : IsShort(u) => units = {u}

(* Though each unit is tried once, in the order of the scores, no unit left out
   would still fit beside those that were selected after it. *)
NothingMoreFits ==
    Len(text) > chars =>
      \A u \in usable \ chosen : JoinedSize(chosen \cup {u}) > chars

(* A compressed side is made of whole parts of the text, none of them lost when
   it was split, and as many as the byte cap allows in that order. *)
SidesKeepTheText ==
    /\ sideAt # "given" => UnitsAreTheText
    /\ sideAt = "written" => NothingMoreFits
=============================================================================
