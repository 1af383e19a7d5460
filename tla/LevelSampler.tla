---------------------------- MODULE LevelSampler ----------------------------
(***************************************************************************)
(* How HnswIndex draws the level of a node: sample_level(), called by      *)
(* add() on a copy of random_ that is stored back when the insertion is    *)
(* complete.  HnswIndex.tla takes the levels as a sequence given by the    *)
(* seed; this module has the raw words of the generator behind them.  Its  *)
(* names differ from those of HnswIndex, so that proofs can extend both.   *)
(*                                                                         *)
(* The seed fixes an unknown sequence of words.  It is discovered word by  *)
(* word, and a word that is drawn again is the same.                       *)
(***************************************************************************)
EXTENDS Integers, Sequences, FiniteSets

CONSTANTS
    Word,       \* 2^64: a draw is below it, and uint64_t arithmetic is modulo it
    Bounds,     \* the values of M that are tried
    Cap,        \* 32, the highest level
    MaxNodes,   \* bound of the model: the number of nodes
    MaxDraws    \* bound of the model: the words that are discovered

\* The constructor refuses M < 2, and M > SIZE_MAX / 2.
ASSUME SamplerAssumption ==
    /\ Word \in Nat \ {0}
    /\ Bounds \subseteq 2..(Word \div 2)
    /\ Cap \in Nat /\ MaxNodes \in Nat /\ MaxDraws \in Nat

VARIABLES
    bound,      \* config_.M
    stream,     \* the words that the seed has yielded so far
    random,     \* random_: how many of them it has behind it
    next,       \* next_random, likewise
    level,      \* the level that is being drawn
    levels,     \* the levels of the stored nodes
    drawing     \* where the running add() is

samplerVars == <<bound, stream, random, next, level, levels, drawing>>

Words == 0..(Word - 1)

\* Mutant: 0 - bound does not wrap around.
ThresholdOfSignedZero == 0

\* (0 - bound) % bound in 64 bits: what is left of the words when they are
\* dealt out to the residues of bound.
Threshold == ((Word - bound) % Word) % bound

SamplerInit ==
    /\ bound \in Bounds
    /\ stream = <<>>
    /\ random = 0 /\ next = 0
    /\ level = 0
    /\ levels = <<>>
    /\ drawing = "idle"

\* Mutant: the level is drawn from random_ itself.
CopyNothing ==
    /\ drawing = "idle"
    /\ Len(levels) < MaxNodes
    /\ level' = 0
    /\ drawing' = IF Cap = 0 THEN "insert" ELSE "draw"
    /\ UNCHANGED <<bound, stream, random, next, levels>>

\* add() copies random_ and begins to draw.
CopyGenerator ==
    /\ drawing = "idle"
    /\ Len(levels) < MaxNodes
    /\ next' = random
    /\ level' = 0
    /\ drawing' = IF Cap = 0 THEN "insert" ELSE "draw"
    /\ UNCHANGED <<bound, stream, random, levels>>

\* The generator yields w: the word that comes next, or one not seen before.
Yields(w) ==
    /\ next' = next + 1
    /\ IF next < Len(stream)
       THEN w = stream[next + 1] /\ UNCHANGED stream
       ELSE Len(stream) < MaxDraws /\ stream' = Append(stream, w)

Promotes(w) == w % bound = 0

Draw ==
    /\ drawing = "draw"
    /\ \E w \in Words :
          /\ Yields(w)
          /\ \/ w < Threshold /\ UNCHANGED <<level, drawing>>
             \/ /\ w >= Threshold /\ Promotes(w)
                /\ level' = level + 1
                /\ drawing' = IF level' < Cap THEN "draw" ELSE "insert"
             \/ /\ w >= Threshold /\ ~ Promotes(w)
                /\ drawing' = "insert"
                /\ UNCHANGED level
    /\ UNCHANGED <<bound, random, levels>>

\* add() throws: the copy goes with its frame.
DropCopy ==
    /\ drawing = "insert"
    /\ drawing' = "idle"
    /\ UNCHANGED <<bound, stream, random, next, level, levels>>

\* The insertion is complete.
StoreCopy ==
    /\ drawing = "insert"
    /\ levels' = Append(levels, level)
    /\ random' = next
    /\ drawing' = "idle"
    /\ UNCHANGED <<bound, stream, next, level>>

SamplerNext == CopyGenerator \/ Draw \/ DropCopy \/ StoreCopy

SamplerSpec == SamplerInit /\ [][SamplerNext]_samplerVars

----------------------------------------------------------------------------
(* Properties *)

SamplerTypeOK ==
    /\ bound \in Bounds
    /\ stream \in Seq(Words)
    /\ random \in 0..Len(stream) /\ next \in 0..Len(stream)
    /\ level \in 0..Cap
    /\ levels \in Seq(0..Cap)
    /\ drawing \in {"idle", "draw", "insert"}
    /\ drawing = "draw" => level < Cap

Accepted == {w \in Words : w >= Threshold}
Promoted == {w \in Accepted : Promotes(w)}

\* A node rises one level further with probability 1/M exactly, for every M:
\* one in bound of the words that are not rejected, and most words are not.
PromotionIsOneInM ==
    /\ bound * Cardinality(Promoted) = Cardinality(Accepted)
    /\ 2 * Cardinality(Accepted) > Word

\* The positions of the accepted words behind a and up to b, and of those that promote.
AcceptedAt(a, b) == {p \in (a + 1)..b : stream[p] >= Threshold}
PromotedAt(a, b) == {p \in AcceptedAt(a, b) : Promotes(stream[p])}

\* One draw of a level takes the words behind a and up to b and yields l: as
\* many promotions, then one accepted word that ends them, unless the cap does.
Spells(a, b, l) ==
    /\ a <= b
    /\ l = Cardinality(PromotedAt(a, b))
    /\ AcceptedAt(a, b) \ PromotedAt(a, b) = IF l < Cap THEN {b} ELSE {}
    /\ l = Cap => IF Cap = 0 THEN a = b ELSE b \in PromotedAt(a, b)

\* A seed determines the levels: the words behind random_ decide the levels of
\* the stored nodes one after the other, none of them left out or used twice,
\* however many insertions failed in between.
LevelsSpellTheStream ==
    \E taken \in [0..Len(levels) -> 0..random] :
        /\ taken[0] = 0 /\ taken[Len(levels)] = random
        /\ \A n \in 1..Len(levels) : Spells(taken[n - 1], taken[n], levels[n])
=============================================================================
