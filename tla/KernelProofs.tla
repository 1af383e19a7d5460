---------------------------- MODULE KernelProofs ----------------------------
(***************************************************************************)
(* The two kernels that share the components of a row out: the block of    *)
(* lanes of BlockReduction, for every size of the block and every          *)
(* dimension, and the loops of Avx2Kernel, for every size_t.               *)
(***************************************************************************)
EXTENDS BlockReduction, FiniteSetTheorems, FunctionTheorems, SequenceTheorems,
        WellFoundedInduction, TLAPS

----------------------------------------------------------------------------
(* The block.  What a lane has written it has written before its arrival    *)
(* at a barrier; the invariant counts the barriers.                         *)

\* A lane for which no other is a barrier behind.
Crossed(l) == pc[l] \in {"stage", "add", "finish", "done"}

\* What a lane knows of itself.
LaneInv(l) ==
    /\ pc[l] \in {"start", "accumulate"} => arrivals[l] = 0
    /\ pc[l] \in {"barrier", "stage", "add", "finish"} => arrivals[l] > 0
    /\ pc[l] \in {"stage", "add"} => stride[l] > 0
    /\ pc[l] = "add" => l < stride[l]
    /\ arrivals[l] = 0 => stride[l] = 0
    /\ arrivals[l] = 1 => stride[l] = FirstStride

\* What the barriers make of two lanes: the number of arrivals fixes the
\* stride, and m is a barrier ahead of l only as long as it waits for l.
PairInv(l, m) ==
    /\ arrivals[m] <= arrivals[l] + 1
    /\ Crossed(m) => arrivals[m] <= arrivals[l]
    /\ arrivals[l] = arrivals[m] => stride[l] = stride[m]
    /\ arrivals[l] > 0 /\ arrivals[m] = arrivals[l] + 1 => stride[m] = stride[l] \div 2

BlockInv ==
    /\ TypeOK
    /\ dimension \in Nat
    /\ \A l \in Lanes : LaneInv(l)
    /\ \A l, m \in Lanes : PairInv(l, m)

\* Half of a stride is a stride.
LEMMA Halved ==
    ASSUME NEW s \in 0..(BlockSize \div 2)
    PROVE  s \div 2 \in 0..(BlockSize \div 2)
<1>1. BlockSize \div 2 \in Nat
  BY BlockSizeAssumption
<1>2. s \in Nat /\ s <= BlockSize \div 2
  BY <1>1
<1>3. s \div 2 \in Nat /\ s \div 2 <= s
  BY <1>2
<1> QED
  BY <1>1, <1>2, <1>3

\* The slot that a lane reads in a stage is one of the block's.
LEMMA PartnerIsLane ==
    ASSUME NEW l \in Lanes, NEW s \in 0..(BlockSize \div 2), l < s
    PROVE  l + s \in Lanes /\ l + s # l
<1>1. BlockSize \in Nat /\ l \in Nat /\ s \in Nat
  BY BlockSizeAssumption DEF Lanes
<1>2. s + s <= BlockSize
  BY <1>1, Z3
<1> QED
  BY <1>1, <1>2 DEF Lanes

\* Dimensions are dimensions of a sum.
LEMMA SumsAreSequences ==
    ASSUME dimension \in Nat
    PROVE  /\ <<>> \in Sums /\ Garbage \in Sums /\ Zero \in Sums
           /\ \A s \in Sums, e \in 0..(dimension - 1) : Append(s, e) \in Sums
           /\ \A s, t \in Sums : s \o t \in Sums
<1>1. <<>> \in Sums /\ Zero \in Sums
  BY EmptySeq DEF Sums, Zero
<1>2. Garbage \in Sums
  <2>1. -1 \in -1..(dimension - 1)
    OBVIOUS
  <2> QED
    BY <2>1 DEF Sums, Garbage
<1>3. ASSUME NEW s \in Sums, NEW e \in 0..(dimension - 1) PROVE Append(s, e) \in Sums
  BY <1>3, AppendProperties DEF Sums
<1>4. ASSUME NEW s \in Sums, NEW t \in Sums PROVE s \o t \in Sums
  BY <1>4, ConcatProperties DEF Sums
<1> QED
  BY <1>1, <1>2, <1>3, <1>4

LEMMA BlockInit == Init => BlockInv
<1> SUFFICES ASSUME Init PROVE BlockInv
  OBVIOUS
<1>1. dimension \in Nat /\ BlockSize \in Nat
  BY BlockSizeAssumption DEF Init
<1>2. \A l \in Lanes : l \in Nat
  BY DEF Lanes
<1>3. 0 \in 0..(BlockSize \div 2)
  BY <1>1, Z3
<1>4. TypeOK
  BY <1>1, <1>2, <1>3, SumsAreSequences DEF Init, TypeOK
<1>5. \A l \in Lanes : pc[l] = "start" /\ arrivals[l] = 0 /\ stride[l] = 0
  BY DEF Init
<1> QED
  BY <1>1, <1>4, <1>5 DEF BlockInv, LaneInv, PairInv, Crossed

----------------------------------------------------------------------------
(* The steps of a lane that arrive at no barrier keep arrivals and strides. *)

LEMMA StartStep ==
    ASSUME BlockInv, NEW l \in Lanes, Start(l)
    PROVE  BlockInv'
<1>1. /\ pc[l] = "start"
      /\ pc' = [pc EXCEPT ![l] = IF zeroQuery THEN "done" ELSE "accumulate"]
      /\ score' = IF zeroQuery /\ l = 0 THEN Zero ELSE score
      /\ UNCHANGED <<dimension, d, sum, stride, operand, arrivals, slots>>
  BY DEF Start, Goto
<1>2. TypeOK'
  BY <1>1, SumsAreSequences DEF BlockInv, TypeOK, Sums
<1>3. arrivals[l] = 0 /\ arrivals \in [Lanes -> Nat] /\ DOMAIN pc = Lanes
  BY <1>1 DEF BlockInv, LaneInv, TypeOK
<1>4. \A m \in Lanes : LaneInv(m)'
  BY <1>1, <1>3 DEF BlockInv, LaneInv, TypeOK, FirstStride
<1>5. \A m, n \in Lanes : PairInv(m, n)'
  BY <1>1, <1>3 DEF BlockInv, PairInv, TypeOK, Crossed
<1> QED
  BY <1>1, <1>2, <1>4, <1>5 DEF BlockInv

LEMMA AccumulateStep ==
    ASSUME BlockInv, NEW l \in Lanes, Accumulate(l)
    PROVE  BlockInv'
<1>1. /\ d[l] < dimension
      /\ sum' = [sum EXCEPT ![l] = Append(sum[l], d[l])]
      /\ d' = [d EXCEPT ![l] = d[l] + BlockSize]
      /\ UNCHANGED <<dimension, pc, stride, operand, arrivals, slots, score>>
  BY DEF Accumulate, NextDimension
<1>2. d[l] \in 0..(dimension - 1) /\ d[l] + BlockSize \in Nat /\ sum[l] \in Sums
  BY <1>1, BlockSizeAssumption DEF BlockInv, TypeOK
<1>3. Append(sum[l], d[l]) \in Sums
  BY <1>2, SumsAreSequences DEF BlockInv
<1>4. TypeOK'
  BY <1>1, <1>2, <1>3 DEF BlockInv, TypeOK, Sums
<1>5. (\A m \in Lanes : LaneInv(m)') /\ (\A m, n \in Lanes : PairInv(m, n)')
  BY <1>1 DEF BlockInv, LaneInv, PairInv, Crossed, FirstStride
<1> QED
  BY <1>1, <1>4, <1>5 DEF BlockInv

LEMMA CrossStep ==
    ASSUME BlockInv, NEW l \in Lanes, Cross(l)
    PROVE  BlockInv'
<1>1. /\ pc[l] = "barrier"
      /\ pc' = [pc EXCEPT ![l] = IF stride[l] = 0 THEN "finish" ELSE "stage"]
      /\ \A m \in Lanes : arrivals[m] >= arrivals[l]
      /\ UNCHANGED <<dimension, d, sum, stride, operand, arrivals, slots, score>>
  BY DEF Cross, Goto, AllArrived
<1>2. TypeOK'
  BY <1>1 DEF BlockInv, TypeOK, Sums
<1>3. /\ arrivals \in [Lanes -> Nat] /\ DOMAIN pc = Lanes
      /\ stride[l] \in Nat /\ arrivals[l] > 0
  BY <1>1, BlockSizeAssumption DEF BlockInv, LaneInv, TypeOK
<1>4. \A m \in Lanes : LaneInv(m)'
  BY <1>1, <1>3 DEF BlockInv, LaneInv, FirstStride
<1>5. \A m, n \in Lanes : PairInv(m, n)'
  BY <1>1, <1>3 DEF BlockInv, PairInv, Crossed
<1> QED
  BY <1>1, <1>2, <1>4, <1>5 DEF BlockInv

LEMMA LoadStep ==
    ASSUME BlockInv, NEW l \in Lanes, Load(l)
    PROVE  BlockInv'
<1>1. /\ pc[l] = "stage"
      /\ l < stride[l]
      /\ operand' = [operand EXCEPT ![l] = slots[l + stride[l]]]
      /\ pc' = [pc EXCEPT ![l] = "add"]
      /\ UNCHANGED <<dimension, d, sum, stride, arrivals, slots, score>>
  BY DEF Load, Goto
<1>2. stride[l] \in 0..(BlockSize \div 2)
  BY DEF BlockInv, TypeOK
<1>3. slots[l + stride[l]] \in Sums
  BY <1>1, <1>2, PartnerIsLane DEF BlockInv, TypeOK
<1>4. TypeOK'
  BY <1>1, <1>3 DEF BlockInv, TypeOK, Sums
<1>5. arrivals \in [Lanes -> Nat] /\ DOMAIN pc = Lanes
  BY DEF BlockInv, TypeOK
<1>6. \A m \in Lanes : LaneInv(m)'
  BY <1>1, <1>5 DEF BlockInv, LaneInv, FirstStride
<1>7. \A m, n \in Lanes : PairInv(m, n)'
  BY <1>1, <1>5 DEF BlockInv, PairInv, Crossed
<1> QED
  BY <1>1, <1>4, <1>6, <1>7 DEF BlockInv

LEMMA FinishStep ==
    ASSUME BlockInv, NEW l \in Lanes, Finish(l)
    PROVE  BlockInv'
<1>1. /\ pc[l] = "finish"
      /\ score' = IF l = 0 THEN slots[0] ELSE score
      /\ pc' = [pc EXCEPT ![l] = "done"]
      /\ UNCHANGED <<dimension, d, sum, stride, operand, arrivals, slots>>
  BY DEF Finish, Goto
<1>2. score' \in Sums \cup {Unset}
  BY <1>1 DEF BlockInv, TypeOK
<1>3. TypeOK'
  BY <1>1, <1>2 DEF BlockInv, TypeOK, Sums
<1>4. arrivals \in [Lanes -> Nat] /\ DOMAIN pc = Lanes
  BY DEF BlockInv, TypeOK
<1>5. \A m \in Lanes : LaneInv(m)'
  BY <1>1, <1>4 DEF BlockInv, LaneInv, FirstStride
<1>6. \A m, n \in Lanes : PairInv(m, n)'
  BY <1>1, <1>4 DEF BlockInv, PairInv, Crossed
<1> QED
  BY <1>1, <1>3, <1>5, <1>6 DEF BlockInv

----------------------------------------------------------------------------
(* The steps that arrive at a barrier.                                      *)

LEMMA PublishStep ==
    ASSUME BlockInv, NEW l \in Lanes, Publish(l)
    PROVE  BlockInv'
<1>1. /\ pc[l] = "accumulate"
      /\ slots' = [slots EXCEPT ![l] = sum[l]]
      /\ stride' = [stride EXCEPT ![l] = FirstStride]
      /\ pc' = [pc EXCEPT ![l] = "barrier"]
      /\ arrivals' = [arrivals EXCEPT ![l] = arrivals[l] + 1]
      /\ UNCHANGED <<dimension, d, sum, operand, score>>
  BY DEF Publish, Goto, Arrive
<1>2. /\ arrivals \in [Lanes -> Nat] /\ DOMAIN pc = Lanes
      /\ stride \in [Lanes -> 0..(BlockSize \div 2)]
      /\ arrivals[l] = 0
  BY <1>1 DEF BlockInv, LaneInv, TypeOK
<1>3. FirstStride \in 0..(BlockSize \div 2) /\ FirstStride \in Nat
  BY BlockSizeAssumption DEF FirstStride
<1>4. TypeOK'
  BY <1>1, <1>2, <1>3 DEF BlockInv, TypeOK, Sums
<1>5. FirstStride' = FirstStride
  BY DEF FirstStride
<1>6. \A m \in Lanes : LaneInv(m)'
  BY <1>1, <1>2, <1>5 DEF BlockInv, LaneInv
<1>7. arrivals'[l] = 1 /\ stride'[l] = FirstStride /\ pc'[l] = "barrier"
  BY <1>1, <1>2
<1>8. ASSUME NEW m \in Lanes, m # l
      PROVE  /\ arrivals'[m] = arrivals[m] /\ stride'[m] = stride[m] /\ pc'[m] = pc[m]
             /\ arrivals[m] \in {0, 1}
             /\ arrivals[m] = 1 => stride[m] = FirstStride
             /\ Crossed(m) => arrivals[m] = 0
  BY <1>1, <1>2, <1>8 DEF BlockInv, LaneInv, PairInv
<1>9. ASSUME NEW m \in Lanes, NEW n \in Lanes PROVE PairInv(m, n)'
  <2>1. CASE m # l /\ n # l
    BY <1>8, <2>1 DEF BlockInv, PairInv, Crossed
  <2>2. CASE m = l /\ n # l
    BY <1>7, <1>8, <2>2 DEF PairInv, Crossed
  <2>3. CASE m # l /\ n = l
    BY <1>7, <1>8, <2>3 DEF PairInv, Crossed
  <2>4. CASE m = l /\ n = l
    BY <1>7, <2>4 DEF PairInv, Crossed
  <2> QED
    BY <2>1, <2>2, <2>3, <2>4
<1> QED
  BY <1>1, <1>4, <1>6, <1>9 DEF BlockInv

\* A stage ends alike for a lane that has added and for one that sat it out.
EndStage(l) ==
    /\ pc[l] \in {"stage", "add"}
    /\ stride' = [stride EXCEPT ![l] = stride[l] \div 2]
    /\ pc' = [pc EXCEPT ![l] = "barrier"]
    /\ arrivals' = [arrivals EXCEPT ![l] = arrivals[l] + 1]

LEMMA EndOfStage ==
    ASSUME BlockInv, NEW l \in Lanes, EndStage(l)
    PROVE  (\A m \in Lanes : LaneInv(m)') /\ (\A m, n \in Lanes : PairInv(m, n)')
<1>1. /\ arrivals \in [Lanes -> Nat] /\ DOMAIN pc = Lanes
      /\ stride \in [Lanes -> 0..(BlockSize \div 2)]
      /\ arrivals[l] > 0
  BY DEF EndStage, BlockInv, LaneInv, TypeOK
<1>2. arrivals'[l] = arrivals[l] + 1 /\ stride'[l] = stride[l] \div 2 /\ pc'[l] = "barrier"
  BY <1>1 DEF EndStage
<1>3. FirstStride' = FirstStride
  BY DEF FirstStride
<1>4. ASSUME NEW m \in Lanes, m # l
      PROVE  /\ arrivals'[m] = arrivals[m] /\ stride'[m] = stride[m] /\ pc'[m] = pc[m]
             /\ arrivals[m] \in {arrivals[l], arrivals[l] + 1}
             /\ arrivals[m] = arrivals[l] => stride[m] = stride[l]
             /\ arrivals[m] = arrivals[l] + 1 => stride[m] = stride[l] \div 2
  <2>1. arrivals[l] <= arrivals[m] /\ arrivals[m] <= arrivals[l] + 1
    <3>1. PairInv(l, m) /\ PairInv(m, l)
      BY DEF BlockInv
    <3> QED
      BY <3>1 DEF PairInv, Crossed, EndStage
  <2> QED
    BY <1>1, <1>4, <2>1 DEF BlockInv, PairInv, EndStage
<1>5. ASSUME NEW m \in Lanes PROVE LaneInv(m)'
  <2>1. CASE m = l
    BY <1>1, <1>2, <1>3, <2>1 DEF LaneInv
  <2>2. CASE m # l
    BY <1>3, <1>4, <2>2 DEF BlockInv, LaneInv
  <2> QED
    BY <2>1, <2>2
<1>6. ASSUME NEW m \in Lanes, NEW n \in Lanes PROVE PairInv(m, n)'
  <2>1. CASE m # l /\ n # l
    BY <1>4, <2>1 DEF BlockInv, PairInv, Crossed
  <2>2. CASE m = l /\ n # l
    BY <1>1, <1>2, <1>4, <2>2 DEF PairInv, Crossed, BlockInv
  <2>3. CASE m # l /\ n = l
    BY <1>1, <1>2, <1>4, <2>3 DEF PairInv, Crossed
  <2>4. CASE m = l /\ n = l
    BY <1>1, <1>2, <2>4 DEF PairInv, Crossed
  <2> QED
    BY <2>1, <2>2, <2>3, <2>4
<1> QED
  BY <1>5, <1>6

LEMMA AddStep ==
    ASSUME BlockInv, NEW l \in Lanes, Add(l)
    PROVE  BlockInv'
<1>1. /\ EndStage(l)
      /\ slots' = [slots EXCEPT ![l] = slots[l] \o operand[l]]
      /\ operand' = [operand EXCEPT ![l] = <<>>]
      /\ UNCHANGED <<dimension, d, sum, score>>
  BY DEF Add, EndStage, Goto, Arrive
<1>2. slots[l] \o operand[l] \in Sums /\ <<>> \in Sums
  BY SumsAreSequences DEF BlockInv, TypeOK
<1>3. stride[l] \div 2 \in 0..(BlockSize \div 2) /\ arrivals[l] + 1 \in Nat
  BY Halved DEF BlockInv, TypeOK
<1>4. TypeOK'
  BY <1>1, <1>2, <1>3 DEF BlockInv, TypeOK, Sums, EndStage
<1> QED
  BY <1>1, <1>4, EndOfStage DEF BlockInv

LEMMA SitOutStep ==
    ASSUME BlockInv, NEW l \in Lanes, SitOut(l)
    PROVE  BlockInv'
<1>1. EndStage(l) /\ UNCHANGED <<dimension, d, sum, operand, slots, score>>
  BY DEF SitOut, EndStage, Goto, Arrive
<1>2. stride[l] \div 2 \in 0..(BlockSize \div 2) /\ arrivals[l] + 1 \in Nat
  BY Halved DEF BlockInv, TypeOK
<1>3. TypeOK'
  BY <1>1, <1>2 DEF BlockInv, TypeOK, Sums, EndStage
<1> QED
  BY <1>1, <1>3, EndOfStage DEF BlockInv

LEMMA BlockNext == BlockInv /\ [Next]_vars => BlockInv'
<1> SUFFICES ASSUME BlockInv, [Next]_vars PROVE BlockInv'
  OBVIOUS
<1>1. ASSUME NEW l \in Lanes, Lane(l) PROVE BlockInv'
  BY <1>1, StartStep, AccumulateStep, PublishStep, CrossStep, LoadStep, AddStep, SitOutStep,
     FinishStep DEF Lane
<1>2. CASE UNCHANGED vars
  BY <1>2 DEF vars, BlockInv, TypeOK, Sums, LaneInv, PairInv, Crossed, FirstStride
<1> QED
  BY <1>1, <1>2 DEF Next

LEMMA BlockInductive == Spec => []BlockInv
  BY BlockInit, BlockNext, PTL DEF Spec

----------------------------------------------------------------------------
\* Each lane's variables keep their types, for every size of the block: a
\* stride stays within half of it, so that no lane reads a slot beyond the last.
THEOREM TypeCorrect == Spec => []TypeOK
<1>1. BlockInv => TypeOK
  BY DEF BlockInv
<1> QED
  BY <1>1, BlockInductive, PTL

\* Two lanes never touch a slot at the same time if one of them writes it.
THEOREM RacesAreExcluded == Spec => []NoDataRace
<1>1. BlockInv => NoDataRace
  <2> SUFFICES ASSUME BlockInv, NEW l \in Lanes, NEW m \in Lanes, l # m,
                      Writes(l) \cap (Reads(m) \cup Writes(m)) # {}
               PROVE  FALSE
    BY DEF NoDataRace
  <2>1. /\ stride \in [Lanes -> 0..(BlockSize \div 2)] /\ arrivals \in [Lanes -> Nat]
        /\ l \in Nat /\ m \in Nat /\ BlockSize \in Nat
    <3>1. stride \in [Lanes -> 0..(BlockSize \div 2)] /\ arrivals \in [Lanes -> Nat]
      BY DEF BlockInv, TypeOK
    <3>2. l \in Nat /\ m \in Nat
      BY DEF Lanes
    <3>3. BlockSize \in Nat
      BY BlockSizeAssumption
    <3> QED
      BY <3>1, <3>2, <3>3
  <2>2. /\ pc[l] \in {"accumulate", "add"}
        /\ pc[m] = "stage" /\ l = m + stride[m]
    BY DEF Writes, Reads
  <2>3. arrivals[m] > 0 /\ arrivals[m] <= arrivals[l]
    BY <2>2 DEF BlockInv, LaneInv, PairInv, Crossed
  <2>4. pc[l] = "add" /\ l < stride[l] /\ arrivals[l] <= arrivals[m]
    <3>1. LaneInv(l) /\ PairInv(m, l)
      BY DEF BlockInv
    <3>2. arrivals[l] > 0
      BY <2>1, <2>3
    <3>3. pc[l] = "add"
      BY <2>2, <3>1, <3>2 DEF LaneInv
    <3> QED
      BY <3>1, <3>3 DEF LaneInv, PairInv, Crossed
  <2>5. arrivals[l] = arrivals[m]
    BY <2>1, <2>3, <2>4
  <2>6. stride[l] = stride[m]
    BY <2>5 DEF BlockInv, PairInv
  <2>7. stride[m] \in Nat
    BY <2>1, Z3
  <2> QED
    BY <2>1, <2>2, <2>4, <2>6, <2>7
<1> QED
  BY <1>1, BlockInductive, PTL

\* Lanes that wait for each other wait in the same stage.
THEOREM BarriersAgree == Spec => []BarriersMatch
<1>1. BlockInv => BarriersMatch
  BY DEF BlockInv, BarriersMatch, PairInv
<1> QED
  BY <1>1, BlockInductive, PTL

----------------------------------------------------------------------------
(* Remainders.                                                              *)

LEMMA Division ==
    ASSUME NEW n \in Nat, NEW b \in Nat \ {0}
    PROVE  n \div b \in Nat /\ n % b \in 0..(b - 1) /\ n = b * (n \div b) + (n % b)
  BY Z3

LEMMA ProductIsNatural ==
    ASSUME NEW a \in Nat, NEW b \in Nat
    PROVE  a * b \in Nat
  BY Z3

\* A remainder is determined.
LEMMA Remainder ==
    ASSUME NEW b \in Nat \ {0}, NEW q \in Nat, NEW r \in 0..(b - 1)
    PROVE  (b * q + r) % b = r
<1> DEFINE n == b * q + r
           p == n \div b
<1>1. b * q \in Nat /\ n \in Nat
  BY ProductIsNatural
<1>2. p \in Nat /\ n % b \in 0..(b - 1) /\ n = b * p + (n % b)
  BY <1>1, Division
<1>3. b * p \in Nat
  BY <1>2, ProductIsNatural
<1>4. ASSUME p < q PROVE FALSE
  <2>1. q - p - 1 \in Nat
    BY <1>2, <1>4
  <2>2. b * (q - p - 1) \in Nat
    BY <2>1, ProductIsNatural
  <2>3. b * (q - p - 1) = b * q - b * p - b
    BY <1>2, Z3
  <2> QED
    BY <1>1, <1>2, <1>3, <2>2, <2>3
<1>5. ASSUME q < p PROVE FALSE
  <2>1. p - q - 1 \in Nat
    BY <1>2, <1>5
  <2>2. b * (p - q - 1) \in Nat
    BY <2>1, ProductIsNatural
  <2>3. b * (p - q - 1) = b * p - b * q - b
    BY <1>2, Z3
  <2> QED
    BY <1>1, <1>2, <1>3, <2>2, <2>3
<1>6. p = q
  BY <1>2, <1>4, <1>5
<1> QED
  BY <1>1, <1>2, <1>3, <1>6

\* The remainder by a divisor of c is that of the remainder by c.
LEMMA FinerRemainder ==
    ASSUME NEW n \in Nat, NEW b \in Nat \ {0}, NEW c \in Nat \ {0}, c % b = 0
    PROVE  (n % c) % b = n % b
<1> DEFINE k == c \div b
           q == n \div c
           r == n % c
<1>1. k \in Nat /\ c = b * k
  BY Division
<1>2. q \in Nat /\ r \in 0..(c - 1) /\ n = c * q + r
  BY Division
<1> HIDE DEF k, q, r
<1>3. r \in Nat
  BY <1>2
<1>4. PICK t \in Nat : r = b * t + (r % b) /\ r % b \in 0..(b - 1)
  BY <1>3, Division
<1>5. k * q \in Nat /\ k * q + t \in Nat
  BY <1>1, <1>2, ProductIsNatural
<1>6. n = b * (k * q + t) + (r % b)
  <2>1. c * q = b * (k * q)
    BY <1>1, <1>2, Z3
  <2>2. b * (k * q + t) = b * (k * q) + b * t
    BY <1>5, Z3
  <2>3. b * (k * q) \in Nat /\ b * t \in Nat
    BY <1>5, ProductIsNatural
  <2> QED
    BY <1>1, <1>2, <1>4, <1>5, <2>1, <2>2, <2>3
<1>7. PICK u \in Nat : u = k * q + t
  BY <1>5
<1>8. (b * u + (r % b)) % b = r % b
  BY <1>4, Remainder
<1> QED
  BY <1>6, <1>7, <1>8 DEF r

\* What divides a divisor of c divides c.
LEMMA DivisorOfDivisor ==
    ASSUME NEW a \in Nat \ {0}, NEW b \in Nat \ {0}, NEW c \in Nat \ {0},
           c % b = 0, b % a = 0
    PROVE  c % a = 0
<1>1. (c % b) % a = c % a
  BY FinerRemainder
<1>2. 0 % a = 0
  <2>1. 0 \in Nat /\ 0 \div a \in Nat /\ 0 % a \in 0..(a - 1) /\ 0 = a * (0 \div a) + (0 % a)
    BY Division
  <2>2. a * (0 \div a) \in Nat
    BY <2>1, ProductIsNatural
  <2> QED
    BY <2>1, <2>2
<1> QED
  BY <1>1, <1>2

\* A remainder by 2 * s is the remainder by s, or s more.
LEMMA Halves ==
    ASSUME NEW n \in Nat, NEW s \in Nat \ {0}
    PROVE  /\ n % s \in 0..(s - 1) /\ n % (2 * s) \in 0..(2 * s - 1)
           /\ n % (2 * s) = n % s \/ n % (2 * s) = (n % s) + s
<1> DEFINE R == n % (2 * s)
<1>1. 2 * s \in Nat \ {0} /\ (2 * s) % s = 0
  <2>1. (s * 2 + 0) % s = 0
    BY Remainder
  <2> QED
    BY <2>1
<1>2. R \in 0..(2 * s - 1) /\ n % s \in 0..(s - 1)
  BY <1>1, Division
<1>3. R % s = n % s
  BY <1>1, FinerRemainder
<1> HIDE DEF R
<1>4. CASE R < s
  <2>1. R \in 0..(s - 1) /\ s * 0 + R = R
    BY <1>2, <1>4
  <2>2. (s * 0 + R) % s = R
    BY <2>1, Remainder
  <2> QED
    BY <1>2, <1>3, <2>1, <2>2 DEF R
<1>5. CASE R >= s
  <2>1. R - s \in 0..(s - 1) /\ s * 1 + (R - s) = R
    BY <1>2, <1>5
  <2>2. (s * 1 + (R - s)) % s = R - s
    BY <2>1, Remainder
  <2>3. R = (n % s) + s
    BY <1>2, <1>3, <2>1, <2>2
  <2> QED
    BY <1>2, <2>3 DEF R
<1> QED
  BY <1>2, <1>4, <1>5

----------------------------------------------------------------------------
(* Strides.  The divisors of a power of two are a chain, so that Before is  *)
(* a strict order.                                                          *)

\* A nonempty set of natural numbers has a least one.
LEMMA LeastExists ==
    ASSUME NEW T \in SUBSET Nat, T # {}
    PROVE  \E m \in T : \A u \in T : m <= u
<1>1. PICK m \in T : \A u \in T : ~ (<<u, m>> \in OpToRel(<, Nat))
  BY NatLessThanWellFounded, WFMin
<1>2. \A u \in T : ~ (u < m)
  BY <1>1 DEF OpToRel
<1> QED
  BY <1>2

Divisors == {b \in 1..BlockSize : BlockSize % b = 0}

LEMMA StrideDivides ==
    ASSUME NEW s \in Strides
    PROVE  /\ s \in Divisors /\ s \in Nat \ {0} /\ 2 * s \in Nat \ {0} /\ 2 * s <= BlockSize
           /\ BlockSize % (2 * s) = 0 /\ BlockSize % s = 0
<1>1. BlockSize \in Nat \ {0} /\ s \in 1..(BlockSize \div 2) /\ BlockSize % (2 * s) = 0
  BY BlockSizeAssumption DEF Strides
<1>2. s \in Nat \ {0} /\ 2 * s \in Nat \ {0} /\ 2 * s <= BlockSize
  BY <1>1
<1>3. (s * 2 + 0) % s = 0
  BY <1>2, Remainder
<1>4. (2 * s) % s = 0
  BY <1>2, <1>3
<1>5. BlockSize % s = 0
  BY <1>1, <1>2, <1>4, DivisorOfDivisor
<1> QED
  BY <1>1, <1>2, <1>5 DEF Divisors

\* A divisor but 1 is twice a stride.
LEMMA DivisorIsEven ==
    ASSUME NEW b \in Divisors, b # 1
    PROVE  b \div 2 \in Strides /\ b = 2 * (b \div 2)
<1>1. BlockSize \in Nat \ {0} /\ b \in 2..BlockSize /\ BlockSize % b = 0
  BY BlockSizeAssumption DEF Divisors
<1>2. b % 2 = 0
  BY <1>1, BlockSizeAssumption
<1>3. b = 2 * (b \div 2) /\ b \div 2 \in 1..(BlockSize \div 2)
  BY <1>1, <1>2
<1> QED
  BY <1>1, <1>3 DEF Strides

\* The stages that are left are over the smaller strides.
LEMMA NextStride ==
    /\ FirstStride \in {0} \cup Strides
    /\ FirstStride = 0 => BlockSize = 1
    /\ FirstStride # 0 => BlockSize = 2 * FirstStride
    /\ \A s \in Strides : /\ s \div 2 \in {0} \cup Strides
                          /\ s \div 2 = 0 => s = 1
                          /\ s \div 2 # 0 => s = 2 * (s \div 2)
<1>1. BlockSize \in Divisors
  <2>1. BlockSize \in Nat \ {0}
    BY BlockSizeAssumption
  <2>2. (BlockSize * 1 + 0) % BlockSize = 0
    BY <2>1, Remainder
  <2> QED
    BY <2>1, <2>2 DEF Divisors
<1>2. ASSUME NEW b \in Divisors
      PROVE  /\ b \div 2 \in {0} \cup Strides
             /\ b \div 2 = 0 => b = 1
             /\ b \div 2 # 0 => b = 2 * (b \div 2)
  <2>1. CASE b = 1
    <3>1. 1 \div 2 = 0
      OBVIOUS
    <3> QED
      BY <2>1, <3>1
  <2>2. CASE b # 1
    BY <2>2, DivisorIsEven DEF Strides
  <2> QED
    BY <2>1, <2>2
<1> QED
  BY <1>1, <1>2, StrideDivides DEF FirstStride

\* Of two divisors, twice the smaller divides the greater.
LEMMA DivisorsNest ==
    ASSUME NEW a \in Divisors, NEW b \in Divisors, a < b
    PROVE  b % (2 * a) = 0
<1> DEFINE Bad == {m \in Divisors : \E n \in Divisors : n < m /\ m % (2 * n) # 0}
<1> SUFFICES ASSUME Bad # {} PROVE FALSE
  OBVIOUS
<1>1. BlockSize \in Nat \ {0} /\ Divisors \subseteq Nat \ {0} /\ Bad \in SUBSET Nat
  BY BlockSizeAssumption DEF Divisors
<1>2. PICK m \in Bad : \A u \in Bad : m <= u
  BY <1>1, LeastExists
<1>3. PICK n \in Divisors : n < m /\ m % (2 * n) # 0
  BY <1>2
<1>4. m \in Nat \ {0} /\ n \in Nat \ {0} /\ m \in Divisors /\ m # 1
  BY <1>1, <1>2, <1>3
<1> DEFINE h == m \div 2
<1>5. h \in Divisors /\ h \in Nat \ {0} /\ m = 2 * h
  BY <1>4, DivisorIsEven, StrideDivides
<1> HIDE DEF h
<1>6. h \notin Bad
  BY <1>2, <1>5
<1>7. m % m = 0 /\ m % h = 0
  <2>1. (m * 1 + 0) % m = 0 /\ (h * 2 + 0) % h = 0
    BY <1>4, <1>5, Remainder
  <2> QED
    BY <1>4, <1>5, <2>1
<1>8. CASE n = h
  BY <1>3, <1>5, <1>7, <1>8
<1>9. CASE n < h
  <2>1. h % (2 * n) = 0 /\ 2 * n \in Nat \ {0}
    BY <1>4, <1>5, <1>6, <1>9
  <2> QED
    BY <1>3, <1>4, <1>5, <1>7, <2>1, DivisorOfDivisor
<1>10. CASE h < n
  <2>1. n # 1
    BY <1>4, <1>5, <1>10
  <2>2. PICK g \in Divisors : g \in Nat \ {0} /\ n = 2 * g
    BY <2>1, DivisorIsEven, StrideDivides
  <2>3. g < h
    BY <1>3, <1>4, <1>5, <2>2
  <2>4. h % n = 0
    BY <1>5, <1>6, <2>2, <2>3
  <2>5. h \div n \in Nat /\ h = n * (h \div n) + 0
    BY <1>4, <1>5, <2>4, Division
  <2>6. h \div n # 0
    BY <1>4, <1>5, <2>5
  <2>7. n * (h \div n) >= n
    <3>1. PICK k \in Nat : k = (h \div n) - 1
      BY <2>5, <2>6
    <3>2. n * k \in Nat
      BY <1>4, ProductIsNatural
    <3>3. n * (k + 1) = n * k + n
      BY <1>4, Z3
    <3>4. h \div n = k + 1
      BY <2>5, <3>1
    <3> QED
      BY <1>4, <3>2, <3>3, <3>4
  <2> QED
    BY <1>4, <1>5, <1>10, <2>5, <2>7
<1> QED
  BY <1>4, <1>5, <1>8, <1>9, <1>10

\* Shares that a stage adds agree in every later stage.
LEMMA StagesNest ==
    ASSUME NEW e \in Nat, NEW f \in Nat, NEW s \in Strides, NEW t \in Strides, s < t,
           f % (2 * t) = (e % (2 * t)) + t
    PROVE  e % (2 * s) = f % (2 * s)
<1>1. /\ s \in Nat \ {0} /\ t \in Nat \ {0} /\ s \in Divisors /\ t \in Divisors
      /\ 2 * s \in Nat \ {0} /\ 2 * t \in Nat \ {0}
  BY StrideDivides
<1>2. t % (2 * s) = 0
  BY <1>1, DivisorsNest
<1>3. e % t = f % t
  <2>1. /\ e % t \in 0..(t - 1) /\ e % (2 * t) \in 0..(2 * t - 1)
        /\ e % (2 * t) = e % t \/ e % (2 * t) = (e % t) + t
    BY <1>1, Halves
  <2>2. /\ f % t \in 0..(t - 1) /\ f % (2 * t) \in 0..(2 * t - 1)
        /\ f % (2 * t) = f % t \/ f % (2 * t) = (f % t) + t
    BY <1>1, Halves
  <2> QED
    BY <1>1, <2>1, <2>2
<1>4. (e % t) % (2 * s) = e % (2 * s) /\ (f % t) % (2 * s) = f % (2 * s)
  BY <1>1, <1>2, FinerRemainder
<1> QED
  BY <1>3, <1>4

\* Dimensions of one lane agree in every stage.
LEMMA ShareAgrees ==
    ASSUME NEW e \in Nat, NEW f \in Nat, e % BlockSize = f % BlockSize, NEW s \in Strides
    PROVE  e % (2 * s) = f % (2 * s)
<1>1. BlockSize \in Nat \ {0} /\ 2 * s \in Nat \ {0} /\ BlockSize % (2 * s) = 0
  BY BlockSizeAssumption, StrideDivides
<1>2. (e % BlockSize) % (2 * s) = e % (2 * s) /\ (f % BlockSize) % (2 * s) = f % (2 * s)
  BY <1>1, FinerRemainder
<1> QED
  BY <1>2

\* No dimension is added both before and after another, or before itself.
LEMMA BeforeIsStrict ==
    ASSUME NEW e \in Nat, NEW f \in Nat, Before(e, f)
    PROVE  ~ Before(f, e) /\ e # f
<1>1. ASSUME NEW s \in Strides
      PROVE  s \in Nat \ {0} /\ e % (2 * s) \in Nat /\ f % (2 * s) \in Nat
  <2>1. s \in Nat \ {0}
    BY StrideDivides
  <2>2. e % (2 * s) \in 0..(2 * s - 1) /\ f % (2 * s) \in 0..(2 * s - 1)
    BY <2>1, Halves
  <2> QED
    BY <2>1, <2>2
<1>2. ASSUME NEW s \in Strides, f % (2 * s) = (e % (2 * s)) + s,
             NEW t \in Strides, e % (2 * t) = (f % (2 * t)) + t
      PROVE  FALSE
  <2>1. CASE s < t
    BY <1>1, <1>2, <2>1, StagesNest
  <2>2. CASE t < s
    BY <1>1, <1>2, <2>2, StagesNest
  <2>3. CASE s = t
    BY <1>1, <1>2, <2>3
  <2> QED
    BY <1>1, <2>1, <2>2, <2>3
<1>3. ASSUME e % BlockSize = f % BlockSize, NEW s \in Strides
      PROVE  f % (2 * s) # (e % (2 * s)) + s /\ e % (2 * s) # (f % (2 * s)) + s
  BY <1>1, <1>3, ShareAgrees
<1>4. ~ Before(f, e)
  BY <1>2, <1>3 DEF Before
<1> QED
  BY <1>4

----------------------------------------------------------------------------
(* Sums in order.                                                           *)

\* q has the members of T, each once, and in the order of Before.
Lists(q, T) ==
    /\ q \in Seq(T)
    /\ \A e \in T : \E n \in 1..Len(q) : q[n] = e
    /\ \A m, n \in 1..Len(q) : m < n => Before(q[m], q[n])

\* The dimensions whose partial sum is the slot of lane l when m slots are left.
Class(n, m, l) == {e \in 0..(n - 1) : e % m = l}

LEMMA EmptyLists == Lists(<<>>, {})
  BY EmptySeq DEF Lists

\* Sums in order, all of one before all of the other, add up in order.
LEMMA ConcatLists ==
    ASSUME NEW S, NEW T, NEW p, NEW q, Lists(p, S), Lists(q, T),
           \A e \in S, f \in T : Before(e, f)
    PROVE  Lists(p \o q, S \cup T)
<1>1. p \in Seq(S) /\ q \in Seq(T) /\ p \in Seq(S \cup T) /\ q \in Seq(S \cup T)
  <2>1. \A A, B : A \subseteq B => Seq(A) \subseteq Seq(B)
    OBVIOUS
  <2> QED
    BY <2>1 DEF Lists
<1>2. /\ p \o q \in Seq(S \cup T)
      /\ Len(p \o q) = Len(p) + Len(q) /\ Len(p) \in Nat /\ Len(q) \in Nat
      /\ \A n \in 1..(Len(p) + Len(q)) :
             (p \o q)[n] = IF n <= Len(p) THEN p[n] ELSE q[n - Len(p)]
  BY <1>1, ConcatProperties, LenProperties
<1> DEFINE r == p \o q
<1> HIDE DEF r
<1>3. ASSUME NEW e \in S \cup T PROVE \E n \in 1..Len(r) : r[n] = e
  <2>1. CASE e \in S
    <3>1. PICK n \in 1..Len(p) : p[n] = e
      BY <2>1 DEF Lists
    <3> QED
      BY <1>2, <3>1 DEF r
  <2>2. CASE e \in T
    <3>1. PICK n \in 1..Len(q) : q[n] = e
      BY <2>2 DEF Lists
    <3>2. n + Len(p) \in 1..Len(r) /\ r[n + Len(p)] = e
      BY <1>2, <3>1 DEF r
    <3> QED
      BY <3>2
  <2> QED
    BY <2>1, <2>2
<1>4. ASSUME NEW m \in 1..Len(r), NEW n \in 1..Len(r), m < n
      PROVE  Before(r[m], r[n])
  <2>1. /\ m \in 1..(Len(p) + Len(q)) /\ n \in 1..(Len(p) + Len(q))
        /\ r[m] = IF m <= Len(p) THEN p[m] ELSE q[m - Len(p)]
        /\ r[n] = IF n <= Len(p) THEN p[n] ELSE q[n - Len(p)]
    BY <1>2 DEF r
  <2>2. CASE n <= Len(p)
    <3>1. m \in 1..Len(p) /\ n \in 1..Len(p) /\ r[m] = p[m] /\ r[n] = p[n]
      BY <1>2, <1>4, <2>1, <2>2
    <3> QED
      BY <1>4, <3>1 DEF Lists
  <2>3. CASE m > Len(p)
    <3>1. /\ m - Len(p) \in 1..Len(q) /\ n - Len(p) \in 1..Len(q) /\ m - Len(p) < n - Len(p)
          /\ r[m] = q[m - Len(p)] /\ r[n] = q[n - Len(p)]
      BY <1>2, <1>4, <2>1, <2>3
    <3> QED
      BY <3>1 DEF Lists
  <2>4. CASE m <= Len(p) /\ n > Len(p)
    <3>1. /\ m \in 1..Len(p) /\ n - Len(p) \in 1..Len(q)
          /\ r[m] = p[m] /\ r[n] = q[n - Len(p)]
      BY <1>2, <2>1, <2>4
    <3>2. p[m] \in S /\ q[n - Len(p)] \in T
      BY <1>1, <3>1, ElementOfSeq
    <3> QED
      BY <3>1, <3>2
  <2> QED
    BY <1>2, <2>1, <2>2, <2>3, <2>4
<1> QED
  BY <1>2, <1>3, <1>4 DEF Lists, r

\* A lane adds its next dimension last.
LEMMA AppendLists ==
    ASSUME NEW S, NEW q, NEW e, Lists(q, S), \A f \in S : Before(f, e)
    PROVE  Lists(Append(q, e), S \cup {e})
<1>1. <<e>> \in Seq({e}) /\ Len(<<e>>) = 1 /\ <<e>>[1] = e
  OBVIOUS
<1>2. Lists(<<e>>, {e})
  BY <1>1 DEF Lists
<1>3. Lists(q \o <<e>>, S \cup {e})
  BY <1>2, ConcatLists
<1>4. Append(q, e) = q \o <<e>>
  <2>1. q \in Seq(S \cup {e}) /\ e \in S \cup {e}
    <3>1. \A A, B : A \subseteq B => Seq(A) \subseteq Seq(B)
      OBVIOUS
    <3> QED
      BY <3>1 DEF Lists
  <2> QED
    BY <2>1, AppendIsConcat
<1> QED
  BY <1>3, <1>4

\* The sums of two slots a stride apart add up to that of the lower one.
LEMMA StageAdds ==
    ASSUME NEW n \in Nat, NEW s \in Strides, NEW l \in Nat, l < s, NEW p, NEW q,
           Lists(p, Class(n, 2 * s, l)), Lists(q, Class(n, 2 * s, l + s))
    PROVE  Lists(p \o q, Class(n, s, l))
<1>1. s \in Nat \ {0}
  BY StrideDivides
<1>2. Class(n, s, l) = Class(n, 2 * s, l) \cup Class(n, 2 * s, l + s)
  <2>1. ASSUME NEW e \in 0..(n - 1)
        PROVE  e % s = l <=> e % (2 * s) = l \/ e % (2 * s) = l + s
    <3> e \in Nat
      OBVIOUS
    <3>1. /\ e % s \in 0..(s - 1) /\ e % (2 * s) \in 0..(2 * s - 1)
          /\ e % (2 * s) = e % s \/ e % (2 * s) = (e % s) + s
      BY <1>1, Halves
    <3> QED
      BY <1>1, <3>1
  <2> QED
    BY <2>1 DEF Class
<1>3. \A e \in Class(n, 2 * s, l), f \in Class(n, 2 * s, l + s) : Before(e, f)
  BY DEF Class, Before
<1> QED
  BY <1>2, <1>3, ConcatLists

\* What is in order and complete is InOrder.
LEMMA ListsInOrder ==
    ASSUME dimension \in Nat, NEW q, Lists(q, 0..(dimension - 1))
    PROVE  q = InOrder
<1> DEFINE all == 0..(dimension - 1)
           ahead(f) == {e \in all : Before(e, f)}
<1>1. q \in [1..Len(q) -> all] /\ Len(q) \in Nat
  BY LenProperties DEF Lists
<1>2. ASSUME NEW m \in 1..Len(q), NEW n \in 1..Len(q), m # n
      PROVE  (Before(q[m], q[n]) <=> m < n) /\ q[m] # q[n]
  <2>1. q[m] \in Nat /\ q[n] \in Nat
    BY <1>1
  <2>2. CASE m < n
    BY <1>1, <2>1, <2>2, BeforeIsStrict DEF Lists
  <2>3. CASE n < m
    BY <1>1, <2>1, <2>3, BeforeIsStrict DEF Lists
  <2> QED
    BY <1>1, <1>2, <2>2, <2>3
<1>3. \A e \in all : \E n \in 1..Len(q) : q[n] = e
  BY DEF Lists
<1>4. IsFiniteSet(all) /\ Cardinality(all) = dimension
  <2>1. 0 \in Int /\ dimension - 1 \in Int
    OBVIOUS
  <2> QED
    BY <2>1, FS_Interval
<1>5. Len(q) = dimension
  <2>1. q \in Bijection(1..Len(q), all)
    BY <1>1, <1>2, <1>3, Fun_IsBij
  <2>2. IsFiniteSet(1..Len(q)) /\ Cardinality(1..Len(q)) = Len(q)
    <3>1. 1 \in Int /\ Len(q) \in Int
      BY <1>1
    <3>2. IsFiniteSet(1..Len(q))
          /\ Cardinality(1..Len(q)) = IF 1 > Len(q) THEN 0 ELSE Len(q) - 1 + 1
      BY <3>1, FS_Interval
    <3> QED
      BY <1>1, <3>2
  <2> QED
    BY <1>4, <2>1, <2>2, Fun_ExistsBij, FS_Bijection
<1>6. ASSUME NEW n \in 1..Len(q) PROVE Cardinality(ahead(q[n])) = n - 1
  <2> DEFINE g == [m \in 1..(n - 1) |-> q[m]]
  <2>1. \A m \in 1..(n - 1) : m \in 1..Len(q) /\ m < n
    BY <1>1
  <2>2. ASSUME NEW e \in ahead(q[n]) PROVE \E m \in 1..(n - 1) : g[m] = e
    <3>1. PICK m \in 1..Len(q) : q[m] = e
      BY <1>3
    <3>2. m # n
      <4>1. q[n] \in Nat /\ Before(e, q[n])
        BY <1>1, <2>2
      <4> QED
        BY <3>1, <4>1, BeforeIsStrict
    <3>3. m < n
      BY <1>2, <2>2, <3>1, <3>2
    <3> QED
      BY <1>1, <3>1, <3>3
  <2>3. g \in [1..(n - 1) -> ahead(q[n])]
    BY <1>1, <1>2, <2>1
  <2>4. \A m, k \in 1..(n - 1) : g[m] = g[k] => m = k
    BY <1>2, <2>1
  <2> HIDE DEF g, ahead
  <2>5. g \in Bijection(1..(n - 1), ahead(q[n]))
    BY <2>2, <2>3, <2>4, Fun_IsBij
  <2>6. IsFiniteSet(1..(n - 1)) /\ Cardinality(1..(n - 1)) = n - 1
    <3>1. 1 \in Int /\ n - 1 \in Int
      BY <1>1
    <3>2. IsFiniteSet(1..(n - 1))
          /\ Cardinality(1..(n - 1)) = IF 1 > n - 1 THEN 0 ELSE (n - 1) - 1 + 1
      BY <3>1, FS_Interval
    <3> QED
      BY <1>1, <3>2
  <2> QED
    BY <2>5, <2>6, Fun_ExistsBij, FS_Bijection
<1>7. ASSUME NEW n \in 1..dimension
      PROVE  q[n] = CHOOSE f \in all : Cardinality(ahead(f)) = n - 1
  <2>1. q[n] \in all /\ Cardinality(ahead(q[n])) = n - 1
    BY <1>1, <1>5, <1>6
  <2>2. ASSUME NEW f \in all, Cardinality(ahead(f)) = n - 1 PROVE f = q[n]
    <3>1. PICK m \in 1..Len(q) : q[m] = f
      BY <1>3
    <3>2. Cardinality(ahead(q[m])) = m - 1
      BY <1>6
    <3>3. m = n
      BY <1>5, <2>2, <3>1, <3>2
    <3> QED
      BY <3>1, <3>3
  <2> HIDE DEF ahead
  <2> QED
    BY <2>1, <2>2
<1>8. q = [n \in 1..dimension |-> q[n]]
  BY <1>1, <1>5
<1> QED
  BY <1>7, <1>8 DEF InOrder

----------------------------------------------------------------------------
(* The order of the block's sum.  While parts slots are left to add up, the *)
(* slot of a lane below parts holds the dimensions of its class modulo      *)
(* parts.  The slot above it, which its partner may still have to read,     *)
(* stays as the stage before left it.                                       *)

\* How many slots the stages before stride s leave to add up.
Parts(s) == IF s = 0 THEN 1 ELSE 2 * s

\* A lane that has not published its sum has its dimensions below d[l].
ShareInv(l) ==
    pc[l] \in {"start", "accumulate"} =>
        /\ d[l] % BlockSize = l
        /\ Lists(sum[l], {e \in Class(dimension, BlockSize, l) : e < d[l]})

SlotInv(l) ==
    arrivals[l] > 0 =>
        /\ stride[l] \in {0} \cup Strides
        /\ l < Parts(stride[l]) => Lists(slots[l], Class(dimension, Parts(stride[l]), l))
        /\ Parts(stride[l]) <= l /\ l < 2 * Parts(stride[l])
               => Lists(slots[l], Class(dimension, 2 * Parts(stride[l]), l))

StageInv(l) ==
    /\ pc[l] = "add" => Lists(operand[l], Class(dimension, 2 * stride[l], l + stride[l]))
    /\ pc[l] = "finish" => stride[l] = 0
    /\ zeroQuery => pc[l] \in {"start", "done"}

ScoreInv ==
    score # Unset => IF zeroQuery THEN score = Zero ELSE Lists(score, 0..(dimension - 1))

OrderInv ==
    /\ BlockInv
    /\ \A l \in Lanes : ShareInv(l) /\ SlotInv(l) /\ StageInv(l)
    /\ ScoreInv

\* A lane that a step of another leaves alone, and the score with it.
LEMMA OtherLane ==
    ASSUME NEW m \in Lanes, ShareInv(m), SlotInv(m), StageInv(m),
           UNCHANGED <<dimension, zeroQuery>>,
           /\ pc'[m] = pc[m] /\ d'[m] = d[m] /\ sum'[m] = sum[m] /\ stride'[m] = stride[m]
           /\ operand'[m] = operand[m] /\ arrivals'[m] = arrivals[m] /\ slots'[m] = slots[m]
    PROVE  ShareInv(m)' /\ SlotInv(m)' /\ StageInv(m)'
  BY DEF ShareInv, SlotInv, StageInv

LEMMA OrderInit == Init => OrderInv
<1> SUFFICES ASSUME Init PROVE OrderInv
  OBVIOUS
<1>1. BlockInv
  BY BlockInit
<1>2. ASSUME NEW l \in Lanes PROVE ShareInv(l)
  <2>1. BlockSize \in Nat \ {0} /\ l \in 0..(BlockSize - 1) /\ l \in Nat
    BY BlockSizeAssumption DEF Lanes
  <2>2. (BlockSize * 0 + l) % BlockSize = l
    BY <2>1, Remainder
  <2>3. l % BlockSize = l
    BY <2>1, <2>2
  <2>4. {e \in Class(dimension, BlockSize, l) : e < l} = {}
    <3>1. ASSUME NEW e \in 0..(dimension - 1), e < l PROVE e % BlockSize # l
      <4>1. e \in 0..(BlockSize - 1) /\ BlockSize * 0 + e = e
        BY <2>1, <3>1
      <4>2. (BlockSize * 0 + e) % BlockSize = e
        BY <2>1, <4>1, Remainder
      <4> QED
        BY <2>1, <3>1, <4>1, <4>2
    <3> QED
      BY <3>1 DEF Class
  <2>5. d[l] = l /\ sum[l] = <<>>
    BY DEF Init
  <2> QED
    BY <2>3, <2>4, <2>5, EmptyLists DEF ShareInv
<1>3. ASSUME NEW l \in Lanes PROVE SlotInv(l) /\ StageInv(l)
  BY DEF Init, SlotInv, StageInv
<1>4. ScoreInv
  BY DEF Init, ScoreInv
<1> QED
  BY <1>1, <1>2, <1>3, <1>4 DEF OrderInv

LEMMA StartOrder ==
    ASSUME OrderInv, NEW l \in Lanes, Start(l), BlockInv'
    PROVE  OrderInv'
<1>1. /\ pc[l] = "start"
      /\ pc' = [pc EXCEPT ![l] = IF zeroQuery THEN "done" ELSE "accumulate"]
      /\ score' = IF zeroQuery /\ l = 0 THEN Zero ELSE score
      /\ UNCHANGED <<dimension, zeroQuery, d, sum, stride, operand, arrivals, slots>>
  BY DEF Start, Goto
<1>2. DOMAIN pc = Lanes /\ arrivals[l] = 0
  BY <1>1 DEF OrderInv, BlockInv, TypeOK, LaneInv
<1>3. ASSUME NEW m \in Lanes PROVE ShareInv(m)' /\ SlotInv(m)' /\ StageInv(m)'
  <2>1. ShareInv(m) /\ SlotInv(m) /\ StageInv(m)
    BY DEF OrderInv
  <2>2. CASE m = l
    BY <1>1, <1>2, <2>1, <2>2 DEF ShareInv, SlotInv, StageInv
  <2>3. CASE m # l
    BY <1>1, <1>2, <2>1, <2>3, OtherLane
  <2> QED
    BY <2>2, <2>3
<1>4. ScoreInv'
  BY <1>1 DEF OrderInv, ScoreInv, Zero
<1> QED
  BY <1>3, <1>4 DEF OrderInv

\* The next dimension of a lane comes after those that it has added.
LEMMA AccumulateOrder ==
    ASSUME OrderInv, NEW l \in Lanes, Accumulate(l), BlockInv'
    PROVE  OrderInv'
<1>1. /\ pc[l] = "accumulate" /\ d[l] < dimension
      /\ sum' = [sum EXCEPT ![l] = Append(sum[l], d[l])]
      /\ d' = [d EXCEPT ![l] = d[l] + BlockSize]
      /\ UNCHANGED <<dimension, zeroQuery, pc, stride, operand, arrivals, slots, score>>
  BY DEF Accumulate, NextDimension
<1>2. /\ DOMAIN sum = Lanes /\ DOMAIN d = Lanes /\ d[l] \in Nat /\ dimension \in Nat
      /\ BlockSize \in Nat \ {0} /\ l \in 0..(BlockSize - 1) /\ arrivals[l] = 0
  BY <1>1, BlockSizeAssumption DEF OrderInv, BlockInv, TypeOK, LaneInv, Lanes
<1>3. ShareInv(l) /\ d[l] % BlockSize = l
  BY <1>1 DEF OrderInv, ShareInv
<1> DEFINE c == d[l]
           below(k) == {e \in Class(dimension, BlockSize, l) : e < k}
<1>4. c \div BlockSize \in Nat /\ c = BlockSize * (c \div BlockSize) + l
  BY <1>2, <1>3, Division
<1>5. (c + BlockSize) % BlockSize = l
  <2>1. PICK q \in Nat : q = c \div BlockSize
    BY <1>4
  <2>2. (BlockSize * (q + 1) + l) % BlockSize = l
    BY <1>2, Remainder
  <2>3. BlockSize * (q + 1) = BlockSize * q + BlockSize /\ BlockSize * q \in Nat
    BY <1>2, Z3
  <2> QED
    BY <1>2, <1>4, <2>1, <2>2, <2>3
<1>6. below(c + BlockSize) = below(c) \cup {c}
  <2>1. ASSUME NEW e \in 0..(dimension - 1), e % BlockSize = l, e < c + BlockSize, e > c
        PROVE  FALSE
    <3>1. e - c \in 1..(BlockSize - 1) /\ e \in Nat
      BY <1>2, <2>1
    <3>2. PICK q \in Nat : q = c \div BlockSize
      BY <1>4
    <3>3. PICK p \in Nat : e = BlockSize * p + l
      <4>1. e \div BlockSize \in Nat /\ e = BlockSize * (e \div BlockSize) + (e % BlockSize)
        BY <1>2, <3>1, Division
      <4> QED
        BY <2>1, <4>1
    <3>4. BlockSize * (p - q) = BlockSize * p - BlockSize * q
      BY <1>2, Z3
    <3>5. BlockSize * q \in Nat /\ BlockSize * p \in Nat
      BY <1>2, ProductIsNatural
    <3>6. BlockSize * (p - q) = e - c
      BY <1>2, <1>4, <3>2, <3>3, <3>4, <3>5
    <3>7. CASE p - q <= 0
      <4>1. q - p \in Nat
        BY <3>7
      <4>2. BlockSize * (q - p) \in Nat
        BY <1>2, <4>1, ProductIsNatural
      <4>3. BlockSize * (q - p) = BlockSize * q - BlockSize * p
        BY <1>2, Z3
      <4> QED
        BY <3>1, <3>4, <3>5, <3>6, <4>2, <4>3
    <3>8. CASE p - q >= 1
      <4>1. p - q - 1 \in Nat
        BY <3>8
      <4>2. BlockSize * (p - q - 1) \in Nat
        BY <1>2, <4>1, ProductIsNatural
      <4>3. BlockSize * (p - q - 1) = BlockSize * (p - q) - BlockSize
        BY <1>2, Z3
      <4> QED
        BY <1>2, <3>1, <3>6, <4>2, <4>3
    <3> QED
      BY <3>7, <3>8
  <2>2. c \in Class(dimension, BlockSize, l)
    BY <1>1, <1>2, <1>3 DEF Class
  <2>3. \A e \in Class(dimension, BlockSize, l) : e < c + BlockSize <=> e < c \/ e = c
    BY <1>2, <2>1 DEF Class
  <2> QED
    BY <2>2, <2>3
<1>7. \A e \in below(c) : Before(e, c)
  BY <1>3 DEF Class, Before
<1>8. Lists(Append(sum[l], c), below(c + BlockSize))
  <2>1. Lists(sum[l], below(c))
    BY <1>1, <1>3 DEF ShareInv
  <2> HIDE DEF below, c
  <2> QED
    BY <1>6, <1>7, <2>1, AppendLists
<1>9. ASSUME NEW m \in Lanes PROVE ShareInv(m)' /\ SlotInv(m)' /\ StageInv(m)'
  <2>1. ShareInv(m) /\ SlotInv(m) /\ StageInv(m)
    BY DEF OrderInv
  <2>2. CASE m = l
    <3>1. ShareInv(m)'
      BY <1>1, <1>2, <1>5, <1>8, <2>2 DEF ShareInv
    <3> QED
      BY <1>1, <1>2, <2>1, <2>2, <3>1 DEF SlotInv, StageInv
  <2>3. CASE m # l
    BY <1>1, <1>2, <2>1, <2>3, OtherLane
  <2> QED
    BY <2>2, <2>3
<1>10. ScoreInv'
  BY <1>1 DEF OrderInv, ScoreInv
<1> QED
  BY <1>9, <1>10 DEF OrderInv

\* A lane publishes all of its share.
LEMMA PublishOrder ==
    ASSUME OrderInv, NEW l \in Lanes, Publish(l), BlockInv'
    PROVE  OrderInv'
<1>1. /\ pc[l] = "accumulate" /\ d[l] >= dimension
      /\ slots' = [slots EXCEPT ![l] = sum[l]]
      /\ stride' = [stride EXCEPT ![l] = FirstStride]
      /\ pc' = [pc EXCEPT ![l] = "barrier"]
      /\ arrivals' = [arrivals EXCEPT ![l] = arrivals[l] + 1]
      /\ UNCHANGED <<dimension, zeroQuery, d, sum, operand, score>>
  BY DEF Publish, Goto, Arrive
<1>2. /\ DOMAIN slots = Lanes /\ DOMAIN stride = Lanes /\ DOMAIN pc = Lanes
      /\ DOMAIN arrivals = Lanes /\ d[l] \in Nat /\ dimension \in Nat
      /\ BlockSize \in Nat \ {0} /\ l \in 0..(BlockSize - 1)
  BY BlockSizeAssumption DEF OrderInv, BlockInv, TypeOK, Lanes
<1>3. FirstStride \in {0} \cup Strides /\ Parts(FirstStride) = BlockSize
  BY NextStride DEF Parts
<1>4. Lists(sum[l], Class(dimension, BlockSize, l))
  <2>1. {e \in Class(dimension, BlockSize, l) : e < d[l]} = Class(dimension, BlockSize, l)
    BY <1>1, <1>2 DEF Class
  <2> QED
    BY <1>1, <2>1 DEF OrderInv, ShareInv
<1>5. ASSUME NEW m \in Lanes PROVE ShareInv(m)' /\ SlotInv(m)' /\ StageInv(m)'
  <2>1. ShareInv(m) /\ SlotInv(m) /\ StageInv(m)
    BY DEF OrderInv
  <2>2. CASE m = l
    <3>1. stride'[l] = FirstStride /\ slots'[l] = sum[l] /\ pc'[l] = "barrier"
      BY <1>1, <1>2
    <3>2. SlotInv(l)'
      BY <1>1, <1>2, <1>3, <1>4, <3>1 DEF SlotInv
    <3> QED
      BY <1>1, <2>1, <2>2, <3>1, <3>2 DEF ShareInv, StageInv
  <2>3. CASE m # l
    BY <1>1, <1>2, <2>1, <2>3, OtherLane
  <2> QED
    BY <2>2, <2>3
<1>6. ScoreInv'
  BY <1>1 DEF OrderInv, ScoreInv
<1> QED
  BY <1>5, <1>6 DEF OrderInv

LEMMA CrossOrder ==
    ASSUME OrderInv, NEW l \in Lanes, Cross(l), BlockInv'
    PROVE  OrderInv'
<1>1. /\ pc[l] = "barrier"
      /\ pc' = [pc EXCEPT ![l] = IF stride[l] = 0 THEN "finish" ELSE "stage"]
      /\ UNCHANGED <<dimension, zeroQuery, d, sum, stride, operand, arrivals, slots, score>>
  BY DEF Cross, Goto
<1>2. DOMAIN pc = Lanes
  BY DEF OrderInv, BlockInv, TypeOK
<1>3. ASSUME NEW m \in Lanes PROVE ShareInv(m)' /\ SlotInv(m)' /\ StageInv(m)'
  <2>1. ShareInv(m) /\ SlotInv(m) /\ StageInv(m)
    BY DEF OrderInv
  <2>2. CASE m = l
    <3>1. ~ zeroQuery
      BY <1>1, <2>1, <2>2 DEF StageInv
    <3> QED
      BY <1>1, <1>2, <2>1, <2>2, <3>1 DEF ShareInv, SlotInv, StageInv
  <2>3. CASE m # l
    BY <1>1, <1>2, <2>1, <2>3, OtherLane
  <2> QED
    BY <2>2, <2>3
<1>4. ScoreInv'
  BY <1>1 DEF OrderInv, ScoreInv
<1> QED
  BY <1>3, <1>4 DEF OrderInv

\* What a lane reads of its partner is the sum of the stage, whether or not the
\* partner has already sat the stage out.
LEMMA LoadOrder ==
    ASSUME OrderInv, NEW l \in Lanes, Load(l), BlockInv'
    PROVE  OrderInv'
<1> DEFINE s == stride[l]
           p == l + s
<1>1. /\ pc[l] = "stage" /\ l < s
      /\ operand' = [operand EXCEPT ![l] = slots[p]]
      /\ pc' = [pc EXCEPT ![l] = "add"]
      /\ UNCHANGED <<dimension, zeroQuery, d, sum, stride, arrivals, slots, score>>
  BY DEF Load, Goto
<1>2. /\ DOMAIN pc = Lanes /\ DOMAIN operand = Lanes /\ arrivals \in [Lanes -> Nat]
      /\ s \in 0..(BlockSize \div 2) /\ s > 0 /\ arrivals[l] > 0 /\ l \in Nat
      /\ ~ zeroQuery
  <2>1. s > 0 /\ arrivals[l] > 0
    BY <1>1 DEF OrderInv, BlockInv, LaneInv
  <2>2. ~ zeroQuery
    BY <1>1 DEF OrderInv, StageInv
  <2> QED
    BY <2>1, <2>2 DEF OrderInv, BlockInv, TypeOK, Lanes
<1>3. p \in Lanes /\ p # l
  BY <1>1, <1>2, PartnerIsLane
<1>4. s \in Strides /\ s \in Nat \ {0}
  <2>1. SlotInv(l)
    BY DEF OrderInv
  <2>2. s \in Strides
    BY <1>2, <2>1 DEF SlotInv
  <2> QED
    BY <2>2, StrideDivides
<1> HIDE DEF s
<1>5. arrivals[p] \in {arrivals[l], arrivals[l] + 1}
  <2>1. PairInv(l, p) /\ PairInv(p, l)
    BY <1>3 DEF OrderInv, BlockInv
  <2>2. arrivals[p] <= arrivals[l] + 1 /\ arrivals[l] <= arrivals[p]
    BY <1>1, <2>1 DEF PairInv, Crossed
  <2> HIDE DEF p
  <2> QED
    BY <1>2, <1>3, <2>2
<1>6. Lists(slots[p], Class(dimension, 2 * s, p))
  <2>1. SlotInv(p) /\ PairInv(l, p) /\ arrivals[p] > 0
    BY <1>2, <1>3, <1>5 DEF OrderInv, BlockInv
  <2>2. CASE arrivals[p] = arrivals[l]
    <3>1. stride[p] = s
      BY <2>1, <2>2 DEF PairInv, s
    <3>2. Parts(stride[p]) = 2 * s /\ p < 2 * s
      BY <1>1, <1>2, <1>4, <3>1 DEF Parts, s
    <3> QED
      BY <2>1, <3>2 DEF SlotInv
  <2>3. CASE arrivals[p] = arrivals[l] + 1
    <3>1. stride[p] = s \div 2
      BY <1>2, <2>1, <2>3 DEF PairInv, s
    <3>2. Parts(stride[p]) = s
      BY <1>4, <3>1, NextStride DEF Parts
    <3>3. s <= p /\ p < 2 * s
      BY <1>1, <1>2, <1>4 DEF s
    <3> QED
      BY <2>1, <3>2, <3>3 DEF SlotInv
  <2> QED
    BY <1>5, <2>2, <2>3
<1>7. ASSUME NEW m \in Lanes PROVE ShareInv(m)' /\ SlotInv(m)' /\ StageInv(m)'
  <2>1. ShareInv(m) /\ SlotInv(m) /\ StageInv(m)
    BY DEF OrderInv
  <2>2. CASE m = l
    <3>1. operand'[l] = slots[p] /\ pc'[l] = "add"
      BY <1>1, <1>2
    <3>2. StageInv(l)'
      BY <1>1, <1>2, <1>6, <3>1 DEF StageInv, s
    <3> QED
      BY <1>1, <1>2, <2>1, <2>2, <3>1, <3>2 DEF ShareInv, SlotInv
  <2>3. CASE m # l
    BY <1>1, <1>2, <2>1, <2>3, OtherLane
  <2> QED
    BY <2>2, <2>3
<1>8. ScoreInv'
  BY <1>1 DEF OrderInv, ScoreInv
<1> QED
  BY <1>7, <1>8 DEF OrderInv

\* What the end of a stage leaves of a lane's slot.
LEMMA AddOrder ==
    ASSUME OrderInv, NEW l \in Lanes, Add(l), BlockInv'
    PROVE  OrderInv'
<1> DEFINE s == stride[l]
<1>1. /\ pc[l] = "add"
      /\ slots' = [slots EXCEPT ![l] = slots[l] \o operand[l]]
      /\ operand' = [operand EXCEPT ![l] = <<>>]
      /\ stride' = [stride EXCEPT ![l] = s \div 2]
      /\ pc' = [pc EXCEPT ![l] = "barrier"]
      /\ arrivals' = [arrivals EXCEPT ![l] = arrivals[l] + 1]
      /\ UNCHANGED <<dimension, zeroQuery, d, sum, score>>
  BY DEF Add, Goto, Arrive
<1>2. /\ DOMAIN pc = Lanes /\ DOMAIN operand = Lanes /\ DOMAIN slots = Lanes
      /\ DOMAIN stride = Lanes /\ DOMAIN arrivals = Lanes
      /\ arrivals[l] > 0 /\ l < s /\ s > 0 /\ l \in Nat /\ dimension \in Nat
  BY <1>1 DEF OrderInv, BlockInv, TypeOK, LaneInv, Lanes
<1>3. SlotInv(l) /\ StageInv(l) /\ ShareInv(l)
  BY DEF OrderInv
<1>4. s \in Strides /\ s \in Nat \ {0} /\ ~ zeroQuery
  <2>1. s \in Strides /\ ~ zeroQuery
    BY <1>1, <1>2, <1>3 DEF SlotInv, StageInv
  <2> QED
    BY <2>1, StrideDivides
<1>5. Lists(slots[l], Class(dimension, 2 * s, l))
  <2>1. Parts(s) = 2 * s /\ l < 2 * s
    BY <1>2, <1>4 DEF Parts
  <2> QED
    BY <1>2, <1>3, <2>1 DEF SlotInv
<1>6. Lists(operand[l], Class(dimension, 2 * s, l + s))
  BY <1>1, <1>3 DEF StageInv
<1>7. Lists(slots[l] \o operand[l], Class(dimension, s, l))
  BY <1>2, <1>4, <1>5, <1>6, StageAdds
<1>8. s \div 2 \in {0} \cup Strides /\ Parts(s \div 2) = s
  BY <1>4, NextStride DEF Parts
<1>9. ASSUME NEW m \in Lanes PROVE ShareInv(m)' /\ SlotInv(m)' /\ StageInv(m)'
  <2>1. ShareInv(m) /\ SlotInv(m) /\ StageInv(m)
    BY DEF OrderInv
  <2>2. CASE m = l
    <3>1. /\ slots'[l] = slots[l] \o operand[l] /\ pc'[l] = "barrier"
          /\ stride'[l] = s \div 2
      BY <1>1, <1>2
    <3>2. SlotInv(l)'
      <4> HIDE DEF s
      <4> QED
        BY <1>1, <1>2, <1>4, <1>7, <1>8, <3>1 DEF SlotInv
    <3> QED
      BY <1>1, <1>4, <2>1, <2>2, <3>1, <3>2 DEF ShareInv, StageInv
  <2>3. CASE m # l
    BY <1>1, <1>2, <2>1, <2>3, OtherLane
  <2> QED
    BY <2>2, <2>3
<1>10. ScoreInv'
  BY <1>1 DEF OrderInv, ScoreInv
<1> QED
  BY <1>9, <1>10 DEF OrderInv

\* A lane that sits a stage out keeps its slot for the lane that reads it.
LEMMA SitOutOrder ==
    ASSUME OrderInv, NEW l \in Lanes, SitOut(l), BlockInv'
    PROVE  OrderInv'
<1> DEFINE s == stride[l]
<1>1. /\ pc[l] = "stage" /\ l >= s
      /\ stride' = [stride EXCEPT ![l] = s \div 2]
      /\ pc' = [pc EXCEPT ![l] = "barrier"]
      /\ arrivals' = [arrivals EXCEPT ![l] = arrivals[l] + 1]
      /\ UNCHANGED <<dimension, zeroQuery, d, sum, operand, slots, score>>
  BY DEF SitOut, Goto, Arrive
<1>2. /\ DOMAIN pc = Lanes /\ DOMAIN stride = Lanes /\ DOMAIN arrivals = Lanes
      /\ arrivals[l] > 0 /\ s > 0 /\ l \in Nat /\ dimension \in Nat
  BY <1>1 DEF OrderInv, BlockInv, TypeOK, LaneInv, Lanes
<1>3. SlotInv(l) /\ StageInv(l) /\ ShareInv(l)
  BY DEF OrderInv
<1>4. s \in Strides /\ s \in Nat \ {0} /\ ~ zeroQuery
  <2>1. s \in Strides /\ ~ zeroQuery
    BY <1>1, <1>2, <1>3 DEF SlotInv, StageInv
  <2> QED
    BY <2>1, StrideDivides
<1>5. l < 2 * s => Lists(slots[l], Class(dimension, 2 * s, l))
  <2>1. Parts(s) = 2 * s
    BY <1>2, <1>4 DEF Parts
  <2> QED
    BY <1>2, <1>3, <2>1 DEF SlotInv
<1>6. s \div 2 \in {0} \cup Strides /\ Parts(s \div 2) = s
  BY <1>4, NextStride DEF Parts
<1>7. ASSUME NEW m \in Lanes PROVE ShareInv(m)' /\ SlotInv(m)' /\ StageInv(m)'
  <2>1. ShareInv(m) /\ SlotInv(m) /\ StageInv(m)
    BY DEF OrderInv
  <2>2. CASE m = l
    <3>1. pc'[l] = "barrier" /\ stride'[l] = s \div 2
      BY <1>1, <1>2
    <3>2. SlotInv(l)'
      <4>1. l >= s
        BY <1>1
      <4> HIDE DEF s
      <4> QED
        BY <1>1, <1>2, <1>4, <1>5, <1>6, <3>1, <4>1 DEF SlotInv
    <3> QED
      BY <1>1, <1>4, <2>1, <2>2, <3>1, <3>2 DEF ShareInv, StageInv
  <2>3. CASE m # l
    BY <1>1, <1>2, <2>1, <2>3, OtherLane
  <2> QED
    BY <2>2, <2>3
<1>8. ScoreInv'
  BY <1>1 DEF OrderInv, ScoreInv
<1> QED
  BY <1>7, <1>8 DEF OrderInv

\* After the last stage slot 0 has every dimension.
LEMMA FinishOrder ==
    ASSUME OrderInv, NEW l \in Lanes, Finish(l), BlockInv'
    PROVE  OrderInv'
<1>1. /\ pc[l] = "finish"
      /\ score' = IF l = 0 THEN slots[0] ELSE score
      /\ pc' = [pc EXCEPT ![l] = "done"]
      /\ UNCHANGED <<dimension, zeroQuery, d, sum, stride, operand, arrivals, slots>>
  BY DEF Finish, Goto
<1>2. DOMAIN pc = Lanes /\ arrivals[l] > 0 /\ dimension \in Nat
  BY <1>1 DEF OrderInv, BlockInv, TypeOK, LaneInv
<1>3. stride[l] = 0 /\ ~ zeroQuery /\ SlotInv(l)
  BY <1>1 DEF OrderInv, StageInv
<1>4. ASSUME NEW m \in Lanes PROVE ShareInv(m)' /\ SlotInv(m)' /\ StageInv(m)'
  <2>1. ShareInv(m) /\ SlotInv(m) /\ StageInv(m)
    BY DEF OrderInv
  <2>2. CASE m = l
    BY <1>1, <1>2, <1>3, <2>1, <2>2 DEF ShareInv, SlotInv, StageInv
  <2>3. CASE m # l
    BY <1>1, <1>2, <2>1, <2>3, OtherLane
  <2> QED
    BY <2>2, <2>3
<1>5. ScoreInv'
  <2>1. CASE l = 0
    <3>1. Class(dimension, 1, 0) = 0..(dimension - 1)
      <4>1. ASSUME NEW e \in 0..(dimension - 1) PROVE e % 1 = 0
        OBVIOUS
      <4> QED
        BY <4>1 DEF Class
    <3>2. Parts(stride[0]) = 1
      BY <1>3, <2>1 DEF Parts
    <3>3. Lists(slots[0], Class(dimension, 1, 0))
      BY <1>2, <1>3, <2>1, <3>2 DEF SlotInv
    <3> QED
      BY <1>1, <1>3, <2>1, <3>1, <3>3 DEF ScoreInv
  <2>2. CASE l # 0
    BY <1>1, <2>2 DEF OrderInv, ScoreInv
  <2> QED
    BY <2>1, <2>2
<1> QED
  BY <1>4, <1>5 DEF OrderInv

LEMMA OrderNext == OrderInv /\ [Next]_vars => OrderInv'
<1> SUFFICES ASSUME OrderInv, [Next]_vars PROVE OrderInv'
  OBVIOUS
<1>1. BlockInv'
  BY BlockNext DEF OrderInv
<1>2. ASSUME NEW l \in Lanes, Lane(l) PROVE OrderInv'
  BY <1>1, <1>2, StartOrder, AccumulateOrder, PublishOrder, CrossOrder, LoadOrder, AddOrder,
     SitOutOrder, FinishOrder DEF Lane
<1>3. CASE UNCHANGED vars
  BY <1>1, <1>3 DEF vars, OrderInv, ShareInv, SlotInv, StageInv, ScoreInv
<1> QED
  BY <1>2, <1>3 DEF Next

\* However the warps are scheduled, the block adds every dimension exactly once
\* and in the one order that the block size and the dimension determine.
THEOREM OneOrderOfAddition == Spec => []ScoreIsDeterministic
<1>1. OrderInv => ScoreIsDeterministic
  BY ListsInOrder DEF OrderInv, BlockInv, ScoreInv, ScoreIsDeterministic
<1> QED
  BY <1>1, OrderInit, OrderNext, PTL DEF Spec

----------------------------------------------------------------------------
(* The loops of the AVX2 kernel.                                            *)

VARIABLES size, i, added, part

Avx2 == INSTANCE Avx2Kernel

\* What is behind the index has been added, what is before it has not.
Avx2Inv ==
    /\ size \in 0..(Avx2!Word - 1)
    /\ i \in 0..size
    /\ added \in [0..(size + 8) -> Nat]
    /\ \A c \in 0..(size + 8) : added[c] = IF c < i THEN 1 ELSE 0
    /\ part \in {"eights", "ones", "done"}
    /\ part = "done" => i = size

\* The subtraction in the first loop's condition does not wrap around.
LEMMA NoWrap ==
    ASSUME Avx2Inv
    PROVE  (size - i) % Avx2!Word = size - i /\ size \in Nat /\ i \in Nat /\ i <= size
<1>1. size \in Nat /\ i \in Nat /\ i <= size /\ size - i < Avx2!Word /\ size - i >= 0
  BY DEF Avx2Inv, Avx2!Word
<1> QED
  BY <1>1, Z3 DEF Avx2!Word

LEMMA Avx2Next == Avx2Inv /\ [Avx2!Next]_Avx2!vars => Avx2Inv'
<1> SUFFICES ASSUME Avx2Inv, [Avx2!Next]_Avx2!vars PROVE Avx2Inv'
  OBVIOUS
<1>1. CASE Avx2!Eight
  <2>1. size - i >= 8 /\ i' = i + 8 /\ UNCHANGED <<size, part>> /\ part = "eights"
    BY <1>1, NoWrap DEF Avx2!Eight
  <2>2. i' \in 0..size /\ size \in Nat /\ i \in Nat
    BY <2>1, NoWrap
  <2>3. added' = [c \in 0..(size + 8) |->
                      added[c] + Avx2!LoadsFour(i, c) + Avx2!LoadsFour(i + 4, c)]
    BY <1>1 DEF Avx2!Eight, Avx2Inv
  <2>4. \A c \in 0..(size + 8) : added'[c] = IF c < i' THEN 1 ELSE 0
    <3> SUFFICES ASSUME NEW c \in 0..(size + 8)
                 PROVE  added'[c] = IF c < i' THEN 1 ELSE 0
      BY <2>1
    <3>1. added[c] = IF c < i THEN 1 ELSE 0
      BY DEF Avx2Inv
    <3>2. Avx2!LoadsFour(i, c) + Avx2!LoadsFour(i + 4, c)
              = IF i <= c /\ c < i + 8 THEN 1 ELSE 0
      BY <2>2 DEF Avx2!LoadsFour
    <3>3. Avx2!LoadsFour(i, c) \in Int /\ Avx2!LoadsFour(i + 4, c) \in Int
      BY DEF Avx2!LoadsFour
    <3>4. added'[c] = added[c] + (Avx2!LoadsFour(i, c) + Avx2!LoadsFour(i + 4, c))
      BY <2>3, <3>1, <3>3
    <3> QED
      BY <2>1, <2>2, <3>1, <3>2, <3>4
  <2>5. added' \in [0..(size + 8) -> Nat]
    BY <2>3, <2>4
  <2> QED
    BY <2>1, <2>2, <2>4, <2>5 DEF Avx2Inv
<1>2. CASE Avx2!One
  <2>1. i < size /\ i' = i + 1 /\ UNCHANGED <<size, part>> /\ part = "ones"
        /\ added' = [added EXCEPT ![i] = @ + 1]
    BY <1>2 DEF Avx2!One
  <2>2. i' \in 0..size /\ size \in Nat /\ i \in Nat
    BY <2>1, NoWrap
  <2>3. \A c \in 0..(size + 8) : added'[c] = IF c < i' THEN 1 ELSE 0
    BY <2>1, <2>2 DEF Avx2Inv
  <2>4. added' \in [0..(size + 8) -> Nat]
    BY <2>1, <2>2 DEF Avx2Inv
  <2> QED
    BY <2>1, <2>2, <2>3, <2>4 DEF Avx2Inv
<1>3. CASE Avx2!LeaveEights
  BY <1>3 DEF Avx2!LeaveEights, Avx2Inv
<1>4. CASE Avx2!Return
  <2>1. i = size
    BY <1>4, NoWrap DEF Avx2!Return
  <2> QED
    BY <1>4, <2>1 DEF Avx2!Return, Avx2Inv
<1>5. CASE UNCHANGED Avx2!vars
  BY <1>5 DEF Avx2!vars, Avx2Inv
<1> QED
  BY <1>1, <1>2, <1>3, <1>4, <1>5 DEF Avx2!Next

\* For every size that fits a size_t, the kernel adds each component exactly
\* once and reads no other.
THEOREM KernelIsComplete == Avx2!Spec => []Avx2!EachComponentOnce
<1>1. Avx2!Init => Avx2Inv
  BY DEF Avx2!Init, Avx2Inv, Avx2!Word
<1>2. Avx2Inv => Avx2!EachComponentOnce
  <2> SUFFICES ASSUME Avx2Inv PROVE Avx2!EachComponentOnce
    OBVIOUS
  <2>1. size \in Nat /\ i \in Nat /\ i <= size
    BY NoWrap
  <2>2. ASSUME NEW c \in DOMAIN added, added[c] # 0
        PROVE  c < size /\ added[c] = 1
    BY <2>1, <2>2 DEF Avx2Inv
  <2>3. ASSUME part = "done", NEW c \in 0..(size - 1) PROVE added[c] = 1
    BY <2>1, <2>3 DEF Avx2Inv
  <2> QED
    BY <2>2, <2>3 DEF Avx2!EachComponentOnce
<1> QED
  BY <1>1, <1>2, Avx2Next, PTL DEF Avx2!Spec
=============================================================================
