-------------------------- MODULE BlockReduction ---------------------------
(***************************************************************************)
(* block_cosine_similarity_kernel: the lanes of one thread block score one *)
(* row.  Every lane accumulates its share of the dimensions, publishes the *)
(* partial sum in shared memory, and the block adds the partial sums up in *)
(* halving strides, with a barrier before every stage.  Lane 0 writes the  *)
(* score.                                                                  *)
(*                                                                         *)
(* Floating-point sums depend on their order, so a sum is the sequence of  *)
(* the dimensions in the order in which they were added.  The pair of sums *)
(* that a lane keeps (dot and norm) goes through the same steps and is one *)
(* sum here.                                                               *)
(***************************************************************************)
EXTENDS Integers, Sequences, FiniteSets

CONSTANTS
    BlockSize,      \* CudaSearchBackend::block_size
    Dimensions,     \* the dimensions that indexes may have
    Unset           \* a score that has not been written

\* A block is a power of two: it has no odd divisor but 1.
ASSUME BlockSizeAssumption ==
    /\ BlockSize \in Nat \ {0}
    /\ \A k \in 2..BlockSize : BlockSize % k = 0 => k % 2 = 0
    /\ Dimensions \subseteq Nat \ {0}

VARIABLES
    dimension, zeroQuery,   \* the kernel's arguments: dimension, query_norm == 0.0
    pc,                     \* where each lane is
    d,                      \* the loop counter of each lane
    sum,                    \* dot and norm of each lane
    stride,                 \* the stage of each lane
    operand,                \* what a lane has read of another lane's slot
    arrivals,               \* how many barriers each lane has reached
    slots,                  \* dots and norms, in shared memory
    score                   \* scores[row]

vars == <<dimension, zeroQuery, pc, d, sum, stride, operand, arrivals, slots, score>>

Lanes == 0..(BlockSize - 1)

\* Shared memory is not initialized.
Garbage == <<-1>>
Zero == <<>>

Init ==
    /\ dimension \in Dimensions
    /\ zeroQuery \in BOOLEAN
    /\ pc = [l \in Lanes |-> "start"]
    /\ d = [l \in Lanes |-> l]
    /\ sum = [l \in Lanes |-> <<>>]
    /\ stride = [l \in Lanes |-> 0]
    /\ operand = [l \in Lanes |-> <<>>]
    /\ arrivals = [l \in Lanes |-> 0]
    /\ slots = [l \in Lanes |-> Garbage]
    /\ score = Unset

Goto(l, stage) == pc' = [pc EXCEPT ![l] = stage]

\* Mutant: a lane that has no dimension of its own returns.
ReturnIfIdle(l) ==
    /\ pc[l] = "start"
    /\ Goto(l, IF zeroQuery \/ l >= dimension THEN "done" ELSE "accumulate")
    /\ score' = IF zeroQuery /\ l = 0 THEN Zero ELSE score
    /\ UNCHANGED <<dimension, zeroQuery, d, sum, stride, operand, arrivals, slots>>

Start(l) ==
    /\ pc[l] = "start"
    /\ Goto(l, IF zeroQuery THEN "done" ELSE "accumulate")
    /\ score' = IF zeroQuery /\ l = 0 THEN Zero ELSE score
    /\ UNCHANGED <<dimension, zeroQuery, d, sum, stride, operand, arrivals, slots>>

NextDimension(n) == n + BlockSize

Accumulate(l) ==
    /\ pc[l] = "accumulate"
    /\ d[l] < dimension
    /\ sum' = [sum EXCEPT ![l] = Append(@, d[l])]
    /\ d' = [d EXCEPT ![l] = NextDimension(@)]
    /\ UNCHANGED <<dimension, zeroQuery, pc, stride, operand, arrivals, slots, score>>

\* __syncthreads()
Arrive(l) ==
    /\ Goto(l, "barrier")
    /\ arrivals' = [arrivals EXCEPT ![l] = @ + 1]

\* Mutant: the first stride is the size of the block.
WholeBlock == BlockSize

FirstStride == BlockSize \div 2

Publish(l) ==
    /\ pc[l] = "accumulate"
    /\ d[l] >= dimension
    /\ slots' = [slots EXCEPT ![l] = sum[l]]
    /\ stride' = [stride EXCEPT ![l] = FirstStride]
    /\ Arrive(l)
    /\ UNCHANGED <<dimension, zeroQuery, d, sum, operand, score>>

\* Mutant: a barrier of the lane's warp, here of two lanes.
WarpArrived(l) ==
    \A m \in Lanes : m \div 2 = l \div 2 => arrivals[m] >= arrivals[l]

AllArrived(l) == \A m \in Lanes : arrivals[m] >= arrivals[l]

Cross(l) ==
    /\ pc[l] = "barrier"
    /\ AllArrived(l)
    /\ Goto(l, IF stride[l] = 0 THEN "finish" ELSE "stage")
    /\ UNCHANGED <<dimension, zeroQuery, d, sum, stride, operand, arrivals, slots, score>>

Load(l) ==
    /\ pc[l] = "stage"
    /\ l < stride[l]
    /\ operand' = [operand EXCEPT ![l] = slots[l + stride[l]]]
    /\ Goto(l, "add")
    /\ UNCHANGED <<dimension, zeroQuery, d, sum, stride, arrivals, slots, score>>

Add(l) ==
    /\ pc[l] = "add"
    /\ slots' = [slots EXCEPT ![l] = @ \o operand[l]]
    /\ operand' = [operand EXCEPT ![l] = <<>>]
    /\ stride' = [stride EXCEPT ![l] = @ \div 2]
    /\ Arrive(l)
    /\ UNCHANGED <<dimension, zeroQuery, d, sum, score>>

\* Mutant: the loop ends for a lane that has nothing more to add, and the lane
\* waits for the others at a barrier behind the loop.
LeaveLoop(l) ==
    /\ pc[l] = "stage"
    /\ l >= stride[l]
    /\ stride' = [stride EXCEPT ![l] = 0]
    /\ Arrive(l)
    /\ UNCHANGED <<dimension, zeroQuery, d, sum, operand, slots, score>>

\* A lane that has nothing to add in this stage.
SitOut(l) ==
    /\ pc[l] = "stage"
    /\ l >= stride[l]
    /\ stride' = [stride EXCEPT ![l] = @ \div 2]
    /\ Arrive(l)
    /\ UNCHANGED <<dimension, zeroQuery, d, sum, operand, slots, score>>

Finish(l) ==
    /\ pc[l] = "finish"
    /\ score' = IF l = 0 THEN slots[0] ELSE score
    /\ Goto(l, "done")
    /\ UNCHANGED <<dimension, zeroQuery, d, sum, stride, operand, arrivals, slots>>

Lane(l) ==
    \/ Start(l) \/ Accumulate(l) \/ Publish(l)
    \/ Cross(l) \/ Load(l) \/ Add(l) \/ SitOut(l) \/ Finish(l)

Next == \E l \in Lanes : Lane(l)

Spec == Init /\ [][Next]_vars

\* The warps of a resident block are all scheduled.
FairSpec == Spec /\ \A l \in Lanes : WF_vars(Lane(l))

----------------------------------------------------------------------------
(* Properties *)

\* Of dimensions, or of what was in shared memory before.
Sums == Seq(-1..(dimension - 1))

TypeOK ==
    /\ pc \in [Lanes -> {"start", "accumulate", "barrier", "stage", "add", "finish", "done"}]
    /\ d \in [Lanes -> Nat]
    /\ sum \in [Lanes -> Sums] /\ operand \in [Lanes -> Sums]
    /\ stride \in [Lanes -> 0..(BlockSize \div 2)]
    /\ arrivals \in [Lanes -> Nat]
    /\ slots \in [Lanes -> Sums]
    /\ score \in Sums \cup {Unset}

\* The slots that the next step of a lane may read and write.
Writes(l) ==
    IF (pc[l] = "accumulate" /\ d[l] >= dimension) \/ pc[l] = "add" THEN {l} ELSE {}
Reads(l) ==
    CASE pc[l] = "stage" /\ l < stride[l] -> {l, l + stride[l]}
      [] pc[l] = "add" -> {l}
      [] pc[l] = "finish" /\ l = 0 -> {0}
      [] OTHER -> {}

\* No two lanes can touch the same slot at the same time when one of them
\* writes it: the barriers separate every write from the reads of the others.
NoDataRace ==
    \A l, m \in Lanes : l # m => Writes(l) \cap (Reads(m) \cup Writes(m)) = {}

\* Lanes that wait for each other wait at the same __syncthreads() of the same
\* stage, which CUDA requires.
BarriersMatch ==
    \A l, m \in Lanes :
        pc[l] = "barrier" /\ pc[m] = "barrier" /\ arrivals[l] = arrivals[m]
            => stride[l] = stride[m]

\* The strides of the stages.
Strides == {s \in 1..(BlockSize \div 2) : BlockSize % (2 * s) = 0}

\* The sum has dimension e before dimension f: in the share of one lane the
\* smaller first; of the shares that a stage adds, that of the lower lane first.
Before(e, f) ==
    \/ e % BlockSize = f % BlockSize /\ e < f
    \/ \E s \in Strides : f % (2 * s) = (e % (2 * s)) + s

\* All dimensions, each in the place that Before gives it.
InOrder ==
    LET all == 0..(dimension - 1)
    IN  [i \in 1..dimension |->
            CHOOSE f \in all : Cardinality({e \in all : Before(e, f)}) = i - 1]

\* However the lanes are scheduled, each dimension is added exactly once and in
\* one order, so that the score of a row is the same bits in every search; a
\* zero query gives zero.
ScoreIsDeterministic ==
    score # Unset => score = IF zeroQuery THEN Zero ELSE InOrder

\* No lane waits at a barrier for one that has returned: every lane returns,
\* and the row has a score.
RowIsScored == <>(score # Unset /\ \A l \in Lanes : pc[l] = "done")
=============================================================================
