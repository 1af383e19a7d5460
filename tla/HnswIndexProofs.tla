-------------------------- MODULE HnswIndexProofs --------------------------
(***************************************************************************)
(* What HnswIndex promises, for every set of IDs and vectors, every        *)
(* similarity, every M and every number of nodes: the graph is well formed *)
(* in every reachable state, nothing of a failed add() is seen, searches   *)
(* find what they should and the index is a VectorStore.                   *)
(*                                                                         *)
(* The inductive invariant IInv has three parts: the graph that searches   *)
(* see, what a running add() has staged, and where the running call        *)
(* stands.  FillInv and SearchInv add what a search has met on its way,    *)
(* CapInv how long the link lists are, BackInv which links go both ways.   *)
(* The last sections unfold the loops of select_neighbors(), and are about *)
(* LevelSampler, which draws the levels.                                   *)
(***************************************************************************)
EXTENDS HnswIndex, LevelSampler, RankingProofs

\* The vectors, the levels that the seed gave them, and the generator.
NodesInv ==
    /\ size \in 0..Capacity
    /\ draws \in [0..(Capacity - 1) -> 0..TopLevel]
    /\ DOMAIN nodes = 0..(size - 1)
    /\ \A n \in 0..(size - 1) :
          nodes[n] \in [id : Ids, vector : Vectors,
                        links : [0..draws[n] -> SUBSET (0..(size - 1))]]
    /\ efSearch \in Breadths \ {0}
    /\ rng = Count

IndexInv ==
    /\ DOMAIN index \subseteq Ids
    /\ \A i \in DOMAIN index : index[i] \in 0..(Count - 1)
    /\ IdsIndexed

TopInv ==
    /\ entry \in Nat /\ maxLevel \in 0..TopLevel
    /\ Count > 0 => entry < Count /\ draws[entry] = maxLevel
    /\ \A n \in 0..(Count - 1) : draws[n] <= maxLevel

LinksInv ==
    \A n \in 0..(Count - 1) : \A l \in 0..draws[n] : \A m \in nodes[n].links[l] :
        m < Count /\ m # n /\ l <= draws[m]

\* The graph that searches see, and the shape of the node in the making.
GraphInv == NodesInv /\ IndexInv /\ TopInv /\ LinksInv /\ Chained

CallInv ==
    /\ call \in Calls \cup {NoCall}
    /\ Adding => /\ size > 0
                 /\ call.floor = draws[Inserted]

\* A list that add() has staged adds the new node to the old list and may
\* leave out others, but never one that is next to it in insertion order.
UpdateInv(u) ==
    /\ u \in [node : 0..(Count - 1), layer : Nat, links : SUBSET (0..Inserted)]
    /\ u.layer <= draws[u.node] /\ u.layer <= draws[Inserted]
    /\ u.links \subseteq nodes[u.node].links[u.layer] \cup {Inserted}
    /\ u.layer = 0 => {u.node - 1, u.node + 1} \cap (0..Inserted) \subseteq u.links

\* The new node's lists lead to complete nodes; when add() is about to commit,
\* the edge to its predecessor is there in both directions.
StagedInv ==
    /\ Adding => \A l \in 0..draws[Inserted] : \A m \in nodes[Inserted].links[l] :
                    m < Count /\ l <= draws[m]
    /\ Adding => nodes[Inserted].id \notin DOMAIN index
    /\ updates # {} => Adding
    /\ \A u \in updates : UpdateInv(u)
    /\ pc = "commit" =>
          /\ Adding
          /\ size > 1 => /\ Inserted - 1 \in nodes[Inserted].links[0]
                         /\ \E u \in updates : u.node = Inserted - 1 /\ u.layer = 0

StageInv ==
    /\ pc \in {"idle", "descend", "search", "commit"}
    /\ pc = "idle" <=> call = NoCall
    /\ layer \in 0..TopLevel /\ cur \in Nat
    /\ visited \subseteq 0..(Count - 1) /\ todo \subseteq 0..(Count - 1)

\* What is queued has been visited, and has been scored against the query.
QueueInv ==
    /\ \A c \in pending \cup nearest : c.node \in visited /\ c = Scored(call.query, c.node)
    /\ pc = "idle" => pending = {} /\ nearest = {}

PlaceInv ==
    /\ pc \in {"descend", "search"} => Count > 0 /\ layer <= maxLevel
    /\ pc = "descend" => cur < Count /\ layer <= draws[cur]
    /\ pc = "search" => /\ layer <= call.floor
                        /\ \A n \in visited \cup todo : layer <= draws[n]

\* Where the running call stands.
WalkInv == StageInv /\ QueueInv /\ PlaceInv

IInv == GraphInv /\ CallInv /\ StagedInv /\ WalkInv

----------------------------------------------------------------------------
(* Facts about the operators *)

\* Counters of nodes and layers are natural numbers.
LEMMA CountIsNat ==
    ASSUME NodesInv, CallInv
    PROVE  /\ Count \in Nat /\ size \in Nat /\ Count <= size /\ Count <= Capacity
           /\ Adding => Inserted = Count
           /\ ~ Adding => Count = size
           /\ Count - 1 \in Int
           /\ \A n \in 0..(Count - 1) : n \in 0..(size - 1)
  BY ConfigAssumption DEF NodesInv, CallInv, Count, Inserted

\* What the invariant says of one node.
LEMMA NodeFacts ==
    ASSUME IInv, NEW n \in 0..(size - 1)
    PROVE  /\ draws[n] \in 0..TopLevel /\ draws[n] \in Nat
           /\ nodes[n] \in [id : Ids, vector : Vectors,
                            links : [0..draws[n] -> SUBSET (0..(size - 1))]]
           /\ DOMAIN nodes[n].links = 0..draws[n]
<1>1. n \in 0..(Capacity - 1)
  BY ConfigAssumption DEF IInv, GraphInv, NodesInv
<1>2. nodes[n] \in [id : Ids, vector : Vectors,
                    links : [0..draws[n] -> SUBSET (0..(size - 1))]]
  BY DEF IInv, GraphInv, NodesInv
<1>3. draws[n] \in 0..TopLevel
  BY <1>1 DEF IInv, GraphInv, NodesInv
<1>4. QED
  BY <1>2, <1>3, ConfigAssumption

\* Candidates of different complete nodes have different IDs.
LEMMA ScoredRankable ==
    ASSUME GraphInv, CallInv, NEW v \in Vectors, NEW N, N \subseteq 0..(Count - 1)
    PROVE  Rankable(ScoredAll(v, N))
<1> DEFINE f == [n \in N |-> Scored(v, n)]
<1>1. IsFiniteSet(N)
  <2>1. Count - 1 \in Int
    BY CountIsNat DEF GraphInv
  <2>2. IsFiniteSet(0..(Count - 1))
    BY <2>1, FS_Interval
  <2>3. QED
    BY <2>2, FS_Subset
<1>2. f \in Surjection(N, ScoredAll(v, N))
  BY DEF Surjection, ScoredAll
<1>3. IsFiniteSet(ScoredAll(v, N))
  BY <1>1, <1>2, FS_Surjection
<1>4. \A n \in N : n \in 0..(size - 1)
  BY CountIsNat DEF GraphInv
<1>5. \A n \in N : nodes[n].id \in Ids /\ nodes[n].vector \in Vectors
  BY <1>4 DEF GraphInv, NodesInv
<1>6. \A n \in N : Scored(v, n).id \in Int /\ Scored(v, n).score \in Int
  BY <1>5, DataAssumption DEF Scored
<1>7. \A n, m \in N : nodes[n].id = nodes[m].id => n = m
  BY DEF GraphInv, IndexInv, IdsIndexed
<1>8. ASSUME NEW c \in ScoredAll(v, N), NEW d \in ScoredAll(v, N), c.id = d.id
      PROVE  c = d
  <2>1. PICK n \in N : c = Scored(v, n)
    BY DEF ScoredAll
  <2>2. PICK m \in N : d = Scored(v, m)
    BY DEF ScoredAll
  <2>3. c.id = nodes[n].id /\ d.id = nodes[m].id
    BY <2>1, <2>2 DEF Scored
  <2>4. QED
    BY <1>7, <1>8, <2>1, <2>2, <2>3
<1>9. \A c \in ScoredAll(v, N) : c.id \in Int /\ c.score \in Int
  BY <1>6 DEF ScoredAll
<1>10. QED
  BY <1>3, <1>8, <1>9 DEF Rankable

\* The selection of neighbours takes candidates only.
LEMMA SelectionBounds ==
    ASSUME NEW C, NEW limit, NEW required
    PROVE  /\ SelectNeighbors(C, limit, required) \subseteq required \cup NodesOf(C)
           /\ required \subseteq SelectNeighbors(C, limit, required)
<1> DEFINE D == Diversified(C, limit, required)
           pruned == {c \in C \ D : c.node \notin required}
           room == limit - Cardinality(required) - Cardinality(D)
<1>1. D \subseteq C
  BY DEF Diversified
<1>2. Best(room, pruned) \subseteq C
  BY BestSubset
<1> HIDE DEF D, pruned, room
<1>3. required \cup NodesOf(D) \cup NodesOf(Best(room, pruned)) \subseteq required \cup NodesOf(C)
  BY <1>1, <1>2 DEF NodesOf
<1>4. QED
  BY <1>3 DEF SelectNeighbors, D, pruned, room

\* The parts of the invariant that most steps leave alone.
LEMMA GraphStable ==
    ASSUME GraphInv, UNCHANGED <<nodes, committed, draws, efSearch>>, Count' = Count
    PROVE  GraphInv'
<1> USE DEF committed
<1>1. NodesInv'
  BY DEF GraphInv, NodesInv
<1>2. IndexInv'
  BY DEF GraphInv, IndexInv, IdsIndexed
<1>3. TopInv'
  BY DEF GraphInv, TopInv
<1>4. LinksInv'
  BY DEF GraphInv, LinksInv
<1>5. Chained'
  BY DEF GraphInv, Chained
<1>6. QED
  BY <1>1, <1>2, <1>3, <1>4, <1>5 DEF GraphInv

\* A step that leaves the call and the walk alone keeps what holds of them.
LEMMA CallStable ==
    ASSUME CallInv, UNCHANGED <<committed, draws, call>>
    PROVE  CallInv' /\ Count' = Count
  BY DEF CallInv, Calls, Inserted, committed, Count, Adding

\* A step that leaves the staged lists alone keeps what holds of them.
LEMMA StagedStable ==
    ASSUME StagedInv, UNCHANGED <<nodes, committed, draws, efSearch, call, updates>>,
           pc' # "commit"
    PROVE  StagedInv'
  BY DEF StagedInv, UpdateInv, committed, Count, Inserted, Adding

----------------------------------------------------------------------------
(* The steps of a walk *)

\* While a call walks, the nodes it stands on and links to are complete ones.
LEMMA WalkFacts ==
    ASSUME IInv, pc \in {"descend", "search"}
    PROVE  /\ Count \in Nat /\ Count > 0 /\ Count <= size
           /\ call \in Calls /\ call.query \in Vectors
           /\ call.floor \in Nat /\ layer \in 0..TopLevel /\ layer \in Nat
           /\ \A n \in 0..(Count - 1) : n \in 0..(size - 1) /\ draws[n] \in Nat
           /\ \A n \in 0..(Count - 1) : layer <= draws[n] =>
                 nodes[n].links[layer] \subseteq {m \in 0..(Count - 1) : layer <= draws[m]}
<1> USE DEF IInv
<1>1. Count \in Nat /\ Count > 0 /\ Count <= size
  BY CountIsNat DEF WalkInv, PlaceInv, GraphInv
<1>2. call \in Calls /\ call.query \in Vectors /\ call.floor \in Nat
  BY ConfigAssumption DEF WalkInv, StageInv, CallInv, Calls, NoCall
<1>3. layer \in Nat /\ layer \in 0..TopLevel
  BY ConfigAssumption DEF WalkInv, StageInv
<1>4. ASSUME NEW n \in 0..(Count - 1)
      PROVE  n \in 0..(size - 1) /\ draws[n] \in Nat
  <2>1. NodesInv /\ CallInv
    BY DEF GraphInv
  <2>2. n < Count /\ Count <= size /\ size \in Nat /\ Count <= Capacity
    BY <2>1, <1>1, CountIsNat
  <2>3. n \in 0..(Capacity - 1) /\ n \in 0..(size - 1)
    BY <1>1, <2>2, ConfigAssumption
  <2>4. QED
    BY <2>1, <2>3, ConfigAssumption DEF NodesInv
<1>5. ASSUME NEW n \in 0..(Count - 1), layer <= draws[n], NEW m \in nodes[n].links[layer]
      PROVE  m \in 0..(Count - 1) /\ layer <= draws[m]
  <2>1. n \in 0..(size - 1)
    BY <1>4
  <2>2. draws[n] \in Nat
    BY <1>4
  <2>3. layer \in 0..draws[n]
    BY <1>3, <1>5, <2>2
  <2>4. nodes[n].links \in [0..draws[n] -> SUBSET (0..(size - 1))]
    BY <2>1 DEF GraphInv, NodesInv
  <2>5. m \in 0..(size - 1)
    BY <1>5, <2>3, <2>4
  <2>6. m < Count /\ layer <= draws[m]
    BY <1>5, <2>3 DEF GraphInv, LinksInv
  <2>7. QED
    BY <1>1, <2>5, <2>6
<1>6. QED
  BY <1>1, <1>2, <1>3, <1>5, <1>4

\* The greedy walk moves to a neighbour of the node it stands on.
LEMMA ClosestNeighbourIsNear ==
    ASSUME IInv, pc = "descend"
    PROVE  ClosestNeighbour \in 0..(Count - 1) /\ layer <= draws[ClosestNeighbour]
<1> DEFINE N == {cur} \cup Neighbours
           S == ScoredAll(call.query, N)
<1>1. cur \in 0..(Count - 1) /\ layer <= draws[cur]
  BY WalkFacts DEF IInv, WalkInv, PlaceInv, StageInv
<1>2. N \subseteq {n \in 0..(Count - 1) : layer <= draws[n]} /\ N # {}
  BY <1>1, WalkFacts DEF Neighbours
<1>3. Rankable(S) /\ S # {}
  BY <1>2, WalkFacts, ScoredRankable DEF IInv, ScoredAll
<1>4. Nearest(S) \in S
  BY <1>3, NearestIsFirst
<1>5. Nearest(S).node \in N
  <2>1. PICK n \in N : Nearest(S) = Scored(call.query, n)
    BY <1>4 DEF ScoredAll
  <2>2. QED
    BY <2>1 DEF Scored
<1>6. QED
  BY <1>2, <1>5 DEF ClosestNeighbour

\* The greedy walk, one layer after the other, preserves the invariant.
LEMMA ApproachDescend ==
    ASSUME IInv, Approach \/ Descend
    PROVE  IInv'
<1> USE DEF IInv
<1>1. GraphInv' /\ CallInv' /\ StagedInv'
  BY GraphStable, CallStable, StagedStable DEF Approach, Descend, committed
<1>2. pc = "descend" /\ pc' = "descend"
  BY DEF Approach, Descend
<1>3. UNCHANGED <<size, draws, call, visited, todo, pending, nearest, maxLevel, nodes>>
  BY DEF Approach, Descend, committed
<1>4. cur \in 0..(Count - 1) /\ layer <= draws[cur]
  BY <1>2, WalkFacts DEF WalkInv, StageInv, PlaceInv
<1>5. cur' \in 0..(Count - 1) /\ layer' \in Nat /\ layer' <= layer /\ layer' <= draws[cur']
  <2>1. CASE Approach
    BY <2>1, <1>2, <1>3, WalkFacts, ClosestNeighbourIsNear DEF Approach
  <2>2. CASE Descend
    BY <2>2, <1>2, <1>3, <1>4, WalkFacts DEF Descend
  <2>3. QED
    BY <2>1, <2>2
<1>6. StageInv'
  BY <1>2, <1>3, <1>5, WalkFacts, ConfigAssumption DEF WalkInv, StageInv, Count, Adding
<1>7. QueueInv'
  BY <1>2, <1>3 DEF WalkInv, QueueInv, Scored
<1>8. PlaceInv'
  BY <1>2, <1>3, <1>5, WalkFacts DEF WalkInv, PlaceInv, GraphInv, TopInv, Count, Adding
<1>9. QED
  BY <1>1, <1>6, <1>7, <1>8 DEF WalkInv

\* The start of search_layer() preserves the invariant.
LEMMA BeginLayerStep ==
    ASSUME IInv, BeginLayer
    PROVE  IInv'
<1> USE DEF IInv
<1>1. GraphInv' /\ CallInv' /\ StagedInv'
  BY GraphStable, CallStable, StagedStable DEF BeginLayer, committed
<1>2. pc = "descend" /\ pc' = "search" /\ layer <= call.floor
  BY DEF BeginLayer
<1>3. UNCHANGED <<size, draws, call, layer, cur, maxLevel, nodes>>
  BY DEF BeginLayer, committed
<1>4. cur \in 0..(Count - 1) /\ layer <= draws[cur]
  BY <1>2, WalkFacts DEF WalkInv, StageInv, PlaceInv
<1> DEFINE c == Scored(call.query, cur)
<1>5. c.node = cur
  BY DEF Scored
<1>6. visited' = {cur} /\ todo' = {} /\ pending' = {c} /\ nearest' \subseteq {c}
  BY <1>5, BestSubset DEF BeginLayer, EnterLayer, NodesOf
<1>7. StageInv'
  BY <1>2, <1>3, <1>4, <1>6, WalkFacts DEF WalkInv, StageInv, Count, Adding
<1>8. QueueInv'
  <2>1. Scored(call.query, cur)' = Scored(call.query, cur)
    BY <1>3 DEF Scored
  <2>2. QED
    BY <1>2, <1>3, <1>5, <1>6, <2>1 DEF QueueInv, Scored
<1>9. PlaceInv'
  BY <1>2, <1>3, <1>4, <1>6, WalkFacts DEF WalkInv, PlaceInv, Count, Adding
<1>10. QED
  BY <1>1, <1>7, <1>8, <1>9 DEF WalkInv

\* The queues are rankable: they hold scored complete nodes.
LEMMA QueuesRankable ==
    ASSUME IInv, pc = "search"
    PROVE  /\ pending \subseteq ScoredAll(call.query, visited)
           /\ nearest \subseteq ScoredAll(call.query, visited)
           /\ Rankable(ScoredAll(call.query, visited))
           /\ Rankable(pending) /\ Rankable(nearest)
<1>1. pending \subseteq ScoredAll(call.query, visited)
  BY DEF IInv, WalkInv, QueueInv, ScoredAll
<1>2. nearest \subseteq ScoredAll(call.query, visited)
  BY DEF IInv, WalkInv, QueueInv, ScoredAll
<1>3. Rankable(ScoredAll(call.query, visited))
  BY WalkFacts, ScoredRankable DEF IInv, WalkInv, StageInv
<1>4. QED
  BY <1>1, <1>2, <1>3, RankableSubset

\* Taking the next node to expand preserves the invariant.
LEMMA ExpandStep ==
    ASSUME IInv, Expand
    PROVE  IInv'
<1> USE DEF IInv
<1>1. GraphInv' /\ CallInv' /\ StagedInv'
  BY GraphStable, CallStable, StagedStable DEF Expand, committed
<1>2. pc = "search" /\ pc' = "search"
  BY DEF Expand
<1>3. UNCHANGED <<size, draws, call, layer, cur, maxLevel, nodes, visited, nearest>>
  BY DEF Expand, committed
<1> DEFINE c == Nearest(pending)
<1>4. c \in pending
  BY <1>2, QueuesRankable, NearestIsFirst DEF Expand
<1>5. c.node \in visited /\ c.node \in 0..(Count - 1) /\ layer <= draws[c.node]
  BY <1>2, <1>4 DEF WalkInv, QueueInv, StageInv, PlaceInv
<1> HIDE DEF c
<1>6. nodes[c.node].links[layer] \subseteq {m \in 0..(Count - 1) : layer <= draws[m]}
  BY <1>2, <1>5, WalkFacts
<1>7. pending' \subseteq pending /\ todo' \subseteq {m \in 0..(Count - 1) : layer <= draws[m]}
  BY <1>6 DEF Expand, c
<1>8. StageInv'
  BY <1>2, <1>3, <1>7 DEF WalkInv, StageInv, Count, Adding
<1>9. QueueInv'
  BY <1>2, <1>3, <1>7 DEF WalkInv, QueueInv, Scored
<1>10. PlaceInv'
  BY <1>2, <1>3, <1>7 DEF WalkInv, PlaceInv, Count, Adding
<1>11. QED
  BY <1>1, <1>8, <1>9, <1>10 DEF WalkInv

\* Visiting a neighbour preserves the invariant.
LEMMA VisitStep ==
    ASSUME IInv, NEW n \in todo, Visit(n)
    PROVE  IInv'
<1> USE DEF IInv
<1>1. GraphInv' /\ CallInv' /\ StagedInv'
  BY GraphStable, CallStable, StagedStable DEF Visit, committed
<1>2. pc = "search" /\ pc' = "search"
  BY DEF Visit
<1>3. UNCHANGED <<size, draws, call, layer, cur, maxLevel, nodes>>
  BY DEF Visit, committed
<1>4. visited' = visited \cup {n} /\ todo' = todo \ {n}
  BY DEF Visit
<1> DEFINE c == Scored(call.query, n)
<1>5. c.node = n
  BY DEF Scored
<1>6. pending' \subseteq pending \cup {c} /\ nearest' \subseteq nearest \cup {c}
  BY DEF Visit, PushBounded
<1>7. StageInv'
  BY <1>2, <1>3, <1>4 DEF WalkInv, StageInv, Count, Adding
<1>8. QueueInv'
  BY <1>2, <1>3, <1>4, <1>5, <1>6 DEF WalkInv, QueueInv, Scored
<1>9. PlaceInv'
  BY <1>2, <1>3, <1>4 DEF WalkInv, PlaceInv, Count, Adding
<1>10. QED
  BY <1>1, <1>7, <1>8, <1>9 DEF WalkInv

----------------------------------------------------------------------------
(* The start and the end of calls that leave the graph alone *)

\* After a call has returned there is nothing under way.
LEMMA Returned ==
    ASSUME NEW r, Return(r)
    PROVE  CallInv' /\ StagedInv' /\ WalkInv' /\ ~ Adding' /\ Count' = size'
<1>1. ~ Adding' /\ Count' = size'
  BY DEF Return, Adding, NoCall, Count
<1>2. CallInv' /\ StagedInv'
  BY <1>1 DEF Return, CallInv, StagedInv
<1>3. WalkInv'
  BY ConfigAssumption DEF Return, WalkInv, StageInv, QueueInv, PlaceInv
<1>4. QED
  BY <1>1, <1>2, <1>3

\* The ends of search() preserve the invariant.
LEMMA SearchEnds ==
    ASSUME IInv, FailSearch \/ Answer
    PROVE  IInv'
<1>1. PICK r : Return(r)
  BY DEF FailSearch, Answer
<1>2. ~ Adding /\ UNCHANGED <<nodes, committed, efSearch, draws>>
  BY DEF FailSearch, Answer
<1>3. Count' = Count
  BY <1>1, <1>2, Returned DEF Count, committed
<1>4. QED
  BY <1>1, <1>2, <1>3, Returned, GraphStable DEF IInv

\* A step that leaves the graph and the walk alone keeps the walk in range.
LEMMA WalkStable ==
    ASSUME WalkInv, UNCHANGED <<nodes, committed, draws, pc, call, walk>>
    PROVE  WalkInv'
<1>1. StageInv'
  BY DEF WalkInv, StageInv, Count, Adding, committed, walk
<1>2. QueueInv'
  BY DEF WalkInv, QueueInv, Scored, walk
<1>3. PlaceInv'
  BY DEF WalkInv, PlaceInv, Count, Adding, committed, walk
<1>4. QED
  BY <1>1, <1>2, <1>3 DEF WalkInv

\* Calls refused at the entry preserve the invariant.
LEMMA Refused ==
    ASSUME IInv, NEW r, Refuse(r)
    PROVE  IInv'
<1>1. pc' # "commit"
  BY DEF Refuse
<1>2. QED
  BY <1>1, GraphStable, CallStable, StagedStable, WalkStable DEF IInv, Refuse

\* set_ef_search() preserves the invariant.
LEMMA SetEfSearchStep ==
    ASSUME IInv, NEW b \in Breadths, SetEfSearch(b)
    PROVE  IInv'
<1>1. Count' = Count /\ CallInv'
  BY CallStable DEF SetEfSearch, IInv
<1>2. NodesInv'
  BY <1>1, DataAssumption DEF IInv, GraphInv, NodesInv, SetEfSearch, committed
<1>3. IndexInv' /\ TopInv'
  BY <1>1 DEF IInv, GraphInv, IndexInv, IdsIndexed, TopInv, SetEfSearch, committed
<1>4. LinksInv' /\ Chained'
  BY <1>1 DEF IInv, GraphInv, LinksInv, Chained, SetEfSearch, committed
<1>5. StagedInv'
  BY DEF IInv, StagedInv, UpdateInv, SetEfSearch, committed, Count, Inserted, Adding
<1>6. QED
  BY <1>1, <1>2, <1>3, <1>4, <1>5, WalkStable DEF IInv, GraphInv, SetEfSearch

\* The start of search() preserves the invariant.
LEMMA BeginSearchStep ==
    ASSUME IInv, NEW v \in Vectors, NEW k \in Nat, NEW b \in Nat, BeginSearch(v, k, b)
    PROVE  IInv'
<1> USE DEF IInv
<1>1. call = NoCall /\ ~ Adding /\ Count = size /\ size \in Nat /\ size <= Capacity
  BY CountIsNat DEF BeginSearch, WalkInv, StageInv, Adding, NoCall, Count, GraphInv
<1>2. call' \in Calls /\ call' # NoCall /\ ~ Adding' /\ Count' = Count
  <2>1. SearchBreadth(k, b) \in 0..Capacity
    BY <1>1, ConfigAssumption DEF SearchBreadth, Lesser, Greater
  <2>2. call' \in Calls
    BY <2>1, ConfigAssumption DEF BeginSearch, Calls
  <2>3. ~ Adding' /\ call' # NoCall
    BY DEF BeginSearch, Adding, NoCall
  <2>4. QED
    BY <1>1, <2>2, <2>3 DEF Count, BeginSearch, committed
<1>3. GraphInv'
  BY <1>2, GraphStable DEF BeginSearch
<1>4. CallInv'
  BY <1>2 DEF CallInv
<1>5. updates' = {} /\ pc' = "descend"
  BY <1>1 DEF BeginSearch, StagedInv
<1>6. StagedInv'
  BY <1>2, <1>5 DEF StagedInv
<1>7. StageInv'
  BY <1>2, <1>5, <1>1 DEF StageInv, BeginSearch, WalkInv, GraphInv, TopInv
<1>8. QueueInv'
  BY DEF BeginSearch, WalkInv, QueueInv
<1>9. PlaceInv'
  BY <1>1, <1>2, <1>5 DEF PlaceInv, BeginSearch, GraphInv, TopInv, committed
<1>10. QED
  BY <1>3, <1>4, <1>6, <1>7, <1>8, <1>9 DEF WalkInv

----------------------------------------------------------------------------
(* The steps that change the graph *)

NodeType(n, S) == [id : Ids, vector : Vectors, links : [0..draws[n] -> SUBSET S]]

\* A node keeps its type when nodes are added.
LEMMA NodeTypeMonotonic ==
    ASSUME NEW n, NEW S, NEW T, S \subseteq T, NEW x \in NodeType(n, S)
    PROVE  x \in NodeType(n, T)
<1>1. x.links \in [0..draws[n] -> SUBSET T]
  BY DEF NodeType
<1>2. QED
  BY <1>1 DEF NodeType

\* add() up to its push_back() preserves the invariant.
LEMMA BeginAddStep ==
    ASSUME IInv, NEW i \in Ids, NEW v \in Vectors, BeginAdd(i, v)
    PROVE  IInv'
<1> USE DEF IInv
<1>1. call = NoCall /\ ~ Adding /\ Count = size /\ size \in Nat /\ size < Capacity
  BY CountIsNat DEF BeginAdd, WalkInv, StageInv, Adding, NoCall, Count, GraphInv
<1>2. rng = size /\ draws[size] \in 0..TopLevel
  BY <1>1, ConfigAssumption DEF GraphInv, NodesInv
<1> DEFINE node == [id |-> i, vector |-> v, links |-> [l \in 0..draws[size] |-> {}]]
<1>3. /\ nodes' = [n \in 0..size |-> IF n = size THEN node ELSE nodes[n]]
      /\ size' = size + 1 /\ UNCHANGED <<index, entry, maxLevel, rng, efSearch, draws>>
      /\ layer' = maxLevel /\ cur' = entry /\ UNCHANGED <<pending, nearest, visited, todo, updates>>
      /\ pc' = IF size = 0 THEN "commit" ELSE "descend"
      /\ call' = [op |-> "add", query |-> v, count |-> 0,
                  ef |-> Lesser(EfConstruction, size), floor |-> draws[size]]
  BY <1>2 DEF BeginAdd
<1>4. Adding' /\ Count' = Count /\ Inserted' = size
  BY <1>1, <1>3 DEF Adding, Count, Inserted
<1>5. nodes'[size] = node /\ \A n \in 0..(size - 1) : nodes'[n] = nodes[n]
  BY <1>1, <1>3
<1>6. NodesInv'
  <2>1. ASSUME NEW n \in 0..size PROVE nodes'[n] \in NodeType(n, 0..size)
    <3>1. CASE n = size
      <4>1. node \in NodeType(size, 0..size)
        BY DEF NodeType
      <4>2. QED
        BY <3>1, <4>1, <1>5
    <3>2. CASE n # size
      <4>1. n \in 0..(size - 1)
        BY <1>1, <3>2
      <4>2. nodes[n] \in NodeType(n, 0..(size - 1))
        BY <4>1 DEF GraphInv, NodesInv, NodeType
      <4>3. 0..(size - 1) \subseteq 0..size
        BY <1>1
      <4>4. QED
        BY <4>1, <4>2, <4>3, <1>5, NodeTypeMonotonic
    <3>3. QED
      BY <3>1, <3>2
  <2>2. size' \in 0..Capacity /\ 0..(size' - 1) = 0..size
    BY <1>1, <1>3, ConfigAssumption
  <2>3. DOMAIN nodes' = 0..size
    BY <1>3
  <2>4. \A n \in 0..(size' - 1) :
           nodes'[n] \in [id : Ids, vector : Vectors,
                          links : [0..draws'[n] -> SUBSET (0..(size' - 1))]]
    BY <1>3, <2>1, <2>2 DEF NodeType
  <2>5. QED
    BY <1>2, <1>3, <1>4, <1>1, <2>2, <2>3, <2>4 DEF GraphInv, NodesInv
<1>7. IndexInv'
  BY <1>1, <1>3, <1>4, <1>5 DEF GraphInv, IndexInv, IdsIndexed
<1>8. TopInv'
  BY <1>1, <1>3, <1>4 DEF GraphInv, TopInv
<1>9. LinksInv'
  BY <1>1, <1>3, <1>4, <1>5 DEF GraphInv, LinksInv
<1>10. Chained'
  <2>1. \A n \in 1..(Count - 1) : n \in 0..(size - 1) /\ n - 1 \in 0..(size - 1)
    BY <1>1
  <2>2. QED
    BY <1>4, <1>5, <2>1 DEF GraphInv, Chained
<1>11. CallInv'
  <2>1. Lesser(EfConstruction, size) \in 0..Capacity
    BY <1>1, ConfigAssumption DEF Lesser
  <2>2. call' \in Calls
    BY <1>2, <1>3, <2>1 DEF Calls
  <2>3. QED
    BY <1>1, <1>3, <1>4, <2>2 DEF CallInv
<1>12. StagedInv'
  <2>1. updates' = {}
    BY <1>1, <1>3 DEF StagedInv
  <2>2. \A l \in 0..draws[size] : nodes'[size].links[l] = {}
    BY <1>5
  <2>3. pc' = "commit" => size' = 1
    BY <1>3
  <2>4. nodes'[size].id = i /\ i \notin DOMAIN index
    BY <1>5 DEF BeginAdd
  <2>5. QED
    BY <1>3, <1>4, <2>1, <2>2, <2>3, <2>4 DEF StagedInv
<1>13. StageInv'
  BY <1>1, <1>3, <1>4 DEF StageInv, WalkInv, GraphInv, TopInv, NoCall
<1>14. QueueInv'
  BY <1>1, <1>3 DEF QueueInv, WalkInv, BeginAdd
<1>15. PlaceInv'
  BY <1>1, <1>3, <1>4 DEF PlaceInv, GraphInv, TopInv
<1>16. QED
  BY <1>6, <1>7, <1>8, <1>9, <1>10, <1>11, <1>12, <1>13, <1>14, <1>15 DEF GraphInv, WalkInv

\* The rollback of an add() that throws preserves the invariant.
LEMMA FailAddStep ==
    ASSUME IInv, FailAdd
    PROVE  IInv'
<1> USE DEF IInv
<1>1. Adding /\ size > 0 /\ size \in Nat /\ Count = size - 1 /\ Count \in Nat
  BY CountIsNat DEF FailAdd, CallInv, Count, GraphInv
<1>2. /\ nodes' = [n \in 0..(size - 2) |-> nodes[n]]
      /\ size' = size - 1 /\ UNCHANGED <<index, entry, maxLevel, rng, efSearch, draws>>
  BY DEF FailAdd
<1>3. CallInv' /\ StagedInv' /\ WalkInv' /\ Count' = Count
  BY <1>1, <1>2, Returned DEF FailAdd
<1>4. \A n \in 0..(Count - 1) : n \in 0..(size - 1) /\ nodes'[n] = nodes[n]
  BY <1>1, <1>2
<1>5. NodesInv'
  <2>1. ASSUME NEW n \in 0..(Count - 1)
        PROVE  nodes[n] \in [id : Ids, vector : Vectors,
                             links : [0..draws[n] -> SUBSET (0..(Count - 1))]]
    <3>1. nodes[n] \in [id : Ids, vector : Vectors,
                        links : [0..draws[n] -> SUBSET (0..(size - 1))]]
      BY <1>4 DEF GraphInv, NodesInv
    <3>2. ASSUME NEW l \in 0..draws[n]
          PROVE  nodes[n].links[l] \in SUBSET (0..(Count - 1))
      <4>1. nodes[n].links[l] \in SUBSET (0..(size - 1))
        BY <3>1
      <4>2. \A m \in nodes[n].links[l] : m < Count
        BY DEF GraphInv, LinksInv
      <4>3. QED
        BY <1>1, <4>1, <4>2
    <3>3. nodes[n].links \in [0..draws[n] -> SUBSET (0..(Count - 1))]
      BY <3>1, <3>2
    <3>4. QED
      BY <3>1, <3>3
  <2>2. size' \in 0..Capacity /\ size' - 1 = Count - 1 /\ DOMAIN nodes' = 0..(Count - 1)
    <3>1. size - 2 = Count - 1
      BY <1>1
    <3>2. DOMAIN nodes' = 0..(Count - 1)
      BY <1>2, <3>1
    <3>3. QED
      BY <1>1, <1>2, <3>2, ConfigAssumption DEF GraphInv, NodesInv
  <2>3. QED
    BY <1>1, <1>2, <1>3, <1>4, <2>1, <2>2 DEF GraphInv, NodesInv
<1>6. IndexInv'
  BY <1>2, <1>3, <1>4 DEF GraphInv, IndexInv, IdsIndexed
<1>7. TopInv'
  BY <1>2, <1>3 DEF GraphInv, TopInv
<1>8. LinksInv'
  BY <1>2, <1>3, <1>4 DEF GraphInv, LinksInv
<1>9. Chained'
  <2>1. \A n \in 1..(Count - 1) : n \in 0..(Count - 1) /\ n - 1 \in 0..(Count - 1)
    BY <1>1
  <2>2. QED
    BY <1>3, <1>4, <2>1 DEF GraphInv, Chained
<1>10. QED
  BY <1>3, <1>5, <1>6, <1>7, <1>8, <1>9 DEF GraphInv

\* The nodes of scored nodes are these nodes.
LEMMA NodesOfScored ==
    ASSUME NEW v, NEW N
    PROVE  NodesOf(ScoredAll(v, N)) = N
<1>1. \A n \in N : Scored(v, n).node = n
  BY DEF Scored
<1>2. QED
  BY <1>1 DEF NodesOf, ScoredAll

\* A list that takes the new node in loses no neighbour in insertion order.
LEMMA RelinkedBounds ==
    ASSUME IInv, Adding, NEW n \in 0..(Count - 1), NEW l \in 0..draws[n]
    PROVE  /\ Relinked(n, l) \subseteq nodes[n].links[l] \cup {Inserted}
           /\ l = 0 => {n - 1, n + 1} \cap (0..Inserted) \subseteq Relinked(n, l)
<1> USE DEF IInv
<1> DEFINE links == nodes[n].links[l] \cup {Inserted}
           required == IF l = 0 THEN {n - 1, n + 1} \cap (0..Inserted) ELSE {}
           chosen == SelectNeighbors(ScoredAll(nodes[n].vector, links), DegreeCap(l), required)
<1>1. Inserted = Count /\ Count \in Nat
  BY CountIsNat DEF GraphInv
<1>2. required \subseteq links
  <2>1. ASSUME l = 0, NEW m \in {n - 1, n + 1} \cap (0..Inserted), m # Inserted
        PROVE  m \in nodes[n].links[0]
    <3>1. m = n - 1 \/ m = n + 1
      OBVIOUS
    <3>2. CASE m = n - 1
      <4>1. n \in 1..(Count - 1)
        BY <3>2, <2>1, <1>1
      <4>2. QED
        BY <4>1, <3>2 DEF GraphInv, Chained
    <3>3. CASE m = n + 1
      <4>1. n + 1 \in 1..(Count - 1) /\ (n + 1) - 1 = n
        BY <3>3, <2>1, <1>1
      <4>2. n + 1 \in nodes[(n + 1) - 1].links[0]
        BY <4>1 DEF GraphInv, Chained
      <4>3. QED
        BY <4>1, <4>2, <3>3
    <3>4. QED
      BY <3>1, <3>2, <3>3
  <2>2. QED
    BY <2>1
<1>3. Relinked(n, l) = links \/ Relinked(n, l) = chosen
  BY DEF Relinked
<1>4. chosen \subseteq links /\ required \subseteq chosen
  <2> HIDE DEF links, required
  <2>1. chosen \subseteq required \cup links /\ required \subseteq chosen
    BY SelectionBounds, NodesOfScored
  <2>2. QED
    BY <2>1, <1>2
<1> HIDE DEF chosen
<1>5. QED
  BY <1>2, <1>3, <1>4

\* The list of the new node: complete nodes of the layer, its predecessor in layer 0.
LEMMA NewLinksBounds ==
    ASSUME IInv, Adding, pc = "search"
    PROVE  /\ Inserted = Count /\ size = Count + 1 /\ Inserted \in 0..(size - 1)
           /\ layer \in 0..draws[Inserted] /\ draws[Inserted] \in Nat
           /\ NewLinks \subseteq {m \in 0..(Count - 1) : layer <= draws[m]}
           /\ layer = 0 => Inserted - 1 \in NewLinks
<1> USE DEF IInv
<1>1. Inserted = Count /\ size = Count + 1 /\ Inserted \in 0..(size - 1)
  BY WalkFacts, CountIsNat DEF Count, Inserted, GraphInv
<1>2. layer \in 0..draws[Inserted] /\ draws[Inserted] \in Nat
  BY WalkFacts DEF CallInv, WalkInv, PlaceInv
<1>3. NodesOf(nearest) \subseteq {m \in 0..(Count - 1) : layer <= draws[m]}
  BY DEF NodesOf, WalkInv, QueueInv, StageInv, PlaceInv
<1>4. SelectNeighbors(nearest, M, {}) \subseteq NodesOf(nearest)
  BY SelectionBounds
<1>5. Count - 1 \in 0..(Count - 1) /\ draws[Count - 1] \in Nat
  BY WalkFacts
<1>6. NewLinks \subseteq {m \in 0..(Count - 1) : layer <= draws[m]}
  BY <1>1, <1>3, <1>4, <1>5 DEF NewLinks
<1>7. QED
  BY <1>1, <1>2, <1>6 DEF NewLinks

\* What linking the new node in a layer does to the lists.
LEMMA LinkEffect ==
    ASSUME IInv, Link
    PROVE  /\ pc = "search" /\ Adding /\ Adding' /\ Inserted = Count /\ Inserted' = Inserted
           /\ Count \in Nat /\ Count' = Count /\ size = Count + 1
           /\ UNCHANGED <<size, draws>>
           /\ layer \in 0..draws[Inserted] /\ layer \in Nat
           /\ \A n \in NewLinks : n \in 0..(Count - 1) /\ layer \in 0..draws[n]
           /\ \A n \in 0..(Count - 1) : nodes'[n] = nodes[n]
           /\ nodes'[Inserted].links[layer] = NewLinks
           /\ \A l \in 0..draws[Inserted] : l # layer =>
                 nodes'[Inserted].links[l] = nodes[Inserted].links[l]
<1>1. pc = "search" /\ Adding /\ UNCHANGED <<size, draws, call>>
  BY DEF Link, LayerDone, committed
<1>2. /\ Inserted = Count /\ size = Count + 1 /\ Inserted \in 0..(size - 1)
      /\ layer \in 0..draws[Inserted] /\ Count \in Nat /\ layer \in Nat
  BY <1>1, NewLinksBounds, WalkFacts
<1>3. Adding' /\ Inserted' = Inserted /\ Count' = Count
  BY <1>1 DEF Adding, Inserted, Count
<1>4. ASSUME NEW n \in NewLinks PROVE n \in 0..(Count - 1) /\ layer \in 0..draws[n]
  <2>1. n \in 0..(Count - 1) /\ layer <= draws[n]
    BY <1>1, NewLinksBounds
  <2>2. draws[n] \in Nat
    BY <1>1, <2>1, WalkFacts
  <2>3. QED
    BY <1>2, <2>1, <2>2
<1>5. nodes[Inserted] \in [id : Ids, vector : Vectors,
                           links : [0..draws[Inserted] -> SUBSET (0..(size - 1))]]
  BY <1>2, NodeFacts
<1>6. Inserted \in DOMAIN nodes /\ \A n \in 0..(Count - 1) : n \in DOMAIN nodes /\ n # Inserted
  BY <1>2 DEF IInv, GraphInv, NodesInv
<1>7. /\ \A n \in 0..(Count - 1) : nodes'[n] = nodes[n]
      /\ nodes'[Inserted] = [nodes[Inserted] EXCEPT
            !.links = [nodes[Inserted].links EXCEPT ![layer] = NewLinks]]
  BY <1>6 DEF Link
<1>8. nodes'[Inserted].links = [nodes[Inserted].links EXCEPT ![layer] = NewLinks]
  BY <1>5, <1>7
<1>9. /\ nodes'[Inserted].links[layer] = NewLinks
      /\ \A l \in 0..draws[Inserted] : l # layer =>
            nodes'[Inserted].links[l] = nodes[Inserted].links[l]
  BY <1>2, <1>5, <1>8
<1>10. QED
  BY <1>1, <1>2, <1>3, <1>4, <1>7, <1>9

\* Linking the new node in a layer preserves the invariant.
LEMMA LinkStep ==
    ASSUME IInv, Link
    PROVE  IInv'
<1> USE DEF IInv
<1>1. pc = "search" /\ Adding
  BY DEF Link, LayerDone
<1>2. /\ Inserted = Count /\ size = Count + 1 /\ Inserted \in 0..(size - 1)
      /\ layer \in 0..draws[Inserted] /\ draws[Inserted] \in Nat
      /\ NewLinks \subseteq {m \in 0..(Count - 1) : layer <= draws[m]}
      /\ layer = 0 => Inserted - 1 \in NewLinks
  BY <1>1, NewLinksBounds
<1>3. Count \in Nat /\ Count > 0 /\ layer \in Nat /\ call \in Calls
  BY <1>1, WalkFacts
<1>4. UNCHANGED <<size, index, entry, maxLevel, rng, efSearch, draws, call, cur>>
  BY DEF Link, committed, walk
<1>5. CallInv' /\ Count' = Count /\ Adding' /\ Inserted' = Inserted
  BY <1>1, <1>4, CallStable DEF Adding, Inserted, committed
<1>6. /\ DOMAIN nodes' = DOMAIN nodes
      /\ \A n \in 0..(Count - 1) : nodes'[n] = nodes[n]
      /\ nodes'[Inserted] \in [id : Ids, vector : Vectors,
                               links : [0..draws[Inserted] -> SUBSET (0..(size - 1))]]
      /\ nodes'[Inserted].id = nodes[Inserted].id
      /\ nodes'[Inserted].links[layer] = NewLinks
      /\ \A l \in 0..draws[Inserted] \ {layer} :
            nodes'[Inserted].links[l] = nodes[Inserted].links[l]
  <2>1. nodes[Inserted] \in [id : Ids, vector : Vectors,
                             links : [0..draws[Inserted] -> SUBSET (0..(size - 1))]]
    BY <1>2 DEF GraphInv, NodesInv
  <2>2. nodes' = [nodes EXCEPT ![Inserted].links[layer] = NewLinks]
    BY DEF Link
  <2>3. NewLinks \in SUBSET (0..(size - 1))
    BY <1>2, <1>3
  <2>4. nodes'[Inserted] = [nodes[Inserted] EXCEPT !.links = [nodes[Inserted].links EXCEPT ![layer] = NewLinks]]
    BY <1>2, <2>2 DEF GraphInv, NodesInv
  <2>5. nodes'[Inserted].links = [nodes[Inserted].links EXCEPT ![layer] = NewLinks]
    BY <2>1, <2>4
  <2>6. nodes'[Inserted] \in [id : Ids, vector : Vectors,
                              links : [0..draws[Inserted] -> SUBSET (0..(size - 1))]]
    BY <2>1, <2>3, <2>4
  <2>7. \A n \in 0..(Count - 1) : nodes'[n] = nodes[n]
    BY <1>2, <1>3, <2>2 DEF GraphInv, NodesInv
  <2>8. DOMAIN nodes' = DOMAIN nodes
    BY <2>2
  <2>9. nodes'[Inserted].links[layer] = NewLinks
    BY <1>2, <2>1, <2>5
  <2>10. ASSUME NEW l \in 0..draws[Inserted], l # layer
         PROVE  nodes'[Inserted].links[l] = nodes[Inserted].links[l]
    BY <2>1, <2>5, <2>10
  <2>11. nodes'[Inserted].id = nodes[Inserted].id
    BY <2>1, <2>4
  <2>12. QED
    BY <2>6, <2>7, <2>8, <2>9, <2>10, <2>11
<1>7. NodesInv'
  <2>1. \A n \in 0..(size - 1) : n \in 0..(Count - 1) \/ n = Inserted
    BY <1>2, <1>3
  <2>2. QED
    BY <1>4, <1>5, <1>6, <2>1 DEF GraphInv, NodesInv
<1>8. IndexInv' /\ TopInv' /\ LinksInv'
  BY <1>4, <1>5, <1>6 DEF GraphInv, IndexInv, IdsIndexed, TopInv, LinksInv
<1>9. Chained'
  <2>1. \A n \in 1..(Count - 1) : n \in 0..(Count - 1) /\ n - 1 \in 0..(Count - 1)
    BY <1>3
  <2>2. QED
    BY <1>5, <1>6, <2>1 DEF GraphInv, Chained
<1>10. StagedInv'
  <2>1. \A l \in 0..draws'[Inserted'] : \A m \in nodes'[Inserted'].links[l] :
            m < Count' /\ l <= draws'[m]
    <3>1. ASSUME NEW l \in 0..draws[Inserted], NEW m \in nodes'[Inserted].links[l]
          PROVE  m < Count /\ l <= draws[m]
      <4>1. CASE l = layer
        BY <4>1, <3>1, <1>2, <1>3, <1>6
      <4>2. CASE l # layer
        BY <4>2, <3>1, <1>1, <1>6 DEF StagedInv
      <4>3. QED
        BY <4>1, <4>2
    <3>2. QED
      BY <3>1, <1>4, <1>5
  <2>2. ASSUME NEW u \in updates PROVE UpdateInv(u)'
    <3>1. UpdateInv(u) /\ u.node \in 0..(Count - 1)
      BY DEF StagedInv, UpdateInv
    <3>2. nodes'[u.node] = nodes[u.node]
      BY <3>1, <1>6
    <3>3. QED
      BY <3>1, <3>2, <1>4, <1>5 DEF UpdateInv
  <2>3. ASSUME NEW n \in NewLinks, NEW u,
               u = [node |-> n, layer |-> layer, links |-> Relinked(n, layer)]
        PROVE  UpdateInv(u)'
    <3>1. n \in 0..(Count - 1) /\ layer <= draws[n] /\ draws[n] \in Nat /\ n \in 0..(size - 1)
      BY <1>1, <1>2, WalkFacts
    <3>2. layer \in 0..draws[n]
      BY <3>1, <1>3
    <3>3. /\ Relinked(n, layer) \subseteq nodes[n].links[layer] \cup {Inserted}
          /\ layer = 0 => {n - 1, n + 1} \cap (0..Inserted) \subseteq Relinked(n, layer)
      BY <1>1, <3>1, <3>2, RelinkedBounds
    <3>4. nodes[n].links[layer] \subseteq 0..(size - 1)
      BY <3>1, <3>2 DEF GraphInv, NodesInv
    <3>5. Relinked(n, layer) \subseteq 0..Inserted
      BY <3>3, <3>4, <1>2, <1>3
    <3>6. /\ u \in [node : 0..(Count - 1), layer : Nat, links : SUBSET (0..Inserted)]
          /\ u.node = n /\ u.layer = layer /\ u.links = Relinked(n, layer)
      BY <2>3, <3>1, <3>5, <1>3
    <3>7. UpdateInv(u)'
      BY <3>1, <3>3, <3>6, <1>2, <1>4, <1>5, <1>6 DEF UpdateInv
    <3>8. QED
      BY <3>7
  <2>4. \A u \in updates' : UpdateInv(u)'
    BY <2>2, <2>3 DEF Link
  <2>5. ASSUME pc' = "commit"
        PROVE  /\ Inserted - 1 \in nodes'[Inserted].links[0]
               /\ \E u \in updates' : u.node = Inserted - 1 /\ u.layer = 0
    <3>1. layer = 0
      BY <2>5, <1>1 DEF Link
    <3>2. [node |-> Inserted - 1, layer |-> 0, links |-> Relinked(Inserted - 1, 0)] \in updates'
      BY <3>1, <1>2 DEF Link
    <3>3. QED
      BY <3>1, <3>2, <1>2, <1>6
  <2>6. nodes'[Inserted'].id \notin DOMAIN index'
    BY <1>1, <1>4, <1>5, <1>6 DEF StagedInv
  <2>7. QED
    BY <1>4, <1>5, <2>1, <2>4, <2>5, <2>6 DEF StagedInv
<1>11. WalkInv'
  <2>1. CASE layer = 0
    <3>1. pc' = "commit" /\ UNCHANGED <<layer, cur, pending, nearest, visited, todo>>
      BY <2>1 DEF Link, walk
    <3>2. StageInv'
      BY <3>1, <1>1, <1>4, <1>5 DEF WalkInv, StageInv
    <3>3. QueueInv'
      <4>1. \A c \in pending \cup nearest : c.node \in 0..(Count - 1)
        BY DEF WalkInv, QueueInv, StageInv
      <4>2. QED
        BY <3>1, <4>1, <1>4, <1>6 DEF WalkInv, QueueInv, Scored
    <3>4. PlaceInv'
      BY <3>1 DEF PlaceInv
    <3>5. QED
      BY <3>2, <3>3, <3>4 DEF WalkInv
  <2>2. CASE layer # 0
    <3>1. /\ pc' = pc /\ layer' = layer - 1 /\ cur' = cur
          /\ visited' = NodesOf(nearest) /\ pending' = nearest /\ todo' = {}
          /\ nearest' \subseteq nearest
      BY <2>2, BestSubset DEF Link, EnterLayer
    <3>2. NodesOf(nearest) \subseteq visited
      BY DEF NodesOf, WalkInv, QueueInv
    <3>3. StageInv'
      <4>1. layer' \in 0..TopLevel
        BY <3>1, <2>2, <1>3, ConfigAssumption DEF WalkInv, StageInv
      <4>2. visited' \subseteq 0..(Count' - 1) /\ todo' \subseteq 0..(Count' - 1)
        BY <3>1, <3>2, <1>5 DEF WalkInv, StageInv
      <4>3. QED
        BY <4>1, <4>2, <3>1, <1>1, <1>4 DEF WalkInv, StageInv
    <3>4. QueueInv'
      <4>1. \A c \in nearest : c.node \in 0..(Count - 1) /\ c.node \in NodesOf(nearest)
        BY DEF WalkInv, QueueInv, StageInv, NodesOf
      <4>2. QED
        BY <3>1, <4>1, <1>1, <1>4, <1>6 DEF WalkInv, QueueInv, Scored
    <3>5. PlaceInv'
      <4>1. layer' <= maxLevel' /\ layer' <= call'.floor
        BY <3>1, <1>1, <1>2, <1>3, <1>4, ConfigAssumption
           DEF WalkInv, PlaceInv, CallInv, GraphInv, TopInv
      <4>2. \A n \in visited' : layer' <= draws'[n]
        <5>1. \A n \in visited' : n \in 0..(Count - 1) /\ layer <= draws[n]
          BY <3>1, <3>2, <1>1 DEF WalkInv, PlaceInv, StageInv
        <5>2. \A n \in visited' : draws[n] \in Nat
          BY <5>1, <1>1, WalkFacts
        <5>3. QED
          BY <5>1, <5>2, <3>1, <1>3, <1>4
      <4>3. QED
        BY <4>1, <4>2, <3>1, <1>1, <1>3, <1>5 DEF PlaceInv
    <3>6. QED
      BY <3>3, <3>4, <3>5 DEF WalkInv
  <2>3. QED
    BY <2>1, <2>2
<1>12. QED
  BY <1>5, <1>7, <1>8, <1>9, <1>10, <1>11 DEF GraphInv

\* What a list becomes at the commit: what was staged for it, if anything was.
LEMMA StagedLinksCases ==
    ASSUME NEW n, NEW l
    PROVE  \/ /\ \A u \in updates : u.node # n \/ u.layer # l
              /\ StagedLinks(n, l) = nodes[n].links[l]
           \/ \E u \in updates : u.node = n /\ u.layer = l /\ StagedLinks(n, l) = u.links
<1> DEFINE staged == {u \in updates : u.node = n /\ u.layer = l}
<1>1. CASE staged = {}
  BY <1>1 DEF StagedLinks
<1>2. CASE staged # {}
  <2>1. (CHOOSE u \in staged : TRUE) \in staged
    BY <1>2
  <2>2. StagedLinks(n, l) = (CHOOSE u \in staged : TRUE).links
    BY <1>2 DEF StagedLinks
  <2> DEFINE w == CHOOSE u \in staged : TRUE
  <2> HIDE DEF w
  <2>3. w \in updates /\ w.node = n /\ w.layer = l /\ StagedLinks(n, l) = w.links
    BY <2>1, <2>2 DEF w
  <2>4. QED
    BY <2>3
<1>3. QED
  BY <1>1, <1>2

\* The lists at the commit are in range and keep the chain.
LEMMA StagedLinksBounds ==
    ASSUME IInv, pc = "commit", NEW n \in 0..Inserted, NEW l \in 0..draws[n]
    PROVE  /\ Inserted = Count /\ Count \in Nat /\ size = Count + 1 /\ Adding
           /\ \A m \in StagedLinks(n, l) : m \in 0..Inserted /\ m # n /\ l <= draws[m]
           /\ l = 0 => \A m \in {n - 1, n + 1} \cap (0..Inserted) : m \in StagedLinks(n, 0)
<1> USE DEF IInv
<1>1. Adding /\ Inserted = Count /\ Count \in Nat /\ size = Count + 1
  BY CountIsNat DEF StagedInv, GraphInv, Inserted
<1>2. nodes[n].links \in [0..draws[n] -> SUBSET (0..Inserted)]
  BY <1>1 DEF GraphInv, NodesInv
<1>3. nodes[n].links[l] \subseteq 0..Inserted
  BY <1>2
<1>4. ASSUME NEW u \in updates, u.node = n, u.layer = l
      PROVE  /\ n \in 0..(Count - 1) /\ u.links \subseteq nodes[n].links[l] \cup {Inserted}
             /\ l <= draws[Inserted]
             /\ l = 0 => {n - 1, n + 1} \cap (0..Inserted) \subseteq u.links
  BY <1>4 DEF StagedInv, UpdateInv
<1>5. ASSUME n \in 0..(Count - 1), NEW m \in nodes[n].links[l]
      PROVE  m \in 0..Inserted /\ m # n /\ l <= draws[m]
  BY <1>3, <1>5 DEF GraphInv, LinksInv
<1>6. ASSUME n = Inserted, NEW m \in nodes[n].links[l]
      PROVE  m \in 0..Inserted /\ m # n /\ l <= draws[m]
  BY <1>1, <1>3, <1>6 DEF StagedInv
<1>7. \A m \in StagedLinks(n, l) : m \in 0..Inserted /\ m # n /\ l <= draws[m]
  <2>1. CASE StagedLinks(n, l) = nodes[n].links[l]
    BY <2>1, <1>1, <1>5, <1>6
  <2>2. ASSUME NEW u \in updates, u.node = n, u.layer = l, StagedLinks(n, l) = u.links
        PROVE  \A m \in StagedLinks(n, l) : m \in 0..Inserted /\ m # n /\ l <= draws[m]
    BY <2>2, <1>1, <1>4, <1>5
  <2>3. QED
    BY <2>1, <2>2, StagedLinksCases
<1>8. ASSUME l = 0, NEW m \in {n - 1, n + 1} \cap (0..Inserted)
      PROVE  m \in StagedLinks(n, 0)
  <2>1. CASE \E u \in updates : u.node = n /\ u.layer = 0 /\ StagedLinks(n, 0) = u.links
    BY <2>1, <1>4, <1>8
  <2>2. CASE /\ \A u \in updates : u.node # n \/ u.layer # 0
             /\ StagedLinks(n, 0) = nodes[n].links[0]
    <3>1. CASE n = Inserted
      BY <3>1, <2>2, <1>1, <1>8 DEF StagedInv
    <3>2. CASE n # Inserted /\ m = n - 1
      <4>1. n \in 1..(Count - 1)
        BY <3>2, <1>1, <1>8
      <4>2. QED
        BY <4>1, <3>2, <2>2 DEF GraphInv, Chained
    <3>3. CASE n # Inserted /\ m = n + 1 /\ m # Inserted
      <4>1. n + 1 \in 1..(Count - 1) /\ (n + 1) - 1 = n
        BY <3>3, <1>1, <1>8
      <4>2. n + 1 \in nodes[(n + 1) - 1].links[0]
        BY <4>1 DEF GraphInv, Chained
      <4>3. QED
        BY <4>1, <4>2, <3>3, <2>2
    <3>4. CASE n # Inserted /\ m = n + 1 /\ m = Inserted
      <4>1. n = Inserted - 1 /\ size > 1
        BY <3>4, <1>1
      <4>2. QED
        BY <4>1, <2>2 DEF StagedInv
    <3>5. QED
      BY <3>1, <3>2, <3>3, <3>4
  <2>3. QED
    BY <2>1, <2>2, StagedLinksCases
<1>9. QED
  BY <1>1, <1>7, <1>8

\* What the commit does to the lists.
LEMMA CommitEffect ==
    ASSUME IInv, Commit
    PROVE  /\ pc = "commit" /\ Adding /\ ~ Adding' /\ updates' = {}
           /\ Inserted = Count /\ Count \in Nat /\ size = Count + 1
           /\ Count' = size /\ UNCHANGED <<size, draws>>
           /\ Inserted \in 0..(size - 1) /\ draws[Inserted] \in Nat
           /\ \A n \in 0..(size - 1) : \A l \in 0..draws[n] :
                 nodes'[n].links[l] = StagedLinks(n, l)
<1>1. pc = "commit" /\ Adding /\ size > 0 /\ ~ Adding' /\ updates' = {}
      /\ UNCHANGED <<size, draws>>
  BY DEF Commit, Return, NoCall, Adding, IInv, StagedInv, CallInv
<1>2. Inserted = Count /\ Count \in Nat /\ size = Count + 1 /\ Count' = size
  BY <1>1, CountIsNat DEF IInv, GraphInv, Inserted, Count
<1>3. Inserted \in 0..(size - 1) /\ 0..Inserted = 0..(size - 1)
  BY <1>2
<1>4. ASSUME NEW n \in 0..(size - 1)
      PROVE  \A l \in 0..draws[n] : nodes'[n].links[l] = StagedLinks(n, l)
  <2>1. nodes[n] \in [id : Ids, vector : Vectors,
                      links : [0..draws[n] -> SUBSET (0..(size - 1))]]
    BY NodeFacts
  <2>2. nodes'[n] = [nodes[n] EXCEPT !.links =
                        [l \in DOMAIN nodes[n].links |-> StagedLinks(n, l)]]
    BY <1>3 DEF Commit
  <2>3. nodes'[n].links = [l \in 0..draws[n] |-> StagedLinks(n, l)]
    BY <2>1, <2>2
  <2>4. QED
    BY <2>3
<1>5. QED
  BY <1>1, <1>2, <1>3, <1>4, NodeFacts

\* The commit of add() preserves the invariant.
LEMMA CommitStep ==
    ASSUME IInv, Commit
    PROVE  IInv'
<1> USE DEF IInv
<1>1. 0 \in 0..draws[Inserted] /\ Inserted \in 0..Inserted /\ draws[Inserted] \in 0..TopLevel
  <2>1. Adding /\ size > 0 /\ size \in 0..Capacity
    BY DEF Commit, StagedInv, CallInv, GraphInv, NodesInv
  <2>2. Inserted \in 0..(Capacity - 1)
    BY <2>1, ConfigAssumption DEF Inserted
  <2>3. draws[Inserted] \in 0..TopLevel
    BY <2>2 DEF GraphInv, NodesInv
  <2>4. QED
    BY <2>2, <2>3, ConfigAssumption
<1>2. pc = "commit" /\ Inserted = Count /\ Count \in Nat /\ size = Count + 1 /\ Adding
  BY <1>1, StagedLinksBounds DEF Commit
<1> DEFINE i == nodes[Inserted].id
<1>3. /\ index' = [j \in DOMAIN index \cup {i} |-> IF j = i THEN Inserted ELSE index[j]]
      /\ Return(API!Stored(i))
      /\ UNCHANGED <<size, efSearch, draws>> /\ rng' = rng + 1
  BY DEF Commit
<1>4. CallInv' /\ StagedInv' /\ WalkInv' /\ ~ Adding' /\ Count' = size
  BY <1>3, Returned
<1>5. DOMAIN nodes' = 0..Inserted
  BY DEF Commit
<1>6. ASSUME NEW n \in 0..Inserted
      PROVE  /\ draws[n] \in Nat
             /\ nodes'[n] \in [id : Ids, vector : Vectors,
                               links : [0..draws[n] -> SUBSET (0..(size - 1))]]
             /\ nodes'[n].id = nodes[n].id
             /\ \A l \in 0..draws[n] : nodes'[n].links[l] = StagedLinks(n, l)
  <2> DEFINE links == [l \in DOMAIN nodes[n].links |-> StagedLinks(n, l)]
  <2>1. nodes[n] \in [id : Ids, vector : Vectors,
                      links : [0..draws[n] -> SUBSET (0..(size - 1))]]
    BY <1>2 DEF GraphInv, NodesInv
  <2>2. nodes'[n] = [nodes[n] EXCEPT !.links = links]
    BY DEF Commit
  <2>3. links = [l \in 0..draws[n] |-> StagedLinks(n, l)]
    BY <2>1
  <2>4. \A l \in 0..draws[n] : StagedLinks(n, l) \subseteq 0..(size - 1)
    <3>1. SUFFICES ASSUME NEW l \in 0..draws[n] PROVE StagedLinks(n, l) \subseteq 0..(size - 1)
      OBVIOUS
    <3>2. size - 1 = Inserted
      BY DEF Inserted
    <3>3. \A m \in StagedLinks(n, l) : m \in 0..Inserted
      BY <1>2, StagedLinksBounds
    <3>4. QED
      BY <3>2, <3>3
  <2>5. links \in [0..draws[n] -> SUBSET (0..(size - 1))]
    BY <2>3, <2>4
  <2>6. nodes'[n].id = nodes[n].id /\ nodes'[n].links = links
    BY <2>1, <2>2
  <2>7. draws[n] \in Nat
    <3>1. n \in 0..(Capacity - 1)
      BY <1>2, ConfigAssumption DEF GraphInv, NodesInv
    <3>2. QED
      BY <3>1, ConfigAssumption DEF GraphInv, NodesInv
  <2>8. nodes'[n] \in [id : Ids, vector : Vectors,
                       links : [0..draws[n] -> SUBSET (0..(size - 1))]]
    BY <2>1, <2>2, <2>5
  <2>9. \A l \in 0..draws[n] : nodes'[n].links[l] = StagedLinks(n, l)
    BY <2>3, <2>6
  <2>10. QED
    BY <2>6, <2>7, <2>8, <2>9
<1>7. NodesInv'
  BY <1>2, <1>3, <1>4, <1>5, <1>6 DEF GraphInv, NodesInv
<1>8. IndexInv'
  <2>1. i \in Ids /\ i \notin DOMAIN index
    BY <1>1, <1>2 DEF GraphInv, NodesInv, StagedInv
  <2>2. DOMAIN index' = DOMAIN index \cup {i} /\ index'[i] = Inserted
    BY <1>3
  <2>3. \A j \in DOMAIN index : index'[j] = index[j]
    BY <1>3, <2>1
  <2>4. \A j \in DOMAIN index : index[j] \in 0..(Count - 1) /\ nodes[index[j]].id = j
    BY DEF GraphInv, IndexInv, IdsIndexed
  <2>5. \A n \in 0..(Count - 1) : nodes[n].id \in DOMAIN index /\ index[nodes[n].id] = n
    BY DEF GraphInv, IndexInv, IdsIndexed
  <2>6. \A n \in 0..Inserted : nodes'[n].id = nodes[n].id
    BY <1>6
  <2>7. size - 1 = Inserted
    BY DEF Inserted
  <2>8. \A j \in DOMAIN index' : index'[j] \in 0..Inserted /\ nodes'[index'[j]].id = j
    BY <1>2, <2>2, <2>3, <2>4, <2>6
  <2>9. \A n \in 0..Inserted : nodes'[n].id \in DOMAIN index' /\ index'[nodes'[n].id] = n
    <3>1. \A n \in 0..Inserted : n \in 0..(Count - 1) \/ n = Inserted
      BY <1>2
    <3>2. QED
      BY <3>1, <2>2, <2>3, <2>5, <2>6
  <2>10. DOMAIN index' \subseteq Ids
    BY <2>1, <2>2 DEF GraphInv, IndexInv
  <2>11. QED
    BY <1>4, <2>7, <2>8, <2>9, <2>10 DEF IndexInv, IdsIndexed
<1>9. TopInv'
  <2>1. call.floor = draws[Inserted]
    BY <1>2 DEF CallInv
  <2>2. \A n \in 0..(Count' - 1) : n \in 0..(Count - 1) \/ n = Inserted
    BY <1>2, <1>4
  <2>3. \A n \in 0..Inserted : draws[n] \in Nat
    BY <1>6
  <2>4. CASE Inserted = 0 \/ call.floor > maxLevel
    <3>1. entry' = Inserted /\ maxLevel' = call.floor
      BY <2>4 DEF Commit, RaiseEntry
    <3>2. \A n \in 0..(Count - 1) : draws[n] <= call.floor
      BY <2>4, <2>3, <2>1, <1>1, <1>2, ConfigAssumption DEF GraphInv, TopInv
    <3>3. entry' < Count' /\ draws'[entry'] = maxLevel'
      BY <3>1, <2>1, <1>2, <1>3, <1>4
    <3>4. \A n \in 0..(Count' - 1) : draws'[n] <= maxLevel'
      BY <3>1, <3>2, <2>1, <2>2, <2>3, <1>3
    <3>5. QED
      BY <3>1, <3>3, <3>4, <2>1, <1>1, <1>2 DEF TopInv
  <2>5. CASE ~ (Inserted = 0 \/ call.floor > maxLevel)
    <3>1. entry' = entry /\ maxLevel' = maxLevel
      BY <2>5 DEF Commit, RaiseEntry
    <3>2. draws[Inserted] <= maxLevel
      BY <2>1, <2>5, <1>1, ConfigAssumption DEF GraphInv, TopInv
    <3>3. QED
      BY <3>1, <3>2, <2>2, <2>5, <1>2, <1>3, <1>4 DEF GraphInv, TopInv
  <2>6. QED
    BY <2>4, <2>5
<1>10. LinksInv'
  <2>1. ASSUME NEW n \in 0..Inserted, NEW l \in 0..draws[n], NEW m \in nodes'[n].links[l]
        PROVE  m < size /\ m # n /\ l <= draws[m]
    <3>1. m \in StagedLinks(n, l)
      BY <1>6
    <3>2. m \in 0..Inserted /\ m # n /\ l <= draws[m]
      BY <3>1, <1>2, StagedLinksBounds
    <3>3. QED
      BY <3>2, <1>2
  <2>2. 0..(Count' - 1) = 0..Inserted
    BY <1>2, <1>4
  <2>3. QED
    BY <2>1, <2>2, <1>3, <1>4 DEF LinksInv
<1>11. Chained'
  <2>1. ASSUME NEW n \in 1..Inserted
        PROVE  n - 1 \in nodes'[n].links[0] /\ n \in nodes'[n - 1].links[0]
    <3>1. n \in 0..Inserted /\ n - 1 \in 0..Inserted /\ (n - 1) + 1 = n
      BY <1>2
    <3>2. 0 \in 0..draws[n] /\ 0 \in 0..draws[n - 1]
      BY <3>1, <1>6
    <3>3. n - 1 \in StagedLinks(n, 0)
      BY <3>1, <3>2, <1>2, StagedLinksBounds
    <3>4. n \in StagedLinks(n - 1, 0)
      BY <3>1, <3>2, <1>2, StagedLinksBounds
    <3>5. QED
      BY <3>1, <3>2, <3>3, <3>4, <1>6
  <2>2. 1..(Count' - 1) = 1..Inserted
    BY <1>2, <1>4
  <2>3. QED
    BY <2>1, <2>2 DEF Chained
<1>12. QED
  BY <1>4, <1>7, <1>8, <1>9, <1>10, <1>11 DEF GraphInv

----------------------------------------------------------------------------
(* The invariant *)

\* An empty index satisfies the invariant.
LEMMA InitStep == Init => IInv
<1> SUFFICES ASSUME Init PROVE IInv
  OBVIOUS
<1>1. ~ Adding /\ Count = 0 /\ size = 0
  BY DEF Init, Adding, NoCall, Count
<1>2. NodesInv
  BY <1>1, ConfigAssumption DEF Init, NodesInv
<1>3. IndexInv
  BY <1>1 DEF Init, IndexInv, IdsIndexed
<1>4. TopInv
  BY <1>1, ConfigAssumption DEF Init, TopInv
<1>5. LinksInv /\ Chained
  BY <1>1 DEF LinksInv, Chained
<1>6. CallInv
  BY <1>1 DEF Init, CallInv
<1>7. StagedInv
  BY <1>1 DEF Init, StagedInv
<1>8. WalkInv
  BY ConfigAssumption DEF Init, WalkInv, StageInv, QueueInv, PlaceInv
<1>9. QED
  BY <1>2, <1>3, <1>4, <1>5, <1>6, <1>7, <1>8 DEF IInv, GraphInv

\* Every step preserves the invariant, one case per action.
LEMMA NextStep == IInv /\ [Next]_vars => IInv'
<1> SUFFICES ASSUME IInv, [Next]_vars PROVE IInv'
  OBVIOUS
<1>1. CASE RefuseInvalid
  BY <1>1, Refused DEF RefuseInvalid
<1>2. ASSUME NEW i \in Ids, RefuseDuplicate(i) PROVE IInv'
  BY <1>2, Refused DEF RefuseDuplicate
<1>3. ASSUME NEW b \in Breadths, SetEfSearch(b) PROVE IInv'
  BY <1>3, SetEfSearchStep
<1>4. ASSUME NEW i \in Ids, NEW v \in Vectors, BeginAdd(i, v) PROVE IInv'
  BY <1>4, BeginAddStep
<1>5. ASSUME NEW v \in Vectors, NEW k \in Counts, NEW b \in Breadths \cup {efSearch},
             SearchNothing(v, k, b) \/ BeginSearch(v, k, b)
      PROVE  IInv'
  <2>1. k \in Nat /\ b \in Nat
    BY DataAssumption DEF IInv, GraphInv, NodesInv
  <2>2. CASE SearchNothing(v, k, b)
    BY <2>2, Refused DEF SearchNothing
  <2>3. CASE BeginSearch(v, k, b)
    BY <2>1, <2>3, BeginSearchStep
  <2>4. QED
    BY <1>5, <2>2, <2>3
<1>6. CASE Step
  <2>1. CASE Approach \/ Descend
    BY <2>1, ApproachDescend
  <2>2. CASE BeginLayer
    BY <2>2, BeginLayerStep
  <2>3. CASE Expand
    BY <2>3, ExpandStep
  <2>4. ASSUME NEW n \in todo, Visit(n) PROVE IInv'
    BY <2>4, VisitStep
  <2>5. CASE Link
    BY <2>5, LinkStep
  <2>6. CASE Commit
    BY <2>6, CommitStep
  <2>7. CASE Answer
    BY <2>7, SearchEnds
  <2>8. QED
    BY <1>6, <2>1, <2>2, <2>3, <2>4, <2>5, <2>6, <2>7 DEF Step
<1>7. CASE FailAdd
  BY <1>7, FailAddStep
<1>8. CASE FailSearch
  BY <1>8, SearchEnds
<1>9. CASE UNCHANGED vars
  <2>1. UNCHANGED <<nodes, committed, efSearch, draws, pc, call, walk, updates>>
    BY <1>9 DEF vars
  <2>2. GraphInv' /\ CallInv'
    BY <2>1, GraphStable, CallStable DEF IInv
  <2>3. StagedInv'
    BY <2>1 DEF IInv, StagedInv, UpdateInv, committed, Count, Inserted, Adding
  <2>4. QED
    BY <2>1, <2>2, <2>3, WalkStable DEF IInv
<1>10. QED
  BY <1>1, <1>2, <1>3, <1>4, <1>5, <1>6, <1>7, <1>8, <1>9 DEF Next

\* The inductive invariant holds in every reachable state of HnswIndex.
THEOREM Inductive == Spec => []IInv
  BY InitStep, NextStep, PTL DEF Spec

----------------------------------------------------------------------------
(* What it implies: the properties that the runs check *)

\* The invariant contains the type invariant of the runs.
LEMMA IInvImpliesTypeOK == IInv => TypeOK
<1> SUFFICES ASSUME IInv PROVE TypeOK
  OBVIOUS
<1> USE DEF IInv
<1>1. Count \in Nat /\ size \in Nat /\ Count <= size /\ Count <= Capacity
  BY CountIsNat DEF GraphInv
<1>2. 0..(Count - 1) \subseteq 0..(size - 1)
  BY <1>1
<1>3. \A n \in 0..(size - 1) : \E top \in 0..TopLevel :
         nodes[n] \in [id : Ids, vector : Vectors, links : [0..top -> SUBSET (0..(size - 1))]]
  BY NodeFacts
<1>4. size \in 0..Capacity /\ DOMAIN nodes = 0..(size - 1) /\ rng \in 0..Capacity
  BY <1>1, ConfigAssumption DEF GraphInv, NodesInv
<1>5. pending \subseteq Candidates /\ nearest \subseteq Candidates
  <2>1. ASSUME NEW c \in pending \cup nearest PROVE c \in Candidates
    <3>1. c.node \in 0..(Count - 1) /\ c = Scored(call.query, c.node) /\ pc # "idle"
      BY DEF WalkInv, QueueInv, StageInv
    <3>2. call.query \in Vectors
      BY <3>1 DEF WalkInv, StageInv, CallInv, Calls
    <3>3. c.node \in 0..(size - 1)
      BY <3>1, <1>2
    <3>4. nodes[c.node].id \in Ids /\ nodes[c.node].vector \in Vectors
      BY <3>3, NodeFacts
    <3>5. Cosine[<<call.query, nodes[c.node].vector>>] \in Int
      BY <3>2, <3>4, DataAssumption
    <3>6. Scored(call.query, c.node) \in Candidates
      BY <3>3, <3>4, <3>5 DEF Scored, Candidates
    <3>7. QED
      BY <3>1, <3>6
  <2>2. QED
    BY <2>1
<1>6. \A u \in updates : /\ u.node \in 0..(size - 1) /\ u.layer \in 0..TopLevel
                         /\ u.links \subseteq 0..(size - 1)
  <2>1. ASSUME NEW u \in updates
        PROVE  /\ u.node \in 0..(size - 1) /\ u.layer \in 0..TopLevel
               /\ u.links \subseteq 0..(size - 1)
    <3>1. UpdateInv(u)
      BY DEF StagedInv
    <3>2. u.node \in 0..(size - 1) /\ u.layer \in Nat /\ u.layer <= draws[u.node]
      BY <3>1, <1>2 DEF UpdateInv
    <3>3. draws[u.node] \in 0..TopLevel
      BY <3>2, NodeFacts
    <3>4. u.links \subseteq 0..(size - 1)
      BY <3>1 DEF UpdateInv, Inserted
    <3>5. QED
      BY <3>2, <3>3, <3>4, ConfigAssumption
  <2>2. QED
    BY <2>1
<1>7. visited \subseteq 0..(size - 1) /\ todo \subseteq 0..(size - 1)
  BY <1>2 DEF WalkInv, StageInv
<1>8. /\ pc \in {"idle", "descend", "search", "commit"} /\ (pc = "idle" <=> call = NoCall)
      /\ layer \in 0..TopLevel /\ cur \in Nat /\ call \in Calls \cup {NoCall}
  BY DEF WalkInv, StageInv, CallInv
<1>9. /\ entry \in Nat /\ maxLevel \in 0..TopLevel /\ efSearch \in Breadths \ {0}
      /\ draws \in [0..(Capacity - 1) -> 0..TopLevel]
      /\ DOMAIN index \subseteq Ids /\ \A i \in DOMAIN index : index[i] \in 0..(Count - 1)
  BY DEF GraphInv, TopInv, NodesInv, IndexInv
<1>10. QED
  BY <1>3, <1>4, <1>5, <1>6, <1>7, <1>8, <1>9 DEF TypeOK

\* The invariant contains the safety invariants of the runs.
LEMMA IInvImpliesSafety ==
    IInv => Chained /\ LinksInRange /\ EntryOnTop /\ IdsIndexed /\ LevelsFollowSeed /\ WalkInRange
<1> SUFFICES ASSUME IInv
             PROVE  Chained /\ LinksInRange /\ EntryOnTop /\ IdsIndexed /\ LevelsFollowSeed /\ WalkInRange
  OBVIOUS
<1> USE DEF IInv
<1>1. Count \in Nat /\ size \in Nat /\ Count <= size
  BY CountIsNat DEF GraphInv
<1>2. \A n \in 0..(Count - 1) : n \in 0..(size - 1)
  BY <1>1
<1>3. \A n \in 0..(Count - 1) : DOMAIN nodes[n].links = 0..draws[n] /\ draws[n] \in Nat
  BY <1>2, NodeFacts
<1>4. Chained /\ IdsIndexed
  BY DEF GraphInv, IndexInv
<1>5. LinksInRange
  <2>1. ASSUME NEW n \in 0..(Count - 1), NEW l \in 0..draws[n], NEW m \in nodes[n].links[l]
        PROVE  m \in 0..(Count - 1) /\ m # n /\ l \in DOMAIN nodes[m].links
    <3>1. m < Count /\ m # n /\ l <= draws[m]
      BY DEF GraphInv, LinksInv
    <3>2. m \in 0..(size - 1)
      BY <1>2, NodeFacts
    <3>3. m \in 0..(Count - 1)
      BY <1>1, <3>1, <3>2
    <3>4. l \in 0..draws[m]
      BY <1>3, <3>1, <3>3
    <3>5. QED
      BY <1>3, <3>1, <3>3, <3>4
  <2>2. QED
    BY <1>3, <2>1 DEF LinksInRange
<1>6. EntryOnTop
  <2>1. SUFFICES ASSUME Count > 0 PROVE EntryOnTop
    BY DEF EntryOnTop
  <2>2. entry \in 0..(Count - 1) /\ draws[entry] = maxLevel
    BY <1>1, <2>1 DEF GraphInv, TopInv
  <2>3. \A n \in 0..(Count - 1) : draws[n] <= maxLevel /\ maxLevel \in Nat
    BY ConfigAssumption DEF GraphInv, TopInv
  <2>4. \A n \in 0..(Count - 1) : 0..draws[n] \subseteq 0..maxLevel
    BY <1>3, <2>3
  <2>5. QED
    BY <1>3, <2>2, <2>4 DEF EntryOnTop
<1>7. LevelsFollowSeed
  BY NodeFacts DEF LevelsFollowSeed, GraphInv, NodesInv
<1>8. WalkInRange
  <2>1. ASSUME pc = "descend" PROVE cur \in 0..(Count - 1) /\ layer \in DOMAIN nodes[cur].links
    <3>1. cur \in 0..(Count - 1) /\ layer \in Nat /\ layer <= draws[cur]
      BY <1>1, <2>1, WalkFacts DEF WalkInv, StageInv, PlaceInv
    <3>2. QED
      BY <1>3, <3>1
  <2>2. ASSUME pc = "search", NEW n \in visited \cup todo
        PROVE  n \in 0..(Count - 1) /\ layer \in DOMAIN nodes[n].links
    <3>1. n \in 0..(Count - 1) /\ layer \in Nat /\ layer <= draws[n]
      BY <2>2, WalkFacts DEF WalkInv, StageInv, PlaceInv
    <3>2. QED
      BY <1>3, <3>1
  <2>3. QED
    BY <2>1, <2>2 DEF WalkInRange
<1>9. QED
  BY <1>4, <1>5, <1>6, <1>7, <1>8

\* Every variable keeps the type its stage promises (TypeOK of the runs).
THEOREM TypeCorrect == Spec => []TypeOK
  BY Inductive, IInvImpliesTypeOK, PTL

\* The base layer holds the chain of insertion order in both directions,
\* whatever add() pruned: nodes reach each other however they are alike.
THEOREM BaseLayerChained == Spec => []Chained
  BY Inductive, IInvImpliesSafety, PTL

\* links[layer] is in range on every node that a walk can come to, and no
\* link leads to the node itself or to one whose insertion is under way.
THEOREM LinksStayInRange == Spec => [](LinksInRange /\ WalkInRange)
  BY Inductive, IInvImpliesSafety, PTL

\* Searches start at the highest node: entry_ and max_level_ agree with it.
THEOREM EntryStaysOnTop == Spec => []EntryOnTop
  BY Inductive, IInvImpliesSafety, PTL

\* The ID map and the nodes agree, also after insertions that threw.
THEOREM IdsStayIndexed == Spec => []IdsIndexed
  BY Inductive, IInvImpliesSafety, PTL

\* A failed insertion gives its level back to the generator.
THEOREM SeedDeterminesLevels == Spec => []LevelsFollowSeed
  BY Inductive, IInvImpliesSafety, PTL

----------------------------------------------------------------------------
(* Steps that do not complete an insertion leave the graph as it is *)

\* The graph stays when its complete nodes and its other parts do.
LEMMA GraphKept ==
    ASSUME Count' = Count, \A n \in 0..(Count - 1) : nodes'[n] = nodes[n],
           UNCHANGED <<index, entry, maxLevel, rng>>
    PROVE  Graph' = Graph
  BY DEF Graph

\* A step that only moves the running call, or ends a search, keeps the graph.
LEMMA GraphUntouched ==
    ASSUME UNCHANGED <<nodes, committed>>, Adding' <=> Adding
    PROVE  Graph' = Graph
<1>1. Count' = Count
  BY DEF Count, committed
<1>2. QED
  BY <1>1, GraphKept DEF committed

\* The node that add() appends is not part of the graph yet.
LEMMA GraphKeptByBeginAdd ==
    ASSUME IInv, NEW i \in Ids, NEW v \in Vectors, BeginAdd(i, v)
    PROVE  Graph' = Graph
<1>1. call = NoCall /\ ~ Adding /\ Adding' /\ Count = size /\ size \in Nat
  BY DEF IInv, GraphInv, NodesInv, WalkInv, StageInv, BeginAdd, NoCall, Adding, Count
<1>2. Count' = Count
  BY <1>1 DEF BeginAdd, Count
<1>3. \A n \in 0..(Count - 1) : nodes'[n] = nodes[n]
  BY <1>1 DEF BeginAdd
<1>4. QED
  BY <1>2, <1>3, GraphKept DEF BeginAdd

\* Links of the node in the making are not part of the graph yet, and the
\* lists that link back are staged.
LEMMA GraphKeptByLink ==
    ASSUME IInv, Link
    PROVE  Graph' = Graph
<1>1. Adding /\ Adding' /\ Count' = Count /\ Inserted = Count /\ Count \in Nat
  BY CountIsNat DEF IInv, GraphInv, Link, Adding, Count, Inserted, committed
<1>2. \A n \in 0..(Count - 1) : n # Inserted /\ n \in DOMAIN nodes
  BY <1>1, CountIsNat DEF IInv, GraphInv, NodesInv, Count
<1>3. \A n \in 0..(Count - 1) : nodes'[n] = nodes[n]
  BY <1>2 DEF Link
<1>4. QED
  BY <1>1, <1>3, GraphKept DEF Link, committed

\* The rollback restores the graph and the generator exactly.
LEMMA GraphKeptByFailAdd ==
    ASSUME IInv, FailAdd
    PROVE  Graph' = Graph
<1>1. Adding /\ ~ Adding' /\ Count = size - 1 /\ size' = size - 1 /\ size \in Nat
  BY DEF IInv, GraphInv, NodesInv, FailAdd, Return, NoCall, Adding, Count
<1>2. Count' = Count
  BY <1>1 DEF Count
<1>3. \A n \in 0..(Count - 1) : nodes'[n] = nodes[n]
  BY <1>1 DEF FailAdd
<1>4. QED
  BY <1>2, <1>3, GraphKept DEF FailAdd

\* One case per action; only Commit completes an insertion.
LEMMA GraphStep ==
    ASSUME IInv, Next
    PROVE  Graph' = Graph \/ reply'.kind = "stored"
<1> USE DEF Adding, NoCall
<1>1. pc = "idle" <=> call = NoCall
  BY DEF IInv, WalkInv, StageInv
<1>2. CASE RefuseInvalid \/ \E i \in Ids : RefuseDuplicate(i)
  BY <1>2, GraphUntouched DEF RefuseInvalid, RefuseDuplicate, Refuse
<1>3. CASE \E b \in Breadths : SetEfSearch(b)
  BY <1>3, GraphUntouched DEF SetEfSearch
<1>4. CASE \E i \in Ids, v \in Vectors : BeginAdd(i, v)
  BY <1>4, GraphKeptByBeginAdd
<1>5. CASE \E v \in Vectors, k \in Counts, b \in Breadths \cup {efSearch} :
              SearchNothing(v, k, b) \/ BeginSearch(v, k, b)
  BY <1>1, <1>5, GraphUntouched DEF SearchNothing, Refuse, BeginSearch
<1>6. CASE Approach \/ Descend \/ BeginLayer \/ Expand \/ \E n \in todo : Visit(n)
  BY <1>6, GraphUntouched DEF Approach, Descend, BeginLayer, Expand, Visit
<1>7. CASE Link
  BY <1>7, GraphKeptByLink
<1>8. CASE Commit
  BY <1>8 DEF Commit, Return, API!Stored
<1>9. CASE Answer \/ FailSearch
  BY <1>9, GraphUntouched DEF Answer, FailSearch, Return
<1>10. CASE FailAdd
  BY <1>10, GraphKeptByFailAdd
<1>11. QED
  BY <1>2, <1>3, <1>4, <1>5, <1>6, <1>7, <1>8, <1>9, <1>10 DEF Next, Step

----------------------------------------------------------------------------
(* The bounded queue of search_layer() *)

\* The queue has room, and holds the best of what has been visited.
RankInv ==
    /\ pc \in {"descend", "search"} => call.ef \in Nat \ {0}
    /\ NearestIsBest

\* A step that leaves the queue and what it was filled from alone.
LEMMA RankStable ==
    ASSUME RankInv, UNCHANGED <<nodes, call, nearest, visited>>,
           pc' \in {"descend", "search"} => pc \in {"descend", "search"},
           pc' = "search" => pc = "search"
    PROVE  RankInv'
  BY DEF RankInv, NearestIsBest, ScoredAll, Scored

\* The first node of a layer.
LEMMA RankBeginLayer ==
    ASSUME IInv, RankInv, BeginLayer
    PROVE  RankInv'
<1> DEFINE c == Scored(call.query, cur)
<1>1. pc = "descend" /\ UNCHANGED <<nodes, call>>
  BY DEF BeginLayer
<1>2. visited' = {cur} /\ nearest' = Best(call.ef, {c})
  BY DEF BeginLayer, EnterLayer, NodesOf, Scored
<1>3. ScoredAll(call.query, visited)' = {c}
  BY <1>1, <1>2 DEF ScoredAll, Scored
<1>4. QED
  BY <1>1, <1>2, <1>3 DEF RankInv, NearestIsBest

\* A node that is visited is pushed, and the queue drops its last, or it
\* cannot be among the best.
LEMMA RankVisit ==
    ASSUME IInv, RankInv, NEW n \in todo, Visit(n)
    PROVE  RankInv'
<1> DEFINE c == Scored(call.query, n)
           S == ScoredAll(call.query, visited)
           k == call.ef
<1>1. pc = "search" /\ pc' = pc /\ UNCHANGED <<nodes, call>> /\ visited' = visited \cup {n}
  BY DEF Visit
<1>2. k \in Nat /\ k > 0 /\ nearest = Best(k, S)
  BY <1>1 DEF RankInv, NearestIsBest
<1>3. ScoredAll(call.query, visited)' = S \cup {c}
  BY <1>1 DEF ScoredAll, Scored
<1>4. S \cup {c} = ScoredAll(call.query, visited \cup {n})
  BY DEF ScoredAll
<1>5. Rankable(S \cup {c}) /\ Rankable(S)
  <2>1. visited \cup {n} \subseteq 0..(Count - 1) /\ call.query \in Vectors
    BY <1>1, WalkFacts DEF IInv, WalkInv, StageInv
  <2>2. Rankable(ScoredAll(call.query, visited \cup {n}))
    BY <2>1, ScoredRankable DEF IInv
  <2>3. QED
    BY <2>2, <1>4, RankableSubset
<1>6. CASE Improves(c)
  <2>1. nearest' = PushBounded(k, nearest, c)
    BY <1>6 DEF Visit
  <2>2. nearest' = Best(k, S \cup {c})
    BY <2>1, <1>2, <1>5, PushBoundedIsBest
  <2>3. QED
    BY <1>1, <1>2, <1>3, <2>2 DEF RankInv, NearestIsBest
<1>7. CASE ~ Improves(c)
  <2>1. nearest' = nearest
    BY <1>7 DEF Visit
  <2>2. Cardinality(nearest) = Lesser(k, Cardinality(S)) /\ Cardinality(S) \in Nat
    BY <1>2, <1>5, BestCardinality, FS_CardinalityType DEF Rankable
  <2>3. Cardinality(nearest) = k /\ ~ Better(c, Farthest(nearest))
    BY <2>2, <1>2, <1>7 DEF Improves, Lesser
  <2>4. Best(k, S \cup {c}) = nearest
    <3>1. CASE c \in S
      <4>1. S \cup {c} = S
        BY <3>1
      <4>2. QED
        BY <4>1, <1>2
    <3>2. CASE c \notin S
      BY <3>2, <2>3, <1>2, <1>5, BestRejects
    <3>3. QED
      BY <3>1, <3>2
  <2>5. QED
    BY <1>1, <1>2, <1>3, <2>1, <2>4 DEF RankInv, NearestIsBest
<1>8. QED
  BY <1>6, <1>7

\* The next layer of an insertion starts from the queue of the layer above.
LEMMA RankLink ==
    ASSUME IInv, RankInv, Link
    PROVE  RankInv'
<1> DEFINE N == NodesOf(nearest)
<1>1. pc = "search" /\ Adding /\ UNCHANGED call
  BY DEF Link, LayerDone
<1>2. CASE layer = 0
  BY <1>1, <1>2 DEF Link, RankInv, NearestIsBest
<1>3. CASE layer # 0
  <2>1. pc' = pc /\ visited' = N /\ nearest' = Best(call.ef, nearest)
    BY <1>3 DEF Link, EnterLayer
  <2>2. ASSUME NEW n \in N
        PROVE  Scored(call.query, n) \in nearest /\ Scored(call.query, n)' = Scored(call.query, n)
    <3>1. PICK c \in nearest : c.node = n /\ c = Scored(call.query, n) /\ n \in visited
      BY DEF NodesOf, IInv, WalkInv, QueueInv
    <3>2. n \in 0..(Count - 1) /\ n \in DOMAIN nodes /\ n # Inserted
      BY <1>1, <3>1, CountIsNat DEF IInv, GraphInv, NodesInv, WalkInv, StageInv
    <3>3. nodes'[n] = nodes[n]
      BY <3>2 DEF Link
    <3>4. QED
      BY <1>1, <3>1, <3>3 DEF Scored
  <2>3. \A c \in nearest : c.node \in N /\ c = Scored(call.query, c.node)
    BY DEF NodesOf, IInv, WalkInv, QueueInv
  <2>4. ScoredAll(call.query, visited)' = nearest
    BY <2>1, <2>2, <2>3 DEF ScoredAll
  <2>5. QED
    BY <1>1, <2>1, <2>4 DEF RankInv, NearestIsBest
<1>4. QED
  BY <1>2, <1>3

\* A call starts with room in its queue.
LEMMA RankBegin ==
    ASSUME IInv, Next, pc' = "descend", pc = "idle"
    PROVE  RankInv'
<1>1. size \in Nat /\ efSearch \in Nat \ {0}
  BY DataAssumption DEF IInv, GraphInv, NodesInv
<1>2. CASE \E i \in Ids, v \in Vectors : BeginAdd(i, v)
  <2>1. size # 0 /\ call'.ef = Lesser(EfConstruction, size)
    BY <1>2 DEF BeginAdd
  <2>2. QED
    BY <1>1, <2>1, ConfigAssumption DEF RankInv, NearestIsBest, Lesser
<1>3. CASE \E v \in Vectors, k \in Counts, b \in Breadths \cup {efSearch} : BeginSearch(v, k, b)
  <2>1. PICK k \in Counts, b \in Breadths \cup {efSearch} :
            b > 0 /\ k > 0 /\ size > 0 /\ call'.ef = SearchBreadth(k, b)
    BY <1>3 DEF BeginSearch
  <2>2. QED
    BY <1>1, <2>1, DataAssumption DEF RankInv, NearestIsBest, SearchBreadth, Lesser, Greater
<1>4. QED
  BY <1>2, <1>3 DEF Next, Step, RefuseInvalid, RefuseDuplicate, Refuse, SetEfSearch,
       SearchNothing, Approach, Descend, BeginLayer, Expand, Visit, Link, LayerDone,
       Commit, Answer, FailAdd, FailSearch

\* Every step preserves it.
LEMMA RankStep == IInv /\ RankInv /\ [Next]_vars => RankInv'
<1> SUFFICES ASSUME IInv, RankInv, [Next]_vars PROVE RankInv'
  OBVIOUS
<1>1. CASE UNCHANGED vars
  BY <1>1, RankStable DEF vars, walk
<1>2. CASE Next /\ pc = "idle" /\ pc' = "descend"
  BY <1>2, RankBegin
<1>3. CASE pc' \notin {"descend", "search"}
  BY <1>3 DEF RankInv, NearestIsBest
<1>4. CASE Approach \/ Descend \/ Expand
  BY <1>4, RankStable DEF Approach, Descend, Expand
<1>5. CASE BeginLayer
  BY <1>5, RankBeginLayer
<1>6. CASE \E n \in todo : Visit(n)
  BY <1>6, RankVisit
<1>7. CASE Link
  BY <1>7, RankLink
<1>8. ASSUME Next, ~ (Approach \/ Descend \/ Expand), ~ BeginLayer, ~ Link,
             ~ \E n \in todo : Visit(n)
      PROVE  pc' \notin {"descend", "search"} \/ (pc = "idle" /\ pc' = "descend")
  BY <1>8 DEF Next, Step, RefuseInvalid, RefuseDuplicate, Refuse, SetEfSearch,
       SearchNothing, BeginSearch, BeginAdd, Commit, Answer, FailAdd, FailSearch, Return
<1>9. QED
  BY <1>1, <1>2, <1>3, <1>4, <1>5, <1>6, <1>7, <1>8

----------------------------------------------------------------------------
\* Searches see a graph that only completed insertions change: an add() that
\* throws leaves the graph, the ID map and the generator as they were.
THEOREM OnlyInsertionsChangeGraph == Spec => OnlyStoredChangesGraph
<1>1. IInv /\ [Next]_vars => [Graph' # Graph => reply'.kind = "stored"]_vars
  BY GraphStep
<1>2. QED
  BY <1>1, Inductive, PTL DEF Spec, OnlyStoredChangesGraph

\* search_layer() ends with exactly the ef best of the nodes it has visited,
\* for every order of visits and every tie.
THEOREM QueueHoldsBest == Spec => []NearestIsBest
<1>1. Init => RankInv
  BY DEF Init, RankInv, NearestIsBest
<1>2. RankInv => NearestIsBest
  BY DEF RankInv
<1>3. QED
  BY <1>1, <1>2, RankStep, Inductive, PTL DEF Spec

----------------------------------------------------------------------------
(* A base-layer search fills its queue *)

\* As long as the queue is not full, search_layer() has not given up on any
\* node: what it has visited is queued for expansion, or all of its links
\* have been or are being visited.
FillInv ==
    /\ pc \in {"descend", "search"} => call.ef <= Count
    /\ pc = "search" => visited # {}
    /\ pc = "search" /\ Cardinality(nearest) < call.ef =>
          \A n \in visited : \/ Scored(call.query, n) \in pending
                             \/ nodes[n].links[layer] \subseteq visited \cup todo

\* The size of the queue.
LEMMA QueueSize ==
    ASSUME IInv, RankInv, pc = "search"
    PROVE  /\ call.ef \in Nat \ {0}
           /\ Cardinality(nearest) = Lesser(call.ef, Cardinality(ScoredAll(call.query, visited)))
           /\ Cardinality(ScoredAll(call.query, visited)) \in Nat
           /\ IsFiniteSet(ScoredAll(call.query, visited))
<1>1. call.ef \in Nat \ {0} /\ nearest = Best(call.ef, ScoredAll(call.query, visited))
  BY DEF RankInv, NearestIsBest
<1>2. Rankable(ScoredAll(call.query, visited))
  BY QueuesRankable
<1>3. QED
  BY <1>1, <1>2, BestCardinality, FS_CardinalityType DEF Rankable

\* A step that leaves alone what the invariant is about.
LEMMA FillStable ==
    ASSUME FillInv, UNCHANGED <<nodes, size, call, layer, pending, nearest, visited, todo>>,
           pc' \in {"descend", "search"} => pc \in {"descend", "search"},
           pc' = "search" => pc = "search"
    PROVE  FillInv'
  BY DEF FillInv, Scored, Count, Adding

\* The greedy walk does not touch the queue.
LEMMA FillWalk ==
    ASSUME IInv, FillInv, Approach \/ Descend
    PROVE  FillInv'
<1>1. pc = "descend" /\ pc' = "descend" /\ UNCHANGED <<call, size>>
  BY DEF Approach, Descend, committed
<1>2. QED
  BY <1>1 DEF FillInv, Count, Adding

\* The first node of a layer is queued.
LEMMA FillBeginLayer ==
    ASSUME IInv, FillInv, BeginLayer
    PROVE  FillInv'
<1>1. /\ pc = "descend" /\ UNCHANGED <<nodes, size, call>>
      /\ visited' = {cur} /\ pending' = {Scored(call.query, cur)}
  BY DEF BeginLayer, EnterLayer, NodesOf, Scored, committed
<1>2. Scored(call.query, cur)' = Scored(call.query, cur') /\ cur' = cur
  BY <1>1 DEF BeginLayer, Scored
<1>3. \A n \in visited' : Scored(call.query, n)' \in pending'
  BY <1>1 DEF Scored
<1>4. call'.ef <= Count'
  BY <1>1 DEF FillInv, Count, Adding
<1>5. QED
  BY <1>1, <1>3, <1>4 DEF FillInv

\* The node that leaves the queue has its links visited next.
LEMMA FillExpand ==
    ASSUME IInv, FillInv, Expand
    PROVE  FillInv'
<1> DEFINE c == Nearest(pending)
<1>1. /\ pc = "search" /\ todo = {} /\ pending # {}
      /\ UNCHANGED <<nodes, size, call, layer, nearest, visited>>
      /\ pending' = pending \ {c} /\ todo' = nodes[c.node].links[layer] \ visited
  BY DEF Expand, committed
<1>2. c \in pending
  BY <1>1, QueuesRankable, NearestIsFirst
<1> HIDE DEF c
<1>3. c.node \in visited /\ c = Scored(call.query, c.node)
  BY <1>2 DEF IInv, WalkInv, QueueInv
<1>4. ASSUME NEW n \in visited, Cardinality(nearest) < call.ef
      PROVE  \/ Scored(call.query, n) \in pending'
             \/ nodes[n].links[layer] \subseteq visited \cup todo'
  <2>1. \/ Scored(call.query, n) \in pending
        \/ nodes[n].links[layer] \subseteq visited \cup todo
    BY <1>1, <1>4 DEF FillInv
  <2>2. Scored(call.query, n) = c => n = c.node
    BY DEF Scored
  <2>3. QED
    BY <2>1, <2>2, <1>1
<1>5. \A n : Scored(call.query, n)' = Scored(call.query, n)
  BY <1>1 DEF Scored
<1>6. Count' = Count
  BY <1>1 DEF Count, Adding
<1>7. QED
  BY <1>1, <1>4, <1>5, <1>6 DEF FillInv

\* A queue that has room has taken the node in.
LEMMA FillVisit ==
    ASSUME IInv, RankInv, FillInv, NEW n \in todo, Visit(n)
    PROVE  FillInv'
<1> DEFINE c == Scored(call.query, n)
<1>1. /\ pc = "search" /\ pc' = "search" /\ UNCHANGED <<nodes, size, call, layer>>
      /\ visited' = visited \cup {n} /\ todo' = todo \ {n}
  BY DEF Visit, committed
<1>2. Count' = Count /\ \A m : Scored(call.query, m)' = Scored(call.query, m)
  BY <1>1 DEF Count, Adding, Scored
<1>3. ASSUME Cardinality(nearest') < call.ef
      PROVE  Cardinality(nearest) < call.ef /\ pending' = pending \cup {c}
  <2> DEFINE S == ScoredAll(call.query, visited)
             T == ScoredAll(call.query, visited \cup {n})
  <2>1. T = ScoredAll(call.query, visited)'
    BY <1>1, <1>2 DEF ScoredAll
  <2>2. /\ Cardinality(nearest') = Lesser(call.ef, Cardinality(T))
        /\ Cardinality(T) \in Nat /\ IsFiniteSet(T) /\ call.ef \in Nat
    <3>1. nearest' = Best(call.ef, T)
      BY <1>1, <2>1, RankVisit DEF RankInv, NearestIsBest
    <3>2. visited \cup {n} \subseteq 0..(Count - 1) /\ call.query \in Vectors
      BY <1>1, WalkFacts DEF IInv, WalkInv, StageInv
    <3>3. Rankable(T)
      BY <3>2, ScoredRankable DEF IInv
    <3>4. QED
      BY <1>1, <3>1, <3>3, BestCardinality, FS_CardinalityType, QueueSize DEF Rankable
  <2>3. Cardinality(nearest) = Lesser(call.ef, Cardinality(S)) /\ Cardinality(S) \in Nat
    BY <1>1, QueueSize
  <2>4. S \in SUBSET T
    BY <1>1, <1>2 DEF ScoredAll
  <2>5. Cardinality(S) <= Cardinality(T)
    BY <2>2, <2>4, FS_Subset
  <2> HIDE DEF S, T
  <2>6. Cardinality(nearest) < call.ef
    BY <1>3, <2>2, <2>3, <2>5 DEF Lesser
  <2>7. QED
    BY <2>6 DEF Visit, Improves
<1>4. ASSUME Cardinality(nearest') < call.ef, NEW m \in visited \cup {n}
      PROVE  \/ Scored(call.query, m) \in pending'
             \/ nodes[m].links[layer] \subseteq visited' \cup todo'
  <2>1. CASE m = n
    BY <2>1, <1>3, <1>4
  <2>2. CASE m # n
    <3>1. \/ Scored(call.query, m) \in pending
          \/ nodes[m].links[layer] \subseteq visited \cup todo
      BY <1>1, <1>3, <1>4, <2>2 DEF FillInv
    <3>2. QED
      BY <3>1, <1>1, <1>3, <1>4
  <2>3. QED
    BY <2>1, <2>2
<1> HIDE DEF c
<1>5. QED
  BY <1>1, <1>2, <1>4 DEF FillInv

\* The next layer of an insertion starts with its queue pending.
LEMMA FillLink ==
    ASSUME IInv, RankInv, FillInv, Link
    PROVE  FillInv'
<1>1. pc = "search" /\ Adding /\ UNCHANGED <<call, size>>
  BY DEF Link, LayerDone, committed
<1>2. Count' = Count /\ call.ef <= Count
  BY <1>1 DEF Count, Adding, FillInv
<1>3. CASE layer = 0
  BY <1>3 DEF Link, FillInv
<1>4. CASE layer # 0
  <2>1. visited' = NodesOf(nearest) /\ pending' = nearest
    BY <1>4 DEF Link, EnterLayer
  <2>2. ASSUME NEW n \in NodesOf(nearest)
        PROVE  Scored(call.query, n)' \in nearest
    <3>1. PICK c \in nearest : c.node = n /\ c = Scored(call.query, n) /\ n \in visited
      BY DEF NodesOf, IInv, WalkInv, QueueInv
    <3>2. n \in 0..(Count - 1) /\ n \in DOMAIN nodes /\ n # Inserted
      BY <1>1, <3>1, CountIsNat DEF IInv, GraphInv, NodesInv, WalkInv, StageInv
    <3>3. nodes'[n] = nodes[n]
      BY <3>2 DEF Link
    <3>4. QED
      BY <1>1, <3>1, <3>3 DEF Scored
  <2>3. nearest # {}
    <3>1. ScoredAll(call.query, visited) # {}
      BY <1>1 DEF FillInv, ScoredAll
    <3>2. Cardinality(nearest) # 0
      BY <1>1, <3>1, QueueSize, FS_EmptySet DEF Lesser
    <3>3. QED
      BY <3>2, FS_EmptySet
  <2>4. NodesOf(nearest) # {}
    BY <2>3 DEF NodesOf
  <2>5. QED
    BY <1>1, <1>2, <2>1, <2>2, <2>4 DEF FillInv
<1>5. QED
  BY <1>3, <1>4

\* A call never wants more candidates than there are complete nodes.
LEMMA FillBegin ==
    ASSUME IInv, Next, pc' = "descend", pc = "idle"
    PROVE  FillInv'
<1>1. size \in Nat /\ Count = size /\ ~ Adding
  BY DEF IInv, GraphInv, NodesInv, WalkInv, StageInv, Count, Adding, NoCall
<1>2. CASE \E i \in Ids, v \in Vectors : BeginAdd(i, v)
  <2>1. call'.op = "add" /\ size' = size + 1 /\ call'.ef = Lesser(EfConstruction, size)
    BY <1>2 DEF BeginAdd
  <2>2. Count' = size
    BY <1>1, <2>1 DEF Count, Adding
  <2>3. QED
    BY <1>1, <2>1, <2>2, ConfigAssumption DEF FillInv, Lesser
<1>3. CASE \E v \in Vectors, k \in Counts, b \in Breadths \cup {efSearch} : BeginSearch(v, k, b)
  <2>1. PICK k \in Counts, b \in Breadths \cup {efSearch} :
            call'.op = "search" /\ size' = size /\ call'.ef = SearchBreadth(k, b)
    BY <1>3 DEF BeginSearch, committed
  <2>2. Count' = size /\ k \in Nat /\ b \in Nat
    BY <1>1, <2>1, DataAssumption DEF Count, Adding, IInv, GraphInv, NodesInv
  <2>3. QED
    BY <1>1, <2>1, <2>2 DEF FillInv, SearchBreadth, Lesser, Greater
<1>4. QED
  BY <1>2, <1>3 DEF Next, Step, RefuseInvalid, RefuseDuplicate, Refuse, SetEfSearch,
       SearchNothing, Approach, Descend, BeginLayer, Expand, Visit, Link, LayerDone,
       Commit, Answer, FailAdd, FailSearch

\* Every step preserves it.
LEMMA FillStep == IInv /\ RankInv /\ FillInv /\ [Next]_vars => FillInv'
<1> SUFFICES ASSUME IInv, RankInv, FillInv, [Next]_vars PROVE FillInv'
  OBVIOUS
<1>1. CASE UNCHANGED vars
  <2>1. UNCHANGED <<nodes, committed, call, walk, pc>>
    BY <1>1 DEF vars
  <2>2. QED
    BY <2>1, FillStable DEF walk, committed
<1>2. CASE Next /\ pc = "idle" /\ pc' = "descend"
  BY <1>2, FillBegin
<1>3. CASE pc' \notin {"descend", "search"}
  BY <1>3 DEF FillInv
<1>4. CASE Approach \/ Descend
  BY <1>4, FillWalk
<1>5. CASE BeginLayer
  BY <1>5, FillBeginLayer
<1>6. CASE Expand
  BY <1>6, FillExpand
<1>7. CASE \E n \in todo : Visit(n)
  BY <1>7, FillVisit
<1>8. CASE Link
  BY <1>8, FillLink
<1>9. ASSUME Next, ~ (Approach \/ Descend), ~ BeginLayer, ~ Expand, ~ Link,
             ~ \E n \in todo : Visit(n)
      PROVE  pc' \notin {"descend", "search"} \/ (pc = "idle" /\ pc' = "descend")
  BY <1>9 DEF Next, Step, RefuseInvalid, RefuseDuplicate, Refuse, SetEfSearch,
       SearchNothing, BeginSearch, BeginAdd, Commit, Answer, FailAdd, FailSearch, Return
<1>10. QED
  BY <1>1, <1>2, <1>3, <1>4, <1>5, <1>6, <1>7, <1>8, <1>9

\* A nonempty set of nodes that the links of the base layer do not leave is
\* the whole index: the chain leads up and down from any of its members.
LEMMA ChainConnects ==
    ASSUME IInv, NEW V, V \subseteq 0..(Count - 1), V # {},
           \A n \in V : nodes[n].links[0] \subseteq V
    PROVE  V = 0..(Count - 1)
<1>1. Count \in Nat
  BY CountIsNat DEF IInv, GraphInv
<1>2. \A n \in 1..(Count - 1) : (n - 1 \in V => n \in V) /\ (n \in V => n - 1 \in V)
  BY DEF IInv, GraphInv, Chained
<1>3. PICK a \in V : a \in 0..(Count - 1)
  OBVIOUS
<1>4. ASSUME NEW b \in 0..(Count - 1), b \notin V PROVE FALSE
  <2>1. CASE b > a
    <3> DEFINE T == {m \in (a + 1)..(Count - 1) : m \notin V}
    <3>1. T \in SUBSET Nat /\ T # {}
      BY <1>1, <1>3, <1>4, <2>1
    <3>2. PICK m \in T : \A u \in T : m <= u
      BY <3>1, LeastExists
    <3>3. m \in 1..(Count - 1) /\ m - 1 \in a..(Count - 1) /\ m - 1 \notin T
      BY <1>1, <1>3, <3>2
    <3>4. m - 1 \in V
      BY <1>1, <1>3, <3>3
    <3>5. QED
      BY <1>2, <3>2, <3>3, <3>4
  <2>2. CASE b < a
    <3> DEFINE T == {j \in 1..a : a - j \notin V}
    <3>1. T \in SUBSET Nat
      BY <1>3
    <3>2. a - b \in T
      <4>1. a - (a - b) = b /\ a - b \in 1..a
        BY <1>1, <1>3, <1>4, <2>2
      <4>2. QED
        BY <4>1, <1>4
    <3>3. PICK j \in T : \A u \in T : j <= u
      BY <3>1, <3>2, LeastExists
    <3>4. a - (j - 1) \in 1..(Count - 1) /\ (a - (j - 1)) - 1 = a - j /\ j - 1 \notin T
      BY <1>1, <1>3, <3>3
    <3>5. a - (j - 1) \in V
      <4>1. CASE j = 1
        BY <4>1, <1>3
      <4>2. CASE j # 1
        BY <4>2, <1>3, <3>3, <3>4
      <4>3. QED
        BY <4>1, <4>2
    <3>6. QED
      BY <1>2, <3>3, <3>4, <3>5
  <2>3. QED
    BY <1>1, <1>3, <1>4, <2>1, <2>2
<1>5. QED
  BY <1>4

\* Every complete node is one candidate.
LEMMA AllScored ==
    ASSUME IInv, NEW v \in Vectors
    PROVE  /\ Rankable(ScoredAll(v, 0..(Count - 1)))
           /\ Cardinality(ScoredAll(v, 0..(Count - 1))) = Count
<1>1. Count \in Nat /\ \A n \in 0..(Count - 1) : n \in 0..(size - 1)
  BY CountIsNat DEF IInv, GraphInv
<1> DEFINE f == [n \in 0..(Count - 1) |-> Scored(v, n)]
           S == ScoredAll(v, 0..(Count - 1))
<1>2. \A n \in 0..(Count - 1) : f[n].id \in Int /\ f[n].score \in Int
  <2>1. \A n \in 0..(Count - 1) : nodes[n].id \in Ids /\ nodes[n].vector \in Vectors
    BY <1>1 DEF IInv, GraphInv, NodesInv
  <2>2. QED
    BY <2>1, DataAssumption DEF Scored
<1>3. \A m, n \in 0..(Count - 1) : f[m].id = f[n].id => m = n
  BY DEF Scored, IInv, GraphInv, IndexInv, IdsIndexed
<1>4. \A n \in 0..(Count - 1) : f[n] \in S
  BY DEF ScoredAll
<1>5. \A c \in S : \E n \in 0..(Count - 1) : f[n] = c
  BY DEF ScoredAll
<1> HIDE DEF f, S
<1>6. Rankable(S) /\ Cardinality(S) = Count
  BY <1>1, <1>2, <1>3, <1>4, <1>5, ScoredEntries
<1>7. QED
  BY <1>6 DEF S

\* A search of the base layer that runs out of pending nodes has seen all.
LEMMA FilledUp ==
    ASSUME IInv, RankInv, FillInv, LayerDone, layer = 0
    PROVE  Cardinality(nearest) = call.ef
<1> DEFINE S == ScoredAll(call.query, visited)
<1>1. pc = "search" /\ todo = {} /\ (pending = {} \/ Hopeless)
  BY DEF LayerDone
<1>2. /\ call.ef \in Nat \ {0} /\ Cardinality(S) \in Nat
      /\ Cardinality(nearest) = Lesser(call.ef, Cardinality(S))
  BY <1>1, QueueSize
<1>3. ASSUME Cardinality(nearest) < call.ef
      PROVE  FALSE
  <2>1. pending = {}
    BY <1>1, <1>2, <1>3 DEF Hopeless
  <2>2. \A n \in visited : nodes[n].links[0] \subseteq visited
    BY <1>1, <1>3, <2>1 DEF FillInv
  <2>3. visited \subseteq 0..(Count - 1) /\ visited # {}
    BY <1>1 DEF FillInv, IInv, WalkInv, StageInv
  <2>4. visited = 0..(Count - 1)
    BY <2>2, <2>3, ChainConnects
  <2>5. Cardinality(S) = Count
    BY <1>1, <2>4, AllScored, WalkFacts
  <2>6. call.ef <= Count
    BY <1>1 DEF FillInv
  <2> HIDE DEF S
  <2>7. QED
    BY <1>2, <1>3, <2>5, <2>6 DEF Lesser
<1> HIDE DEF S
<1>4. QED
  BY <1>2, <1>3 DEF Lesser

\* Queues of calls are filled as their invariants say, in every reachable state.
LEMMA Filling == Spec => [](RankInv /\ FillInv)
<1>1. Init => RankInv /\ FillInv
  BY DEF Init, RankInv, NearestIsBest, FillInv
<1>2. IInv /\ RankInv /\ FillInv /\ [Next]_vars => (RankInv /\ FillInv)'
  BY RankStep, FillStep
<1>3. QED
  BY <1>1, <1>2, Inductive, PTL DEF Spec

\* A search of the base layer ends with as many candidates as it wants: the
\* chain lets no stored node hide from it.
THEOREM BaseSearchesFillUp == Spec => []BaseSearchFillsUp
<1>1. IInv /\ RankInv /\ FillInv => BaseSearchFillsUp
  BY FilledUp DEF BaseSearchFillsUp
<1>2. QED
  BY <1>1, Inductive, Filling, PTL

----------------------------------------------------------------------------
(* The index keeps the promise of a vector store *)

\* A search walks down to the base layer, with room for all it was asked for.
SearchInv ==
    call.op = "search" =>
        /\ call.count \in Counts /\ call.floor = 0
        /\ call.ef >= Lesser(call.count, size)

LEMMA SearchStep == IInv /\ SearchInv /\ [Next]_vars => SearchInv'
<1> SUFFICES ASSUME IInv, SearchInv, [Next]_vars PROVE SearchInv'
  OBVIOUS
<1>1. CASE UNCHANGED <<call, size>>
  BY <1>1 DEF SearchInv
<1>2. CASE call' = NoCall
  BY <1>2 DEF SearchInv, NoCall
<1>3. ASSUME NEW i \in Ids, NEW v \in Vectors, BeginAdd(i, v) PROVE SearchInv'
  BY <1>3 DEF SearchInv, BeginAdd
<1>4. ASSUME NEW v \in Vectors, NEW k \in Counts, NEW b \in Breadths \cup {efSearch},
             BeginSearch(v, k, b)
      PROVE  SearchInv'
  <2>1. /\ size' = size /\ call'.count = k /\ call'.floor = 0
        /\ call'.ef = SearchBreadth(k, b)
    BY <1>4 DEF BeginSearch, committed
  <2>2. size \in Nat /\ k \in Nat /\ b \in Nat
    BY DataAssumption DEF IInv, GraphInv, NodesInv
  <2>3. QED
    BY <2>1, <2>2 DEF SearchInv, SearchBreadth, Lesser, Greater
<1>5. CASE Next
  BY <1>1, <1>2, <1>3, <1>4, <1>5 DEF Next, Step, RefuseInvalid, RefuseDuplicate, Refuse,
       SetEfSearch, SearchNothing, Approach, Descend, BeginLayer, Expand, Visit, Link,
       Commit, Answer, FailAdd, FailSearch, Return, committed
<1>6. QED
  BY <1>1, <1>5 DEF vars, committed

\* Taking the nodes off ranked candidates changes neither their number nor
\* their order.
LEMMA ResultsOrdered ==
    ASSUME NEW S, Rankable(S), NEW T \in SUBSET S
    PROVE  IsFiniteSet(Results(T)) /\ Cardinality(Results(T)) = Cardinality(T)
<1> DEFINE f == [c \in T |-> Candidate(c.id, c.score)]
<1>1. IsFiniteSet(T)
  BY FS_Subset DEF Rankable
<1>2. f \in Surjection(T, Results(T))
  BY DEF Surjection, Results
<1>3. ASSUME NEW c \in T, NEW d \in T, f[c] = f[d] PROVE c = d
  <2>1. c.id = d.id
    BY <1>3 DEF Candidate
  <2>2. QED
    BY <2>1 DEF Rankable
<1>4. f \in Injection(T, Results(T))
  BY <1>2, <1>3 DEF Injection, Surjection, IsInjective
<1>5. QED
  BY <1>1, <1>2, <1>4, FS_Surjection

LEMMA ResultsOfBest ==
    ASSUME NEW S, Rankable(S), NEW k
    PROVE  Rankable(Results(S)) /\ Results(Best(k, S)) = Best(k, Results(S))
<1> DEFINE f(c) == Candidate(c.id, c.score)
<1>1. \A c : f(c).id = c.id /\ f(c).score = c.score
  BY DEF Candidate
<1>2. \A c \in S : f(c) \in Results(S)
  BY DEF Results
<1>3. \A r \in Results(S) : \E c \in S : r = f(c)
  BY DEF Results
<1>4. Rankable(Results(S))
  <2>1. \A r \in Results(S) : r.id \in Int /\ r.score \in Int
    BY <1>1, <1>3 DEF Rankable
  <2>2. ASSUME NEW r \in Results(S), NEW t \in Results(S), r.id = t.id PROVE r = t
    <3>1. PICK c \in S : r = f(c)
      BY <1>3
    <3>2. PICK d \in S : t = f(d)
      BY <1>3
    <3>3. c.id = d.id
      BY <1>1, <2>2, <3>1, <3>2
    <3>4. QED
      BY <3>1, <3>2, <3>3 DEF Rankable
  <2>3. QED
    BY <2>1, <2>2, ResultsOrdered DEF Rankable
<1>5. ASSUME NEW c \in S
      PROVE  Cardinality(Above(Results(S), f(c))) = Cardinality(Above(S, c))
  <2>1. \A d \in S : Better(f(d), f(c)) <=> Better(d, c)
    BY <1>1 DEF Better
  <2>2. Above(Results(S), f(c)) = Results(Above(S, c))
    <3>1. ASSUME NEW r \in Above(Results(S), f(c)) PROVE r \in Results(Above(S, c))
      <4>1. r \in Results(S) /\ Better(r, f(c))
        BY DEF Above
      <4>2. PICK d \in S : r = f(d)
        BY <1>3, <4>1
      <4>3. d \in Above(S, c)
        BY <2>1, <4>1, <4>2 DEF Above
      <4>4. QED
        BY <4>2, <4>3 DEF Results
    <3>2. ASSUME NEW r \in Results(Above(S, c)) PROVE r \in Above(Results(S), f(c))
      <4>1. PICK d \in Above(S, c) : r = f(d)
        BY DEF Results
      <4>2. d \in S /\ Better(d, c)
        BY <4>1 DEF Above
      <4>3. QED
        BY <1>2, <2>1, <4>1, <4>2 DEF Above
    <3>3. QED
      BY <3>1, <3>2
  <2>3. Above(S, c) \in SUBSET S
    BY DEF Above
  <2>4. QED
    BY <2>2, <2>3, ResultsOrdered
<1>6. ASSUME NEW r \in Results(Best(k, S)) PROVE r \in Best(k, Results(S))
  <2>1. PICK c \in Best(k, S) : r = f(c)
    BY DEF Results
  <2>2. c \in S /\ Cardinality(Above(S, c)) < k
    BY <2>1 DEF Best
  <2>3. QED
    BY <1>2, <1>5, <2>1, <2>2 DEF Best
<1>7. ASSUME NEW r \in Best(k, Results(S)) PROVE r \in Results(Best(k, S))
  <2>1. r \in Results(S) /\ Cardinality(Above(Results(S), r)) < k
    BY DEF Best
  <2>2. PICK c \in S : r = f(c)
    BY <1>3, <2>1
  <2>3. c \in Best(k, S)
    BY <1>5, <2>1, <2>2 DEF Best
  <2>4. QED
    BY <2>2, <2>3 DEF Results
<1>8. QED
  BY <1>4, <1>6, <1>7

\* The complete nodes are the items of the store.
LEMMA NodesAreItems ==
    ASSUME IInv, NEW q \in Vectors
    PROVE  /\ API!Scored(q) = Results(ScoredAll(q, 0..(Count - 1)))
           /\ Rankable(API!Scored(q)) /\ Cardinality(API!Scored(q)) = Count
<1> DEFINE N == 0..(Count - 1)
           S == ScoredAll(q, N)
<1>1. /\ \A i \in DOMAIN index : index[i] \in N /\ nodes[index[i]].id = i
      /\ \A n \in N : nodes[n].id \in DOMAIN index /\ index[nodes[n].id] = n
  BY DEF IInv, GraphInv, IndexInv, IdsIndexed
<1>2. ASSUME NEW n \in N
      PROVE  Candidate(Scored(q, n).id, Scored(q, n).score) \in API!Scored(q)
  BY <1>1 DEF Scored, API!Scored, API!Candidate, Candidate
<1>3. ASSUME NEW i \in DOMAIN index
      PROVE  Candidate(i, Cosine[<<q, nodes[index[i]].vector>>]) \in Results(S)
  <2>1. Scored(q, index[i]) \in S
    BY <1>1 DEF ScoredAll
  <2>2. Scored(q, index[i]).id = i
        /\ Scored(q, index[i]).score = Cosine[<<q, nodes[index[i]].vector>>]
    BY <1>1 DEF Scored
  <2> HIDE DEF S
  <2>3. QED
    BY <2>1, <2>2 DEF Results
<1>4. API!Scored(q) \subseteq Results(S)
  BY <1>3 DEF API!Scored, API!Candidate, Candidate
<1>5. Results(S) \subseteq API!Scored(q)
  BY <1>2 DEF Results, ScoredAll
<1>6. Rankable(S) /\ Cardinality(S) = Count
  BY AllScored
<1> HIDE DEF S
<1>7. Rankable(Results(S)) /\ Cardinality(Results(S)) = Cardinality(S)
  BY <1>6, ResultsOfBest, ResultsOrdered
<1>8. API!Scored(q) = Results(S)
  BY <1>4, <1>5
<1>9. Rankable(API!Scored(q)) /\ Cardinality(API!Scored(q)) = Count
  BY <1>6, <1>7, <1>8
<1>10. QED
  BY <1>8, <1>9 DEF S

\* The store counts and ranks as the index does.
LEMMA SameRanking ==
    ASSUME NEW S
    PROVE  /\ API!Cardinality(S) = Cardinality(S)
           /\ \A k : API!Best(k, S) = Best(k, S) /\ API!Lesser(k, Cardinality(S)) = Lesser(k, Cardinality(S))
<1>1. \A T : API!Cardinality(T) = Cardinality(T)
  BY DEF API!Cardinality, Cardinality
<1>2. \A T, c : API!Above(T, c) = Above(T, c)
  BY DEF API!Above, Above, API!Better, Better
<1>3. QED
  BY <1>1, <1>2 DEF API!Best, Best, API!Lesser, Lesser

\* A reply that the store may give, on an index that stays as it is.
LEMMA GraphAnswers ==
    ASSUME IInv, UNCHANGED <<nodes, index>>, NEW q \in Vectors, NEW k \in Counts,
           NEW b \in 0..Capacity, NEW R \in SUBSET API!Scored(q),
           reply' = API!Found(q, k, b, R),
           Cardinality(R) = Lesser(k, Count),
           b >= Count => R = Best(k, API!Scored(q))
    PROVE  API!Next
<1> DEFINE A == API!Scored(q)
<1>1. Cardinality(A) = Count
  BY NodesAreItems
<1> HIDE DEF A
<1>2. /\ API!Cardinality(A) = Count /\ API!Cardinality(R) = Cardinality(R)
      /\ API!Best(k, A) = Best(k, A) /\ API!Lesser(k, Count) = Lesser(k, Count)
  BY <1>1, SameRanking
<1>3. R \in API!Acceptable(k, b, A)
  <2>1. R \in SUBSET A
    BY DEF A
  <2>2. API!Cardinality(R) = API!Lesser(k, API!Cardinality(A))
    BY <1>2
  <2>3. b >= API!Cardinality(A) => R = API!Best(k, A)
    BY <1>2 DEF A
  <2>4. QED
    BY <2>1, <2>2, <2>3 DEF API!Acceptable
<1>4. API!Answer(q, k, b)
  BY <1>3 DEF API!Answer, A
<1>5. QED
  BY <1>4 DEF API!Next

\* search() returns the best of a full queue: as many results as were asked
\* for, and the exact ones when the queue has room for every node.
LEMMA AnswerAnswers ==
    ASSUME IInv, RankInv, FillInv, SearchInv, Answer
    PROVE  API!Next
<1> DEFINE q == call.query
           k == call.count
           b == call.ef
           W == Lesser(k, size)
           S == ScoredAll(q, 0..(Count - 1))
           R == Results(Best(W, nearest))
<1>1. /\ pc = "search" /\ LayerDone /\ ~ Adding /\ UNCHANGED <<nodes, index>>
      /\ reply' = API!Found(q, k, b, R)
  BY DEF Answer, LayerDone, committed, Return
<1>2. /\ call \in Calls /\ call.op = "search" /\ q \in Vectors /\ k \in Counts /\ k \in Nat
      /\ b \in 0..Capacity /\ b \in Nat /\ b >= W /\ call.floor = 0
  <2>1. call \in Calls
    BY <1>1, WalkFacts
  <2>2. call.op = "search"
    BY <1>1, <2>1 DEF Calls, Adding
  <2>3. QED
    BY <2>1, <2>2, DataAssumption, ConfigAssumption DEF SearchInv, Calls
<1>3. layer = 0
  BY <1>1, <1>2, WalkFacts DEF IInv, WalkInv, PlaceInv
<1>4. Count = size /\ size \in Nat
  BY <1>1, CountIsNat DEF IInv, GraphInv
<1>5. Cardinality(nearest) = b
  BY <1>1, <1>3, FilledUp
<1>6. Rankable(S) /\ Cardinality(S) = Count /\ IsFiniteSet(S)
  BY <1>2, AllScored DEF Rankable
<1>7. nearest \in SUBSET S
  BY <1>1 DEF IInv, WalkInv, QueueInv, StageInv, ScoredAll
<1> HIDE DEF S
<1>8. Rankable(nearest)
  BY <1>6, <1>7, RankableSubset
<1>9. W \in Nat /\ Lesser(W, b) = W
  BY <1>2, <1>4 DEF Lesser
<1>10. /\ Best(W, nearest) \in SUBSET nearest /\ Cardinality(Best(W, nearest)) = W
  BY <1>5, <1>8, <1>9, BestSubset, BestCardinality
<1>11. Cardinality(R) = Lesser(k, Count)
  BY <1>4, <1>8, <1>10, ResultsOrdered
<1>12. API!Scored(q) = Results(S)
  BY <1>2, NodesAreItems DEF S
<1>13. R \in SUBSET API!Scored(q)
  BY <1>7, <1>10, <1>12 DEF Results
<1>14. ASSUME b >= Count PROVE R = Best(k, API!Scored(q))
  <2>1. Cardinality(nearest) <= Cardinality(S)
    BY <1>6, <1>7, FS_Subset
  <2>2. Cardinality(S) = Cardinality(nearest)
    BY <1>2, <1>4, <1>5, <1>6, <1>14, <2>1
  <2>3. nearest = S
    BY <1>6, <1>7, <2>2, FS_Subset
  <2>4. Best(W, nearest) = Best(k, S)
    BY <1>2, <1>4, <1>6, <2>3, BestWanted
  <2>5. QED
    BY <1>6, <1>12, <2>4, ResultsOfBest
<1> HIDE DEF q, k, b, R
<1>15. QED
  BY <1>1, <1>2, <1>11, <1>13, <1>14, GraphAnswers

\* Nothing is the answer when nothing was asked for, or nothing is there.
LEMMA NothingAnswers ==
    ASSUME IInv, NEW q \in Vectors, NEW k \in Counts, NEW b, SearchNothing(q, k, b)
    PROVE  API!Next
<1>1. /\ k = 0 \/ size = 0
      /\ pc = "idle" /\ reply' = API!Found(q, k, 0, {}) /\ UNCHANGED <<nodes, index>>
  BY DEF SearchNothing, Refuse, committed
<1>2. ~ Adding
  BY <1>1 DEF IInv, WalkInv, StageInv, NoCall, Adding
<1>3. Count = size /\ size \in Nat /\ k \in Nat
  BY <1>2, CountIsNat, DataAssumption DEF IInv, GraphInv
<1>4. Cardinality({}) = Lesser(k, Count)
  BY <1>1, <1>3, FS_EmptySet DEF Lesser
<1>5. Rankable(API!Scored(q)) /\ Cardinality(API!Scored(q)) = Count
  BY NodesAreItems
<1>6. ASSUME 0 >= Count PROVE {} = Best(k, API!Scored(q))
  <2>1. API!Scored(q) = {}
    BY <1>3, <1>5, <1>6, FS_EmptySet DEF Rankable
  <2>2. QED
    BY <2>1, BestSubset
<1>7. 0 \in 0..Capacity
  BY ConfigAssumption
<1>8. QED
  BY <1>1, <1>4, <1>6, <1>7, GraphAnswers

\* The commit of add() is the insertion.
LEMMA CommitAdds ==
    ASSUME IInv, Commit
    PROVE  API!Next
<1> DEFINE i == nodes[Inserted].id
           v == nodes[Inserted].vector
<1>1. /\ reply' = API!Stored(i)
      /\ index' = [j \in DOMAIN index \cup {i} |-> IF j = i THEN Inserted ELSE index[j]]
  BY DEF Commit, Return
<1>2. Adding /\ i \notin DOMAIN index /\ size > 0
  BY DEF Commit, IInv, StagedInv, CallInv
<1>3. Inserted = Count /\ Count \in Nat /\ Inserted \in 0..(size - 1)
  BY <1>2, CountIsNat DEF IInv, GraphInv, Inserted
<1>4. \A n \in 0..Inserted : nodes'[n].vector = nodes[n].vector
  <2>1. ASSUME NEW n \in 0..Inserted PROVE nodes'[n].vector = nodes[n].vector
    <3>1. n \in 0..(size - 1)
      BY DEF Inserted
    <3>2. nodes[n] \in [id : Ids, vector : Vectors,
                        links : [0..draws[n] -> SUBSET (0..(size - 1))]]
      BY <3>1, NodeFacts
    <3>3. nodes'[n] = [nodes[n] EXCEPT !.links =
                          [l \in DOMAIN nodes[n].links |-> StagedLinks(n, l)]]
      BY DEF Commit
    <3>4. QED
      BY <3>2, <3>3
  <2>2. QED
    BY <2>1
<1>5. i \in Ids /\ v \in Vectors
  BY <1>3, NodeFacts
<1>6. \A j \in DOMAIN index : index[j] \in 0..Inserted
  BY <1>3 DEF IInv, GraphInv, IndexInv
<1> HIDE DEF i
<1>7. /\ DOMAIN index' = DOMAIN index \cup {i} /\ index'[i] = Inserted
      /\ \A j \in DOMAIN index : index'[j] = index[j] /\ j # i
  BY <1>1, <1>2
<1>8. [j \in DOMAIN index' |-> nodes'[index'[j]].vector]
        = [j \in DOMAIN index \cup {i} |-> IF j = i THEN v ELSE nodes[index[j]].vector]
  <2>1. \A j \in DOMAIN index \cup {i} :
          nodes'[index'[j]].vector = IF j = i THEN v ELSE nodes[index[j]].vector
    BY <1>3, <1>4, <1>6, <1>7
  <2>2. QED
    BY <2>1, <1>7
<1>9. API!Add(i, v)
  BY <1>1, <1>2, <1>8 DEF API!Add
<1>10. \E w \in Vectors : API!Add(i, w)
  <2>1. PICK w \in Vectors : w = v
    BY <1>5
  <2>2. QED
    BY <1>9, <2>1 DEF API!Add
<1>11. QED
  BY <1>5, <1>10 DEF API!Next

\* The items stay when the graph does.
LEMMA ItemsKept ==
    ASSUME IInv, Graph' = Graph
    PROVE  UNCHANGED [i \in DOMAIN index |-> nodes[index[i]].vector]
<1> DEFINE G == [n \in 0..(Count - 1) |-> nodes[n]]
<1>1. G' = G /\ index' = index
  BY DEF Graph
<1>2. DOMAIN G' = 0..(Count' - 1) /\ \A n \in 0..(Count' - 1) : G'[n] = nodes'[n]
  OBVIOUS
<1>3. DOMAIN G = 0..(Count - 1) /\ \A n \in 0..(Count - 1) : G[n] = nodes[n]
  OBVIOUS
<1> HIDE DEF G
<1>4. \A n \in 0..(Count - 1) : nodes'[n] = nodes[n]
  BY <1>1, <1>2, <1>3
<1>5. \A i \in DOMAIN index : index[i] \in 0..(Count - 1)
  BY DEF IInv, GraphInv, IndexInv
<1>6. QED
  BY <1>1, <1>4, <1>5

LEMMA StepSimulates ==
    ASSUME IInv, RankInv, FillInv, SearchInv, Next
    PROVE  [API!Next]_API!vars
<1> USE DEF API!vars
<1>1. CASE RefuseInvalid
  BY <1>1 DEF RefuseInvalid, Refuse, committed, API!Next, API!Throw
<1>2. ASSUME NEW i \in Ids, RefuseDuplicate(i) PROVE API!Next
  BY <1>2 DEF RefuseDuplicate, Refuse, committed, API!Next, API!RefuseDuplicate
<1>3. ASSUME NEW b \in Breadths, SetEfSearch(b) PROVE API!Next
  BY <1>3 DEF SetEfSearch, committed, API!Next, API!Start
<1>4. ASSUME NEW i \in Ids, NEW v \in Vectors, BeginAdd(i, v) PROVE API!Next
  BY <1>4, GraphKeptByBeginAdd, ItemsKept DEF BeginAdd, API!Next, API!Start
<1>5. ASSUME NEW v \in Vectors, NEW k \in Counts, NEW b \in Breadths \cup {efSearch},
             SearchNothing(v, k, b) \/ BeginSearch(v, k, b)
      PROVE  API!Next
  BY <1>5, NothingAnswers DEF BeginSearch, committed, API!Next, API!Start
<1>6. CASE Approach \/ Descend \/ BeginLayer \/ Expand \/ \E n \in todo : Visit(n)
  BY <1>6 DEF Approach, Descend, BeginLayer, Expand, Visit, committed
<1>7. CASE Link
  BY <1>7, GraphKeptByLink, ItemsKept DEF Link
<1>8. CASE FailAdd
  BY <1>8, GraphKeptByFailAdd, ItemsKept DEF FailAdd, Return, API!Next, API!Throw
<1>9. CASE FailSearch
  BY <1>9 DEF FailSearch, Return, committed, API!Next, API!Throw
<1>10. CASE Step
  BY <1>6, <1>7, <1>10, CommitAdds, AnswerAnswers DEF Step
<1>11. QED
  BY <1>1, <1>2, <1>3, <1>4, <1>5, <1>8, <1>9, <1>10 DEF Next

\* The approximate index is a vector store, for every graph it can build: an
\* insertion takes effect when it commits and not before, one that throws
\* never shows, a search returns min(count, size) stored vectors with their
\* scores, and the exact Top-K when its breadth reaches the size.
THEOREM ImplementsVectorStore == Spec => ImplementsStore
<1>1. Init => API!Init /\ SearchInv
  BY DEF Init, API!Init, SearchInv, NoCall
<1>2. IInv /\ RankInv /\ FillInv /\ SearchInv /\ [Next]_vars => [API!Next]_API!vars
  <2> SUFFICES ASSUME IInv, RankInv, FillInv, SearchInv, [Next]_vars
               PROVE  [API!Next]_API!vars
    OBVIOUS
  <2>1. CASE UNCHANGED vars
    BY <2>1 DEF vars, committed, API!vars
  <2>2. QED
    BY <2>1, StepSimulates
<1>3. QED
  BY <1>1, <1>2, SearchStep, Inductive, Filling, PTL DEF Spec, ImplementsStore, API!Spec

----------------------------------------------------------------------------
(* What select_neighbors() returns *)

\* The test that the walk makes when it comes to c, having kept A.
Kept(c, A, limit, required) ==
    /\ c.node \notin required
    /\ Cardinality(required) + Cardinality(A) < limit
    /\ Diverse(c, required \cup NodesOf(A))

\* D is what a walk over C keeps.
Greedy(C, D, limit, required) ==
    D \in SUBSET C /\ \A c \in C : c \in D <=> Kept(c, Above(D, c), limit, required)

LEMMA DiversifiedAsGreedy ==
    ASSUME NEW C, NEW limit, NEW required
    PROVE  Diversified(C, limit, required) = UNION {D \in SUBSET C : Greedy(C, D, limit, required)}
  BY DEF Diversified, Greedy, Kept, KeptBefore

\* A walk has one outcome: two would differ first at a node that both meet
\* with the same nodes kept.
LEMMA GreedyUnique ==
    ASSUME NEW C, Rankable(C), NEW limit, NEW required, NEW D, NEW E,
           Greedy(C, D, limit, required), Greedy(C, E, limit, required)
    PROVE  D = E
<1> DEFINE T == {c \in C : (c \in D) # (c \in E)}
<1>1. D \in SUBSET C /\ E \in SUBSET C
  BY DEF Greedy
<1>2. ASSUME T # {} PROVE FALSE
  <2>1. PICK c \in T : \A d \in T \ {c} : Better(c, d)
    <3>1. T \in SUBSET C
      OBVIOUS
    <3> HIDE DEF T
    <3>2. QED
      BY <1>2, <3>1, FirstExists
  <2>2. \A d \in C : Better(d, c) => d \notin T
    <3>1. ASSUME NEW d \in C, Better(d, c), d \in T PROVE FALSE
      <4>1. d # c
        BY <3>1, <2>1, BetterOrder
      <4>2. Better(c, d)
        BY <2>1, <3>1, <4>1
      <4>3. QED
        BY <2>1, <3>1, <4>2, BetterOrder
    <3>2. QED
      BY <3>1
  <2>3. Above(D, c) = Above(E, c)
    BY <1>1, <2>2 DEF Above
  <2>4. c \in D <=> c \in E
    BY <2>1, <2>3 DEF Greedy
  <2>5. QED
    BY <2>1, <2>4
<1>3. QED
  BY <1>1, <1>2

\* A walk has an outcome: the longest beginning of C that a walk can be made
\* over is C, since another step could follow any shorter one.
LEMMA GreedyExists ==
    ASSUME NEW C, Rankable(C), NEW limit, NEW required
    PROVE  \E D : Greedy(C, D, limit, required)
<1> DEFINE Begins(U) == /\ U \in SUBSET C
                        /\ \A c \in U : \A d \in C : Better(d, c) => d \in U
           Walks == {U \in SUBSET C : Begins(U) /\ \E D : Greedy(U, D, limit, required)}
           Rests == {C \ U : U \in Walks}
<1>1. {} \in Walks
  <2>1. Greedy({}, {}, limit, required)
    BY DEF Greedy
  <2>2. QED
    BY <2>1
<1>2. Rests \subseteq SUBSET C /\ Rests # {}
  BY <1>1
<1>3. IsFiniteSet(C)
  BY DEF Rankable
<1> HIDE DEF Rests
<1>4. PICK m \in Rests : \A n \in Rests : n \subseteq m => n = m
  BY <1>2, <1>3, MinimalSet
<1>5. PICK U \in Walks : m = C \ U
  BY DEF Rests
<1>6. PICK D : Greedy(U, D, limit, required)
  BY <1>5
<1>7. Begins(U)
  BY <1>5
<1>8. ASSUME m # {} PROVE FALSE
  <2>1. m \in SUBSET C
    BY <1>5
  <2>2. PICK c \in m : \A d \in m \ {c} : Better(c, d)
    BY <1>8, <2>1, FirstExists
  <2>3. c \in C /\ c \notin U
    BY <2>2, <1>5
  <2> DEFINE V == U \cup {c}
             E == IF Kept(c, Above(D, c), limit, required) THEN D \cup {c} ELSE D
  <2>4. Begins(V)
    <3>1. ASSUME NEW d \in C, Better(d, c) PROVE d \in U
      <4>1. d # c /\ ~ Better(c, d)
        BY <2>3, <3>1, BetterOrder
      <4>2. d \notin m
        BY <2>2, <4>1
      <4>3. QED
        BY <1>5, <4>2
    <3>2. QED
      BY <1>7, <2>3, <3>1
  <2>5. D \in SUBSET U
    BY <1>6 DEF Greedy
  <2>6. \A e \in U : Above(E, e) = Above(D, e)
    <3>1. \A e \in U : ~ Better(c, e)
      BY <1>7, <2>3
    <3>2. QED
      BY <3>1 DEF Above
  <2>7. Above(E, c) = Above(D, c)
    <3>1. ~ Better(c, c)
      BY <2>3, BetterOrder
    <3>2. QED
      BY <3>1 DEF Above
  <2>8. c \notin D
    BY <2>3, <2>5
  <2>9. \A e \in U : e \in E <=> e \in D
    BY <2>3
  <2>10. c \in E <=> Kept(c, Above(E, c), limit, required)
    BY <2>7, <2>8
  <2>11. \A e \in U : e \in E <=> Kept(e, Above(E, e), limit, required)
    BY <1>6, <2>6, <2>9 DEF Greedy
  <2>12. E \in SUBSET V
    BY <2>5
  <2> HIDE DEF E
  <2>13. Greedy(V, E, limit, required)
    BY <2>10, <2>11, <2>12 DEF Greedy
  <2>14. V \in Walks
    BY <1>7, <2>3, <2>4, <2>13
  <2>15. C \ V \in Rests /\ C \ V \subseteq m
    BY <2>14, <1>5 DEF Rests
  <2>16. QED
    BY <1>4, <2>2, <2>3, <2>15
<1>9. U = C
  BY <1>5, <1>7, <1>8
<1>10. QED
  BY <1>6, <1>9

\* Diversified is what the greedy walk keeps.
LEMMA DiversifiedIsGreedy ==
    ASSUME NEW C, Rankable(C), NEW limit, NEW required
    PROVE  Greedy(C, Diversified(C, limit, required), limit, required)
<1>1. PICK D : Greedy(C, D, limit, required)
  BY GreedyExists
<1>2. \A E : Greedy(C, E, limit, required) => E = D
  BY <1>1, GreedyUnique
<1>3. Diversified(C, limit, required) = D
  <2>1. D \in SUBSET C
    BY <1>1 DEF Greedy
  <2>2. {E \in SUBSET C : Greedy(C, E, limit, required)} = {D}
    BY <1>1, <1>2, <2>1
  <2>3. UNION {E \in SUBSET C : Greedy(C, E, limit, required)} = D
    BY <2>2
  <2>4. QED
    BY <2>3, DiversifiedAsGreedy
<1>4. QED
  BY <1>1, <1>3

\* Candidates of different nodes are as many as their nodes.
LEMMA NodesOfSize ==
    ASSUME NEW C, IsFiniteSet(C), \A c, d \in C : c.node = d.node => c = d,
           NEW T \in SUBSET C
    PROVE  /\ IsFiniteSet(T) /\ Cardinality(T) \in Nat
           /\ IsFiniteSet(NodesOf(T)) /\ Cardinality(NodesOf(T)) = Cardinality(T)
<1> DEFINE f == [c \in T |-> c.node]
<1>1. IsFiniteSet(T) /\ Cardinality(T) \in Nat
  BY FS_Subset, FS_CardinalityType
<1>2. f \in Surjection(T, NodesOf(T))
  BY DEF Surjection, NodesOf
<1>3. f \in Injection(T, NodesOf(T))
  BY <1>2 DEF Injection, Surjection, IsInjective
<1>4. QED
  BY <1>1, <1>2, <1>3, FS_Surjection

\* The sizes of parts that do not overlap add up.
LEMMA DisjointUnion ==
    ASSUME NEW S, NEW T, IsFiniteSet(S), IsFiniteSet(T), \A x \in S : x \notin T
    PROVE  /\ IsFiniteSet(S \cup T)
           /\ Cardinality(S \cup T) = Cardinality(S) + Cardinality(T)
<1>1. Cardinality(S \cap T) = 0
  <2>1. S \cap T = {}
    OBVIOUS
  <2>2. QED
    BY <2>1, FS_EmptySet
<1>2. Cardinality(S) \in Nat /\ Cardinality(T) \in Nat
  BY FS_CardinalityType
<1>3. /\ IsFiniteSet(S \cup T)
      /\ Cardinality(S \cup T) = Cardinality(S) + Cardinality(T) - Cardinality(S \cap T)
  BY FS_Union
<1>4. QED
  BY <1>1, <1>2, <1>3

\* A selection never exceeds its limit, and leaves no slot unused that a
\* candidate could take.
LEMMA SelectionSize ==
    ASSUME NEW C, Rankable(C), \A c, d \in C : c.node = d.node => c = d,
           NEW limit \in Nat, NEW required, IsFiniteSet(required), Cardinality(required) <= limit
    PROVE  LET chosen == SelectNeighbors(C, limit, required)
           IN  /\ IsFiniteSet(chosen) /\ Cardinality(chosen) <= limit
               /\ Cardinality(required \cup NodesOf(C)) >= limit => Cardinality(chosen) = limit
<1> DEFINE D == Diversified(C, limit, required)
           pruned == {c \in C \ D : c.node \notin required}
           room == limit - Cardinality(required) - Cardinality(D)
           fill == Best(room, pruned)
           chosen == SelectNeighbors(C, limit, required)
<1>1. Greedy(C, D, limit, required)
  BY DiversifiedIsGreedy
<1>2. IsFiniteSet(C) /\ Cardinality(required) \in Nat
  BY FS_CardinalityType DEF Rankable
<1> HIDE DEF D
<1>3. D \in SUBSET C /\ \A c \in D : c.node \notin required
  BY <1>1 DEF Greedy, Kept
<1>4. /\ IsFiniteSet(D) /\ Cardinality(D) \in Nat
      /\ IsFiniteSet(NodesOf(D)) /\ Cardinality(NodesOf(D)) = Cardinality(D)
  BY <1>2, <1>3, NodesOfSize
<1>5. room \in Nat
  <2>1. CASE D = {}
    BY <2>1, <1>2, FS_EmptySet
  <2>2. CASE D # {}
    <3>1. PICK f \in D : \A d \in D \ {f} : Better(d, f)
      BY <1>3, <2>2, LastExists
    <3>2. Above(D, f) = D \ {f}
      BY <1>3, <3>1, BetterOrder DEF Above
    <3>3. Cardinality(Above(D, f)) = Cardinality(D) - 1
      BY <1>4, <3>1, <3>2, FS_RemoveElement
    <3>4. Cardinality(required) + Cardinality(Above(D, f)) < limit
      BY <1>1, <1>3, <3>1 DEF Greedy, Kept
    <3>5. QED
      BY <1>2, <1>4, <3>3, <3>4
  <2>3. QED
    BY <2>1, <2>2
<1>6. pruned \in SUBSET C /\ fill \in SUBSET pruned
  BY BestSubset
<1>7. Rankable(pruned)
  BY <1>6, RankableSubset
<1>8. /\ IsFiniteSet(NodesOf(pruned)) /\ Cardinality(NodesOf(pruned)) = Cardinality(pruned)
      /\ Cardinality(pruned) \in Nat
  BY <1>2, <1>6, NodesOfSize
<1>9. /\ IsFiniteSet(NodesOf(fill)) /\ Cardinality(NodesOf(fill)) = Cardinality(fill)
      /\ Cardinality(fill) \in Nat
  <2>1. fill \in SUBSET C
    BY <1>6
  <2>2. QED
    BY <1>2, <2>1, NodesOfSize
<1>10. Cardinality(fill) = Lesser(room, Cardinality(pruned))
  BY <1>5, <1>7, BestCardinality
<1>11. /\ \A n \in required : n \notin NodesOf(D)
       /\ \A n \in required \cup NodesOf(D) : n \notin NodesOf(fill)
  BY <1>3, <1>6 DEF NodesOf
<1>12. room = limit - Cardinality(required) - Cardinality(D)
  OBVIOUS
<1>13. /\ IsFiniteSet(required \cup NodesOf(D))
       /\ Cardinality(required \cup NodesOf(D)) = Cardinality(required) + Cardinality(D)
  <2>1. \A n \in required : n \notin NodesOf(D)
    BY <1>11
  <2>2. /\ IsFiniteSet(required \cup NodesOf(D))
        /\ Cardinality(required \cup NodesOf(D)) = Cardinality(required) + Cardinality(NodesOf(D))
    <3>1. IsFiniteSet(NodesOf(D))
      BY <1>4
    <3>2. QED
      BY <2>1, <3>1, DisjointUnion
  <2>3. QED
    BY <2>2, <1>4
<1>14. chosen = (required \cup NodesOf(D)) \cup NodesOf(fill)
  BY DEF SelectNeighbors, D
<1> HIDE DEF room
<1>15. ASSUME fill = pruned PROVE chosen = required \cup NodesOf(C)
  BY <1>3, <1>14, <1>15 DEF NodesOf
<1> HIDE DEF pruned
<1>16. room >= Cardinality(pruned) => fill = pruned
  <2>1. room \in Int
    BY <1>5
  <2>2. QED
    BY <1>7, <1>8, <2>1, BestAll
<1> HIDE DEF chosen, fill
<1>17. /\ IsFiniteSet(chosen)
       /\ Cardinality(chosen) = Cardinality(required) + Cardinality(D) + Cardinality(fill)
  <2> DEFINE R == required \cup NodesOf(D)
             F == NodesOf(fill)
  <2>1. IsFiniteSet(R) /\ IsFiniteSet(F) /\ (\A n \in R : n \notin F) /\ chosen = R \cup F
    BY <1>9, <1>11, <1>13, <1>14
  <2>2. Cardinality(R) = Cardinality(required) + Cardinality(D) /\ Cardinality(F) = Cardinality(fill)
    BY <1>9, <1>13
  <2> HIDE DEF R, F
  <2>3. IsFiniteSet(chosen) /\ Cardinality(chosen) = Cardinality(R) + Cardinality(F)
    BY <2>1, DisjointUnion
  <2>4. QED
    BY <2>2, <2>3
<1>18. Cardinality(chosen) <= limit
  BY <1>2, <1>4, <1>5, <1>8, <1>9, <1>10, <1>17, <1>12 DEF Lesser
<1>19. ASSUME Cardinality(required \cup NodesOf(C)) >= limit PROVE Cardinality(chosen) = limit
  <2>1. CASE room >= Cardinality(pruned)
    <3>1. Cardinality(chosen) \in Nat
      BY <1>17, FS_CardinalityType
    <3>2. QED
      BY <2>1, <3>1, <1>15, <1>16, <1>18, <1>19
  <2>2. CASE room < Cardinality(pruned)
    BY <2>2, <1>2, <1>4, <1>5, <1>8, <1>10, <1>17, <1>12 DEF Lesser
  <2>3. QED
    BY <2>1, <2>2, <1>5, <1>8
<1>20. QED
  BY <1>17, <1>18, <1>19 DEF chosen

----------------------------------------------------------------------------
(* The sizes of lists, and the links that lead back *)

\* The node in the making ranks among complete ones: its ID is a new one.
LEMMA ScoredWithInserted ==
    ASSUME IInv, Adding, NEW v \in Vectors, NEW N, N \subseteq 0..(Count - 1)
    PROVE  Rankable(ScoredAll(v, N \cup {Inserted}))
<1> DEFINE S == ScoredAll(v, N)
           c == Scored(v, Inserted)
<1>1. Rankable(S)
  BY ScoredRankable DEF IInv
<1>2. ScoredAll(v, N \cup {Inserted}) = S \cup {c}
  BY DEF ScoredAll
<1>3. Inserted \in 0..(size - 1)
  BY CountIsNat DEF IInv, GraphInv, Inserted, CallInv
<1>4. c.id \in Int /\ c.score \in Int
  BY <1>3, NodeFacts, DataAssumption DEF Scored
<1>5. ASSUME NEW d \in S PROVE d.id # c.id
  <2>1. PICK n \in N : d = Scored(v, n)
    BY DEF ScoredAll
  <2>2. nodes[n].id \in DOMAIN index /\ nodes[Inserted].id \notin DOMAIN index
    BY DEF IInv, GraphInv, IndexInv, IdsIndexed, StagedInv
  <2>3. QED
    BY <2>1, <2>2 DEF Scored
<1> HIDE DEF S, c
<1>6. IsFiniteSet(S \cup {c})
  BY <1>1, FS_AddElement DEF Rankable
<1>7. Rankable(S \cup {c})
  BY <1>1, <1>4, <1>5, <1>6 DEF Rankable
<1>8. QED
  BY <1>2, <1>7

\* A list that takes the new node in stays within its cap, and is full if it
\* loses a neighbour for it.
LEMMA RelinkedSize ==
    ASSUME IInv, Adding, NEW n \in 0..(Count - 1), NEW l \in 0..draws[n]
    PROVE  /\ IsFiniteSet(Relinked(n, l)) /\ Cardinality(Relinked(n, l)) <= DegreeCap(l)
           /\ \/ Relinked(n, l) = nodes[n].links[l] \cup {Inserted}
              \/ Cardinality(Relinked(n, l)) = DegreeCap(l)
<1> DEFINE old == nodes[n].links[l]
           links == old \cup {Inserted}
           C == ScoredAll(nodes[n].vector, links)
           required == IF l = 0 THEN {n - 1, n + 1} \cap (0..Inserted) ELSE {}
           cap == DegreeCap(l)
<1>1. Count \in Nat /\ n \in 0..(size - 1) /\ n \in Nat
  BY CountIsNat DEF IInv, GraphInv
<1>2. nodes[n].vector \in Vectors /\ draws[n] \in Nat
  BY <1>1, NodeFacts
<1>3. old \subseteq 0..(Count - 1)
  <2>1. old \subseteq 0..(size - 1)
    BY <1>1, NodeFacts
  <2>2. \A m \in old : m < Count
    BY DEF IInv, GraphInv, LinksInv
  <2>3. QED
    BY <1>1, <2>1, <2>2
<1>4. cap \in Nat /\ (l = 0 => cap >= 4)
  BY ConfigAssumption DEF DegreeCap
<1>5. IsFiniteSet(required) /\ Cardinality(required) \in Nat /\ Cardinality(required) <= cap
  <2>1. IsFiniteSet({n - 1, n + 1}) /\ Cardinality({n - 1, n + 1}) <= 2
    <3>1. IsFiniteSet({n - 1}) /\ Cardinality({n - 1}) = 1
      BY FS_Singleton
    <3>2. {n - 1, n + 1} = {n - 1} \cup {n + 1}
      OBVIOUS
    <3>3. QED
      BY <3>1, <3>2, FS_AddElement
  <2>2. {n - 1, n + 1} \cap (0..Inserted) \in SUBSET {n - 1, n + 1}
    OBVIOUS
  <2>3. CASE l = 0
    <3>1. required \in SUBSET {n - 1, n + 1}
      BY <2>2, <2>3
    <3> HIDE DEF required
    <3>2. IsFiniteSet(required) /\ Cardinality(required) <= Cardinality({n - 1, n + 1})
      BY <2>1, <3>1, FS_Subset
    <3>3. Cardinality(required) \in Nat /\ Cardinality({n - 1, n + 1}) \in Nat
      BY <2>1, <3>2, FS_CardinalityType
    <3> HIDE DEF cap
    <3>4. QED
      BY <1>4, <2>1, <2>3, <3>2, <3>3
  <2>4. CASE l # 0
    <3>1. required = {}
      BY <2>4
    <3>2. QED
      BY <1>4, <3>1, FS_EmptySet
  <2>5. QED
    BY <2>3, <2>4
<1>6. Rankable(C)
  BY <1>2, <1>3, ScoredWithInserted
<1>7. \A c, d \in C : c.node = d.node => c = d
  <2>1. \A c \in C : \E m \in links : c = Scored(nodes[n].vector, m)
    BY DEF ScoredAll
  <2>2. \A m : Scored(nodes[n].vector, m).node = m
    BY DEF Scored
  <2> HIDE DEF C, links
  <2>3. QED
    BY <2>1, <2>2
<1>8. NodesOf(C) = links
  BY NodesOfScored
<1>9. IsFiniteSet(links)
  <2>1. IsFiniteSet(0..(Count - 1))
    BY <1>1, FS_Interval
  <2>2. IsFiniteSet(old)
    BY <1>3, <2>1, FS_Subset
  <2>3. QED
    BY <2>2, FS_AddElement
<1>10. Relinked(n, l) = IF Cardinality(links) <= cap THEN links
                        ELSE SelectNeighbors(C, cap, required)
  BY DEF Relinked
<1> HIDE DEF C, required, cap, links
<1>11. CASE Cardinality(links) <= cap
  BY <1>9, <1>10, <1>11 DEF links, cap
<1>12. CASE ~ (Cardinality(links) <= cap)
  <2> DEFINE chosen == SelectNeighbors(C, cap, required)
  <2>1. /\ IsFiniteSet(chosen) /\ Cardinality(chosen) <= cap
        /\ Cardinality(required \cup NodesOf(C)) >= cap => Cardinality(chosen) = cap
    BY <1>4, <1>5, <1>6, <1>7, SelectionSize
  <2>2. IsFiniteSet(required \cup links) /\ links \in SUBSET (required \cup links)
    BY <1>5, <1>9, FS_Union
  <2>3. Cardinality(links) <= Cardinality(required \cup links)
    BY <2>2, FS_Subset
  <2>4. Cardinality(links) \in Nat /\ Cardinality(required \cup links) \in Nat
    BY <1>9, <2>2, FS_CardinalityType
  <2>5. Cardinality(required \cup NodesOf(C)) >= cap
    BY <1>4, <1>8, <1>12, <2>3, <2>4
  <2>6. QED
    BY <1>10, <1>12, <2>1, <2>5 DEF cap
<1>13. QED
  BY <1>11, <1>12

\* The new node's list is within its cap too, with its predecessor.
LEMMA NewLinksSize ==
    ASSUME IInv, Adding, pc = "search"
    PROVE  Cardinality(NewLinks) <= DegreeCap(layer)
<1> DEFINE chosen == SelectNeighbors(nearest, M, {})
<1>1. Rankable(nearest)
  BY QueuesRankable
<1>2. \A c, d \in nearest : c.node = d.node => c = d
  BY DEF IInv, WalkInv, QueueInv
<1>3. IsFiniteSet({}) /\ Cardinality({}) = 0 /\ M \in Nat /\ M >= 2
  BY FS_EmptySet, ConfigAssumption
<1>4. IsFiniteSet(chosen) /\ Cardinality(chosen) <= M
  BY <1>1, <1>2, <1>3, SelectionSize
<1> HIDE DEF chosen
<1>5. Cardinality(chosen) \in Nat
  BY <1>4, FS_CardinalityType
<1>6. Cardinality(chosen \cup {Inserted - 1}) <= Cardinality(chosen) + 1
  BY <1>4, <1>5, FS_AddElement
<1>7. Cardinality(chosen \cup {Inserted - 1}) <= 2 * M
  <2>1. Cardinality(chosen \cup {Inserted - 1}) \in Nat
    BY <1>4, FS_AddElement, FS_CardinalityType
  <2>2. QED
    BY <1>3, <1>4, <1>5, <1>6, <2>1
<1>8. QED
  BY <1>3, <1>4, <1>7 DEF NewLinks, DegreeCap, chosen

\* No list that is there or that is staged exceeds its cap.
CapInv ==
    /\ \A n \in 0..(size - 1) : \A l \in 0..draws[n] :
          Cardinality(nodes[n].links[l]) <= DegreeCap(l)
    /\ \A u \in updates : Cardinality(u.links) <= DegreeCap(u.layer)

\* A link has its opposite or leads to a node whose list is full; so will it
\* be for the links of the new node once what add() has staged is there.
BackInv ==
    /\ \A n, m \in 0..(Count - 1) : \A l \in 0..draws[n] :
          m \in nodes[n].links[l] =>
             n \in nodes[m].links[l] \/ Cardinality(nodes[m].links[l]) = DegreeCap(l)
    /\ pc = "descend" => updates = {}
    /\ pc = "search" => \A u \in updates : u.layer > layer
    /\ \A u \in updates :
          /\ u.node \in nodes[Inserted].links[u.layer]
          /\ \/ u.links = nodes[u.node].links[u.layer] \cup {Inserted}
             \/ Cardinality(u.links) = DegreeCap(u.layer)
    /\ Adding => \A l \in 0..draws[Inserted] : \A m \in nodes[Inserted].links[l] :
          \E u \in updates : u.node = m /\ u.layer = l

\* The steps that leave the lists and what is staged alone.
LEMMA DegreeStable ==
    ASSUME CapInv, BackInv, UNCHANGED <<nodes, size, draws, updates>>, Adding' <=> Adding,
           updates = {} \/ UNCHANGED <<pc, layer>>
    PROVE  CapInv' /\ BackInv'
<1>1. Count' = Count /\ Inserted' = Inserted
  BY DEF Count, Inserted
<1>2. CapInv'
  BY DEF CapInv, DegreeCap
<1>3. BackInv'
  BY <1>1 DEF BackInv, DegreeCap
<1>4. QED
  BY <1>2, <1>3

\* The new node has no links yet.
LEMMA DegreeBeginAdd ==
    ASSUME IInv, CapInv, BackInv, NEW i \in Ids, NEW v \in Vectors, BeginAdd(i, v)
    PROVE  CapInv' /\ BackInv'
<1>1. /\ call = NoCall /\ ~ Adding /\ Adding' /\ Count = size /\ size \in Nat
      /\ size' = size + 1 /\ draws' = draws /\ updates = {} /\ updates' = {}
  BY CountIsNat DEF BeginAdd, IInv, WalkInv, StageInv, StagedInv, Adding, NoCall, Count, GraphInv
<1>2. Count' = size /\ Inserted' = size
  BY <1>1 DEF Count, Inserted
<1>3. /\ \A n \in 0..(size - 1) : nodes'[n] = nodes[n]
      /\ nodes'[size].links = [l \in 0..draws[rng] |-> {}] /\ rng = size
  <2>1. rng = size
    BY <1>1 DEF IInv, GraphInv, NodesInv
  <2>2. \A n \in 0..size : nodes'[n] =
           IF n = size THEN [id |-> i, vector |-> v, links |-> [l \in 0..draws[rng] |-> {}]]
           ELSE nodes[n]
    BY DEF BeginAdd
  <2>3. size \in 0..size /\ \A n \in 0..(size - 1) : n \in 0..size /\ n # size
    BY <1>1
  <2>4. nodes'[size] = [id |-> i, vector |-> v, links |-> [l \in 0..draws[rng] |-> {}]]
    BY <2>2, <2>3
  <2>5. \A n \in 0..(size - 1) : nodes'[n] = nodes[n]
    BY <2>2, <2>3
  <2>6. QED
    BY <2>1, <2>4, <2>5
<1>4. \A l \in 0..draws[size] : nodes'[size].links[l] = {}
  BY <1>3
<1>5. \A l : Cardinality({}) <= DegreeCap(l)
  BY FS_EmptySet, ConfigAssumption DEF DegreeCap
<1>6. \A n \in 0..size : n \in 0..(size - 1) \/ n = size
  BY <1>1
<1>7. \A n \in 0..size : \A l \in 0..draws[n] : Cardinality(nodes'[n].links[l]) <= DegreeCap(l)
  BY <1>3, <1>4, <1>5, <1>6 DEF CapInv
<1>8. 0..(size' - 1) = 0..size
  BY <1>1
<1>9. CapInv'
  BY <1>1, <1>7, <1>8 DEF CapInv, DegreeCap
<1>10. BackInv'
  BY <1>1, <1>2, <1>3, <1>4 DEF BackInv, DegreeCap
<1>11. QED
  BY <1>9, <1>10

\* The rollback leaves the lists of complete nodes as they were.
LEMMA DegreeFailAdd ==
    ASSUME IInv, CapInv, BackInv, FailAdd
    PROVE  CapInv' /\ BackInv'
<1>1. /\ Adding /\ ~ Adding' /\ size \in Nat /\ size' = size - 1 /\ draws' = draws
      /\ updates' = {} /\ pc' = "idle" /\ Count = size - 1
  BY CountIsNat DEF FailAdd, Return, NoCall, Adding, Count, IInv, GraphInv
<1>2. Count' = Count
  BY <1>1 DEF Count
<1>3. \A n \in 0..(Count - 1) : nodes'[n] = nodes[n] /\ n \in 0..(size - 1)
  BY <1>1 DEF FailAdd
<1>4. CapInv'
  BY <1>1, <1>3 DEF CapInv, DegreeCap
<1>5. BackInv'
  BY <1>1, <1>2, <1>3 DEF BackInv, DegreeCap
<1>6. QED
  BY <1>4, <1>5

\* Each link of the new node has its opposite staged.
LEMMA DegreeLink ==
    ASSUME IInv, CapInv, BackInv, Link
    PROVE  CapInv' /\ BackInv'
<1>1. /\ pc = "search" /\ Adding /\ Adding' /\ Inserted = Count /\ Inserted' = Inserted
      /\ Count \in Nat /\ Count' = Count /\ size = Count + 1
      /\ UNCHANGED <<size, draws>>
      /\ layer \in 0..draws[Inserted] /\ layer \in Nat
      /\ \A n \in NewLinks : n \in 0..(Count - 1) /\ layer \in 0..draws[n]
      /\ \A n \in 0..(Count - 1) : nodes'[n] = nodes[n]
      /\ nodes'[Inserted].links[layer] = NewLinks
      /\ \A l \in 0..draws[Inserted] : l # layer =>
            nodes'[Inserted].links[l] = nodes[Inserted].links[l]
  BY LinkEffect
<1> DEFINE New(n) == [node |-> n, layer |-> layer, links |-> Relinked(n, layer)]
<1>2. updates' = updates \cup {New(n) : n \in NewLinks}
  BY DEF Link
<1>3. ASSUME NEW n \in NewLinks
      PROVE  /\ Cardinality(New(n).links) <= DegreeCap(layer)
             /\ \/ New(n).links = nodes'[n].links[layer] \cup {Inserted}
                \/ Cardinality(New(n).links) = DegreeCap(layer)
  BY <1>1, RelinkedSize
<1>4. Cardinality(NewLinks) <= DegreeCap(layer)
  BY <1>1, NewLinksSize
<1>5. \A n : New(n).node = n /\ New(n).layer = layer
  OBVIOUS
<1> HIDE DEF New
<1>6. CapInv'
  <2>1. \A n \in 0..(size - 1) : n \in 0..(Count - 1) \/ n = Inserted
    BY <1>1
  <2>2. \A n \in 0..(size - 1) : \A l \in 0..draws[n] :
           Cardinality(nodes'[n].links[l]) <= DegreeCap(l)
    BY <1>1, <1>4, <2>1 DEF CapInv
  <2>3. \A u \in updates' : Cardinality(u.links) <= DegreeCap(u.layer)
    BY <1>2, <1>3, <1>5 DEF CapInv
  <2>4. QED
    BY <1>1, <2>2, <2>3 DEF CapInv, DegreeCap
<1>7. \A n, m \in 0..(Count' - 1) : \A l \in 0..draws'[n] :
         m \in nodes'[n].links[l] =>
            n \in nodes'[m].links[l] \/ Cardinality(nodes'[m].links[l]) = DegreeCap(l)
  BY <1>1 DEF BackInv
<1>8. /\ pc' = "descend" => updates' = {}
      /\ pc' = "search" => \A u \in updates' : u.layer > layer'
  <2>1. CASE layer = 0
    BY <2>1 DEF Link
  <2>2. CASE layer # 0
    <3>1. pc' = "search" /\ layer' = layer - 1
      BY <1>1, <2>2 DEF Link
    <3>2. \A u \in updates : u.layer > layer /\ u.layer \in Nat
      BY <1>1 DEF BackInv, IInv, StagedInv, UpdateInv
    <3>3. QED
      BY <1>1, <1>2, <1>5, <3>1, <3>2
  <2>3. QED
    BY <2>1, <2>2
<1>9. ASSUME NEW u \in updates'
      PROVE  /\ u.node \in nodes'[Inserted].links[u.layer]
             /\ \/ u.links = nodes'[u.node].links[u.layer] \cup {Inserted}
                \/ Cardinality(u.links) = DegreeCap(u.layer)
  <2>1. CASE u \in updates
    <3>1. UpdateInv(u) /\ u.layer > layer
      BY <1>1, <2>1 DEF BackInv, IInv, StagedInv
    <3>2. u.node \in 0..(Count - 1) /\ u.layer \in 0..draws[Inserted] /\ u.layer # layer
      <4>1. u.layer \in Nat /\ u.layer <= draws[Inserted] /\ u.node \in 0..(Count - 1)
        BY <3>1 DEF UpdateInv
      <4>2. draws[Inserted] \in Nat
        BY <1>1, NodeFacts
      <4>3. QED
        BY <1>1, <3>1, <4>1, <4>2
    <3>3. /\ u.node \in nodes[Inserted].links[u.layer]
          /\ \/ u.links = nodes[u.node].links[u.layer] \cup {Inserted}
             \/ Cardinality(u.links) = DegreeCap(u.layer)
      BY <2>1 DEF BackInv
    <3>4. QED
      BY <1>1, <3>2, <3>3
  <2>2. CASE \E n \in NewLinks : u = New(n)
    BY <1>1, <1>3, <1>5, <2>2
  <2>3. QED
    BY <1>2, <2>1, <2>2
<1>10. ASSUME NEW l \in 0..draws[Inserted], NEW m \in nodes'[Inserted].links[l]
       PROVE  \E u \in updates' : u.node = m /\ u.layer = l
  <2>1. CASE l = layer
    <3>1. m \in NewLinks
      BY <1>1, <2>1
    <3>2. New(m) \in updates'
      BY <1>2, <3>1
    <3>3. QED
      BY <1>5, <2>1, <3>2
  <2>2. CASE l # layer
    <3>1. m \in nodes[Inserted].links[l]
      BY <1>1, <2>2
    <3>2. \E u \in updates : u.node = m /\ u.layer = l
      BY <1>1, <3>1 DEF BackInv
    <3>3. QED
      BY <1>2, <3>2
  <2>3. QED
    BY <2>1, <2>2
<1>11. BackInv'
  BY <1>1, <1>7, <1>8, <1>9, <1>10 DEF BackInv, DegreeCap
<1>12. QED
  BY <1>6, <1>11

\* A list that gives way to a staged one keeps the links that lead back, or
\* the staged one is full.
LEMMA StagedLinksBack ==
    ASSUME IInv, CapInv, BackInv, pc = "commit", Inserted = Count, Count \in Nat,
           NEW m \in 0..(Count - 1), NEW l \in 0..draws[m], NEW n \in 0..(Count - 1),
           n \in nodes[m].links[l] \/ Cardinality(nodes[m].links[l]) = DegreeCap(l)
    PROVE  n \in StagedLinks(m, l) \/ Cardinality(StagedLinks(m, l)) = DegreeCap(l)
<1> DEFINE old == nodes[m].links[l]
<1>1. CASE StagedLinks(m, l) = old
  BY <1>1
<1>2. ASSUME NEW u \in updates, u.node = m, u.layer = l, StagedLinks(m, l) = u.links
      PROVE  n \in StagedLinks(m, l) \/ Cardinality(StagedLinks(m, l)) = DegreeCap(l)
  <2>1. CASE Cardinality(u.links) = DegreeCap(l)
    BY <1>2, <2>1
  <2>2. CASE u.links = old \cup {Inserted} /\ n \in old
    BY <1>2, <2>2
  <2>3. CASE u.links = old \cup {Inserted} /\ Cardinality(old) = DegreeCap(l)
    <3>1. old \subseteq 0..(size - 1) /\ IsFiniteSet(old)
      <4>1. m \in 0..(size - 1) /\ size \in Nat
        BY CountIsNat DEF IInv, GraphInv
      <4>2. old \in SUBSET (0..(size - 1))
        BY <4>1, NodeFacts
      <4>3. IsFiniteSet(0..(size - 1))
        <5>1. 0 \in Int /\ size - 1 \in Int
          BY <4>1
        <5> QED
          BY <5>1, FS_Interval
      <4>4. IsFiniteSet(old)
        BY <4>2, <4>3, FS_Subset
      <4>5. QED
        BY <4>2, <4>4
    <3>2. Inserted \notin old
      BY DEF IInv, GraphInv, LinksInv
    <3>3. Cardinality(u.links) = Cardinality(old) + 1
      BY <2>3, <3>1, <3>2, FS_AddElement
    <3>4. Cardinality(u.links) <= DegreeCap(l)
      BY <1>2 DEF CapInv
    <3>5. DegreeCap(l) \in Nat
      BY ConfigAssumption DEF DegreeCap
    <3>6. QED
      BY <2>3, <3>3, <3>4, <3>5
  <2>4. QED
    BY <1>2, <2>1, <2>2, <2>3 DEF BackInv
<1>3. QED
  BY <1>1, <1>2, StagedLinksCases

\* The commit puts the staged lists in their place.
LEMMA DegreeCommit ==
    ASSUME IInv, CapInv, BackInv, Commit
    PROVE  CapInv' /\ BackInv'
<1>1. /\ pc = "commit" /\ Adding /\ ~ Adding' /\ updates' = {}
      /\ Inserted = Count /\ Count \in Nat /\ size = Count + 1
      /\ Count' = size /\ UNCHANGED <<size, draws>>
      /\ Inserted \in 0..(size - 1) /\ draws[Inserted] \in Nat
      /\ \A n \in 0..(size - 1) : \A l \in 0..draws[n] :
            nodes'[n].links[l] = StagedLinks(n, l)
  BY CommitEffect
<1>2. pc' = "idle"
  BY DEF Commit, Return
<1>3. ASSUME NEW n \in 0..(size - 1), NEW l \in 0..draws[n]
      PROVE  Cardinality(StagedLinks(n, l)) <= DegreeCap(l)
  BY StagedLinksCases DEF CapInv
<1>4. CapInv'
  BY <1>1, <1>3 DEF CapInv, DegreeCap
<1>5. \A n \in 0..(size - 1) : n \in 0..(Count - 1) \/ n = Inserted
  BY <1>1
<1>6. \A u \in updates : /\ u.node \in 0..(Count - 1) /\ u.layer \in 0..draws[Inserted]
                         /\ u.links \subseteq nodes[u.node].links[u.layer] \cup {Inserted}
                         /\ u.node \in nodes[Inserted].links[u.layer]
                         /\ \/ u.links = nodes[u.node].links[u.layer] \cup {Inserted}
                            \/ Cardinality(u.links) = DegreeCap(u.layer)
  <2>1. ASSUME NEW u \in updates
        PROVE  /\ u.node \in 0..(Count - 1) /\ u.layer \in 0..draws[Inserted]
               /\ u.links \subseteq nodes[u.node].links[u.layer] \cup {Inserted}
    BY <1>1 DEF IInv, StagedInv, UpdateInv
  <2>2. QED
    BY <2>1 DEF BackInv
<1>7. \A l : StagedLinks(Inserted, l) = nodes[Inserted].links[l]
  BY <1>1, <1>6, StagedLinksCases
<1>8. ASSUME NEW n \in 0..(size - 1), NEW m \in 0..(size - 1), NEW l \in 0..draws[n],
             m \in StagedLinks(n, l)
      PROVE  /\ l \in 0..draws[m]
             /\ n \in StagedLinks(m, l) \/ Cardinality(StagedLinks(m, l)) = DegreeCap(l)
  <2>1. l \in 0..draws[m] /\ m # n
    <3>1. n \in 0..Inserted
      BY <1>1
    <3>2. l <= draws[m] /\ m # n
      BY <1>1, <1>8, <3>1, StagedLinksBounds
    <3>3. draws[m] \in Nat
      BY NodeFacts
    <3>4. QED
      BY <3>2, <3>3
  <2>2. CASE n = Inserted
    <3>1. PICK u \in updates : u.node = m /\ u.layer = l
      BY <1>1, <1>7, <1>8, <2>2 DEF BackInv
    <3>2. PICK w \in updates : w.node = m /\ w.layer = l /\ StagedLinks(m, l) = w.links
      BY <3>1, StagedLinksCases
    <3>3. Inserted \in w.links \/ Cardinality(w.links) = DegreeCap(w.layer)
      BY <1>6
    <3>4. QED
      BY <2>1, <2>2, <3>2, <3>3
  <2>3. CASE n # Inserted /\ m = Inserted
    <3>1. n \in 0..(Count - 1)
      BY <1>5, <2>3
    <3>2. m \notin nodes[n].links[l]
      BY <1>1, <2>3, <3>1 DEF IInv, GraphInv, LinksInv
    <3>3. PICK w \in updates : w.node = n /\ w.layer = l /\ StagedLinks(n, l) = w.links
      BY <1>8, <3>2, StagedLinksCases
    <3>4. n \in nodes[Inserted].links[l]
      BY <1>6, <3>3
    <3>5. QED
      BY <1>7, <2>1, <2>3, <3>4
  <2>4. CASE n # Inserted /\ m # Inserted
    <3>1. n \in 0..(Count - 1) /\ m \in 0..(Count - 1)
      BY <1>5, <2>4
    <3>2. m \in nodes[n].links[l]
      BY <1>6, <1>8, <2>4, StagedLinksCases
    <3>3. n \in nodes[m].links[l] \/ Cardinality(nodes[m].links[l]) = DegreeCap(l)
      BY <3>1, <3>2 DEF BackInv
    <3>4. QED
      BY <1>1, <2>1, <3>1, <3>3, StagedLinksBack
  <2>5. QED
    BY <2>2, <2>3, <2>4
<1>9. BackInv'
  <2>1. \A n, m \in 0..(size - 1) : \A l \in 0..draws[n] :
           m \in nodes'[n].links[l] =>
              n \in nodes'[m].links[l] \/ Cardinality(nodes'[m].links[l]) = DegreeCap(l)
    BY <1>1, <1>8
  <2>2. QED
    BY <1>1, <1>2, <2>1 DEF BackInv, DegreeCap
<1>10. QED
  BY <1>4, <1>9

\* Every step preserves both.
LEMMA DegreeStep == IInv /\ CapInv /\ BackInv /\ [Next]_vars => (CapInv /\ BackInv)'
<1> SUFFICES ASSUME IInv, CapInv, BackInv, [Next]_vars PROVE CapInv' /\ BackInv'
  OBVIOUS
<1> USE DEF Adding, NoCall
<1>1. /\ pc = "idle" <=> call = NoCall
      /\ updates # {} => Adding
      /\ pc = "descend" => updates = {}
  BY DEF IInv, WalkInv, StageInv, StagedInv, BackInv
<1>2. CASE RefuseInvalid \/ (\E i \in Ids : RefuseDuplicate(i)) \/ UNCHANGED vars
  BY <1>2, DegreeStable DEF RefuseInvalid, RefuseDuplicate, Refuse, vars, committed, walk
<1>3. CASE \E b \in Breadths : SetEfSearch(b)
  BY <1>3, DegreeStable DEF SetEfSearch, committed, walk
<1>4. CASE \E i \in Ids, v \in Vectors : BeginAdd(i, v)
  BY <1>4, DegreeBeginAdd
<1>5. CASE \E v \in Vectors, k \in Counts, b \in Breadths \cup {efSearch} :
              SearchNothing(v, k, b) \/ BeginSearch(v, k, b)
  BY <1>1, <1>5, DegreeStable DEF SearchNothing, Refuse, BeginSearch, committed, walk
<1>6. CASE Approach \/ Descend \/ BeginLayer \/ Expand \/ \E n \in todo : Visit(n)
  BY <1>1, <1>6, DegreeStable DEF Approach, Descend, BeginLayer, Expand, Visit, committed
<1>7. CASE Link
  BY <1>7, DegreeLink
<1>8. CASE Commit
  BY <1>8, DegreeCommit
<1>9. CASE Answer \/ FailSearch
  BY <1>1, <1>9, DegreeStable DEF Answer, FailSearch, Return, committed
<1>10. CASE FailAdd
  BY <1>10, DegreeFailAdd
<1>11. QED
  BY <1>2, <1>3, <1>4, <1>5, <1>6, <1>7, <1>8, <1>9, <1>10 DEF Next, Step

LEMMA Degrees == Spec => [](CapInv /\ BackInv)
<1>1. Init => CapInv /\ BackInv
  BY DEF Init, CapInv, BackInv, Adding, NoCall, Count
<1>2. QED
  BY <1>1, DegreeStep, Inductive, PTL DEF Spec

\* No link list exceeds its cap, 2M at the base layer and M above it: neither
\* the new node's list with its predecessor nor one that was pruned for it.
THEOREM DegreesStayCapped == Spec => []DegreesCapped
<1>1. IInv /\ CapInv => DegreesCapped
  BY NodeFacts DEF CapInv, DegreesCapped
<1>2. QED
  BY <1>1, Inductive, Degrees, PTL

\* A list is pruned only to its full size: backfilling leaves no slot unused,
\* so the end of a one-way link has no room for its opposite.
THEOREM OneWayLinksLeadToFullLists == Spec => []MissingBacklinkOnlyWhenFull
<1>1. IInv /\ BackInv => MissingBacklinkOnlyWhenFull
  <2> SUFFICES ASSUME IInv, BackInv PROVE MissingBacklinkOnlyWhenFull
    OBVIOUS
  <2>1. \A n \in 0..(Count - 1) : DOMAIN nodes[n].links = 0..draws[n]
    BY CountIsNat, NodeFacts DEF IInv, GraphInv
  <2>2. QED
    BY <2>1 DEF BackInv, MissingBacklinkOnlyWhenFull
<1>2. QED
  BY <1>1, Inductive, Degrees, PTL

----------------------------------------------------------------------------
(* select_neighbors() as its loops.  The recursion of a loop is unfolded by *)
(* induction on its rounds, which needs no more than that a nonempty set of *)
(* natural numbers has a least member.                                      *)

\* What holds at 0 and after each round holds after every round.
LEMMA RoundInduction ==
    ASSUME NEW N \in Nat, NEW T, 0 \in T, \A n \in 1..N : n - 1 \in T => n \in T
    PROVE  \A n \in 0..N : n \in T
<1> DEFINE Bad == {n \in 0..N : n \notin T}
<1> SUFFICES ASSUME Bad # {} PROVE FALSE
  OBVIOUS
<1>1. Bad \in SUBSET Nat
  OBVIOUS
<1> HIDE DEF Bad
<1>2. PICK m \in Bad : \A u \in Bad : m <= u
  BY <1>1, LeastExists
<1>3. m \in 0..N /\ m \notin T
  BY <1>2 DEF Bad
<1>4. m \in 1..N /\ m - 1 \in 0..N
  BY <1>3
<1>5. m - 1 \notin Bad
  BY <1>2, <1>4
<1> QED
  BY <1>3, <1>4, <1>5 DEF Bad

\* The values of a loop's variable that each round takes from the one before.
IsRun(f, N, start, step) ==
    f = [n \in 0..N |-> IF n = 0 THEN start ELSE step[<<n, f[n - 1]>>]]

\* A loop has a run.
LEMMA RunExists ==
    ASSUME NEW N \in Nat, NEW X, NEW start \in X, NEW step \in [(1..N) \X X -> X]
    PROVE  \E f \in [0..N -> X] : IsRun(f, N, start, step)
<1> DEFINE T == {n \in 0..N : \E f \in [0..n -> X] : IsRun(f, n, start, step)}
<1>1. 0 \in T
  <2> DEFINE f == [n \in 0..0 |-> start]
  <2>1. f \in [0..0 -> X]
    OBVIOUS
  <2>2. f = [n \in 0..0 |-> IF n = 0 THEN start ELSE step[<<n, f[n - 1]>>]]
    OBVIOUS
  <2> HIDE DEF f
  <2>3. IsRun(f, 0, start, step)
    BY <2>2 DEF IsRun
  <2> QED
    BY <2>1, <2>3
<1>2. ASSUME NEW n \in 1..N, n - 1 \in T PROVE n \in T
  <2>1. PICK g \in [0..(n - 1) -> X] : IsRun(g, n - 1, start, step)
    BY <1>2
  <2>2. /\ g[0] = start
        /\ \A m \in 1..(n - 1) : g[m] = step[<<m, g[m - 1]>>]
    BY <2>1 DEF IsRun
  <2> DEFINE f == [m \in 0..n |-> IF m = n THEN step[<<n, g[n - 1]>>] ELSE g[m]]
  <2>3. g[n - 1] \in X
    BY <2>1
  <2>4. f \in [0..n -> X]
    <3>1. step[<<n, g[n - 1]>>] \in X
      BY <2>3
    <3>2. \A m \in 0..n : m # n => m \in 0..(n - 1)
      OBVIOUS
    <3> QED
      BY <3>1, <3>2
  <2>5. \A m \in 0..n : f[m] = IF m = 0 THEN start ELSE step[<<m, f[m - 1]>>]
    <3> SUFFICES ASSUME NEW m \in 0..n
                 PROVE  f[m] = IF m = 0 THEN start ELSE step[<<m, f[m - 1]>>]
      OBVIOUS
    <3>1. CASE m = n
      <4>1. m # 0 /\ m - 1 \in 0..n /\ m - 1 # n /\ f[m - 1] = g[m - 1]
        BY <3>1
      <4> QED
        BY <3>1, <4>1
    <3>2. CASE m # n /\ m # 0
      <4>1. m \in 1..(n - 1) /\ m - 1 \in 0..n /\ m - 1 # n
        BY <3>2
      <4>2. f[m] = g[m] /\ f[m - 1] = g[m - 1]
        BY <3>2, <4>1
      <4> QED
        BY <2>2, <3>2, <4>1, <4>2
    <3>3. CASE m # n /\ m = 0
      BY <2>2, <3>3
    <3> QED
      BY <3>1, <3>2, <3>3
  <2> HIDE DEF f
  <2>6. IsRun(f, n, start, step)
    BY <2>4, <2>5 DEF IsRun
  <2> QED
    BY <2>4, <2>6
<1> HIDE DEF T
<1>3. N \in T
  BY <1>1, <1>2, RoundInduction
<1> QED
  BY <1>3 DEF T

\* s has the members of T, best first.
Ranked(s, T) ==
    /\ s \in Seq(T)
    /\ \A c \in T : \E n \in 1..Len(s) : s[n] = c
    /\ \A m, n \in 1..Len(s) : m < n => Better(s[m], s[n])

\* The numbers 1 to n are n.
LEMMA CountTo ==
    ASSUME NEW n \in Nat
    PROVE  IsFiniteSet(1..n) /\ Cardinality(1..n) = n
<1>1. 1 \in Int /\ n \in Int
  OBVIOUS
<1>2. IsFiniteSet(1..n) /\ Cardinality(1..n) = IF 1 > n THEN 0 ELSE n - 1 + 1
  BY <1>1, FS_Interval
<1> QED
  BY <1>2

\* Sorting has an outcome.
LEMMA BestFirstIsRanked ==
    ASSUME NEW C, Rankable(C)
    PROVE  Ranked(BestFirst(C), C) /\ Len(BestFirst(C)) = Cardinality(C)
<1> DEFINE N == Cardinality(C)
           Sorted(s) == \A m, n \in 1..N : m < n => Better(s[m], s[n])
           rank == [c \in C |-> Cardinality(Above(C, c)) + 1]
<1>1. IsFiniteSet(C) /\ N \in Nat /\ IsFiniteSet(1..N) /\ Cardinality(1..N) = N
  BY FS_CardinalityType, CountTo DEF Rankable
<1> HIDE DEF N
<1>2. ASSUME NEW c \in C PROVE Cardinality(Above(C, c)) \in 0..(N - 1)
  <2>1. Above(C, c) \in SUBSET (C \ {c})
    BY BetterOrder DEF Above
  <2>2. IsFiniteSet(C \ {c}) /\ Cardinality(C \ {c}) = N - 1
    BY <1>1, FS_RemoveElement DEF N
  <2>3. Cardinality(Above(C, c)) <= N - 1 /\ Cardinality(Above(C, c)) \in Nat
    BY <2>1, <2>2, FS_Subset, AboveFinite
  <2> QED
    BY <1>1, <2>3
<1>3. ASSUME NEW c \in C, NEW d \in C, Better(c, d) PROVE rank[c] < rank[d]
  <2>1. Above(C, c) \cup {c} \in SUBSET Above(C, d) /\ c \notin Above(C, c)
    BY <1>3, AboveNested
  <2>2. /\ IsFiniteSet(Above(C, c)) /\ IsFiniteSet(Above(C, d))
        /\ Cardinality(Above(C, c)) \in Nat /\ Cardinality(Above(C, d)) \in Nat
    BY AboveFinite
  <2>3. /\ IsFiniteSet(Above(C, c) \cup {c})
        /\ Cardinality(Above(C, c) \cup {c}) = Cardinality(Above(C, c)) + 1
    BY <2>1, <2>2, FS_AddElement
  <2>4. Cardinality(Above(C, c) \cup {c}) <= Cardinality(Above(C, d))
    BY <2>1, <2>2, FS_Subset
  <2> QED
    BY <2>2, <2>3, <2>4
<1>4. rank \in [C -> 1..N]
  BY <1>1, <1>2
<1>5. \A c, d \in C : c # d => rank[c] # rank[d]
  <2> SUFFICES ASSUME NEW c \in C, NEW d \in C, c # d PROVE rank[c] # rank[d]
    OBVIOUS
  <2>1. Better(c, d) \/ Better(d, c)
    BY BetterOrder
  <2>2. rank[c] \in Int /\ rank[d] \in Int
    BY <1>4
  <2> HIDE DEF rank
  <2> QED
    BY <1>3, <2>1, <2>2
<1> HIDE DEF rank
<1>6. \A n \in 1..N : \E c \in C : rank[c] = n
  <2>1. rank \in Injection(C, 1..N)
    BY <1>4, <1>5 DEF Injection, IsInjective
  <2>2. rank \in Surjection(C, 1..N)
    BY <1>1, <2>1, FS_Injection DEF N
  <2> QED
    BY <2>2 DEF Surjection
<1>7. \E s \in [1..N -> C] : Sorted(s)
  <2> DEFINE s == [n \in 1..N |-> CHOOSE c \in C : rank[c] = n]
  <2>1. \A n \in 1..N : s[n] \in C /\ rank[s[n]] = n
    BY <1>6
  <2>2. s \in [1..N -> C]
    BY <2>1
  <2> HIDE DEF s
  <2>3. ASSUME NEW m \in 1..N, NEW n \in 1..N, m < n PROVE Better(s[m], s[n])
    <3>1. s[m] \in C /\ s[n] \in C /\ s[m] # s[n]
      BY <1>1, <2>1, <2>3
    <3>2. ASSUME Better(s[n], s[m]) PROVE FALSE
      <4>1. rank[s[n]] < rank[s[m]]
        BY <1>3, <3>1, <3>2
      <4> QED
        BY <1>1, <2>1, <2>3, <4>1
    <3> QED
      BY <3>1, <3>2, BetterOrder
  <2> QED
    BY <2>2, <2>3
<1>8. BestFirst(C) \in [1..N -> C] /\ Sorted(BestFirst(C))
  BY <1>7 DEF BestFirst, N
<1> DEFINE b == BestFirst(C)
<1> HIDE DEF b
<1>9. b \in [1..N -> C] /\ Sorted(b) /\ b \in Seq(C) /\ Len(b) = N
  BY <1>1, <1>8 DEF b
<1>10. b \in Injection(1..N, C)
  <2>1. \A m, n \in 1..N : m # n => b[m] # b[n]
    <3> SUFFICES ASSUME NEW m \in 1..N, NEW n \in 1..N, m # n, b[m] = b[n] PROVE FALSE
      OBVIOUS
    <3>1. Better(b[m], b[n]) \/ Better(b[n], b[m])
      BY <1>1, <1>9
    <3>2. b[m] \in C
      BY <1>9
    <3> QED
      BY <3>1, <3>2, BetterOrder
  <2> QED
    BY <1>9, <2>1 DEF Injection, IsInjective
<1>11. b \in Surjection(1..N, C)
  BY <1>1, <1>10, FS_Injection DEF N
<1> QED
  BY <1>9, <1>11 DEF Ranked, Surjection, b, N

\* The place of a candidate in a ranked list is the number of those above it,
\* and the best k are the first k.
LEMMA RankedPlaces ==
    ASSUME NEW T, Rankable(T), NEW s, Ranked(s, T)
    PROVE  /\ \A n \in 1..Len(s) : Cardinality(Above(T, s[n])) = n - 1
           /\ \A k \in Int : Best(k, T) = {s[m] : m \in {n \in 1..Len(s) : n <= k}}
<1>1. s \in [1..Len(s) -> T] /\ Len(s) \in Nat
  BY DEF Ranked
<1>2. ASSUME NEW m \in 1..Len(s), NEW n \in 1..Len(s)
      PROVE  (Better(s[m], s[n]) <=> m < n) /\ (s[m] = s[n] => m = n)
  <2>1. s[m] \in T /\ s[n] \in T
    BY <1>1
  <2>2. CASE m < n
    BY <1>1, <2>1, <2>2, BetterOrder DEF Ranked
  <2>3. CASE n < m
    BY <1>1, <2>1, <2>3, BetterOrder DEF Ranked
  <2>4. CASE m = n
    BY <2>1, <2>4, BetterOrder
  <2> QED
    BY <1>1, <2>2, <2>3, <2>4
<1>3. \A c \in T : \E n \in 1..Len(s) : s[n] = c
  BY DEF Ranked
<1>4. ASSUME NEW n \in 1..Len(s) PROVE Cardinality(Above(T, s[n])) = n - 1
  <2> DEFINE g == [m \in 1..(n - 1) |-> s[m]]
             A == Above(T, s[n])
  <2>1. \A m \in 1..(n - 1) : m \in 1..Len(s) /\ m < n
    BY <1>1
  <2>2. g \in [1..(n - 1) -> A]
    BY <1>1, <1>2, <2>1 DEF Above
  <2>3. ASSUME NEW c \in A PROVE \E m \in 1..(n - 1) : g[m] = c
    <3>1. PICK m \in 1..Len(s) : s[m] = c
      BY <1>3 DEF Above
    <3>2. m < n
      BY <1>2, <3>1 DEF Above
    <3> QED
      BY <1>1, <3>1, <3>2
  <2>4. \A m, k \in 1..(n - 1) : g[m] = g[k] => m = k
    BY <1>2, <2>1
  <2> HIDE DEF g, A
  <2>5. g \in Bijection(1..(n - 1), A)
    BY <2>2, <2>3, <2>4, Fun_IsBij
  <2>6. IsFiniteSet(1..(n - 1)) /\ Cardinality(1..(n - 1)) = n - 1
    BY <1>1, CountTo
  <2> QED
    BY <2>5, <2>6, Fun_ExistsBij, FS_Bijection DEF A
<1>5. ASSUME NEW k \in Int PROVE Best(k, T) = {s[m] : m \in {n \in 1..Len(s) : n <= k}}
  <2>1. ASSUME NEW n \in 1..Len(s) PROVE s[n] \in Best(k, T) <=> n <= k
    BY <1>1, <1>4, <2>1 DEF Best
  <2>2. \A c \in Best(k, T) : \E n \in 1..Len(s) : s[n] = c
    BY <1>3 DEF Best
  <2> QED
    BY <2>1, <2>2
<1> QED
  BY <1>4, <1>5

\* What the first loop may hold.
WalkStates(C, required) == [selected : SUBSET (required \cup NodesOf(C)), pruned : Seq(C)]

LEMMA ConsiderType ==
    ASSUME NEW C, NEW required, NEW limit, NEW c \in C, NEW was \in WalkStates(C, required)
    PROVE  Consider(c, limit, was) \in WalkStates(C, required)
<1>1. /\ was.selected \cup {c.node} \in SUBSET (required \cup NodesOf(C))
      /\ Append(was.pruned, c) \in Seq(C)
  BY DEF WalkStates, NodesOf
<1> QED
  BY <1>1 DEF Consider, WalkStates

\* The first loop, round by round.
LEMMA WalkRuns ==
    ASSUME NEW C, NEW limit, NEW required, NEW s \in Seq(C)
    PROVE  \E f \in [0..Len(s) -> WalkStates(C, required)] :
               /\ f[0] = [selected |-> required, pruned |-> <<>>]
               /\ \A n \in 1..Len(s) : f[n] = Consider(s[n], limit, f[n - 1])
               /\ Walk(s, limit, required) = f[Len(s)]
<1> DEFINE N == Len(s)
           X == WalkStates(C, required)
           start == [selected |-> required, pruned |-> <<>>]
           step == [p \in (1..N) \X X |-> Consider(s[p[1]], limit, p[2])]
           Follows(h) ==
               h = [n \in 0..N |-> IF n = 0 THEN start ELSE Consider(s[n], limit, h[n - 1])]
           f == CHOOSE h : Follows(h)
<1>1. N \in Nat /\ \A n \in 1..N : s[n] \in C
  OBVIOUS
<1>2. start \in X
  BY DEF WalkStates
<1>3. step \in [(1..N) \X X -> X]
  BY <1>1, ConsiderType
<1>4. PICK g \in [0..N -> X] : IsRun(g, N, start, step)
  <2> HIDE DEF N, X, start, step
  <2> QED
    BY <1>1, <1>2, <1>3, RunExists
<1> HIDE DEF X, start
<1>5. Follows(g)
  <2>1. ASSUME NEW n \in 0..N
        PROVE  g[n] = IF n = 0 THEN start ELSE Consider(s[n], limit, g[n - 1])
    <3>1. CASE n = 0
      BY <1>4, <3>1 DEF IsRun
    <3>2. CASE n # 0
      <4>1. n \in 1..N /\ n - 1 \in 0..N
        BY <1>1, <3>2
      <4>2. g[n] = step[<<n, g[n - 1]>>] /\ <<n, g[n - 1]>> \in (1..N) \X X
        BY <1>4, <3>2, <4>1 DEF IsRun
      <4> QED
        BY <3>2, <4>2
    <3> QED
      BY <3>1, <3>2
  <2> HIDE DEF N
  <2> QED
    BY <1>4, <2>1
<1>6. Follows(f)
  <2> HIDE DEF Follows
  <2> QED
    BY <1>5
<1>7. Walk(s, limit, required) = f[N]
  BY DEF Walk, start
<1> HIDE DEF f, N
<1>8. /\ f[0] = start
      /\ \A n \in 1..N : f[n] = Consider(s[n], limit, f[n - 1])
  BY <1>1, <1>6
<1>9. /\ g[0] = start
      /\ \A n \in 1..N : g[n] = Consider(s[n], limit, g[n - 1])
  BY <1>1, <1>5
<1>10. \A n \in 0..N : f[n] = g[n]
  <2> DEFINE T == {n \in 0..N : f[n] = g[n]}
  <2>1. 0 \in T
    BY <1>1, <1>8, <1>9
  <2>2. \A n \in 1..N : n - 1 \in T => n \in T
    BY <1>8, <1>9
  <2> HIDE DEF T
  <2>3. \A n \in 0..N : n \in T
    BY <1>1, <2>1, <2>2, RoundInduction
  <2> QED
    BY <2>3 DEF T
<1>11. f \in [0..N -> X]
  <2>1. DOMAIN f = 0..N /\ f = [n \in DOMAIN f |-> f[n]]
    BY <1>6
  <2> QED
    BY <1>4, <1>10, <2>1
<1> QED
  BY <1>7, <1>8, <1>11 DEF N, X, start

\* The values of the second loop's list, round by round.
FillRun(f, selected, s, limit) ==
    /\ f[0] = selected
    /\ \A n \in 1..Len(s) : f[n] = IF Cardinality(f[n - 1]) = limit THEN f[n - 1]
                                   ELSE f[n - 1] \cup {s[n].node}

LEMMA BackfillRuns ==
    ASSUME NEW C, NEW limit, NEW selected, NEW s \in Seq(C)
    PROVE  \E f : FillRun(f, selected, s, limit) /\ Backfill(selected, s, limit) = f[Len(s)]
<1> DEFINE N == Len(s)
           X == SUBSET (selected \cup NodesOf(C))
           Round(n, was) == IF Cardinality(was) = limit THEN was ELSE was \cup {s[n].node}
           step == [p \in (1..N) \X X |-> Round(p[1], p[2])]
           Follows(h) == h = [n \in 0..N |-> IF n = 0 THEN selected ELSE Round(n, h[n - 1])]
           f == CHOOSE h : Follows(h)
<1>1. N \in Nat /\ \A n \in 1..N : s[n] \in C
  OBVIOUS
<1>2. selected \in X
  OBVIOUS
<1>3. step \in [(1..N) \X X -> X]
  <2>1. ASSUME NEW n \in 1..N, NEW was \in X PROVE Round(n, was) \in X
    BY <1>1 DEF NodesOf
  <2> HIDE DEF Round, X, N
  <2> QED
    BY <2>1
<1>4. PICK g \in [0..N -> X] : IsRun(g, N, selected, step)
  <2> HIDE DEF N, X, step
  <2> QED
    BY <1>1, <1>2, <1>3, RunExists
<1> HIDE DEF X, Round
<1>5. Follows(g)
  <2>1. ASSUME NEW n \in 0..N
        PROVE  g[n] = IF n = 0 THEN selected ELSE Round(n, g[n - 1])
    <3>1. CASE n = 0
      BY <1>4, <3>1 DEF IsRun
    <3>2. CASE n # 0
      <4>1. n \in 1..N /\ n - 1 \in 0..N
        BY <1>1, <3>2
      <4>2. g[n] = step[<<n, g[n - 1]>>] /\ <<n, g[n - 1]>> \in (1..N) \X X
        BY <1>4, <3>2, <4>1 DEF IsRun
      <4> QED
        BY <3>2, <4>2
    <3> QED
      BY <3>1, <3>2
  <2> HIDE DEF N
  <2> QED
    BY <1>4, <2>1
<1>6. Follows(f)
  <2> HIDE DEF Follows
  <2> QED
    BY <1>5
<1>7. Backfill(selected, s, limit) = f[N]
  BY DEF Backfill, Round
<1> HIDE DEF f, N
<1>8. f[0] = selected /\ \A n \in 1..N : f[n] = Round(n, f[n - 1])
  BY <1>1, <1>6
<1>9. FillRun(f, selected, s, limit)
  BY <1>8 DEF N, Round, FillRun
<1> QED
  BY <1>7, <1>9 DEF N

\* A candidate behind all others is appended.
LEMMA AppendRanked ==
    ASSUME NEW T, NEW q, NEW c, Ranked(q, T), \A d \in T : Better(d, c)
    PROVE  Ranked(Append(q, c), T \cup {c})
<1> DEFINE r == Append(q, c)
           U == T \cup {c}
<1>1. q \in Seq(U) /\ c \in U /\ Len(q) \in Nat /\ \A n \in 1..Len(q) : q[n] \in T
  <2>1. \A A, B : A \subseteq B => Seq(A) \subseteq Seq(B)
    OBVIOUS
  <2> QED
    BY <2>1 DEF Ranked
<1>2. /\ r \in Seq(U) /\ Len(r) = Len(q) + 1
      /\ \A n \in 1..Len(q) : r[n] = q[n]
      /\ r[Len(q) + 1] = c
  BY <1>1
<1> HIDE DEF r, U
<1>3. ASSUME NEW d \in U PROVE \E n \in 1..Len(r) : r[n] = d
  <2>1. CASE d \in T
    <3>1. PICK n \in 1..Len(q) : q[n] = d
      BY <2>1 DEF Ranked
    <3> QED
      BY <1>1, <1>2, <3>1
  <2>2. CASE d = c
    BY <1>1, <1>2, <2>2
  <2> QED
    BY <2>1, <2>2 DEF U
<1>4. ASSUME NEW m \in 1..Len(r), NEW n \in 1..Len(r), m < n PROVE Better(r[m], r[n])
  <2>1. m \in 1..Len(q) /\ r[m] = q[m] /\ q[m] \in T
    BY <1>1, <1>2, <1>4
  <2>2. CASE n \in 1..Len(q)
    BY <1>2, <1>4, <2>1, <2>2 DEF Ranked
  <2>3. CASE n = Len(q) + 1
    BY <1>2, <2>1, <2>3
  <2> QED
    BY <1>1, <1>2, <2>2, <2>3
<1> QED
  BY <1>2, <1>3, <1>4 DEF Ranked, r, U

\* What has been kept is as many nodes as were required and candidates chosen.
LEMMA KeptSize ==
    ASSUME NEW C, Rankable(C), \A c, d \in C : c.node = d.node => c = d,
           NEW required, IsFiniteSet(required),
           NEW K \in SUBSET C, \A c \in K : c.node \notin required
    PROVE  /\ IsFiniteSet(required \cup NodesOf(K)) /\ Cardinality(K) \in Nat
           /\ Cardinality(required) \in Nat
           /\ Cardinality(required \cup NodesOf(K)) = Cardinality(required) + Cardinality(K)
<1>1. IsFiniteSet(C)
  BY DEF Rankable
<1>2. /\ IsFiniteSet(K) /\ Cardinality(K) \in Nat
      /\ IsFiniteSet(NodesOf(K)) /\ Cardinality(NodesOf(K)) = Cardinality(K)
  BY <1>1, NodesOfSize
<1>3. \A n \in required : n \notin NodesOf(K)
  BY DEF NodesOf
<1>4. /\ IsFiniteSet(required \cup NodesOf(K))
      /\ Cardinality(required \cup NodesOf(K)) = Cardinality(required) + Cardinality(NodesOf(K))
  <2> DEFINE R == NodesOf(K)
  <2>1. IsFiniteSet(R) /\ \A n \in required : n \notin R
    BY <1>2, <1>3
  <2> HIDE DEF R
  <2>2. IsFiniteSet(required \cup R) /\ Cardinality(required \cup R) = Cardinality(required) + Cardinality(R)
    BY <2>1, DisjointUnion
  <2> QED
    BY <2>2 DEF R
<1> QED
  BY <1>2, <1>4, FS_CardinalityType

\* The candidates that are neither kept nor required.
Remaining(C, D, required) == {c \in C \ D : c.node \notin required}

\* The first loop selects what is required and Diversified, and prunes the
\* rest in order, unless the list is full before it has come to all of it.
LEMMA WalkKeeps ==
    ASSUME NEW C, Rankable(C), \A c, d \in C : c.node = d.node => c = d,
           NEW limit \in Nat, NEW required, IsFiniteSet(required), Cardinality(required) <= limit,
           NEW s, Ranked(s, C), NEW D, D = Diversified(C, limit, required),
           NEW w, w = Walk(s, limit, required)
    PROVE  /\ w.selected = required \cup NodesOf(D)
           /\ Cardinality(w.selected) <= limit
           /\ w.pruned \in Seq(C)
           /\ Cardinality(w.selected) # limit
                  => Ranked(w.pruned, Remaining(C, D, required))
<1>1. Greedy(C, D, limit, required)
  BY DiversifiedIsGreedy
<1>2. D \in SUBSET C /\ \A c \in D : c.node \notin required
  BY <1>1 DEF Greedy, Kept
<1>3. PICK f \in [0..Len(s) -> WalkStates(C, required)] :
          /\ f[0] = [selected |-> required, pruned |-> <<>>]
          /\ \A n \in 1..Len(s) : f[n] = Consider(s[n], limit, f[n - 1])
          /\ Walk(s, limit, required) = f[Len(s)]
  <2>1. s \in Seq(C)
    BY DEF Ranked
  <2> QED
    BY <2>1, WalkRuns
<1>4. Len(s) \in Nat /\ s \in [1..Len(s) -> C]
  BY DEF Ranked
<1> DEFINE first(n) == {s[m] : m \in 1..n}
           kept(n) == D \cap first(n)
           rest(n) == {c \in first(n) : c \notin D /\ c.node \notin required}
           Walked(n) == /\ f[n].selected = required \cup NodesOf(kept(n))
                        /\ Cardinality(f[n].selected) <= limit
                        /\ Cardinality(f[n].selected) # limit => Ranked(f[n].pruned, rest(n))
           T == {n \in 0..Len(s) : Walked(n)}
<1>5. 0 \in T
  <2>1. first(0) = {}
    OBVIOUS
  <2>2. kept(0) = {} /\ rest(0) = {}
    BY <2>1
  <2>3. NodesOf(kept(0)) = {}
    BY <2>2 DEF NodesOf
  <2>4. Ranked(<<>>, rest(0))
    <3> DEFINE e == <<>>
    <3>1. e \in Seq({}) /\ Len(e) = 0
      OBVIOUS
    <3> HIDE DEF e
    <3>2. Ranked(e, {})
      BY <3>1 DEF Ranked
    <3> QED
      BY <2>2, <3>2 DEF e
  <2>5. f[0].selected = required /\ f[0].pruned = <<>>
    BY <1>3
  <2> HIDE DEF first, kept, rest
  <2>6. f[0].selected = required \cup NodesOf(kept(0))
    BY <2>3, <2>5
  <2>7. Walked(0)
    BY <2>4, <2>5, <2>6
  <2> QED
    BY <1>4, <2>7
<1>6. ASSUME NEW n \in 1..Len(s), n - 1 \in T PROVE n \in T
  <2> DEFINE c == s[n]
             was == f[n - 1]
             before == first(n - 1)
  <2>1. /\ n \in 0..Len(s) /\ n - 1 \in 0..Len(s) /\ c \in C
        /\ before \in SUBSET C /\ first(n) = before \cup {c}
    <3>1. 1..n = 1..(n - 1) \cup {n}
      BY <1>4
    <3>2. \A m \in 1..(n - 1) : m \in 1..Len(s)
      BY <1>4
    <3> QED
      BY <1>4, <3>1, <3>2
  <2>2. was \in WalkStates(C, required) /\ f[n] = Consider(c, limit, was)
    BY <1>3, <2>1
  <2>3. \A d \in before : Better(d, c)
    <3>1. \A m \in 1..(n - 1) : m \in 1..Len(s) /\ m < n
      BY <1>4
    <3>2. \A m \in 1..Len(s) : m < n => Better(s[m], s[n])
      BY DEF Ranked
    <3>3. \A m \in 1..(n - 1) : Better(s[m], c)
      BY <3>1, <3>2
    <3> QED
      BY <3>3
  <2>4. \A d \in C : Better(d, c) => d \in before
    <3>1. ASSUME NEW d \in C, Better(d, c) PROVE d \in before
      <4>1. PICK m \in 1..Len(s) : s[m] = d
        BY DEF Ranked
      <4>2. m < n
        <5>1. ASSUME n < m PROVE FALSE
          BY <1>4, <2>1, <3>1, <4>1, <5>1, BetterOrder DEF Ranked
        <5>2. m # n
          BY <2>1, <3>1, <4>1, BetterOrder
        <5> QED
          BY <1>4, <5>1, <5>2
      <4> QED
        BY <1>4, <4>1, <4>2
    <3> QED
      BY <3>1
  <2>5. c \notin before /\ Above(D, c) = kept(n - 1)
    <3>1. c \notin before
      BY <2>1, <2>3, BetterOrder
    <3>2. \A d \in D : Better(d, c) <=> d \in before
      BY <1>2, <2>3, <2>4
    <3> QED
      BY <3>1, <3>2 DEF Above
  <2>6. /\ was.selected = required \cup NodesOf(kept(n - 1))
        /\ Cardinality(was.selected) <= limit
        /\ Cardinality(was.selected) # limit => Ranked(was.pruned, rest(n - 1))
    BY <1>6
  <2>7. kept(n) = kept(n - 1) \cup (D \cap {c})
        /\ rest(n) = rest(n - 1) \cup {d \in {c} : d \notin D /\ d.node \notin required}
    BY <2>1
  <2> DEFINE K == kept(n - 1)
             R == rest(n - 1)
  <2>8. K \in SUBSET C /\ K \subseteq D /\ K \subseteq before /\ R \subseteq before
    BY <1>2
  <2>9. /\ IsFiniteSet(was.selected) /\ Cardinality(was.selected) \in Nat
        /\ Cardinality(was.selected) = Cardinality(required) + Cardinality(K)
    <3>1. \A d \in K : d.node \notin required
      BY <1>2, <2>8
    <3> HIDE DEF K
    <3>2. /\ IsFiniteSet(required \cup NodesOf(K)) /\ Cardinality(K) \in Nat
          /\ Cardinality(required) \in Nat
          /\ Cardinality(required \cup NodesOf(K)) = Cardinality(required) + Cardinality(K)
      BY <2>8, <3>1, KeptSize
    <3> USE DEF K
    <3>3. was.selected = required \cup NodesOf(K)
      BY <2>6
    <3> HIDE DEF K, was
    <3> QED
      BY <3>2, <3>3
  <2>10. c \in D <=> /\ c.node \notin required
                     /\ Cardinality(was.selected) < limit
                     /\ Diverse(c, was.selected)
    <3>1. c \in D <=> Kept(c, Above(D, c), limit, required)
      BY <1>1, <2>1 DEF Greedy
    <3>2. was.selected = required \cup NodesOf(Above(D, c))
      BY <2>5, <2>6
    <3>3. Cardinality(was.selected) = Cardinality(required) + Cardinality(Above(D, c))
      BY <2>5, <2>9
    <3> HIDE DEF was, c
    <3> QED
      BY <3>1, <3>2, <3>3 DEF Kept
  <2>11. c.node \notin NodesOf(K)
    BY <2>1, <2>5, <2>8 DEF NodesOf
  <2> DEFINE full == Cardinality(was.selected) = limit
             now == f[n]
  <2>12. Cardinality(was.selected) < limit <=> ~ full
    BY <2>6, <2>9
  <2>13. NodesOf(kept(n)) = IF c \in D THEN NodesOf(K) \cup {c.node} ELSE NodesOf(K)
    BY <2>7 DEF NodesOf
  <2>14. Walked(n)
    <3> HIDE DEF first, kept, rest, K, R, before, c
    <3>1. CASE full
      <4>1. c \notin D /\ now = was
        BY <2>2, <2>10, <2>12, <3>1 DEF Consider
      <4>2. f[n].selected = required \cup NodesOf(kept(n))
        BY <2>6, <2>13, <4>1 DEF K
      <4> QED
        BY <2>6, <3>1, <4>1, <4>2
    <3>2. CASE ~ full /\ c.node \in was.selected
      <4>1. c.node \in required
        BY <2>6, <2>11, <3>2 DEF K
      <4>2. c \notin D /\ now = was
        BY <2>2, <2>10, <3>2, <4>1 DEF Consider
      <4>3. f[n].selected = required \cup NodesOf(kept(n))
        BY <2>6, <2>13, <4>2 DEF K
      <4>4. rest(n) = rest(n - 1)
        BY <2>7, <4>1
      <4> QED
        BY <2>6, <4>2, <4>3, <4>4
    <3>3. CASE ~ full /\ c.node \notin was.selected /\ Diverse(c, was.selected)
      <4>1. c.node \notin required
        BY <2>6, <3>3
      <4>2. c \in D
        BY <2>10, <2>12, <3>3, <4>1
      <4>3. now = [was EXCEPT !.selected = was.selected \cup {c.node}]
        BY <2>2, <3>3 DEF Consider
      <4>4. now.selected = was.selected \cup {c.node} /\ now.pruned = was.pruned
        BY <2>2, <4>3 DEF WalkStates
      <4>5. f[n].selected = required \cup NodesOf(kept(n))
        BY <2>6, <2>13, <4>2, <4>4 DEF K
      <4>6. rest(n) = rest(n - 1)
        BY <2>7, <4>2
      <4>7. Cardinality(now.selected) = Cardinality(was.selected) + 1
        BY <2>9, <3>3, <4>4, FS_AddElement
      <4>8. Cardinality(now.selected) <= limit
        BY <2>9, <2>12, <3>3, <4>7
      <4> HIDE DEF now, was
      <4> QED
        BY <2>6, <3>3, <4>4, <4>5, <4>6, <4>8 DEF now
    <3>4. CASE ~ full /\ c.node \notin was.selected /\ ~ Diverse(c, was.selected)
      <4>1. c.node \notin required /\ c \notin D
        BY <2>6, <2>10, <3>4
      <4>2. now = [was EXCEPT !.pruned = Append(was.pruned, c)]
        BY <2>2, <3>4 DEF Consider
      <4>3. now.selected = was.selected /\ now.pruned = Append(was.pruned, c)
        BY <2>2, <4>2 DEF WalkStates
      <4>4. f[n].selected = required \cup NodesOf(kept(n))
        BY <2>6, <2>13, <4>1, <4>3 DEF K
      <4>5. rest(n) = R \cup {c}
        BY <2>7, <4>1 DEF R
      <4>6. Ranked(was.pruned, R) /\ \A d \in R : Better(d, c)
        BY <2>3, <2>6, <2>8, <3>4 DEF R
      <4>7. Ranked(Append(was.pruned, c), R \cup {c})
        BY <4>6, AppendRanked
      <4> HIDE DEF now, was
      <4> QED
        BY <2>6, <4>3, <4>4, <4>5, <4>7 DEF now
    <3> QED
      BY <3>1, <3>2, <3>3, <3>4
  <2> QED
    BY <2>1, <2>14
<1> HIDE DEF T
<1>7. \A n \in 0..Len(s) : n \in T
  BY <1>4, <1>5, <1>6, RoundInduction
<1>8. Walked(Len(s)) /\ w = f[Len(s)] /\ w \in WalkStates(C, required)
  <2>1. Len(s) \in 0..Len(s)
    BY <1>4
  <2>2. Len(s) \in T
    BY <1>7, <2>1
  <2>3. Walked(Len(s))
    <3> HIDE DEF Walked
    <3> QED
      BY <2>2 DEF T
  <2>4. f[Len(s)] \in WalkStates(C, required)
    BY <1>3, <2>1
  <2> HIDE DEF Walked
  <2> QED
    BY <1>3, <2>3, <2>4
<1>9. first(Len(s)) = C
  BY <1>4 DEF Ranked
<1>10. kept(Len(s)) = D /\ rest(Len(s)) = Remaining(C, D, required)
  BY <1>2, <1>9 DEF Remaining
<1> HIDE DEF first, kept, rest
<1> QED
  BY <1>8, <1>10 DEF WalkStates

\* The second loop adds the best of what was pruned, until the list is full.
LEMMA BackfillFills ==
    ASSUME NEW T, Rankable(T), \A c, d \in T : c.node = d.node => c = d,
           NEW s, Ranked(s, T), NEW limit \in Nat,
           NEW selected, IsFiniteSet(selected), \A c \in T : c.node \notin selected,
           Cardinality(selected) <= limit
    PROVE  Backfill(selected, s, limit)
               = selected \cup NodesOf(Best(limit - Cardinality(selected), T))
<1>1. Len(s) \in Nat /\ s \in [1..Len(s) -> T] /\ s \in Seq(T)
  BY DEF Ranked
<1>2. PICK f : FillRun(f, selected, s, limit) /\ Backfill(selected, s, limit) = f[Len(s)]
  BY <1>1, BackfillRuns
<1> DEFINE size0 == Cardinality(selected)
           room == limit - size0
           taken(n) == {s[m] : m \in {k \in 1..n : k <= room}}
           Filled(n) == /\ f[n] = selected \cup NodesOf(taken(n))
                        /\ IsFiniteSet(f[n])
                        /\ Cardinality(f[n]) = size0 + Lesser(n, room)
           U == {n \in 0..Len(s) : Filled(n)}
<1>3. size0 \in Nat /\ room \in Nat
  BY FS_CardinalityType
<1>4. \A m, n \in 1..Len(s) : m < n => s[m].node # s[n].node
  <2>1. ASSUME NEW m \in 1..Len(s), NEW n \in 1..Len(s), m < n PROVE s[m].node # s[n].node
    <3>1. s[m] \in T /\ s[n] \in T /\ Better(s[m], s[n])
      BY <1>1, <2>1 DEF Ranked
    <3>2. s[m] # s[n]
      BY <3>1, BetterOrder
    <3> QED
      BY <3>1, <3>2
  <2> QED
    BY <2>1
<1> HIDE DEF size0, room
<1>5. 0 \in U
  <2>0. f[0] = selected
    BY <1>2 DEF FillRun
  <2>1. taken(0) = {}
    OBVIOUS
  <2>2. NodesOf(taken(0)) = {}
    BY <2>1 DEF NodesOf
  <2>3. Lesser(0, room) = 0
    BY <1>3 DEF Lesser
  <2> HIDE DEF taken
  <2>4. f[0] = selected \cup NodesOf(taken(0))
    BY <2>0, <2>2
  <2>5. Cardinality(f[0]) = size0 + Lesser(0, room)
    <3>1. Cardinality(f[0]) = size0 /\ size0 + 0 = size0
      BY <1>3, <2>0 DEF size0
    <3> QED
      BY <2>3, <3>1
  <2>6. Filled(0)
    BY <2>0, <2>4, <2>5
  <2>7. 0 \in 0..Len(s)
    BY <1>1
  <2> HIDE DEF Filled
  <2> QED
    BY <2>6, <2>7
<1>6. ASSUME NEW n \in 1..Len(s), n - 1 \in U PROVE n \in U
  <2>1. n \in 0..Len(s) /\ n - 1 \in Nat /\ n \in Nat /\ s[n] \in T
    BY <1>1
  <2> DEFINE was == f[n - 1]
             before == taken(n - 1)
  <2>2. /\ was = selected \cup NodesOf(before)
        /\ IsFiniteSet(was) /\ Cardinality(was) = size0 + Lesser(n - 1, room)
    BY <1>6
  <2>3. f[n] = IF Cardinality(was) = limit THEN was ELSE was \cup {s[n].node}
    BY <1>2 DEF FillRun
  <2>4. Cardinality(was) = limit <=> n > room
    <3>1. limit = size0 + room
      BY <1>3 DEF room, size0
    <3> HIDE DEF was
    <3> QED
      BY <1>3, <2>1, <2>2, <3>1 DEF Lesser
  <2>5. CASE n > room
    <3>1. {k \in 1..n : k <= room} = {k \in 1..(n - 1) : k <= room}
      BY <1>3, <2>1, <2>5
    <3>2. taken(n) = before
      BY <3>1
    <3>3. Lesser(n, room) = Lesser(n - 1, room)
      BY <1>3, <2>1, <2>5 DEF Lesser
    <3>4. f[n] = was
      BY <2>3, <2>4, <2>5
    <3> HIDE DEF taken, was
    <3>5. Filled(n)
      BY <2>2, <3>2, <3>3, <3>4
    <3> QED
      BY <2>1, <3>5
  <2>6. CASE n <= room
    <3>1. {k \in 1..n : k <= room} = {k \in 1..(n - 1) : k <= room} \cup {n}
      BY <1>3, <2>1, <2>6
    <3>2. taken(n) = before \cup {s[n]}
      BY <3>1
    <3>3. Lesser(n, room) = Lesser(n - 1, room) + 1
      BY <1>3, <2>1, <2>6 DEF Lesser
    <3>4. ~ n > room
      BY <1>3, <2>1, <2>6
    <3>5. f[n] = was \cup {s[n].node}
      BY <2>3, <2>4, <3>4
    <3>6. s[n].node \notin NodesOf(before)
      <4>1. ASSUME NEW m \in 1..(n - 1) PROVE s[m].node # s[n].node
        <5>1. m \in 1..Len(s) /\ m < n
          BY <1>1, <2>1
        <5> QED
          BY <1>4, <5>1
      <4> QED
        BY <4>1 DEF NodesOf
    <3>7. NodesOf(taken(n)) = NodesOf(before) \cup {s[n].node}
      <4>1. \A B, c : NodesOf(B \cup {c}) = NodesOf(B) \cup {c.node}
        BY DEF NodesOf
      <4> HIDE DEF taken
      <4> QED
        BY <3>2, <4>1
    <3> HIDE DEF taken, was, before
    <3>8. s[n].node \notin was
      BY <2>1, <2>2, <3>6
    <3>9. IsFiniteSet(f[n]) /\ Cardinality(f[n]) = Cardinality(was) + 1
      <4>1. IsFiniteSet(was)
        BY <2>2
      <4>2. /\ IsFiniteSet(was \cup {s[n].node})
            /\ Cardinality(was \cup {s[n].node}) = Cardinality(was) + 1
        BY <3>8, <4>1, FS_AddElement
      <4> QED
        BY <3>5, <4>2
    <3>10. f[n] = selected \cup NodesOf(taken(n))
      BY <2>2, <3>5, <3>7
    <3>11. Lesser(n, room) \in Int /\ Lesser(n - 1, room) \in Int
      BY <1>3, <2>1 DEF Lesser
    <3>12. Cardinality(f[n]) = size0 + Lesser(n, room)
      BY <1>3, <2>2, <3>3, <3>9, <3>11
    <3>13. Filled(n)
      BY <3>9, <3>10, <3>12
    <3> QED
      BY <2>1, <3>13
  <2> QED
    BY <1>3, <2>1, <2>5, <2>6
<1> HIDE DEF U
<1>7. Len(s) \in U
  <2>1. \A n \in 0..Len(s) : n \in U
    BY <1>1, <1>5, <1>6, RoundInduction
  <2> QED
    BY <1>1, <2>1
<1>8. f[Len(s)] = selected \cup NodesOf(taken(Len(s)))
  <2> HIDE DEF taken
  <2> QED
    BY <1>7 DEF U
<1>9. taken(Len(s)) = Best(room, T)
  <2>1. room \in Int
    BY <1>3
  <2> QED
    BY <2>1, RankedPlaces
<1> HIDE DEF taken
<1> QED
  BY <1>2, <1>8, <1>9 DEF room, size0

\* A full list takes no more.
LEMMA BackfillOfFull ==
    ASSUME NEW C, NEW s \in Seq(C), NEW selected
    PROVE  Backfill(selected, s, Cardinality(selected)) = selected
<1> DEFINE limit == Cardinality(selected)
<1> HIDE DEF limit
<1>1. PICK f : FillRun(f, selected, s, limit) /\ Backfill(selected, s, limit) = f[Len(s)]
  BY BackfillRuns
<1> DEFINE U == {n \in 0..Len(s) : f[n] = selected}
<1>2. Len(s) \in Nat /\ 0 \in U
  <2>1. Len(s) \in Nat /\ 0 \in 0..Len(s)
    OBVIOUS
  <2> QED
    BY <1>1, <2>1 DEF FillRun
<1>3. \A n \in 1..Len(s) : n - 1 \in U => n \in U
  <2>1. ASSUME NEW n \in 1..Len(s), f[n - 1] = selected PROVE n \in 0..Len(s) /\ f[n] = selected
    <3>1. n \in 0..Len(s)
      BY <1>2
    <3>2. f[n] = IF Cardinality(f[n - 1]) = limit THEN f[n - 1]
                 ELSE f[n - 1] \cup {s[n].node}
      BY <1>1 DEF FillRun
    <3> QED
      BY <2>1, <3>1, <3>2 DEF limit
  <2> QED
    BY <2>1
<1> HIDE DEF U
<1>4. \A n \in 0..Len(s) : n \in U
  BY <1>2, <1>3, RoundInduction
<1>5. Len(s) \in U
  BY <1>2, <1>4
<1> QED
  BY <1>1, <1>5 DEF U, limit

\* The two loops select what SelectNeighbors says.
LEMMA LoopsSelect ==
    ASSUME NEW C, Rankable(C), \A c, d \in C : c.node = d.node => c = d,
           NEW limit \in Nat, NEW required, IsFiniteSet(required), Cardinality(required) <= limit
    PROVE  SelectNeighbors(C, limit, required) = SelectByLoops(C, limit, required)
<1> DEFINE s == BestFirst(C)
           D == Diversified(C, limit, required)
           w == Walk(s, limit, required)
           rest == Remaining(C, D, required)
           room == limit - Cardinality(required) - Cardinality(D)
<1>1. Ranked(s, C)
  BY BestFirstIsRanked
<1>2. SelectNeighbors(C, limit, required) = (required \cup NodesOf(D)) \cup NodesOf(Best(room, rest))
  BY DEF SelectNeighbors, Remaining
<1>3. SelectByLoops(C, limit, required) = Backfill(w.selected, w.pruned, limit)
  BY DEF SelectByLoops
<1>4. Greedy(C, D, limit, required)
  BY DiversifiedIsGreedy
<1> HIDE DEF s, D, w
<1>5. D \in SUBSET C /\ \A c \in D : c.node \notin required
  BY <1>4 DEF Greedy, Kept
<1>6. /\ w.selected = required \cup NodesOf(D)
      /\ Cardinality(w.selected) <= limit
      /\ w.pruned \in Seq(C)
      /\ Cardinality(w.selected) # limit => Ranked(w.pruned, rest)
  <2>1. D = Diversified(C, limit, required) /\ w = Walk(s, limit, required)
    BY DEF D, w
  <2> QED
    BY <1>1, <2>1, WalkKeeps
<1>7. /\ IsFiniteSet(w.selected) /\ Cardinality(w.selected) \in Nat
      /\ Cardinality(w.selected) = Cardinality(required) + Cardinality(D)
      /\ Cardinality(required) \in Nat /\ Cardinality(D) \in Nat
  <2>1. /\ IsFiniteSet(required \cup NodesOf(D)) /\ Cardinality(D) \in Nat
        /\ Cardinality(required) \in Nat
        /\ Cardinality(required \cup NodesOf(D)) = Cardinality(required) + Cardinality(D)
    BY <1>5, KeptSize
  <2> QED
    BY <1>6, <2>1
<1>8. room = limit - Cardinality(w.selected)
  BY <1>7
<1>9. rest \in SUBSET C
  BY DEF Remaining
<1>10. CASE Cardinality(w.selected) = limit
  <2>1. room = 0
    BY <1>8, <1>10
  <2>2. ASSUME NEW c \in Best(0, rest) PROVE FALSE
    <3>1. Rankable(rest)
      BY <1>9, RankableSubset
    <3>2. Cardinality(Above(rest, c)) < 0 /\ c \in rest
      BY <2>2 DEF Best
    <3>3. Cardinality(Above(rest, c)) \in Nat
      BY <3>1, <3>2, AboveFinite
    <3> QED
      BY <3>2, <3>3
  <2> HIDE DEF rest, room
  <2>3. NodesOf(Best(room, rest)) = {}
    BY <2>1, <2>2 DEF NodesOf
  <2>4. Backfill(w.selected, w.pruned, limit) = w.selected
    BY <1>6, <1>10, BackfillOfFull
  <2> QED
    BY <1>2, <1>3, <1>6, <2>3, <2>4
<1>11. CASE Cardinality(w.selected) # limit
  <2>1. Ranked(w.pruned, rest)
    BY <1>6, <1>11
  <2>2. \A c \in rest : c.node \notin w.selected
    <3>1. ASSUME NEW c \in rest, c.node \in NodesOf(D) PROVE FALSE
      <4>1. PICK d \in D : d.node = c.node
        BY <3>1 DEF NodesOf
      <4> QED
        BY <1>5, <3>1, <4>1 DEF Remaining
    <3>2. \A c \in rest : c.node \notin required
      BY DEF Remaining
    <3> HIDE DEF rest
    <3> QED
      BY <1>6, <3>1, <3>2
  <2>3. Rankable(rest) /\ \A c, d \in rest : c.node = d.node => c = d
    BY <1>9, RankableSubset
  <2> HIDE DEF rest, room
  <2>4. Backfill(w.selected, w.pruned, limit)
            = w.selected \cup NodesOf(Best(limit - Cardinality(w.selected), rest))
    <3> DEFINE sel == w.selected
               q == w.pruned
    <3>1. /\ IsFiniteSet(sel) /\ Cardinality(sel) <= limit
          /\ Ranked(q, rest) /\ \A c \in rest : c.node \notin sel
      BY <1>6, <1>7, <2>1, <2>2
    <3> HIDE DEF sel, q
    <3>2. Backfill(sel, q, limit) = sel \cup NodesOf(Best(limit - Cardinality(sel), rest))
      BY <2>3, <3>1, BackfillFills
    <3> QED
      BY <3>2 DEF sel, q
  <2> QED
    BY <1>2, <1>3, <1>6, <1>8, <2>4
<1> QED
  BY <1>10, <1>11

\* Scored candidates of different nodes differ, and those of any stored nodes
\* can be ranked.
LEMMA ScoredNodes ==
    ASSUME IInv, NEW v \in Vectors, NEW N \in SUBSET (0..(size - 1))
    PROVE  /\ Rankable(ScoredAll(v, N))
           /\ \A c, d \in ScoredAll(v, N) : c.node = d.node => c = d
<1>1. /\ Adding => Inserted = Count /\ Count = size - 1
      /\ ~ Adding => Count = size
      /\ Count \in Nat
  BY CountIsNat DEF IInv, GraphInv, Count
<1>2. Rankable(ScoredAll(v, N))
  <2>1. CASE N \subseteq 0..(Count - 1)
    BY <2>1, ScoredRankable DEF IInv
  <2>2. CASE ~ (N \subseteq 0..(Count - 1))
    <3>1. PICK n \in N : n \notin 0..(Count - 1)
      BY <2>2
    <3>2. Adding
      BY <1>1, <3>1
    <3>3. n = Inserted /\ N \ {Inserted} \subseteq 0..(Count - 1)
      <4>1. \A m \in N : m \in 0..(size - 1)
        OBVIOUS
      <4>2. Count = size - 1 /\ Inserted = Count
        BY <1>1, <3>2
      <4>3. \A m \in 0..(size - 1) : m = Count \/ m \in 0..(Count - 1)
        BY <1>1, <4>2
      <4> QED
        BY <3>1, <4>1, <4>2, <4>3
    <3>4. N = (N \ {Inserted}) \cup {Inserted}
      BY <3>1, <3>3
    <3>5. Rankable(ScoredAll(v, (N \ {Inserted}) \cup {Inserted}))
      BY <3>2, <3>3, ScoredWithInserted
    <3> QED
      BY <3>4, <3>5
  <2> QED
    BY <2>1, <2>2
<1>3. ASSUME NEW c \in ScoredAll(v, N), NEW d \in ScoredAll(v, N), c.node = d.node PROVE c = d
  <2>1. PICK m \in N : c = Scored(v, m)
    BY DEF ScoredAll
  <2>2. PICK k \in N : d = Scored(v, k)
    BY DEF ScoredAll
  <2>3. c.node = m /\ d.node = k
    BY <2>1, <2>2 DEF Scored
  <2> QED
    BY <1>3, <2>1, <2>2, <2>3
<1> QED
  BY <1>2, <1>3

\* Two neighbours are at most two.
LEMMA PairSize ==
    ASSUME NEW a, NEW b, NEW R \in SUBSET {a, b}
    PROVE  IsFiniteSet(R) /\ Cardinality(R) \in Nat /\ Cardinality(R) <= 2
<1>1. IsFiniteSet({a}) /\ Cardinality({a}) = 1
  BY FS_Singleton
<1>2. {a, b} = {a} \cup {b}
  OBVIOUS
<1>3. IsFiniteSet({a, b}) /\ Cardinality({a, b}) \in Nat /\ Cardinality({a, b}) <= 2
  <2>1. CASE b \in {a}
    BY <1>1, <2>1
  <2>2. CASE b \notin {a}
    <3>1. IsFiniteSet({a} \cup {b}) /\ Cardinality({a} \cup {b}) = Cardinality({a}) + 1
      BY <1>1, <2>2, FS_AddElement
    <3> QED
      BY <1>1, <1>2, <3>1
  <2> QED
    BY <2>1, <2>2
<1>4. IsFiniteSet(R) /\ Cardinality(R) \in Nat /\ Cardinality(R) <= Cardinality({a, b})
  BY <1>3, FS_Subset, FS_CardinalityType
<1> QED
  BY <1>3, <1>4

\* select_neighbors() walks its candidates in two loops and stops at its
\* limit; what these loops return is the selection that Link and Relinked
\* are modelled with, for every set of stored nodes around a node.
THEOREM SelectionIsItsLoops == Spec => []SelectionIsWhatTheLoopsDo
<1>1. IInv => SelectionIsWhatTheLoopsDo
  <2> SUFFICES ASSUME IInv, NEW n \in 0..(size - 1),
                      NEW N \in SUBSET ((0..(size - 1)) \ {n}),
                      NEW required \in {{}, {n - 1, n + 1} \cap N},
                      NEW limit \in M..(2 * M)
               PROVE  LET C == ScoredAll(nodes[n].vector, N)
                      IN  SelectNeighbors(C, limit, required)
                              = SelectByLoops(C, limit, required)
    BY DEF SelectionIsWhatTheLoopsDo
  <2>1. nodes[n].vector \in Vectors
    BY NodeFacts
  <2> DEFINE C == ScoredAll(nodes[n].vector, N)
  <2>2. Rankable(C) /\ \A c, d \in C : c.node = d.node => c = d
    BY <2>1, ScoredNodes
  <2>3. required \in SUBSET {n - 1, n + 1}
    OBVIOUS
  <2>4. IsFiniteSet(required) /\ Cardinality(required) \in Nat /\ Cardinality(required) <= 2
    BY <2>3, PairSize
  <2>5. limit \in Nat /\ 2 <= limit
    BY ConfigAssumption
  <2>6. Cardinality(required) <= limit
    BY <2>4, <2>5
  <2> HIDE DEF C
  <2>7. SelectNeighbors(C, limit, required) = SelectByLoops(C, limit, required)
    BY <2>2, <2>4, <2>5, <2>6, LoopsSelect
  <2> QED
    BY <2>7 DEF C
<1> QED
  BY <1>1, Inductive, PTL

----------------------------------------------------------------------------
(* The levels.  What HnswIndex takes from the seed, level by level, is      *)
(* drawn word by word as LevelSampler has it, for every M and every width   *)
(* of word: the threshold leaves a whole number of rounds of the residues   *)
(* of M, and each round has one multiple of M.                              *)

\* Euclidean division, as \div and % are defined.
LEMMA Division ==
    ASSUME NEW a \in Nat, NEW b \in Nat \ {0}
    PROVE  /\ a \div b \in Nat /\ a % b \in 0..(b - 1)
           /\ a = b * (a \div b) + (a % b)
  BY Z3

\* Multiples of b are at least b apart.
LEMMA MultiplesApart ==
    ASSUME NEW b \in Nat, NEW j \in Int, NEW k \in Int, j < k
    PROVE  j * b \in Int /\ k * b \in Int /\ j * b + b <= k * b
<1>1. k - j - 1 \in Nat /\ j * b \in Int /\ k * b \in Int
  OBVIOUS
<1>2. (k - j - 1) * b \in Nat
  BY <1>1, Z3
<1>3. (k - j - 1) * b = k * b - j * b - b
  BY Z3
<1> QED
  BY <1>1, <1>2, <1>3

LEMMA MultipleHasNoRemainder ==
    ASSUME NEW b \in Nat, b > 0, NEW n \in Int, n * b >= 0
    PROVE  (n * b) % b = 0
<1>1. n * b \in Nat
  BY Z3
<1>2. PICK j \in Nat : n * b = b * j + ((n * b) % b) /\ (n * b) % b \in 0..(b - 1)
  BY <1>1, Division
<1>3. b * j = j * b /\ j * b \in Nat
  BY Z3
<1>4. CASE j < n
  BY <1>1, <1>2, <1>3, <1>4, MultiplesApart
<1>5. CASE j > n
  BY <1>1, <1>2, <1>3, <1>5, MultiplesApart
<1>6. CASE j = n
  BY <1>1, <1>2, <1>3, <1>6
<1> QED
  BY <1>4, <1>5, <1>6

\* What the threshold leaves is a whole number of rounds, at least two.
LEMMA Rounds ==
    ASSUME NEW q \in Nat, bound \in Bounds,
           q = (Word - bound) \div bound
    PROVE  /\ Threshold \in 0..(bound - 1)
           /\ Word = (q + 1) * bound + Threshold
           /\ q >= 1
<1>1. bound \in Nat /\ bound >= 2 /\ Word \in Nat /\ 2 * bound <= Word
  <2>1. bound \in 2..(Word \div 2) /\ Word \in Nat
    BY SamplerAssumption
  <2>2. Word \div 2 \in Nat /\ 2 * (Word \div 2) <= Word
    BY <2>1, Division
  <2> QED
    BY <2>1, <2>2
<1>2. Word - bound \in 0..(Word - 1)
  BY <1>1
<1>3. (Word - bound) % Word = Word - bound
  BY <1>1, <1>2, Z3
<1>4. Threshold = (Word - bound) % bound
  BY <1>3 DEF Threshold
<1>5. Threshold \in 0..(bound - 1) /\ Word - bound = bound * q + Threshold
  <2>1. Word - bound \in Nat /\ bound \in Nat \ {0}
    BY <1>1, <1>2
  <2> QED
    BY <2>1, <1>4, Division
<1>6. Word = (q + 1) * bound + Threshold
  <2>1. (q + 1) * bound = bound * q + bound
    BY <1>1, Z3
  <2> QED
    BY <2>1, <1>1, <1>5
<1>7. q >= 1
  <2>1. SUFFICES ASSUME q = 0 PROVE FALSE
    OBVIOUS
  <2>2. bound * q = 0
    BY <2>1, <1>1, Z3
  <2> QED
    BY <2>2, <1>1, <1>5
<1> QED
  BY <1>5, <1>6, <1>7

\* What both counts start from.
LEMMA Numbers ==
    ASSUME bound \in Bounds
    PROVE  /\ bound \in Nat /\ bound >= 2 /\ Word \in Nat
           /\ \E q \in Nat : /\ Threshold \in 0..(bound - 1)
                            /\ Word = (q + 1) * bound + Threshold
                            /\ q >= 1
<1>1. bound \in 2..(Word \div 2) /\ Word \in Nat
  BY SamplerAssumption
<1>2. Word \div 2 \in Nat /\ 2 * (Word \div 2) <= Word
  BY <1>1, Division
<1>3. Word - bound \in Nat /\ bound \in Nat \ {0} /\ bound >= 2
  BY <1>1, <1>2
<1>4. (Word - bound) \div bound \in Nat
  BY <1>3, Division
<1>5. PICK q \in Nat : q = (Word - bound) \div bound
  BY <1>4
<1> QED
  BY <1>1, <1>3, <1>5, Rounds

LEMMA AcceptedCount ==
    ASSUME bound \in Bounds
    PROVE  Cardinality(Accepted) = Word - Threshold
<1>1. PICK q \in Nat : /\ Threshold \in 0..(bound - 1)
                       /\ Word = (q + 1) * bound + Threshold
  BY Numbers
<1>2. bound \in Nat /\ Word \in Nat /\ (q + 1) * bound \in Nat
  BY Numbers, Z3
<1>3. Threshold \in Nat /\ Threshold <= Word
  BY <1>1, <1>2
<1>4. Accepted = Threshold..(Word - 1)
  BY <1>2, <1>3 DEF Accepted, Words
<1>5. Threshold \in Int /\ Word - 1 \in Int
  BY <1>2, <1>3
<1>6. Cardinality(Threshold..(Word - 1)) =
          IF Threshold > Word - 1 THEN 0 ELSE (Word - 1) - Threshold + 1
  BY <1>5, FS_Interval
<1> QED
  BY <1>2, <1>3, <1>4, <1>6

\* The k-th round has one multiple of the bound: its first word, or the last
\* one when the threshold cuts the first word off.
LEMMA PromotedCount ==
    ASSUME bound \in Bounds, NEW q \in Nat, q >= 1,
           Threshold \in 0..(bound - 1),
           Word = (q + 1) * bound + Threshold
    PROVE  Cardinality(Promoted) = q + 1
<1> DEFINE skip == IF Threshold = 0 THEN 1 ELSE 0
           multiple(k) == (k - skip) * bound
           f == [k \in 1..(q + 1) |-> multiple(k)]
<1>1. bound \in Nat /\ bound >= 2 /\ Word \in Nat /\ Threshold \in Nat
  BY Numbers
<1>2. skip \in {0, 1} /\ (skip = 1 <=> Threshold = 0)
  OBVIOUS
<1> HIDE DEF skip
<1>3. ASSUME NEW k \in 1..(q + 1)
      PROVE  multiple(k) \in Promoted
  <2>1. k - skip \in 0..(q + 1)
    BY <1>2
  <2>2. 0 <= (k - skip) * bound /\ (k - skip) * bound \in Int
    BY <2>1, <1>1, Z3
  <2>3. (k - skip) * bound >= Threshold
    <3>1. CASE skip = 1
      BY <3>1, <2>2, <1>2
    <3>2. CASE skip = 0
      <4>1. 0 * bound + bound <= (k - skip) * bound
        BY <3>2, <1>1, MultiplesApart
      <4> QED
        BY <4>1, <2>2, <1>1
    <3> QED
      BY <3>1, <3>2, <1>2
  <2>4. (k - skip) * bound < Word
    <3>1. CASE skip = 1
      <4>1. (k - skip) * bound + bound <= (q + 1) * bound
        BY <3>1, <1>1, MultiplesApart
      <4>2. (q + 1) * bound \in Int
        BY <1>1, Z3
      <4> QED
        BY <4>1, <4>2, <2>2, <1>1
    <3>2. CASE skip = 0
      <4>1. (k - skip) * bound <= (q + 1) * bound
        <5>1. CASE k = q + 1
          BY <5>1, <3>2, <1>1, <2>2
        <5>2. CASE k < q + 1
          <6>1. (k - skip) * bound + bound <= (q + 1) * bound /\ (q + 1) * bound \in Int
            BY <5>2, <3>2, <1>1, MultiplesApart
          <6> QED
            BY <6>1, <2>2, <1>1
        <5> QED
          BY <5>1, <5>2
      <4>2. (q + 1) * bound \in Int
        BY <1>1, Z3
      <4>3. Threshold > 0
        BY <3>2, <1>2, <1>1
      <4> QED
        BY <4>1, <4>2, <4>3, <2>2, <1>1
    <3> QED
      BY <3>1, <3>2, <1>2
  <2>5. ((k - skip) * bound) % bound = 0
    <3>1. PICK n \in Int : n = k - skip
      BY <2>1
    <3>2. n * bound >= 0 /\ bound > 0
      BY <3>1, <2>2, <1>1
    <3> QED
      BY <3>1, <3>2, <1>1, MultipleHasNoRemainder
  <2> QED
    BY <2>2, <2>3, <2>4, <2>5, <1>1
       DEF Promoted, Accepted, Words, Promotes
<1>4. ASSUME NEW w \in Promoted
      PROVE  \E k \in 1..(q + 1) : w = multiple(k)
  <2>1. w \in 0..(Word - 1) /\ w >= Threshold /\ w % bound = 0
    BY DEF Promoted, Accepted, Words, Promotes
  <2>2. w \in Nat /\ bound \in Nat \ {0}
    BY <2>1, <1>1
  <2>3. w \div bound \in Nat /\ w = bound * (w \div bound)
    <3>1. /\ w \div bound \in Nat
          /\ w = bound * (w \div bound) + (w % bound)
      BY <2>2, Division
    <3>2. PICK d \in Nat : d = w \div bound
      BY <3>1
    <3>3. bound * d \in Nat
      BY <2>2, <3>2, Z3
    <3> QED
      BY <2>1, <3>1, <3>2, <3>3
  <2>4. PICK n \in Nat : n = w \div bound
    BY <2>3
  <2>5. w = n * bound
    BY <2>3, <2>4, <2>2, Z3
  <2>6. n + skip <= q + 1
    <3>1. SUFFICES ASSUME n + skip > q + 1 PROVE FALSE
      BY <1>2
    <3>2. CASE skip = 1
      <4>1. CASE n = q + 1
        BY <4>1, <3>2, <2>1, <2>5, <1>1, <1>2
      <4>2. CASE n > q + 1
        <5>1. (q + 1) * bound + bound <= n * bound /\ (q + 1) * bound \in Int
          BY <4>2, <1>1, MultiplesApart
        <5> QED
          BY <5>1, <2>1, <2>5, <2>2, <1>1
      <4> QED
        BY <4>1, <4>2, <3>1, <3>2
    <3>3. CASE skip = 0
      <4>1. (q + 1) * bound + bound <= n * bound /\ (q + 1) * bound \in Int
        BY <3>1, <3>3, <1>1, MultiplesApart
      <4> QED
        BY <4>1, <2>1, <2>5, <2>2, <1>1
    <3> QED
      BY <3>2, <3>3, <1>2
  <2>7. n + skip >= 1
    <3>1. CASE skip = 1
      BY <3>1
    <3>2. CASE skip = 0
      <4>1. Threshold > 0
        BY <3>2, <1>2, <1>1
      <4>2. n # 0
        BY <4>1, <2>1, <2>5, <1>1, Z3
      <4> QED
        BY <4>2, <3>2
    <3> QED
      BY <3>1, <3>2, <1>2
  <2>8. n + skip \in 1..(q + 1) /\ (n + skip) - skip = n
    BY <2>6, <2>7, <1>2
  <2> QED
    BY <2>5, <2>8
<1>5. ASSUME NEW j \in 1..(q + 1), NEW k \in 1..(q + 1), j # k
      PROVE  multiple(j) # multiple(k)
  <2>1. ASSUME NEW a \in 1..(q + 1), NEW b \in 1..(q + 1), a < b
        PROVE  multiple(a) # multiple(b)
    <3>1. a - skip \in Int /\ b - skip \in Int /\ a - skip < b - skip
      BY <2>1, <1>2
    <3>2. (a - skip) * bound + bound <= (b - skip) * bound
          /\ (a - skip) * bound \in Int /\ (b - skip) * bound \in Int
      BY <3>1, <1>1, MultiplesApart
    <3> QED
      BY <3>2, <1>1
  <2> QED
    BY <2>1, <1>5
<1> HIDE DEF multiple
<1>6. f \in Bijection(1..(q + 1), Promoted)
  <2>1. f \in [1..(q + 1) -> Promoted]
    BY <1>3
  <2>2. \A a, b \in 1..(q + 1) : f[a] = f[b] => a = b
    BY <1>5
  <2>3. \A w \in Promoted : \E k \in 1..(q + 1) : f[k] = w
    BY <1>4
  <2> QED
    BY <2>1, <2>2, <2>3 DEF Bijection, Injection, Surjection, IsInjective
<1>7. ExistsBijection(1..(q + 1), Promoted)
  BY <1>6 DEF ExistsBijection
<1>8. q + 1 \in Nat
  OBVIOUS
<1> QED
  BY <1>7, <1>8, FS_CountingElements

LEMMA PromotionOfBounds ==
    ASSUME bound \in Bounds
    PROVE  PromotionIsOneInM
<1>1. PICK q \in Nat : /\ Threshold \in 0..(bound - 1)
                       /\ Word = (q + 1) * bound + Threshold
                       /\ q >= 1
  BY Numbers
<1>2. bound \in Nat /\ bound >= 2 /\ Word \in Nat
  BY Numbers
<1>3. Cardinality(Promoted) = q + 1
  BY <1>1, PromotedCount
<1>4. Cardinality(Accepted) = Word - Threshold
  BY AcceptedCount
<1>5. (q + 1) * bound = bound * (q + 1) /\ (q + 1) * bound \in Int
  BY <1>2, Z3
<1>6. (q + 1) * bound >= 2 * bound
  <2>1. 1 * bound + bound <= (q + 1) * bound
    BY <1>1, <1>2, MultiplesApart
  <2> QED
    BY <2>1, <1>2, <1>5
<1>7. bound * Cardinality(Promoted) = Cardinality(Accepted)
  BY <1>1, <1>2, <1>3, <1>4, <1>5
<1>8. 2 * Cardinality(Accepted) > Word
  BY <1>1, <1>2, <1>4, <1>5, <1>6
<1> QED
  BY <1>7, <1>8 DEF PromotionIsOneInM

\* The positions of random_ and of its copy stay within what the seed has
\* yielded, and levels below the cap.
THEOREM LevelsAreTyped == SamplerSpec => []SamplerTypeOK
<1>1. SamplerInit => SamplerTypeOK
  BY SamplerAssumption DEF SamplerInit, SamplerTypeOK
<1>2. SamplerTypeOK /\ [SamplerNext]_samplerVars => SamplerTypeOK'
  <2> SUFFICES ASSUME SamplerTypeOK, [SamplerNext]_samplerVars PROVE SamplerTypeOK'
    OBVIOUS
  <2> USE SamplerAssumption DEF SamplerTypeOK
  <2>1. CASE CopyGenerator
    BY <2>1 DEF CopyGenerator
  <2>2. CASE Draw
    <3>1. PICK w \in Words : Yields(w)
      BY <2>2 DEF Draw
    <3>2. stream' \in Seq(Words) /\ random' \in 0..Len(stream') /\ next' \in 0..Len(stream')
      <4>1. CASE next < Len(stream)
        BY <2>2, <3>1, <4>1 DEF Draw, Yields
      <4>2. CASE ~ next < Len(stream)
        <5>1. stream' = Append(stream, w) /\ next = Len(stream) /\ next' = next + 1
          BY <3>1, <4>2 DEF Yields
        <5>2. Len(stream') = Len(stream) + 1 /\ stream' \in Seq(Words)
          BY <5>1
        <5> QED
          BY <5>1, <5>2, <2>2 DEF Draw
      <4> QED
        BY <4>1, <4>2
    <3>3. level' \in 0..Cap /\ drawing' \in {"idle", "draw", "insert"}
      BY <2>2 DEF Draw
    <3> QED
      BY <2>2, <3>2, <3>3 DEF Draw
  <2>3. CASE DropCopy
    BY <2>3 DEF DropCopy
  <2>4. CASE StoreCopy
    BY <2>4 DEF StoreCopy
  <2>5. CASE UNCHANGED samplerVars
    BY <2>5 DEF samplerVars
  <2> QED
    BY <2>1, <2>2, <2>3, <2>4, <2>5 DEF SamplerNext
<1> QED
  BY <1>1, <1>2, PTL DEF SamplerSpec

\* Promotion from one level to the next has probability 1/M exactly, whatever
\* M is and however wide the words are: sampling by rejection is unbiased.
THEOREM PromotionIsUnbiased == SamplerSpec => []PromotionIsOneInM
<1>1. SamplerInit => bound \in Bounds
  BY DEF SamplerInit
<1>2. bound \in Bounds /\ [SamplerNext]_samplerVars => (bound \in Bounds)'
  BY DEF SamplerNext, samplerVars, CopyGenerator, Draw, DropCopy,
         StoreCopy
<1>3. bound \in Bounds => PromotionIsOneInM
  BY PromotionOfBounds
<1> QED
  BY <1>1, <1>2, <1>3, PTL DEF SamplerSpec

\* The words behind random_ up to those of its copy are what the level in the
\* making has taken, and the ones before are the levels of the stored nodes.
SpellInv ==
    /\ drawing # "idle" => random <= next
    /\ drawing = "draw" => /\ level = Cardinality(PromotedAt(random, next))
                           /\ AcceptedAt(random, next) = PromotedAt(random, next)
    /\ drawing = "insert" => Spells(random, next, level)
    /\ LevelsSpellTheStream

\* The positions of a segment are finitely many and end with it.
LEMMA SegmentFinite ==
    ASSUME NEW a \in Nat, NEW b \in Nat
    PROVE  /\ IsFiniteSet(PromotedAt(a, b))
           /\ Cardinality(PromotedAt(a, b)) \in Nat
           /\ PromotedAt(a, b) \subseteq AcceptedAt(a, b)
           /\ b + 1 \notin AcceptedAt(a, b)
           /\ AcceptedAt(a, a) = {} /\ PromotedAt(a, a) = {}
<1>1. a + 1 \in Int /\ b \in Int
  OBVIOUS
<1>2. IsFiniteSet((a + 1)..b)
  BY <1>1, FS_Interval
<1>3. PromotedAt(a, b) \in SUBSET ((a + 1)..b)
  BY DEF PromotedAt, AcceptedAt
<1>4. IsFiniteSet(PromotedAt(a, b)) /\ Cardinality(PromotedAt(a, b)) \in Nat
  BY <1>2, <1>3, FS_Subset, FS_CardinalityType
<1> QED
  BY <1>4 DEF PromotedAt, AcceptedAt

\* A word that is discovered changes nothing of a segment before it.
LEMMA SegmentKept ==
    ASSUME NEW a \in Nat, NEW b \in Nat, bound' = bound, \A p \in 1..b : stream'[p] = stream[p]
    PROVE  /\ AcceptedAt(a, b)' = AcceptedAt(a, b)
           /\ PromotedAt(a, b)' = PromotedAt(a, b)
           /\ \A l : Spells(a, b, l) => Spells(a, b, l)'
<1>1. \A p \in (a + 1)..b : p \in 1..b
  OBVIOUS
<1>2. Threshold' = Threshold
  BY DEF Threshold
<1>3. AcceptedAt(a, b)' = AcceptedAt(a, b)
  BY <1>1, <1>2 DEF AcceptedAt
<1>4. \A p \in AcceptedAt(a, b) : p \in 1..b
  BY <1>1 DEF AcceptedAt
<1>5. PromotedAt(a, b)' = PromotedAt(a, b)
  BY <1>3, <1>4 DEF PromotedAt, Promotes
<1>6. \A l : Spells(a, b, l) => Spells(a, b, l)'
  BY <1>3, <1>5 DEF Spells
<1> QED
  BY <1>3, <1>5, <1>6

\* One word more adds its position to what it counts for.
LEMMA OneMoreWord ==
    ASSUME NEW a \in Nat, NEW b \in Nat, a <= b, bound' = bound,
           \A p \in 1..b : stream'[p] = stream[p], NEW w, stream'[b + 1] = w
    PROVE  /\ AcceptedAt(a, b + 1)' = AcceptedAt(a, b) \cup
                  (IF w >= Threshold THEN {b + 1} ELSE {})
           /\ PromotedAt(a, b + 1)' = PromotedAt(a, b) \cup
                  (IF w >= Threshold /\ Promotes(w) THEN {b + 1} ELSE {})
<1>1. (a + 1)..(b + 1) = ((a + 1)..b) \cup {b + 1}
  OBVIOUS
<1>2. \A p \in (a + 1)..b : p \in 1..b
  OBVIOUS
<1>3. Threshold' = Threshold
  BY DEF Threshold
<1> DEFINE N == (a + 1)..(b + 1)
           I == (a + 1)..b
           n == b + 1
<1>4. N = I \cup {n} /\ stream'[n] = w /\ \A p \in I : stream'[p] = stream[p]
  BY <1>1, <1>2
<1>5. /\ AcceptedAt(a, b + 1)' = {p \in N : stream'[p] >= Threshold}
      /\ AcceptedAt(a, b) = {p \in I : stream[p] >= Threshold}
  BY <1>3 DEF AcceptedAt
<1> HIDE DEF N, I, n
<1>6. AcceptedAt(a, b + 1)' = AcceptedAt(a, b) \cup
          (IF w >= Threshold THEN {n} ELSE {})
  BY <1>4, <1>5
<1>7. /\ PromotedAt(a, b + 1)' =
             {p \in AcceptedAt(a, b + 1)' : stream'[p] % bound = 0}
      /\ PromotedAt(a, b) = {p \in AcceptedAt(a, b) : stream[p] % bound = 0}
      /\ Promotes(w) <=> w % bound = 0
  BY DEF PromotedAt, Promotes
<1>8. AcceptedAt(a, b) \subseteq I
  BY <1>5
<1>9. PromotedAt(a, b + 1)' = PromotedAt(a, b) \cup
          (IF w >= Threshold /\ Promotes(w) THEN {n} ELSE {})
  <2> DEFINE A == AcceptedAt(a, b)
             next_A == AcceptedAt(a, b + 1)'
  <2> HIDE DEF A, next_A
  <2> QED
    BY <1>4, <1>6, <1>7, <1>8 DEF A, next_A
<1> QED
  BY <1>6, <1>9 DEF n

\* While the stored nodes stay, they keep the words they have taken.
LEMMA LevelsKept ==
    ASSUME SamplerTypeOK, LevelsSpellTheStream, UNCHANGED <<bound, random, levels>>,
           \A p \in 1..random : stream'[p] = stream[p]
    PROVE  LevelsSpellTheStream'
<1>1. random \in Nat /\ Len(levels) \in Nat
  BY DEF SamplerTypeOK
<1>2. PICK taken \in [0..Len(levels) -> 0..random] :
          /\ taken[0] = 0 /\ taken[Len(levels)] = random
          /\ \A n \in 1..Len(levels) : Spells(taken[n - 1], taken[n], levels[n])
  BY DEF LevelsSpellTheStream
<1>3. ASSUME NEW n \in 1..Len(levels)
      PROVE  Spells(taken[n - 1], taken[n], levels[n])'
  <2>1. n \in 0..Len(levels) /\ n - 1 \in 0..Len(levels)
    BY <1>1
  <2>2. /\ taken[n - 1] \in Nat /\ taken[n] \in Nat
        /\ \A p \in 1..taken[n] : stream'[p] = stream[p]
    BY <1>1, <2>1
  <2>3. PICK a \in Nat, b \in Nat, l \in {levels[n]} : a = taken[n - 1] /\ b = taken[n]
    BY <2>2
  <2>4. Spells(a, b, l)'
    BY <1>2, <2>2, <2>3, SegmentKept
  <2> QED
    BY <2>3, <2>4
<1>4. \E t \in [0..Len(levels') -> 0..random'] :
          /\ t[0] = 0 /\ t[Len(levels')] = random'
          /\ \A n \in 1..Len(levels') : Spells(t[n - 1], t[n], levels[n])'
  BY <1>2, <1>3
<1> QED
  BY <1>4 DEF LevelsSpellTheStream

\* A stored node takes the words that its level was drawn from.
LEMMA LevelsExtended ==
    ASSUME SamplerTypeOK, LevelsSpellTheStream, random <= next,
           Spells(random, next, level), StoreCopy
    PROVE  LevelsSpellTheStream'
<1>1. /\ random \in Nat /\ next \in Nat /\ Len(levels) \in Nat /\ levels \in Seq(0..Cap)
      /\ level \in 0..Cap
  BY DEF SamplerTypeOK
<1>0. PICK N \in Nat : N = Len(levels)
  BY <1>1
<1>2. PICK taken \in [0..N -> 0..random] :
          /\ taken[0] = 0 /\ taken[N] = random
          /\ \A n \in 1..N : Spells(taken[n - 1], taken[n], levels[n])
  BY <1>0 DEF LevelsSpellTheStream
<1>3. PICK r \in Nat, e \in Nat, k \in 0..Cap : r = random /\ e = next /\ k = level
  BY <1>1
<1> DEFINE t == [n \in 0..(N + 1) |-> IF n = N + 1 THEN e ELSE taken[n]]
<1>4. /\ levels' = Append(levels, k) /\ random' = e
      /\ bound' = bound /\ stream' = stream
  BY <1>3 DEF StoreCopy
<1>5. /\ Len(levels') = N + 1 /\ levels'[N + 1] = k
      /\ \A n \in 1..N : levels'[n] = levels[n]
  BY <1>0, <1>1, <1>4
<1>6. \A a \in Nat, b \in Nat : \A l : Spells(a, b, l) => Spells(a, b, l)'
  BY <1>4, SegmentKept
<1>7. N \in Nat
  OBVIOUS
<1>8. t \in [0..(N + 1) -> 0..e]
  <2>1. \A n \in 0..(N + 1) : n # N + 1 => n \in 0..N
    BY <1>7
  <2>2. \A x \in 0..random : x \in 0..e
    BY <1>1, <1>3
  <2> QED
    BY <1>2, <1>3, <2>1, <2>2
<1>9. t[0] = 0 /\ t[N + 1] = e
  BY <1>2, <1>7
<1>10. ASSUME NEW n \in 1..(N + 1) PROVE Spells(t[n - 1], t[n], levels[n])'
  <2>1. CASE n = N + 1
    <3>1. t[n - 1] = r /\ t[n] = e /\ levels'[n] = k
      BY <1>2, <1>3, <1>5, <1>7, <2>1
    <3>2. Spells(r, e, k)
      BY <1>3
    <3>3. Spells(r, e, k)'
      BY <1>3, <1>6, <3>2
    <3> HIDE DEF t
    <3> QED
      BY <3>1, <3>3
  <2>2. CASE n # N + 1
    <3>1. n \in 1..N /\ n \in 0..N /\ n - 1 \in 0..N /\ n - 1 # N + 1
      BY <1>7, <2>2
    <3>2. t[n - 1] = taken[n - 1] /\ t[n] = taken[n] /\ levels'[n] = levels[n]
      BY <1>5, <2>2, <3>1
    <3>3. taken[n - 1] \in Nat /\ taken[n] \in Nat
      BY <1>1, <1>2, <3>1
    <3>4. PICK a \in Nat, b \in Nat, l \in {levels[n]} : a = taken[n - 1] /\ b = taken[n]
      BY <3>3
    <3>5. Spells(a, b, l)'
      BY <1>2, <1>6, <3>1, <3>4
    <3> HIDE DEF t
    <3> QED
      BY <3>2, <3>4, <3>5
  <2> QED
    BY <2>1, <2>2
<1> HIDE DEF t
<1>11. \E u \in [0..Len(levels') -> 0..random'] :
           /\ u[0] = 0 /\ u[Len(levels')] = random'
           /\ \A n \in 1..Len(levels') : Spells(u[n - 1], u[n], levels[n])'
  BY <1>4, <1>5, <1>8, <1>9, <1>10
<1> QED
  BY <1>11 DEF LevelsSpellTheStream

\* How much of the stream a draw leaves as it was, and the word it takes.
LEMMA DrawsWord ==
    ASSUME SamplerTypeOK, NEW w \in Words, Yields(w)
    PROVE  /\ next' = next + 1 /\ stream'[next + 1] = w
           /\ \A p \in 1..Len(stream) : stream'[p] = stream[p]
<1>1. next \in 0..Len(stream) /\ stream \in Seq(Words) /\ Len(stream) \in Nat
  BY DEF SamplerTypeOK
<1>2. CASE next < Len(stream)
  BY <1>2 DEF Yields
<1>3. CASE ~ next < Len(stream)
  <2>1. stream' = Append(stream, w) /\ next = Len(stream) /\ next' = next + 1
    BY <1>1, <1>3 DEF Yields
  <2> QED
    BY <1>1, <2>1
<1> QED
  BY <1>2, <1>3

\* A draw adds to the level what its word decides, or ends it.
LEMMA SpellDraw ==
    ASSUME SamplerTypeOK, SpellInv, Draw
    PROVE  SpellInv'
<1>1. /\ drawing = "draw" /\ random <= next /\ next <= Len(stream)
      /\ random \in Nat /\ next \in Nat /\ level \in Nat /\ Len(stream) \in Nat
      /\ level < Cap /\ Cap \in Nat
  BY SamplerAssumption DEF Draw, SpellInv, SamplerTypeOK
<1>2. PICK w \in Words :
          /\ Yields(w)
          /\ \/ w < Threshold /\ UNCHANGED <<level, drawing>>
             \/ /\ w >= Threshold /\ Promotes(w)
                /\ level' = level + 1
                /\ drawing' = IF level' < Cap THEN "draw" ELSE "insert"
             \/ /\ w >= Threshold /\ ~ Promotes(w)
                /\ drawing' = "insert"
                /\ UNCHANGED level
  BY DEF Draw
<1>3. PICK r \in Nat, e \in Nat : r = random /\ e = next
  BY <1>1
<1>4. /\ next' = e + 1 /\ stream'[e + 1] = w
      /\ \A p \in 1..e : stream'[p] = stream[p]
      /\ \A p \in 1..r : stream'[p] = stream[p]
  BY <1>1, <1>2, <1>3, DrawsWord
<1>5. random' = r /\ r <= e /\ UNCHANGED <<bound, random, levels>>
  BY <1>1, <1>3 DEF Draw
<1>6. LevelsSpellTheStream'
  BY <1>3, <1>4, <1>5, LevelsKept DEF SpellInv
<1> DEFINE A == AcceptedAt(r, e)
           P == PromotedAt(r, e)
<1>7. A = P /\ level = Cardinality(P)
  BY <1>1, <1>3 DEF SpellInv
<1>8. IsFiniteSet(P) /\ Cardinality(P) \in Nat /\ P \subseteq A /\ e + 1 \notin A
  BY SegmentFinite
<1> DEFINE A1 == AcceptedAt(r, e + 1)'
           P1 == PromotedAt(r, e + 1)'
<1>9. /\ A1 = A \cup (IF w >= Threshold THEN {e + 1} ELSE {})
      /\ P1 = P \cup (IF w >= Threshold /\ Promotes(w) THEN {e + 1} ELSE {})
  BY <1>4, <1>5, OneMoreWord
<1> HIDE DEF A, P, A1, P1
<1>10. CASE w < Threshold /\ UNCHANGED <<level, drawing>>
  <2>1. ~ w >= Threshold
    <3>1. w \in Int /\ Threshold \in Int
      BY Numbers, SamplerAssumption DEF Words, SamplerTypeOK
    <3> QED
      BY <1>10, <3>1
  <2>2. A1 = P1 /\ level' = Cardinality(P1)
    BY <1>7, <1>9, <1>10, <2>1
  <2> QED
    BY <1>1, <1>4, <1>5, <1>6, <1>10, <2>2 DEF SpellInv, A1, P1
<1>11. CASE /\ w >= Threshold /\ Promotes(w)
            /\ level' = level + 1
            /\ drawing' = IF level' < Cap THEN "draw" ELSE "insert"
  <2>1. A1 = A \cup {e + 1} /\ P1 = P \cup {e + 1}
    BY <1>9, <1>11
  <2>2. A1 = P1 /\ e + 1 \in P1
    BY <1>7, <2>1
  <2>3. level' = Cardinality(P1)
    <3>1. e + 1 \notin P
      BY <1>8
    <3>2. Cardinality(P \cup {e + 1}) = Cardinality(P) + 1
      BY <1>8, <3>1, FS_AddElement
    <3> QED
      BY <1>7, <1>11, <2>1, <3>2
  <2>4. CASE level' < Cap
    BY <1>4, <1>5, <1>6, <1>11, <2>2, <2>3, <2>4 DEF SpellInv, A1, P1
  <2>5. CASE ~ level' < Cap
    <3>1. level' = Cap /\ Cap # 0
      BY <1>1, <1>11, <2>5
    <3>2. A1 \ P1 = {}
      BY <2>2
    <3>3. /\ AcceptedAt(random, next)' = A1
          /\ PromotedAt(random, next)' = P1
      BY <1>4, <1>5 DEF A1, P1
    <3>4. random' <= next' /\ next' \in P1 /\ ~ level' < Cap
      BY <1>4, <1>5, <2>2, <2>5
    <3>5. Spells(random, next, level)'
      BY <2>3, <3>1, <3>2, <3>3, <3>4 DEF Spells
    <3> QED
      BY <1>4, <1>5, <1>6, <1>11, <2>5, <3>5 DEF SpellInv
  <2> QED
    BY <2>4, <2>5
<1>12. CASE /\ w >= Threshold /\ ~ Promotes(w)
            /\ drawing' = "insert"
            /\ UNCHANGED level
  <2>1. A1 = A \cup {e + 1} /\ P1 = P
    BY <1>9, <1>12
  <2>2. A1 \ P1 = {e + 1} /\ level' = Cardinality(P1)
    BY <1>7, <1>8, <1>12, <2>1
  <2>3. Spells(random, next, level)'
    <3>1. level' < Cap /\ level' # Cap
      BY <1>1, <1>12
    <3>2. /\ AcceptedAt(random, next)' = A1
          /\ PromotedAt(random, next)' = P1
      BY <1>4, <1>5 DEF A1, P1
    <3>3. random' <= next' /\ next' = e + 1
      BY <1>4, <1>5
    <3> QED
      BY <2>2, <3>1, <3>2, <3>3 DEF Spells
  <2> QED
    BY <1>4, <1>5, <1>6, <1>12, <2>3 DEF SpellInv
<1> QED
  BY <1>2, <1>10, <1>11, <1>12

\* A new draw has taken nothing yet.
LEMMA SpellBegin ==
    ASSUME SamplerTypeOK, SpellInv, CopyGenerator
    PROVE  SpellInv'
<1>1. random \in Nat /\ Cap \in Nat
  BY SamplerAssumption DEF SamplerTypeOK
<1>2. /\ next' = random /\ level' = 0 /\ UNCHANGED <<bound, stream, random, levels>>
      /\ drawing' = IF Cap = 0 THEN "insert" ELSE "draw"
  BY DEF CopyGenerator
<1>3. PICK r \in Nat : r = random
  BY <1>1
<1>4. LevelsSpellTheStream'
  BY <1>2, LevelsKept DEF SpellInv
<1>5. AcceptedAt(r, r)' = {} /\ PromotedAt(r, r)' = {}
  BY <1>2, SegmentFinite, SegmentKept
<1> DEFINE A1 == AcceptedAt(r, r)'
           P1 == PromotedAt(r, r)'
<1>6. A1 = P1 /\ level' = Cardinality(P1) /\ A1 \ P1 = {}
  BY <1>2, <1>5, FS_EmptySet
<1> HIDE DEF A1, P1
<1>7. CASE Cap = 0
  <2>1. Spells(random, next, level)'
    <3>1. /\ AcceptedAt(random, next)' = A1
          /\ PromotedAt(random, next)' = P1
      BY <1>2, <1>3 DEF A1, P1
    <3>2. random' <= next' /\ random' = next' /\ ~ level' < Cap
      BY <1>1, <1>2, <1>7
    <3> QED
      BY <1>6, <1>7, <3>1, <3>2 DEF Spells
  <2> QED
    BY <1>1, <1>2, <1>4, <1>7, <2>1 DEF SpellInv
<1>8. CASE Cap # 0
  BY <1>1, <1>2, <1>3, <1>4, <1>6, <1>8 DEF SpellInv, A1, P1
<1> QED
  BY <1>7, <1>8

LEMMA SpellStep ==
    ASSUME SamplerTypeOK, SpellInv, [SamplerNext]_samplerVars
    PROVE  SpellInv'
<1>1. CASE DropCopy
  <2>1. LevelsSpellTheStream'
    BY <1>1, LevelsKept DEF SpellInv, DropCopy
  <2> QED
    BY <1>1, <2>1 DEF SpellInv, DropCopy
<1>2. CASE StoreCopy
  <2>1. LevelsSpellTheStream'
    BY <1>2, LevelsExtended DEF SpellInv, StoreCopy
  <2> QED
    BY <1>2, <2>1 DEF SpellInv, StoreCopy
<1>3. CASE UNCHANGED samplerVars
  <2>1. UNCHANGED <<bound, stream, random, next, level, levels, drawing>>
    BY <1>3 DEF samplerVars
  <2>2. LevelsSpellTheStream'
    BY <2>1, LevelsKept DEF SpellInv
  <2>3. /\ AcceptedAt(random, next)' = AcceptedAt(random, next)
        /\ PromotedAt(random, next)' = PromotedAt(random, next)
    BY <2>1 DEF AcceptedAt, PromotedAt, Promotes, Threshold
  <2>4. Spells(random, next, level)' <=> Spells(random, next, level)
    BY <2>1, <2>3 DEF Spells
  <2> QED
    BY <2>1, <2>2, <2>3, <2>4 DEF SpellInv
<1> QED
  BY <1>1, <1>2, <1>3, SpellBegin, SpellDraw DEF SamplerNext

\* The levels of the stored nodes are a function of the words that the seed
\* yields, in order and without gaps, also when insertions fail in between
\* and draw from their copy of the generator for nothing.
THEOREM LevelsAreSpelled == SamplerSpec => []LevelsSpellTheStream
<1>1. SamplerInit => SpellInv
  <2> SUFFICES ASSUME SamplerInit PROVE SpellInv
    OBVIOUS
  <2>1. drawing = "idle" /\ levels = <<>> /\ random = 0
    BY DEF SamplerInit
  <2>2. LevelsSpellTheStream
    <3> DEFINE t == [n \in 0..0 |-> 0]
    <3>1. t \in [0..0 -> 0..0] /\ t[0] = 0
      OBVIOUS
    <3>2. Len(levels) = 0 /\ 1..0 = {}
      BY <2>1
    <3> HIDE DEF t
    <3> QED
      BY <2>1, <3>1, <3>2 DEF LevelsSpellTheStream
  <2> QED
    BY <2>1, <2>2 DEF SpellInv
<1>2. SamplerTypeOK /\ SpellInv /\ [SamplerNext]_samplerVars => SpellInv'
  BY SpellStep
<1>3. SpellInv => LevelsSpellTheStream
  BY DEF SpellInv
<1>4. SamplerSpec => []SamplerTypeOK
  BY LevelsAreTyped
<1> QED
  BY <1>1, <1>2, <1>3, <1>4, PTL DEF SamplerSpec
=============================================================================
