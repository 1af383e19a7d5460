----------------------------- MODULE HnswIndex -----------------------------
(***************************************************************************)
(* HnswIndex (src/src/hnsw_index.cpp): an append-only layered graph over   *)
(* the stored vectors, its insertion and its approximate search.           *)
(*                                                                         *)
(* One call runs at a time: the header excludes add() from every other     *)
(* operation, and searches only read, so overlapping searches add nothing. *)
(* A call is a run of small steps because it can throw (an allocation can  *)
(* fail) between any two of them.  Nodes are numbered from 0 as in nodes_; *)
(* a list of links is the set of its members, and the order in which a     *)
(* list is walked is left open.  Candidates carry their node's ID, which   *)
(* the comparison reads.                                                   *)
(***************************************************************************)
EXTENDS Ranking, Sequences

CONSTANTS
    Ids, Vectors, Cosine,   \* as in VectorStore
    Counts,                 \* the result counts callers ask for
    Breadths,               \* the values of efSearch callers give, 0 included
    M, EfConstruction,      \* HnswConfig
    TopLevel,               \* the cap of sample_level, 32 in the code
    Capacity                \* bound of the model: the number of nodes

ASSUME DataAssumption ==
    /\ Ids \subseteq Int
    /\ Cosine \in [Vectors \X Vectors -> Int]
    /\ Counts \subseteq Nat /\ Breadths \subseteq Nat
\* What the constructor accepts.
ASSUME ConfigAssumption ==
    /\ M \in Nat /\ M >= 2
    /\ EfConstruction \in Nat /\ EfConstruction >= M
    /\ TopLevel \in Nat /\ Capacity \in Nat

VARIABLES
    nodes,      \* nodes_: ids, vectors and links, the node being added included
    size,       \* nodes_.size()
    index,      \* index_by_id_
    entry,      \* entry_
    maxLevel,   \* max_level_
    efSearch,   \* config_.efSearch
    draws,      \* the levels that the seed makes sample_level return, in order
    rng,        \* random_: the number of levels drawn so far
    pc,         \* where the running call is
    call,       \* its arguments and what it computed from them at its start
    layer,      \* the layer being walked
    cur,        \* the node that greedy() has reached
    pending, nearest, visited,  \* the locals of search_layer()
    todo,       \* the neighbours its inner loop has not come to yet
    updates,    \* the link lists that add() has staged
    reply       \* what the last call returned or threw

committed == <<size, index, entry, maxLevel, rng>>
walk      == <<layer, cur, pending, nearest, visited, todo>>
vars == <<nodes, committed, efSearch, draws, pc, call, walk, updates, reply>>

API == INSTANCE VectorStore WITH
           Breadths <- 0..Capacity,
           items    <- [i \in DOMAIN index |-> nodes[index[i]].vector]

NoCall == [op |-> "none"]
Adding == call.op = "add"

\* The number of nodes whose insertion is complete, and the node in the making.
Count == IF Adding THEN size - 1 ELSE size
Inserted == size - 1

Scored(v, n) == [node |-> n, id |-> nodes[n].id, score |-> Cosine[<<v, nodes[n].vector>>]]
ScoredAll(v, N) == {Scored(v, n) : n \in N}
NodesOf(C) == {c.node : c \in C}
Results(C) == {Candidate(c.id, c.score) : c \in C}

----------------------------------------------------------------------------
(* select_neighbors(): walk the candidates best first, keep those that are *)
(* closer to the query than to anything kept before, then fill the list.   *)

\* Mutant: only what the walk itself chose counts as selected.
KeptBeforeIgnoringRequired(c, D, required) == NodesOf(Above(D, c))

\* What has been kept when the walk comes to c, if D are the diverse ones.
KeptBefore(c, D, required) == required \cup NodesOf(Above(D, c))

Diverse(c, kept) == \A n \in kept : Cosine[<<nodes[c.node].vector, nodes[n].vector>>] < c.score

\* The one D that the greedy walk produces.
Diversified(C, limit, required) ==
    UNION {D \in SUBSET C : \A c \in C :
               c \in D <=> LET kept == KeptBefore(c, D, required)
                           IN  /\ c.node \notin required
                               /\ Cardinality(required) + Cardinality(Above(D, c)) < limit
                               /\ Diverse(c, kept)}

\* Mutant: no backfilling with pruned candidates.
SelectNeighborsUnfilled(C, limit, required) ==
    required \cup NodesOf(Diversified(C, limit, required))

SelectNeighbors(C, limit, required) ==
    LET D      == Diversified(C, limit, required)
        pruned == {c \in C \ D : c.node \notin required}
        room   == limit - Cardinality(required) - Cardinality(D)
    IN  required \cup NodesOf(D) \cup NodesOf(Best(room, pruned))

DegreeCap(l) == IF l = 0 THEN 2 * M ELSE M

\* Mutants: a list that has grown is never pruned, or is pruned like any other
\* selection, without the neighbours in insertion order.
RelinkedUnpruned(n, l) == nodes[n].links[l] \cup {Inserted}
RelinkedUnchained(n, l) ==
    LET links == nodes[n].links[l] \cup {Inserted}
    IN  IF Cardinality(links) <= DegreeCap(l) THEN links
        ELSE SelectNeighbors(ScoredAll(nodes[n].vector, links), DegreeCap(l), {})

\* A list that grew past its cap is pruned; at the base layer the neighbours
\* in insertion order always stay.
Relinked(n, l) ==
    LET links == nodes[n].links[l] \cup {Inserted}
    IN  IF Cardinality(links) <= DegreeCap(l)
        THEN links
        ELSE SelectNeighbors(ScoredAll(nodes[n].vector, links), DegreeCap(l),
                             IF l = 0 THEN {n - 1, n + 1} \cap (0..Inserted) ELSE {})

----------------------------------------------------------------------------
Init ==
    /\ nodes = [n \in {} |-> {}]
    /\ size = 0
    /\ index = [i \in {} |-> 0]
    /\ entry = 0
    /\ maxLevel = 0
    /\ efSearch \in Breadths \ {0}
    /\ draws \in [0..(Capacity - 1) -> 0..TopLevel]
    /\ rng = 0
    /\ pc = "idle"
    /\ call = NoCall
    /\ layer = 0 /\ cur = 0
    /\ pending = {} /\ nearest = {} /\ visited = {} /\ todo = {}
    /\ updates = {}
    /\ reply = API!NoReply

\* The call's locals go out of scope.
Return(r) ==
    /\ reply' = r
    /\ pc' = "idle"
    /\ call' = NoCall
    /\ layer' = 0 /\ cur' = 0
    /\ pending' = {} /\ nearest' = {} /\ visited' = {} /\ todo' = {}
    /\ updates' = {}

Refuse(r) ==
    /\ pc = "idle"
    /\ reply' = r
    /\ UNCHANGED <<nodes, committed, efSearch, draws, pc, call, walk, updates>>

\* validate() throws, in add() or in search(), or set_ef_search() or a query
\* is given a breadth of zero.
RefuseInvalid == Refuse(API!Invalid)

RefuseDuplicate(i) == i \in DOMAIN index /\ Refuse(API!Duplicate(i))

\* search() that asks for nothing, or of an empty index, returns no results.
SearchNothing(v, k, b) ==
    /\ b > 0
    /\ k = 0 \/ size = 0
    /\ Refuse(API!Found(v, k, 0, {}))

\* Mutant: set_ef_search() accepts zero.
SetEfSearchUnchecked(b) ==
    /\ pc = "idle"
    /\ efSearch' = b
    /\ reply' = API!NoReply
    /\ UNCHANGED <<nodes, committed, draws, pc, call, walk, updates>>

SetEfSearch(b) ==
    /\ pc = "idle"
    /\ b > 0
    /\ efSearch' = b
    /\ reply' = API!NoReply
    /\ UNCHANGED <<nodes, committed, draws, pc, call, walk, updates>>

\* add() draws a level and appends the node; the walk starts at entry_.
BeginAdd(i, v) ==
    /\ pc = "idle"
    /\ size < Capacity
    /\ i \notin DOMAIN index
    /\ LET level == draws[rng]
           node  == [id |-> i, vector |-> v, links |-> [l \in 0..level |-> {}]]
       IN  /\ nodes' = [n \in 0..size |-> IF n = size THEN node ELSE nodes[n]]
           /\ call' = [op |-> "add", query |-> v, count |-> 0,
                       ef |-> Lesser(EfConstruction, size), floor |-> level]
    /\ size' = size + 1
    /\ pc' = IF size = 0 THEN "commit" ELSE "descend"
    /\ layer' = maxLevel
    /\ cur' = entry
    /\ reply' = API!NoReply
    /\ UNCHANGED <<index, entry, maxLevel, rng, efSearch, draws,
                   pending, nearest, visited, todo, updates>>

\* Mutant: a breadth below the result count is taken as it is.
SearchBreadthUnraised(k, b) == Lesser(size, b)

SearchBreadth(k, b) == Lesser(size, Greater(Lesser(k, size), b))

\* search() with the index's breadth or with one given for this query.
BeginSearch(v, k, b) ==
    /\ pc = "idle"
    /\ b > 0 /\ k > 0 /\ size > 0
    /\ call' = [op |-> "search", query |-> v, count |-> k,
                ef |-> SearchBreadth(k, b), floor |-> 0]
    /\ pc' = "descend"
    /\ layer' = maxLevel
    /\ cur' = entry
    /\ reply' = API!NoReply
    /\ UNCHANGED <<nodes, committed, efSearch, draws,
                   pending, nearest, visited, todo, updates>>

----------------------------------------------------------------------------
(* greedy(), layer by layer *)

Neighbours == nodes[cur].links[layer]
\* Mutant: the node itself is not compared, so greedy() always moves on.
ClosestOtherNeighbour ==
    IF Neighbours = {} THEN cur ELSE Nearest(ScoredAll(call.query, Neighbours)).node

ClosestNeighbour == Nearest(ScoredAll(call.query, {cur} \cup Neighbours)).node

Approach ==
    /\ pc = "descend"
    /\ layer > call.floor
    /\ ClosestNeighbour # cur
    /\ cur' = ClosestNeighbour
    /\ UNCHANGED <<nodes, committed, efSearch, draws, pc, call,
                   layer, pending, nearest, visited, todo, updates, reply>>

Descend ==
    /\ pc = "descend"
    /\ layer > call.floor
    /\ ClosestNeighbour = cur
    /\ layer' = layer - 1
    /\ UNCHANGED <<nodes, committed, efSearch, draws, pc, call,
                   cur, pending, nearest, visited, todo, updates, reply>>

----------------------------------------------------------------------------
(* search_layer() *)

\* Its first loop: the entries are where the walk of this layer starts.
EnterLayer(entries) ==
    /\ visited' = NodesOf(entries)
    /\ pending' = entries
    /\ nearest' = Best(call.ef, entries)
    /\ todo' = {}

BeginLayer ==
    /\ pc = "descend"
    /\ layer <= call.floor
    /\ pc' = "search"
    /\ EnterLayer({Scored(call.query, cur)})
    /\ UNCHANGED <<nodes, committed, efSearch, draws, call,
                   layer, cur, updates, reply>>

\* The nearest pending candidate cannot improve a full list.
Hopeless ==
    /\ pending # {}
    /\ Cardinality(nearest) = call.ef
    /\ Better(Farthest(nearest), Nearest(pending))

Expand ==
    /\ pc = "search"
    /\ todo = {} /\ pending # {} /\ ~ Hopeless
    /\ LET current == Nearest(pending)
       IN  /\ pending' = pending \ {current}
           /\ todo' = nodes[current.node].links[layer] \ visited
    /\ UNCHANGED <<nodes, committed, efSearch, draws, pc, call,
                   layer, cur, nearest, visited, updates, reply>>

\* Mutant: between equal scores the candidate that came first stays.
ImprovesOnScore(c) ==
    Cardinality(nearest) < call.ef \/ c.score > Farthest(nearest).score

Improves(c) == Cardinality(nearest) < call.ef \/ Better(c, Farthest(nearest))

Visit(n) ==
    /\ pc = "search"
    /\ n \in todo
    /\ todo' = todo \ {n}
    /\ visited' = visited \cup {n}
    /\ LET c == Scored(call.query, n)
       IN  IF Improves(c)
           THEN /\ pending' = pending \cup {c}
                /\ nearest' = PushBounded(call.ef, nearest, c)
           ELSE UNCHANGED <<pending, nearest>>
    /\ UNCHANGED <<nodes, committed, efSearch, draws, pc, call,
                   layer, cur, updates, reply>>

LayerDone == pc = "search" /\ todo = {} /\ (pending = {} \/ Hopeless)

----------------------------------------------------------------------------
(* The rest of add() and of search() *)

\* What add() links the new node to in this layer.
NewLinks ==
    LET chosen == SelectNeighbors(nearest, M, {})
    IN  IF layer = 0 THEN chosen \cup {Inserted - 1} ELSE chosen

\* Mutant: the lists that link back are replaced at once and not staged.
LinkInPlace ==
    /\ LayerDone /\ Adding
    /\ nodes' = [n \in 0..Inserted |-> IF layer \notin DOMAIN nodes[n].links THEN nodes[n] ELSE
                    [nodes[n] EXCEPT !.links[layer] =
                        IF n = Inserted THEN NewLinks
                        ELSE IF n \in NewLinks THEN Relinked(n, layer) ELSE @]]
    /\ IF layer = 0
       THEN pc' = "commit" /\ UNCHANGED walk
       ELSE /\ layer' = layer - 1
            /\ EnterLayer(nearest)
            /\ UNCHANGED <<pc, cur>>
    /\ UNCHANGED <<committed, efSearch, draws, call, updates, reply>>

\* Link the new node, stage the lists that link back, go down one layer.
Link ==
    /\ LayerDone /\ Adding
    /\ nodes' = [nodes EXCEPT ![Inserted].links[layer] = NewLinks]
    /\ updates' = updates \cup
          {[node |-> n, layer |-> layer, links |-> Relinked(n, layer)] : n \in NewLinks}
    /\ IF layer = 0
       THEN pc' = "commit" /\ UNCHANGED walk
       ELSE /\ layer' = layer - 1
            /\ EnterLayer(nearest)
            /\ UNCHANGED <<pc, cur>>
    /\ UNCHANGED <<committed, efSearch, draws, call, reply>>

StagedLinks(n, l) ==
    LET staged == {u \in updates : u.node = n /\ u.layer = l}
    IN  IF staged = {} THEN nodes[n].links[l] ELSE (CHOOSE u \in staged : TRUE).links

\* Mutant: max_level_ is raised, entry_ stays with the first node.
RaiseLevelOnly ==
    /\ entry' = IF Inserted = 0 THEN Inserted ELSE entry
    /\ maxLevel' = Greater(call.floor, maxLevel)

RaiseEntry ==
    IF Inserted = 0 \/ call.floor > maxLevel
    THEN entry' = Inserted /\ maxLevel' = call.floor
    ELSE UNCHANGED <<entry, maxLevel>>

\* emplace() into the ID map succeeds and nothing that follows can throw.
Commit ==
    /\ pc = "commit"
    /\ LET i == nodes[Inserted].id
       IN  /\ index' = [j \in DOMAIN index \cup {i} |-> IF j = i THEN Inserted ELSE index[j]]
           /\ Return(API!Stored(i))
    /\ nodes' = [n \in 0..Inserted |-> [nodes[n] EXCEPT !.links =
                     [l \in DOMAIN nodes[n].links |-> StagedLinks(n, l)]]]
    /\ RaiseEntry
    /\ rng' = rng + 1
    /\ UNCHANGED <<size, efSearch, draws>>

\* Mutants: the handler forgets to pop the node, or the levels were drawn from
\* random_ itself and not from a copy of it.
FailAddKeepsNode ==
    /\ pc # "idle" /\ Adding
    /\ Return(API!Failed)
    /\ UNCHANGED <<nodes, committed, efSearch, draws>>
FailAddConsumesDraw ==
    /\ pc # "idle" /\ Adding
    /\ size' = size - 1 /\ rng' = rng + 1
    /\ nodes' = [n \in 0..(size - 2) |-> nodes[n]]
    /\ Return(API!Failed)
    /\ UNCHANGED <<index, entry, maxLevel, efSearch, draws>>

\* Something throws in add() before its commit: the node is popped again.
FailAdd ==
    /\ pc # "idle" /\ Adding
    /\ size' = size - 1
    /\ nodes' = [n \in 0..(size - 2) |-> nodes[n]]
    /\ Return(API!Failed)
    /\ UNCHANGED <<index, entry, maxLevel, rng, efSearch, draws>>

FailSearch ==
    /\ pc # "idle" /\ ~ Adding
    /\ Return(API!Failed)
    /\ UNCHANGED <<nodes, committed, efSearch, draws>>

Answer ==
    /\ LayerDone /\ ~ Adding
    /\ LET best == Best(Lesser(call.count, size), nearest)
       IN  Return(API!Found(call.query, call.count, call.ef, Results(best)))
    /\ UNCHANGED <<nodes, committed, efSearch, draws>>

----------------------------------------------------------------------------
\* The steps of a running call that do not throw.
Step ==
    \/ Approach \/ Descend \/ BeginLayer
    \/ Expand \/ (\E n \in todo : Visit(n))
    \/ Link \/ Commit \/ Answer

Next ==
    \/ RefuseInvalid
    \/ \E i \in Ids : RefuseDuplicate(i)
    \/ \E b \in Breadths : SetEfSearch(b)
    \/ \E i \in Ids, v \in Vectors : BeginAdd(i, v)
    \/ \E v \in Vectors, k \in Counts, b \in Breadths \cup {efSearch} :
          SearchNothing(v, k, b) \/ BeginSearch(v, k, b)
    \/ Step
    \/ FailAdd \/ FailSearch

Spec == Init /\ [][Next]_vars

\* A call runs on its caller's thread and does not stop between two steps.
FairSpec == Spec /\ WF_vars(Step)
----------------------------------------------------------------------------
(* select_neighbors() as its loops, to hold the declarative form against.  *)

\* std::sort with better(): the candidates, best first.
BestFirst(C) ==
    CHOOSE s \in [1..Cardinality(C) -> C] :
        \A m, n \in 1..Cardinality(C) : m < n => Better(s[m], s[n])

\* One round of the first loop: what is selected and pruned after it has come to c.
Consider(c, limit, was) ==
    IF Cardinality(was.selected) = limit \/ c.node \in was.selected THEN was
    ELSE IF Diverse(c, was.selected) THEN [was EXCEPT !.selected = @ \cup {c.node}]
    ELSE [was EXCEPT !.pruned = Append(@, c)]

\* The first loop, over the candidates in the order of s.
Walk(s, limit, required) ==
    LET after[n \in 0..Len(s)] ==
            IF n = 0 THEN [selected |-> required, pruned |-> <<>>]
            ELSE Consider(s[n], limit, after[n - 1])
    IN  after[Len(s)]

\* The second loop, over what the first has pruned.
Backfill(selected, pruned, limit) ==
    LET after[n \in 0..Len(pruned)] ==
            IF n = 0 THEN selected
            ELSE IF Cardinality(after[n - 1]) = limit THEN after[n - 1]
            ELSE after[n - 1] \cup {pruned[n].node}
    IN  after[Len(pruned)]

SelectByLoops(C, limit, required) ==
    LET walked == Walk(BestFirst(C), limit, required)
    IN  Backfill(walked.selected, walked.pruned, limit)

----------------------------------------------------------------------------
(* Properties *)

Candidates == [node : 0..(size - 1), id : Ids, score : Int]

Calls == [op : {"add", "search"}, query : Vectors, count : Nat,
          ef : 0..Capacity, floor : 0..TopLevel]

\* The variables hold what the C++ types and the call's stage say they hold.
TypeOK ==
    /\ size \in 0..Capacity
    /\ DOMAIN nodes = 0..(size - 1)
    /\ \A n \in 0..(size - 1) : \E top \in 0..TopLevel :
          nodes[n] \in [id : Ids, vector : Vectors,
                        links : [0..top -> SUBSET (0..(size - 1))]]
    /\ DOMAIN index \subseteq Ids
    /\ \A i \in DOMAIN index : index[i] \in 0..(Count - 1)
    /\ entry \in Nat /\ maxLevel \in 0..TopLevel
    /\ efSearch \in Breadths \ {0}
    /\ draws \in [0..(Capacity - 1) -> 0..TopLevel]
    /\ rng \in 0..Capacity
    /\ pc \in {"idle", "descend", "search", "commit"}
    /\ call \in Calls \cup {NoCall}
    /\ pc = "idle" <=> call = NoCall
    /\ layer \in 0..TopLevel /\ cur \in Nat
    /\ pending \subseteq Candidates /\ nearest \subseteq Candidates
    /\ visited \subseteq 0..(size - 1) /\ todo \subseteq 0..(size - 1)
    /\ \A u \in updates : /\ u.node \in 0..(size - 1) /\ u.layer \in 0..TopLevel
                          /\ u.links \subseteq 0..(size - 1)

\* Insertion order is a chain in both directions at the base layer, whatever
\* the vectors are and however often lists were pruned: this is what keeps
\* the base layer connected on duplicate and zero vectors (add(), the edge to
\* inserted - 1, and the required neighbours of its pruning).
Chained ==
    \A n \in 1..(Count - 1) : n - 1 \in nodes[n].links[0] /\ n \in nodes[n - 1].links[0]

\* A link at a layer leads to another stored node that has this layer, so
\* links[layer] is never out of range while greedy() and search_layer() walk.
LinksInRange ==
    \A n \in 0..(Count - 1) : \A l \in DOMAIN nodes[n].links :
        \A m \in nodes[n].links[l] :
            m \in 0..(Count - 1) /\ m # n /\ l \in DOMAIN nodes[m].links

\* No list exceeds 2M links at the base layer or M above it.
DegreesCapped ==
    \A n \in 0..(size - 1) : \A l \in DOMAIN nodes[n].links :
        Cardinality(nodes[n].links[l]) <= DegreeCap(l)

\* For every node, every set of candidates around it and the required lists of
\* the two callers, the declarative selection is what the loops produce.
SelectionIsWhatTheLoopsDo ==
    reply.kind = "stored" =>
        \A n \in 0..(size - 1) : \A N \in SUBSET ((0..(size - 1)) \ {n}) :
            \A required \in {{}, {n - 1, n + 1} \cap N} :
                LET C == ScoredAll(nodes[n].vector, N)
                IN  \A limit \in M..(2 * M) :
                        SelectNeighbors(C, limit, required) = SelectByLoops(C, limit, required)

\* A link may lack its opposite only because the other end's list was pruned,
\* and a pruned list is full: backfilling leaves no slot unused.
MissingBacklinkOnlyWhenFull ==
    \A n, m \in 0..(Count - 1) : \A l \in DOMAIN nodes[n].links :
        m \in nodes[n].links[l] =>
            \/ n \in nodes[m].links[l]
            \/ Cardinality(nodes[m].links[l]) = DegreeCap(l)

\* entry_ is a node of the highest level, which is max_level_.
EntryOnTop ==
    Count > 0 =>
        /\ entry \in 0..(Count - 1)
        /\ DOMAIN nodes[entry].links = 0..maxLevel
        /\ \A n \in 0..(Count - 1) : DOMAIN nodes[n].links \subseteq 0..maxLevel

\* The ID map and the nodes describe the same store: one entry for each
\* complete insertion, none for the one under way.
IdsIndexed ==
    /\ \A i \in DOMAIN index : nodes[index[i]].id = i
    /\ \A n \in 0..(Count - 1) : nodes[n].id \in DOMAIN index /\ index[nodes[n].id] = n

\* A seed determines every node's level, also when insertions failed and were
\* tried again in between: a failed one gives its draw back.
LevelsFollowSeed ==
    /\ rng = Count
    /\ \A n \in 0..(size - 1) : DOMAIN nodes[n].links = 0..draws[n]

\* The walk only stands on stored nodes that have the layer it walks; a new
\* node never meets itself.
WalkInRange ==
    /\ pc = "descend" => cur \in 0..(Count - 1) /\ layer \in DOMAIN nodes[cur].links
    /\ pc = "search" =>
          \A n \in visited \cup todo : n \in 0..(Count - 1) /\ layer \in DOMAIN nodes[n].links

\* search_layer() keeps exactly the ef best of the nodes it has visited, in
\* whatever order it came by them.
NearestIsBest ==
    pc = "search" => nearest = Best(call.ef, ScoredAll(call.query, visited))

\* A base-layer search ends with ef candidates: it cannot run out of nodes to
\* expand while there are stored nodes that it has not seen.
BaseSearchFillsUp ==
    LayerDone /\ layer = 0 => Cardinality(nearest) = call.ef

\* The graph that searches see.
Graph == <<[n \in 0..(Count - 1) |-> nodes[n]], index, entry, maxLevel, rng>>

\* The graph, the ID map and the level generator change only in the step that
\* completes an insertion: not while it runs, not when it throws, and never
\* in a search.
OnlyStoredChangesGraph == [][Graph' # Graph => reply'.kind = "stored"]_vars

\* The index keeps the promise of a vector store: each add() takes effect at
\* once or not at all, and a query gets min(count, size) distinct IDs with
\* their scores, the exact Top-K when ef reaches the size.
ImplementsStore == API!Spec

\* Every call returns or throws.
CallsEnd == pc # "idle" ~> pc = "idle"
=============================================================================
