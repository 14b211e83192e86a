--------------------------- MODULE NodePoolProofs ---------------------------
(***************************************************************************)
(* Proofs about NodePool, for every set of nodes and countries, any        *)
(* catalogs, any order of the nodes and any size of the pool.              *)
(***************************************************************************)
EXTENDS NodePool, FiniteSetTheorems, TLAPS

(* Sets of nodes are finite.                                               *)
LEMMA NodesFinite ==
  ASSUME NEW S \in SUBSET Nodes
  PROVE  IsFiniteSet(S) /\ Cardinality(S) \in Nat
BY PoolAssumption, FS_Subset, FS_CardinalityType

(* The k best of a set are of the set, and k or all there are.             *)
LEMMA BestSpec ==
  ASSUME NEW S \in SUBSET Nodes, NEW k \in 0..Max, NEW by \in Orders
  PROVE  /\ Best(S, k, by) \in SUBSET S
         /\ Cardinality(Best(S, k, by)) <= k
         /\ Cardinality(Best(S, k, by))
              = IF Cardinality(S) < k THEN Cardinality(S) ELSE k
<1> DEFINE T == CHOOSE T \in SUBSET S : First(T, S, k, by)
<1>1. Best(S, k, by) = T
  BY DEF Best
<1>2. \E U \in SUBSET S : First(U, S, k, by)
  BY PoolAssumption
<1>3. T \in SUBSET S /\ First(T, S, k, by)
  BY <1>2
<1>4. Cardinality(T) = IF Cardinality(S) < k THEN Cardinality(S) ELSE k
  BY <1>3 DEF First
<1>5. Cardinality(S) \in Nat
  BY NodesFinite
<1>6. Max \in Nat
  BY PoolAssumption
<1>7. Cardinality(T) <= k
  BY <1>4, <1>5, <1>6
<1> HIDE DEF T
<1> QED
  BY <1>1, <1>3, <1>4, <1>7

(* A round of additions keeps the pool within its limit.                   *)
LEMMA AddSpec ==
  ASSUME NEW A \in SUBSET Nodes, NEW S \in SUBSET Nodes,
         NEW limit \in 0..Max, NEW by \in Orders, Cardinality(A) <= limit
  PROVE  /\ add(A, S, limit, by) \in SUBSET Nodes
         /\ Cardinality(add(A, S, limit, by)) <= limit
<1> DEFINE k == limit - Cardinality(A)
           B == Best(S \ A, k, by)
<1>1. add(A, S, limit, by) = A \union B
  BY DEF add
<1>2. Cardinality(A) \in Nat /\ IsFiniteSet(A)
  BY NodesFinite
<1>3. Max \in Nat
  BY PoolAssumption
<1>4. k \in 0..Max
  BY <1>2, <1>3
<1>5. S \ A \in SUBSET Nodes
  OBVIOUS
<1>6. B \in SUBSET (S \ A) /\ Cardinality(B) <= k
  BY <1>4, <1>5, BestSpec
<1>7. B \in SUBSET Nodes
  BY <1>6
<1>8. Cardinality(B) \in Nat /\ IsFiniteSet(B)
  BY <1>7, NodesFinite
<1>9. A \intersect B = {}
  BY <1>6
<1> HIDE DEF B
<1>10. Cardinality(A \union B) = Cardinality(A) + Cardinality(B)
  <2>1. Cardinality(A \union B)
          = Cardinality(A) + Cardinality(B) - Cardinality(A \intersect B)
    BY <1>2, <1>8, FS_Union
  <2>2. Cardinality(A \intersect B) = 0
    BY <1>9, FS_EmptySet
  <2> QED
    BY <2>1, <2>2, <1>2, <1>8
<1>11. Cardinality(A \union B) <= limit
  BY <1>10, <1>6, <1>2, <1>8, <1>3
<1> QED
  BY <1>1, <1>7, <1>11

(* A round of additions takes all it is offered, unless it fills the pool; *)
(* once the pool is full, a round adds nothing.                            *)
LEMMA AddFills ==
  ASSUME NEW A \in SUBSET Nodes, NEW S \in SUBSET Nodes,
         NEW limit \in 0..Max, NEW by \in Orders, Cardinality(A) <= limit
  PROVE  /\ A \subseteq add(A, S, limit, by)
         /\ add(A, S, limit, by) \subseteq A \union S
         /\ ~(S \subseteq add(A, S, limit, by)) => Cardinality(add(A, S, limit, by)) = limit
         /\ Cardinality(A) = limit => add(A, S, limit, by) = A
<1> DEFINE k == limit - Cardinality(A)
           R == S \ A
           B == Best(R, k, by)
<1>1. add(A, S, limit, by) = A \union B
  BY DEF add
<1>2. /\ IsFiniteSet(A) /\ Cardinality(A) \in Nat /\ Max \in Nat
      /\ R \in SUBSET Nodes /\ IsFiniteSet(R) /\ Cardinality(R) \in Nat
  BY NodesFinite, PoolAssumption
<1>3. k \in 0..Max
  BY <1>2
<1> HIDE DEF R
<1>4. /\ B \in SUBSET R
      /\ Cardinality(B) = IF Cardinality(R) < k THEN Cardinality(R) ELSE k
  BY <1>2, <1>3, BestSpec
<1>5. IsFiniteSet(B) /\ Cardinality(B) \in Nat
  BY <1>2, <1>4, NodesFinite
<1> HIDE DEF B
<1>6. A \intersect B = {}
  BY <1>4 DEF R
<1>7. Cardinality(A \union B) = Cardinality(A) + Cardinality(B)
  <2>1. Cardinality(A \union B)
          = Cardinality(A) + Cardinality(B) - Cardinality(A \intersect B)
    BY <1>2, <1>5, FS_Union
  <2> QED
    BY <1>2, <1>5, <1>6, <2>1, FS_EmptySet
<1>8. ASSUME ~(S \subseteq A \union B) PROVE Cardinality(A \union B) = limit
  <2>1. B # R
    BY <1>8 DEF R
  <2>2. Cardinality(B) # Cardinality(R)
    BY <1>2, <1>4, <2>1, FS_Subset
  <2>3. Cardinality(B) = k
    BY <1>4, <2>2
  <2> QED
    BY <1>2, <1>7, <2>3
<1>9. ASSUME Cardinality(A) = limit PROVE A \union B = A
  <2>1. Cardinality(B) = 0
    BY <1>2, <1>3, <1>4, <1>9
  <2>2. B = {}
    BY <1>5, <2>1, FS_EmptySet
  <2> QED
    BY <2>2
<1>10. A \union B \subseteq A \union S
  BY <1>4 DEF R
<1> QED
  BY <1>1, <1>8, <1>9, <1>10

(* The node that covers a country is one node of the country, and there is *)
(* one if the country has an available node in the pool.                   *)
LEMMA CoverSpec ==
  ASSUME NEW avail \in SUBSET Nodes, NEW old \in SUBSET Nodes, NEW c \in Countries
  PROVE  /\ Cover(c, avail, old) \subseteq avail \intersect Of(c)
         /\ avail \intersect old \intersect Of(c) # {} => Cover(c, avail, old) # {}
         /\ \A n \in Cover(c, avail, old) : Cover(c, avail, old) = {n}
<1> DEFINE all == avail \intersect Of(c)
           from == IF all \intersect old # {} THEN all \intersect old ELSE all
           best == Best(from, 1, "quality")
<1>1. Cover(c, avail, old) = best
  BY DEF Cover
<1>2. from \in SUBSET Nodes /\ from \subseteq all
  OBVIOUS
<1>3. avail \intersect old \intersect Of(c) # {} => from # {}
  OBVIOUS
<1> HIDE DEF from
<1>4. 1 \in 0..Max /\ "quality" \in Orders
  BY PoolAssumption DEF Orders
<1>5. /\ best \in SUBSET from
      /\ Cardinality(best) = IF Cardinality(from) < 1 THEN Cardinality(from) ELSE 1
  BY <1>2, <1>4, BestSpec
<1>6. /\ IsFiniteSet(best) /\ Cardinality(best) \in Nat
      /\ IsFiniteSet(from) /\ Cardinality(from) \in Nat
  BY <1>2, <1>5, NodesFinite
<1> HIDE DEF best
<1>7. ASSUME from # {} PROVE Cardinality(best) = 1
  <2>1. Cardinality(from) # 0
    BY <1>6, <1>7, FS_EmptySet
  <2> QED
    BY <1>5, <1>6, <2>1
<1>8. from # {} => best # {}
  BY <1>7, FS_EmptySet
<1>9. ASSUME NEW n \in best PROVE best = {n}
  <2>1. Cardinality(best) = 1
    BY <1>5, <1>7, <1>9
  <2>2. PICK m : best = {m}
    BY <1>6, <2>1, FS_Singleton
  <2> QED
    BY <1>9, <2>2
<1> QED
  BY <1>1, <1>2, <1>3, <1>5, <1>8, <1>9

(* rebalance_valid_pool returns nodes that are protected or available, at  *)
(* most as many as it is allowed.                                          *)
LEMMA RebalanceSpec ==
  ASSUME NEW old \in SUBSET Nodes, NEW avail \in SUBSET Nodes,
         NEW prot \in SUBSET Nodes, NEW asked \in SUBSET Nodes, NEW limit \in 0..Max
  PROVE  /\ rebalance_valid_pool(old, avail, prot, asked, limit) \in SUBSET Nodes
         /\ Cardinality(rebalance_valid_pool(old, avail, prot, asked, limit)) <= limit
         /\ rebalance_valid_pool(old, avail, prot, asked, limit) \subseteq prot \union avail
<1> DEFINE wanted == asked \intersect avail
           first == add({}, prot, limit, "id")
           kept == add(first, wanted, limit, "id")
           Open == {d \in Countries : kept \intersect Of(d) = {}}
           Seen == {d \in Open : avail \intersect old \intersect Of(d) # {}}
           Covers(C) == UNION {Cover(d, avail, old) : d \in C}
           anchors == Covers(Seen)
           later == Covers(Open \ Seen)
           some == add(kept, anchors, limit, "country")
           wide == add(some, later, limit, "country")
           rest == add(wide, avail \intersect old, limit, "quality")
           whole == add(rest, avail, limit, "quality")
<1>0. rebalance_valid_pool(old, avail, prot, asked, limit) = whole
  BY DEF rebalance_valid_pool
<1>1. "id" \in Orders /\ "country" \in Orders /\ "quality" \in Orders
  BY DEF Orders
<1>2. {} \in SUBSET Nodes /\ Cardinality({}) <= limit
  BY FS_EmptySet
<1>3. wanted \in SUBSET Nodes /\ avail \intersect old \in SUBSET Nodes
  OBVIOUS
<1>4. anchors \in SUBSET avail /\ later \in SUBSET avail
  BY CoverSpec
<1>5. anchors \in SUBSET Nodes /\ later \in SUBSET Nodes
  BY <1>4
<1> HIDE DEF anchors, later
<1>6. /\ first \in SUBSET Nodes /\ Cardinality(first) <= limit
      /\ first \subseteq prot
  BY <1>1, <1>2, AddSpec, AddFills
<1> HIDE DEF first
<1>7. /\ kept \in SUBSET Nodes /\ Cardinality(kept) <= limit
      /\ kept \subseteq prot \union avail
  BY <1>1, <1>3, <1>6, AddSpec, AddFills
<1> HIDE DEF kept
<1>8. /\ some \in SUBSET Nodes /\ Cardinality(some) <= limit
      /\ some \subseteq prot \union avail
  BY <1>1, <1>4, <1>5, <1>7, AddSpec, AddFills
<1> HIDE DEF some
<1>9. /\ wide \in SUBSET Nodes /\ Cardinality(wide) <= limit
      /\ wide \subseteq prot \union avail
  BY <1>1, <1>4, <1>5, <1>8, AddSpec, AddFills
<1> HIDE DEF wide
<1>10. /\ rest \in SUBSET Nodes /\ Cardinality(rest) <= limit
       /\ rest \subseteq prot \union avail
  BY <1>1, <1>3, <1>9, AddSpec, AddFills
<1> HIDE DEF rest
<1>11. /\ whole \in SUBSET Nodes /\ Cardinality(whole) <= limit
       /\ whole \subseteq prot \union avail
  BY <1>1, <1>10, AddSpec, AddFills
<1> QED
  BY <1>0, <1>11

(* Where the pool leaves out a country that had an available node, every   *)
(* place went to a node that is protected or asked for, or to the only     *)
(* node of another country.                                                *)
LEMMA RebalanceAnchors ==
  ASSUME NEW old \in SUBSET Nodes, NEW avail \in SUBSET Nodes,
         NEW prot \in SUBSET Nodes, NEW asked \in SUBSET Nodes, NEW limit \in 0..Max,
         NEW c \in Countries, avail \intersect old \intersect Of(c) # {},
         rebalance_valid_pool(old, avail, prot, asked, limit) \intersect Of(c) = {},
         NEW n \in rebalance_valid_pool(old, avail, prot, asked, limit)
  PROVE  \/ n \in prot \union (asked \intersect avail)
         \/ rebalance_valid_pool(old, avail, prot, asked, limit)
              \intersect Of(CountryOf(n)) = {n}
<1> DEFINE wanted == asked \intersect avail
           first == add({}, prot, limit, "id")
           kept == add(first, wanted, limit, "id")
           Open == {d \in Countries : kept \intersect Of(d) = {}}
           Seen == {d \in Open : avail \intersect old \intersect Of(d) # {}}
           Covers(C) == UNION {Cover(d, avail, old) : d \in C}
           anchors == Covers(Seen)
           later == Covers(Open \ Seen)
           some == add(kept, anchors, limit, "country")
           wide == add(some, later, limit, "country")
           rest == add(wide, avail \intersect old, limit, "quality")
           whole == add(rest, avail, limit, "quality")
<1>0. rebalance_valid_pool(old, avail, prot, asked, limit) = whole
  BY DEF rebalance_valid_pool
<1>1. "id" \in Orders /\ "country" \in Orders /\ "quality" \in Orders
  BY DEF Orders
<1>2. {} \in SUBSET Nodes /\ Cardinality({}) <= limit
  BY FS_EmptySet
<1>3. wanted \in SUBSET Nodes /\ avail \intersect old \in SUBSET Nodes
  OBVIOUS
<1>4. Covers(Seen) \in SUBSET Nodes /\ Covers(Open \ Seen) \in SUBSET Nodes
  BY CoverSpec
<1>5. \A d \in Seen : d \in Countries /\ kept \intersect Of(d) = {}
  OBVIOUS
<1>6. kept \intersect Of(c) = {} => c \in Seen
  OBVIOUS
<1>7. \A m \in anchors : \E d \in Seen : m \in Cover(d, avail, old)
  OBVIOUS
<1>8. \A d \in Seen : Cover(d, avail, old) \subseteq anchors
  OBVIOUS
<1>9. anchors \in SUBSET Nodes /\ later \in SUBSET Nodes
  BY <1>4
<1> HIDE DEF anchors, later, Seen, Open, Covers
<1>10. /\ first \in SUBSET Nodes /\ Cardinality(first) <= limit
       /\ first \subseteq prot
  BY <1>1, <1>2, AddSpec, AddFills
<1> HIDE DEF first
<1>11. /\ kept \in SUBSET Nodes /\ Cardinality(kept) <= limit
       /\ kept \subseteq prot \union wanted
  BY <1>1, <1>3, <1>10, AddSpec, AddFills
<1> HIDE DEF kept
<1>12. /\ some \in SUBSET Nodes /\ Cardinality(some) <= limit
       /\ kept \subseteq some /\ some \subseteq kept \union anchors
       /\ ~(anchors \subseteq some) => Cardinality(some) = limit
  BY <1>1, <1>9, <1>11, AddSpec, AddFills
<1> HIDE DEF some
<1>13. /\ wide \in SUBSET Nodes /\ Cardinality(wide) <= limit
       /\ some \subseteq wide
       /\ Cardinality(some) = limit => wide = some
  BY <1>1, <1>9, <1>12, AddSpec, AddFills
<1> HIDE DEF wide
<1>14. /\ rest \in SUBSET Nodes /\ Cardinality(rest) <= limit
       /\ wide \subseteq rest
       /\ Cardinality(wide) = limit => rest = wide
  BY <1>1, <1>3, <1>13, AddSpec, AddFills
<1> HIDE DEF rest
<1>15. /\ rest \subseteq whole
       /\ Cardinality(rest) = limit => whole = rest
  BY <1>1, <1>14, AddFills
<1> HIDE DEF whole
<1>16. some \subseteq whole /\ kept \subseteq whole
  BY <1>12, <1>13, <1>14, <1>15
<1>17. c \in Seen
  BY <1>0, <1>6, <1>16
<1>18. ~(anchors \subseteq some)
  <2>1. PICK m : m \in Cover(c, avail, old)
    BY <1>17, CoverSpec
  <2>2. m \in anchors /\ m \in Of(c)
    BY <1>8, <1>17, <2>1, CoverSpec
  <2>3. m \notin some
    BY <1>0, <1>16, <2>2
  <2> QED
    BY <2>2, <2>3
<1>19. whole = some
  BY <1>12, <1>13, <1>14, <1>15, <1>18
<1>20. CASE n \in kept
  BY <1>11, <1>20
<1>21. CASE n \notin kept
  <2>1. n \in anchors
    BY <1>0, <1>12, <1>19, <1>21
  <2>2. PICK d \in Seen : n \in Cover(d, avail, old)
    BY <1>7, <2>1
  <2>3. d \in Countries /\ kept \intersect Of(d) = {}
    BY <1>5, <2>2
  <2>4. n \in Of(d) /\ CountryOf(n) = d
    BY <2>2, <2>3, CoverSpec DEF Of
  <2>5. ASSUME NEW m \in whole, m \in Of(d) PROVE m = n
    <3>1. m \in anchors
      BY <1>12, <1>19, <2>3, <2>5
    <3>2. PICK e \in Seen : m \in Cover(e, avail, old)
      BY <1>7, <3>1
    <3>3. e \in Countries
      BY <1>5, <3>2
    <3>4. m \in Of(e)
      BY <3>2, <3>3, CoverSpec
    <3>5. e = d
      BY <2>5, <3>4 DEF Of
    <3>6. Cover(d, avail, old) = {n}
      BY <2>2, <2>3, CoverSpec
    <3> QED
      BY <3>2, <3>5, <3>6
  <2>6. whole \intersect Of(d) = {n}
    BY <1>0, <2>4, <2>5
  <2> QED
    BY <1>0, <2>4, <2>6
<1> QED
  BY <1>20, <1>21
-----------------------------------------------------------------------------
(* What is written keeps its shape and its bound.                          *)

Shape(p) == p \in [Nodes -> Status] /\ Cardinality(Listed(p)) <= Max

LEMMA WriteSpec ==
  ASSUME NEW S \in SUBSET Nodes, NEW st \in [Nodes -> Status], NEW kept,
         Cardinality(S) <= Max, WriteNodes(S, st, kept)
  PROVE  Shape(pool')
<1>1. pool' \in [Nodes -> Status]
  BY DEF WriteNodes, Status
<1>2. Listed(pool') \in SUBSET S
  BY DEF WriteNodes, Listed
<1>3. IsFiniteSet(S) /\ Cardinality(S) \in Nat
  BY NodesFinite
<1>4. Cardinality(Listed(pool')) <= Cardinality(S)
  BY <1>2, <1>3, FS_Subset
<1>5. Listed(pool') \in SUBSET Nodes
  BY <1>2
<1>6. Cardinality(Listed(pool')) \in Nat
  BY <1>5, NodesFinite
<1> QED
  BY <1>1, <1>3, <1>4, <1>6, PoolAssumption DEF Shape

LEMMA ReadSpec ==
  ASSUME NTypeOK
  PROVE  /\ read_nodes \in [Nodes -> Status]
         /\ Listed(read_nodes) \in SUBSET Listed(pool)
BY DEF NTypeOK, read_nodes, Listed, Status

(* A test writes what it has found of one node that is listed.             *)
LEMMA TestSpec ==
  ASSUME NTypeOK, NEW n \in Nodes, read_nodes[n] # "none", NEW v \in Status,
         WriteNodes(Nodes, [read_nodes EXCEPT ![n] = v], {})
  PROVE  Shape(pool')
<1> DEFINE st == [read_nodes EXCEPT ![n] = v]
<1>1. st \in [Nodes -> Status] /\ \A m \in Nodes : st[m] # "none" => read_nodes[m] # "none"
  BY ReadSpec
<1>2. pool' = [m \in Nodes |-> IF m \in Nodes /\ (st[m] = "available" \/ m \in {})
                              THEN st[m] ELSE "none"]
  BY DEF WriteNodes
<1>3. pool' \in [Nodes -> Status]
  BY <1>1, <1>2 DEF Status
<1>4. Listed(pool') \in SUBSET Listed(read_nodes)
  BY <1>1, <1>2 DEF Listed
<1>5. Listed(pool') \in SUBSET Listed(pool) /\ Listed(pool) \in SUBSET Nodes
      /\ Listed(pool') \in SUBSET Nodes
  BY <1>4, ReadSpec DEF Listed
<1>6. Cardinality(Listed(pool')) <= Cardinality(Listed(pool))
  BY <1>5, NodesFinite, FS_Subset
<1>7. Cardinality(Listed(pool)) <= Max
  BY DEF NTypeOK
<1>8. /\ Cardinality(Listed(pool)) \in Nat
      /\ Cardinality(Listed(pool')) \in Nat
  BY <1>5, NodesFinite
<1> QED
  BY <1>3, <1>6, <1>7, <1>8, PoolAssumption DEF Shape

(* mark_candidate_unavailable puts the node back only where there is room. *)
LEMMA MarkSpec ==
  ASSUME NTypeOK, NEW n \in Nodes, mark_candidate_unavailable(n)
  PROVE  Shape(pool')
<1> DEFINE st == [read_nodes EXCEPT ![n] = "unavailable"]
           new == rebalance_valid_pool(Listed(st), Available(st),
                                       used \intersect Listed(st), {}, Max)
           all == IF Cardinality(new) < Max THEN new \union {n} ELSE new
<1>1. st \in [Nodes -> Status]
  BY ReadSpec DEF Status
<1>2. Listed(st) \in SUBSET Nodes /\ Available(st) \in SUBSET Nodes
      /\ used \intersect Listed(st) \in SUBSET Nodes /\ {} \in SUBSET Nodes
  BY DEF Listed, Available
<1>3. Max \in 0..Max /\ Max \in Nat
  BY PoolAssumption
<1>4. WriteNodes(all, st, Nodes)
  BY DEF mark_candidate_unavailable
<1> HIDE DEF st
<1>5. new \in SUBSET Nodes /\ Cardinality(new) <= Max
  BY <1>2, <1>3, RebalanceSpec
<1> HIDE DEF new
<1>6. IsFiniteSet(new) /\ Cardinality(new) \in Nat
  BY <1>5, NodesFinite
<1>7. Cardinality(new \union {n}) <= Cardinality(new) + 1
  <2>1. CASE n \in new
    <3>1. new \union {n} = new
      BY <2>1
    <3> QED
      BY <1>6, <3>1
  <2>2. CASE n \notin new
    <3>1. Cardinality(new \union {n}) = Cardinality(new) + 1
      BY <1>6, <2>2, FS_AddElement
    <3> QED
      BY <1>6, <3>1
  <2> QED
    BY <2>1, <2>2
<1>8. Cardinality(new \union {n}) \in Nat
  BY <1>5, NodesFinite
<1>9. all \in SUBSET Nodes /\ Cardinality(all) <= Max
  BY <1>3, <1>5, <1>6, <1>7, <1>8
<1> HIDE DEF all
<1> QED
  BY <1>1, <1>4, <1>9, WriteSpec
-----------------------------------------------------------------------------
(* Type correctness, one lemma per group of actions.                       *)

LEMMA MergePoolType ==
  ASSUME NTypeOK, NEW t \in Threads, NEW why, merge_pool(t, why)
  PROVE  NTypeOK'
<1> DEFINE st == [n \in Nodes |-> IF n \in scan.passed THEN "available" ELSE scan.old[n]]
           old == {n \in Listed(scan.old) : n \notin scan.black \/ n \in used}
           all == old \union scan.found
           avail == all \intersect Available(st)
           prot == used \intersect all
           new == rebalance_valid_pool(old, avail, prot, manual, Target)
<1>1. st \in [Nodes -> Status]
  BY DEF NTypeOK, Scans, Status
<1>2. old \in SUBSET Nodes /\ avail \in SUBSET Nodes
      /\ prot \in SUBSET Nodes /\ manual \in SUBSET Nodes
  BY DEF NTypeOK, Scans, Listed, Available
<1>3. Target \in 0..Max /\ Max \in Nat
  BY PoolAssumption
<1>4. \E kept : WriteNodes(new, st, kept)
  BY DEF merge_pool
<1> HIDE DEF st, old, all, avail, prot
<1>5. new \in SUBSET Nodes /\ Cardinality(new) <= Target
  BY <1>2, <1>3, RebalanceSpec
<1> HIDE DEF new
<1>6. Cardinality(new) \in Nat
  BY <1>5, NodesFinite
<1>7. Cardinality(new) <= Max
  BY <1>3, <1>5, <1>6
<1>8. Shape(pool')
  BY <1>1, <1>4, <1>5, <1>7, WriteSpec
<1>9. pc' \in [Threads -> {"idle", "begin", "fetch", "probe", "probed", "wait", "queued",
                          "done", "failed", "ended"}]
  BY DEF merge_pool, Leave, Goto, NTypeOK
<1> QED
  BY <1>8, <1>9 DEF NTypeOK, merge_pool, Shape, report, Released, NoScan, Scans, Status

LEMMA MergeCountryType == ASSUME NTypeOK, merge_country PROVE NTypeOK'
<1> DEFINE st == [n \in Nodes |-> IF n \in scan.passed THEN "available" ELSE scan.old[n]]
           old == Listed(scan.old) \ scan.failed
           all == old \union scan.found
           avail == all \intersect Available(st)
           asked == (scan.found \intersect avail) \ (scan.prot \union Available(scan.old))
           prot == scan.prot \intersect all
           new == rebalance_valid_pool(old, avail, prot, asked, Max)
<1>1. st \in [Nodes -> Status]
  BY DEF NTypeOK, Scans, Status
<1>2. old \in SUBSET Nodes /\ avail \in SUBSET Nodes
      /\ prot \in SUBSET Nodes /\ asked \in SUBSET Nodes
  BY DEF NTypeOK, Scans, Listed, Available
<1>3. Max \in 0..Max
  BY PoolAssumption
<1>4. WriteNodes(new, st, Nodes) /\ manual' = asked
  BY DEF merge_country
<1> HIDE DEF st, old, all, avail, prot, asked
<1>5. new \in SUBSET Nodes /\ Cardinality(new) <= Max
  BY <1>2, <1>3, RebalanceSpec
<1> HIDE DEF new
<1>6. Shape(pool')
  BY <1>1, <1>4, <1>5, WriteSpec
<1>7. manual' \in SUBSET Nodes
  BY <1>2, <1>4
<1> QED
  BY <1>6, <1>7 DEF NTypeOK, merge_country, Shape, NoScan, Scans, Goto, Status

LEMMA RetainedSpec ==
  ASSUME NTypeOK, NEW found \in Retained(scan.old)
  PROVE  found \in SUBSET Nodes /\ found \subseteq Listed(scan.old)
<1> DEFINE prot == used \intersect Listed(scan.old)
           left == IF Target > Cardinality(prot) THEN Target - Cardinality(prot) ELSE 0
           rest == Available(scan.old) \ prot
<1>1. /\ prot \in SUBSET Nodes /\ prot \subseteq Listed(scan.old)
      /\ rest \in SUBSET Nodes /\ rest \subseteq Listed(scan.old)
  BY DEF Listed, Available
<1>2. found \in {prot, prot \union Best(rest, left, "quality")}
  BY DEF Retained
<1>3. Cardinality(prot) \in Nat
  BY <1>1, NodesFinite
<1>4. left \in 0..Max
  BY <1>3, PoolAssumption
<1> HIDE DEF prot, left, rest
<1>5. Best(rest, left, "quality") \in SUBSET rest
  BY <1>1, <1>4, BestSpec DEF Orders
<1> QED
  BY <1>1, <1>2, <1>5

LEMMA FetchType ==
  ASSUME NTypeOK, NEW t \in Threads, fetch_candidates(t) PROVE NTypeOK'
<1>1. PICK listed \in Catalogs : fetch_candidates(t)!(listed)
  BY DEF fetch_candidates
<1>2. listed \in SUBSET Nodes
  BY PoolAssumption
<1>3. scan' \in Scans
  <2>1. CASE scan.of \in Countries
    <3> DEFINE Q == candidate_queue(listed \intersect Of(scan.of), scan.found, {})
    <3>1. scan' = [scan EXCEPT !.black = black, !.queue = Q]
      BY <1>1, <2>1
    <3>2. Q \in SUBSET Nodes
      BY <1>2 DEF candidate_queue
    <3> HIDE DEF Q
    <3> QED
      BY <3>1, <3>2 DEF NTypeOK, Scans
  <2>2. CASE scan.of \notin Countries
    <3>1. PICK found \in Retained(scan.old) :
            LET failing == {n \in Nodes : scan.old[n] = "unavailable"} \ found IN
            scan' = [scan EXCEPT !.found = found,
                                 !.black = black \union failing,
                                 !.queue = candidate_queue(
                                   Available(scan.old) \union (listed \ black), found, failing)]
      BY <1>1, <2>2
    <3> DEFINE failing == {n \in Nodes : scan.old[n] = "unavailable"} \ found
               Q == candidate_queue(Available(scan.old) \union (listed \ black), found, failing)
               B == black \union failing
    <3>2. found \in SUBSET Nodes
      BY RetainedSpec
    <3>3. Q \in SUBSET Nodes /\ B \in SUBSET Nodes
      BY <1>2 DEF candidate_queue, Available, NTypeOK
    <3>4. scan' = [scan EXCEPT !.found = found, !.black = B, !.queue = Q]
      BY <3>1
    <3> HIDE DEF Q, B
    <3> QED
      BY <3>2, <3>3, <3>4 DEF NTypeOK, Scans
  <2> QED
    BY <2>1, <2>2
<1> QED
  BY <1>1, <1>3 DEF NTypeOK, ScanStep, poolVars, lockVars, Goto

LEMMA ProbeType ==
  ASSUME NTypeOK, NEW t \in Threads, NEW n \in Nodes, probe_nodes(t, n) PROVE NTypeOK'
<1>1. scan' \in Scans
  <2>1. CASE probe_available(n)
    <3> DEFINE size == IF scan.of \in Countries THEN Max ELSE Target
               found == merge_probe_results(scan.found, n, size)
    <3>1. found \in SUBSET Nodes
      BY DEF NTypeOK, Scans, merge_probe_results
    <3>2. scan' = [scan EXCEPT !.queue = scan.queue \ {n}, !.passed = scan.passed \union {n},
                             !.black = scan.black \ {n}, !.found = found]
      BY <2>1 DEF probe_available
    <3> HIDE DEF found
    <3> QED
      BY <3>1, <3>2 DEF NTypeOK, Scans
  <2>2. CASE probe_unavailable(n)
    BY <2>2 DEF probe_unavailable, NTypeOK, Scans
  <2> QED
    BY <2>1, <2>2 DEF probe_nodes
<1> QED
  BY <1>1 DEF NTypeOK, probe_nodes, ScanStep, poolVars, lockVars, Goto

LEMMA BeginType ==
  ASSUME NTypeOK, NEW t \in Threads,
         maintenance_busy(t) \/ operation_busy(t) \/ maintain_valid_nodes(t)
           \/ probed(t) \/ fetch_failed(t) \/ yield(t)
  PROVE  NTypeOK'
<1>1. CASE maintenance_busy(t)
  BY <1>1 DEF NTypeOK, maintenance_busy, ScanStep, poolVars, lockVars, Goto
<1>2. CASE operation_busy(t)
  BY <1>2 DEF NTypeOK, operation_busy, poolVars, lockVars, Goto
<1>3. CASE maintain_valid_nodes(t)
  <2>1. read_nodes \in [Nodes -> Status]
    BY ReadSpec
  <2>2. scan' \in Scans
    BY <1>3, <2>1 DEF maintain_valid_nodes, NoScan, Scans, Scopes
  <2> QED
    BY <1>3, <2>2 DEF NTypeOK, maintain_valid_nodes, poolVars, Goto
<1>4. CASE probed(t)
  BY <1>4 DEF NTypeOK, probed, ScanStep, poolVars, lockVars, Goto
<1>5. CASE fetch_failed(t)
  BY <1>5 DEF NTypeOK, fetch_failed, report, Leave, Released, NoScan, Scans, poolVars, Goto, Status
<1>6. CASE yield(t)
  BY <1>6 DEF NTypeOK, yield, report, Leave, Released, NoScan, Scans, poolVars, Goto, Status
<1> QED
  BY <1>1, <1>2, <1>3, <1>4, <1>5, <1>6

LEMMA RefresherType == ASSUME NTypeOK, Refresher \/ queue_finally PROVE NTypeOK'
<1>1. CASE refresh_country_nodes
  <2>1. read_nodes \in [Nodes -> Status]
    BY ReadSpec
  <2>2. scan' \in Scans
    BY <1>1, <2>1 DEF NTypeOK, refresh_country_nodes, NoScan, Scans, Scopes
  <2> QED
    BY <1>1, <2>2 DEF NTypeOK, refresh_country_nodes, poolVars, Goto, Threads
<1>2. CASE refresh_busy
  BY <1>2 DEF NTypeOK, refresh_busy, poolVars, lockVars, Goto, Event
<1>3. CASE refresh_failed
  BY <1>3 DEF NTypeOK, refresh_failed, NoScan, Scans, poolVars, Goto, Status
<1>4. CASE queue_take
  BY <1>4 DEF NTypeOK, queue_take, poolVars, Goto, Threads
<1>5. CASE queue_timeout
  BY <1>5 DEF NTypeOK, queue_timeout, poolVars, lockVars, Goto
<1>6. CASE refresh_publish
  BY <1>6 DEF NTypeOK, refresh_publish, poolVars, lockVars, Goto
<1>7. CASE refresh_end
  BY <1>7 DEF NTypeOK, refresh_end, poolVars, Goto
<1>8. CASE queue_finally
  BY <1>8 DEF NTypeOK, queue_finally, poolVars, lockVars
<1> QED
  BY <1>1, <1>2, <1>3, <1>4, <1>5, <1>6, <1>7, <1>8, MergeCountryType DEF Refresher

LEMMA EnvironmentType ==
  ASSUME NTypeOK, Environment \/ collector_loop PROVE NTypeOK'
<1>1. ASSUME NEW c \in Scopes, start_country_refresh(c) PROVE NTypeOK'
  <2>1. refresh' = [st |-> "running", of |-> c] /\ c \in Scopes
    BY <1>1 DEF start_country_refresh
  <2>2. pc' = [pc EXCEPT !["refresher"] = "begin"] \/ pc' = [pc EXCEPT !["refresher"] = "queued"]
    BY <1>1 DEF start_country_refresh, Goto
  <2>3. maint' \in {maint, "refresher"} /\ requested' \in {requested, TRUE}
    BY <1>1 DEF start_country_refresh
  <2>4. UNCHANGED <<pool, black, used, manual, priority, resume, lease, scan, clearing>>
    BY <1>1 DEF start_country_refresh, poolVars
  <2>5. refresh' \in [st : {"idle", "running", "done", "failed"}, of : Scopes \union {None}]
    BY <2>1
  <2>6. pc' \in [Threads -> {"idle", "begin", "fetch", "probe", "probed", "wait", "queued",
                            "done", "failed", "ended"}]
    BY <2>2 DEF NTypeOK
  <2>7. maint' \in Threads \union {None} /\ requested' \in BOOLEAN
    BY <2>3 DEF NTypeOK, Threads
  <2> QED
    BY <2>4, <2>5, <2>6, <2>7 DEF NTypeOK
<1>2. CASE schedule_valid_pool_replenishment
  BY <1>2 DEF NTypeOK, schedule_valid_pool_replenishment, poolVars, lockVars, Goto
<1>3. CASE take_lease
  BY <1>3 DEF NTypeOK, take_lease, Outside, poolVars
<1>4. CASE test_node_by_id
  <2>1. PICK n \in Nodes : test_node_by_id!(n)
    BY <1>4 DEF test_node_by_id
  <2>2. Shape(pool') /\ black' \in SUBSET Nodes
    <3>1. "available" \in Status /\ "unavailable" \in Status
      BY DEF Status
    <3>2. CASE UNCHANGED <<pool, black>>
      BY <3>2 DEF NTypeOK, Shape
    <3>3. ASSUME read_nodes[n] # "none",
                 WriteNodes(Nodes, [read_nodes EXCEPT ![n] = "available"], {}),
                 UNCHANGED black
          PROVE  Shape(pool') /\ black' \in SUBSET Nodes
      BY <3>1, <3>3, TestSpec DEF NTypeOK
    <3>4. ASSUME read_nodes[n] # "none",
                 WriteNodes(Nodes, [read_nodes EXCEPT ![n] = "unavailable"], {}),
                 black' = black \union {n}
          PROVE  Shape(pool') /\ black' \in SUBSET Nodes
      BY <3>1, <3>4, TestSpec DEF NTypeOK
    <3> QED
      BY <2>1, <3>2, <3>3, <3>4
  <2> QED
    BY <2>1, <2>2 DEF NTypeOK, Outside, Shape
<1>5. CASE stage_main_assignment
  BY <1>5 DEF NTypeOK, stage_main_assignment, poolVars, lockVars
<1>6. ASSUME NEW n \in Nodes, mark_candidate_unavailable(n) PROVE NTypeOK'
  BY <1>6, MarkSpec DEF NTypeOK, mark_candidate_unavailable, Outside, Shape
<1>7. ASSUME NEW n \in Nodes, mark_blacklisted(n) \/ load_blacklist(n) \/ reserve(n)
      PROVE NTypeOK'
  BY <1>7 DEF NTypeOK, mark_blacklisted, load_blacklist, reserve, Outside
<1>8. CASE collector_loop
  BY <1>8 DEF NTypeOK, collector_loop, poolVars, lockVars, Goto
<1> QED
  BY <1>1, <1>2, <1>3, <1>4, <1>5, <1>6, <1>7, <1>8 DEF Environment

LEMMA InitType == ASSUME Init PROVE NTypeOK
BY DEF Init, NTypeOK, NoScan, Scans, Status, Threads, Scopes

LEMMA NextType == ASSUME NTypeOK, [Next]_vars PROVE NTypeOK'
<1>1. ASSUME NEW t \in Threads, Scan(t) PROVE NTypeOK'
  BY <1>1, BeginType, FetchType, ProbeType, MergePoolType DEF Scan
<1>2. CASE UNCHANGED vars
  BY <1>2 DEF NTypeOK, vars, poolVars, lockVars, Listed
<1> QED
  BY <1>1, <1>2, RefresherType, EnvironmentType DEF Next
-----------------------------------------------------------------------------
(* The lease, the scan for all countries and the refresher.                *)

LEMMA OwnedByScan ==
  ASSUME NInv, NEW t \in Threads, Scan(t)
  PROVE  Leased' /\ ForAll' /\ AtWork'
<1> USE DEF Threads
<1>1. CASE maintenance_busy(t) \/ operation_busy(t) \/ fetch_candidates(t) \/ probed(t)
  BY <1>1
  DEF NInv, NTypeOK, Leased, ForAll, AtWork, Scanning, maintenance_busy, operation_busy,
      fetch_candidates, probed, ScanStep, lockVars, Goto, At, Scans
<1>2. CASE \E n \in Nodes : probe_nodes(t, n)
  BY <1>2
  DEF NInv, NTypeOK, Leased, ForAll, AtWork, Scanning, probe_nodes, probe_available,
      probe_unavailable, ScanStep, lockVars, Goto, At, Scans
<1>3. CASE maintain_valid_nodes(t)
  BY <1>3, PoolAssumption
  DEF NInv, NTypeOK, Leased, ForAll, AtWork, Scanning, maintain_valid_nodes, MayChange,
      NoScan, Scopes, Goto, At
<1>4. CASE fetch_failed(t) \/ yield(t) \/ (\E why \in {"over", "budget"} : merge_pool(t, why))
  <2>1. scan'.of = None /\ lease' = None /\ Scanning(t)
    BY <1>4 DEF fetch_failed, yield, merge_pool, stop_probing, Released, NoScan, Scanning, At
  <2>2. \E at \in {"idle", "begin", "wait", "ended"} :
          /\ pc' = [pc EXCEPT ![t] = at]
          /\ t = "refresher" => at = "ended"
    BY <1>4 DEF fetch_failed, yield, merge_pool, Leave, Goto
  <2>3. lease = t /\ \A u \in Threads : Scanning(u) => u = t
    BY <2>1 DEF NInv, Leased
  <2>4. Leased'
    BY <2>2, <2>3 DEF NInv, NTypeOK, Leased, Scanning
  <2>5. ForAll'
    BY <2>1, PoolAssumption DEF ForAll, Scopes
  <2>6. ASSUME t # "refresher" PROVE AtWork'
    <3>1. scan.of # "ALL"
      BY <2>3, <2>6 DEF NInv, ForAll
    <3>2. refresh' = refresh
      BY <1>4, <3>1 DEF fetch_failed, yield, merge_pool, report
    <3>3. pc'["refresher"] = pc["refresher"]
      BY <2>2, <2>6 DEF NInv, NTypeOK
    <3> QED
      BY <3>2, <3>3 DEF NInv, AtWork
  <2>7. ASSUME t = "refresher" PROVE AtWork'
    BY <2>2, <2>7 DEF NInv, NTypeOK, AtWork
  <2> QED
    BY <2>4, <2>5, <2>6, <2>7
<1> QED
  BY <1>1, <1>2, <1>3, <1>4 DEF Scan

LEMMA OwnedByRefresher ==
  ASSUME NInv, Refresher \/ queue_finally
  PROVE  Leased' /\ ForAll' /\ AtWork'
<1> USE DEF Threads
<1>1. CASE refresh_country_nodes
  BY <1>1, PoolAssumption
  DEF NInv, NTypeOK, Leased, ForAll, AtWork, Scanning, refresh_country_nodes, MayChange,
      NoScan, Goto, At
<1>2. CASE refresh_busy \/ queue_take \/ queue_timeout \/ refresh_publish \/ refresh_end
  BY <1>2
  DEF NInv, NTypeOK, Leased, ForAll, AtWork, Scanning, refresh_busy, queue_take, queue_timeout,
      refresh_publish, refresh_end, lockVars, Goto, At
<1>3. CASE merge_country \/ refresh_failed
  <2>1. scan'.of = None /\ lease' = None /\ Scanning("refresher") /\ refresh' = refresh
    BY <1>3 DEF merge_country, refresh_failed, NoScan, Scanning, At
  <2>2. \E at \in {"done", "failed"} : pc' = [pc EXCEPT !["refresher"] = at]
    BY <1>3 DEF merge_country, refresh_failed, Goto
  <2>3. \A u \in Threads : Scanning(u) => u = "refresher"
    BY <2>1 DEF NInv, Leased
  <2>4. Leased'
    BY <2>2, <2>3 DEF NInv, NTypeOK, Leased, Scanning
  <2>5. ForAll'
    BY <2>1, PoolAssumption DEF ForAll, Scopes
  <2>6. AtWork'
    BY <2>1, <2>2 DEF NInv, NTypeOK, AtWork, Scanning
  <2> QED
    BY <2>4, <2>5, <2>6
<1>4. CASE queue_finally
  BY <1>4 DEF NInv, Leased, ForAll, AtWork, Scanning, queue_finally, lockVars
<1> QED
  BY <1>1, <1>2, <1>3, <1>4 DEF Refresher

LEMMA OwnedByOthers ==
  ASSUME NInv, Environment \/ collector_loop
  PROVE  Leased' /\ ForAll' /\ AtWork'
<1> USE DEF Threads
<1>1. ASSUME NEW c \in Scopes, start_country_refresh(c)
      PROVE  Leased' /\ ForAll' /\ AtWork'
  <2>1. \E at \in {"begin", "queued"} : pc' = [pc EXCEPT !["refresher"] = at]
    BY <1>1 DEF start_country_refresh, Goto
  <2>2. pc["refresher"] = "idle" /\ refresh'.st = "running" /\ UNCHANGED <<lease, scan>>
    BY <1>1 DEF start_country_refresh, At
  <2> QED
    BY <2>1, <2>2 DEF NInv, NTypeOK, Leased, ForAll, AtWork, Scanning
<1>2. CASE schedule_valid_pool_replenishment \/ collector_loop
  BY <1>2
  DEF NInv, NTypeOK, Leased, ForAll, AtWork, Scanning, schedule_valid_pool_replenishment,
      collector_loop, lockVars, Goto, At
<1>3. CASE take_lease
  BY <1>3, PoolAssumption
  DEF NInv, Leased, ForAll, AtWork, Scanning, take_lease, MayChange, Outside
<1>4. CASE test_node_by_id
  <2>1. lease = "other" /\ UNCHANGED <<refresh, pc, scan>>
    BY <1>4 DEF test_node_by_id, Outside
  <2> QED
    BY <2>1 DEF NInv, Leased, ForAll, AtWork, Scanning
<1>5. CASE stage_main_assignment
  BY <1>5 DEF NInv, Leased, ForAll, AtWork, Scanning, stage_main_assignment, lockVars
<1>6. ASSUME NEW n \in Nodes,
             \/ mark_candidate_unavailable(n) \/ mark_blacklisted(n)
             \/ load_blacklist(n) \/ reserve(n)
      PROVE  Leased' /\ ForAll' /\ AtWork'
  <2>1. UNCHANGED <<refresh, pc, scan, lease>>
    BY <1>6 DEF mark_candidate_unavailable, mark_blacklisted, load_blacklist, reserve, Outside
  <2> QED
    BY <2>1 DEF NInv, Leased, ForAll, AtWork, Scanning
<1> QED
  BY <1>1, <1>2, <1>3, <1>4, <1>5, <1>6 DEF Environment

LEMMA OwnedInit == ASSUME Init PROVE Leased /\ ForAll /\ AtWork
BY PoolAssumption DEF Init, Leased, ForAll, AtWork, Scanning, NoScan, Threads, Scopes

-----------------------------------------------------------------------------
(* What a scan has found and what has failed.                              *)

Sound == FoundKnown /\ FailedOut /\ NotProbedYet

LEMMA SoundFetch ==
  ASSUME NInv, NEW t \in Threads, fetch_candidates(t) PROVE Sound'
<1>1. PICK listed \in Catalogs : fetch_candidates(t)!(listed)
  BY DEF fetch_candidates
<1>2. scan \in Scans /\ pc \in [Threads -> {"idle", "begin", "fetch", "probe", "probed", "wait",
                                          "queued", "done", "failed", "ended"}]
  BY DEF NInv, NTypeOK
<1>3. scan.failed = {}
  BY <1>1 DEF NInv, NotProbedYet
<1>4. /\ scan'.failed = {} /\ scan'.old = scan.old /\ scan'.passed = scan.passed
      /\ scan'.found = scan.found \/ scan'.found \in Retained(scan.old)
  <2>1. CASE scan.of \in Countries
    BY <1>1, <1>2, <1>3, <2>1 DEF Scans
  <2>2. CASE scan.of \notin Countries
    <3>1. PICK found \in Retained(scan.old) :
            LET failing == {n \in Nodes : scan.old[n] = "unavailable"} \ found IN
            scan' = [scan EXCEPT !.found = found,
                                 !.black = black \union failing,
                                 !.queue = candidate_queue(
                                   Available(scan.old) \union (listed \ black), found, failing)]
      BY <1>1, <2>2
    <3> QED
      BY <1>2, <1>3, <3>1 DEF Scans
  <2> QED
    BY <2>1, <2>2
<1>5. FoundKnown'
  BY <1>4, RetainedSpec DEF NInv, FoundKnown, Listed
<1> QED
  BY <1>4, <1>5 DEF Sound, FailedOut, NotProbedYet

LEMMA SoundProbe ==
  ASSUME NInv, NEW t \in Threads, NEW n \in Nodes, probe_nodes(t, n) PROVE Sound'
<1>1. /\ scan \in Scans /\ n \in scan.queue /\ Scanning(t)
      /\ pc' = [pc EXCEPT ![t] = "probed"]
      /\ pc \in [Threads -> {"idle", "begin", "fetch", "probe", "probed", "wait",
                             "queued", "done", "failed", "ended"}]
  BY DEF NInv, NTypeOK, probe_nodes, Scanning, At, Goto
<1>2. NotProbedYet'
  <2>1. ASSUME NEW u \in Threads, pc'[u] = "fetch" PROVE FALSE
    <3>1. u # t /\ pc[u] = "fetch"
      BY <1>1, <2>1
    <3>2. Scanning(u)
      BY <3>1 DEF Scanning
    <3> QED
      BY <1>1, <3>1, <3>2 DEF NInv, Leased
  <2> QED
    BY <2>1 DEF NotProbedYet, At
<1>3. FoundKnown' /\ FailedOut'
  <2>1. CASE probe_available(n)
    BY <1>1, <2>1
    DEF NInv, FoundKnown, FailedOut, probe_available, merge_probe_results, Scans, Listed
  <2>2. CASE probe_unavailable(n)
    BY <1>1, <2>2 DEF NInv, FoundKnown, FailedOut, probe_unavailable, Scans, Listed
  <2> QED
    BY <2>1, <2>2 DEF probe_nodes
<1> QED
  BY <1>2, <1>3 DEF Sound

LEMMA SoundStart ==
  ASSUME NInv, (\E t \in Threads : maintain_valid_nodes(t)) \/ refresh_country_nodes
  PROVE  Sound'
<1>1. /\ scan'.failed = {} /\ scan'.passed = {}
      /\ scan'.found \subseteq Listed(scan'.old)
  BY DEF maintain_valid_nodes, refresh_country_nodes, NoScan, Listed, Available
<1> QED
  BY <1>1 DEF Sound, FoundKnown, FailedOut, NotProbedYet, Listed

LEMMA SoundEnd ==
  ASSUME scan' = NoScan PROVE Sound'
BY DEF Sound, FoundKnown, FailedOut, NotProbedYet, NoScan, Listed

(* Nobody else touches the scan, and nobody else goes to fetch.            *)
LEMMA SoundElse ==
  ASSUME NInv, UNCHANGED scan,
         UNCHANGED pc \/ \E t \in Threads, at \in {"idle", "begin", "probe", "wait", "queued",
                                                   "done", "failed", "ended"} : Goto(t, at)
  PROVE  Sound'
<1>1. pc \in [Threads -> {"idle", "begin", "fetch", "probe", "probed", "wait",
                          "queued", "done", "failed", "ended"}]
  BY DEF NInv, NTypeOK
<1>2. \A u \in Threads : pc'[u] = "fetch" => pc[u] = "fetch"
  BY <1>1 DEF Goto
<1> QED
  BY <1>2 DEF NInv, Sound, FoundKnown, FailedOut, NotProbedYet, At, Listed

LEMMA SoundStep ==
  ASSUME NInv, [Next]_vars PROVE Sound'
<1> USE DEF Threads
<1>1. ASSUME NEW t \in Threads, Scan(t) PROVE Sound'
  <2>1. CASE maintenance_busy(t) \/ operation_busy(t) \/ probed(t)
    BY <2>1, SoundElse DEF maintenance_busy, operation_busy, probed
  <2>2. CASE fetch_failed(t) \/ yield(t) \/ \E why \in {"over", "budget"} : merge_pool(t, why)
    BY <2>2, SoundEnd DEF fetch_failed, yield, merge_pool, Released
  <2> QED
    BY <1>1, <2>1, <2>2, SoundFetch, SoundProbe, SoundStart DEF Scan
<1>2. CASE Refresher \/ queue_finally
  <2>1. CASE merge_country \/ refresh_failed
    BY <2>1, SoundEnd DEF merge_country, refresh_failed
  <2>2. CASE refresh_publish
    <3>1. UNCHANGED scan /\ \E at \in {"done", "failed", "ended"} : Goto("refresher", at)
      BY <2>2 DEF refresh_publish
    <3> QED
      BY <3>1, SoundElse
  <2>3. CASE refresh_busy \/ queue_take \/ queue_timeout \/ refresh_end \/ queue_finally
    BY <2>3, SoundElse DEF refresh_busy, queue_take, queue_timeout, refresh_end, queue_finally
  <2> QED
    BY <1>2, <2>1, <2>2, <2>3, SoundStart DEF Refresher
<1>3. CASE collector_loop \/ Environment
  <2>1. ASSUME NEW c \in Scopes, start_country_refresh(c) PROVE Sound'
    BY <2>1, SoundElse DEF start_country_refresh
  <2>2. CASE schedule_valid_pool_replenishment \/ collector_loop
    BY <2>2, SoundElse DEF schedule_valid_pool_replenishment, collector_loop
  <2>3. CASE \/ take_lease \/ test_node_by_id \/ stage_main_assignment
             \/ \E n \in Nodes : \/ mark_candidate_unavailable(n) \/ mark_blacklisted(n)
                                 \/ load_blacklist(n) \/ reserve(n)
    <3>1. UNCHANGED <<scan, pc>>
      BY <2>3 DEF take_lease, test_node_by_id, stage_main_assignment, mark_candidate_unavailable,
                  mark_blacklisted, load_blacklist, reserve, Outside
    <3> QED
      BY <3>1, SoundElse
  <2> QED
    BY <1>3, <2>1, <2>2, <2>3 DEF Environment
<1>4. CASE UNCHANGED vars
  BY <1>4, SoundElse DEF vars
<1> QED
  BY <1>1, <1>2, <1>3, <1>4 DEF Next

LEMMA SoundInit == ASSUME Init PROVE Sound
BY DEF Init, Sound, FoundKnown, FailedOut, NotProbedYet, NoScan, Listed

LEMMA NStep == ASSUME NInv, [Next]_vars PROVE NInv'
<1>1. NTypeOK'
  BY NextType DEF NInv
<1>2. Leased' /\ ForAll' /\ AtWork'
  <2>1. CASE UNCHANGED vars
    BY <2>1 DEF NInv, Leased, ForAll, AtWork, Scanning, vars, lockVars
  <2> QED
    BY <2>1, OwnedByScan, OwnedByRefresher, OwnedByOthers DEF Next
<1> QED
  BY <1>1, <1>2, SoundStep DEF NInv, Sound
-----------------------------------------------------------------------------
(* The inductive invariant of the pool: every variable has its shape and   *)
(* the pool its bound, whoever scans has the lease, the scan for all       *)
(* countries is the refresher's, what it works on is running, and a scan   *)
(* has found nothing that was not in the pool or did not pass a probe.     *)
THEOREM NInductive == Spec => []NInv
<1>1. Init => NInv
  BY InitType, OwnedInit, SoundInit DEF NInv, Sound
<1>2. NInv /\ [Next]_vars => NInv'
  BY NStep
<1> QED
  BY <1>1, <1>2, PTL DEF Spec

(* The pool never holds more than Max nodes, and every variable keeps its  *)
(* shape.                                                                  *)
THEOREM NTypeCorrect == Spec => []NTypeOK
<1>1. NInv => NTypeOK
  BY DEF NInv
<1> QED
  BY <1>1, NInductive, PTL

(* Only the refresher reports the outcome of a refresh, and only of one    *)
(* that is on: _replace_country_refresh at the end of a scan that began    *)
(* before the refresh, or under another thread, touches nothing.           *)
LEMMA Told ==
  ASSUME NInv, [Next]_vars, refresh.st \in {"done", "failed"}
  PROVE  refresh'.st \in {refresh.st, "running"}
<1> USE DEF Threads
<1>1. ~(scan.of = "ALL") /\ pc["refresher"] \in {"idle", "wait", "ended"}
  BY DEF NInv, ForAll, AtWork, Scanning
<1>2. ASSUME NEW t \in Threads, Scan(t) PROVE UNCHANGED refresh
  BY <1>1, <1>2
  DEF Scan, maintenance_busy, operation_busy, maintain_valid_nodes, fetch_candidates,
      fetch_failed, probe_nodes, probed, yield, merge_pool, report, ScanStep
<1>3. CASE Refresher \/ queue_finally
  BY <1>1, <1>3
  DEF Refresher, refresh_country_nodes, refresh_busy, merge_country, refresh_failed, queue_take,
      queue_timeout, refresh_publish, refresh_end, queue_finally, At
<1>4. ASSUME NEW c \in Scopes, start_country_refresh(c) PROVE refresh'.st = "running"
  BY <1>4 DEF start_country_refresh
<1>5. ASSUME NEW n \in Nodes,
             \/ mark_candidate_unavailable(n) \/ mark_blacklisted(n)
             \/ load_blacklist(n) \/ reserve(n)
      PROVE  UNCHANGED refresh
  BY <1>5 DEF mark_candidate_unavailable, mark_blacklisted, load_blacklist, reserve, Outside
<1>6. CASE \/ schedule_valid_pool_replenishment \/ take_lease \/ test_node_by_id
           \/ stage_main_assignment \/ collector_loop
  BY <1>6
  DEF schedule_valid_pool_replenishment, take_lease, test_node_by_id, stage_main_assignment,
      collector_loop, Outside
<1>7. CASE UNCHANGED vars
  BY <1>7 DEF vars
<1> QED
  BY <1>2, <1>3, <1>4, <1>5, <1>6, <1>7 DEF Next, Environment

(* The outcome of a refresh that was told stays, whatever scan, test or    *)
(* failure comes after it, until a new refresh is asked for.               *)
THEOREM Outcome == Spec => OutcomeStays
<1>1. NInv /\ [Next]_vars
        => [refresh.st \in {"done", "failed"} => refresh'.st \in {refresh.st, "running"}]_vars
  BY Told
<1> QED
  BY <1>1, NInductive, PTL DEF Spec, OutcomeStays
-----------------------------------------------------------------------------
(* A country and its last node                                             *)

(* What a scan lists was picked by rebalance_valid_pool, and what was      *)
(* picked and is available is listed.                                      *)
LEMMA WrittenSpec ==
  ASSUME NEW S \in SUBSET Nodes, NEW st, NEW kept, WriteNodes(S, st, kept)
  PROVE  /\ Listed(pool') \subseteq S
         /\ \A n \in S : n \in Nodes /\ st[n] = "available" => n \in Listed(pool')
         /\ \A n \in S : n \in Nodes /\ n \in kept /\ st[n] # "none" => n \in Listed(pool')
BY DEF WriteNodes, Listed

(* The end of maintain_valid_nodes.                                        *)
LEMMA PoolAnchors ==
  ASSUME NInv, NEW t \in Threads, NEW why, merge_pool(t, why),
         NEW c \in Countries, LosesLast(c)
  PROVE  \/ OthersNeedThePlaces
         \/ \E n \in used \intersect Of(c) : scan.old[n] = "unavailable"
<1> DEFINE st == [n \in Nodes |-> IF n \in scan.passed THEN "available" ELSE scan.old[n]]
           old == {n \in Listed(scan.old) : n \notin scan.black \/ n \in used}
           all == old \union scan.found
           avail == all \intersect Available(st)
           prot == used \intersect all
           new == rebalance_valid_pool(old, avail, prot, manual, Target)
<1>1. /\ old \in SUBSET Nodes /\ avail \in SUBSET Nodes /\ prot \in SUBSET Nodes
      /\ manual \in SUBSET Nodes /\ Target \in 0..Max
  BY PoolAssumption DEF NInv, NTypeOK, Scans, Listed, Available
<1>2. PICK kept : WriteNodes(new, st, kept)
  BY DEF merge_pool
<1>3. black' = scan.black
  BY DEF merge_pool
<1>4. avail \intersect old \intersect Of(c) # {}
  <2>1. PICK m \in Of(c) : scan.old[m] = "available" /\ m \notin scan.black
    BY <1>3 DEF LosesLast
  <2>2. m \in old /\ st[m] = "available" /\ m \in Nodes
    BY <2>1 DEF Of, Listed
  <2> QED
    BY <2>1, <2>2 DEF Available
<1>5. \A m \in prot : st[m] = "available" \/ scan.old[m] = "unavailable"
  BY DEF NInv, NTypeOK, Scans, Status, FoundKnown, Listed
<1>6. /\ \A m \in avail : st[m] = "available"
      /\ prot \subseteq used
  BY DEF Available
<1> HIDE DEF st, old, all, avail, prot
<1>7. new \in SUBSET Nodes /\ new \subseteq prot \union avail
  BY <1>1, RebalanceSpec
<1>8. CASE new \intersect Of(c) = {}
  <2>1. \A n \in new : \/ n \in prot \union (manual \intersect avail)
                       \/ new \intersect Of(CountryOf(n)) = {n}
    BY <1>1, <1>4, <1>8, RebalanceAnchors
  <2> HIDE DEF new
  <2>2. Listed(pool') \subseteq new
    BY <1>2, <1>7, WrittenSpec
  <2>3. OthersNeedThePlaces
    BY <1>6, <2>1, <2>2 DEF OthersNeedThePlaces
  <2> QED
    BY <2>3
<1>9. CASE new \intersect Of(c) # {}
  <2> HIDE DEF new
  <2>1. PICK m \in new : m \in Of(c)
    BY <1>9
  <2>2. st[m] # "available"
    BY <1>2, <1>7, <2>1, WrittenSpec DEF LosesLast
  <2>3. m \in prot
    BY <1>6, <1>7, <2>1, <2>2
  <2> QED
    BY <1>5, <1>6, <2>1, <2>2, <2>3
<1> QED
  BY <1>8, <1>9

(* The end of refresh_country_nodes.                                       *)
LEMMA CountryAnchors ==
  ASSUME NInv, merge_country, NEW c \in Countries, LosesLast(c)
  PROVE  OthersNeedThePlaces
<1> DEFINE st == [n \in Nodes |-> IF n \in scan.passed THEN "available" ELSE scan.old[n]]
           old == Listed(scan.old) \ scan.failed
           all == old \union scan.found
           avail == all \intersect Available(st)
           asked == (scan.found \intersect avail) \ (scan.prot \union Available(scan.old))
           prot == scan.prot \intersect all
           new == rebalance_valid_pool(old, avail, prot, asked, Max)
<1>1. /\ old \in SUBSET Nodes /\ avail \in SUBSET Nodes /\ prot \in SUBSET Nodes
      /\ asked \in SUBSET Nodes /\ Max \in 0..Max
  BY PoolAssumption DEF NInv, NTypeOK, Scans, Listed, Available
<1>2. WriteNodes(new, st, Nodes) /\ manual' = asked /\ black' = scan.black
  BY DEF merge_country
<1>3. avail \intersect old \intersect Of(c) # {}
  <2>1. PICK m \in Of(c) : scan.old[m] = "available" /\ m \notin scan.black
    BY <1>2 DEF LosesLast
  <2>2. m \in old /\ st[m] = "available" /\ m \in Nodes
    BY <2>1 DEF Of, Listed, NInv, FailedOut
  <2> QED
    BY <2>1, <2>2 DEF Available
<1>4. \A m \in prot \union avail : st[m] # "none"
  BY DEF NInv, FoundKnown, Listed, NTypeOK, Scans
<1>5. prot \subseteq scan.prot
  OBVIOUS
<1> HIDE DEF st, old, all, avail, prot, asked
<1>6. new \in SUBSET Nodes /\ new \subseteq prot \union avail
  BY <1>1, RebalanceSpec
<1>7. new \intersect Of(c) = {}
  <2> HIDE DEF new
  <2> QED
    BY <1>2, <1>4, <1>6, WrittenSpec DEF LosesLast, Of
<1>8. \A n \in new : \/ n \in prot \union (asked \intersect avail)
                     \/ new \intersect Of(CountryOf(n)) = {n}
  BY <1>1, <1>3, <1>7, RebalanceAnchors
<1> HIDE DEF new
<1>9. Listed(pool') \subseteq new
  BY <1>2, <1>6, WrittenSpec
<1> QED
  BY <1>2, <1>5, <1>8, <1>9 DEF OthersNeedThePlaces

(* Only the end of a scan ends a scan and writes the pool.                 *)
LEMMA EndsOfScans ==
  ASSUME NInv, [Next]_vars, NEW c \in Countries, LosesLast(c)
  PROVE  merge_country \/ \E t \in Threads, why \in {"over", "budget"} : merge_pool(t, why)
<1>1. scan' # scan
  <2>1. PICK m \in Nodes : scan.old[m] = "available"
    BY DEF LosesLast, Of
  <2> QED
    BY <2>1 DEF LosesLast, NoScan
<1>2. pool' # pool
  BY DEF LosesLast
<1>3. ASSUME NEW t \in Threads, Scan(t)
      PROVE  \E why \in {"over", "budget"} : merge_pool(t, why)
  BY <1>2, <1>3
  DEF Scan, maintenance_busy, operation_busy, maintain_valid_nodes, fetch_candidates,
      fetch_failed, probe_nodes, probed, yield, ScanStep, poolVars
<1>4. ASSUME Refresher \/ queue_finally PROVE merge_country
  BY <1>2, <1>4
  DEF Refresher, refresh_country_nodes, refresh_busy, refresh_failed, queue_take, queue_timeout,
      refresh_publish, refresh_end, queue_finally, poolVars
<1>5. ASSUME collector_loop \/ Environment PROVE FALSE
  BY <1>1, <1>5
  DEF collector_loop, Environment, start_country_refresh, schedule_valid_pool_replenishment,
      take_lease, test_node_by_id, stage_main_assignment, mark_candidate_unavailable,
      mark_blacklisted, load_blacklist, reserve, Outside
<1>6. CASE UNCHANGED vars
  BY <1>1, <1>6 DEF vars
<1> QED
  BY <1>3, <1>4, <1>5, <1>6 DEF Next

(* A country that had a good node when a scan began keeps one at its end,  *)
(* unless the node has failed, the places go to nodes with a better claim, *)
(* or a failed node in use stood for the country in rebalance_valid_pool.  *)
THEOREM CountryStays == Spec => CountryKept
<1>1. ASSUME NInv, [Next]_vars, NEW c \in Countries, LosesLast(c)
      PROVE  \/ OthersNeedThePlaces
             \/ \E n \in used \intersect Of(c) : scan.old[n] = "unavailable"
  <2>1. CASE merge_country
    BY <1>1, <2>1, CountryAnchors
  <2>2. ASSUME NEW t \in Threads, NEW why \in {"over", "budget"}, merge_pool(t, why)
        PROVE  \/ OthersNeedThePlaces
               \/ \E n \in used \intersect Of(c) : scan.old[n] = "unavailable"
    BY <1>1, <2>2, PoolAnchors
  <2> QED
    BY <1>1, <2>1, <2>2, EndsOfScans
<1>2. NInv /\ [Next]_vars
        => [\A c \in Countries : LosesLast(c) =>
              \/ OthersNeedThePlaces
              \/ \E n \in used \intersect Of(c) : scan.old[n] = "unavailable"]_vars
  BY <1>1
<1> QED
  BY <1>2, NInductive, PTL DEF Spec, CountryKept
=============================================================================
