------------------------ MODULE SnapshotStoreProofs ------------------------
(* Theorems about SnapshotStore for any datasets, clients and bounds. *)
EXTENDS SnapshotStore, FiniteSetTheorems, WellFoundedInduction, TLAPS

\* A set of naturals that is not empty has a least element: the order of the
\* naturals is well founded.
LEMMA LeastNatural ==
    ASSUME NEW T \in SUBSET Nat, T # {}
    PROVE  \E m \in T : \A n \in T : m <= n
<1>1. PICK m \in T : \A n \in T : ~ (<<n, m>> \in OpToRel(<, Nat))
    BY NatLessThanWellFounded, WFMin
<1>2. ASSUME NEW n \in T PROVE m <= n
    <2>1. ~ (n < m)
        BY <1>1 DEF OpToRel
    <2> QED BY <2>1
<1> QED BY <1>2

\* The newest of some ids is one of them, and no id among them is larger.
LEMMA NewestIsLargest ==
    ASSUME NEW S \in SUBSET Ids, S # {}
    PROVE  /\ Newest(S) \in S
           /\ \A j \in S : j <= Newest(S)
<1> DEFINE T == {MaxId - i : i \in S}
<1>1. T \in SUBSET Nat /\ T # {}
    BY StoreAssumption DEF Ids
<1>2. PICK m \in T : \A n \in T : m <= n
    BY <1>1, LeastNatural
<1>3. PICK i \in S : m = MaxId - i
    BY <1>2
<1>4. \A j \in S : j <= i
    BY <1>2, <1>3, StoreAssumption DEF Ids
<1> QED BY <1>4 DEF Newest

----------------------------------------------------------------------------
(***************************************************************************)
(* The inductive invariant.  None of its conjuncts is inductive alone: the *)
(* type of a loaded graph needs the read snapshot to exist, the caches are *)
(* fresh only as long as an import gets an id no entry is left under, and  *)
(* that is so because every cached id exists.                              *)
(***************************************************************************)
StoreInv ==
    /\ TypeOK
    /\ OneActiveSnapshot
    /\ TablesMatchSnapshots
    /\ GraphCacheFresh
    /\ FindingsCacheFresh
    /\ GraphCacheBounded

\* The snapshot that active_snapshot selects is in the table.
LEMMA ReadIdExists ==
    ASSUME TypeOK, OneActiveSnapshot, ReadId # 0
    PROVE  ReadId \in Existing
<1>1. active \in SUBSET Ids /\ Existing \in SUBSET Ids
    BY DEF TypeOK, Existing
<1>2. CASE active # {}
    BY <1>1, <1>2, NewestIsLargest DEF ReadId, OneActiveSnapshot
<1>3. CASE active = {}
    <2>1. Existing # {}
        BY <1>3 DEF ReadId, Newest
    <2> QED BY <1>1, <1>3, <2>1, NewestIsLargest DEF ReadId
<1> QED BY <1>2, <1>3

\* With the tables in step with the snapshots, a snapshot loads to the graph
\* the importer built.
LEMMA StoredGraphPristine ==
    ASSUME TypeOK, TablesMatchSnapshots, NEW i \in Existing
    PROVE  /\ StoredGraph(i) = Pristine(stored[i])
           /\ StoredGraph(i) \in Graph
           /\ stored[i] \in Datasets
<1>1. i \in Ids /\ stored[i] \in Datasets
    BY DEF TypeOK, Existing
<1>2. ASSUME NEW t \in Tables
      PROVE  {d \in Datasets : <<i, d>> \in rows[t]} = {stored[i]}
    <2>1. rows[t] = {<<k, stored[k]>> : k \in Existing}
        BY DEF TablesMatchSnapshots
    <2>2. ASSUME NEW d \in Datasets
          PROVE  <<i, d>> \in rows[t] <=> d = stored[i]
        BY <2>1
    <2> QED BY <1>1, <2>2
<1>3. StoredGraph(i) = Pristine(stored[i])
    BY <1>2 DEF StoredGraph, Pristine
<1>4. Pristine(stored[i]) \in Graph
    BY <1>1 DEF Pristine, Graph
<1> QED BY <1>1, <1>3, <1>4

LEMMA InitStoreInv == Init => StoreInv
<1> SUFFICES ASSUME Init PROVE StoreInv
    OBVIOUS
<1>1. TypeOK
    BY StoreAssumption DEF Init, TypeOK, AuditRow
<1>2. Existing = {} /\ Cached(graphCache) = {} /\ Cached(findingsCache) = {}
    BY DEF Init, Existing, Cached
<1>3. OneActiveSnapshot /\ TablesMatchSnapshots
    BY <1>2 DEF Init, OneActiveSnapshot, TablesMatchSnapshots
<1>4. GraphCacheBounded
    BY <1>2, FS_EmptySet, StoreAssumption DEF GraphCacheBounded
<1> QED
    BY <1>1, <1>2, <1>3, <1>4 DEF StoreInv, GraphCacheFresh, FindingsCacheFresh

----------------------------------------------------------------------------
(* The steps. *)

LEMMA CachedFinite ==
    ASSUME NEW cache
    PROVE  IsFiniteSet(Cached(cache)) /\ Cardinality(Cached(cache)) \in Nat
<1>1. Cached(cache) \in SUBSET (1..MaxId)
    BY DEF Cached, Ids
<1>2. IsFiniteSet(1..MaxId)
    BY FS_Interval, StoreAssumption
<1> QED BY <1>1, <1>2, FS_Subset, FS_CardinalityType

\* Dropping an entry keeps a cache typed and does not make it larger.
LEMMA EvictShrinks ==
    ASSUME NEW cache \in [Ids -> Graph \cup {None}], NEW i \in Ids
    PROVE  /\ Evict(cache, i) \in [Ids -> Graph \cup {None}]
           /\ Cached(Evict(cache, i)) = Cached(cache) \ {i}
           /\ \A j \in Cached(cache) \ {i} : Evict(cache, i)[j] = cache[j]
           /\ Cardinality(Cached(Evict(cache, i))) <= Cardinality(Cached(cache))
<1>1. Evict(cache, i) \in [Ids -> Graph \cup {None}]
    BY DEF Evict
<1>2. Cached(Evict(cache, i)) = Cached(cache) \ {i}
    BY DEF Evict, Cached
<1>3. \A j \in Cached(cache) \ {i} : Evict(cache, i)[j] = cache[j]
    BY DEF Evict, Cached
<1>4. Cardinality(Cached(cache) \ {i}) <= Cardinality(Cached(cache))
    BY CachedFinite, FS_Subset
<1> QED BY <1>1, <1>2, <1>3, <1>4

\* load_graph returns what the snapshot loads to and leaves a fresh cache
\* within its limit, whether it hits, fills or evicts.
LEMMA LoadGraphFresh ==
    ASSUME StoreInv, NEW i \in Existing, NEW g, LoadGraph(i, g),
           UNCHANGED <<stored, rows>>
    PROVE  /\ g = StoredGraph(i)
           /\ graphCache' \in [Ids -> Graph \cup {None}]
           /\ GraphCacheFresh'
           /\ GraphCacheBounded'
<1> DEFINE C == Cached(graphCache)
<1> USE DEF StoreInv
<1>1. i \in Ids /\ StoredGraph(i) \in Graph
    BY StoredGraphPristine DEF Existing
<1>2. Existing' = Existing /\ \A j \in Ids : StoredGraph(j)' = StoredGraph(j)
    BY DEF Existing, StoredGraph
<1>3. graphCache \in [Ids -> Graph \cup {None}]
    BY DEF TypeOK
<1>4. StoredGraph(i) # None
    BY <1>1, StoreAssumption
<1>5. IsFiniteSet(C) /\ Cardinality(C) \in Nat /\ Cardinality(C) <= CacheLimit
    BY CachedFinite DEF GraphCacheBounded
<1>6. CASE graphCache[i] # None /\ g = graphCache[i] /\ UNCHANGED graphCache
    <2>1. g = StoredGraph(i)
        BY <1>1, <1>6 DEF GraphCacheFresh, Cached
    <2>2. GraphCacheFresh'
        BY <1>2, <1>6 DEF GraphCacheFresh, Cached
    <2>3. GraphCacheBounded'
        BY <1>6 DEF GraphCacheBounded, Cached
    <2> QED BY <1>3, <1>6, <2>1, <2>2, <2>3
<1>7. CASE /\ graphCache[i] = None
           /\ g = StoredGraph(i)
           /\ Cardinality(C) < CacheLimit
           /\ graphCache' = [graphCache EXCEPT ![i] = g]
    <2>1. Cached(graphCache') = C \cup {i} /\ i \notin C
        BY <1>1, <1>3, <1>4, <1>7 DEF Cached
    <2>2. Cardinality(C \cup {i}) = Cardinality(C) + 1
        BY <1>5, <2>1, FS_AddElement
    <2>3. GraphCacheBounded'
        <3>1. Cardinality(C) + 1 <= CacheLimit
            BY <1>5, <1>7, StoreAssumption
        <3>2. Cardinality(Cached(graphCache')) <= CacheLimit
            BY <2>1, <2>2, <3>1
        <3> QED BY <3>2 DEF GraphCacheBounded, Cached
    <2>4. GraphCacheFresh'
        <3>1. ASSUME NEW j \in Cached(graphCache')
              PROVE  j \in Existing /\ graphCache'[j] = StoredGraph(j)
            <4>1. CASE j = i
                BY <1>1, <1>3, <1>7, <4>1
            <4>2. CASE j # i
                <5>1. j \in C /\ j \in Ids /\ graphCache'[j] = graphCache[j]
                    BY <1>3, <1>7, <2>1, <4>2 DEF Cached
                <5> QED BY <5>1 DEF GraphCacheFresh
            <4> QED BY <4>1, <4>2
        <3> QED BY <1>2, <3>1 DEF GraphCacheFresh, Cached
    <2> QED BY <1>1, <1>3, <1>7, <2>3, <2>4
<1>8. CASE /\ graphCache[i] = None
           /\ g = StoredGraph(i)
           /\ \E v \in C : graphCache' = [graphCache EXCEPT ![v] = None, ![i] = g]
    <2>1. PICK v \in C : graphCache' = [graphCache EXCEPT ![v] = None, ![i] = g]
        BY <1>8
    <2>2. Cached(graphCache') = (C \ {v}) \cup {i} /\ i \notin C
        BY <1>1, <1>3, <1>4, <1>8, <2>1 DEF Cached
    <2>3. Cardinality((C \ {v}) \cup {i}) = Cardinality(C)
        <3>1. /\ IsFiniteSet(C \ {v})
              /\ Cardinality(C \ {v}) = Cardinality(C) - 1
            BY <1>5, FS_RemoveElement
        <3>2. Cardinality((C \ {v}) \cup {i}) = Cardinality(C \ {v}) + 1
            BY <2>2, <3>1, FS_AddElement
        <3> QED BY <1>5, <3>1, <3>2
    <2>4. GraphCacheBounded'
        BY <1>5, <2>2, <2>3 DEF GraphCacheBounded
    <2>5. GraphCacheFresh'
        <3>1. ASSUME NEW j \in Cached(graphCache')
              PROVE  j \in Existing /\ graphCache'[j] = StoredGraph(j)
            <4>1. CASE j = i
                BY <1>1, <1>3, <1>8, <2>1, <4>1
            <4>2. CASE j # i
                <5>1. j \in C /\ j \in Ids /\ graphCache'[j] = graphCache[j]
                    BY <1>3, <2>1, <2>2, <4>2 DEF Cached
                <5> QED BY <5>1 DEF GraphCacheFresh
            <4> QED BY <4>1, <4>2
        <3> QED BY <1>2, <3>1 DEF GraphCacheFresh, Cached
    <2> QED BY <1>1, <1>3, <1>8, <2>1, <2>4, <2>5 DEF Cached
<1> QED BY <1>6, <1>7, <1>8 DEF LoadGraph

\* With database and caches unchanged only the types of offers and shown are
\* left to check.
LEMMA FrameStoreInv ==
    ASSUME StoreInv, UNCHANGED <<database, caches>>,
           offers' \in [Clients -> SUBSET Ids],
           shown' \in [snapshot : Ids \cup {0},
                       graph : Graph \cup {None},
                       findings : Graph \cup {None}]
    PROVE  StoreInv'
<1> USE DEF StoreInv, database, caches
<1>1. TypeOK'
    BY DEF TypeOK
<1>2. OneActiveSnapshot' /\ TablesMatchSnapshots'
    BY DEF OneActiveSnapshot, TablesMatchSnapshots, Existing
<1>3. GraphCacheFresh' /\ FindingsCacheFresh'
    BY DEF GraphCacheFresh, FindingsCacheFresh, Cached, Existing, StoredGraph
<1>4. GraphCacheBounded'
    BY DEF GraphCacheBounded, Cached
<1> QED BY <1>1, <1>2, <1>3, <1>4

LEMMA UploadStoreInv ==
    ASSUME StoreInv, NEW c \in Clients, NEW d \in Datasets, Upload(c, d)
    PROVE  StoreInv'
<1> USE DEF StoreInv
<1>1. PICK i \in Ids :
        /\ FreshId(i)
        /\ stored' = [stored EXCEPT ![i] = d]
        /\ InsertRows(i, d)
        /\ SetActive(i)
        /\ Log(<<LogRow("import", i), LogRow("activateSnapshot", i)>>)
        /\ graphCache' = Evict(graphCache, i)
        /\ InvalidateAll
        /\ offers' \in {offers, [offers EXCEPT ![c] = Existing' \ active']}
        /\ UNCHANGED shown
    BY DEF Upload
<1>2. i \notin Existing /\ stored[i] = None
    <2>1. \A j \in Existing : j < i
        BY <1>1 DEF FreshId
    <2> QED BY <2>1, StoreAssumption DEF Existing, Ids
<1>3. stored \in [Ids -> Datasets \cup {None}] /\ d # None
    BY StoreAssumption DEF TypeOK
<1>4. Existing' = Existing \cup {i}
    BY <1>1, <1>3 DEF Existing
<1>5. OneActiveSnapshot'
    BY <1>1, <1>4 DEF OneActiveSnapshot, SetActive
<1>6. TablesMatchSnapshots'
    <2> SUFFICES ASSUME NEW t \in Tables
                 PROVE  rows'[t] = {<<k, stored'[k]>> : k \in Existing'}
        BY DEF TablesMatchSnapshots
    <2>1. rows'[t] = {<<k, stored[k]>> : k \in Existing} \cup {<<i, d>>}
        BY <1>1 DEF InsertRows, TablesMatchSnapshots
    <2>2. stored'[i] = d /\ \A k \in Existing : stored'[k] = stored[k]
        BY <1>1, <1>2, <1>3 DEF Existing
    <2> QED BY <1>4, <2>1, <2>2
<1>7. \A k \in Existing : StoredGraph(k)' = StoredGraph(k)
    <2> SUFFICES ASSUME NEW k \in Existing
                 PROVE  StoredGraph(k)' = StoredGraph(k)
        OBVIOUS
    <2>1. k # i /\ stored'[k] = stored[k]
        BY <1>1, <1>2, <1>3 DEF Existing
    <2>2. \A t \in Tables : \A e \in Datasets : <<k, e>> \in rows'[t] <=> <<k, e>> \in rows[t]
        BY <1>1, <2>1 DEF InsertRows
    <2>3. \A t \in Tables : {e \in Datasets : <<k, e>> \in rows'[t]} = {e \in Datasets : <<k, e>> \in rows[t]}
        BY <2>2
    <2> QED BY <2>1, <2>3 DEF StoredGraph
<1>8. GraphCacheFresh' /\ GraphCacheBounded'
    <2>1. graphCache \in [Ids -> Graph \cup {None}]
        BY DEF TypeOK
    <2>2. Cached(graphCache') = Cached(graphCache) \ {i}
        BY <1>1, <2>1, EvictShrinks
    <2>3. \A k \in Cached(graphCache') :
              k \in Existing /\ graphCache'[k] = StoredGraph(k)
        BY <1>1, <2>1, <2>2, EvictShrinks DEF GraphCacheFresh
    <2>4. GraphCacheFresh'
        BY <1>4, <1>7, <2>3 DEF GraphCacheFresh, Cached
    <2>5. Cardinality(Cached(graphCache')) <= Cardinality(Cached(graphCache))
        BY <1>1, <2>1, EvictShrinks
    <2>6. Cardinality(Cached(graphCache')) <= CacheLimit
        BY <2>5, CachedFinite, StoreAssumption DEF GraphCacheBounded
    <2> QED BY <2>4, <2>6 DEF GraphCacheBounded, Cached
<1>9. FindingsCacheFresh'
    BY <1>1 DEF FindingsCacheFresh, InvalidateAll, Cached
<1>10. TypeOK'
    <2> USE DEF TypeOK
    <2>1. stored' \in [Ids -> Datasets \cup {None}] /\ active' \in SUBSET Ids
        BY <1>1 DEF SetActive
    <2>2. rows' \in [Tables -> SUBSET (Ids \X Datasets)]
        BY <1>1 DEF InsertRows
    <2>3. audit' \in Seq(AuditRow)
        <3>1. <<LogRow("import", i), LogRow("activateSnapshot", i)>> \in Seq(AuditRow)
            BY DEF AuditRow, LogRow
        <3> QED BY <1>1, <3>1 DEF Log
    <2>4. /\ graphCache' \in [Ids -> Graph \cup {None}]
          /\ findingsCache' \in [Ids -> Graph \cup {None}]
        BY <1>1, EvictShrinks DEF InvalidateAll
    <2>5. offers' \in [Clients -> SUBSET Ids]
        BY <1>1, <1>4 DEF Existing
    <2> QED BY <1>1, <2>1, <2>2, <2>3, <2>4, <2>5
<1> QED BY <1>5, <1>6, <1>8, <1>9, <1>10

LEMMA ActivateStoreInv ==
    ASSUME StoreInv, NEW c \in Clients, NEW i \in Ids, Activate(c, i)
    PROVE  StoreInv'
<1> USE DEF StoreInv, Activate
<1>1. OneActiveSnapshot' /\ TablesMatchSnapshots'
    BY DEF OneActiveSnapshot, TablesMatchSnapshots, Existing, SetActive
<1>2. GraphCacheFresh' /\ GraphCacheBounded'
    BY DEF GraphCacheFresh, GraphCacheBounded, Cached, Existing, StoredGraph
<1>3. FindingsCacheFresh'
    BY DEF FindingsCacheFresh, InvalidateAll, Cached
<1>4. TypeOK'
    <2> USE DEF TypeOK
    <2>1. audit' \in Seq(AuditRow)
        <3>1. <<LogRow("activateSnapshot", i)>> \in Seq(AuditRow)
            BY DEF AuditRow, LogRow
        <3> QED BY <3>1 DEF Log
    <2>2. active' \in SUBSET Ids /\ findingsCache' \in [Ids -> Graph \cup {None}]
        BY DEF SetActive, InvalidateAll
    <2> QED BY <2>1, <2>2
<1> QED BY <1>1, <1>2, <1>3, <1>4

LEMMA DeleteStoreInv ==
    ASSUME StoreInv, NEW c \in Clients, NEW i \in Ids, Delete(c, i)
    PROVE  StoreInv'
<1> USE DEF StoreInv, Delete
<1>1. /\ stored \in [Ids -> Datasets \cup {None}]
      /\ graphCache \in [Ids -> Graph \cup {None}]
      /\ findingsCache \in [Ids -> Graph \cup {None}]
    BY DEF TypeOK
<1>2. /\ Existing' = Existing \ {i}
      /\ \A k \in Existing \ {i} : stored'[k] = stored[k]
    BY <1>1 DEF Existing
<1>3. OneActiveSnapshot'
    BY <1>2 DEF OneActiveSnapshot
<1>4. TablesMatchSnapshots'
    <2> SUFFICES ASSUME NEW t \in Tables
                 PROVE  rows'[t] = {<<k, stored'[k]>> : k \in Existing'}
        BY DEF TablesMatchSnapshots
    <2>1. rows'[t] = {r \in {<<k, stored[k]>> : k \in Existing} : r[1] # i}
        BY DEF PurgeRows, TablesMatchSnapshots
    <2> QED BY <1>2, <2>1
<1>5. \A k \in Existing \ {i} : StoredGraph(k)' = StoredGraph(k)
    <2> SUFFICES ASSUME NEW k \in Existing \ {i}
                 PROVE  StoredGraph(k)' = StoredGraph(k)
        OBVIOUS
    <2>1. \A t \in Tables : \A e \in Datasets : <<k, e>> \in rows'[t] <=> <<k, e>> \in rows[t]
        BY DEF PurgeRows
    <2>2. \A t \in Tables : {e \in Datasets : <<k, e>> \in rows'[t]} = {e \in Datasets : <<k, e>> \in rows[t]}
        BY <2>1
    <2> QED BY <1>2, <2>2 DEF StoredGraph
<1>6. GraphCacheFresh'
    <2>1. \A k \in Cached(graphCache') :
              k \in Existing \ {i} /\ graphCache'[k] = StoredGraph(k)
        BY <1>1, EvictShrinks DEF GraphCacheFresh
    <2> QED BY <1>2, <1>5, <2>1 DEF GraphCacheFresh, Cached
<1>7. FindingsCacheFresh'
    <2>1. \A k \in Cached(findingsCache') :
              k \in Existing \ {i} /\ findingsCache'[k] = StoredGraph(k)
        BY <1>1, EvictShrinks DEF FindingsCacheFresh
    <2> QED BY <1>2, <1>5, <2>1 DEF FindingsCacheFresh, Cached
<1>8. GraphCacheBounded'
    <2>1. Cardinality(Cached(graphCache')) <= Cardinality(Cached(graphCache))
        BY <1>1, EvictShrinks
    <2>2. Cardinality(Cached(graphCache')) <= CacheLimit
        BY <2>1, CachedFinite, StoreAssumption DEF GraphCacheBounded
    <2> QED BY <2>2 DEF GraphCacheBounded, Cached
<1>9. TypeOK'
    <2> USE DEF TypeOK
    <2>1. audit' \in Seq(AuditRow)
        <3>1. <<LogRow("deleteSnapshot", i)>> \in Seq(AuditRow)
            BY DEF AuditRow, LogRow
        <3> QED BY <3>1 DEF Log
    <2>2. rows' \in [Tables -> SUBSET (Ids \X Datasets)]
        BY DEF PurgeRows
    <2>3. /\ graphCache' \in [Ids -> Graph \cup {None}]
          /\ findingsCache' \in [Ids -> Graph \cup {None}]
        BY EvictShrinks
    <2> QED BY <2>1, <2>2, <2>3
<1> QED BY <1>3, <1>4, <1>6, <1>7, <1>8, <1>9

\* What both kinds of screen have in common: a graph loaded for the snapshot
\* that is read, and a findings cache that is fresh again afterwards.
LEMMA ViewStoreInv ==
    ASSUME StoreInv, ReadId # 0, NEW g, NEW f \in Graph \cup {None},
           LoadGraph(ReadId, g),
           findingsCache' \in [Ids -> Graph \cup {None}],
           FindingsCacheFresh',
           shown' = [snapshot |-> ReadId, graph |-> g, findings |-> f],
           UNCHANGED <<database, offers>>
    PROVE  StoreInv'
<1> USE DEF StoreInv, database
<1>1. ReadId \in Existing
    BY ReadIdExists
<1>2. /\ g = StoredGraph(ReadId)
      /\ graphCache' \in [Ids -> Graph \cup {None}]
      /\ GraphCacheFresh'
      /\ GraphCacheBounded'
    BY <1>1, LoadGraphFresh
<1>3. OneActiveSnapshot' /\ TablesMatchSnapshots'
    BY DEF OneActiveSnapshot, TablesMatchSnapshots, Existing
<1>4. g \in Graph /\ ReadId \in Ids
    BY <1>1, <1>2, StoredGraphPristine DEF Existing
<1>5. TypeOK'
    BY <1>2, <1>4 DEF TypeOK
<1> QED BY <1>2, <1>3, <1>5

LEMMA ViewGraphStoreInv == StoreInv /\ ViewGraph => StoreInv'
<1> SUFFICES ASSUME StoreInv, ViewGraph PROVE StoreInv'
    OBVIOUS
<1>1. PICK g : /\ LoadGraph(ReadId, g)
               /\ shown' = [snapshot |-> ReadId, graph |-> g, findings |-> None]
    BY DEF ViewGraph
<1>2. FindingsCacheFresh' /\ findingsCache' \in [Ids -> Graph \cup {None}]
    BY DEF ViewGraph, StoreInv, TypeOK, FindingsCacheFresh, Cached, Existing,
           StoredGraph, database
<1> QED BY <1>1, <1>2, ViewStoreInv DEF ViewGraph

\* The findings of a screen are those of the graph it shows.
LEMMA ViewedFindings ==
    ASSUME StoreInv, ReadId # 0, NEW g, NEW f,
           LoadGraph(ReadId, g), EvaluateFindings(ReadId, g, f),
           UNCHANGED database
    PROVE  /\ f = g /\ g = StoredGraph(ReadId) /\ g \in Graph
           /\ findingsCache' \in [Ids -> Graph \cup {None}]
           /\ FindingsCacheFresh'
<1> USE DEF StoreInv, database
<1>1. ReadId \in Existing /\ ReadId \in Ids
    BY ReadIdExists DEF Existing
<1>2. g = StoredGraph(ReadId) /\ g \in Graph
    BY <1>1, LoadGraphFresh, StoredGraphPristine
<1>3. f = g
    BY <1>1, <1>2 DEF EvaluateFindings, FindingsCacheFresh, Cached
<1>4. findingsCache \in [Ids -> Graph \cup {None}]
    BY DEF TypeOK
<1>5. findingsCache' \in [Ids -> Graph \cup {None}]
    BY <1>2, <1>4 DEF EvaluateFindings
<1>6. \A k \in Cached(findingsCache') :
          k \in Existing /\ findingsCache'[k] = StoredGraph(k)
    BY <1>1, <1>2, <1>4 DEF EvaluateFindings, FindingsCacheFresh, Cached
<1>7. Existing' = Existing /\ \A j \in Ids : StoredGraph(j)' = StoredGraph(j)
    BY DEF Existing, StoredGraph
<1>8. FindingsCacheFresh'
    BY <1>6, <1>7 DEF FindingsCacheFresh, Cached
<1> QED BY <1>2, <1>3, <1>5, <1>8

LEMMA ViewFindingsStoreInv == StoreInv /\ ViewFindings => StoreInv'
<1> SUFFICES ASSUME StoreInv, ViewFindings PROVE StoreInv'
    OBVIOUS
<1>1. PICK g, f : /\ LoadGraph(ReadId, g)
                  /\ EvaluateFindings(ReadId, g, f)
                  /\ shown' = [snapshot |-> ReadId, graph |-> g, findings |-> f]
    BY DEF ViewFindings
<1>2. /\ f \in Graph
      /\ FindingsCacheFresh' /\ findingsCache' \in [Ids -> Graph \cup {None}]
    BY <1>1, ViewedFindings DEF ViewFindings
<1> QED BY <1>1, <1>2, ViewStoreInv DEF ViewFindings

LEMMA RestartStoreInv == StoreInv /\ Restart => StoreInv'
<1> SUFFICES ASSUME StoreInv, Restart PROVE StoreInv'
    OBVIOUS
<1> USE DEF StoreInv, Restart, database
<1>1. Cached(graphCache') = {} /\ Cached(findingsCache') = {}
    BY DEF Cached
<1>2. OneActiveSnapshot' /\ TablesMatchSnapshots'
    BY DEF OneActiveSnapshot, TablesMatchSnapshots, Existing
<1>3. GraphCacheFresh' /\ FindingsCacheFresh'
    BY <1>1 DEF GraphCacheFresh, FindingsCacheFresh, Cached
<1>4. Cardinality(Cached(graphCache')) <= CacheLimit
    BY <1>1, FS_EmptySet, StoreAssumption
<1>5. GraphCacheBounded'
    BY <1>4 DEF GraphCacheBounded, Cached
<1>6. TypeOK'
    BY DEF TypeOK
<1> QED BY <1>2, <1>3, <1>5, <1>6

LEMMA NextStoreInv == StoreInv /\ [Next]_vars => StoreInv'
<1> SUFFICES ASSUME StoreInv, [Next]_vars PROVE StoreInv'
    OBVIOUS
<1>1. ASSUME NEW c \in Clients, ImportPage(c) PROVE StoreInv'
    BY <1>1, FrameStoreInv DEF ImportPage, StoreInv, TypeOK, Offered, Existing
<1>2. ASSUME NEW c \in Clients, NEW d \in Datasets, Upload(c, d) PROVE StoreInv'
    BY <1>2, UploadStoreInv
<1>3. ASSUME NEW c \in Clients, NEW i \in Ids, Activate(c, i) PROVE StoreInv'
    BY <1>3, ActivateStoreInv
<1>4. ASSUME NEW c \in Clients, NEW i \in Ids, ActivateMissing(c, i) PROVE StoreInv'
    BY <1>4, FrameStoreInv DEF ActivateMissing, vars, database, caches, StoreInv, TypeOK
<1>5. ASSUME NEW c \in Clients, NEW i \in Ids, Delete(c, i) PROVE StoreInv'
    BY <1>5, DeleteStoreInv
<1>6. CASE ViewGraph
    BY <1>6, ViewGraphStoreInv
<1>7. CASE ViewFindings
    BY <1>7, ViewFindingsStoreInv
<1>8. CASE Restart
    BY <1>8, RestartStoreInv
<1>9. CASE UNCHANGED vars
    BY <1>9, FrameStoreInv DEF vars, database, caches, StoreInv, TypeOK
<1>10. ASSUME NEW d \in Datasets, UploadRefused(d) PROVE StoreInv'
    BY <1>9, <1>10 DEF UploadRefused
<1> QED BY <1>1, <1>2, <1>3, <1>4, <1>5, <1>6, <1>7, <1>8, <1>9, <1>10 DEF Next

\* The inductive invariant holds in every reachable state.
THEOREM StoreInvariant == Spec => []StoreInv
<1> QED BY InitStoreInv, NextStoreInv, PTL DEF Spec

\* Every variable keeps its type, for any number of snapshots and clients.
THEOREM StoreTypeCorrect == Spec => []TypeOK
<1>1. StoreInv => TypeOK
    BY DEF StoreInv
<1> QED BY <1>1, StoreInvariant, PTL

\* No history of imports, activations and deletions sent from old pages ever
\* leaves two snapshots active, or an active flag on none.
THEOREM AtMostOneActive == Spec => []OneActiveSnapshot
<1>1. StoreInv => OneActiveSnapshot
    BY DEF StoreInv
<1> QED BY <1>1, StoreInvariant, PTL

\* A reused snapshot id never meets rows of the snapshot that had it before.
THEOREM TablesInStep == Spec => []TablesMatchSnapshots
<1>1. StoreInv => TablesMatchSnapshots
    BY DEF StoreInv
<1> QED BY <1>1, StoreInvariant, PTL

\* The graph cache is coherent with the database, whatever is deleted, reused,
\* evicted or lost in a restart.
THEOREM GraphCacheCoherent == Spec => []GraphCacheFresh
<1>1. StoreInv => GraphCacheFresh
    BY DEF StoreInv
<1> QED BY <1>1, StoreInvariant, PTL

\* So is the findings cache, which has no size limit.
THEOREM FindingsCacheCoherent == Spec => []FindingsCacheFresh
<1>1. StoreInv => FindingsCacheFresh
    BY DEF StoreInv
<1> QED BY <1>1, StoreInvariant, PTL

\* The graph cache stays within its limit.
THEOREM GraphCacheWithinLimit == Spec => []GraphCacheBounded
<1>1. StoreInv => GraphCacheBounded
    BY DEF StoreInv
<1> QED BY <1>1, StoreInvariant, PTL

\* Neither cache ever answers for a snapshot that is gone, or holds too many.
THEOREM CachesAreCoherent == Spec => []CachesCoherent
<1>1. StoreInv => CachesCoherent
    BY DEF StoreInv, CachesCoherent
<1> QED BY <1>1, StoreInvariant, PTL

----------------------------------------------------------------------------
(* The audit log. *)

\* One more row records itself, and anything recorded that it does not undo.
LEMMA RecordedAppend ==
    ASSUME NEW log \in Seq(AuditRow), NEW row \in AuditRow, NEW entry, NEW undoing
    PROVE  Recorded(Append(log, row), entry, undoing) <=>
             \/ row = entry
             \/ Recorded(log, entry, undoing) /\ row \notin undoing
<1> DEFINE more == Append(log, row)
           n == Len(log)
<1>1. /\ n \in Nat /\ Len(more) = n + 1 /\ more[n + 1] = row
      /\ \A k \in 1..n : more[k] = log[k]
    OBVIOUS
<1> HIDE DEF more, n
<1>2. ASSUME Recorded(more, entry, undoing)
      PROVE  row = entry \/ (Recorded(log, entry, undoing) /\ row \notin undoing)
    <2>1. PICK k \in 1..(n + 1) :
              /\ more[k] = entry
              /\ \A j \in 1..(n + 1) : j > k => more[j] \notin undoing
        BY <1>1, <1>2 DEF Recorded
    <2>2. CASE k = n + 1
        BY <1>1, <2>1, <2>2
    <2>3. CASE k \in 1..n
        <3>1. row \notin undoing
            BY <1>1, <2>1, <2>3
        <3>2. /\ log[k] = entry
              /\ \A j \in 1..n : j > k => log[j] \notin undoing
            BY <1>1, <2>1, <2>3
        <3> QED BY <2>3, <3>1, <3>2 DEF Recorded, n
    <2> QED BY <1>1, <2>2, <2>3
<1>3. ASSUME row = entry PROVE Recorded(more, entry, undoing)
    <2>1. n + 1 \in 1..(n + 1) /\ \A j \in 1..(n + 1) : ~ (j > n + 1)
        BY <1>1
    <2> QED BY <1>1, <1>3, <2>1 DEF Recorded
<1>4. ASSUME Recorded(log, entry, undoing), row \notin undoing
      PROVE  Recorded(more, entry, undoing)
    <2>1. PICK k \in 1..n : /\ log[k] = entry
                            /\ \A j \in 1..n : j > k => log[j] \notin undoing
        BY <1>4 DEF Recorded, n
    <2>2. \A j \in 1..(n + 1) : j > k => more[j] \notin undoing
        BY <1>1, <1>4, <2>1
    <2>3. k \in 1..(n + 1) /\ more[k] = entry
        BY <1>1, <2>1
    <2> QED BY <1>1, <2>2, <2>3 DEF Recorded
<1> QED BY <1>2, <1>3, <1>4 DEF more

\* Log rows differ when their names or ids do, and are rows of the table.
LEMMA LogRows ==
    /\ \A i \in Ids : /\ LogRow("import", i) \in AuditRow
                      /\ LogRow("activateSnapshot", i) \in AuditRow
                      /\ LogRow("deleteSnapshot", i) \in AuditRow
    /\ \A i, j : /\ LogRow("import", i) # LogRow("activateSnapshot", j)
                 /\ LogRow("import", i) # LogRow("deleteSnapshot", j)
                 /\ LogRow("activateSnapshot", i) # LogRow("deleteSnapshot", j)
                 /\ LogRow("import", i) = LogRow("import", j) => i = j
                 /\ LogRow("activateSnapshot", i) = LogRow("activateSnapshot", j) => i = j
                 /\ LogRow("deleteSnapshot", i) = LogRow("deleteSnapshot", j) => i = j
BY DEF LogRow, AuditRow

\* What one logged action does to the two things the log accounts for.
ImportRecorded(log, i) ==
    Recorded(log, LogRow("import", i), {LogRow("deleteSnapshot", i)})

ActivationRecorded(log, i) ==
    Recorded(log, LogRow("activateSnapshot", i),
             {LogRow("deleteSnapshot", i)} \cup Activations)

LEMMA RecordedAfter ==
    ASSUME NEW log \in Seq(AuditRow), NEW i \in Ids, NEW j \in Ids
    PROVE  /\ ImportRecorded(Append(log, LogRow("import", i)), j) <=>
                 j = i \/ ImportRecorded(log, j)
           /\ ImportRecorded(Append(log, LogRow("activateSnapshot", i)), j) <=>
                 ImportRecorded(log, j)
           /\ ImportRecorded(Append(log, LogRow("deleteSnapshot", i)), j) <=>
                 j # i /\ ImportRecorded(log, j)
           /\ ActivationRecorded(Append(log, LogRow("activateSnapshot", i)), j) <=>
                 j = i
           /\ ActivationRecorded(Append(log, LogRow("deleteSnapshot", i)), j) <=>
                 j # i /\ ActivationRecorded(log, j)
<1> USE LogRows, RecordedAppend
<1>1. ImportRecorded(Append(log, LogRow("import", i)), j) <=> j = i \/ ImportRecorded(log, j)
    BY DEF ImportRecorded
<1>2. ImportRecorded(Append(log, LogRow("activateSnapshot", i)), j) <=> ImportRecorded(log, j)
    BY DEF ImportRecorded
<1>3. ImportRecorded(Append(log, LogRow("deleteSnapshot", i)), j) <=>
          j # i /\ ImportRecorded(log, j)
    BY DEF ImportRecorded
<1>4. ActivationRecorded(Append(log, LogRow("activateSnapshot", i)), j) <=> j = i
    BY DEF ActivationRecorded, Activations
<1>5. ActivationRecorded(Append(log, LogRow("deleteSnapshot", i)), j) <=>
          j # i /\ ActivationRecorded(log, j)
    BY DEF ActivationRecorded, Activations
<1> QED BY <1>1, <1>2, <1>3, <1>4, <1>5

LEMMA NextAuditExplains ==
    StoreInv /\ AuditExplainsStore /\ [Next]_vars => AuditExplainsStore'
<1> SUFFICES ASSUME StoreInv, AuditExplainsStore, [Next]_vars,
                    NEW j \in Ids
             PROVE  /\ j \in Existing' <=> ImportRecorded(audit', j)
                    /\ j \in active' <=> ActivationRecorded(audit', j)
    BY DEF AuditExplainsStore, ImportRecorded, ActivationRecorded
<1> USE LogRows, RecordedAfter
<1>1. /\ j \in Existing <=> ImportRecorded(audit, j)
      /\ j \in active <=> ActivationRecorded(audit, j)
    BY DEF AuditExplainsStore, ImportRecorded, ActivationRecorded
<1>2. /\ audit \in Seq(AuditRow)
      /\ stored \in [Ids -> Datasets \cup {None}]
      /\ active \subseteq Existing
    BY DEF StoreInv, TypeOK, OneActiveSnapshot
<1>3. ASSUME NEW c \in Clients, NEW d \in Datasets, Upload(c, d)
      PROVE  /\ j \in Existing' <=> ImportRecorded(audit', j)
             /\ j \in active' <=> ActivationRecorded(audit', j)
    <2>1. PICK i \in Ids :
            /\ stored' = [stored EXCEPT ![i] = d]
            /\ active' = {i}
            /\ audit' = audit \o <<LogRow("import", i), LogRow("activateSnapshot", i)>>
        BY <1>3 DEF Upload, SetActive, Log
    <2> DEFINE half == Append(audit, LogRow("import", i))
    <2>2. half \in Seq(AuditRow) /\ audit' = Append(half, LogRow("activateSnapshot", i))
        BY <1>2, <2>1
    <2>3. j \in Existing' <=> j = i \/ j \in Existing
        BY <1>2, <2>1, StoreAssumption DEF Existing
    <2> HIDE DEF half
    <2>4. ImportRecorded(audit', j) <=> ImportRecorded(half, j)
        BY <2>2
    <2>5. ImportRecorded(half, j) <=> j = i \/ ImportRecorded(audit, j)
        BY <1>2 DEF half
    <2>6. ActivationRecorded(audit', j) <=> j = i
        BY <2>2
    <2> QED BY <1>1, <2>1, <2>3, <2>4, <2>5, <2>6
<1>4. ASSUME NEW c \in Clients, NEW i \in Ids, Activate(c, i)
      PROVE  /\ j \in Existing' <=> ImportRecorded(audit', j)
             /\ j \in active' <=> ActivationRecorded(audit', j)
    <2>1. /\ audit' = Append(audit, LogRow("activateSnapshot", i))
          /\ active' = {i}
          /\ Existing' = Existing
        BY <1>2, <1>4 DEF Activate, SetActive, Log, Existing
    <2> QED BY <1>1, <1>2, <2>1
<1>5. ASSUME NEW c \in Clients, NEW i \in Ids, Delete(c, i)
      PROVE  /\ j \in Existing' <=> ImportRecorded(audit', j)
             /\ j \in active' <=> ActivationRecorded(audit', j)
    <2>1. /\ audit' = Append(audit, LogRow("deleteSnapshot", i))
          /\ active' = active \ {i}
          /\ Existing' = Existing \ {i}
        BY <1>2, <1>5 DEF Delete, Log, Existing
    <2> QED BY <1>1, <1>2, <2>1
<1>6. ASSUME UNCHANGED database
      PROVE  /\ j \in Existing' <=> ImportRecorded(audit', j)
             /\ j \in active' <=> ActivationRecorded(audit', j)
    BY <1>1, <1>6 DEF database, Existing
<1>7. \/ \E c \in Clients, d \in Datasets : Upload(c, d)
      \/ \E c \in Clients, i \in Ids : Activate(c, i) \/ Delete(c, i)
      \/ UNCHANGED database
    BY DEF Next, ImportPage, UploadRefused, ActivateMissing, ViewGraph, ViewFindings,
           Restart, vars, database
<1> QED BY <1>3, <1>4, <1>5, <1>6, <1>7

\* The audit log alone tells which snapshots exist and which one is active.
THEOREM AuditAccountsForStore == Spec => []AuditExplainsStore
<1>1. Init => AuditExplainsStore
    BY DEF Init, AuditExplainsStore, Recorded, Existing
<1> QED BY <1>1, NextAuditExplains, StoreInvariant, PTL DEF Spec

----------------------------------------------------------------------------
(* The store implements ActiveDataset. *)

LEMMA NewestAgrees == \A lib : Promise!Newest(lib) = Newest({i \in Ids : lib[i] # None})
BY DEF Promise!Newest, Promise!Held, Newest, Ids

\* The newest of one id is that id.
LEMMA NewestOfOne == \A i \in Ids : Newest({i}) = i
<1> SUFFICES ASSUME NEW i \in Ids PROVE Newest({i}) = i
    OBVIOUS
<1> QED BY NewestIsLargest

LEMMA InitImplements == Init => Promise!Init
<1> SUFFICES ASSUME Init PROVE Promise!Init
    OBVIOUS
<1>1. Existing = {}
    BY DEF Init, Existing
<1>2. ReadId = 0
    BY <1>1 DEF Init, ReadId, Newest
<1>3. ServedDataset = None /\ shown.snapshot = 0
    BY DEF Init, ServedDataset
<1> QED BY <1>2, <1>3 DEF Init, Promise!Init, Ids

\* Steps that touch neither the database nor the screen are invisible.
LEMMA QuietStep ==
    ASSUME UNCHANGED <<stored, active, shown>>
    PROVE  UNCHANGED Promise!vars
BY DEF Promise!vars, ReadId, Existing, ServedDataset

LEMMA UploadImplements ==
    ASSUME StoreInv, NEW c \in Clients, NEW d \in Datasets, Upload(c, d)
    PROVE  Promise!Add(d)
<1>1. PICK i \in Ids : /\ FreshId(i)
                       /\ stored' = [stored EXCEPT ![i] = d]
                       /\ active' = {i}
    BY DEF Upload, SetActive
<1>2. ReadId' = i
    BY <1>1, NewestOfOne DEF ReadId
<1>3. <<shown.snapshot, ServedDataset>>' = <<shown.snapshot, ServedDataset>>
    BY DEF Upload, ServedDataset
<1> QED BY <1>1, <1>2, <1>3 DEF Promise!Add, Promise!Held, FreshId, Existing, Ids

LEMMA ActivateImplements ==
    ASSUME StoreInv, NEW c \in Clients, NEW i \in Ids, Activate(c, i)
    PROVE  Promise!Choose(i)
<1>1. ReadId' = i
    BY NewestOfOne DEF ReadId, Activate, SetActive
<1>2. <<shown.snapshot, ServedDataset>>' = <<shown.snapshot, ServedDataset>>
    BY DEF Activate, ServedDataset
<1> QED BY <1>1, <1>2 DEF Activate, Promise!Choose, Existing

LEMMA DeleteImplements ==
    ASSUME StoreInv, NEW c \in Clients, NEW i \in Ids, Delete(c, i)
    PROVE  Promise!Remove(i) \/ UNCHANGED Promise!vars
<1> USE DEF StoreInv
<1>1. /\ stored \in [Ids -> Datasets \cup {None}]
      /\ stored' = [stored EXCEPT ![i] = None]
      /\ active' = active \ {i}
      /\ active \subseteq Existing
      /\ \A j, k \in active : j = k
      /\ UNCHANGED shown
    BY DEF Delete, TypeOK, OneActiveSnapshot
<1>2. CASE i \notin Existing
    <2>1. stored' = stored /\ active' = active
        BY <1>1, <1>2 DEF Existing
    <2> QED BY <1>1, <2>1, QuietStep
<1>3. CASE i \in Existing
    <2>1. Existing' = Existing \ {i} /\ Existing' \in SUBSET Ids
        BY <1>1 DEF Existing
    <2>2. Promise!Newest(stored') = Newest(Existing')
        BY NewestAgrees DEF Existing
    <2>3. active \in SUBSET Ids /\ Existing \in SUBSET Ids
        BY <1>1 DEF Existing
    <2>4. ReadId' = IF ReadId = i THEN Newest(Existing') ELSE ReadId
        <3>1. CASE i \in active
            <4>1. active = {i} /\ active' = {}
                BY <1>1, <3>1
            <4>2. ReadId = i
                BY <4>1, NewestOfOne DEF ReadId
            <4> QED BY <4>1, <4>2 DEF ReadId
        <3>2. CASE i \notin active /\ active # {}
            <4>1. active' = active /\ ReadId \in active
                BY <1>1, <2>3, <3>2, NewestIsLargest DEF ReadId
            <4> QED BY <3>2, <4>1 DEF ReadId
        <3>3. CASE active = {}
            <4>1. ReadId = Newest(Existing) /\ ReadId' = Newest(Existing')
                BY <1>1, <3>3 DEF ReadId
            <4>2. CASE Newest(Existing) = i
                BY <4>1, <4>2
            <4>3. CASE Newest(Existing) # i
                <5>1. /\ Newest(Existing) \in Existing'
                      /\ \A j \in Existing' : j <= Newest(Existing)
                    BY <1>3, <2>1, <2>3, <4>3, NewestIsLargest
                <5>2. /\ Newest(Existing') \in Existing'
                      /\ \A j \in Existing' : j <= Newest(Existing')
                    BY <2>1, <5>1, NewestIsLargest
                <5>3. Newest(Existing') \in Int /\ Newest(Existing) \in Int
                    <6>1. Newest(Existing') \in Ids /\ Newest(Existing) \in Ids
                        BY <2>1, <5>1, <5>2
                    <6> QED BY <6>1 DEF Ids
                <5>4. /\ Newest(Existing') <= Newest(Existing)
                      /\ Newest(Existing) <= Newest(Existing')
                    BY <5>1, <5>2
                <5>5. Newest(Existing') = Newest(Existing)
                    BY <5>3, <5>4
                <5> QED BY <4>1, <4>3, <5>5
            <4> QED BY <4>2, <4>3
        <3> QED BY <3>1, <3>2, <3>3
    <2>5. <<shown.snapshot, ServedDataset>>' = <<shown.snapshot, ServedDataset>>
        BY <1>1 DEF ServedDataset
    <2>6. Promise!Remove(i)
        BY <1>1, <1>3, <2>2, <2>4, <2>5 DEF Promise!Remove, Existing
    <2> QED BY <2>6
<1> QED BY <1>2, <1>3

\* A screen that was rendered from what the read snapshot loads to shows its
\* dataset.
LEMMA ShowImplements ==
    ASSUME StoreInv, ReadId # 0, UNCHANGED database,
           NEW f \in {None, StoredGraph(ReadId)},
           shown' = [snapshot |-> ReadId, graph |-> StoredGraph(ReadId), findings |-> f]
    PROVE  Promise!Show
<1> USE DEF StoreInv, database
<1>1. ReadId \in Existing
    BY ReadIdExists
<1>2. /\ StoredGraph(ReadId) = Pristine(stored[ReadId])
      /\ StoredGraph(ReadId) \in Graph
    BY <1>1, StoredGraphPristine
<1>3. StoredGraph(ReadId) # None
    BY <1>2, StoreAssumption
<1>4. StoredGraph(ReadId).tenant = stored[ReadId]
    BY DEF StoredGraph
<1>5. /\ shown'.graph = StoredGraph(ReadId)
      /\ shown'.findings = f
      /\ shown'.snapshot = ReadId
    OBVIOUS
<1>6. \A d : Pristine(d)' = Pristine(d)
    BY DEF Pristine
<1>7. ServedDataset' = stored[ReadId]
    BY <1>2, <1>3, <1>4, <1>5, <1>6 DEF ServedDataset
<1>8. ReadId' = ReadId
    BY DEF ReadId, Existing
<1> QED BY <1>5, <1>7, <1>8 DEF Promise!Show

LEMMA NextImplements == StoreInv /\ [Next]_vars => [Promise!Next]_(Promise!vars)
<1> SUFFICES ASSUME StoreInv, [Next]_vars
             PROVE  Promise!Next \/ UNCHANGED Promise!vars
    OBVIOUS
<1>1. ASSUME NEW c \in Clients, ImportPage(c) PROVE UNCHANGED Promise!vars
    BY <1>1, QuietStep DEF ImportPage, database
<1>2. ASSUME NEW c \in Clients, NEW d \in Datasets, Upload(c, d) PROVE Promise!Next
    BY <1>2, UploadImplements DEF Promise!Next
<1>3. ASSUME NEW c \in Clients, NEW i \in Ids, Activate(c, i) PROVE Promise!Next
    BY <1>3, ActivateImplements DEF Promise!Next, Ids
<1>4. ASSUME NEW c \in Clients, NEW i \in Ids, ActivateMissing(c, i)
      PROVE  UNCHANGED Promise!vars
    BY <1>4, QuietStep DEF ActivateMissing, vars
<1>5. ASSUME NEW c \in Clients, NEW i \in Ids, Delete(c, i)
      PROVE  Promise!Next \/ UNCHANGED Promise!vars
    BY <1>5, DeleteImplements DEF Promise!Next, Ids
<1>6. CASE ViewGraph
    <2>1. PICK g : /\ LoadGraph(ReadId, g)
                   /\ shown' = [snapshot |-> ReadId, graph |-> g, findings |-> None]
        BY <1>6 DEF ViewGraph
    <2>2. /\ ReadId # 0
          /\ UNCHANGED <<stored, rows>>
          /\ UNCHANGED database
        BY <1>6 DEF ViewGraph, database
    <2>3. ReadId \in Existing
        BY <2>2, ReadIdExists DEF StoreInv
    <2>4. g = StoredGraph(ReadId)
        BY <2>1, <2>2, <2>3, LoadGraphFresh
    <2> QED BY <2>1, <2>2, <2>4, ShowImplements DEF Promise!Next
<1>7. CASE ViewFindings
    <2>1. PICK g, f : /\ LoadGraph(ReadId, g)
                      /\ EvaluateFindings(ReadId, g, f)
                      /\ shown' = [snapshot |-> ReadId, graph |-> g, findings |-> f]
        BY <1>7 DEF ViewFindings
    <2>2. ReadId # 0 /\ UNCHANGED database
        BY <1>7 DEF ViewFindings
    <2>3. f = g /\ g = StoredGraph(ReadId)
        BY <2>1, <2>2, ViewedFindings
    <2> QED BY <2>1, <2>2, <2>3, ShowImplements DEF Promise!Next
<1>8. CASE Restart
    BY <1>8, QuietStep DEF Restart, database
<1>9. CASE UNCHANGED vars
    BY <1>9, QuietStep DEF vars
<1>10. ASSUME NEW d \in Datasets, UploadRefused(d) PROVE UNCHANGED Promise!vars
    BY <1>10, QuietStep DEF UploadRefused, vars
<1> QED BY <1>1, <1>2, <1>3, <1>4, <1>5, <1>6, <1>7, <1>8, <1>9, <1>10 DEF Next

\* Whatever is cached, evicted, deleted under a reused id, sent from an old
\* page or lost in a restart, operators see the store ActiveDataset specifies.
THEOREM StoreImplementsActiveDataset == Spec => ImplementsActiveDataset
<1> QED
    BY InitImplements, NextImplements, StoreInvariant, PTL
       DEF Spec, Promise!Spec, ImplementsActiveDataset
=============================================================================
