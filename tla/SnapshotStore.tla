--------------------------- MODULE SnapshotStore ---------------------------
(***************************************************************************)
(* The snapshot store of RoleGraph and the web handlers in front of it:    *)
(* storage/repository.py, web/state.py and web/routes/imports.py.          *)
(*                                                                         *)
(* Every handler is an `async def` over synchronous database code in one   *)
(* uvicorn worker, so a handler is one step; the only `await` of this part *)
(* (reading the uploaded body) comes before anything is read or written.   *)
(* What interleaves is the operators: each acts on the import page its     *)
(* browser rendered last, however old, and any answer may get lost.  The   *)
(* process may be restarted between two requests; the database survives    *)
(* and the two in-process caches do not.                                   *)
(*                                                                         *)
(* A dataset stands for the parsed content of a file, and a table row      *)
(* <<i, d>> for the rows of d stored under snapshot id i.                  *)
(***************************************************************************)
EXTENDS Integers, Sequences, FiniteSets

CONSTANTS
    Datasets,     \* the files operators import
    Clients,      \* browser tabs on the import page
    None,         \* no value
    MaxId,        \* bound: the largest snapshot id
    MaxAudit,     \* bound: the changes of the store, counted in audit log rows
    CacheLimit    \* _CACHE_LIMIT

Ids == 1..MaxId

\* The tables load_graph reads and delete_snapshot empties.
Tables == {"scopes", "principals", "role_definitions", "role_assignments",
           "group_memberships", "import_warnings"}

\* An AccessGraph: whose tenant it carries, and whose rows it was built from.
Graph == [tenant : Datasets, rows : [Tables -> SUBSET Datasets]]

ASSUME StoreAssumption ==
    /\ MaxId \in Nat
    /\ MaxAudit \in Nat
    /\ CacheLimit \in Nat \ {0}
    /\ None \notin Datasets
    /\ None \notin Graph

VARIABLES
    stored,         \* snapshots table: id -> the dataset of the row, or None
    active,         \* the ids of the snapshot rows whose is_active is set
    rows,           \* the six entity tables
    audit,          \* audit_log, oldest row first
    graphCache,     \* _GRAPH_CACHE
    findingsCache,  \* _FINDINGS_CACHE: id -> the graph that was evaluated
    offers,         \* client -> ids its page has Activate/Delete buttons for
    shown           \* what the latest data screen was rendered from

database == <<stored, active, rows, audit>>
caches == <<graphCache, findingsCache>>
vars == <<stored, active, rows, audit, graphCache, findingsCache, offers, shown>>

AuditRow == [action : {"import", "activateSnapshot", "deleteSnapshot"}, id : Ids]

----------------------------------------------------------------------------
(* Reading the database. *)

Existing == {i \in Ids : stored[i] # None}

\* The largest id of a set of ids, 0 if there is none.
Newest(S) == IF S = {} THEN 0 ELSE CHOOSE i \in S : \A j \in S : j <= i

\* active_snapshot: the newest flagged row, else the newest row.
ReadId == IF active # {} THEN Newest(active) ELSE Newest(Existing)

\* load_graph, when it has to go to the database.
StoredGraph(i) ==
    [tenant |-> stored[i],
     rows |-> [t \in Tables |-> {d \in Datasets : <<i, d>> \in rows[t]}]]

\* The graph of a dataset as the importer built it.
Pristine(d) == [tenant |-> d, rows |-> [t \in Tables |-> {d}]]

\* The import page offers both buttons for the rows it shows as not active.
Offered == Existing \ active

Cached(cache) == {i \in Ids : cache[i] # None}

----------------------------------------------------------------------------
(* Writing: the bodies of the transactions. *)

\* Mutant: the rows are stamped before the flush that gives the snapshot its id.
InsertUnflushed(i, d) ==
    rows' = [t \in Tables |-> rows[t] \cup {<<None, d>>}]

InsertRows(i, d) ==
    rows' = [t \in Tables |-> rows[t] \cup {<<i, d>>}]

\* Mutant: the warnings table is left out of the loop.
PurgeEntities(i) ==
    rows' = [t \in Tables |->
                IF t = "import_warnings" THEN rows[t] ELSE {r \in rows[t] : r[1] # i}]

\* The explicit DELETE of each of the six tables; nothing cascades.
PurgeRows(i) ==
    rows' = [t \in Tables |-> {r \in rows[t] : r[1] # i}]

LogRow(name, i) == [action |-> name, id |-> i]

Log(entries) == audit' = audit \o entries

\* Bound: a change of the store that would log more rows than this is not
\* explored.
Room(n) == Len(audit) + n <= MaxAudit

\* Mutant: the bulk UPDATE that clears the flags is forgotten.
SetAlsoActive(i) == active' = active \cup {i}

\* Clear every flag, then set this one.
SetActive(i) == active' = {i}

\* invalidate() without an id, after an import or an activation.
InvalidateAll == findingsCache' = [i \in Ids |-> None]

\* Mutant: the cached entry survives.
Retain(cache, i) == cache

Evict(cache, i) == [cache EXCEPT ![i] = None]

----------------------------------------------------------------------------

Init ==
    /\ stored = [i \in Ids |-> None]
    /\ active = {}
    /\ rows = [t \in Tables |-> {}]
    /\ audit = <<>>
    /\ graphCache = [i \in Ids |-> None]
    /\ findingsCache = [i \in Ids |-> None]
    /\ offers = [c \in Clients |-> {}]
    /\ shown = [snapshot |-> 0, graph |-> None, findings |-> None]

\* GET /import, also reached by the redirect that ends an activate or a
\* delete, and what a refused upload renders.
ImportPage(c) ==
    /\ offers' = [offers EXCEPT ![c] = Offered]
    /\ UNCHANGED <<database, caches, shown>>

\* SQLite hands out max(id) + 1, so the id of a deleted newest snapshot comes
\* back; a PostgreSQL sequence may skip ids.  Both are above every id in use.
FreshId(i) == \A j \in Existing : j < i

\* POST /import/upload and /import/demo: save_import, invalidate(), and the
\* import page as the answer, which may never reach the client.
Upload(c, d) ==
    \E i \in Ids :
        /\ Room(2)
        /\ FreshId(i)
        /\ stored' = [stored EXCEPT ![i] = d]
        /\ InsertRows(i, d)
        /\ SetActive(i)
        /\ Log(<<LogRow("import", i), LogRow("activateSnapshot", i)>>)
        /\ graphCache' = Evict(graphCache, i)
        /\ InvalidateAll
        /\ offers' \in {offers, [offers EXCEPT ![c] = Existing' \ active']}
        /\ UNCHANGED shown

\* Mutant: what was flushed before the error is committed.
UploadRefusedCommits(d) ==
    \E i \in Ids, flushed \in SUBSET Tables :
        /\ FreshId(i)
        /\ rows' = [t \in Tables |-> rows[t] \cup (IF t \in flushed THEN {<<i, d>>} ELSE {})]
        /\ UNCHANGED <<stored, active, audit, caches, offers, shown>>

\* The same for a file with a row the database refuses (an id of blanks is NULL
\* by then), or cut short by the end of the process: whatever tables had been
\* written, the transaction is rolled back, and invalidate() is not reached.
UploadRefused(d) == UNCHANGED vars

\* POST /import/activate/{id}.
Activate(c, i) ==
    /\ Room(1)
    /\ i \in offers[c]
    /\ i \in Existing
    /\ SetActive(i)
    /\ Log(<<LogRow("activateSnapshot", i)>>)
    /\ InvalidateAll
    /\ UNCHANGED <<stored, rows, graphCache, offers, shown>>

\* Mutant: the transaction commits instead of rolling back.
ActivateMissingCommits(c, i) ==
    /\ i \in offers[c]
    /\ i \notin Existing
    /\ active' = {}
    /\ UNCHANGED <<stored, rows, audit, caches, offers, shown>>

\* The same for an id that is gone: the cleared flags are rolled back and the
\* answer is 404, before invalidate() runs.
ActivateMissing(c, i) ==
    /\ i \in offers[c]
    /\ i \notin Existing
    /\ UNCHANGED vars

\* POST /import/delete/{id}: whether or not the row is still there, and
\* whether or not it has become the active one since the page was rendered.
Delete(c, i) ==
    /\ Room(1)
    /\ i \in offers[c]
    /\ PurgeRows(i)
    /\ stored' = [stored EXCEPT ![i] = None]
    /\ active' = active \ {i}
    /\ Log(<<LogRow("deleteSnapshot", i)>>)
    /\ graphCache' = Evict(graphCache, i)
    /\ findingsCache' = Evict(findingsCache, i)
    /\ UNCHANGED <<offers, shown>>

\* Mutant: the limit is tested with > instead of >=.
LoadGraphOverfull(i, g) ==
    /\ graphCache[i] = None
    /\ g = StoredGraph(i)
    /\ Cardinality(Cached(graphCache)) <= CacheLimit
    /\ graphCache' = [graphCache EXCEPT ![i] = g]

\* load_graph: from the cache, or from the database and into the cache, where
\* a full cache loses an entry first (the oldest; any, in this model).
LoadGraph(i, g) ==
    \/ /\ graphCache[i] # None
       /\ g = graphCache[i]
       /\ UNCHANGED graphCache
    \/ /\ graphCache[i] = None
       /\ g = StoredGraph(i)
       /\ Cardinality(Cached(graphCache)) < CacheLimit
       /\ graphCache' = [graphCache EXCEPT ![i] = g]
    \/ /\ graphCache[i] = None
       /\ g = StoredGraph(i)
       /\ Cardinality(Cached(graphCache)) >= CacheLimit
       /\ \E v \in Cached(graphCache) :
            graphCache' = [graphCache EXCEPT ![v] = None, ![i] = g]

\* Dataset.findings: from the cache, or evaluated on the graph and kept.
EvaluateFindings(i, g, f) ==
    \/ /\ findingsCache[i] # None
       /\ f = findingsCache[i]
       /\ UNCHANGED findingsCache
    \/ /\ findingsCache[i] = None
       /\ f = g
       /\ findingsCache' = [findingsCache EXCEPT ![i] = g]

\* A screen that renders from the graph alone (an access path, a list).
ViewGraph ==
    /\ ReadId # 0
    /\ \E g \in {graphCache[ReadId], StoredGraph(ReadId)} :
        /\ LoadGraph(ReadId, g)
        /\ shown' = [snapshot |-> ReadId, graph |-> g, findings |-> None]
    /\ UNCHANGED <<database, findingsCache, offers>>

\* A screen that shows findings too (overview, findings, a detail page).
ViewFindings ==
    /\ ReadId # 0
    /\ \E g \in {graphCache[ReadId], StoredGraph(ReadId)} :
        /\ LoadGraph(ReadId, g)
        /\ \E f \in {findingsCache[ReadId], g} :
            /\ EvaluateFindings(ReadId, g, f)
            /\ shown' = [snapshot |-> ReadId, graph |-> g, findings |-> f]
    /\ UNCHANGED <<database, offers>>

\* The process stops and is started again on the same database.
Restart ==
    /\ graphCache' = [i \in Ids |-> None]
    /\ findingsCache' = [i \in Ids |-> None]
    /\ UNCHANGED <<database, offers, shown>>

Next ==
    \/ \E c \in Clients :
        \/ ImportPage(c)
        \/ \E d \in Datasets : Upload(c, d)
        \/ \E i \in Ids : Activate(c, i) \/ ActivateMissing(c, i) \/ Delete(c, i)
    \/ \E d \in Datasets : UploadRefused(d)
    \/ ViewGraph
    \/ ViewFindings
    \/ Restart

Spec == Init /\ [][Next]_vars

----------------------------------------------------------------------------
(* Properties. *)

\* The shape of every variable.
TypeOK ==
    /\ stored \in [Ids -> Datasets \cup {None}]
    /\ active \in SUBSET Ids
    /\ rows \in [Tables -> SUBSET (Ids \X Datasets)]
    /\ audit \in Seq(AuditRow)
    /\ graphCache \in [Ids -> Graph \cup {None}]
    /\ findingsCache \in [Ids -> Graph \cup {None}]
    /\ offers \in [Clients -> SUBSET Ids]
    /\ shown \in [snapshot : Ids \cup {0},
                  graph : Graph \cup {None},
                  findings : Graph \cup {None}]

\* At most one snapshot is flagged active, and only a snapshot that exists,
\* whatever imports, activations and deletions operators send from old pages.
OneActiveSnapshot ==
    /\ active \subseteq Existing
    /\ \A i, j \in active : i = j

\* Every entity table holds exactly the rows of the snapshots that exist: an
\* import wrote all of them and a delete left none behind, so that a reused id
\* starts from nothing.
TablesMatchSnapshots ==
    \A t \in Tables : rows[t] = {<<i, stored[i]>> : i \in Existing}

\* A cached graph is the graph its snapshot would load to now: no entry
\* outlives a deletion and then answers for the next owner of the id.
GraphCacheFresh ==
    \A i \in Cached(graphCache) : i \in Existing /\ graphCache[i] = StoredGraph(i)

\* Cached findings were computed on what the snapshot holds now.
FindingsCacheFresh ==
    \A i \in Cached(findingsCache) :
        i \in Existing /\ findingsCache[i] = StoredGraph(i)

\* load_graph keeps its cache within _CACHE_LIMIT entries.
GraphCacheBounded == Cardinality(Cached(graphCache)) <= CacheLimit

\* What the two caches owe the screens, over imports, deletions, reused ids and
\* restarts: whatever they answer is of the snapshot that has the id now, and
\* the one that is bounded keeps to its limit.
CachesCoherent == GraphCacheFresh /\ FindingsCacheFresh /\ GraphCacheBounded

\* Some row of the log is `entry`, and no row after it is one of `undoing`.
Recorded(log, entry, undoing) ==
    \E k \in 1..Len(log) :
        /\ log[k] = entry
        /\ \A j \in 1..Len(log) : j > k => log[j] \notin undoing

Activations == {LogRow("activateSnapshot", i) : i \in Ids}

\* The audit log accounts for the tables: the snapshots that exist are those
\* whose import was logged and not followed by a logged deletion, and the
\* active one is the one of the last logged activation, unless it was deleted
\* after that.  No change escapes the log and no log row survives a rollback.
AuditExplainsStore ==
    \A i \in Ids :
        /\ i \in Existing <=>
              Recorded(audit, LogRow("import", i), {LogRow("deleteSnapshot", i)})
        /\ i \in active <=>
              Recorded(audit, LogRow("activateSnapshot", i),
                       {LogRow("deleteSnapshot", i)} \cup Activations)

\* The dataset a screen shows: the dataset of the graph, if graph and findings
\* are all of one dataset and hold the whole of it.
ServedDataset ==
    IF /\ shown.graph # None
       /\ shown.graph = Pristine(shown.graph.tenant)
       /\ shown.findings \in {None, shown.graph}
    THEN shown.graph.tenant
    ELSE None

\* The store with its flags, tables, caches and restarts implements
\* ActiveDataset: screens show exactly the chosen dataset, a new import takes
\* over, and deleting the chosen one falls back on the newest.
Promise == INSTANCE ActiveDataset
             WITH library <- stored,
                  chosen <- ReadId,
                  served <- <<shown.snapshot, ServedDataset>>

ImplementsActiveDataset == Promise!Spec

\* What docs/ARCHITECTURE.md says of the screens: "The active snapshot is what
\* the UI reads."  The code falls back on a snapshot that is not active.
UiReadsActiveSnapshot ==
    [][ViewGraph \/ ViewFindings => ReadId \in active]_vars
=============================================================================
