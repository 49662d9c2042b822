# RoleGraph in TLA+

RoleGraph imports an export of an Azure tenant (scopes, identities, groups, role
definitions, role assignments), answers who can do what, where and why, and reports
findings. Beside the web application a collector exports the tenant, and a scanner and an
offline comparison hold its live role assignments against an approved target. This
directory holds TLA+ models of the parts of it that decide something, the TLC runs that
check them, and TLAPS proofs for those whose properties matter for every size of tenant.

    tlc -workers 2 -config MCSnapshotStore.cfg MCSnapshotStore     # one run
    tlapm SnapshotStoreProofs.tla                                  # one proof module

`PROJECT.json` lists the runs, the theorems, the source lines every definition stands
for, a mutant of the code that each property catches, and the hazards.

## Inventory

| Component | State | Operations | What is hard | What makes it correct |
|---|---|---|---|---|
| Snapshot storage (`storage/`) | `snapshots`, eight tables of rows, `audit_log`; `_GRAPH_CACHE` in the process | `save_import`, `activate_snapshot`, `delete_snapshot`, `load_graph`, `active_snapshot` | ids reused by SQLite, two caches, flags that must move together, pages that are out of date | one active snapshot, rows in step with snapshots, caches fresh, audit log explains the store |
| Import screens and request-time dataset (`web/routes/imports.py`, `web/state.py`) | `_FINDINGS_CACHE` | upload, demo, activate, delete, view; `invalidate` | several operators, lost answers, restarts | screens show the chosen dataset as it was imported |
| Importer (`importer/`) | the graph being built, counts, skipped, warnings | a loader per section, `check_integrity` | duplicates, dangling references, order of sections, generated ids | nothing lost silently, counts and warnings true of the result |
| Membership resolution (`resolver/membership.py`) | recursion or explicit stack, visited | `membership_paths`, `transitive_members`, `membership_cycles` | cycles, two caps | sound; complete unless a cap was met; nothing walked past the path cap |
| Scope hierarchy (`domain/hierarchy.py`) | queue, seen | `ancestors`, `descendants`, `covers`, `orphan_scopes` | cycles, parents that were not imported | upward and downward answers agree |
| Access resolution and findings (`resolver/access.py`, `findings/`) | none: pure functions over a graph | `access_paths`, the reverse lookups, fourteen rules, `evaluate` | rules that must together leave no gap; advice drawn from one identity's point of view | nobody missed or wrongly named; the advice is true |
| Pages (`web/viewmodels.py`, `web/relationship_graph.py`) | none | pages of an identity, a scope, a role and a path, the privileged list, the diagram | each resolves access anew from its own side; columns that fill up; links that name a chain | the pages agree, links open what they stand for, diagrams show what there is |
| Scanner (`scripts/scan_rbac.py`), comparison and files (`drift/`) | observation, report, evidence files | paged reads with retries, `compare`, `atomic_write`, exit code | the tenant changes during the scan, reads fail, disk writes fail, the job is killed | a green report was true, a drift report too, evidence agrees with the verdict, a scan ends |
| Offline comparison and drift page (`drift/__main__.py`, `web/routes/drift.py`) | none; two files, or a directory of them | `merge_targets`, `compare` | several teams' target files, an observation collected hours ago on a machine with another clock | a green answer was true of a recent time, for the approvals of every file |
| Collector (`scripts/collect/`) | records, the reads to come, the output file | dozens of reads, `Add-Record`, `Get-OutputFile`, writing | the tenant changes between the reads, Graph leaves out members, another export uses the path | the export can be read alone, tells the truth, and is written only when complete |
| Configuration, demo data, pipelines | none, or read once | reading settings, generating | | not modelled, see below |

How they interact. The collector's output is what operators upload. `imports.py` passes an
uploaded file to the importer and its result to `save_import`, in one handler; then it
calls `invalidate`. Every other screen asks `state.current_dataset`, which reads the active
snapshot's id from the database, its graph through the graph cache and its findings
through the findings cache, running the rules on a miss. The rules and the pages ask the
resolver, the resolver asks membership and hierarchy. The importer itself asks
`orphan_scopes` and `membership_cycles`. The scanner shares no state with the web
application: it leaves files, which an operator may upload to the drift page, and which
the offline comparison reads beside target files of a later time.

Where concurrency is. The web application is one uvicorn worker whose handlers do their
database work synchronously: the only `await` before a state change reads the uploaded
file, so a handler is one atomic action. What interleaves is whole requests of several
operators, each on a page rendered some time ago, answers that get lost, and restarts of
the process (`docker-compose.yml:25`). The scanner and the collector interleave with the
administrators of the tenant, with failures of Azure and of the disk, with the job being
killed and, for the collector, with whoever writes to the same path.

## Modules

| Module | Models | State and actions, against the code |
|---|---|---|
| `ActiveDataset` | abstract: a library of datasets, one chosen, screens that show it | `Add`, `Choose`, `Remove`, `Show` |
| `SnapshotStore` | storage, import screens, both caches | `Upload` is `load_demo`/`upload` with all of `save_import` and `invalidate`; `UploadRefused` is an upload whose transaction is rolled back, by a row the database refuses or by the end of the process; `Activate`, `ActivateMissing`, `Delete` are what a page that may be stale posts; `ViewGraph` and `ViewFindings` are the screens with what they load and evict; `ImportPage` renders a page; `Restart` empties the process. A dataset is a model value: rows of one import are told apart from those of another, not from each other |
| `MembershipWalk` | `membership_paths` | the recursion of `walk` as a stack of frames: `Skip`, `Extend`, `Return`, each one iteration. The list of groups a call goes through is a set taken in any order, since the importer has dropped repeated memberships |
| `MemberExpansion` | `transitive_members` | the loop: `Pop`, `Skip`, `Find` |
| `MembershipCycles` | `membership_cycles` | the walk from every group: `Start`, `Close` at a group of the path, `Walk`, `Return` |
| `GroupSearches` | the two above on one import | `LookForCycles` at the end of the import, then `ListMembers` for the page of a group. It composes both modules by `EXTENDS` and `INSTANCE` over one membership relation |
| `ScopeTree` | `ancestors`, `descendants`, `covers` | `Climb`, `Arrive`; `Pass`, `Descend` |
| `ScopeSearches` | these on a snapshot under review | composes `AccessReview` and `ScopeTree` over one `graph.scopes`, and says what the first may take for ancestors and subtree |
| `DatasetImport` | the importer | an action per loader; each step reads the next record of the section at hand, so the file is whatever was read; `NextSection`, `CheckIntegrity` (which ends `run`), `Refuse`, `CrashOnBlank`. Entities remember the place of their record, which stands for the names and descriptions they were given |
| `AccessReview` | `access_paths`, the rules, `evaluate` | an operator per rule, sets of finding keys; `Evaluate` runs them all on a graph chosen in `Init`. It uses what `MembershipWalk` and `ScopeTree` compute, as sets: chains, and least sets that the edges do not leave |
| `AccessScreens` | the pages, extending `AccessReview` | `ScopeRows`, `GrantRows`, `HolderRows`, `PrivilegedRows` are what the four pages list; `Opened` is the path a link opens; `Diagram` is the loop of `build` over the paths in an order they may come in: `DrawPath` is its body and `Drawn` what is there after each path |
| `DriftCompare` | `compare` without its refusals | an operator per kind of finding, and `Verdict`; used by the next two |
| `RbacScan` | scanner, comparison, evidence files | phases of `main`: `Begin`/`Refuse`, `CheckSession`, `ReadPage`, `ReadLastPage`, `ReadRole`, `Compare`, `WriteObserved`, `WriteReport`, `WriteSummary`, and what goes wrong: `Retry`, `Fail`, `LoseObserved`, `LoseReport`, `Kill`. `Administer` and `Redefine` are Azure's administrators (external) |
| `OfflineDrift` | the offline comparison and the drift page | `Valid` and `Merge` are `TargetState` and `merge_targets`; `BeginCollection`, `ReadScope`, `ReadRole`, `EndCollection` make the observation; `Tick` is the clock; `Compare` is one request or one `check` on the target files of that time. Administrators as in `RbacScan` |
| `TenantExport` | the collector | the stages of the script with an action for each kind of read: `ReadDirectory`, `ReadMemberships`, `ReadEntities`, `ReadAccounts`, `ReadAccess`, `ReadDefinition`; `Start` and `EndReading` call `Get-OutputFile`; `OpenOutput`, `WriteBytes`, `FinishWriting`; `Fail` is its `catch`. `Administer` is the tenant, `SomebodyWrites` another process (external) |
| `MC*` | instances for TLC | |
| `*Proofs` | theorems of the module of that name; `GroupSearchesProofs` also those of `MemberExpansion` and `MembershipCycles`, `AccessScreensProofs` those of `AccessReview`, `ScopeTree` and `ScopeSearches` | |

`SnapshotStore` implements `ActiveDataset`: the library is what the tables hold by id, the
chosen snapshot is the one `active_snapshot` reads, what is served is what the latest
screen was given.

## Runs

| Run | Instance | States | What it shows |
|---|---|---|---|
| `store` | 2 datasets, 2 operators, 3 ids, audit log of 10, cache of 2 | 584,625 | At most one snapshot is active; tables hold exactly the rows of the stored snapshots; both caches hold what the tables hold, though ids are reused, and the graph cache stays within its limit; the audit log explains what is stored and active; the store implements `ActiveDataset` |
| `walk` | a principal in 2 of 4 groups, every relation in which nobody is in more than two; depth 3, 8 paths | 797,809 | `membership_paths` returns real chains, in which nobody is met twice, and all of them within the depth cap unless the path cap was met; past that cap it returns only groups beside the chain that met it |
| `scopes` | root and 3 scopes, imported or not, any parents | 10,549 | `descendants` is the subtree, each scope once, even on cycles; `ancestors` climbs parents; `covers` agrees with `descendants` for imported scopes; what both find is what `AccessReview` uses; both end |
| `group_searches` | a group and 4 principals, every relation of up to 5 memberships; depth 3 | 213,956 | the cycles the import page warns of are cycles, each set of groups once, and all up to the cap; the members a group page lists are members, and all of them when nothing was refused at the cap; a group is named in a warning exactly if it is a member of one of its members; both searches end |
| `scan` | one run; 2 assignments, 2 keys, constraints or none, 2 overlapping queries of 1 and 2 pages, 2 changes, 2 attempts, every failure and kill | 309,230 | a green report and a drift report are each true of what Azure held during the run; a verdict lies beside the observation it follows from; exit code and report agree; no evidence is overwritten; a run ends |
| `offline` | a management group, a subscription and a resource group, 3 assignment ids, 9 libraries of target files; 1 hour of age and of tolerance, clocks 1 apart, 3 hours, 1 change | 712,800 | a green answer was true of a recent time, for the approvals and scopes of every file; which file a team uses makes no difference; a quiet tenant is judged, and rightly |
| `collector` | 2 management groups, 1 subscription, 1 resource group; a user, a group, an application; 2 roles, 2 assignments; 2 changes | 1,157,872 | a finished export defines what it refers to, has nothing that was never so, misses nothing that was so throughout, and is written only when complete and only where it may |
| `importer` | files of up to 3 records over 5 scopes, 1 role, 2 identities, 3 assignment ids | 136,422 | every record kept or reported, counts right, dangling references reported exactly, ids unique |
| `review` | 4 identities, 2 of them groups, nested or in a circle, one perhaps not imported or of the other's name; 5 scopes; 2 roles; up to 2 assignments; diagrams of 1 or 2 rows | 62,400 | privileged access through groups is reported for exactly those who have it; what is called redundant is so for the identity named; what is called reachable by more than one path survives the revocation of the direct one; the pages agree; a link opens its path; a diagram shows what there is |

The bounds. The store needs a deletion followed by two imports to reuse an id and a page
that is older than both: three ids, and two operators for a page that outlives the other's
action. `MaxAudit` ends what a behaviour may do to the store: `Room` keeps an import, an
activation or a deletion from being explored that would log more rows, while screens,
pages and restarts go on. To act, from a page as old as the first owner of an id, on the
second owner of it when that is not active takes ten rows (two imports, an activation, a
deletion, an import, another activation, the act; an import logs two rows), which is why it
is ten. The walks meet their caps at these
bounds, which is what the caps are small for: with four groups and depth 3 a walk meets
cycles inside its chain, is cut off by the depth and reaches the path cap. Every relation
of the given size is an initial state. Five memberships among five principals make cycles
that share groups, cycles entered by a tail and a cycle longer than the cap. Three scopes
make cycles of length one to three and orphans. Three records are enough for every pair of
records that concern each other with a third the first two refer to. Two assignments are
what a redundant, duplicate or second route is made of; a diagram of one or two rows fills
in the middle of a chain of two groups. The scanner's properties relate one change to one
verdict; two changes let an assignment vanish and another appear in its place between two
pages. `Dirs` bounds the number of runs. Offline, the libraries hold single files,
overlapping scopes, a scope declared by two files (which the property compares in either
order of their names), approvals split between files, and files that contradict each other,
belong to another tenant or are malformed; three hours outlast age and tolerance together. The collector's tenant has one
of everything a record can refer to and two of what one read may find changed against
another: a role, a parent, an edited assignment. The proofs below do not depend on any of
these numbers.

Symmetry is used for datasets and operators in `store`, where no liveness is checked and
no definition chooses among them, and for the ids of assignments in `review`.
`group_searches` starts from the relations that differ by more than the names of the
principals. `CHECK_DEADLOCK FALSE` is said where the modelled call returns, the file has
been imported, the log, the directories, the clock or the changes are used up: there the
system really stops.

Fairness. `MemberExpansion`, `GroupSearches` and `ScopeSearches` assume weak
fairness of their next step: a loop that is running in a thread goes on running.
`RbacScan` assumes weak fairness of the scanner only, which is a running process whose
every Azure read is ended by its timeout (`scan_rbac.py:32`) and by the number of attempts
(line 29); the administrators owe nothing. Nothing is assumed of operators and
administrators: `SnapshotStore`, `MembershipWalk`, `DatasetImport`, `AccessReview`, `OfflineDrift` and
`TenantExport` state no fairness.

Assumptions on the environment. Continuation links keep the boundaries of Azure's pages
while a collection is read, and an assignment that is not changed stays on its page. One
scan runs at a time (the concurrency group of the pipelines). A target file of the scanner
has been validated by `drift/schema.py`; `OfflineDrift` models that validation. Freshly
made report directories are new (`files.py:78`). In `OfflineDrift` a declared scope is read
in one step, as `RbacScan` has the pages. In `TenantExport` the pages of one Graph
collection are one answer, and the tenant is `Lawful` at any moment: both ends of a
membership and the parent of a scope exist, and an assigned role is not deleted.

## Where the code and its documents disagree

Three runs show a statement of the repository that the code does not fulfil; each ends
with a counterexample of a few steps.

| Run | Statement | What happens |
|---|---|---|
| `member_two_ways` | `membership.py:84`: "Every principal that is a member of `group_id`, directly or nested" | a group popped at the depth cap is in `seen` and is not expanded when it is met again by a shorter way; its members are missing. In the run the shortest chain to the missing member has three memberships, as many as the cap allows |
| `import_total` | `importer.py:7`: "Import is total" | a subscription whose id is `" "` ends the import with an `AttributeError` at line 203 |
| `redundant_nobody` | `rules.py:378`: "Removing it reduces the number of assignments to review without changing anyone's access" | the assignment may be a group's, and redundant for one member only |

More are stated in the modules, do not hold, and are in no listed run; put in place of the
invariants of the module's cfg (of `MCAccessReview.cfg` for `AccessScreens`) each gives a
counterexample.

| Definition | Statement | What happens |
|---|---|---|
| `SnapshotStore!UiReadsActiveSnapshot` (a property) | `docs/ARCHITECTURE.md:51`: "The active snapshot is what the UI reads." | after the active snapshot is deleted the newest is read and none is active |
| `MembershipWalk!TruncatesAtMaxPaths` | `docs/HANDOFF.md:220` | the cap is tested on entering a call, and the loops of the calls under way go on past it, as far as `PastCapOnlySiblings` says |
| `ScopeSearches!AppliesEverywhereBelow` | `hierarchy.py:3` | `covers` denies that an assignment at a scope that was not imported reaches the scopes below, which `descendants` lists |
| `DatasetImport!DuplicatesAreRepeated` | `importer.py:449` | an assignment without an id gets `ra-1`, which another record of the file has, and is dropped |
| `AccessReview!SecondRouteReported` | `README.md:157` | two groups with one display name are taken for one route |
| `AccessReview!BroadPrivilegeReported` | `rules.py:402`: "already reported by privileged-at-management-group" | that rule looks at management groups only; Owner at `/` for a group is reported by neither |
| `AccessScreens!RowMatchesItsPath` | `scope_detail.html`: "Assigned here" | the row of an identity that has a role here and above says so, and links to the first path, which comes from above (`viewmodels.py:311`) |
| `AccessScreens!AlternativesSurvive` | `access_path.html:103`: "Removing one of these does not remove the access" | two chains of one assignment may share their first step |

Two consequences a reader of the pages should know, though no document denies them. Of two
holders that were not imported, with one role at one scope, a finding keeps the evidence of
one (`findings/engine.py:109`). The page of an identity gives an assignment at a scope that
was not imported a reach that takes in the scopes below, whose own pages do not list it;
`ScreensAgree` is therefore about imported scopes.

## Proofs

| Module | Theorems, for every value of the constants |
|---|---|
| `SnapshotStoreProofs` | `StoreTypeCorrect`, `AtMostOneActive`, `TablesInStep`, `GraphCacheCoherent`, `FindingsCacheCoherent`, `GraphCacheWithinLimit`, `CachesAreCoherent`, `AuditAccountsForStore`, `StoreImplementsActiveDataset` |
| `MembershipWalkProofs` | `WalkTypeCorrect`, `WalkSound`, `WalkComplete`, `WalkEndsAtCap`, `WalkFindsChains` |
| `GroupSearchesProofs` | `ExpansionTypeCorrect`, `ExpansionSound`, `ExpansionComplete`; `CycleReportsAreExact`, `PageListsMembers`, `PageIsComplete`, `WarningAgreesWithPage` |
| `AccessScreensProofs` | of the findings `ReviewTypeCorrect`, `PrivilegeIsFound`, `SecondRouteIsReal`, `RedundantIsHarmless`; of the pages `PagesTellOneStory`, `LinksAreRight`, `DiagramsAreRight`; of the scopes `TreeTypeCorrect`, `ReachIsCountedOnce`, `AncestorsAreParents`, `ReachIsTheSubtree`, `ReachShownIsExact`, `CoversAgreesWithReach` |
| `RbacScanProofs` | `ScanTypeCorrect`, `GreenReportIsTrue`, `DriftReportIsTrue`, `ReportHasItsEvidence`, `ExitHasItsEvidence`, `EvidenceIsKept` |
| `TenantExportProofs` | `ExportTypeCorrect`, `ExportReadableAlone`, `ExportTellsTheTruth`, `OutputIsComplete` |
| `OfflineDriftProofs` | `OfflineTypeCorrect`, `OfflineGreenIsTrue`, `FileNamesAreIgnored`, `QuietTenantIsJudged` |
| `DatasetImportProofs` | `ImportInvariant`, `RecordsAreAccounted`, `ImportedGraphIsSimple`, `ReferencesAreReported` |

The assumptions are the named ASSUMEs of the component modules, which TLC evaluates on
every run: constants are of their kind, ids and limits are naturals, `None` is no dataset,
a tenant is a membership relation, an estate a partial parent function, what Azure and
Graph hold to. A graph under review has finitely many principals and assignments, as what
is read from a file has; which holders, roles, scopes and members were imported is left
open. Of the scopes of `OfflineDrift` it is assumed that each is at or above itself.

So that they can be proved about, the closures of `AccessReview` are written as least sets
and the loop of the diagram as a function of the number of paths drawn, not by recursive
operators. The instances TLC runs use the same definitions.

The arguments.

- *Store.* `StoreInvariant` joins the type invariant with five facts that need each other:
  the flag of one snapshot at most is set; rows exist exactly for existing snapshots; an
  entry of the graph cache equals what is stored under its id, and so does an entry of the
  findings cache; the graph cache is within its limit. That the replay of the log gives the
  store (`AuditAccountsForStore`) is a second induction on top of it. The caches are not inductive without the tables being
  in step, as a deletion must leave nothing that a reused id could pick up. The refinement
  then maps each step to a step of `ActiveDataset` or a stutter, with the caches' freshness
  making a screen from the cache the same as one from the tables.
- *Walk.* The results alone say nothing of what is still to come. `WalkInvariant` says
  that the frame at depth n holds a real chain of n - 1 groups and has left only groups of
  the last one, and that the results are real; `CoverInv` adds that every chain is in the
  results, or begins with a frame's chain and one of the groups it has left, unless the
  path cap was met. With the stack empty the last case is
  impossible. For `WalkEndsAtCap`, `CapInv` says that
  the chain of a call begins with those of the calls around it. The path that meets the cap
  begins with all of them, and as no call is entered from then on, whatever a loop still
  records begins like that path and leaves it with its last group, where it ends.
  `WalkFindsChains` then compares the walk's definition of a path with the `Chains` of
  `AccessReview`: whatever is returned is one of them, and below both caps all are.
- *Scopes.* `TreeInvariant` says the set below is closed but for the queue and connected
  to where it started, and the same of the climb. A set that is closed and connected is
  the subtree; a climb that ended in an imported scope's chain contains a scope exactly if
  the subtree of that scope contains the target.
  The composition with `AccessReview` lets `ReachShownIsExact` and `AncestorsAreParents` say
  that what the two loops return is what the rules and the pages use: a set that holds the start and is left by no edge contains the least such set,
  and one in which every scope was reached is contained in it.
- *Findings and pages.* The state is one graph and what the rules make of it, so the
  invariant is short (`ReviewInv`) and the work is in the lemmas. The ends of the chains
  above a principal are exactly the least set its memberships lead to: a chain never leaves
  it, and the set of all ends, with the principal, is closed, since a chain that would
  repeat a group can be cut where it first came to it. With it, `PrivilegeIsFound` is about
  nesting rather than paths. Climbing from a scope and descending to it are one relation
  (`CoversIsSubtree`), and it is transitive, also on cycles: hence what a redundant
  assignment reaches is reached from the broader one, and the removal, which takes no
  assignment of another role or scope, leaves the broader one in place
  (`RedundantIsHarmless`). After direct assignments are revoked the paths left are those by
  a group, and two routes differ exactly if one of them is by a group, of those a direct
  holder has (`SecondRouteIsReal`). All pages are shown to be projections of one set of
  paths (`PagesTellOneStory`), of which assignment and chain are a key (`LinksAreRight`).
- *Diagram.* `LoopInv` is carried through the loop of `build`: no column holds more than
  there are rows, each edge belongs to a path drawn so far, and each of these is there
  from one end to the other or lacks a node whose column is full. A column only grows and is
  bounded, so what is full stays full and what is missing stays excused. The induction
  is over the number of paths, by the least one for which it fails.
- *Members.* `ExpansionInvariant` gives each stack entry a chain of its depth and says that
  the members of anybody found are found too unless he is on the stack or was refused at
  the cap.
- *Cycles.* `CallsInv` says that the paths of the calls are chains without repetition, each
  the one before it with a group more, and that what a call has left to try are groups its
  last is in. `ReportsInv` follows every ring of at most the cap: it has been reported, or
  a walk from one of its groups is still to start, or one of the calls is on it and has its
  next group left. A ring is walked around from where the walk started, so the last step
  closes it. The theorems about the page of a group are those of `MemberExpansion`, carried
  over to the composition, in which the expansion stutters while the cycles are looked for.
  `WarningAgreesWithPage` joins the two searches. Where the nesting below the group stays
  under the cap the members found are closed under membership. A reported ring through the group therefore
  runs among them; and from a member whose member the group is, a chain leads back to it
  that can be cut short to a ring within the cap, which has been reported.
- *Scanner.* A verdict is about times no state remembers, so `past` keeps what each
  assignment was since the scan began. `TimeInv` says that what has been observed was so
  then and that the present is the latest of it; `CoverInv` that an assignment which was
  there throughout has been observed or is on a page still to be read, of the queries left,
  whatever was retried and in whatever order links were followed. At `Compare` nothing is
  left to read, and the verdict speaks of all that was there. `OwnFilesInv`, `FreshInv` and
  `EvidenceInv` say which run wrote each file, that a directory not yet taken is empty, and
  that a report follows from the observation beside it: these survive a kill between any
  two writes because each write is one replacement. `PhaseInv` ties files to phases.
- *Offline.* An observation outlives the states it is about, so it carries what each
  assignment and role had been while it was collected. `SeenTruly` says that what was read
  was part of that history, and that what was there throughout, of a scope that was read,
  has been read; `IsHistory` that an id had one key for as long as it was in force, so that
  two sightings of an id cannot be two grants. Both survive the end of the collection
  because nothing writes to the observation afterwards. `AnswerInv` says which files and
  observation an answer is about. What `merge_targets` makes of the files is characterized
  without their order (which scopes, which approvals, whether two of them contradict each
  other), and from that `FileNamesAreIgnored` follows for any permutation of them, and
  `OfflineGreenIsTrue` for the approvals of each.
- *Collector.* `HistoryInv` says that the records collected were so at some time.
  `CoverInv` says of each record that was so throughout and is not collected that it is
  awaited: some read that will return it is planned or, by the stage the script is in, will
  be planned when the scopes or groups it depends on have been collected. `ClosedInv` says
  that parents are collected with their children, from the hierarchy as it was at one
  moment, that what `ReadAccess` adds belongs to a scope on its list, and `TodoInv` which
  reads each stage may hold. Roles are the exception: a definition may be missing until
  `Undefined` is empty, which is the guard of `EndReading`. `FileInv` ties the file to the
  stage, with `Complete` from `EndReading` on.
- *Importer.* Entities and warnings keep the place of their record, so that a step adds
  exactly one place, to those kept or to those left. `PlaceInv` says that these are apart
  and hold all places read, section by section; the counts the importer keeps are then
  cardinalities of sets that are disjoint. `OrderInv` says that memberships and assignments
  are empty until their sections, hence the tables a reference is looked up in no longer
  change when a warning about it is given, and the warning stays true. An
  assignment whose id, given or generated, is already there is left out by a guard; that a
  generated id is one of `AssignmentIds` rests on `SelectSeq`, which is recursive, and stays
  with TLC.

Only model-checked: the liveness properties (`Terminates`, `BothTerminate`, `RunEnds`),
which are out of the prover's reach. None is stated of `membership_paths`: its visited set
and its depth cap each end it without the other. Every other property of a passing run is a theorem.
`CyclesReported` and the type invariant of `DatasetImport` are stated and hold, but are in
no listed run.

## Not modelled, and why

- Configuration is read once per process; the privileged roles are a fact of a role in
  `AccessReview`.
- The demo generators and the screenshots only write files.
- Of the pages: filters, the search and its limit of 200, the counts of the overview,
  layout.
- Texts: messages, severities, sorting and evidence of findings; the grammar of scope ids
  (`domain/ids.py`), of which only the outcome of parsing, the kind and its depth are kept.
- In the importer: unknown top-level keys and unparseable parents, which warn and change
  nothing else, and the coercion of optional fields. Of several tenant records each gets
  a warning of its own in the model, where the code gives one with their number.
- In the scanner: the cap of ten thousand pages, whose effect, an error report, the action
  `Fail` covers. The age limits of an observation are in `OfflineDrift`.
- In the drift page: the limits of an upload, which lead to the error report.
- In the collector: its warnings other than the one that names subscriptions it did not
  cover; the checks that both sessions are of one tenant, which `Fail` covers.
- In `DatasetImport` and `AccessReview` the searches are written as what they compute in
  tenants smaller than their caps; the caps are in the modules of the searches.

## Plan

Done, in this order: `ActiveDataset`, `SnapshotStore` and its proofs; `MembershipWalk`,
`ScopeTree`, `MemberExpansion` and their proofs; `RbacScan`; `DatasetImport`;
`AccessReview`; `DriftCompare` and `OfflineDrift`; `AccessScreens`; `TenantExport`;
`MembershipCycles` and `GroupSearches`; the proofs of `GroupSearches`, `RbacScan`,
`TenantExport` and `DatasetImport`; those of `OfflineDrift`, `AccessReview` and
`AccessScreens`, `WarningAgreesWithPage`, `WalkEndsAtCap`; `ScopeSearches`
and `WalkFindsChains`.

1. Prove. What the importer builds is a graph the searches and the rules may assume
   (`IsGraph`, no self-membership). That one of two assignments reported by
   `duplicate-assignment` can be removed without changing anybody's access.
2. Extend. Findings with their evidence, so that the collapse of holders that were not
   imported (`engine.py:109`) can be stated. A composition of `DatasetImport` with the
   search modules through `build_indexes`. `ScopeIds`: the grammar of scope ids over short
   sequences of segments.
