------------------------------ MODULE RbacScan ------------------------------
(***************************************************************************)
(* One scanner at a time (scripts/scan_rbac.py) reads the role assignments *)
(* and pinned role definitions of an Azure tenant page by page, compares   *)
(* them with the approved target (drift/engine.py) and leaves its evidence *)
(* in a directory of its own (drift/files.py).                             *)
(*                                                                         *)
(* "A scan is a sequence of reads, not an atomic tenant-wide snapshot":    *)
(* administrators change the tenant between any two of them.  A read may   *)
(* be throttled or fail, a disk write may fail, and the job may be killed  *)
(* between any two steps.                                                  *)
(***************************************************************************)
EXTENDS DriftCompare, Integers, Sequences

CONSTANTS
    Ids,            \* Azure assignment ids
    Keys,           \* principal, role and scope of an assignment
    Constraints,    \* its condition, condition version and delegated identity
    Roles,          \* role definition ids
    Permissions,    \* what a role definition allows
    Queries,        \* the collections read, each a sequence of pages of ids
    Targets,        \* the approved states: assignments, and pinned roles
    Dirs,           \* report directories
    Attempts,       \* of one Azure read: range(3)
    MaxChanges      \* bound on the administrators' changes
CONSTANTS NoRecord, NoFile

Record == [key : Keys, constraints : Constraints]

Observed == [id : Ids, record : Record]

\* observed.json
Evidence == [assignments : SUBSET Observed, roles : UNION {[X -> Permissions] : X \in SUBSET Roles}]

\* The report of a comparison.
Comparison ==
    [status : {"in-sync", "drift"}, target : Targets,
     findings : [missing : SUBSET Keys, unexpected : SUBSET Keys, changed : SUBSET Keys,
                 duplicate : SUBSET Keys, roles : SUBSET Roles]]

Report == Comparison \cup {ErrorReport}

Covered == UNION {UNION {Queries[q][p] : p \in 1..Len(Queries[q])} : q \in 1..Len(Queries)}

\* TargetState has validated the target: no two approvals of one key, and
\* every approved scope inside the declared ones, whose queries cover it.
ASSUME ScanAssumption ==
    /\ Queries \in Seq(Seq(SUBSET Ids)) /\ Queries # <<>>
    /\ \A q \in 1..Len(Queries) : Queries[q] # <<>>
    /\ \A t \in Targets :
        /\ t.approved \subseteq Record
        /\ \A r, s \in t.approved : r.key = s.key => r = s
        /\ DOMAIN t.pinned \subseteq Roles
        /\ t.pinned \in [DOMAIN t.pinned -> Permissions]
    /\ Attempts \in Nat \ {0} /\ MaxChanges \in Nat
    /\ NoRecord \notin Record
    /\ NoFile \notin Evidence \cup Report \cup {0, 1, 2}

VARIABLES
    live,       \* Azure: the assignment of each id in force, if any
    allowed,    \* Azure: the permissions of each role
    changes,    \* how often administrators have changed either
    past,       \* history: what each id has been since the run began
    pastRoles,  \* history: the permissions each role has had since
    phase,      \* the step of main the run has got to
    dir,        \* --output-dir of the run
    target,     \* the approved state of the run
    cursor,     \* the Azure read under way
    observed,   \* the assignments returned so far
    roles,      \* the pinned role definitions returned so far
    report,     \* the report of the run
    files,      \* what has been written to each directory
    exits       \* the exit status of the last run in each directory

azure == <<live, allowed, changes>>
history == <<past, pastRoles>>
reading == <<cursor, observed, roles>>
run == <<dir, target>>
vars == <<azure, history, phase, run, reading, report, files, exits>>

----------------------------------------------------------------------------

FirstRead == [query |-> 1, page |-> 1, seen |-> {}, attempt |-> 1]

Idle == phase = "idle"

Unwritten == [made |-> FALSE, observed |-> NoFile, report |-> NoFile, summary |-> NoFile]

Init ==
    /\ live \in [Ids -> Record \cup {NoRecord}]
    /\ allowed \in [Roles -> Permissions]
    /\ changes = 0
    /\ past = [i \in Ids |-> {}] /\ pastRoles = [x \in Roles |-> {}]
    /\ phase = "idle"
    /\ dir \in Dirs /\ target \in Targets
    /\ cursor = FirstRead /\ observed = {} /\ roles = <<>>
    /\ report = NoFile
    /\ files = [d \in Dirs |-> Unwritten]
    /\ exits = [d \in Dirs |-> NoFile]

\* An administrator creates, deletes or edits an assignment.  Its principal,
\* role and scope can only be changed by deleting it and creating it anew.
Administer(i, r) ==
    /\ changes < MaxChanges
    /\ r # live[i]
    /\ r # NoRecord /\ live[i] # NoRecord => r.key = live[i].key
    /\ live' = [live EXCEPT ![i] = r]
    /\ changes' = changes + 1
    /\ past' = IF Idle THEN past ELSE [past EXCEPT ![i] = @ \cup {r}]
    /\ UNCHANGED <<allowed, pastRoles, phase, run, reading, report, files, exits>>

\* An administrator edits a custom role.
Redefine(x, p) ==
    /\ changes < MaxChanges
    /\ p # allowed[x]
    /\ allowed' = [allowed EXCEPT ![x] = p]
    /\ changes' = changes + 1
    /\ pastRoles' = IF Idle THEN pastRoles ELSE [pastRoles EXCEPT ![x] = @ \cup {p}]
    /\ UNCHANGED <<live, past, phase, run, reading, report, files, exits>>

\* new_output_dir fails: the path exists, or cannot be created.
Refuse(d) ==
    /\ Idle
    /\ exits' = [exits EXCEPT ![d] = 2]
    /\ UNCHANGED <<azure, history, phase, run, reading, report, files>>

\* Mutant: mkdir(exist_ok=True).
BeginAnywhere(d, t) ==
    /\ Idle
    /\ files' = [files EXCEPT ![d].made = TRUE]
    /\ dir' = d /\ target' = t
    /\ phase' = "session"
    /\ cursor' = FirstRead
    /\ past' = [i \in Ids |-> {live[i]}] /\ pastRoles' = [x \in Roles |-> {allowed[x]}]
    /\ UNCHANGED <<azure, observed, roles, report, exits>>

\* main creates its directory and loads the target.
Begin(d, t) ==
    /\ Idle
    /\ ~ files[d].made
    /\ files' = [files EXCEPT ![d].made = TRUE]
    /\ dir' = d /\ target' = t
    /\ phase' = "session"
    /\ cursor' = FirstRead
    /\ past' = [i \in Ids |-> {live[i]}] /\ pastRoles' = [x \in Roles |-> {allowed[x]}]
    /\ UNCHANGED <<azure, observed, roles, report, exits>>

Collecting == phase \in {"session", "assignments", "roles"}

\* A CollectionError, IncompleteScan or other ValueError, from an invalid
\* target to a read that times out: the report is an error, and the
\* observation is lost.
Fail ==
    /\ Collecting
    /\ report' = ErrorReport
    /\ phase' = "report"
    /\ observed' = {} /\ roles' = <<>>
    /\ UNCHANGED <<azure, history, run, cursor, files, exits>>

\* Mutant: one attempt too many.
RetryOnceMore ==
    /\ Collecting
    /\ cursor.attempt <= Attempts
    /\ cursor' = [cursor EXCEPT !.attempt = @ + 1]
    /\ UNCHANGED <<azure, history, phase, run, observed, roles, report, files, exits>>

\* azure_read: the CLI is throttled or a gateway is down, and tries again.
Retry ==
    /\ Collecting
    /\ cursor.attempt < Attempts
    /\ cursor' = [cursor EXCEPT !.attempt = @ + 1]
    /\ UNCHANGED <<azure, history, phase, run, observed, roles, report, files, exits>>

\* The session and every subscription of the target are as they must be; the
\* reads that tell are one here, since nothing of their answers is kept.
CheckSession ==
    /\ phase = "session"
    /\ phase' = "assignments"
    /\ cursor' = FirstRead
    /\ UNCHANGED <<azure, history, run, observed, roles, report, files, exits>>

\* What Azure returns for a page: the assignments listed on it and in force.
OnPage(q, p) == {o \in Observed : o.id \in Queries[q][p] /\ o.record = live[o.id]}

LastPage == cursor.page = Len(Queries[cursor.query])

\* Mutant: the URLs already read are not remembered.
ReadablePage == TRUE

\* pages: a URL seen before is an error (Fail).
FreshPage == cursor.page \notin cursor.seen

\* pages reads a page that links to another one: the next one, or, where the
\* service misbehaves, one that was read before.
ReadPage(next) ==
    /\ phase = "assignments"
    /\ FreshPage
    /\ \/ ~ LastPage /\ next = cursor.page + 1
       \/ next \in cursor.seen \cup {cursor.page}
    /\ observed' = observed \cup OnPage(cursor.query, cursor.page)
    /\ cursor' = [cursor EXCEPT !.page = next, !.seen = @ \cup {cursor.page}, !.attempt = 1]
    /\ UNCHANGED <<azure, history, phase, run, roles, report, files, exits>>

\* Mutant: the loop is left before the values of the last page are kept.
DropLastPage ==
    /\ phase = "assignments"
    /\ FreshPage
    /\ LastPage
    /\ IF cursor.query < Len(Queries)
       THEN cursor' = [FirstRead EXCEPT !.query = cursor.query + 1] /\ UNCHANGED phase
       ELSE cursor' = FirstRead /\ phase' = "roles"
    /\ UNCHANGED <<azure, history, run, observed, roles, report, files, exits>>

\* pages reads the last page of a collection, and collect goes on to the next
\* collection, or to the pinned roles.
ReadLastPage ==
    /\ phase = "assignments"
    /\ FreshPage
    /\ LastPage
    /\ observed' = observed \cup OnPage(cursor.query, cursor.page)
    /\ IF cursor.query < Len(Queries)
       THEN cursor' = [FirstRead EXCEPT !.query = cursor.query + 1] /\ UNCHANGED phase
       ELSE cursor' = FirstRead /\ phase' = "roles"
    /\ UNCHANGED <<azure, history, run, roles, report, files, exits>>

\* collect reads the definition of a pinned role.
ReadRole(x) ==
    /\ phase = "roles"
    /\ x \in DOMAIN target.pinned \ DOMAIN roles
    /\ roles' = [y \in DOMAIN roles \cup {x} |-> IF y = x THEN allowed[x] ELSE roles[y]]
    /\ cursor' = FirstRead
    /\ UNCHANGED <<azure, history, phase, run, observed, report, files, exits>>

\* The observation is complete and consistent, and is compared with the target.
Compare ==
    /\ phase = "roles"
    /\ DOMAIN roles = DOMAIN target.pinned
    /\ ~ Conflicting(observed)
    /\ report' = Verdict(target, observed, roles)
    /\ phase' = "observed"
    /\ UNCHANGED <<azure, history, run, reading, files, exits>>

\* main writes observed.json.
WriteObserved ==
    /\ phase = "observed"
    /\ files' = [files EXCEPT ![dir].observed = [assignments |-> observed, roles |-> roles]]
    /\ phase' = "report"
    /\ UNCHANGED <<azure, history, run, reading, report, exits>>

\* Mutant: an observation that cannot be written does not stop the report.
CarryOnUnobserved ==
    /\ phase = "observed"
    /\ phase' = "report"
    /\ UNCHANGED <<azure, history, run, reading, report, files, exits>>

\* An OSError on observed.json turns the report into an error.
LoseObserved ==
    /\ phase = "observed"
    /\ report' = ErrorReport
    /\ phase' = "report"
    /\ UNCHANGED <<azure, history, run, reading, files, exits>>

\* The process ends: what it held in memory is gone.
Gone ==
    /\ phase' = "idle"
    /\ cursor' = FirstRead /\ observed' = {} /\ roles' = <<>>
    /\ report' = NoFile
    /\ past' = [i \in Ids |-> {}] /\ pastRoles' = [x \in Roles |-> {}]
    /\ UNCHANGED <<azure, run>>

\* write_report writes report.json.
WriteReport ==
    /\ phase = "report"
    /\ files' = [files EXCEPT ![dir].report = report]
    /\ phase' = "summary"
    /\ UNCHANGED <<azure, history, run, reading, report, exits>>

\* write_report writes report.md, and the run exits with its verdict.
WriteSummary ==
    /\ phase = "summary"
    /\ files' = [files EXCEPT ![dir].summary = report.status]
    /\ exits' = [exits EXCEPT ![dir] =
                    CASE report.status = "in-sync" -> 0
                      [] report.status = "drift" -> 1
                      [] report.status = "error" -> 2]
    /\ Gone

\* Mutant: main passes over a report.json it could not write.
CarryOnUnreported ==
    \/ /\ phase = "report"
       /\ phase' = "summary"
       /\ UNCHANGED <<azure, history, run, reading, report, files, exits>>
    \/ /\ phase = "summary"
       /\ exits' = [exits EXCEPT ![dir] = 2]
       /\ UNCHANGED files
       /\ Gone

\* An OSError on either report file: "Cannot write scan evidence".
LoseReport ==
    /\ phase \in {"report", "summary"}
    /\ exits' = [exits EXCEPT ![dir] = 2]
    /\ UNCHANGED files
    /\ Gone

\* The job is cancelled or times out, or its agent dies.  atomic_write has
\* replaced a file as a whole or left it alone.
Kill ==
    /\ ~ Idle
    /\ UNCHANGED <<files, exits>>
    /\ Gone

Administrators ==
    \/ \E i \in Ids, r \in Record \cup {NoRecord} : Administer(i, r)
    \/ \E x \in Roles, p \in Permissions : Redefine(x, p)

Scheduler == \E d \in Dirs : Refuse(d) \/ \E t \in Targets : Begin(d, t)

Scanner ==
    \/ Fail \/ Retry
    \/ CheckSession
    \/ \E next \in UNION {1..Len(Queries[q]) : q \in 1..Len(Queries)} : ReadPage(next)
    \/ ReadLastPage
    \/ \E x \in Roles : ReadRole(x)
    \/ Compare
    \/ WriteObserved \/ LoseObserved
    \/ WriteReport \/ WriteSummary \/ LoseReport

Next == Administrators \/ Scheduler \/ Scanner \/ Kill

\* A run that has begun goes on: each CLI call ends within its timeout of 90
\* seconds, and nothing else makes main wait.
Spec == Init /\ [][Next]_vars /\ WF_vars(Scanner)

----------------------------------------------------------------------------
(* Properties. *)

Directory ==
    [made : BOOLEAN, observed : Evidence \cup {NoFile}, report : Report \cup {NoFile},
     summary : {"in-sync", "drift", "error", NoFile}]

\* The shape of the state.
TypeOK ==
    /\ live \in [Ids -> Record \cup {NoRecord}]
    /\ allowed \in [Roles -> Permissions]
    /\ changes \in 0..MaxChanges
    /\ past \in [Ids -> SUBSET (Record \cup {NoRecord})]
    /\ pastRoles \in [Roles -> SUBSET Permissions]
    /\ phase \in {"idle", "session", "assignments", "roles", "observed", "report", "summary"}
    /\ dir \in Dirs /\ target \in Targets
    /\ cursor.query \in 1..Len(Queries)
    /\ cursor.page \in 1..Len(Queries[cursor.query])
    /\ cursor.seen \subseteq 1..Len(Queries[cursor.query])
    /\ cursor.attempt \in 1..Attempts
    /\ [assignments |-> observed, roles |-> roles] \in Evidence
    /\ DOMAIN roles \subseteq DOMAIN target.pinned
    /\ report \in Report \cup {NoFile}
    /\ files \in [Dirs -> Directory]
    /\ exits \in [Dirs -> {NoFile, 0, 1, 2}]

Concluded(status) == report # NoFile /\ report.status = status

\* A green report is true of the tenant although it is put together from
\* reads at different times: every approved grant was in force at some time of
\* the run; no assignment covered by the scan was there during all of it
\* without being approved at some time; no grant was held twice throughout;
\* and each pinned role allowed at some time what it may allow.
GreenIsTrue ==
    Concluded("in-sync") =>
        /\ \A r \in target.approved : \E i \in Ids : r \in past[i]
        /\ \A i \in Covered : NoRecord \notin past[i] => past[i] \cap target.approved # {}
        /\ \A i, j \in Covered : i # j /\ NoRecord \notin past[i] \cup past[j] =>
                \E r \in past[i], s \in past[j] : r.key # s.key
        /\ \A x \in DOMAIN target.pinned : target.pinned[x] \in pastRoles[x]

\* Nothing is reported as drift that was not so at some time of the run; what
\* is missing was not in force throughout it.
DriftIsTrue ==
    Concluded("drift") =>
        /\ \A k \in report.findings.missing : \A i \in Covered :
                NoRecord \in past[i] \/ \E r \in past[i] : r.key # k
        /\ \A k \in report.findings.unexpected : \E i \in Ids : k \in KeysOf(past[i] \ {NoRecord})
        /\ \A k \in report.findings.changed : \E i \in Ids :
                k \in KeysOf(past[i] \ ({NoRecord} \cup target.approved))
        /\ \A k \in report.findings.duplicate : \E i, j \in Ids :
                i # j /\ k \in KeysOf(past[i] \ {NoRecord}) \cap KeysOf(past[j] \ {NoRecord})
        /\ \A x \in report.findings.roles : pastRoles[x] # {target.pinned[x]}

\* "Each successful collection stores its observation ... alongside the
\* report": a report that concludes anything lies beside the observation it
\* can be derived from again, whatever failed or was killed in between.
EvidenceReproducesVerdict ==
    \A d \in Dirs :
        files[d].report # NoFile /\ files[d].report.status # "error" =>
            /\ files[d].observed # NoFile
            /\ files[d].report = Verdict(files[d].report.target,
                                         files[d].observed.assignments, files[d].observed.roles)

\* Status 0 and 1, which a pipeline takes as a conclusion, are never returned
\* without both report files saying the same.
ExitAgreesWithEvidence ==
    \A d \in Dirs :
        /\ exits[d] = 0 => files[d].report # NoFile /\ files[d].report.status = "in-sync"
        /\ exits[d] = 1 => files[d].report # NoFile /\ files[d].report.status = "drift"
        /\ exits[d] \in {0, 1} => files[d].summary = files[d].report.status

\* No run writes over the evidence of another, or over its own.
EvidenceKept ==
    [][\A d \in Dirs : \A f \in {"observed", "report", "summary"} :
            files[d][f] # NoFile => files'[d][f] = files[d][f]]_vars

\* Every run ends, throttled or not, even if Azure links pages in a circle.
RunEnds == ~ Idle ~> Idle
=============================================================================
