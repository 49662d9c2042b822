---------------------------- MODULE OfflineDrift ----------------------------
(***************************************************************************)
(* The comparison of files: `python -m rolegraph.drift check`              *)
(* (drift/__main__.py) and the drift page (web/routes/drift.py) judge an   *)
(* observation collected some time ago against target files that several   *)
(* teams keep in one repository.  The files are merged (drift/files.py),   *)
(* the observation is refused where it cannot be judged, and compared      *)
(* otherwise (drift/engine.py).                                            *)
(*                                                                         *)
(* The tenant, the target files and the clock all move on between the      *)
(* reads of a collection, and between its end and the comparison.  The     *)
(* scanner that collects is the one of RbacScan: here a declared scope is  *)
(* read in one step, and a read that fails leaves no observation.          *)
(***************************************************************************)
EXTENDS DriftCompare, Integers, SequencesExt

CONSTANTS
    Tenants, Home,  \* tenants; the one the collector has a session for
    Scopes,         \* scope ids, as sequences of path segments
    Ids,            \* Azure assignment ids
    Origin,         \* the scope that is part of each id
    AtOrAbove,      \* a scope and those it inherits assignments from
    Grants,         \* principal and role of an assignment
    Constraints,    \* its condition, condition version and delegated identity
    Roles, Permissions,
    Libraries,      \* target files, in the order of their names
    MaxAge, Ahead,  \* --max-age-hours, and the 300 seconds of tolerance
    Skews,          \* how far the clock of the collector may be ahead
    MaxTime,        \* bound on the clock
    MaxChanges,     \* bound on the administrators' changes
    Malformed,      \* a file that is no TargetState
    Nothing         \* no assignment, no observation, no answer

Record == [key : [grant : Grants, scope : Scopes], constraints : Constraints]

Observed == [id : Ids, record : Record]

\* ScanScope
Declaration == [id : Scopes, includeDescendants : BOOLEAN]

ASSUME OfflineAssumption ==
    /\ Home \in Tenants
    /\ Origin \in [Ids -> Scopes]
    /\ AtOrAbove \in [Scopes -> SUBSET Scopes] /\ \A s \in Scopes : s \in AtOrAbove[s]
    /\ Libraries # {}
    /\ \A docs \in Libraries : docs # <<>> /\ docs \in Seq(Range(docs)) /\
        \A doc \in Range(docs) \ {Malformed} :
            /\ doc.tenantId \in Tenants /\ doc.scopes \subseteq Declaration
            /\ doc.approved \subseteq Record
            /\ DOMAIN doc.pinned \subseteq Roles /\ doc.pinned \in [DOMAIN doc.pinned -> Permissions]
    /\ MaxAge \in Nat /\ Ahead \in Nat /\ MaxTime \in Nat /\ MaxChanges \in Nat
    /\ \A k \in Skews : k \in Int /\ k <= Ahead
    /\ Nothing \notin Record

VARIABLES
    live,       \* Azure: the assignment of each id in force, if any
    allowed,    \* Azure: the permissions of each role
    changes,    \* how often administrators have changed either
    now,        \* the clock of the machine that compares
    reading,    \* the collection under way: its target, and what it has read
    past,       \* history: what each id has been since the collection began
    pastRoles,  \* history: the permissions each role has had since
    saved,      \* observed.json, with the history up to the end of its collection
    answer      \* the answer, if the last step was a comparison

azure == <<live, allowed, changes>>
history == <<past, pastRoles>>
vars == <<azure, now, reading, history, saved, answer>>

----------------------------------------------------------------------------
(* Target files (drift/schema.py, drift/files.py). *)

\* ScanScope.contains: a prefix by segments, since "/" is appended.
Inside(d, scope) == scope = d.id \/ (d.includeDescendants /\ IsPrefix(d.id, scope))

\* TargetState: explicit_management_group_boundary and unambiguous_target.
Valid(doc) ==
    /\ doc # Malformed
    /\ doc.scopes # {}
    /\ \A d \in doc.scopes : d.includeDescendants => Len(d.id) > 1 /\ d.id[1] = "subscriptions"
    /\ \A d, e \in doc.scopes : d.id = e.id => d = e
    /\ \A r, s \in doc.approved : r.key = s.key => r = s
    /\ \A r \in doc.approved : \E d \in doc.scopes : Inside(d, r.key.scope)

\* The scopes of all files, each as the first file declares it.
Declared(docs) ==
    UNION {{d \in docs[i].scopes : \A j \in 1..(i - 1) : \A e \in docs[j].scopes : e.id # d.id} :
            i \in 1..Len(docs)}

\* Mutant: the first declaration of a scope wins.
NothingRefused(docs) == \A i, j \in 1..Len(docs) : docs[i].tenantId = docs[j].tenantId

\* merge_targets: what two files may not do to each other.  The last line is
\* the validation of the merged target.
Compatible(docs) ==
    \A i, j \in 1..Len(docs) : i # j =>
        /\ docs[i].tenantId = docs[j].tenantId
        /\ \A d \in docs[i].scopes, e \in docs[j].scopes : d.id = e.id => d = e
        /\ KeysOf(docs[i].approved) \cap KeysOf(docs[j].approved) = {}
        /\ DOMAIN docs[i].pinned \cap DOMAIN docs[j].pinned = {}

Mergeable(docs) == (\A doc \in Range(docs) : Valid(doc)) /\ Compatible(docs)

\* merge_targets
Merge(docs) ==
    LET pinned == UNION {DOMAIN docs[i].pinned : i \in 1..Len(docs)}
    IN  [tenantId |-> docs[1].tenantId,
         scopes |-> Declared(docs),
         approved |-> UNION {docs[i].approved : i \in 1..Len(docs)},
         pinned |-> [x \in pinned |-> docs[CHOOSE i \in 1..Len(docs) : x \in DOMAIN docs[i].pinned].pinned[x]]]

----------------------------------------------------------------------------
(* compare (drift/engine.py). *)

\* Mutant: what the clock says now is not looked at.
AnyAge(seen) == seen.collectedAt <= now + Ahead

Fresh(seen) == now - seen.collectedAt \in (-Ahead)..MaxAge

\* Mutant: the scopes of the target must be among those observed.
CoversAtLeast(t, seen) == t.scopes \subseteq DOMAIN seen.results

\* One completed result for every declared scope, and no other.
CoversExactly(t, seen) == t.scopes = DOMAIN seen.results

\* Mutant: an assignment that two scopes return is counted twice.
EveryResult(seen) ==
    UNION {{[id |-> <<d, o.id>>, record |-> o.record] : o \in seen.results[d]} :
            d \in DOMAIN seen.results}

\* by_id, unless two results conflict.
ById(seen) == UNION {seen.results[d] : d \in DOMAIN seen.results}

Judge(docs, seen) ==
    IF /\ Mergeable(docs)
       /\ seen # Nothing
       /\ seen.tenantId = Merge(docs).tenantId
       /\ Fresh(seen)
       /\ CoversExactly(Merge(docs), seen)
       /\ ~ Conflicting(ById(seen))
       /\ DOMAIN seen.roles = DOMAIN Merge(docs).pinned
    THEN Verdict(Merge(docs), ById(seen), seen.roles)
    ELSE ErrorReport

----------------------------------------------------------------------------

NoHistory == past = [i \in Ids |-> {}] /\ pastRoles = [x \in Roles |-> {}]

Init ==
    /\ live \in [Ids -> Record \cup {Nothing}]
    /\ \A i \in Ids : live[i] # Nothing => live[i].key.scope = Origin[i]
    /\ allowed \in [Roles -> Permissions]
    /\ changes = 0 /\ now = 0
    /\ reading = Nothing /\ saved = Nothing /\ answer = Nothing
    /\ NoHistory

Collecting == reading # Nothing

\* An administrator creates, deletes or edits an assignment.  Its principal,
\* role and scope can only be changed by deleting it and creating it anew.
Administer(i, r) ==
    /\ changes < MaxChanges
    /\ r # live[i]
    /\ r # Nothing => r.key.scope = Origin[i] /\ (live[i] # Nothing => r.key = live[i].key)
    /\ live' = [live EXCEPT ![i] = r]
    /\ changes' = changes + 1
    /\ past' = IF Collecting THEN [past EXCEPT ![i] = @ \cup {r}] ELSE past
    /\ answer' = Nothing
    /\ UNCHANGED <<allowed, now, reading, pastRoles, saved>>

\* An administrator edits a custom role.
Redefine(x, p) ==
    /\ changes < MaxChanges
    /\ p # allowed[x]
    /\ allowed' = [allowed EXCEPT ![x] = p]
    /\ changes' = changes + 1
    /\ pastRoles' = IF Collecting THEN [pastRoles EXCEPT ![x] = @ \cup {p}] ELSE pastRoles
    /\ answer' = Nothing
    /\ UNCHANGED <<live, now, reading, past, saved>>

\* Hours pass.  A collection takes minutes, and before it time tells nothing.
Tick ==
    /\ now < MaxTime
    /\ saved # Nothing
    /\ now' = now + 1
    /\ answer' = Nothing
    /\ UNCHANGED <<azure, reading, history, saved>>

\* A scan begins, with the target files of that time.  Bound: one scan.
BeginCollection(docs) ==
    /\ ~ Collecting
    /\ saved = Nothing
    /\ Mergeable(docs) /\ Merge(docs).tenantId = Home
    /\ reading' = [target |-> Merge(docs), results |-> <<>>, roles |-> <<>>]
    /\ past' = [i \in Ids |-> {live[i]}] /\ pastRoles' = [x \in Roles |-> {allowed[x]}]
    /\ answer' = Nothing
    /\ UNCHANGED <<azure, now, saved>>

\* What Azure returns for a scope: the assignments at it and inherited by it,
\* and, where descendants are included, all that are below.
Returned(d) ==
    {o \in Observed : o.record = live[o.id] /\ (Origin[o.id] \in AtOrAbove[d.id] \/ Inside(d, Origin[o.id]))}

With(f, x, y) == [z \in DOMAIN f \cup {x} |-> IF z = x THEN y ELSE f[z]]

\* collect: a declared scope.
ReadScope(d) ==
    /\ Collecting
    /\ d \in reading.target.scopes \ DOMAIN reading.results
    /\ reading' = [reading EXCEPT !.results = With(@, d, Returned(d))]
    /\ answer' = Nothing
    /\ UNCHANGED <<azure, now, history, saved>>

\* collect: a pinned role.
ReadRole(x) ==
    /\ Collecting
    /\ x \in DOMAIN reading.target.pinned \ DOMAIN reading.roles
    /\ reading' = [reading EXCEPT !.roles = With(@, x, allowed[x])]
    /\ answer' = Nothing
    /\ UNCHANGED <<azure, now, history, saved>>

\* collect is complete; its clock says when.
EndCollection(skew) ==
    /\ Collecting
    /\ DOMAIN reading.results = reading.target.scopes
    /\ DOMAIN reading.roles = DOMAIN reading.target.pinned
    /\ saved' = [tenantId |-> Home, collectedAt |-> now + skew,
                 results |-> reading.results, roles |-> reading.roles,
                 ended |-> now, past |-> past, pastRoles |-> pastRoles]
    /\ reading' = Nothing
    /\ past' = [i \in Ids |-> {}] /\ pastRoles' = [x \in Roles |-> {}]
    /\ answer' = Nothing
    /\ UNCHANGED <<azure, now>>

\* `check` on the target files of this time, or their upload to the drift page
\* with the observation.  The report is written as RbacScan's is.
Compare(docs) ==
    /\ answer = Nothing
    /\ answer' = [documents |-> docs, report |-> Judge(docs, saved)]
    /\ UNCHANGED <<azure, now, reading, history, saved>>

Administrators ==
    \/ \E i \in Ids, r \in Record \cup {Nothing} : Administer(i, r)
    \/ \E x \in Roles, p \in Permissions : Redefine(x, p)

Next ==
    \/ Administrators
    \/ Tick
    \/ \E docs \in Libraries : BeginCollection(docs) \/ Compare(docs)
    \/ \E d \in Declaration : ReadScope(d)
    \/ \E x \in Roles : ReadRole(x)
    \/ \E skew \in Skews : EndCollection(skew)

Spec == Init /\ [][Next]_vars

----------------------------------------------------------------------------
(* Properties. *)

\* The shape of the state.
TypeOK ==
    /\ live \in [Ids -> Record \cup {Nothing}]
    /\ allowed \in [Roles -> Permissions]
    /\ changes \in 0..MaxChanges /\ now \in 0..MaxTime
    /\ past \in [Ids -> SUBSET (Record \cup {Nothing})]
    /\ pastRoles \in [Roles -> SUBSET Permissions]
    /\ Collecting => DOMAIN reading.results \subseteq reading.target.scopes
    /\ saved # Nothing => saved.ended \in 0..now
    /\ answer # Nothing => answer.documents \in Libraries

Answered == answer # Nothing

Approved == UNION {doc.approved : doc \in Range(answer.documents)}

\* The declared scopes, and those they inherit from, whatever file declares them.
InCoverage(i) ==
    \E doc \in Range(answer.documents) : \E d \in doc.scopes :
        Origin[i] \in AtOrAbove[d.id] \/ (d.includeDescendants /\ IsPrefix(d.id, Origin[i]))

\* An offline green speaks of the past, but of a recent and real one, and for
\* every file alike: each approval of each file was in force at some time of
\* a collection that ended no longer ago than the age that is allowed for and
\* the clocks may differ by; and of the assignments in the scopes any of the
\* files declares, none was there throughout without being approved, nor was
\* one grant there twice.
GreenWasTrue ==
    Answered /\ answer.report.status = "in-sync" =>
        /\ now - saved.ended <= MaxAge + Ahead
        /\ \A r \in Approved : \E i \in Ids : r \in saved.past[i]
        /\ \A i \in Ids : InCoverage(i) /\ Nothing \notin saved.past[i] =>
                saved.past[i] \cap Approved # {}
        /\ \A i, j \in Ids : i # j /\ InCoverage(i) /\ InCoverage(j)
                /\ Nothing \notin saved.past[i] \cup saved.past[j] =>
                    KeysOf(saved.past[i]) # KeysOf(saved.past[j])
        /\ \A doc \in Range(answer.documents) : \A x \in DOMAIN doc.pinned :
                doc.pinned[x] \in saved.pastRoles[x]

\* Which file a team keeps its approvals in, and what the files are called,
\* makes no difference to what is answered.
AnswerIgnoresFileNames ==
    Answered =>
        \A p \in Bijection(1..Len(answer.documents), 1..Len(answer.documents)) :
            Judge([i \in 1..Len(answer.documents) |-> answer.documents[p[i]]], saved) = answer.report

\* An observation of a tenant that was left alone meanwhile, collected for the
\* scopes and roles the files declare and young by both clocks, is judged, not
\* refused, and what is said of it is what the tenant was like: overlapping
\* scopes, which return an assignment twice, change nothing.
QuietTenantJudged ==
    LET docs == answer.documents
        quiet(f) == \A x \in DOMAIN f : Cardinality(f[x]) = 1
        there == {i \in Ids : InCoverage(i) /\ saved.past[i] # {Nothing}}
        was(i) == CHOOSE r \in saved.past[i] : TRUE
    IN  /\ Answered /\ saved # Nothing
        /\ \A doc \in Range(docs) : Valid(doc) /\ doc.tenantId = saved.tenantId
        /\ \A i, j \in 1..Len(docs) : i # j =>
                /\ KeysOf(docs[i].approved) \cap KeysOf(docs[j].approved) = {}
                /\ DOMAIN docs[i].pinned \cap DOMAIN docs[j].pinned = {}
        /\ UNION {doc.scopes : doc \in Range(docs)} = DOMAIN saved.results
        /\ UNION {DOMAIN doc.pinned : doc \in Range(docs)} = DOMAIN saved.roles
        /\ saved.collectedAt - Ahead <= now /\ now - saved.collectedAt <= MaxAge
        /\ quiet(saved.past) /\ quiet(saved.pastRoles)
        => answer.report.status =
            IF /\ {was(i) : i \in there} = Approved
               /\ \A i, j \in there : was(i).key = was(j).key => i = j
               /\ \A doc \in Range(docs) : \A x \in DOMAIN doc.pinned : saved.pastRoles[x] = {doc.pinned[x]}
            THEN "in-sync" ELSE "drift"
=============================================================================
