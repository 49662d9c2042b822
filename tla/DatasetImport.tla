--------------------------- MODULE DatasetImport ---------------------------
(***************************************************************************)
(* The importer (importer/importer.py): an uploaded document is read       *)
(* section by section and record by record into an access graph, with a    *)
(* warning for whatever could not be taken as it is.                       *)
(*                                                                         *)
(* The document is not fixed beforehand: each step reads a record that the *)
(* section may hold, and `doc` keeps what has been read.  Text is reduced  *)
(* to what the importer tells apart: normalized ids, what parses and what  *)
(* is missing.  A blank id counts as present where required fields are     *)
(* looked for, and is None where it is used.                               *)
(***************************************************************************)
EXTENDS Integers, SequencesExt, Relation

CONSTANTS
    Scopes,         \* normalized scopes other than the tenant root
    Root,           \* "/"
    Roles,          \* role definition ids
    Principals,     \* object ids
    AssignmentIds,  \* role assignment ids; the number n stands for "ra-n"
    Records,        \* section -> what a record of it may be, if not Malformed
    MaxRecords      \* bound on the records of a document
CONSTANTS Malformed, Blank, Unparseable, Absent

\* Mutant: the assignments are loaded before the identities.
AssignmentsFirst ==
    <<"tenants", "managementGroups", "subscriptions", "resourceGroups", "resources",
      "roleDefinitions", "roleAssignments", "users", "groups", "servicePrincipals",
      "managedIdentities", "groupMemberships">>

\* The order in which run calls the loaders.
Sections ==
    <<"tenants", "managementGroups", "subscriptions", "resourceGroups", "resources",
      "roleDefinitions", "users", "groups", "servicePrincipals", "managedIdentities",
      "groupMemberships", "roleAssignments">>

SectionNames == {Sections[k] : k \in 1..Len(Sections)}

ScopeSections == {"managementGroups", "subscriptions", "resourceGroups", "resources"}

PrincipalSections == {"users", "groups", "servicePrincipals", "managedIdentities"}

Membership == [group : Principals, member : Principals]

AllScopes == Scopes \cup {Root}

ScopeRecord == [scope : Scopes \cup {Blank, Unparseable}, parent : AllScopes \cup {Absent}]

RoleRecord == [id : Roles, faulty : BOOLEAN, grants : BOOLEAN]

AssignmentRecord ==
    [id : AssignmentIds \cup {Absent}, principal : Principals, role : Roles,
     scope : AllScopes \cup {Unparseable}, type : PrincipalSections \cup {Absent}]

\* `record` is a place in the document, 0 for none.  What is said of the
\* "record" is why it was not taken; the rest is said of a record that was.
ImportWarning ==
    [category : {"missingSection", "malformedRecord", "duplicate", "missingParent",
                 "danglingReference", "typeMismatch", "emptyPermissions"},
     record : Nat,
     about : {"record", "permissions", "principal", "role", "scope", "parent", "group", "member"}]

\* Of the scopes only a subscription id can be blank, only a resource can fail
\* to parse, and only there the parent is not always known.
ASSUME ImportAssumption ==
    /\ Root \notin Scopes /\ {Blank, Unparseable, Absent} \cap AllScopes = {}
    /\ Absent \notin AssignmentIds /\ Absent \notin PrincipalSections
    /\ MaxRecords \in Nat /\ 0..MaxRecords \subseteq AssignmentIds
    /\ DOMAIN Records = SectionNames
    /\ \A s \in SectionNames : Malformed \notin Records[s]
    /\ \A s \in ScopeSections : \A r \in Records[s] :
        /\ r \in ScopeRecord
        /\ r.scope = Blank => s = "subscriptions"
        /\ r.scope = Unparseable => s = "resources"
        /\ r.parent = Absent => s = "subscriptions"
    /\ Records["roleDefinitions"] \subseteq RoleRecord
    /\ \A s \in PrincipalSections : Records[s] \subseteq Principals
    /\ Records["groupMemberships"] \subseteq Membership
    /\ Records["roleAssignments"] \subseteq AssignmentRecord

VARIABLES
    doc,          \* the records read so far, with their sections
    at,           \* the section being loaded
    phase,        \* "loading", "imported", "refused" or "crashed"
    scopes,       \* graph.scopes: each with its parent
    roles,        \* graph.role_definitions
    principals,   \* graph.principals: each with the section it is from, its type
    memberships,  \* graph.memberships
    assignments,  \* graph.role_assignments
    counts,       \* records taken, by section
    skipped,      \* records not taken, by section
    warnings,     \* the warnings of the loaders
    integrity     \* the warnings of check_integrity

\* Every entity of the graph keeps, as `from`, the place in the document of the
\* record it was made of: the names and descriptions it was given.
graph == <<scopes, roles, principals, memberships, assignments>>
ledger == <<counts, skipped, warnings>>
vars == <<doc, at, phase, graph, ledger, integrity>>

NotChecked == [orphans |-> {}, circles |-> {}, repeated |-> {}]

----------------------------------------------------------------------------

Section == Sections[at]

\* graph.<entities>[id] = entry
Put(f, id, entry) == [x \in DOMAIN f \cup {id} |-> IF x = id THEN entry ELSE f[x]]

Init ==
    /\ doc = <<>> /\ at = 1 /\ phase = "loading"
    /\ scopes = <<>> /\ roles = <<>> /\ principals = <<>>
    /\ memberships = <<>> /\ assignments = <<>>
    /\ counts = [s \in SectionNames |-> 0] /\ skipped = [s \in SectionNames |-> 0]
    /\ warnings = {} /\ integrity = NotChecked

\* import_json_bytes and validate_document: too large, not JSON, a section that
\* is not an array, or nothing in any section.
Refuse ==
    /\ phase = "loading" /\ at = 1 /\ doc = <<>>
    /\ phase' = "refused"
    /\ UNCHANGED <<doc, at, graph, ledger, integrity>>

\* The place the record at hand gets in the document.
Here == Len(doc) + 1

\* A record of section s is read.
Reading(s, r) ==
    /\ phase = "loading" /\ Section = s
    /\ Len(doc) < MaxRecords
    /\ doc' = Append(doc, [section |-> s, record |-> r])
    /\ UNCHANGED <<at, integrity>>

\* warn, of the record at hand, where the condition is met.
WarnedIf(condition, category, about) ==
    IF condition THEN {[category |-> category, record |-> Here, about |-> about]} ELSE {}

\* The record at hand becomes an entity, with these warnings.
Take(ws) ==
    /\ counts' = [counts EXCEPT ![Section] = @ + 1]
    /\ warnings' = warnings \cup ws
    /\ UNCHANGED <<phase, skipped>>

\* Mutant: a record is dropped with a warning and not counted as skipped.
LeaveUncounted(category, ws) ==
    /\ warnings' = warnings \cup ws \cup WarnedIf(TRUE, category, "record")
    /\ UNCHANGED <<phase, graph, counts, skipped>>

\* skip, and what each loader does with a duplicate.
Leave(category, ws) ==
    /\ skipped' = [skipped EXCEPT ![Section] = @ + 1]
    /\ warnings' = warnings \cup ws \cup WarnedIf(TRUE, category, "record")
    /\ UNCHANGED <<phase, graph, counts>>

\* records: not an object, or a required field is missing.
SkipMalformed(s) ==
    /\ Reading(s, Malformed)
    /\ Leave("malformedRecord", {})

\* load_tenant: the first usable record is the tenant.  The one warning that
\* says how many others there are stands here for one warning of each.
LoadTenant(r) ==
    /\ Reading("tenants", r)
    /\ IF Root \in DOMAIN scopes
       THEN Leave("duplicate", {})
       ELSE /\ scopes' = Put(scopes, Root, [parent |-> Absent, from |-> Here])
            /\ Take({})
            /\ UNCHANGED <<roles, principals, memberships, assignments>>

\* Mutant: a repeated scope overwrites the first one.
OverwriteScope(s, r) ==
    /\ scopes' = Put(scopes, r.scope,
                     [parent |-> IF r.parent = Absent THEN Root ELSE r.parent, from |-> Here])
    /\ Take(WarnedIf(r.parent = Absent, "missingParent", "parent"))
    /\ UNCHANGED <<roles, principals, memberships, assignments>>

\* add_scope, and the parent the loaders give to it.
AddScope(s, r) ==
    LET orphaned == WarnedIf(r.parent = Absent, "missingParent", "parent")
    IN  IF r.scope \in DOMAIN scopes
        THEN Leave("duplicate", orphaned)
        ELSE /\ scopes' = Put(scopes, r.scope,
                     [parent |-> IF r.parent = Absent THEN Root ELSE r.parent, from |-> Here])
             /\ Take(orphaned)
             /\ UNCHANGED <<roles, principals, memberships, assignments>>

\* load_management_groups, load_subscriptions, load_resource_groups and
\* load_resources.
LoadScope(s, r) ==
    /\ s \in ScopeSections
    /\ r.scope \in Scopes
    /\ Reading(s, r)
    /\ AddScope(s, r)

\* load_resources: not the id of a resource.
SkipResource(r) ==
    /\ r.scope = Unparseable
    /\ Reading("resources", r)
    /\ Leave("malformedRecord", {})

\* load_subscriptions: the id is None, and the import ends with an error.
CrashOnBlank(r) ==
    /\ r.scope = Blank
    /\ Reading("subscriptions", r)
    /\ phase' = "crashed"
    /\ UNCHANGED <<graph, ledger>>

\* load_role_definitions: blocks that are not objects are left out.
LoadRole(r) ==
    /\ Reading("roleDefinitions", r)
    /\ IF r.id \in DOMAIN roles
       THEN Leave("duplicate", {})
       ELSE /\ roles' = Put(roles, r.id, [from |-> Here])
            /\ Take(WarnedIf(r.faulty, "malformedRecord", "permissions")
                    \cup WarnedIf(~r.grants, "emptyPermissions", "permissions"))
            /\ UNCHANGED <<scopes, principals, memberships, assignments>>

\* _load_principals: an id is one identity, whatever section names it first.
LoadPrincipal(s, id) ==
    /\ s \in PrincipalSections
    /\ Reading(s, id)
    /\ IF id \in DOMAIN principals
       THEN Leave("duplicate", {})
       ELSE /\ principals' = Put(principals, id, [type |-> s, from |-> Here])
            /\ Take({})
            /\ UNCHANGED <<scopes, roles, memberships, assignments>>

\* The pairs in load_memberships' seen.
Pairs == {[group |-> m.group, member |-> m.member] : m \in ToSet(memberships)}

\* load_memberships.
LoadMembership(r) ==
    /\ Reading("groupMemberships", r)
    /\ IF r.group = r.member THEN Leave("malformedRecord", {})
       ELSE IF r \in Pairs THEN Leave("duplicate", {})
       ELSE /\ memberships' = Append(memberships,
                    [group |-> r.group, member |-> r.member, from |-> Here])
            /\ Take(WarnedIf(r.group \notin DOMAIN principals, "danglingReference", "group")
                    \cup WarnedIf(/\ r.group \in DOMAIN principals
                                  /\ principals[r.group].type # "groups", "typeMismatch", "group")
                    \cup WarnedIf(r.member \notin DOMAIN principals, "danglingReference", "member"))
            /\ UNCHANGED <<scopes, roles, principals, assignments>>

\* The id of an assignment: its own, or made of its place among the section's
\* usable records.
IdOf(r) ==
    IF r.id # Absent THEN r.id
    ELSE Len(SelectSeq(doc, LAMBDA d : d.section = "roleAssignments" /\ d.record # Malformed))

\* Mutant: only the ids of the file are compared.
RepeatedInFile(r) == r.id # Absent /\ \E a \in ToSet(assignments) : a.id = r.id

\* load_role_assignments: the id is in seen_ids.
Repeated(r) == \E a \in ToSet(assignments) : a.id = IdOf(r)

\* Mutant: the scope is taken as it is.
AcceptsAny(r) == TRUE

\* load_role_assignments: the scope is that of something in Azure.
Parses(r) == r.scope # Unparseable

\* load_role_assignments.
LoadAssignment(r) ==
    /\ Reading("roleAssignments", r)
    /\ IF ~Parses(r) THEN Leave("malformedRecord", {})
       ELSE IF Repeated(r) THEN Leave("duplicate", {})
       ELSE LET known == r.principal \in DOMAIN principals
                type  == IF known THEN principals[r.principal].type ELSE r.type IN
            /\ assignments' = Append(assignments,
                    [id |-> IdOf(r), principal |-> r.principal, role |-> r.role,
                     scope |-> r.scope, type |-> type, from |-> Here])
            /\ Take(WarnedIf(~known, "danglingReference", "principal")
                    \cup WarnedIf(r.role \notin DOMAIN roles, "danglingReference", "role")
                    \cup WarnedIf(r.scope \notin DOMAIN scopes, "danglingReference", "scope")
                    \cup WarnedIf(r.type \notin {Absent, type}, "typeMismatch", "principal"))
            /\ UNCHANGED <<scopes, roles, principals, memberships>>

\* run goes on to the next loader; load_tenant ends with a placeholder where
\* there was no usable record.
NextSection ==
    /\ phase = "loading" /\ at < Len(Sections)
    /\ at' = at + 1
    /\ IF Section = "tenants" /\ Root \notin DOMAIN scopes
       THEN /\ scopes' = Put(scopes, Root, [parent |-> Absent, from |-> 0])
            /\ warnings' = warnings \cup
                    {[category |-> "missingSection", record |-> 0, about |-> "record"]}
       ELSE UNCHANGED <<scopes, warnings>>
    /\ UNCHANGED <<doc, phase, roles, principals, memberships, assignments, counts, skipped,
                   integrity>>

\* orphan_scopes.
Orphans == {s \in DOMAIN scopes : scopes[s].parent \notin DOMAIN scopes \cup {Absent}}

\* Each of c is a member of the next, and the last of the first.
Closed(c) ==
    /\ c # <<>>
    /\ \A k \in 1..Len(c) : [group |-> c[(k % Len(c)) + 1], member |-> c[k]] \in Pairs

\* Mutant: cycles are looked for among the imported groups.
CirclesImported == {S \in SUBSET DOMAIN principals : \E c \in SetToSeqs(S) : Closed(c)}

\* membership_cycles, each reported once whatever group it is entered by.  Its
\* depth cap, twenty groups, is longer than the cycles there can be here.
Circles == {S \in SUBSET Principals : \E c \in SetToSeqs(S) : Closed(c)}

Grant(a) == <<a.principal, a.role, a.scope>>

\* check_integrity, and the result.
CheckIntegrity ==
    /\ phase = "loading" /\ at = Len(Sections) /\ doc # <<>>
    /\ integrity' =
        [orphans |-> Orphans, circles |-> Circles,
         repeated |-> {Grant(assignments[i]) : i \in
             {j \in DOMAIN assignments : \E k \in DOMAIN assignments :
                 j # k /\ Grant(assignments[j]) = Grant(assignments[k])}}]
    /\ phase' = "imported"
    /\ UNCHANGED <<doc, at, graph, ledger>>

Next ==
    \/ Refuse
    \/ \E s \in SectionNames : SkipMalformed(s)
    \/ \E r \in Records["tenants"] : LoadTenant(r)
    \/ \E s \in ScopeSections : \E r \in Records[s] : LoadScope(s, r)
    \/ \E r \in Records["resources"] : SkipResource(r)
    \/ \E r \in Records["subscriptions"] : CrashOnBlank(r)
    \/ \E r \in Records["roleDefinitions"] : LoadRole(r)
    \/ \E s \in PrincipalSections : \E id \in Records[s] : LoadPrincipal(s, id)
    \/ \E r \in Records["groupMemberships"] : LoadMembership(r)
    \/ \E r \in Records["roleAssignments"] : LoadAssignment(r)
    \/ NextSection
    \/ CheckIntegrity

Spec == Init /\ [][Next]_vars

----------------------------------------------------------------------------

\* The places of the records that the graph is made of.
Kept ==
    {k \in 1..Len(doc) :
        \/ \E s \in DOMAIN scopes : scopes[s].from = k
        \/ \E r \in DOMAIN roles : roles[r].from = k
        \/ \E p \in DOMAIN principals : principals[p].from = k
        \/ \E e \in ToSet(memberships) \cup ToSet(assignments) : e.from = k}

\* The places of the records that a warning says were not taken.
Left == {k \in 1..Len(doc) : \E w \in warnings : w.record = k /\ w.about = "record"}

\* Places and counts are in range, an entity of the graph is of the kind its
\* table holds, and what could not be parsed is nowhere in it.
TypeOK ==
    /\ phase \in {"loading", "imported", "refused", "crashed"}
    /\ at \in 1..Len(Sections) /\ Len(doc) \in 0..MaxRecords
    /\ \A k \in 1..Len(doc) :
        /\ doc[k].section \in SectionNames
        /\ doc[k].record \in Records[doc[k].section] \cup {Malformed}
    /\ DOMAIN scopes \subseteq AllScopes
    /\ \A s \in DOMAIN scopes : scopes[s] \in [parent : AllScopes \cup {Absent}, from : 0..Len(doc)]
    /\ DOMAIN roles \subseteq Roles
    /\ \A r \in DOMAIN roles : roles[r] \in [from : 1..Len(doc)]
    /\ DOMAIN principals \subseteq Principals
    /\ \A p \in DOMAIN principals : principals[p] \in [type : PrincipalSections, from : 1..Len(doc)]
    /\ \A m \in ToSet(memberships) :
        m \in [group : Principals, member : Principals, from : 1..Len(doc)]
    /\ \A a \in ToSet(assignments) :
        a \in [id : AssignmentIds, principal : Principals, role : Roles, scope : AllScopes,
               type : PrincipalSections \cup {Absent}, from : 1..Len(doc)]
    /\ counts \in [SectionNames -> 0..MaxRecords] /\ skipped \in [SectionNames -> 0..MaxRecords]
    /\ \A w \in warnings : w \in ImportWarning /\ w.record <= Len(doc)

\* "No record is ever silently discarded" (importer.py:5): at any moment each
\* record read is either what some entity of the graph was made of, or named in
\* a warning as not taken, and never both: nothing that was kept is later
\* overwritten by a record with the same id.
NothingLostSilently ==
    phase # "crashed" => Kept \cap Left = {} /\ Kept \cup Left = 1..Len(doc)

\* The numbers on the import page: by section, the records counted are those
\* the graph was made of, and with the skipped ones they are all of them.
CountsMatchGraph ==
    phase # "crashed" => \A s \in SectionNames :
        LET read == {k \in 1..Len(doc) : doc[k].section = s}
        IN  /\ counts[s] = Cardinality(read \cap Kept)
            /\ counts[s] + skipped[s] = Cardinality(read)

\* What the import page says of the file adds up: every record is in the graph
\* and counted there, or named in a warning and counted as skipped.
EveryRecordAccounted == NothingLostSilently /\ CountsMatchGraph

\* The warning of this category is there exactly if the condition holds.
ReportedIff(category, k, about, condition) ==
    [category |-> category, record |-> k, about |-> about] \in warnings <=> condition

\* The reference warnings are given while the sections are loaded, and are
\* right about the whole file: when the import is done, an assignment or a
\* membership is reported as dangling exactly if the graph it ended up in does
\* not have what it refers to.
DanglingReported ==
    phase = "imported" =>
        /\ \A a \in ToSet(assignments) :
            /\ ReportedIff("danglingReference", a.from, "principal", a.principal \notin DOMAIN principals)
            /\ ReportedIff("danglingReference", a.from, "role", a.role \notin DOMAIN roles)
            /\ ReportedIff("danglingReference", a.from, "scope", a.scope \notin DOMAIN scopes)
        /\ \A m \in ToSet(memberships) :
            /\ ReportedIff("danglingReference", m.from, "group", m.group \notin DOMAIN principals)
            /\ ReportedIff("danglingReference", m.from, "member", m.member \notin DOMAIN principals)

\* What the resolver takes for granted: no two assignments with one id, no
\* membership twice (there would be two equal paths through it), and no group
\* that is directly a member of itself.
GraphIsSimple ==
    /\ \A i, j \in DOMAIN assignments : assignments[i].id = assignments[j].id => i = j
    /\ \A i, j \in DOMAIN memberships :
        memberships[i].group = memberships[j].group /\ memberships[i].member = memberships[j].member
            => i = j
    /\ \A m \in ToSet(memberships) : m.group # m.member

\* A group that is, through others, a member of itself is in a reported cycle,
\* whether or not its own record was imported, and no other one is.
CyclesReported ==
    LET direct == [p, q \in Principals |-> [group |-> q, member |-> p] \in Pairs]
        nested == TransitiveClosure(direct, Principals)
    IN  phase = "imported" =>
            UNION integrity.circles = {p \in Principals : nested[p, p]}

\* "Import is total: a document with problems still yields a usable graph"
\* (importer.py:7).
ImportIsTotal == phase # "crashed"

\* An assignment dropped because its "id ... appears more than once"
\* (importer.py:449) has the id of an earlier record of the file.
DuplicatesAreRepeated ==
    \A w \in warnings : w.category = "duplicate" /\ doc[w.record].section = "roleAssignments" =>
        \E k \in 1..(w.record - 1) :
            /\ doc[k].section = "roleAssignments" /\ doc[k].record # Malformed
            /\ doc[k].record.id = doc[w.record].record.id
=============================================================================
