---------------------------- MODULE TenantExport ----------------------------
(***************************************************************************)
(* The offline collector (scripts/collect/Export-RoleGraphDataset.ps1):    *)
(* one process that reads the directory, the hierarchy, the role           *)
(* definitions and the assignments of a tenant, one answer after the       *)
(* other, and writes them to one file when it has them all.                *)
(*                                                                         *)
(* Administrators change the tenant between any two answers.  The tenant   *)
(* is the set of the records it would answer with; `ever` and `throughout` *)
(* are what was true at some time, and at any time, of the export.  The    *)
(* pages of one Graph collection are one answer, and the sections of       *)
(* service principals and managed identities are one, as are those of      *)
(* resource groups and resources, listed one after the other.              *)
(***************************************************************************)
EXTENDS Integers, SequencesExt

CONSTANTS
    Users, Groups, Applications,        \* directory objects
    ManagementGroups, Subscriptions, ResourceGroups,
    Roles, Contents,                    \* role definitions, and what may be in one
    Assignments, Conditions,            \* assignment ids, and what may be edited in one
    Grant,          \* holder, role and scope of each assignment id
    Listed,         \* the scopes whose assignments are listed at a management group or subscription
    Assignable,     \* those at which a role definition is listed
    Root,           \* "/", the parent of the root management group
    Tenants,        \* the tenants an export may start with
    MaxChanges      \* bound on the administrators' changes

Objects == Users \cup Groups \cup Applications
Listing == ManagementGroups \cup Subscriptions

ASSUME ExportAssumption ==
    /\ LET kinds == <<Users, Groups, Applications, ManagementGroups, Subscriptions>> IN
        \A i, j \in 1..5 : IsFiniteSet(kinds[i]) /\ (i # j => kinds[i] \cap kinds[j] = {})
    /\ \A a \in Assignments : Grant[a].role \in Roles
    /\ \A x \in Listing : Listed[x] # {}
    /\ Root \notin ManagementGroups
    /\ MaxChanges \in Nat

\* A record of a section, as Add-Record files it.
Entry(section, key, is) == [section |-> section, key |-> key, is |-> is]

Person(o) ==
    Entry(IF o \in Users THEN "users" ELSE IF o \in Groups THEN "groups" ELSE "servicePrincipals", o, o)

Records ==
    {Person(o) : o \in Objects}
    \cup {Entry("groupMemberships", <<g, o>>, o) : g \in Groups, o \in Objects}
    \cup {Entry("managementGroups", m, n) : m \in ManagementGroups, n \in ManagementGroups \cup {Root}}
    \cup {Entry("subscriptions", s, m) : s \in Subscriptions, m \in ManagementGroups}
    \cup {Entry("resourceGroups", r, s) : r \in ResourceGroups, s \in Subscriptions}
    \cup {Entry("roleDefinitions", r, c) : r \in Roles, c \in Contents}
    \cup {Entry("roleAssignments", a, c) : a \in Assignments, c \in Conditions}

InSection(records, section) == {e \in records : e.section = section}

KeysIn(records, section) == {e.key : e \in InSection(records, section)}

\* No record is there in two forms.
Consistent(records) == \A e, f \in records : e.section = f.section /\ e.key = f.key => e = f

\* What Azure and Graph hold to: both ends of a membership and the parent of a
\* scope exist, and a role definition that is assigned is not deleted.  The
\* holder of an assignment may be.
Lawful(t) ==
    /\ Consistent(t)
    /\ \A e \in InSection(t, "groupMemberships") : Person(e.key[1]) \in t /\ Person(e.key[2]) \in t
    /\ \A e \in t : e.section \in {"managementGroups", "subscriptions"} =>
            e.is \in KeysIn(t, "managementGroups") \cup {Root}
    /\ \A e \in InSection(t, "resourceGroups") : e.is \in KeysIn(t, "subscriptions")
    /\ \A e \in InSection(t, "roleAssignments") : Grant[e.key].role \in KeysIn(t, "roleDefinitions")

ASSUME TenantsAssumption == \A t \in Tenants : t \subseteq Records /\ Lawful(t)

VARIABLES
    tenant,     \* the records of the tenant, as they are now
    changes,    \* how often administrators have changed them
    accounts,   \* the enabled subscriptions of the tenant in the cache of the Azure CLI
    stage,      \* where the script is
    todo,       \* the reads of this stage, in order
    records,    \* $records
    parents,    \* $parents: the subscriptions of the hierarchy
    overwrite,  \* -Overwrite
    file,       \* the file at OutputPath
    exit,       \* how the script has ended
    ever,       \* history: the records that were true at some time of the export
    throughout  \* history: those that were true all the time

azure == <<tenant, changes, accounts>>
history == <<ever, throughout>>
vars == <<azure, stage, todo, records, parents, overwrite, file, exit, history>>

----------------------------------------------------------------------------
(* The tenant. *)

\* The memberships of an object go with it.
Deleted(t, e) ==
    {f \in t : f # e /\ (f.section = "groupMemberships" /\ e.section \in {"users", "groups", "servicePrincipals"}
                            => e.key \notin {f.key[1], f.key[2]})}

Edited(t, e) == {f \in t : f.section # e.section \/ f.key # e.key} \cup {e}

Reading == stage \in {"directory", "memberships", "hierarchy", "access", "definitions"}

\* An administrator creates, edits or deletes something.  Before the first read
\* and after the last it is nothing to the script.
Administer ==
    /\ changes < MaxChanges
    /\ Reading
    /\ tenant' \in {Deleted(tenant, e) : e \in tenant} \cup {Edited(tenant, e) : e \in Records \ tenant}
    /\ Lawful(tenant')
    /\ changes' = changes + 1
    /\ ever' = ever \cup tenant'
    /\ throughout' = throughout \cap tenant'
    /\ UNCHANGED <<accounts, stage, todo, records, parents, overwrite, file, exit>>

\* Somebody else writes to the path: another export of the same name.  While the
\* script reads it makes no difference when.
SomebodyWrites ==
    /\ file = "none"
    /\ stage \in {"definitions", "opening"}
    /\ file' = "another"
    /\ UNCHANGED <<azure, stage, todo, records, parents, overwrite, exit, history>>

----------------------------------------------------------------------------
(* The script. *)

Init ==
    /\ tenant \in Tenants
    /\ changes = 0
    /\ accounts \in SUBSET Subscriptions
    /\ stage = "start" /\ todo = <<>>
    /\ records = {} /\ parents = {}
    /\ overwrite \in BOOLEAN /\ file \in {"none", "another"}
    /\ exit = "running"
    /\ ever = {} /\ throughout = {}

End(how) == stage' = "ended" /\ exit' = how

\* Get-OutputFile: a file that is there is refused unless it may be overwritten.
OutputRefused == file # "none" /\ ~ overwrite

\* The first lines of the script: the destination, -DryRun and the sessions.
\* That the sessions agree about the tenant is left to Fail.
Start(dry) ==
    /\ stage = "start"
    /\ IF OutputRefused THEN End("failed") /\ UNCHANGED <<todo, history>>
       ELSE IF dry THEN End("dry") /\ UNCHANGED <<todo, history>>
       ELSE /\ stage' = "directory" /\ todo' = <<"users", "groups", "servicePrincipals">>
            /\ ever' = tenant /\ throughout' = tenant
            /\ UNCHANGED exit
    /\ UNCHANGED <<azure, records, parents, overwrite, file>>

\* Add-Record, of all records of an answer: what is there already must be the same.
Add(answer) ==
    /\ Consistent(records \cup answer)
    /\ records' = records \cup answer

\* The users, groups or service principals.
ReadDirectory ==
    /\ stage = "directory" /\ todo # <<>>
    /\ Add(InSection(tenant, Head(todo)))
    /\ todo' = Tail(todo)
    /\ UNCHANGED <<azure, stage, parents, overwrite, file, exit, history>>

\* Mutant: service principals are left to the lists of the groups.
PlanMembers(groups, applications) == [k \in 1..Len(groups) |-> <<"members", groups[k]>>]

\* Each group is asked for its members, and each service principal for its groups.
PlanMemberships(groups, applications) ==
    [k \in 1..Len(groups) |-> <<"members", groups[k]>>]
    \o [k \in 1..Len(applications) |-> <<"memberOf", applications[k]>>]

EndDirectory ==
    /\ stage = "directory" /\ todo = <<>>
    /\ stage' = "memberships"
    /\ \E groups \in SetToSeqs(KeysIn(records, "groups")),
          applications \in SetToSeqs(KeysIn(records, "servicePrincipals")) :
            todo' = PlanMemberships(groups, applications)
    /\ UNCHANGED <<azure, records, parents, overwrite, file, exit, history>>

\* An object that has been deleted meanwhile cannot be asked, which is left to
\* Fail.  Graph may omit the service principals from the members of a group.
ReadMemberships ==
    /\ stage = "memberships" /\ todo # <<>>
    /\ LET end == IF Head(todo)[1] = "members" THEN 1 ELSE 2
           answer == {e \in InSection(tenant, "groupMemberships") : e.key[end] = Head(todo)[2]}
           omitted == {e \in answer : end = 1 /\ e.key[2] \in Applications}
       IN  /\ Person(Head(todo)[2]) \in tenant
           /\ \E hidden \in SUBSET omitted : Add(answer \ hidden)
    /\ todo' = Tail(todo)
    /\ UNCHANGED <<azure, stage, parents, overwrite, file, exit, history>>

EndMemberships ==
    /\ stage = "memberships" /\ todo = <<>>
    /\ stage' = "hierarchy" /\ todo' = <<"entities", "accounts">>
    /\ UNCHANGED <<azure, records, parents, overwrite, file, exit, history>>

\* account management-group entities list
ReadEntities ==
    /\ stage = "hierarchy" /\ todo # <<>> /\ Head(todo) = "entities"
    /\ Add(InSection(tenant, "managementGroups"))
    /\ parents' = InSection(tenant, "subscriptions")
    /\ todo' = Tail(todo)
    /\ UNCHANGED <<azure, stage, overwrite, file, exit, history>>

\* account list --all: a subscription without a place in the hierarchy stops
\* the export, as does a hierarchy without a management group.
ReadAccounts ==
    /\ stage = "hierarchy" /\ todo # <<>> /\ Head(todo) = "accounts"
    /\ accounts \subseteq {e.key : e \in parents}
    /\ KeysIn(records, "managementGroups") # {}
    /\ Add({e \in parents : e.key \in accounts})
    /\ todo' = Tail(todo)
    /\ UNCHANGED <<azure, stage, parents, overwrite, file, exit, history>>

\* The warnings that name what was not collected.
NotCollected == {e.key : e \in parents} \ KeysIn(records, "subscriptions")

\* All the reads of each scope, one scope after the other.
Each(reads, scopes) ==
    [k \in 1..(Len(reads) * Len(scopes)) |->
        <<reads[((k - 1) % Len(reads)) + 1], scopes[((k - 1) \div Len(reads)) + 1]>>]

PlanAccess(groups, subscriptions) ==
    Each(<<"definitions", "assignments">>, groups)
    \o Each(<<"contents", "definitions", "assignments">>, subscriptions)

\* Each management group, then each subscription, whose resource groups come
\* first: its role definitions, then the assignments listed there.
EndHierarchy ==
    /\ stage = "hierarchy" /\ todo = <<>>
    /\ stage' = "access"
    /\ \E groups \in SetToSeqs(KeysIn(records, "managementGroups")),
          subscriptions \in SetToSeqs(KeysIn(records, "subscriptions")) :
            todo' = PlanAccess(groups, subscriptions)
    /\ UNCHANGED <<azure, records, parents, overwrite, file, exit, history>>

\* group list, role definition list and role assignment list, at a scope that
\* still exists.
ReadAccess ==
    /\ stage = "access" /\ todo # <<>>
    /\ LET x == Head(todo)[2] IN
        /\ x \in KeysIn(tenant, "managementGroups") \cup KeysIn(tenant, "subscriptions")
        /\ Add(CASE Head(todo)[1] = "contents" -> {e \in InSection(tenant, "resourceGroups") : e.is = x}
                 [] Head(todo)[1] = "definitions" ->
                        {e \in InSection(tenant, "roleDefinitions") : x \in Assignable[e.key]}
                 [] Head(todo)[1] = "assignments" ->
                        {e \in InSection(tenant, "roleAssignments") : Grant[e.key].scope \in Listed[x]})
    /\ todo' = Tail(todo)
    /\ UNCHANGED <<azure, stage, parents, overwrite, file, exit, history>>

EndAccess ==
    /\ stage = "access" /\ todo = <<>>
    /\ stage' = "definitions"
    /\ UNCHANGED <<azure, todo, records, parents, overwrite, file, exit, history>>

\* Mutant: what was listed is taken for all there is.
NoneUndefined == {}

\* The assigned roles whose definition was listed nowhere.
Undefined ==
    {Grant[a].role : a \in KeysIn(records, "roleAssignments")} \ KeysIn(records, "roleDefinitions")

\* A definition is asked for by name, at the scope of its assignment.
ReadDefinition ==
    /\ stage = "definitions"
    /\ \E r \in Undefined :
        /\ r \in KeysIn(tenant, "roleDefinitions")
        /\ Add({e \in InSection(tenant, "roleDefinitions") : e.key = r})
    /\ UNCHANGED <<azure, stage, todo, parents, overwrite, file, exit, history>>

\* The second Get-OutputFile.
EndReading ==
    /\ stage = "definitions" /\ Undefined = {}
    /\ IF OutputRefused THEN End("failed")
       ELSE stage' = "opening" /\ UNCHANGED exit
    /\ UNCHANGED <<azure, todo, records, parents, overwrite, file, history>>

\* Mutant: a file that has appeared since is opened all the same.
AnyFileOpens == file' = IF file = "none" THEN "partial" ELSE file

\* FileMode.Open of a file that may be overwritten, or FileMode.CreateNew.
FileOpens ==
    \/ file = "none" /\ file' = "partial"
    \/ file # "none" /\ overwrite /\ file' = file

OpenOutput ==
    /\ stage = "opening"
    /\ FileOpens
    /\ stage' = "writing"
    /\ UNCHANGED <<azure, todo, records, parents, overwrite, exit, history>>

\* Bytes are written in place.
WriteBytes ==
    /\ stage = "writing"
    /\ file' = "partial"
    /\ UNCHANGED <<azure, stage, todo, records, parents, overwrite, exit, history>>

\* The last bytes, the new length and the flush.
FinishWriting ==
    /\ stage = "writing"
    /\ file' = "export"
    /\ End("done")
    /\ UNCHANGED <<azure, todo, records, parents, overwrite, history>>

\* catch: a session, a read, an answer, a conflict or the file is at fault.  A
\* process that is interrupted leaves no more behind.
Fail ==
    /\ stage # "ended"
    /\ End("failed")
    /\ UNCHANGED <<azure, todo, records, parents, overwrite, file, history>>

Script ==
    \/ Start(TRUE) \/ Start(FALSE)
    \/ ReadDirectory \/ EndDirectory
    \/ ReadMemberships \/ EndMemberships
    \/ ReadEntities \/ ReadAccounts \/ EndHierarchy
    \/ ReadAccess \/ EndAccess
    \/ ReadDefinition \/ EndReading
    \/ OpenOutput \/ WriteBytes \/ FinishWriting
    \/ Fail

Next == Administer \/ SomebodyWrites \/ Script

Spec == Init /\ [][Next]_vars

----------------------------------------------------------------------------
(* Properties. *)

\* The shape of the state.
TypeOK ==
    /\ tenant \subseteq Records /\ Lawful(tenant)
    /\ changes \in 0..MaxChanges
    /\ accounts \subseteq Subscriptions
    /\ records \subseteq Records /\ parents \subseteq InSection(Records, "subscriptions")
    /\ overwrite \in BOOLEAN
    /\ file \in {"none", "another", "partial", "export"}
    /\ exit \in {"running", "dry", "done", "failed"}
    /\ exit = "running" <=> stage # "ended"
    /\ ever \subseteq Records /\ throughout \subseteq ever

Exported == exit = "done"

\* Although its records are of different times, a finished export can be read by
\* itself: each assigned role is defined in it and each scope has its parent in
\* it, and none of its records is there in two forms.
ExportIsClosed ==
    Exported =>
        /\ \A e \in InSection(records, "roleAssignments") :
                Grant[e.key].role \in KeysIn(records, "roleDefinitions")
        /\ \A e \in InSection(records, "subscriptions") \cup InSection(records, "managementGroups") :
                e.is \in KeysIn(records, "managementGroups") \cup {Root}
        /\ \A e \in InSection(records, "resourceGroups") : e.is \in KeysIn(records, "subscriptions")
        /\ Consistent(records)

\* The scopes an export covers: management groups and known subscriptions that
\* were there all the time.
CoveredThroughout ==
    KeysIn(throughout, "managementGroups") \cup (KeysIn(throughout, "subscriptions") \cap accounts)

\* A finished export has nothing that was not so at some time while it ran, and
\* it misses nothing that was so all the time where it looks: people, groups,
\* memberships, whether or not Graph lists service principals among the members
\* of a group, scopes, and the assignments at the covered scopes.  A
\* subscription it does not cover is named in its warnings.
ExportWasTrue ==
    Exported =>
        /\ records \subseteq ever
        /\ \A e \in throughout :
            CASE e.section = "roleAssignments" ->
                    (\E x \in CoveredThroughout : Grant[e.key].scope \in Listed[x]) => e \in records
              [] e.section = "roleDefinitions" ->
                    Assignable[e.key] \cap CoveredThroughout # {} => e \in records
              [] e.section = "resourceGroups" -> e.is \in CoveredThroughout => e \in records
              [] e.section = "subscriptions" ->
                    IF e.key \in accounts THEN e \in records ELSE e.key \in NotCollected
              [] OTHER -> e \in records

\* Nothing is written before all that an export needs was read, an export that
\* says it is done is in the file, and what somebody else put there stays unless
\* -Overwrite was given, also if it was put there while the export ran.
OutputOnlyWhenComplete ==
    /\ [](file \in {"partial", "export"} =>
            /\ stage \in {"writing", "ended"} /\ exit # "dry"
            /\ todo = <<>> /\ Undefined = {} /\ KeysIn(records, "managementGroups") # {})
    /\ [](Exported => file = "export")
    /\ [][file = "another" /\ ~ overwrite => file' = "another"]_vars
=============================================================================
