--------------------------- MODULE MCTenantExport ---------------------------
(* A tenant with two management groups, one above the other, a subscription  *)
(* with a resource group, a group with a user and an application, a role     *)
(* assigned at the root and one that can only be assigned below the          *)
(* subscription.                                                             *)
EXTENDS TenantExport

CONSTANTS user, group, app, mgRoot, mgBelow, sub, rg, reader, narrow, a1, a2, v1, v2, free

GrantOf ==
    [a \in Assignments |->
        IF a = a1 THEN [holder |-> group, role |-> reader, scope |-> mgRoot]
        ELSE [holder |-> app, role |-> narrow, scope |-> rg]]

\* az lists at a subscription what it inherits and what is below it.
ListedAt == [x \in Listing |-> IF x = sub THEN {mgRoot, sub, rg} ELSE {x}]

AssignableAt == [r \in Roles |-> IF r = reader THEN Listing ELSE {rg}]

Hierarchy ==
    {Entry("managementGroups", mgRoot, Root), Entry("managementGroups", mgBelow, mgRoot),
     Entry("subscriptions", sub, mgBelow), Entry("resourceGroups", rg, sub)}

People == {Person(user), Person(group), Person(app)}

Definitions == {Entry("roleDefinitions", reader, v1), Entry("roleDefinitions", narrow, v1)}

\* With or without the membership of the application and the assignments.
SomeTenants ==
    {Hierarchy \cup People \cup Definitions \cup {Entry("groupMemberships", <<group, user>>, user)} \cup some :
        some \in SUBSET {Entry("groupMemberships", <<group, app>>, app),
                         Entry("roleAssignments", a1, free), Entry("roleAssignments", a2, free)}}
=============================================================================
