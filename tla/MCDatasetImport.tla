-------------------------- MODULE MCDatasetImport --------------------------
(* Files about one management group, subscription, resource group and        *)
(* resource, one role and two identities.                                    *)
EXTENDS DatasetImport, TLC

CONSTANTS g, s, q, x, elsewhere,  \* scopes; `elsewhere` is never imported
          role, p1, p2

AnyOf(section) ==
    CASE section = "tenants" -> {"tenant"}
      [] section = "managementGroups" ->
            [scope : {g}, parent : {Root, elsewhere}]
      [] section = "subscriptions" ->
            [scope : {s}, parent : {g, Absent}] \cup [scope : {Blank}, parent : {Root}]
      [] section = "resourceGroups" -> [scope : {q}, parent : {s}]
      [] section = "resources" -> [scope : {x, Unparseable}, parent : {q}]
      [] section = "roleDefinitions" ->
            [id : {role}, faulty : BOOLEAN, grants : {TRUE}]
                \cup [id : {role}, faulty : {TRUE}, grants : {FALSE}]
      [] section = "users" -> {p1}
      [] section = "groups" -> {p1, p2}
      [] section = "servicePrincipals" -> {p2}
      [] section = "managedIdentities" -> {p2}
      [] section = "groupMemberships" -> Membership
      [] section = "roleAssignments" ->
            [id : {Absent, 0, 1}, principal : {p1, p2}, role : {role},
             scope : {s, Unparseable}, type : {Absent, "users"}]

Sample == [section \in SectionNames |-> AnyOf(section)]

Ids == 0..MaxRecords
=============================================================================
