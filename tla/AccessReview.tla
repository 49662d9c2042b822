---------------------------- MODULE AccessReview ----------------------------
(***************************************************************************)
(* What RoleGraph says about a snapshot: the access paths of its           *)
(* identities (resolver/access.py) and the findings of the fourteen rules  *)
(* (findings/engine.py, findings/rules.py), evaluated in one go over a     *)
(* graph that does not change.                                             *)
(*                                                                         *)
(* The chains of groups and the ancestors of a scope are the ones that     *)
(* MembershipWalk and ScopeTree compute step by step; they are written     *)
(* here as what those searches find in a graph too small for their caps.   *)
(* A finding is its key: severity, wording, evidence and order are left    *)
(* out.  Of a role the rules look at a few facts about its name and its    *)
(* actions.                                                                *)
(***************************************************************************)
EXTENDS Integers, SequencesExt

CONSTANTS
    Principals,     \* object ids
    Scopes,         \* normalized scopes
    Roles,          \* role definition ids
    Names,          \* display names
    AssignmentIds,
    Nothing,        \* None; "-" in the key of a finding
    Graphs          \* the graphs of the snapshots that may be reviewed

PrincipalTypes == {"user", "group", "servicePrincipal", "managedIdentity"}

ScopeKinds == {"tenant", "managementGroup", "subscription", "resourceGroup", "resource"}

RoleNames == {"owner", "contributor", "user access administrator", "another"}

\* What is asked of a RoleDefinition.
RoleFacts ==
    [name : RoleNames,
     privileged : BOOLEAN,      \* its name is in config/privileged_roles.yaml
     custom : BOOLEAN,          \* is_custom
     wildcard : BOOLEAN,        \* wildcard_actions is not empty
     assigns : BOOLEAN,         \* can_assign_roles
     writes : BOOLEAN]          \* _grants_write

\* AccessGraph: only what was imported has a type, a parent or facts, but
\* memberships and assignments may name anything.
IsGraph(g) ==
    /\ DOMAIN g = {"type", "called", "members", "parent", "kind", "role", "assigned"}
    /\ DOMAIN g.type \subseteq Principals /\ \A p \in DOMAIN g.type : g.type[p] \in PrincipalTypes
    /\ g.called \in [DOMAIN g.type -> Names]
    /\ g.members \subseteq Principals \X Principals
    /\ DOMAIN g.parent \subseteq Scopes /\ g.parent \in [DOMAIN g.parent -> Scopes \cup {Nothing}]
    /\ g.kind \in [DOMAIN g.parent -> ScopeKinds]
    /\ DOMAIN g.role \subseteq Roles /\ \A r \in DOMAIN g.role : g.role[r] \in RoleFacts
    /\ DOMAIN g.assigned \subseteq AssignmentIds /\ IsFiniteSet(DOMAIN g.assigned)
    /\ \A a \in DOMAIN g.assigned :
        g.assigned[a] \in [holder : Principals, role : Roles, scope : Scopes]

ASSUME ReviewAssumption ==
    /\ IsFiniteSet(Principals)
    /\ Nothing \notin Principals \cup Scopes \cup Roles
    /\ \A g \in Graphs : IsGraph(g)

VARIABLES
    graph,      \* the AccessGraph of the snapshot
    phase,      \* "resolved", or "reviewed" once the rules have been run
    found       \* the keys of the findings

vars == <<graph, phase, found>>

----------------------------------------------------------------------------

\* groups_by_member: <<p, g>> is in members where p is a member of g.
MemberOf(g, p, q) == <<p, q>> \in g.members

\* membership_paths: the chains of groups above p, nearest first.
Chains(g, p) ==
    {c \in UNION {SetToSeqs(S) : S \in SUBSET (Principals \ {p})} :
        /\ c # <<>>
        /\ MemberOf(g, p, c[1])
        /\ \A k \in 1..(Len(c) - 1) : MemberOf(g, c[k], c[k + 1])}

\* AccessPath.granted_via_id.
GrantedVia(p, chain) == IF chain = <<>> THEN p ELSE Last(chain)

\* access_paths: every assignment that reaches p, with the chain it comes by.
\* An assignment of a role that was not imported is left out.
AccessPaths(g, p) ==
    {x \in [principal : {p}, chain : {<<>>} \cup Chains(g, p), assignment : DOMAIN g.assigned] :
        /\ p \in DOMAIN g.type
        /\ g.assigned[x.assignment].holder = GrantedVia(p, x.chain)
        /\ g.assigned[x.assignment].role \in DOMAIN g.role}

Closed(S, edges) == \A e \in edges : e[1] \in S => e[2] \in S

\* What the edges lead to from these nodes: the least set that holds the nodes
\* and is left by no edge.
Reached(nodes, edges, all) ==
    LET around == {S \in SUBSET all : nodes \subseteq S /\ Closed(S, edges)}
    IN  {x \in all : \A S \in around : x \in S}

\* children_by_scope: <<s, t>> where s is the parent of t.
Children(g) == {<<g.parent[t], t>> : t \in DOMAIN g.parent}

\* graph.scopes: <<t, s>> where the parent s of t was imported.
Parents(g) ==
    {<<t, g.parent[t]>> : t \in {u \in DOMAIN g.parent : g.parent[u] \in DOMAIN g.parent}}

\* The parents of imported scopes, climbed from s.
Ancestors(g, s) == Reached({s} \cap DOMAIN g.parent, Parents(g), DOMAIN g.parent) \ {s}

Covers(g, s, t) == s = t \/ s \in Ancestors(g, t)

\* descendants, with the scope itself.
Subtree(g, s) == Reached({s}, Children(g), Scopes)

\* RuleContext.build: paths_by_principal.
AllPaths(g) == UNION {AccessPaths(g, p) : p \in DOMAIN g.type}

----------------------------------------------------------------------------
(* The rules. `paths` is what RuleContext resolved once for all of them.   *)

RoleOf(g, x) == g.assigned[x.assignment].role
ScopeOf(g, x) == g.assigned[x.assignment].scope
FactsOf(g, x) == g.role[RoleOf(g, x)]

\* Finding.key, of a path, an assignment and a role.
OfPath(rule, g, x) ==
    [rule |-> rule, principal |-> x.principal, role |-> RoleOf(g, x), scope |-> ScopeOf(g, x)]

Imported(id, table) == IF id \in DOMAIN table THEN id ELSE Nothing

\* Mutant: a holder that was not imported is named all the same.
OfAnyAssignment(rule, g, a) ==
    [rule |-> rule, principal |-> g.assigned[a].holder,
     role |-> g.assigned[a].role, scope |-> g.assigned[a].scope]

OfAssignment(rule, g, a) ==
    [rule |-> rule, principal |-> Imported(g.assigned[a].holder, g.type),
     role |-> Imported(g.assigned[a].role, g.role), scope |-> g.assigned[a].scope]

OfRole(rule, r) == [rule |-> rule, principal |-> Nothing, role |-> r, scope |-> Nothing]

\* direct_owner and direct_contributor.
Direct(rule, name, g, paths) ==
    {OfPath(rule, g, x) : x \in {y \in paths :
        FactsOf(g, y).name = name /\ y.chain = <<>> /\ g.type[y.principal] # "group"}}

UserAccessAdministrator(g, paths) ==
    {OfPath("user-access-administrator", g, x) :
        x \in {y \in paths : FactsOf(g, y).name = "user access administrator"}}

\* The assignments of imported roles at imported scopes of these kinds.
AssignedAt(g, kinds) ==
    {a \in DOMAIN g.assigned :
        /\ g.assigned[a].scope \in DOMAIN g.parent
        /\ g.assigned[a].role \in DOMAIN g.role
        /\ g.kind[g.assigned[a].scope] \in kinds}

\* privileged_at_management_group and privileged_at_subscription.
PrivilegedAt(rule, kind, g) ==
    {OfAssignment(rule, g, a) :
        a \in {b \in AssignedAt(g, {kind}) : g.role[g.assigned[b].role].privileged}}

CustomRoles(g) == {r \in DOMAIN g.role : g.role[r].custom}

CustomRoleWildcard(g) ==
    {OfRole("custom-role-wildcard", r) : r \in {q \in CustomRoles(g) : g.role[q].wildcard}}

CustomRoleCanAssignRoles(g) ==
    {OfRole("custom-role-can-assign-roles", r) : r \in {q \in CustomRoles(g) : g.role[q].assigns}}

UnusedCustomRole(g) ==
    {OfRole("unused-custom-role", r) :
        r \in {q \in CustomRoles(g) : \A a \in DOMAIN g.assigned : g.assigned[a].role # q}}

\* Mutant: one group is taken for direct, only nesting is reported.
NestedOnly(g, paths) ==
    {OfPath("privileged-via-group", g, x) : x \in {y \in paths :
        Len(y.chain) > 1 /\ FactsOf(g, y).privileged /\ g.type[y.principal] # "group"}}

PrivilegedViaGroup(g, paths) ==
    {OfPath("privileged-via-group", g, x) : x \in {y \in paths :
        y.chain # <<>> /\ FactsOf(g, y).privileged /\ g.type[y.principal] # "group"}}

ServicePrincipalPrivileged(g, paths) ==
    {OfPath("service-principal-privileged", g, x) : x \in {y \in paths :
        /\ FactsOf(g, y).privileged
        /\ g.type[y.principal] \in {"servicePrincipal", "managedIdentity"}}}

\* distinct_grants: the paths of one identity to one role at one scope.
SameGrant(g, x, y) ==
    x.principal = y.principal /\ RoleOf(g, x) = RoleOf(g, y) /\ ScopeOf(g, x) = ScopeOf(g, y)

\* describe_chain: a route as it is shown, by the display names of its groups.
Route(g, x) ==
    [k \in 1..Len(x.chain) |-> IF x.chain[k] \in DOMAIN g.type THEN g.called[x.chain[k]] ELSE x.chain[k]]

\* Mutant: two assignments by one route count as two routes.
TwicePerGrant(g, paths) ==
    {OfPath("multiple-paths-to-same-access", g, x) : x \in {y \in paths :
        \E z \in paths : z # y /\ SameGrant(g, y, z)}}

MultiplePathsToSameAccess(g, paths) ==
    {OfPath("multiple-paths-to-same-access", g, x) : x \in {y \in paths :
        \E z \in paths : SameGrant(g, y, z) /\ Route(g, y) # Route(g, z)}}

DuplicateAssignment(g) ==
    {OfAssignment("duplicate-assignment", g, a) : a \in {b \in DOMAIN g.assigned :
        \E c \in DOMAIN g.assigned : b # c /\ g.assigned[b] = g.assigned[c]}}

\* Mutant: the broader of the two assignments is the one reported.
RedundantBroadAssignment(g, paths) ==
    {OfPath("redundant-narrow-assignment", g, x) : x \in {y \in paths :
        \E z \in paths :
            /\ z.principal = y.principal /\ RoleOf(g, z) = RoleOf(g, y)
            /\ ScopeOf(g, y) \in Ancestors(g, ScopeOf(g, z))}}

RedundantNarrowAssignment(g, paths) ==
    {OfPath("redundant-narrow-assignment", g, x) : x \in {y \in paths :
        \E z \in paths :
            /\ z.principal = y.principal /\ RoleOf(g, z) = RoleOf(g, y)
            /\ ScopeOf(g, z) \in Ancestors(g, ScopeOf(g, y))}}

BroadScopeSubscriptionThreshold == 2

WriteRoleAtBroadScope(g) ==
    {OfAssignment("write-role-at-broad-scope", g, a) :
        a \in {b \in AssignedAt(g, {"tenant", "managementGroup"}) :
            LET role == g.role[g.assigned[b].role]
                under == {t \in Subtree(g, g.assigned[b].scope) \cap DOMAIN g.parent :
                            g.kind[t] = "subscription"}
            IN  /\ ~role.privileged /\ role.writes
                /\ Cardinality(under) >= BroadScopeSubscriptionThreshold}}

\* evaluate: every rule, each key once.
Findings(g) ==
    LET paths == AllPaths(g) IN
    UNION {Direct("direct-owner", "owner", g, paths),
           Direct("direct-contributor", "contributor", g, paths),
           UserAccessAdministrator(g, paths),
           PrivilegedAt("privileged-at-management-group", "managementGroup", g),
           PrivilegedAt("privileged-at-subscription", "subscription", g),
           CustomRoleWildcard(g), CustomRoleCanAssignRoles(g), UnusedCustomRole(g),
           PrivilegedViaGroup(g, paths), ServicePrincipalPrivileged(g, paths),
           MultiplePathsToSameAccess(g, paths), DuplicateAssignment(g),
           RedundantNarrowAssignment(g, paths), WriteRoleAtBroadScope(g)}

Init ==
    /\ graph \in Graphs
    /\ phase = "resolved" /\ found = {}

\* evaluate, on the graph of a snapshot.
Evaluate ==
    /\ phase = "resolved"
    /\ phase' = "reviewed"
    /\ found' = Findings(graph)
    /\ UNCHANGED graph

Next == Evaluate

Spec == Init /\ [][Next]_vars

----------------------------------------------------------------------------

\* The groups p belongs to, by any nesting.
Above(g, p) == Reached({p}, g.members, Principals) \ {p}

\* What p can do, and where.
Access(g, p) ==
    UNION {{RoleOf(g, x)} \X {t \in Scopes : Covers(g, ScopeOf(g, x), t)} : x \in AccessPaths(g, p)}

\* The graph after these assignments have been removed in Azure.
Without(g, as) == [g EXCEPT !.assigned = [a \in DOMAIN @ \ as |-> @[a]]]

\* The assignments of this role at this scope.
Grants(g, r, s) == {a \in DOMAIN g.assigned : g.assigned[a].role = r /\ g.assigned[a].scope = s}

\* A finding is about an identity, a role and a scope of the snapshot, or about
\* nobody where the rule is about a role, or the holder was not imported.
TypeOK ==
    /\ IsGraph(graph)
    /\ phase \in {"resolved", "reviewed"}
    /\ phase = "resolved" => found = {}
    /\ \A f \in found :
        /\ DOMAIN f = {"rule", "principal", "role", "scope"}
        /\ f.principal \in DOMAIN graph.type \cup {Nothing}
        /\ f.role \in DOMAIN graph.role \cup {Nothing}
        /\ f.scope \in Scopes \cup {Nothing}

\* Nobody who is given a privileged role by a membership is missed, however the
\* groups are nested, and nobody is accused of one he does not have: the
\* identities reported by privileged-via-group and, for non-human ones, by
\* service-principal-privileged are those the nesting of groups leads to.
PrivilegeIsReported ==
    phase = "reviewed" =>
        \A p \in DOMAIN graph.type, r \in DOMAIN graph.role, s \in Scopes :
            LET reported(rule) ==
                    [rule |-> rule, principal |-> p, role |-> r, scope |-> s] \in found
                given(holders) ==
                    /\ graph.role[r].privileged
                    /\ \E a \in Grants(graph, r, s) : graph.assigned[a].holder \in holders
            IN  /\ reported("privileged-via-group") <=>
                        graph.type[p] # "group" /\ given(Above(graph, p))
                /\ reported("service-principal-privileged") <=>
                        /\ graph.type[p] \in {"servicePrincipal", "managedIdentity"}
                        /\ given(Above(graph, p) \cup {p})

\* redundant-narrow-assignment tells an operator that the narrower assignment
\* grants nothing extra (rules.py:378).  For the identity it names that is so:
\* with every assignment of the role at that scope gone it can do all it could,
\* whatever groups the broader one comes through, and even where the imported
\* management groups form a cycle.
RedundantForHolder ==
    \A f \in found : f.rule = "redundant-narrow-assignment" =>
        Access(Without(graph, Grants(graph, f.role, f.scope)), f.principal)
            = Access(graph, f.principal)

\* multiple-paths-to-same-access says that revoking what was assigned directly
\* would not remove the access (README.md:157).  Of the identities that have a
\* role directly, exactly those that keep it at that very scope without their
\* direct assignments are reported: two direct assignments are one path.
RevokingDirectKeepsAccess ==
    phase = "reviewed" =>
        \A p \in DOMAIN graph.type, r \in DOMAIN graph.role, s \in Scopes :
            LET direct == {a \in Grants(graph, r, s) : graph.assigned[a].holder = p}
                after == Without(graph, direct)
            IN  direct # {} =>
                    ([rule |-> "multiple-paths-to-same-access",
                      principal |-> p, role |-> r, scope |-> s] \in found
                     <=> \E x \in AccessPaths(after, p) :
                            RoleOf(after, x) = r /\ ScopeOf(after, x) = s)

\* "Removing it reduces the number of assignments to review without changing
\* anyone's access" (rules.py:378-379): for one assignment the finding is about
\* and every identity, not only the one the finding names.
RedundantChangesNobody ==
    \A f \in found : f.rule = "redundant-narrow-assignment" =>
        \A a \in Grants(graph, f.role, f.scope) :
            graph.assigned[a].holder \in Above(graph, f.principal) \cup {f.principal} =>
                \A p \in {q \in DOMAIN graph.type : graph.type[q] # "group"} :
                    Access(Without(graph, {a}), p) = Access(graph, p)

\* "already reported by privileged-at-management-group" (rules.py:402): each of
\* the assignments write_role_at_broad_scope passes over because its role is
\* privileged is reported by the other rule.
BroadPrivilegeReported ==
    phase = "reviewed" =>
        \A a \in AssignedAt(graph, {"tenant", "managementGroup"}) :
            graph.role[graph.assigned[a].role].privileged =>
                OfAssignment("privileged-at-management-group", graph, a) \in found

\* multiple-paths-to-same-access is for where "revoking one route would not
\* remove the access" (README.md:157): an identity that has a role at a scope
\* through two different chains of groups is reported.
SecondRouteReported ==
    phase = "reviewed" =>
        \A x, y \in AllPaths(graph) :
            SameGrant(graph, x, y) /\ x.chain # y.chain =>
                OfPath("multiple-paths-to-same-access", graph, x) \in found
=============================================================================
