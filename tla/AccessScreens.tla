---------------------------- MODULE AccessScreens ----------------------------
(***************************************************************************)
(* The pages that show one snapshot from different sides                   *)
(* (web/viewmodels.py, web/routes): the page of an identity with its       *)
(* grants and its diagram (web/relationship_graph.py), the page of a scope *)
(* with who can reach it, the page of a role with who holds it, the list   *)
(* of privileged access, and the page of one access path, reached by a     *)
(* link that names an assignment and a chain of groups.                    *)
(*                                                                         *)
(* A row is what it tells; labels, icons, filters and the order of rows    *)
(* are left out, and the order of paths is kept where a page depends on    *)
(* it.                                                                     *)
(***************************************************************************)
EXTENDS AccessReview

CONSTANT RowLimits      \* max_rows of a diagram; 12 in the program

ASSUME ScreensAssumption == RowLimits \subseteq Nat \ {0}

----------------------------------------------------------------------------

\* Mutant: only what is assigned above the scope.
AccessFromAbove(g, p, s) == {x \in AccessPaths(g, p) : ScopeOf(g, x) \in Ancestors(g, s)}

\* access_at_scope
AccessAtScope(g, p, s) == {x \in AccessPaths(g, p) : Covers(g, ScopeOf(g, x), s)}

\* principals_with_access_to
PrincipalsWithAccessTo(g, s) == UNION {AccessAtScope(g, p, s) : p \in DOMAIN g.type}

\* scope_detail: one row for each identity and role.
ScopeRows(g, s) ==
    LET paths == PrincipalsWithAccessTo(g, s) IN
    {[principal |-> x.principal, role |-> RoleOf(g, x),
      inherited |-> \A y \in paths :
            y.principal = x.principal /\ RoleOf(g, y) = RoleOf(g, x) => ScopeOf(g, y) # s] :
        x \in paths}

\* identity_detail: one row for each role and scope.
GrantRows(g, p) ==
    LET paths == AccessPaths(g, p) IN
    {[role |-> RoleOf(g, x), scope |-> ScopeOf(g, x),
      direct |-> \E y \in paths : SameGrant(g, x, y) /\ y.chain = <<>>,
      reach |-> Subtree(g, ScopeOf(g, x))] :
        x \in paths}

\* assignees_of_role
AssigneesOfRole(g, r) == {x \in AllPaths(g) : RoleOf(g, x) = r}

\* role_detail: one row for each holder.
HolderRows(g, r) ==
    LET paths == AssigneesOfRole(g, r)
        of(p) == {x \in paths : x.principal = p}
    IN  {[principal |-> p,
          scopes |-> {ScopeOf(g, x) : x \in of(p)},
          direct |-> \E x \in of(p) : x.chain = <<>>,
          via |-> {GrantedVia(p, x.chain) : x \in {y \in of(p) : y.chain # <<>>}}] :
            p \in {x.principal : x \in paths}}

\* privileged: a row for each path to a privileged role.
PrivilegedRows(g) ==
    {x \in AllPaths(g) : g.type[x.principal] # "group" /\ FactsOf(g, x).privileged}

\* privileged: the groups such a role is assigned to.
PrivilegedGroups(g) ==
    {g.assigned[a].holder : a \in {b \in DOMAIN g.assigned :
        /\ g.assigned[b].role \in DOMAIN g.role /\ g.role[g.assigned[b].role].privileged
        /\ g.assigned[b].holder \in {q \in DOMAIN g.type : g.type[q] = "group"}}}

\* access_path: the page of one path.  It may be asked for with any chain; one
\* the assignment does not come by is not looked for.
Candidates(g, p, a) == {x \in AccessPaths(g, p) : x.assignment = a}

\* The first candidate: they differ in their chains only, the shortest is first.
First(candidates) ==
    {x \in candidates : \A y \in candidates : Len(x.chain) <= Len(y.chain)}

\* Mutant: the chain of the link is not looked at.
OpenedFirst(g, p, a, chain) == First(Candidates(g, p, a))

Opened(g, p, a, chain) ==
    LET wanted == {x \in Candidates(g, p, a) : chain # <<>> /\ x.chain = chain}
    IN  IF wanted # {} THEN wanted ELSE First(Candidates(g, p, a))

----------------------------------------------------------------------------
(* The diagram: an identity, a column of groups, one of roles and one of   *)
(* scopes, and edges, dashed where access comes by a group.                *)

ScopeDepth(g, s) ==
    IF s \notin DOMAIN g.parent THEN 9
    ELSE CASE g.kind[s] = "tenant" -> 0 [] g.kind[s] = "managementGroup" -> 1
           [] g.kind[s] = "subscription" -> 2 [] g.kind[s] = "resourceGroup" -> 3
           [] g.kind[s] = "resource" -> 4

\* The orders access_paths may give its paths: broadest scope first; of one
\* role at one level the shortest chain first.  What roles are called, and the
\* order of the file, decide the rest.
Orders(g, p) ==
    LET depth(x) == ScopeDepth(g, ScopeOf(g, x)) IN
    {o \in SetToSeqs(AccessPaths(g, p)) :
        \A i, j \in DOMAIN o : i < j =>
            /\ depth(o[i]) <= depth(o[j])
            /\ depth(o[i]) = depth(o[j]) /\ RoleOf(g, o[i]) = RoleOf(g, o[j]) =>
                    Len(o[i].chain) <= Len(o[j].chain)}

NoDiagram == [groups |-> {}, roles |-> {}, scopes |-> {}, edges |-> {}]

Fits(column, ids, rows) == Cardinality(column \cup ids) <= rows

\* How many groups of a chain are drawn before the column is full.
DrawnGroups(d, chain, rows) ==
    Max({n \in 0..Len(chain) : Fits(d.groups, Range(SubSeq(chain, 1, n)), rows)})

\* The k-th node of a path, from the identity to the last group.
Node(x, k) == IF k = 0 THEN <<"identity", x.principal>> ELSE <<"group", x.chain[k]>>

\* Mutant: the role is drawn whatever became of the groups.
RoleDrawnAnyway(g, d, x, n, rows) == Fits(d.roles, {RoleOf(g, x)}, rows)

\* Whether the role of a path is drawn, after the first n groups: not if the
\* loop over the groups was left by its break.
RoleDrawn(g, d, x, n, rows) == n = Len(x.chain) /\ Fits(d.roles, {RoleOf(g, x)}, rows)

\* The body of build's loop over the paths.
DrawPath(g, d, x, rows) ==
    LET n == DrawnGroups(d, x.chain, rows)
        role == <<"role", RoleOf(g, x)>>
        withRole == RoleDrawn(g, d, x, n, rows)
        withScope == withRole /\ Fits(d.scopes, {ScopeOf(g, x)}, rows)
        steps == {<<Node(x, k - 1), Node(x, k), FALSE>> : k \in 1..n}
    IN  [groups |-> d.groups \cup Range(SubSeq(x.chain, 1, n)),
         roles |-> d.roles \cup {r \in {RoleOf(g, x)} : withRole},
         scopes |-> d.scopes \cup {s \in {ScopeOf(g, x)} : withScope},
         edges |-> d.edges \cup steps
                    \cup {e \in {<<Node(x, n), role, FALSE>>} : withRole}
                    \cup {e \in {<<role, <<"scope", ScopeOf(g, x)>>, x.chain # <<>>>>} : withScope}]

\* The loop of build: what is drawn after the first n paths.
Drawn(g, paths, rows) ==
    LET drawn[n \in 0..Len(paths)] ==
            IF n = 0 THEN NoDiagram ELSE DrawPath(g, drawn[n - 1], paths[n], rows)
    IN  drawn

\* build
Diagram(g, paths, rows) == Drawn(g, paths, rows)[Len(paths)]

----------------------------------------------------------------------------
(* Properties. *)

\* The pages tell one story, although each resolves it anew and from its own
\* side: an identity is on the page of a scope with a role exactly if its own
\* page shows that role with a reach that takes in the scope, as assigned there
\* exactly if it has a grant there; it is on the page of a role with the scopes
\* of its own page; and a privileged row via a group, with its group beside it,
\* is what the finding about it says.  Only of a scope that was not imported
\* does the reach take in more than the pages of the scopes below it admit.
ScreensAgree ==
    phase = "reviewed" =>
        LET g == graph
            grants == UNION {{[principal |-> p, row |-> row] : row \in GrantRows(g, p)} :
                                p \in DOMAIN g.type}
            byGroup == {x \in PrivilegedRows(g) : x.chain # <<>>}
        IN  /\ \A s \in DOMAIN g.parent :
                LET reaching == {h \in grants : h.row.scope \in DOMAIN g.parent /\ s \in h.row.reach} IN
                ScopeRows(g, s) =
                    {[principal |-> h.principal, role |-> h.row.role,
                      inherited |-> \A k \in reaching :
                        k.principal = h.principal /\ k.row.role = h.row.role => k.row.scope # s] :
                        h \in reaching}
            /\ \A r \in DOMAIN g.role :
                LET page == HolderRows(g, r)
                    held == {h \in grants : h.row.role = r}
                IN  /\ {row.principal : row \in page} = {h.principal : h \in held}
                    /\ \A row \in page :
                        LET of == {h.row : h \in {k \in held : k.principal = row.principal}} IN
                        /\ row.scopes = {grant.scope : grant \in of}
                        /\ row.direct <=> \E grant \in of : grant.direct
                        /\ row.via \subseteq Above(g, row.principal)
            /\ {OfPath("privileged-via-group", g, x) : x \in byGroup}
                = {f \in found : f.rule = "privileged-via-group"}
            /\ {q \in {GrantedVia(x.principal, x.chain) : x \in byGroup} :
                    q \in DOMAIN g.type /\ g.type[q] = "group"} \subseteq PrivilegedGroups(g)

\* Each link to an access path, with the assignment and the chain of the path it
\* is drawn for, opens that path and no other, also where an assignment reaches
\* an identity by several chains, and where the chain in the link is empty.
LinkOpensItsPath ==
    phase = "reviewed" =>
        \A x \in AllPaths(graph) :
            Opened(graph, x.principal, x.assignment, x.chain) = {x}

\* The diagram of an identity shows what there is and nothing else, in whatever
\* order the paths are drawn: each edge is a membership, or leads from the holder
\* of an assignment to its role and from there to its scope, dashed exactly if
\* the identity comes to it by a group; and a path that is not there from one end
\* to the other lacks a node for which its column had no room.
DiagramShowsAccess ==
    LET g == graph IN
    phase = "reviewed" =>
        \A p \in DOMAIN g.type, rows \in RowLimits : \A paths \in Orders(g, p) :
            LET d == Diagram(g, paths, rows)
                edges(x) ==
                    LET n == Len(x.chain) IN
                    {<<Node(x, k - 1), Node(x, k), FALSE>> : k \in 1..n}
                    \cup {<<Node(x, n), <<"role", RoleOf(g, x)>>, FALSE>>,
                          <<<<"role", RoleOf(g, x)>>, <<"scope", ScopeOf(g, x)>>, x.chain # <<>>>>}
                full(column, ids) == ids \ column # {} /\ Cardinality(column) = rows
            IN  /\ d.edges \subseteq UNION {edges(x) : x \in Range(paths)}
                /\ \A x \in Range(paths) :
                    \/ edges(x) \subseteq d.edges
                    \/ full(d.groups, Range(x.chain))
                    \/ full(d.roles, {RoleOf(g, x)})
                    \/ full(d.scopes, {ScopeOf(g, x)})

\* A row of the page of a scope that says "Assigned here" (scope_detail.html)
\* leads to a path that is assigned there.
RowMatchesItsPath ==
    \A s \in DOMAIN graph.parent, p \in DOMAIN graph.type : \A paths \in Orders(graph, p) :
        \A row \in {r \in ScopeRows(graph, s) : r.principal = p} :
            LET shown == SelectSeq(paths, LAMBDA x : RoleOf(graph, x) = row.role
                                            /\ Covers(graph, ScopeOf(graph, x), s))
            IN  ~ row.inherited => ScopeOf(graph, shown[1]) = s

\* "Removing one of these does not remove the access" (access_path.html:103), of
\* the chains by which one assignment reaches an identity, at their first step.
AlternativesSurvive ==
    \A x, y \in AllPaths(graph) :
        x.principal = y.principal /\ x.assignment = y.assignment /\ x # y =>
            LET less == [graph EXCEPT !.members = @ \ {<<x.principal, x.chain[1]>>}]
            IN  Candidates(less, x.principal, x.assignment) # {}
=============================================================================
