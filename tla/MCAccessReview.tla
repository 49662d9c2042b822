--------------------------- MODULE MCAccessReview ---------------------------
(* A tenant with two management groups and two subscriptions; a user, an     *)
(* application and two groups; Owner and a custom role.                      *)
EXTENDS AccessScreens, TLC

CONSTANTS user, app, g1, g2, root, mg1, mg2, sub1, sub2, owner, custom

\* Who may be a member of what: the groups may be nested either way or in a
\* circle.
Memberships == {{<<app, g2>>} \cup m :
                    m \in SUBSET {<<user, g1>>, <<user, g2>>, <<g1, g2>>, <<g2, g1>>}}

\* g2 has the name g1 has, or was not imported.
Identities ==
    {[type |-> (user :> "user") @@ (app :> "servicePrincipal") @@ (g1 :> "group") @@ (g2 :> "group"),
      called |-> (user :> "u") @@ (app :> "a") @@ (g1 :> "g") @@ (g2 :> "g")],
     [type |-> (user :> "user") @@ (app :> "servicePrincipal") @@ (g1 :> "group"),
      called |-> (user :> "u") @@ (app :> "a") @@ (g1 :> "g")]}

\* mg2 is below mg1, or each is imported as the parent of the other, or mg2 was
\* not imported and its subscriptions are orphans.
Estates ==
    {(root :> Nothing) @@ (mg1 :> p) @@ (mg2 :> mg1) @@ (sub1 :> mg2) @@ (sub2 :> mg2) :
        p \in {root, mg2}}
    \cup {(root :> Nothing) @@ (mg1 :> root) @@ (sub1 :> mg2) @@ (sub2 :> mg2)}

Kinds == (root :> "tenant") @@ (mg1 :> "managementGroup") @@ (mg2 :> "managementGroup")
            @@ (sub1 :> "subscription") @@ (sub2 :> "subscription")

Facts ==
    (owner :> [name |-> "owner", privileged |-> TRUE, custom |-> FALSE,
               wildcard |-> TRUE, assigns |-> TRUE, writes |-> TRUE])
    @@ (custom :> [name |-> "another", privileged |-> FALSE, custom |-> TRUE,
                   wildcard |-> TRUE, assigns |-> FALSE, writes |-> TRUE])

\* Up to two assignments.
Assigned ==
    UNION {[as -> [holder : {user, g1, g2}, role : {owner, custom}, scope : {root, mg1, mg2, sub1}]] :
            as \in SUBSET AssignmentIds}

AnyGraph ==
    {[type |-> i.type, called |-> i.called, members |-> m, parent |-> e, kind |-> [s \in DOMAIN e |-> Kinds[s]],
      role |-> Facts, assigned |-> a] :
        i \in Identities, m \in Memberships, e \in Estates, a \in Assigned}

Symmetry == Permutations(AssignmentIds)
=============================================================================
