-------------------------- MODULE MCScopeSearches --------------------------
(* Snapshots of management groups under the tenant root, and nothing else. *)
EXTENDS ScopeSearches

CONSTANT Root   \* "/", which every import has

\* Each other scope is imported or not, with any scope as its parent.
AnyEstate ==
    {e \in UNION {[imported \cup {Root} -> Scopes \cup {Nothing}] : imported \in SUBSET Scopes} :
        \A s \in DOMAIN e : e[s] = Nothing <=> s = Root}

Kinds(imported) == [s \in imported |-> IF s = Root THEN "tenant" ELSE "managementGroup"]

OnlyScopes ==
    {[type |-> <<>>, called |-> <<>>, members |-> {}, parent |-> e,
      kind |-> Kinds(DOMAIN e), role |-> <<>>, assigned |-> <<>>] : e \in AnyEstate}
=============================================================================
