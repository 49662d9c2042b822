-------------------------- MODULE MCGroupSearches --------------------------
(* Every membership relation of up to MaxMemberships memberships that the   *)
(* importer lets through, no group in itself, up to the names of the        *)
(* principals besides Group.                                                *)
EXTENDS GroupSearches, FiniteSetsExt, TLC

CONSTANT MaxMemberships

Tenant(edges) == [n \in Nodes |-> {e[2] : e \in {d \in edges : d[1] = n}}]

AnyTenant ==
    {Tenant(edges) : edges \in UNION {
        kSubset(k, {e \in Nodes \X Nodes : e[1] # e[2]}) : k \in 0..MaxMemberships}}

Renamings == {p \in Permutations(Nodes) : p[Group] = Group}

Renamed(m, p) == [n \in Nodes |-> {p[k] : k \in m[CHOOSE x \in Nodes : p[x] = n]}]

UpToNames == {CHOOSE m \in {Renamed(t, p) : p \in Renamings} : TRUE : t \in AnyTenant}
=============================================================================
