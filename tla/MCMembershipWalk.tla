-------------------------- MODULE MCMembershipWalk --------------------------
(* MembershipWalk over every small membership relation of a few principals. *)
EXTENDS MembershipWalk

CONSTANTS
    Groups,  \* the nodes that are not the starting principal
    Direct   \* the groups the principal is a direct member of

\* A node is in two groups at most: enough for routes that part and meet again.
UpToTwo == {S \in SUBSET Nodes : Cardinality(S) <= 2}

\* Every such relation without self-memberships, cycles of every length and
\* cycles through the principal included.
AnyTenant ==
    {m \in [Nodes -> UpToTwo] :
        m[Principal] = Direct /\ \A n \in Nodes : n \notin m[n]}
=============================================================================
