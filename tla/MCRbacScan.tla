----------------------------- MODULE MCRbacScan -----------------------------
(* A scan of a subscription and the scopes above it. *)
EXTENDS RbacScan

CONSTANTS a1, a2, k1, k2, free, bound, p1, p2

\* The unfiltered collection below the scope, in two pages, and atScope(),
\* which has the assignments at the scope and above it: a2 is in both.
TwoQueries == << <<{a1}, {a2}>>, <<{a2}>> >>

Approve(records, pins) == [approved |-> records, pinned |-> pins]

\* One grant is approved, and each role is pinned.
ApprovalAndPin ==
    {Approve({[key |-> k1, constraints |-> bound]}, [x \in Roles |-> p1])}
=============================================================================
