-------------------------- MODULE MCMemberTwoWays --------------------------
(* A tenant where a group is met by a long way before a short one. *)
EXTENDS MemberExpansion

CONSTANTS First, Second, Inner, Shared, Deep   \* the principals besides Group

\* Shared is in First, which is directly in Group, and also in Inner, one
\* level further down the other branch; Deep is in Shared.
TwoWays ==
    {[n \in Nodes |->
        CASE n = Group -> {First, Second}
          [] n = First -> {Shared}
          [] n = Second -> {Inner}
          [] n = Inner -> {Shared}
          [] n = Shared -> {Deep}
          [] n = Deep -> {}]}
=============================================================================
