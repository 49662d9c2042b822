--------------------------- MODULE MCOfflineDrift ---------------------------
(* A subscription with a resource group, below a management group, and the   *)
(* target files of two teams.                                                *)
EXTENDS OfflineDrift

CONSTANTS mgId, subId, rgId, rgAgain, free, bound, role, p1, p2, here, elsewhere

Mg == <<"managementGroups", "m">>
Sub == <<"subscriptions", "s">>
Rg == <<"subscriptions", "s", "rg">>

OriginOf == [i \in Ids |-> CASE i = mgId -> Mg [] i = subId -> Sub [] OTHER -> Rg]

Above == [s \in Scopes |-> CASE s = Mg -> {Mg} [] s = Sub -> {Sub, Mg} [] s = Rg -> {Rg, Sub, Mg}]

ScopeIds == {Mg, Sub, Rg}

ClockSkews == {-1, 1}

Whole(s) == [id |-> s, includeDescendants |-> TRUE]
Exact(s) == [id |-> s, includeDescendants |-> FALSE]

Approve(s, c) == [key |-> [grant |-> CHOOSE g \in Grants : TRUE, scope |-> s], constraints |-> c]

File(scopes, approved, pinned) ==
    [tenantId |-> here, scopes |-> scopes, approved |-> approved, pinned |-> pinned]

NoPin == [x \in {} |-> p1]
Pin == [x \in Roles |-> p1]

Platform == File({Exact(Mg), Whole(Sub)}, {Approve(Mg, free)}, Pin)
Payments == File({Whole(Sub), Whole(Rg)}, {Approve(Rg, bound)}, NoPin)
\* Not to be merged with the others.
Narrow == File({Exact(Sub)}, {}, NoPin)
PaymentsAgain == File({Whole(Rg)}, {Approve(Rg, bound)}, NoPin)
Outside == File({Exact(Sub)}, {Approve(Rg, free)}, NoPin)
Foreign == [Payments EXCEPT !.tenantId = elsewhere]

Files ==
    {<<Platform, Payments>>, <<Payments>>, <<Platform>>, <<Platform, Narrow>>,
     <<Payments, PaymentsAgain>>, <<Outside>>, <<Platform, Foreign>>, <<Foreign>>, <<Malformed, Payments>>}
=============================================================================
