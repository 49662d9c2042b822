--------------------------- MODULE ScopeSearches ---------------------------
(***************************************************************************)
(* The two searches of domain/hierarchy.py on the snapshot under review:   *)
(* what the rules and the pages of AccessReview are told about its scopes, *)
(* found step by step.                                                     *)
(***************************************************************************)
EXTENDS AccessReview

VARIABLES
    origin, target,             \* the scopes that are asked about
    node, above, queue, below   \* of ancestors and descendants

\* graph.scopes
parentOf == graph.parent

Estates == {g.parent : g \in Graphs}

Tree == INSTANCE ScopeTree WITH NoScope <- Nothing

searches == <<origin, target, node, above, queue, below>>

SearchesInit == Init /\ Tree!Init

\* The graph stays as it is while it is searched.
SearchesNext == UNCHANGED vars /\ Tree!Next

SearchesSpec ==
    /\ SearchesInit /\ [][SearchesNext]_<<vars, searches>>
    /\ WF_<<vars, searches>>(SearchesNext)

----------------------------------------------------------------------------
(* Properties. *)

\* The reach that is shown and counted for a grant lists each scope once
\* (ScopeTree), and once descendants has returned it is what the rules and the
\* pages take for the subtree, on cycles and with missing parents too.
ReachIsExact ==
    /\ Tree!ReachIsExact
    /\ queue = {} => Tree!SeenBelow = Subtree(graph, origin)

\* The ancestors are the parents one after the other, without repetition
\* (ScopeTree), and once the climb is over they are what covers is asked of.
AncestorsClimb ==
    /\ Tree!AncestorsClimb
    /\ node = Nothing => Range(above) = Ancestors(graph, target)

\* covers and descendants agree about an assignment at an imported scope.
CoversMatchesReach == Tree!CoversMatchesReach

\* A cycle of parents hangs neither search.
Terminates == Tree!Terminates

\* See ScopeTree: it does not hold.
AppliesEverywhereBelow == Tree!AppliesEverywhereBelow
=============================================================================
