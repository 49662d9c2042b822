---------------------------- MODULE GroupSearches ----------------------------
(***************************************************************************)
(* Two searches of resolver/membership.py over one import: the importer    *)
(* looks for cycles of groups and warns of them, and the page of a group,  *)
(* later, lists its members (web/viewmodels.py, identity_detail).          *)
(***************************************************************************)
EXTENDS MemberExpansion

VARIABLES starts, calls, cycles     \* of membership_cycles

Cycles == INSTANCE MembershipCycles

search == <<stack, current, depth, todo, found>>

\* The memberships are of one import.
SearchesInit == Init /\ Cycles!Init

\* check_integrity, when the sections are loaded.
LookForCycles == Cycles!Next /\ UNCHANGED search

\* A page of the imported graph.
ListMembers ==
    /\ Cycles!Done
    /\ Next
    /\ UNCHANGED <<starts, calls, cycles>>

SearchesNext == LookForCycles \/ ListMembers

SearchesSpec ==
    /\ SearchesInit /\ [][SearchesNext]_<<vars, starts, calls, cycles>>
    /\ WF_<<vars, starts, calls, cycles>>(SearchesNext)

----------------------------------------------------------------------------
(* Properties. *)

\* The warnings are right about every import: see MembershipCycles.
CyclesAreExact == Cycles!CyclesAreExact

\* The import page and the page of a group agree: where the nesting below the
\* group stays under the depth cap, a warning names the group exactly if the
\* group is a member of one of those listed on its page, and so of itself.
WarnedAboutItself ==
    Cycles!Done /\ Done /\ Chains(MaxDepth) = {} =>
        ((\E c \in cycles : Group \in Cycles!OnPath(c))
            <=> \E m \in found : Group \in membersOf[m])

\* Cycles of groups keep neither search going.
BothTerminate == <>(Cycles!Done /\ Done)
=============================================================================
