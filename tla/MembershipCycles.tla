-------------------------- MODULE MembershipCycles --------------------------
(***************************************************************************)
(* membership_cycles (resolver/membership.py): from every group a walk up  *)
(* through the groups it is in, that reports a cycle where it comes back   *)
(* to its own path, once for each set of groups; one state per iteration   *)
(* and return.  Groups and memberships come in the order of the import,    *)
(* here in any order.                                                      *)
(***************************************************************************)
EXTENDS Integers, Sequences

CONSTANTS
    Nodes,      \* principal ids, groups and others
    MaxDepth    \* MAX_DEPTH

VARIABLES
    membersOf,  \* members_by_group
    starts,     \* the groups not yet walked from
    calls,      \* the calls of walk under way: path, and groups still to try
    cycles      \* the cycles reported, each as its path

vars == <<membersOf, starts, calls, cycles>>

GroupsOf(n) == {g \in Nodes : n \in membersOf[g]}

Groups == {g \in Nodes : membersOf[g] # {}}

OnPath(path) == {path[k] : k \in 1..Len(path)}

Last(path) == path[Len(path)]

Call(path) == [path |-> path, todo |-> GroupsOf(Last(path))]

Innermost == calls[Len(calls)]

\* The loop of the innermost call moves past g.
Advanced(g) == [calls EXCEPT ![Len(calls)].todo = @ \ {g}]

\* Mutant: the part of the path before the cycle is reported with it.
WholePath(path, g) == path

\* path[start:], from where the walk has met g before.
Loop(path, g) ==
    LET start == CHOOSE k \in 1..Len(path) : path[k] = g
    IN  SubSeq(path, start, Len(path))

\* Mutant: cycles that have a group in common are taken for one.
ReportedNearby(cycle) == \E c \in cycles : OnPath(c) \cap OnPath(cycle) # {}

\* seen_signatures
Reported(cycle) == \E c \in cycles : OnPath(c) = OnPath(cycle)

Init ==
    /\ starts = Groups
    /\ calls = <<>>
    /\ cycles = {}

\* The loop over the groups.
Start(g) ==
    /\ calls = <<>> /\ g \in starts
    /\ starts' = starts \ {g}
    /\ calls' = <<Call(<<g>>)>>
    /\ UNCHANGED <<membersOf, cycles>>

\* A group of the path: a cycle.
Close(g) ==
    /\ calls # <<>> /\ g \in Innermost.todo
    /\ g \in OnPath(Innermost.path)
    /\ calls' = Advanced(g)
    /\ LET cycle == Loop(Innermost.path, g) IN
        cycles' = cycles \cup {c \in {cycle} : ~ Reported(cycle)}
    /\ UNCHANGED <<membersOf, starts>>

\* Another group: walked from, unless the path is at the depth cap.
Walk(g) ==
    /\ calls # <<>> /\ g \in Innermost.todo
    /\ g \notin OnPath(Innermost.path)
    /\ calls' = IF Len(Innermost.path) >= MaxDepth THEN Advanced(g)
                ELSE Append(Advanced(g), Call(Append(Innermost.path, g)))
    /\ UNCHANGED <<membersOf, starts, cycles>>

Return ==
    /\ calls # <<>> /\ Innermost.todo = {}
    /\ calls' = SubSeq(calls, 1, Len(calls) - 1)
    /\ UNCHANGED <<membersOf, starts, cycles>>

Next == Return \/ \E g \in Nodes : Start(g) \/ Close(g) \/ Walk(g)

Done == calls = <<>> /\ starts = {}

----------------------------------------------------------------------------
(* Properties. *)

\* A cycle of nested memberships that meets no group twice.
IsCycle(c) ==
    /\ c # <<>>
    /\ c[1] \in GroupsOf(Last(c))
    /\ \A k \in 1..(Len(c) - 1) : c[k + 1] \in GroupsOf(c[k])
    /\ \A j, k \in 1..Len(c) : c[j] = c[k] => j = k

\* What is reported is a cycle, no set of groups is reported twice, wherever
\* the walks enter it, and in the end each set of groups that is on a cycle no
\* longer than the depth cap has been reported.
CyclesAreExact ==
    /\ \A c \in cycles : IsCycle(c) /\ Len(c) <= MaxDepth
    /\ \A c, d \in cycles : OnPath(c) = OnPath(d) => c = d
    /\ Done => \A n \in 1..MaxDepth : \A c \in [1..n -> Nodes] :
                    IsCycle(c) => Reported(c)
=============================================================================
