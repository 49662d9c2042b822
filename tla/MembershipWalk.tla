--------------------------- MODULE MembershipWalk ---------------------------
(***************************************************************************)
(* membership_paths (resolver/membership.py): the depth-first walk from a  *)
(* principal up through the groups it belongs to, one state per call,      *)
(* loop iteration and return.  The order in which a frame meets the groups *)
(* of its node is the order of the imported rows; here it is any order,    *)
(* and the list of groups is a set: the importer has dropped memberships   *)
(* that repeat another and self-memberships.  Longer cycles are in the     *)
(* data and are what the walk guards against.                              *)
(***************************************************************************)
EXTENDS Integers, Sequences, FiniteSets

CONSTANTS
    Nodes,      \* principal ids, groups and others
    Principal,  \* the principal the walk starts from
    MaxDepth,   \* MAX_DEPTH
    MaxPaths,   \* MAX_PATHS
    Tenants     \* the membership relations of the imported datasets

ASSUME WalkAssumption ==
    /\ Principal \in Nodes
    /\ MaxDepth \in Nat \ {0}
    /\ MaxPaths \in Nat \ {0}
    /\ Tenants \subseteq {m \in [Nodes -> SUBSET Nodes] : \A n \in Nodes : n \notin m[n]}

VARIABLES
    groupsOf,   \* groups_by_member
    stack,      \* the calls of walk under way: chain, and groups still to try
    results     \* the chains of the MembershipPaths found, in order

vars == <<groupsOf, stack, results>>

Frame == [chain : Seq(Nodes), todo : SUBSET Nodes]

\* The node a call walks from: the end of its chain, or the principal itself.
Current(chain) == IF chain = <<>> THEN Principal ELSE chain[Len(chain)]

Call(chain) == [chain |-> chain, todo |-> groupsOf[Current(chain)]]

Running == stack # <<>>

Top == stack[Len(stack)]

\* Mutant: the first call is given an empty visited set.
VisitedGroups(chain) == {chain[k] : k \in 1..Len(chain)}

\* Mutant: one visited set for the whole walk, as a reachability search has.
VisitedEver(chain) ==
    {Principal} \cup {results[r][Len(results[r])] : r \in 1..Len(results)}

\* The `visited` argument of a call.
Visited(chain) == {Principal} \cup {chain[k] : k \in 1..Len(chain)}

\* Mutant: the call on the path that meets the cap is entered.
RefusedLate(chain, found) == found > MaxPaths \/ Len(chain) >= MaxDepth

\* The guard at the head of walk: such a call returns at once.
Refused(chain, found) == found >= MaxPaths \/ Len(chain) >= MaxDepth

\* The loop of the innermost call moves past g.
Advanced(g) == [stack EXCEPT ![Len(stack)].todo = @ \ {g}]

Init ==
    /\ groupsOf \in Tenants
    /\ stack = <<Call(<<>>)>>
    /\ results = <<>>

\* `continue`: the group is on the chain already, a membership cycle.
Skip(g) ==
    /\ Running
    /\ g \in Top.todo
    /\ g \in Visited(Top.chain)
    /\ stack' = Advanced(g)
    /\ UNCHANGED <<groupsOf, results>>

\* A path is recorded and walked further, unless the new call is refused.
Extend(g) ==
    /\ Running
    /\ g \in Top.todo
    /\ g \notin Visited(Top.chain)
    /\ LET path == Append(Top.chain, g) IN
        /\ results' = Append(results, path)
        /\ stack' = IF Refused(path, Len(results')) THEN Advanced(g)
                    ELSE Append(Advanced(g), Call(path))
    /\ UNCHANGED groupsOf

\* The loop of the innermost call is over.
Return ==
    /\ Running
    /\ Top.todo = {}
    /\ stack' = SubSeq(stack, 1, Len(stack) - 1)
    /\ UNCHANGED <<groupsOf, results>>

Next ==
    \/ \E g \in Nodes : Skip(g) \/ Extend(g)
    \/ Return

Spec == Init /\ [][Next]_vars

----------------------------------------------------------------------------
(* Properties. *)

\* The shape of the state; no call is under way at the depth cap or below.
TypeOK ==
    /\ groupsOf \in Tenants
    /\ stack \in Seq(Frame)
    /\ \A f \in 1..Len(stack) : Len(stack[f].chain) < MaxDepth
    /\ results \in Seq(Seq(Nodes))

\* A chain of nested memberships that leads up from the principal and meets
\* no principal twice.
IsPath(groups, chain) ==
    /\ chain # <<>>
    /\ chain[1] \in groups[Principal]
    /\ \A k \in 1..(Len(chain) - 1) : chain[k + 1] \in groups[chain[k]]
    /\ \A k \in 1..Len(chain) :
        /\ chain[k] # Principal
        /\ \A j \in 1..Len(chain) : chain[j] = chain[k] => j = k

\* The chains membership_paths promises.
ShortPaths == {p \in UNION {[1..n -> Nodes] : n \in 1..MaxDepth} : IsPath(groupsOf, p)}

\* Every path returned is a way the principal really reaches the group: each
\* step is a membership of the tenant, no cycle is walked, and the chain is no
\* longer than the depth cap.
PathsAreReal ==
    \A r \in 1..Len(results) : IsPath(groupsOf, results[r]) /\ Len(results[r]) <= MaxDepth

\* The walk finds every path within the depth cap, several to one group
\* included, unless the path cap was reached: then it returns at least as many
\* paths as the cap.
CompleteUnlessCapped ==
    ~ Running /\ Len(results) < MaxPaths =>
        \A p \in ShortPaths : \E r \in 1..Len(results) : results[r] = p

\* The caps bound the walk together, although the path cap is tested on
\* entering a call only and the calls under way go on: what is recorded past it
\* are groups beside the chain that met the cap, and nothing beyond them.
PastCapOnlySiblings ==
    \A r \in 1..Len(results) : r > MaxPaths =>
        LET last == results[MaxPaths] IN
        /\ Len(results[r]) <= Len(last)
        /\ \A k \in 1..(Len(results[r]) - 1) : results[r][k] = last[k]

\* docs/HANDOFF.md: "`membership_paths` truncates silently at 500 paths /
\* depth 20".
TruncatesAtMaxPaths == Len(results) <= MaxPaths
=============================================================================
