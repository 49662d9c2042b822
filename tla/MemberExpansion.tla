-------------------------- MODULE MemberExpansion --------------------------
(***************************************************************************)
(* transitive_members (resolver/membership.py): everyone in a group, found *)
(* by a search down the nested groups, one state per iteration of its two  *)
(* loops.  Unlike membership_paths it remembers the principals it has met  *)
(* once for the whole search, together with a cap on the depth.            *)
(***************************************************************************)
EXTENDS Integers, Sequences

CONSTANTS
    Nodes,      \* principal ids, groups and others
    Group,      \* the group that is expanded
    MaxDepth,   \* MAX_DEPTH
    Tenants     \* the memberships of the imports: the members of each group

ASSUME ExpansionAssumption ==
    /\ Group \in Nodes
    /\ MaxDepth \in Nat \ {0}
    /\ Tenants \subseteq {m \in [Nodes -> SUBSET Nodes] : \A n \in Nodes : n \notin m[n]}

VARIABLES
    membersOf,  \* members_by_group
    stack,      \* the principals met and not yet expanded, with their depths
    current,    \* the principal being expanded
    depth,      \* its depth
    todo,       \* the members of it the inner loop has left, in any order
    found       \* out

vars == <<membersOf, stack, current, depth, todo, found>>

Entry == [id : Nodes, depth : Nat]

\* Mutant: the group itself is not remembered.
SeenOnly == found

\* seen: the group and whatever was added to out.
Seen == {Group} \cup found

Top == stack[Len(stack)]

Popped == SubSeq(stack, 1, Len(stack) - 1)

Init ==
    /\ membersOf \in Tenants
    /\ stack = <<[id |-> Group, depth |-> 0]>>
    /\ current = Group /\ depth = 0 /\ todo = {}
    /\ found = {}

\* Mutant: the depth guard is off by one.
PopDeeper ==
    /\ todo = {} /\ stack # <<>>
    /\ stack' = Popped
    /\ current' = Top.id /\ depth' = Top.depth
    /\ todo' = IF Top.depth > MaxDepth THEN {} ELSE membersOf[Top.id]
    /\ UNCHANGED <<membersOf, found>>

\* Mutant: members are not expanded where they would get to the cap.
PopShallower ==
    /\ todo = {} /\ stack # <<>>
    /\ stack' = Popped
    /\ current' = Top.id /\ depth' = Top.depth
    /\ todo' = IF Top.depth + 1 >= MaxDepth THEN {} ELSE membersOf[Top.id]
    /\ UNCHANGED <<membersOf, found>>

\* Mutant: the entry is read but stays on the stack.
PopPeek ==
    /\ todo = {} /\ stack # <<>>
    /\ current' = Top.id /\ depth' = Top.depth
    /\ todo' = IF Top.depth >= MaxDepth THEN {} ELSE membersOf[Top.id]
    /\ UNCHANGED <<membersOf, stack, found>>

\* The outer loop: a principal at the depth cap is not expanded.
Pop ==
    /\ todo = {} /\ stack # <<>>
    /\ stack' = Popped
    /\ current' = Top.id /\ depth' = Top.depth
    /\ todo' = IF Top.depth >= MaxDepth THEN {} ELSE membersOf[Top.id]
    /\ UNCHANGED <<membersOf, found>>

\* The inner loop, on a member met before.
Skip(m) ==
    /\ m \in todo /\ m \in Seen
    /\ todo' = todo \ {m}
    /\ UNCHANGED <<membersOf, stack, current, depth, found>>

\* The inner loop, on a new member: it is found, and expanded later.
Find(m) ==
    /\ m \in todo /\ m \notin Seen
    /\ todo' = todo \ {m}
    /\ found' = found \cup {m}
    /\ stack' = Append(stack, [id |-> m, depth |-> depth + 1])
    /\ UNCHANGED <<membersOf, current, depth>>

Next == Pop \/ \E m \in Nodes : Skip(m) \/ Find(m)

\* The function runs to its end.
Spec == Init /\ [][Next]_vars /\ WF_vars(Next)

Done == stack = <<>> /\ todo = {}

----------------------------------------------------------------------------
(* Properties. *)

\* The shape of the state; nothing is expanded at the depth cap or below.
TypeOK ==
    /\ membersOf \in Tenants
    /\ stack \in Seq(Entry)
    /\ current \in Nodes /\ depth \in Nat
    /\ todo \subseteq Nodes
    /\ todo # {} => depth < MaxDepth
    /\ found \subseteq Nodes

\* A chain of memberships down from the group that meets nobody twice.
IsChain(chain) ==
    /\ Len(chain) > 0
    /\ chain[1] \in membersOf[Group]
    /\ \A k \in 1..(Len(chain) - 1) : chain[k + 1] \in membersOf[chain[k]]
    /\ \A k \in 1..Len(chain) :
        /\ chain[k] # Group
        /\ \A j \in 1..Len(chain) : chain[j] = chain[k] => j = k

Chains(n) == {c \in [1..n -> Nodes] : IsChain(c)}

\* The members of the group without an algorithm: those in every set that
\* holds the group and is closed under membership.
NestedMembers ==
    {m \in Nodes : m # Group /\ \A S \in SUBSET Nodes :
        Group \in S /\ (\A g \in S : membersOf[g] \subseteq S) => m \in S}

\* Whoever is listed in a group really is in it, through at most MaxDepth
\* nested memberships; the group is not listed in itself, cycle or not.
FoundThroughChain ==
    \A m \in found : \E n \in 1..MaxDepth : \E c \in Chains(n) : c[n] = m

\* In a tenant that never nests deeper than the cap, the list is complete.
CompleteWhenShallow == Done /\ Chains(MaxDepth + 1) = {} => found = NestedMembers

\* Cycles of groups do not keep the search going.
Terminates == <> Done

\* The docstring of transitive_members: "Every principal that is a member of
\* ``group_id``, directly or nested", here even if only of those the depth cap
\* admits.  A group first met by a long way is at the cap, is not expanded
\* there, and is not expanded when met by a shorter way either.
FindsNestedMembers ==
    Done => \A n \in 1..MaxDepth : \A c \in Chains(n) : c[n] \in found
=============================================================================
