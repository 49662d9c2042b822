----------------------------- MODULE ScopeTree -----------------------------
(***************************************************************************)
(* Inheritance questions over the imported scopes (domain/hierarchy.py):   *)
(* ancestors climbs from a target, descendants goes down from the scope an *)
(* assignment is made at, and covers decides from the climb whether that   *)
(* assignment reaches the target.  One state per loop iteration.           *)
(*                                                                         *)
(* The parent of a management group is what the import file says: it need  *)
(* not be imported, and the groups may form a cycle or name themselves.    *)
(***************************************************************************)
EXTENDS Integers, Sequences, Functions

CONSTANTS
    Scopes,     \* normalized scope ids
    NoScope,    \* None, which is no scope
    Estates     \* graph.scopes of the imports: the parent of each imported
                \* scope, which is a scope or None

VARIABLES
    parentOf,   \* graph.scopes
    origin,     \* the scope of the assignment
    target,     \* the scope it may or may not reach
    node,       \* ancestors: the scope climbed to, NoScope once the loop is left
    above,      \* ancestors: out
    queue,      \* descendants: queue.  Its order is that of the imported rows
                \* and only decides the order of out: here any order is taken
    below       \* descendants: out, without the scope itself

vars == <<parentOf, origin, target, node, above, queue, below>>

Imported == DOMAIN parentOf

\* Mutant: only imported scopes are given children.
ChildrenOfImported(s) == {c \in Imported : parentOf[c] = s /\ s \in Imported}

\* children_by_scope: a parent that was not imported has children too.
Children(s) == {c \in Imported : parentOf[c] = s}

\* graph.scopes.get
Node(s) == IF s \in Imported THEN s ELSE NoScope

\* Mutant: the scope climbed from is not remembered.
SeenAboveOnly == Range(above)

\* ancestors: seen.
SeenAbove == {target} \cup Range(above)

\* Mutant: the scope the search starts from is not remembered.
SeenBelowOnly == Range(below)

\* descendants: seen.
SeenBelow == {origin} \cup Range(below)

Init ==
    /\ parentOf \in Estates
    /\ origin \in Scopes /\ target \in Scopes
    /\ node = Node(target)
    /\ above = <<>>
    /\ queue = Children(origin)
    /\ below = <<>>

\* The loop condition of ancestors, and its break on a cycle.
CanClimb ==
    /\ node # NoScope
    /\ parentOf[node] # NoScope
    /\ parentOf[node] \notin SeenAbove

\* Mutant: a parent that was never imported is listed as well.
ClimbToMissing ==
    /\ CanClimb
    /\ node' = Node(parentOf[node])
    /\ above' = Append(above, parentOf[node])
    /\ UNCHANGED <<parentOf, origin, target, queue, below>>

\* An iteration of ancestors: the parent is listed if it was imported.
Climb ==
    /\ CanClimb
    /\ node' = Node(parentOf[node])
    /\ above' = IF node' = NoScope THEN above ELSE Append(above, node')
    /\ UNCHANGED <<parentOf, origin, target, queue, below>>

\* ancestors leaves its loop.
Arrive ==
    /\ node # NoScope
    /\ ~ CanClimb
    /\ node' = NoScope
    /\ UNCHANGED <<parentOf, origin, target, above, queue, below>>

\* Mutant: a scope met before is looked at but left in the queue.
PassWithoutPop(s) ==
    /\ s \in queue
    /\ s \in SeenBelow
    /\ UNCHANGED vars

\* An iteration of descendants on a scope met before.
Pass(s) ==
    /\ s \in queue
    /\ s \in SeenBelow
    /\ queue' = queue \ {s}
    /\ UNCHANGED <<parentOf, origin, target, node, above, below>>

\* An iteration of descendants on a new scope: its children wait in turn.
Descend(s) ==
    /\ s \in queue
    /\ s \notin SeenBelow
    /\ queue' = (queue \ {s}) \cup Children(s)
    /\ below' = Append(below, s)
    /\ UNCHANGED <<parentOf, origin, target, node, above>>

Next ==
    \/ Climb
    \/ Arrive
    \/ \E s \in Scopes : Pass(s) \/ Descend(s)

\* Both functions run to their ends.
Spec == Init /\ [][Next]_vars /\ WF_vars(Next)

Done == node = NoScope /\ queue = {}

\* Mutant: an assignment is not inherited at its own scope.
CoversStrictly == origin \in Range(above)

\* covers, once the climb is over.
Covers == origin = target \/ origin \in Range(above)

----------------------------------------------------------------------------
(* Properties. *)

\* The shape of the state: only imported scopes are ever listed or queued.
TypeOK ==
    /\ parentOf \in Estates
    /\ origin \in Scopes /\ target \in Scopes
    /\ node \in Imported \cup {NoScope}
    /\ above \in Seq(Imported)
    /\ queue \subseteq Imported
    /\ below \in Seq(Imported)

\* What inheritance means, without an algorithm: a scope is under s if it is
\* in every set that holds s and, with a scope, all those it is parent of.
Under(s) ==
    {t \in Scopes : \A S \in SUBSET Scopes :
        s \in S /\ (\A c \in Imported : parentOf[c] \in S => c \in S) => t \in S}

\* descendants(include_self=True) is the whole subtree, and nothing else, also
\* where management groups form a cycle: it is the reach shown for a grant.
ReachIsSubtree == queue = {} => {origin} \cup Range(below) = Under(origin)

\* "Applies to N scope(s)" counts no scope twice, nor the scope itself.
ReachCountedOnce ==
    /\ \A i, j \in 1..Len(below) : below[i] = below[j] => i = j
    /\ origin \notin Range(below)

\* The number a grant is shown with is the number of scopes it reaches:
\* descendants lists each of them, and each of them once.
ReachIsExact == ReachCountedOnce /\ ReachIsSubtree

\* scope_chain and the breadcrumbs: the ancestors go up one parent at a time,
\* nearest first, and never come back to a scope.
AncestorsClimb ==
    \A i \in 1..Len(above) :
        /\ above[i] = parentOf[IF i = 1 THEN target ELSE above[i - 1]]
        /\ above[i] # target
        /\ \A j \in 1..Len(above) : above[j] = above[i] => i = j

\* The two answers agree for an assignment at an imported scope: it is listed
\* at a target (access_at_scope) exactly if the target is in the reach that is
\* shown for it (reached_scopes).
CoversMatchesReach ==
    Done /\ origin \in Imported => (Covers <=> target \in {origin} \cup Range(below))

\* A cycle of parents hangs neither function.
Terminates == <> Done

\* domain/hierarchy.py: "An Azure role assignment applies at its scope *and
\* everywhere below it*."  Where the scope itself was not imported, covers
\* denies the scopes below it, which descendants lists.
AppliesEverywhereBelow == Done /\ target \in Range(below) => Covers
=============================================================================
