--------------------------- MODULE ActiveDataset ---------------------------
(***************************************************************************)
(* What the snapshot store promises an operator, with no database row, no  *)
(* flag, no cache and no restart in sight: a library of imported datasets, *)
(* one of which is chosen, and screens that show the chosen one exactly as *)
(* it was imported.  SnapshotStore implements this specification.          *)
(***************************************************************************)
EXTENDS Integers

CONSTANTS
    Datasets,   \* the files an operator can import
    None,       \* no dataset, nothing served yet
    MaxId       \* largest snapshot id the model hands out

VARIABLES
    library,    \* snapshot id -> the dataset imported under it, or None
    chosen,     \* the snapshot the screens read, 0 when there is none
    served      \* <<snapshot, dataset>> shown by the latest screen

vars == <<library, chosen, served>>

Held(lib) == {i \in 1..MaxId : lib[i] # None}

Newest(lib) ==
    IF Held(lib) = {} THEN 0
    ELSE CHOOSE i \in Held(lib) : \A j \in Held(lib) : j <= i

Init ==
    /\ library = [i \in 1..MaxId |-> None]
    /\ chosen = 0
    /\ served = <<0, None>>

\* An import gets an id above every id in use and is chosen at once.
Add(d) ==
    \E i \in 1..MaxId :
        /\ \A j \in Held(library) : j < i
        /\ library' = [library EXCEPT ![i] = d]
        /\ chosen' = i
        /\ UNCHANGED served

Choose(i) ==
    /\ library[i] # None
    /\ chosen' = i
    /\ UNCHANGED <<library, served>>

\* Removing the chosen dataset falls back on the newest one that is left.
Remove(i) ==
    /\ library[i] # None
    /\ library' = [library EXCEPT ![i] = None]
    /\ chosen' = IF chosen = i THEN Newest(library') ELSE chosen
    /\ UNCHANGED served

\* A screen shows the whole chosen dataset and nothing of any other.
Show ==
    /\ chosen # 0
    /\ served' = <<chosen, library[chosen]>>
    /\ UNCHANGED <<library, chosen>>

Next ==
    \/ \E d \in Datasets : Add(d)
    \/ \E i \in 1..MaxId : Choose(i) \/ Remove(i)
    \/ Show

Spec == Init /\ [][Next]_vars
=============================================================================
