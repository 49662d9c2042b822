------------------------ MODULE GroupSearchesProofs ------------------------
(* Theorems about the searches down and up the nested groups, for any import, *)
(* depth cap and order: MemberExpansion alone, what membership_cycles reports, *)
(* and, after any import, that the search of the members keeps its promises   *)
(* and agrees with the reports.                                               *)
EXTENDS GroupSearches, SequenceTheorems, WellFoundedInduction, TLAPS

LEMMA TenantFacts ==
    ASSUME membersOf \in Tenants
    PROVE  \A g \in Nodes : membersOf[g] \subseteq Nodes
BY ExpansionAssumption

\* A chain of n memberships is a sequence of length n.
LEMMA ChainLength ==
    ASSUME NEW n \in Nat, NEW c \in [1..n -> Nodes]
    PROVE  c \in Seq(Nodes) /\ Len(c) = n
<1>1. c \in Seq(Nodes)
    BY SeqDef
<1> QED BY <1>1, LenProperties

\* How a principal at depth d is known to be reached: through a chain of d
\* principals that were all found.
ReachedBy(m, d) ==
    \/ d = 0 /\ m = Group
    \/ d \in 1..MaxDepth /\ \E c \in Chains(d) : c[d] = m /\ \A k \in 1..d : c[k] \in found

\* A new member of a reached principal is reached by one membership more.
LEMMA ChainGrows ==
    ASSUME TypeOK, NEW p, NEW d \in 0..MaxDepth, ReachedBy(p, d),
           NEW m \in membersOf[p], m \notin Seen
    PROVE  /\ m \in Nodes
           /\ \E c \in Chains(d + 1) :
                /\ c[d + 1] = m
                /\ \A k \in 1..(d + 1) : c[k] \in found \cup {m}
<1>1. /\ m # Group /\ m \notin found
      /\ Group \in Nodes /\ MaxDepth \in Nat \ {0} /\ d \in Nat
      /\ found \subseteq Nodes
      /\ \A g \in Nodes : membersOf[g] \subseteq Nodes
    BY TenantFacts, ExpansionAssumption DEF TypeOK, Seen
<1>2. CASE d = 0 /\ p = Group
    <2>1. m \in Nodes
        BY <1>1, <1>2
    <2> DEFINE c == [k \in 1..1 |-> m]
    <2>2. c \in [1..1 -> Nodes] /\ c[1] = m
        BY <2>1
    <2>3. Len(c) = 1
        BY <2>2, ChainLength
    <2> HIDE DEF c
    <2>4. IsChain(c)
        BY <1>1, <1>2, <2>2, <2>3 DEF IsChain
    <2> QED BY <1>2, <2>1, <2>2, <2>4 DEF Chains
<1>3. CASE d \in 1..MaxDepth /\ \E c \in Chains(d) : c[d] = p /\ \A k \in 1..d : c[k] \in found
    <2>1. PICK c \in Chains(d) : c[d] = p /\ \A k \in 1..d : c[k] \in found
        BY <1>3
    <2>2. c \in [1..d -> Nodes] /\ IsChain(c) /\ Len(c) = d /\ d \in 1..d
        BY <1>1, <1>3, ChainLength DEF Chains
    <2>3. m \in Nodes
        BY <1>1, <2>1, <2>2
    <2> DEFINE longer == [k \in 1..(d + 1) |-> IF k = d + 1 THEN m ELSE c[k]]
    <2>4. longer \in [1..(d + 1) -> Nodes]
        BY <1>1, <2>2, <2>3
    <2>5. /\ longer[d + 1] = m
          /\ \A k \in 1..d : longer[k] = c[k]
        BY <1>1
    <2>6. Len(longer) = d + 1
        BY <1>1, <2>4, ChainLength
    <2> HIDE DEF longer
    <2>7. longer[1] \in membersOf[Group]
        BY <1>3, <2>2, <2>5 DEF IsChain
    <2>8. ASSUME NEW k \in 1..d PROVE longer[k + 1] \in membersOf[longer[k]]
        <3>1. CASE k = d
            BY <2>1, <2>5, <3>1
        <3>2. CASE k # d
            <4>1. k \in 1..(d - 1) /\ k + 1 \in 1..d
                BY <1>1, <3>2
            <4> QED BY <2>2, <2>5, <4>1 DEF IsChain
        <3> QED BY <3>1, <3>2
    <2>9. ASSUME NEW k \in 1..(d + 1)
          PROVE  /\ longer[k] # Group
                 /\ \A j \in 1..(d + 1) : longer[j] = longer[k] => j = k
        <3>1. \A j \in 1..(d + 1) : j \in 1..d \/ j = d + 1
            BY <1>1
        <3>2. \A j \in 1..d : longer[j] # m /\ longer[j] # Group
            BY <1>1, <2>1, <2>2, <2>5 DEF IsChain
        <3>3. \A i, j \in 1..d : longer[j] = longer[i] => j = i
            BY <2>2, <2>5 DEF IsChain
        <3> QED BY <1>1, <2>5, <3>1, <3>2, <3>3
    <2>10. longer \in Chains(d + 1)
        BY <1>1, <2>4, <2>6, <2>7, <2>8, <2>9 DEF Chains, IsChain
    <2>11. \A k \in 1..(d + 1) : longer[k] \in found \cup {m}
        BY <1>1, <2>1, <2>5
    <2> QED BY <2>3, <2>5, <2>10, <2>11
<1> QED BY <1>2, <1>3 DEF ReachedBy

----------------------------------------------------------------------------
(***************************************************************************)
(* The inductive invariant.                                                *)
(***************************************************************************)

\* Whoever was met and is neither
\* waiting nor being expanded has all its members met.
Waiting(p) == \E i \in 1..Len(stack) : stack[i].id = p

Expanded(p) ==
    \/ membersOf[p] \subseteq Seen
    \/ Waiting(p)
    \/ p = current /\ membersOf[p] \subseteq Seen \cup todo

ExpansionInv ==
    /\ TypeOK
    /\ \A i \in 1..Len(stack) : ReachedBy(stack[i].id, stack[i].depth)
    /\ todo # {} => ReachedBy(current, depth) /\ todo \subseteq membersOf[current]
    /\ FoundThroughChain
    /\ found \subseteq NestedMembers
    /\ Chains(MaxDepth + 1) = {} => \A p \in Seen : Expanded(p)

LEMMA InitExpansionInv == Init => ExpansionInv
<1> SUFFICES ASSUME Init PROVE ExpansionInv
    OBVIOUS
<1>1. /\ Group \in Nodes /\ found = {} /\ Seen = {Group}
      /\ Len(stack) = 1 /\ stack[1].id = Group /\ stack[1].depth = 0
    BY ExpansionAssumption DEF Init, Seen
<1>2. TypeOK
    BY <1>1 DEF Init, TypeOK, Entry
<1>3. \A i \in 1..Len(stack) : ReachedBy(stack[i].id, stack[i].depth)
    BY <1>1 DEF ReachedBy
<1>4. \A p \in Seen : Waiting(p)
    BY <1>1 DEF Waiting
<1> QED BY <1>1, <1>2, <1>3, <1>4 DEF Init, ExpansionInv, FoundThroughChain, Expanded

\* What popping leaves of the stack.
LEMMA PopFacts ==
    ASSUME TypeOK, stack # <<>>
    PROVE  /\ Len(stack) \in Nat \ {0}
           /\ Top \in Entry
           /\ Popped \in Seq(Entry)
           /\ Len(Popped) = Len(stack) - 1
           /\ \A i \in 1..Len(Popped) : i \in 1..Len(stack) /\ Popped[i] = stack[i]
<1>1. stack \in Seq(Entry) /\ Len(stack) \in Nat \ {0}
    BY EmptySeq DEF TypeOK
<1>2. Top \in Entry
    BY <1>1, ElementOfSeq DEF Top
<1> DEFINE n == Len(stack)
<1>3. \A i \in 1..(n - 1) : stack[i] \in Entry
    BY <1>1, ElementOfSeq
<1>4. /\ Popped \in Seq(Entry)
      /\ Len(Popped) = IF 1 <= n - 1 THEN n - 1 - 1 + 1 ELSE 0
      /\ \A i \in 1..(n - 1 - 1 + 1) : Popped[i] = stack[1 + i - 1]
    BY <1>1, <1>3, SubSeqProperties DEF Popped
<1>5. n \in Nat \ {0}
    BY <1>1
<1> HIDE DEF n
<1>6. Len(Popped) = n - 1
    BY <1>4, <1>5
<1>7. ASSUME NEW i \in 1..(n - 1) PROVE Popped[i] = stack[i]
    <2>1. i \in 1..(n - 1 - 1 + 1) /\ 1 + i - 1 = i
        BY <1>5
    <2> QED BY <1>4, <2>1
<1>8. \A i \in 1..(n - 1) : i \in 1..n
    BY <1>5
<1> QED BY <1>1, <1>2, <1>4, <1>6, <1>7, <1>8 DEF n

LEMMA PopExpansionInv ==
    ASSUME ExpansionInv, Pop
    PROVE  ExpansionInv'
<1>1. /\ TypeOK /\ todo = {} /\ stack # <<>>
      /\ stack' = Popped
      /\ current' = Top.id /\ depth' = Top.depth
      /\ todo' = IF Top.depth >= MaxDepth THEN {} ELSE membersOf[Top.id]
      /\ UNCHANGED <<membersOf, found>>
    BY DEF ExpansionInv, Pop
<1>2. /\ Len(stack) \in Nat \ {0}
      /\ Top \in Entry
      /\ Popped \in Seq(Entry)
      /\ Len(Popped) = Len(stack) - 1
      /\ \A i \in 1..Len(Popped) : i \in 1..Len(stack) /\ Popped[i] = stack[i]
    BY <1>1, PopFacts
<1>3. /\ Top.id \in Nodes /\ Top.depth \in Nat
      /\ membersOf[Top.id] \subseteq Nodes
      /\ MaxDepth \in Nat \ {0}
    BY <1>1, <1>2, TenantFacts, ExpansionAssumption DEF Entry, TypeOK
<1>4. TypeOK'
    BY <1>1, <1>2, <1>3 DEF TypeOK
<1>5. (\A m, d : ReachedBy(m, d)' = ReachedBy(m, d)) /\ Seen' = Seen
    BY <1>1 DEF ReachedBy, Chains, IsChain, Seen
<1>6. ReachedBy(Top.id, Top.depth)
    BY <1>2 DEF ExpansionInv, Top
<1>7. \A i \in 1..Len(stack') : ReachedBy(stack'[i].id, stack'[i].depth)
    BY <1>1, <1>2 DEF ExpansionInv
<1>8. todo' # {} => todo' \subseteq membersOf'[current']
    BY <1>1
<1>9. FoundThroughChain' /\ (found \subseteq NestedMembers)'
    BY <1>1 DEF ExpansionInv, FoundThroughChain, Chains, IsChain, NestedMembers
<1>10. Chains(MaxDepth + 1)' = Chains(MaxDepth + 1)
    BY <1>1 DEF Chains, IsChain
<1>11. ASSUME Chains(MaxDepth + 1) = {}, NEW p \in Seen PROVE Expanded(p)'
    <2>1. CASE membersOf[p] \subseteq Seen
        BY <1>1, <1>5, <2>1 DEF Expanded
    <2>2. CASE p = current /\ membersOf[p] \subseteq Seen \cup todo
        BY <1>1, <1>5, <2>2 DEF Expanded
    <2>3. CASE Waiting(p) /\ p # Top.id
        <3>1. PICK i \in 1..Len(stack) : stack[i].id = p
            BY <2>3 DEF Waiting
        <3>2. i \in 1..Len(Popped)
            BY <1>2, <2>3, <3>1 DEF Top
        <3> QED BY <1>1, <1>2, <3>1, <3>2 DEF Expanded, Waiting
    <2>4. CASE p = Top.id /\ Top.depth < MaxDepth
        BY <1>1, <1>3, <1>5, <2>4 DEF Expanded
    <2>5. CASE p = Top.id /\ Top.depth >= MaxDepth
        <3>1. Top.depth = MaxDepth /\ Top.depth \in 0..MaxDepth
            BY <1>3, <1>6, <2>5 DEF ReachedBy
        <3>2. ASSUME NEW m \in membersOf[p], m \notin Seen PROVE FALSE
            <4>1. Chains(MaxDepth + 1) # {}
                BY <1>1, <1>6, <2>5, <3>1, <3>2, ChainGrows
            <4> QED BY <1>11, <4>1
        <3> QED BY <1>1, <1>5, <3>2 DEF Expanded
    <2>6. \/ membersOf[p] \subseteq Seen \/ Waiting(p)
          \/ p = current /\ membersOf[p] \subseteq Seen \cup todo
        BY <1>11 DEF ExpansionInv, Expanded
    <2> QED BY <1>3, <2>1, <2>2, <2>3, <2>4, <2>5, <2>6
<1> QED BY <1>1, <1>4, <1>5, <1>6, <1>7, <1>8, <1>9, <1>10, <1>11 DEF ExpansionInv

LEMMA SkipExpansionInv ==
    ASSUME ExpansionInv, NEW m \in Nodes, Skip(m)
    PROVE  ExpansionInv'
<1>1. /\ TypeOK /\ m \in Seen /\ m \in todo
      /\ todo' = todo \ {m}
      /\ UNCHANGED <<membersOf, stack, current, depth, found>>
    BY DEF ExpansionInv, Skip
<1>2. TypeOK'
    BY <1>1 DEF TypeOK
<1>3. (\A p, d : ReachedBy(p, d)' = ReachedBy(p, d)) /\ Seen' = Seen
    BY <1>1 DEF ReachedBy, Chains, IsChain, Seen
<1>4. FoundThroughChain' /\ (found \subseteq NestedMembers)'
    BY <1>1 DEF ExpansionInv, FoundThroughChain, Chains, IsChain, NestedMembers
<1>5. Chains(MaxDepth + 1)' = Chains(MaxDepth + 1)
    BY <1>1 DEF Chains, IsChain
<1>6. ASSUME NEW p \in Seen, Expanded(p) PROVE Expanded(p)'
    BY <1>1, <1>3, <1>6 DEF Expanded, Waiting
<1> QED BY <1>1, <1>2, <1>3, <1>4, <1>5, <1>6 DEF ExpansionInv

LEMMA FindExpansionInv ==
    ASSUME ExpansionInv, NEW m \in Nodes, Find(m)
    PROVE  ExpansionInv'
<1> DEFINE entry == [id |-> m, depth |-> depth + 1]
<1>1. /\ TypeOK /\ m \in todo /\ m \notin Seen
      /\ todo' = todo \ {m}
      /\ found' = found \cup {m}
      /\ stack' = Append(stack, entry)
      /\ UNCHANGED <<membersOf, current, depth>>
    BY DEF ExpansionInv, Find
<1>2. /\ depth \in Nat /\ depth < MaxDepth /\ MaxDepth \in Nat \ {0}
      /\ ReachedBy(current, depth) /\ m \in membersOf[current]
      /\ stack \in Seq(Entry)
    BY <1>1, ExpansionAssumption DEF ExpansionInv, TypeOK
<1>3. /\ entry \in Entry /\ entry.id = m /\ entry.depth = depth + 1
    BY <1>2 DEF Entry
<1> HIDE DEF entry
<1>4. /\ stack' \in Seq(Entry)
      /\ Len(stack) \in Nat /\ Len(stack') = Len(stack) + 1
      /\ stack'[Len(stack) + 1] = entry
      /\ \A i \in 1..Len(stack) : stack'[i] = stack[i]
    BY <1>1, <1>2, <1>3, AppendProperties, LenProperties
<1>5. PICK c \in Chains(depth + 1) :
          /\ c[depth + 1] = m
          /\ \A k \in 1..(depth + 1) : c[k] \in found \cup {m}
    <2>1. depth \in 0..MaxDepth
        BY <1>2
    <2> QED BY <1>1, <1>2, <2>1, ChainGrows
<1>6. TypeOK'
    BY <1>1, <1>4 DEF TypeOK
<1>7. (\A n : Chains(n)' = Chains(n)) /\ Seen' = Seen \cup {m} /\ NestedMembers' = NestedMembers
    BY <1>1 DEF Chains, IsChain, Seen, NestedMembers
<1>8. \A p, d : ReachedBy(p, d) => ReachedBy(p, d)'
    BY <1>1, <1>7 DEF ReachedBy
<1>9. /\ depth + 1 \in 1..MaxDepth
      /\ \A d : d = depth + 1 => ReachedBy(m, d)'
    BY <1>1, <1>2, <1>5, <1>7 DEF ReachedBy
<1>10. ASSUME NEW i \in 1..Len(stack'), NEW p, NEW d, p = stack'[i].id, d = stack'[i].depth
       PROVE  ReachedBy(p, d)'
    <2>1. CASE i \in 1..Len(stack)
        <3>1. ReachedBy(stack[i].id, stack[i].depth) /\ stack'[i] = stack[i]
            BY <1>4, <2>1 DEF ExpansionInv
        <3> QED BY <1>8, <1>10, <3>1
    <2>2. CASE i = Len(stack) + 1
        <3>1. p = m /\ d = depth + 1
            BY <1>3, <1>4, <1>10, <2>2
        <3>2. depth' = depth
            BY <1>1
        <3> QED BY <1>9, <3>1, <3>2
    <2> QED BY <1>4, <2>1, <2>2
<1>11. FoundThroughChain'
    <2>1. \E n \in 1..MaxDepth : \E d \in Chains(n) : d[n] = m
        BY <1>5, <1>9
    <2> QED BY <1>1, <1>7, <2>1 DEF ExpansionInv, FoundThroughChain
<1>12. m \in NestedMembers
    <2>1. current \in Seen
        BY <1>2 DEF ReachedBy, Seen
    <2>2. m # Group
        BY <1>1 DEF Seen
    <2>3. ASSUME NEW S \in SUBSET Nodes, Group \in S, \A g \in S : membersOf[g] \subseteq S
          PROVE  m \in S
        <3>1. current \in S
            BY <2>1, <2>3 DEF ExpansionInv, NestedMembers, Seen
        <3> QED BY <1>2, <2>3, <3>1
    <2> QED BY <2>2, <2>3 DEF NestedMembers
<1>13. (found \subseteq NestedMembers)'
    BY <1>1, <1>7, <1>12 DEF ExpansionInv
<1>14. todo' # {} => ReachedBy(current, depth)' /\ todo' \subseteq membersOf[current]
    BY <1>1, <1>2, <1>8 DEF ExpansionInv
<1>15. ASSUME NEW p \in Seen', p # m => Expanded(p) PROVE Expanded(p)'
    <2>1. CASE p = m
        <3>1. Len(stack) + 1 \in 1..Len(stack') /\ stack'[Len(stack) + 1].id = m
            BY <1>3, <1>4
        <3> QED BY <2>1, <3>1 DEF Expanded, Waiting
    <2>2. CASE p # m /\ Waiting(p)
        <3>1. PICK i \in 1..Len(stack) : stack[i].id = p
            BY <2>2 DEF Waiting
        <3>2. i \in 1..Len(stack') /\ stack'[i].id = p
            BY <1>4, <3>1
        <3> QED BY <3>2 DEF Expanded, Waiting
    <2>3. CASE p # m /\ membersOf[p] \subseteq Seen
        BY <1>1, <1>7, <2>3 DEF Expanded
    <2>4. CASE p # m /\ p = current /\ membersOf[p] \subseteq Seen \cup todo
        BY <1>1, <1>7, <2>4 DEF Expanded
    <2> QED BY <1>15, <2>1, <2>2, <2>3, <2>4 DEF Expanded
<1> QED BY <1>1, <1>6, <1>7, <1>10, <1>11, <1>13, <1>14, <1>15 DEF ExpansionInv

LEMMA NextExpansionInv == ExpansionInv /\ [Next]_vars => ExpansionInv'
<1> SUFFICES ASSUME ExpansionInv, [Next]_vars PROVE ExpansionInv'
    OBVIOUS
<1>1. ASSUME NEW m \in Nodes, Skip(m) PROVE ExpansionInv'
    BY <1>1, SkipExpansionInv
<1>2. ASSUME NEW m \in Nodes, Find(m) PROVE ExpansionInv'
    BY <1>2, FindExpansionInv
<1>3. CASE UNCHANGED vars
    <2>1. (\A n : Chains(n)' = Chains(n)) /\ Seen' = Seen /\ NestedMembers' = NestedMembers
        BY <1>3 DEF vars, Chains, IsChain, Seen, NestedMembers
    <2>2. \A p, d : ReachedBy(p, d)' = ReachedBy(p, d)
        BY <1>3, <2>1 DEF vars, ReachedBy
    <2>3. \A p : Expanded(p)' = Expanded(p)
        BY <1>3, <2>1 DEF vars, Expanded, Waiting
    <2>4. TypeOK' /\ FoundThroughChain'
        BY <1>3, <2>1 DEF vars, ExpansionInv, TypeOK, FoundThroughChain
    <2> QED BY <1>3, <2>1, <2>2, <2>3, <2>4 DEF vars, ExpansionInv
<1> QED BY <1>1, <1>2, <1>3, PopExpansionInv DEF Next

THEOREM ExpansionInvariant == Spec => []ExpansionInv
<1> QED BY InitExpansionInv, NextExpansionInv, PTL DEF Spec

\* Nothing is ever expanded at the depth cap or below.
THEOREM ExpansionTypeCorrect == Spec => []TypeOK
<1>1. ExpansionInv => TypeOK
    BY DEF ExpansionInv
<1> QED BY <1>1, ExpansionInvariant, PTL

\* In any tenant, whoever is listed is a nested member within the depth cap.
THEOREM ExpansionSound == Spec => []FoundThroughChain
<1>1. ExpansionInv => FoundThroughChain
    BY DEF ExpansionInv
<1> QED BY <1>1, ExpansionInvariant, PTL

LEMMA ExpandedIsComplete == ExpansionInv => CompleteWhenShallow
<1> SUFFICES ASSUME ExpansionInv, stack = <<>>, todo = {}, Chains(MaxDepth + 1) = {}
             PROVE  NestedMembers \subseteq found
    BY DEF CompleteWhenShallow, Done, ExpansionInv
<1>1. Len(stack) = 0
    BY EmptySeq
<1>2. \A p \in Seen : membersOf[p] \subseteq Seen
    BY <1>1 DEF ExpansionInv, Expanded, Waiting
<1>3. Seen \in SUBSET Nodes /\ Group \in Seen
    BY ExpansionAssumption DEF ExpansionInv, TypeOK, Seen
<1> QED BY <1>2, <1>3 DEF NestedMembers, Seen

\* In any tenant where no chain of nested members is longer than the cap,
\* the global set of principals met loses nobody.
THEOREM ExpansionComplete == Spec => []CompleteWhenShallow
<1> QED BY ExpandedIsComplete, ExpansionInvariant, PTL

----------------------------------------------------------------------------
(***************************************************************************)
(* The cycles.                                                             *)
(***************************************************************************)

searches == <<vars, starts, calls, cycles>>

\* A path of walk: up through memberships, meeting no group twice.
IsTrail(path) ==
    /\ path \in Seq(Nodes) /\ Len(path) > 0
    /\ \A j \in 1..(Len(path) - 1) : path[j + 1] \in Cycles!GroupsOf(path[j])
    /\ \A i, j \in 1..Len(path) : path[i] = path[j] => i = j

\* The cycles that membership_cycles must find.
Rings == {c \in Seq(Nodes) : Len(c) \in 1..MaxDepth /\ Cycles!IsCycle(c)}

\* Where a cycle goes on after its k-th group.
Following(c, k) == c[IF k = Len(c) THEN 1 ELSE k + 1]

Along(path, c) == Len(path) <= Len(c) /\ \A j \in 1..Len(path) : path[j] = c[j]

\* A cycle not reported yet will be walked from its first group, or a call
\* that has come along it so far still has to try where it goes on.
Pending(c) ==
    \/ c[1] \in starts
    \/ \E k \in 1..Len(calls) :
        Along(calls[k].path, c) /\ Following(c, Len(calls[k].path)) \in calls[k].todo

Frame == [path : Seq(Nodes), todo : SUBSET Nodes]

CallsInv ==
    /\ membersOf \in [Nodes -> SUBSET Nodes]
    /\ calls \in Seq(Frame)
    /\ \A k \in 1..Len(calls) :
        /\ IsTrail(calls[k].path)
        /\ Len(calls[k].path) <= MaxDepth
        /\ calls[k].todo \subseteq Cycles!GroupsOf(Cycles!Last(calls[k].path))

ReportsInv ==
    /\ \A c \in cycles : c \in Rings
    /\ \A c, d \in cycles : Cycles!OnPath(c) = Cycles!OnPath(d) => c = d
    /\ \A c \in Rings : Cycles!Reported(c) \/ Pending(c)

CyclesInv == CallsInv /\ ReportsInv

LEMMA CapIsPositive == MaxDepth \in Nat \ {0}
BY ExpansionAssumption

\* A function on 1..n is a sequence of length n.
LEMMA RingLength ==
    ASSUME NEW n \in Nat, NEW c \in [1..n -> Nodes]
    PROVE  c \in Seq(Nodes) /\ Len(c) = n
BY ChainLength

LEMMA InitCyclesInv == SearchesInit => CyclesInv
<1> SUFFICES ASSUME SearchesInit PROVE CyclesInv
    OBVIOUS
<1>1. /\ membersOf \in [Nodes -> SUBSET Nodes]
      /\ starts = Cycles!Groups /\ calls = <<>> /\ cycles = {}
    BY ExpansionAssumption DEF SearchesInit, Init, Cycles!Init
<1>2. CallsInv
    BY <1>1 DEF CallsInv
<1>3. ASSUME NEW c \in Rings PROVE c[1] \in starts
    <2>1. c \in Seq(Nodes) /\ Len(c) \in Nat \ {0} /\ Len(c) >= 1
          /\ c[1] \in Cycles!GroupsOf(Cycles!Last(c))
        BY CapIsPositive DEF Rings, Cycles!IsCycle
    <2> QED BY <1>1, <2>1 DEF Cycles!GroupsOf, Cycles!Groups
<1> QED BY <1>1, <1>2, <1>3 DEF CyclesInv, ReportsInv, Pending

\* The innermost call and what moving its loop past g leaves.
LEMMA AdvancedFacts ==
    ASSUME CallsInv, calls # <<>>, NEW g
    PROVE  /\ Len(calls) \in Nat \ {0}
           /\ Cycles!Innermost \in Frame /\ Cycles!Innermost = calls[Len(calls)]
           /\ Cycles!Advanced(g) \in Seq(Frame)
           /\ Len(Cycles!Advanced(g)) = Len(calls)
           /\ \A k \in 1..Len(calls) :
                /\ Cycles!Advanced(g)[k].path = calls[k].path
                /\ Cycles!Advanced(g)[k].todo =
                    IF k = Len(calls) THEN calls[k].todo \ {g} ELSE calls[k].todo
<1>1. calls \in Seq(Frame) /\ Len(calls) \in Nat \ {0} /\ Len(calls) \in 1..Len(calls)
    BY EmptySeq DEF CallsInv
<1>2. calls[Len(calls)] \in Frame
    BY <1>1, ElementOfSeq
<1>3. \A k \in 1..Len(calls) : calls[k] \in Frame
    BY <1>1, ElementOfSeq
<1> DEFINE last == [calls[Len(calls)] EXCEPT !.todo = @ \ {g}]
<1>4. last \in Frame /\ last.path = calls[Len(calls)].path /\ last.todo = calls[Len(calls)].todo \ {g}
    BY <1>2 DEF Frame
<1>5. Cycles!Advanced(g) = [calls EXCEPT ![Len(calls)] = last]
    BY DEF Cycles!Advanced
<1> HIDE DEF last
<1>6. /\ Cycles!Advanced(g) \in Seq(Frame)
      /\ Len(Cycles!Advanced(g)) = Len(calls)
      /\ \A k \in 1..Len(calls) :
            Cycles!Advanced(g)[k] = IF k = Len(calls) THEN last ELSE calls[k]
    BY <1>1, <1>4, <1>5, ExceptSeq
<1> QED BY <1>1, <1>2, <1>4, <1>6 DEF Cycles!Innermost

\* The memberships do not change, and what is said of them neither.
LEMMA SameMemberships ==
    ASSUME membersOf' = membersOf
    PROVE  /\ \A n : Cycles!GroupsOf(n)' = Cycles!GroupsOf(n)
           /\ \A path : IsTrail(path)' = IsTrail(path)
           /\ Rings' = Rings
<1>1. \A n : Cycles!GroupsOf(n)' = Cycles!GroupsOf(n)
    BY DEF Cycles!GroupsOf
<1>2. \A path : IsTrail(path)' = IsTrail(path)
    BY <1>1 DEF IsTrail
<1>3. \A path : Cycles!IsCycle(path)' = Cycles!IsCycle(path)
    BY <1>1 DEF Cycles!IsCycle
<1> QED BY <1>1, <1>2, <1>3 DEF Rings

\* A cycle goes on from each of its groups into a group that one is in.
LEMMA RingFacts ==
    ASSUME NEW c \in Rings
    PROVE  /\ c \in Seq(Nodes) /\ Len(c) \in 1..MaxDepth
           /\ \A j \in 1..Len(c) : c[j] \in Nodes
           /\ \A i, j \in 1..Len(c) : c[i] = c[j] => i = j
           /\ \A k \in 1..Len(c) : Following(c, k) \in Cycles!GroupsOf(c[k])
<1>1. c \in Seq(Nodes) /\ Len(c) \in 1..MaxDepth /\ Cycles!IsCycle(c)
    BY DEF Rings
<1>2. \A j \in 1..Len(c) : c[j] \in Nodes
    BY <1>1, ElementOfSeq
<1>3. \A i, j \in 1..Len(c) : c[i] = c[j] => i = j
    BY <1>1 DEF Cycles!IsCycle
<1>4. \A k \in 1..Len(c) : Following(c, k) \in Cycles!GroupsOf(c[k])
    BY <1>1, CapIsPositive DEF Following, Cycles!IsCycle, Cycles!Last
<1> QED BY <1>1, <1>2, <1>3, <1>4

\* What a step must show of the calls it leaves.
LEMMA LaterCalls ==
    ASSUME CallsInv, membersOf' = membersOf, calls' \in Seq(Frame),
           \A k \in 1..Len(calls') :
                /\ IsTrail(calls'[k].path)
                /\ Len(calls'[k].path) <= MaxDepth
                /\ calls'[k].todo \subseteq Cycles!GroupsOf(Cycles!Last(calls'[k].path))
    PROVE  CallsInv'
BY DEF CallsInv, IsTrail, Cycles!GroupsOf, Cycles!Last

LEMMA StartKeepsInv ==
    ASSUME CyclesInv, NEW g \in Nodes, Cycles!Start(g)
    PROVE  CyclesInv'
<1>1. /\ calls = <<>> /\ g \in starts /\ starts' = starts \ {g}
      /\ calls' = <<Cycles!Call(<<g>>)>>
      /\ membersOf' = membersOf /\ cycles' = cycles
    BY DEF Cycles!Start
<1> DEFINE call == [path |-> <<g>>, todo |-> Cycles!GroupsOf(g)]
<1>2. /\ <<g>> \in Seq(Nodes) /\ Len(<<g>>) = 1 /\ <<g>>[1] = g
      /\ Cycles!Last(<<g>>) = g
    BY DEF Cycles!Last
<1>3. /\ call \in Frame /\ call.path = <<g>> /\ call.todo = Cycles!GroupsOf(g)
      /\ calls' = <<call>>
    BY <1>1, <1>2 DEF Cycles!Call, Cycles!GroupsOf, Frame
<1> HIDE DEF call
<1>4. calls' \in Seq(Frame) /\ Len(calls') = 1 /\ calls'[1] = call
    BY <1>3
<1>5. IsTrail(<<g>>)
    BY <1>2 DEF IsTrail
<1>6. CallsInv'
    <2>1. 1 <= MaxDepth /\ Len(<<g>>) <= MaxDepth
          /\ Cycles!GroupsOf(g) \subseteq Cycles!GroupsOf(Cycles!Last(<<g>>))
        BY <1>2, CapIsPositive
    <2>2. ASSUME NEW k \in 1..Len(calls')
          PROVE  /\ IsTrail(calls'[k].path) /\ Len(calls'[k].path) <= MaxDepth
                 /\ calls'[k].todo \subseteq Cycles!GroupsOf(Cycles!Last(calls'[k].path))
        <3>1. calls'[k].path = <<g>> /\ calls'[k].todo = Cycles!GroupsOf(g)
            BY <1>3, <1>4
        <3> QED BY <1>5, <2>1, <3>1
    <2>3. CallsInv /\ membersOf' = membersOf /\ calls' \in Seq(Frame)
        BY <1>1, <1>4 DEF CyclesInv
    <2> HIDE DEF CyclesInv
    <2> QED BY <2>2, <2>3, LaterCalls
<1>7. ASSUME NEW c \in Rings PROVE (Cycles!Reported(c) \/ Pending(c))'
    <2>1. Len(calls) = 0
        BY <1>1
    <2>2. CASE Cycles!Reported(c)
        BY <1>1, <2>2 DEF Cycles!Reported, Cycles!OnPath
    <2>3. CASE c[1] \in starts /\ c[1] # g
        BY <1>1, <2>3 DEF Pending
    <2>4. CASE c[1] = g
        <3>1. Following(c, 1) \in Cycles!GroupsOf(g) /\ Len(c) >= 1
            BY <2>4, RingFacts, CapIsPositive
        <3>2. Along(<<g>>, c)
            BY <1>2, <2>4, <3>1, RingFacts DEF Along
        <3>3. 1 \in 1..Len(calls') /\ calls'[1].path = <<g>>
              /\ calls'[1].todo = Cycles!GroupsOf(g)
            BY <1>3, <1>4
        <3>4. Along(calls'[1].path, c) /\ Following(c, Len(calls'[1].path)) \in calls'[1].todo
            BY <1>2, <3>1, <3>2, <3>3
        <3> QED BY <3>3, <3>4 DEF Pending, Along, Following
    <2> QED BY <2>1, <2>2, <2>3, <2>4 DEF CyclesInv, ReportsInv, Pending
<1>8. ReportsInv'
    BY <1>1, <1>7, SameMemberships DEF CyclesInv, ReportsInv, Cycles!OnPath
<1> QED BY <1>6, <1>8 DEF CyclesInv

\* The path of the innermost call, and the calls once its loop has moved on.
LEMMA InnermostFacts ==
    ASSUME CallsInv, calls # <<>>, NEW g
    PROVE  /\ IsTrail(Cycles!Innermost.path)
           /\ Len(Cycles!Innermost.path) <= MaxDepth
           /\ Cycles!Innermost.todo \subseteq Cycles!GroupsOf(Cycles!Last(Cycles!Innermost.path))
           /\ \A k \in 1..Len(Cycles!Advanced(g)) :
                /\ IsTrail(Cycles!Advanced(g)[k].path)
                /\ Len(Cycles!Advanced(g)[k].path) <= MaxDepth
                /\ Cycles!Advanced(g)[k].todo
                        \subseteq Cycles!GroupsOf(Cycles!Last(Cycles!Advanced(g)[k].path))
<1>1. /\ Len(calls) \in 1..Len(calls)
      /\ Cycles!Innermost = calls[Len(calls)]
      /\ Len(Cycles!Advanced(g)) = Len(calls)
    BY AdvancedFacts
<1>2. ASSUME NEW k \in 1..Len(calls)
      PROVE  /\ IsTrail(calls[k].path) /\ Len(calls[k].path) <= MaxDepth
             /\ calls[k].todo \subseteq Cycles!GroupsOf(Cycles!Last(calls[k].path))
    BY DEF CallsInv
<1>3. ASSUME NEW k \in 1..Len(Cycles!Advanced(g))
      PROVE  /\ IsTrail(Cycles!Advanced(g)[k].path)
             /\ Len(Cycles!Advanced(g)[k].path) <= MaxDepth
             /\ Cycles!Advanced(g)[k].todo
                    \subseteq Cycles!GroupsOf(Cycles!Last(Cycles!Advanced(g)[k].path))
    <2>1. Cycles!Advanced(g)[k].path = calls[k].path
          /\ Cycles!Advanced(g)[k].todo \subseteq calls[k].todo
        BY <1>1, AdvancedFacts
    <2> QED BY <1>1, <1>2, <2>1
<1> QED BY <1>1, <1>2, <1>3

\* A call along a cycle loses its turn only where the loop passes the turn.
LEMMA StillPending ==
    ASSUME CallsInv, calls # <<>>, NEW g, NEW c, Pending(c)
    PROVE  \/ c[1] \in starts
           \/ \E k \in 1..Len(Cycles!Advanced(g)) :
                /\ Along(Cycles!Advanced(g)[k].path, c)
                /\ Following(c, Len(Cycles!Advanced(g)[k].path)) \in Cycles!Advanced(g)[k].todo
           \/ /\ Along(Cycles!Innermost.path, c)
              /\ Following(c, Len(Cycles!Innermost.path)) = g
<1> SUFFICES ASSUME NEW k \in 1..Len(calls), Along(calls[k].path, c),
                    Following(c, Len(calls[k].path)) \in calls[k].todo
             PROVE  \/ /\ k \in 1..Len(Cycles!Advanced(g))
                       /\ Along(Cycles!Advanced(g)[k].path, c)
                       /\ Following(c, Len(Cycles!Advanced(g)[k].path)) \in Cycles!Advanced(g)[k].todo
                    \/ /\ Along(Cycles!Innermost.path, c)
                       /\ Following(c, Len(Cycles!Innermost.path)) = g
    BY DEF Pending
<1>1. /\ Cycles!Innermost = calls[Len(calls)] /\ Len(Cycles!Advanced(g)) = Len(calls)
      /\ Cycles!Advanced(g)[k].path = calls[k].path
      /\ Cycles!Advanced(g)[k].todo = IF k = Len(calls) THEN calls[k].todo \ {g} ELSE calls[k].todo
    BY AdvancedFacts
<1>2. CASE k = Len(calls) /\ Following(c, Len(calls[k].path)) = g
    BY <1>1, <1>2
<1>3. CASE ~ (k = Len(calls) /\ Following(c, Len(calls[k].path)) = g)
    BY <1>1, <1>3
<1> QED BY <1>2, <1>3

\* What is cut off the path where the walk comes back to it is a cycle.
LEMMA LoopIsRing ==
    ASSUME NEW path, IsTrail(path), Len(path) <= MaxDepth,
           NEW g \in Cycles!OnPath(path), g \in Cycles!GroupsOf(Cycles!Last(path))
    PROVE  /\ Cycles!Loop(path, g) \in Rings
           /\ g = path[1] =>
                /\ Len(Cycles!Loop(path, g)) = Len(path)
                /\ \A j \in 1..Len(path) : Cycles!Loop(path, g)[j] = path[j]
<1> DEFINE start == CHOOSE k \in 1..Len(path) : path[k] = g
           loop == SubSeq(path, start, Len(path))
<1>1. start \in 1..Len(path) /\ path[start] = g
    BY DEF Cycles!OnPath
<1>2. Cycles!Loop(path, g) = loop
    BY DEF Cycles!Loop
<1> HIDE DEF start
<1>3. path \in Seq(Nodes) /\ Len(path) \in Nat \ {0}
      /\ \A j \in 1..Len(path) : path[j] \in Nodes
    <2>1. path \in Seq(Nodes) /\ Len(path) > 0
        BY DEF IsTrail
    <2> QED BY <2>1, ElementOfSeq
<1>4. /\ loop \in Seq(Nodes) /\ Len(loop) = Len(path) - start + 1
      /\ \A j \in 1..(Len(path) - start + 1) : loop[j] = path[start + j - 1]
    BY <1>1, <1>3, SubSeqProperties
<1> HIDE DEF loop
<1>5. Len(loop) \in 1..MaxDepth
    BY <1>1, <1>3, <1>4, CapIsPositive
<1>6. loop[1] = g /\ Cycles!Last(loop) = Cycles!Last(path)
    BY <1>1, <1>3, <1>4 DEF Cycles!Last
<1>7. \A j \in 1..(Len(loop) - 1) : loop[j + 1] \in Cycles!GroupsOf(loop[j])
    <2> SUFFICES ASSUME NEW j \in 1..(Len(loop) - 1)
                 PROVE  loop[j + 1] \in Cycles!GroupsOf(loop[j])
        OBVIOUS
    <2>1. /\ loop[j] = path[start + j - 1] /\ loop[j + 1] = path[start + j]
          /\ start + j - 1 \in 1..(Len(path) - 1) /\ (start + j - 1) + 1 = start + j
        BY <1>1, <1>3, <1>4
    <2>2. path[(start + j - 1) + 1] \in Cycles!GroupsOf(path[start + j - 1])
        BY <2>1 DEF IsTrail
    <2> QED BY <2>1, <2>2
<1>8. \A i, j \in 1..Len(loop) : loop[i] = loop[j] => i = j
    <2> SUFFICES ASSUME NEW i \in 1..Len(loop), NEW j \in 1..Len(loop), loop[i] = loop[j]
                 PROVE  i = j
        OBVIOUS
    <2>1. /\ path[start + i - 1] = path[start + j - 1]
          /\ start + i - 1 \in 1..Len(path) /\ start + j - 1 \in 1..Len(path)
        BY <1>1, <1>3, <1>4
    <2>2. start + i - 1 = start + j - 1
        BY <2>1 DEF IsTrail
    <2> QED BY <1>1, <1>3, <2>2
<1>9. Cycles!IsCycle(loop)
    <2>1. loop # <<>>
        BY <1>5, CapIsPositive
    <2> QED BY <1>6, <1>7, <1>8, <2>1 DEF Cycles!IsCycle
<1>10. ASSUME g = path[1] PROVE start = 1
    BY <1>1, <1>3, <1>10 DEF IsTrail
<1>11. ASSUME g = path[1]
       PROVE  Len(loop) = Len(path) /\ \A j \in 1..Len(path) : loop[j] = path[j]
    BY <1>3, <1>4, <1>10, <1>11
<1> QED BY <1>2, <1>4, <1>5, <1>9, <1>11 DEF Rings

\* Coming back to the path reports the only cycle that the turn was pending
\* for, unless its groups have been reported.
LEMMA CloseKeepsInv ==
    ASSUME CyclesInv, NEW g \in Nodes, Cycles!Close(g)
    PROVE  CyclesInv'
<1> DEFINE path == Cycles!Innermost.path
           loop == Cycles!Loop(path, g)
<1>1. /\ calls # <<>> /\ g \in Cycles!Innermost.todo /\ g \in Cycles!OnPath(path)
      /\ calls' = Cycles!Advanced(g)
      /\ cycles' = cycles \cup {c \in {loop} : ~ Cycles!Reported(c)}
      /\ membersOf' = membersOf /\ starts' = starts
    BY DEF Cycles!Close
<1>2. CallsInv /\ ReportsInv
    BY DEF CyclesInv
<1>3. /\ IsTrail(path) /\ Len(path) <= MaxDepth
      /\ g \in Cycles!GroupsOf(Cycles!Last(path))
    BY <1>1, <1>2, InnermostFacts
<1>4. CallsInv'
    <2>1. calls' \in Seq(Frame)
        BY <1>1, <1>2, AdvancedFacts
    <2>2. \A k \in 1..Len(calls') :
            /\ IsTrail(calls'[k].path)
            /\ Len(calls'[k].path) <= MaxDepth
            /\ calls'[k].todo \subseteq Cycles!GroupsOf(Cycles!Last(calls'[k].path))
        BY <1>1, <1>2, InnermostFacts
    <2> QED BY <1>1, <1>2, <2>1, <2>2, LaterCalls
<1>5. /\ loop \in Rings
      /\ g = path[1] =>
            Len(loop) = Len(path) /\ \A j \in 1..Len(path) : loop[j] = path[j]
    BY <1>1, <1>3, LoopIsRing
<1> HIDE DEF loop, path
<1>6. \A c \in cycles' : c \in Rings
    BY <1>1, <1>2, <1>5 DEF ReportsInv
<1>7. \A c, d \in cycles' : Cycles!OnPath(c) = Cycles!OnPath(d) => c = d
    BY <1>1, <1>2 DEF ReportsInv, Cycles!Reported
<1>8. \E c \in cycles' : Cycles!OnPath(c) = Cycles!OnPath(loop)
    BY <1>1 DEF Cycles!Reported
<1>9. ASSUME NEW c \in Rings PROVE (Cycles!Reported(c) \/ Pending(c))'
    <2>1. CASE Cycles!Reported(c)
        <3>1. \E d \in cycles' : Cycles!OnPath(d) = Cycles!OnPath(c)
            BY <1>1, <2>1 DEF Cycles!Reported
        <3> QED BY <3>1 DEF Cycles!Reported, Cycles!OnPath
    <2>2. CASE c[1] \in starts
        BY <1>1, <2>2 DEF Pending
    <2>3. CASE \E k \in 1..Len(calls') :
                /\ Along(calls'[k].path, c)
                /\ Following(c, Len(calls'[k].path)) \in calls'[k].todo
        BY <2>3 DEF Pending, Along, Following
    <2>4. CASE Along(path, c) /\ Following(c, Len(path)) = g
        <3>1. /\ path \in Seq(Nodes) /\ Len(path) \in Nat \ {0} /\ Len(path) <= Len(c)
              /\ Len(c) \in Nat /\ \A j \in 1..Len(path) : path[j] = c[j]
            BY <1>3, <2>4, RingFacts, CapIsPositive DEF IsTrail, Along
        <3>2. PICK i \in 1..Len(path) : path[i] = g
            BY <1>1 DEF Cycles!OnPath
        <3>3. c[i] = g /\ i \in 1..Len(c)
            BY <3>1, <3>2
        <3>4. Len(path) = Len(c)
            <4> SUFFICES ASSUME Len(path) < Len(c) PROVE FALSE
                BY <3>1
            <4>1. c[Len(path) + 1] = g /\ Len(path) + 1 \in 1..Len(c)
                BY <2>4, <3>1 DEF Following
            <4>2. i = Len(path) + 1
                BY <3>3, <4>1, RingFacts
            <4> QED BY <3>1, <3>2, <4>2
        <3>5. g = path[1]
            BY <2>4, <3>1, <3>4 DEF Following
        <3>6. Cycles!OnPath(loop) = Cycles!OnPath(c)
            BY <1>5, <3>1, <3>4, <3>5 DEF Cycles!OnPath
        <3>7. \E d \in cycles' : Cycles!OnPath(d) = Cycles!OnPath(c)
            BY <1>8, <3>6
        <3> QED BY <3>7 DEF Cycles!Reported, Cycles!OnPath
    <2>5. Cycles!Reported(c) \/ Pending(c)
        BY <1>2 DEF ReportsInv
    <2> QED BY <1>1, <1>2, <2>1, <2>2, <2>3, <2>4, <2>5, StillPending DEF path
<1>10. ReportsInv'
    BY <1>1, <1>6, <1>7, <1>9, SameMemberships DEF ReportsInv, Cycles!OnPath
<1> QED BY <1>4, <1>10 DEF CyclesInv

\* No group of a cycle is met twice before the whole of it has been walked,
\* and so never behind the depth cap: the next call goes on along it.
LEMMA WalkKeepsInv ==
    ASSUME CyclesInv, NEW g \in Nodes, Cycles!Walk(g)
    PROVE  CyclesInv'
<1> DEFINE path == Cycles!Innermost.path
           longer == Append(path, g)
           call == [path |-> longer, todo |-> Cycles!GroupsOf(g)]
           rest == Cycles!Advanced(g)
<1>1. /\ calls # <<>> /\ g \in Cycles!Innermost.todo /\ g \notin Cycles!OnPath(path)
      /\ calls' = IF Len(path) >= MaxDepth THEN rest ELSE Append(rest, Cycles!Call(longer))
      /\ membersOf' = membersOf /\ starts' = starts /\ cycles' = cycles
    BY DEF Cycles!Walk
<1>2. CallsInv /\ ReportsInv
    BY DEF CyclesInv
<1>3. /\ IsTrail(path) /\ Len(path) <= MaxDepth
      /\ g \in Cycles!GroupsOf(Cycles!Last(path))
    BY <1>1, <1>2, InnermostFacts
<1>4. /\ rest \in Seq(Frame)
      /\ \A k \in 1..Len(rest) :
            /\ IsTrail(rest[k].path) /\ Len(rest[k].path) <= MaxDepth
            /\ rest[k].todo \subseteq Cycles!GroupsOf(Cycles!Last(rest[k].path))
    BY <1>1, <1>2, AdvancedFacts, InnermostFacts
<1> HIDE DEF rest, path
<1>5. /\ path \in Seq(Nodes) /\ Len(path) \in Nat \ {0}
      /\ longer \in Seq(Nodes) /\ Len(longer) = Len(path) + 1
      /\ \A j \in 1..Len(path) : longer[j] = path[j]
      /\ longer[Len(path) + 1] = g
    <2>1. path \in Seq(Nodes) /\ Len(path) \in Nat \ {0}
        BY <1>3 DEF IsTrail
    <2> QED BY <2>1, AppendProperties
<1> HIDE DEF longer
<1>6. Cycles!Last(longer) = g /\ call \in Frame
      /\ call.path = longer /\ call.todo = Cycles!GroupsOf(g)
    BY <1>5 DEF Cycles!Last, Frame, Cycles!GroupsOf
<1>7. Cycles!Call(longer) = call
    BY <1>6 DEF Cycles!Call
<1> HIDE DEF call
<1>8. IsTrail(longer)
    <2>1. ASSUME NEW j \in 1..(Len(longer) - 1)
          PROVE  longer[j + 1] \in Cycles!GroupsOf(longer[j])
        <3>1. CASE j = Len(path)
            BY <1>3, <1>5, <3>1 DEF Cycles!Last
        <3>2. CASE j < Len(path)
            <4>1. j \in 1..(Len(path) - 1)
                BY <1>5, <3>2
            <4>2. path[j + 1] \in Cycles!GroupsOf(path[j])
                BY <1>3, <4>1 DEF IsTrail
            <4>3. longer[j] = path[j] /\ longer[j + 1] = path[j + 1]
                BY <1>5, <4>1
            <4> QED BY <4>2, <4>3
        <3> QED BY <1>5, <3>1, <3>2
    <2>2. ASSUME NEW i \in 1..Len(longer), NEW j \in 1..Len(longer), longer[i] = longer[j]
          PROVE  i = j
        <3>1. \A k \in 1..Len(path) : path[k] # g
            BY <1>1 DEF Cycles!OnPath
        <3>2. CASE i \in 1..Len(path) /\ j \in 1..Len(path)
            BY <1>3, <1>5, <2>2, <3>2 DEF IsTrail
        <3>3. CASE i = Len(path) + 1 \/ j = Len(path) + 1
            BY <1>5, <2>2, <3>1, <3>3
        <3> QED BY <1>5, <3>2, <3>3
    <2> QED BY <1>5, <2>1, <2>2 DEF IsTrail
<1>9. CASE Len(path) >= MaxDepth
    <2>1. CallsInv'
        BY <1>1, <1>2, <1>4, <1>9, LaterCalls
    <2>2. ASSUME NEW c \in Rings, Along(path, c), Following(c, Len(path)) = g PROVE FALSE
        <3>1. Len(path) <= Len(c) /\ Len(c) \in 1..MaxDepth /\ path[1] = c[1]
            BY <1>5, <2>2, RingFacts, CapIsPositive DEF Along
        <3>2. g = path[1]
            BY <1>5, <1>9, <2>2, <3>1, CapIsPositive DEF Following
        <3> QED BY <1>1, <1>5, <3>2 DEF Cycles!OnPath
    <2>3. ASSUME NEW c \in Rings PROVE (Cycles!Reported(c) \/ Pending(c))'
        <3>1. CASE Cycles!Reported(c)
            BY <1>1, <3>1 DEF Cycles!Reported, Cycles!OnPath
        <3>2. CASE Pending(c)
            <4>1. CASE c[1] \in starts
                BY <1>1, <4>1 DEF Pending
            <4>2. CASE \E k \in 1..Len(calls') :
                        /\ Along(calls'[k].path, c)
                        /\ Following(c, Len(calls'[k].path)) \in calls'[k].todo
                BY <4>2 DEF Pending, Along, Following
            <4> QED BY <1>1, <1>2, <1>9, <2>2, <3>2, <4>1, <4>2, StillPending DEF rest, path
        <3> QED BY <1>2, <3>1, <3>2 DEF ReportsInv
    <2> QED BY <1>1, <1>2, <2>1, <2>3, SameMemberships DEF CyclesInv, ReportsInv, Cycles!OnPath
<1>10. CASE ~ (Len(path) >= MaxDepth)
    <2>1. /\ calls' \in Seq(Frame) /\ Len(calls') = Len(rest) + 1 /\ Len(rest) \in Nat
          /\ \A k \in 1..Len(rest) : calls'[k] = rest[k]
          /\ calls'[Len(rest) + 1] = call
        BY <1>1, <1>4, <1>6, <1>7, <1>10, AppendProperties
    <2>2. CallsInv'
        <3>1. Len(longer) <= MaxDepth
            BY <1>5, <1>10, CapIsPositive
        <3>2. ASSUME NEW k \in 1..Len(calls')
              PROVE  /\ IsTrail(calls'[k].path) /\ Len(calls'[k].path) <= MaxDepth
                     /\ calls'[k].todo \subseteq Cycles!GroupsOf(Cycles!Last(calls'[k].path))
            <4>1. CASE k = Len(rest) + 1
                <5>1. calls'[k].path = longer /\ calls'[k].todo = Cycles!GroupsOf(g)
                    BY <1>6, <2>1, <4>1
                <5> QED BY <1>6, <1>8, <3>1, <5>1
            <4>2. CASE k \in 1..Len(rest)
                <5>1. calls'[k] = rest[k]
                    BY <2>1, <4>2
                <5> QED BY <1>4, <4>2, <5>1
            <4> QED BY <2>1, <4>1, <4>2
        <3> QED BY <1>1, <1>2, <2>1, <3>2, LaterCalls
    <2>3. ASSUME NEW c \in Rings PROVE (Cycles!Reported(c) \/ Pending(c))'
        <3>1. CASE Cycles!Reported(c)
            BY <1>1, <3>1 DEF Cycles!Reported, Cycles!OnPath
        <3>2. CASE c[1] \in starts
            BY <1>1, <3>2 DEF Pending
        <3>3. CASE \E k \in 1..Len(rest) :
                    Along(rest[k].path, c) /\ Following(c, Len(rest[k].path)) \in rest[k].todo
            <4>1. \E k \in 1..Len(calls') :
                    Along(calls'[k].path, c) /\ Following(c, Len(calls'[k].path)) \in calls'[k].todo
                BY <2>1, <3>3
            <4> QED BY <4>1 DEF Pending, Along, Following
        <3>4. CASE Along(path, c) /\ Following(c, Len(path)) = g
            <4>1. Len(path) <= Len(c) /\ Len(c) \in Nat /\ \A j \in 1..Len(path) : path[j] = c[j]
                BY <3>4, RingFacts, CapIsPositive DEF Along
            <4>2. Len(path) # Len(c)
                <5> SUFFICES ASSUME Len(path) = Len(c) PROVE FALSE
                    OBVIOUS
                <5>1. g = path[1]
                    BY <1>5, <3>4, <4>1 DEF Following
                <5> QED BY <1>1, <1>5, <5>1 DEF Cycles!OnPath
            <4>3. c[Len(path) + 1] = g /\ Len(path) + 1 \in 1..Len(c)
                BY <1>5, <3>4, <4>1, <4>2 DEF Following
            <4>4. Along(longer, c)
                BY <1>5, <4>1, <4>3 DEF Along
            <4>5. Following(c, Len(longer)) \in Cycles!GroupsOf(g)
                BY <1>5, <4>3, RingFacts
            <4>6. Len(rest) + 1 \in 1..Len(calls') /\ calls'[Len(rest) + 1].path = longer
                  /\ calls'[Len(rest) + 1].todo = Cycles!GroupsOf(g)
                BY <1>6, <2>1
            <4>7. Along(calls'[Len(rest) + 1].path, c)
                  /\ Following(c, Len(calls'[Len(rest) + 1].path)) \in calls'[Len(rest) + 1].todo
                BY <4>4, <4>5, <4>6
            <4> QED BY <4>6, <4>7 DEF Pending, Along, Following
        <3>5. Cycles!Reported(c) \/ Pending(c)
            BY <1>2 DEF ReportsInv
        <3> QED BY <1>1, <1>2, <3>1, <3>2, <3>3, <3>4, <3>5, StillPending DEF rest, path
    <2> QED BY <1>1, <1>2, <2>2, <2>3, SameMemberships DEF CyclesInv, ReportsInv, Cycles!OnPath
<1> QED BY <1>9, <1>10

LEMMA ReturnKeepsInv == CyclesInv /\ Cycles!Return => CyclesInv'
<1> SUFFICES ASSUME CyclesInv, Cycles!Return PROVE CyclesInv'
    OBVIOUS
<1>1. /\ calls # <<>> /\ Cycles!Innermost.todo = {}
      /\ calls' = SubSeq(calls, 1, Len(calls) - 1)
      /\ membersOf' = membersOf /\ starts' = starts /\ cycles' = cycles
    BY DEF Cycles!Return
<1>2. CallsInv /\ ReportsInv
    BY DEF CyclesInv
<1>3. /\ calls \in Seq(Frame) /\ Len(calls) \in Nat \ {0}
      /\ \A k \in 1..Len(calls) : calls[k] \in Frame
    BY <1>1, <1>2, EmptySeq, ElementOfSeq DEF CallsInv
<1>4. /\ calls' \in Seq(Frame) /\ Len(calls') = Len(calls) - 1
      /\ \A k \in 1..(Len(calls) - 1) : calls'[k] = calls[k]
    <2> DEFINE n == Len(calls) - 1
    <2>1. n \in Int /\ n \in Nat /\ 1 \in Int /\ \A k \in 1..n : calls[k] \in Frame
        BY <1>3
    <2> HIDE DEF n
    <2>2. /\ SubSeq(calls, 1, n) \in Seq(Frame)
          /\ Len(SubSeq(calls, 1, n)) = IF 1 <= n THEN n - 1 + 1 ELSE 0
          /\ \A k \in 1..(n - 1 + 1) : SubSeq(calls, 1, n)[k] = calls[1 + k - 1]
        BY <2>1, SubSeqProperties
    <2>3. \A k \in 1..n : SubSeq(calls, 1, n)[k] = calls[k]
        BY <2>1, <2>2
    <2>4. Len(SubSeq(calls, 1, n)) = n
        BY <2>1, <2>2
    <2>5. calls' = SubSeq(calls, 1, n)
        BY <1>1 DEF n
    <2> QED BY <2>2, <2>3, <2>4, <2>5 DEF n
<1>5. CallsInv'
    <2>1. ASSUME NEW k \in 1..Len(calls')
          PROVE  /\ IsTrail(calls'[k].path) /\ Len(calls'[k].path) <= MaxDepth
                 /\ calls'[k].todo \subseteq Cycles!GroupsOf(Cycles!Last(calls'[k].path))
        <3>1. calls'[k] = calls[k] /\ k \in 1..Len(calls)
            BY <1>3, <1>4
        <3> QED BY <1>2, <3>1 DEF CallsInv
    <2> QED BY <1>1, <1>2, <1>4, <2>1, LaterCalls
<1>6. ASSUME NEW c \in Rings PROVE (Cycles!Reported(c) \/ Pending(c))'
    <2>1. CASE Cycles!Reported(c)
        BY <1>1, <2>1 DEF Cycles!Reported, Cycles!OnPath
    <2>2. CASE c[1] \in starts
        BY <1>1, <2>2 DEF Pending
    <2>3. CASE \E k \in 1..Len(calls) :
                Along(calls[k].path, c) /\ Following(c, Len(calls[k].path)) \in calls[k].todo
        <3>1. PICK k \in 1..Len(calls) :
                Along(calls[k].path, c) /\ Following(c, Len(calls[k].path)) \in calls[k].todo
            BY <2>3
        <3>2. k # Len(calls)
            BY <1>1, <3>1 DEF Cycles!Innermost
        <3>3. k \in 1..Len(calls') /\ calls'[k] = calls[k]
            BY <1>3, <1>4, <3>2
        <3>4. Along(calls'[k].path, c) /\ Following(c, Len(calls'[k].path)) \in calls'[k].todo
            BY <3>1, <3>3
        <3> QED BY <3>3, <3>4 DEF Pending, Along, Following
    <2> QED BY <1>2, <2>1, <2>2, <2>3 DEF ReportsInv, Pending
<1>7. ReportsInv'
    BY <1>1, <1>2, <1>6, SameMemberships DEF ReportsInv, Cycles!OnPath
<1> QED BY <1>5, <1>7 DEF CyclesInv

LEMMA NextCyclesInv == CyclesInv /\ [SearchesNext]_searches => CyclesInv'
<1> SUFFICES ASSUME CyclesInv, [SearchesNext]_searches PROVE CyclesInv'
    OBVIOUS
<1>1. CASE LookForCycles
    <2>1. Cycles!Next
        BY <1>1 DEF LookForCycles
    <2> QED BY <2>1, StartKeepsInv, CloseKeepsInv, WalkKeepsInv, ReturnKeepsInv DEF Cycles!Next
<1>2. ASSUME membersOf' = membersOf, starts' = starts, calls' = calls, cycles' = cycles
      PROVE  CyclesInv'
    <2>1. CallsInv'
        BY <1>2, LaterCalls DEF CyclesInv, CallsInv
    <2>2. \A c : Pending(c)' = Pending(c) /\ Cycles!Reported(c)' = Cycles!Reported(c)
        BY <1>2 DEF Pending, Along, Following, Cycles!Reported, Cycles!OnPath
    <2> QED BY <1>2, <2>1, <2>2, SameMemberships DEF CyclesInv, ReportsInv, Cycles!OnPath
<1>3. CASE ListMembers
    <2>1. membersOf' = membersOf
        BY <1>3 DEF ListMembers, Next, Pop, Skip, Find
    <2> QED BY <1>2, <1>3, <2>1 DEF ListMembers
<1>4. CASE UNCHANGED searches
    BY <1>2, <1>4 DEF searches, vars
<1> QED BY <1>1, <1>3, <1>4 DEF SearchesNext

\* Nothing waits when the walks are over.
LEMMA DoneIsReported ==
    ASSUME CyclesInv, Cycles!Done, NEW c \in Rings
    PROVE  Cycles!Reported(c)
<1>1. Len(calls) = 0 /\ starts = {}
    BY EmptySeq DEF Cycles!Done
<1> QED BY <1>1 DEF CyclesInv, ReportsInv, Pending

\* In any tenant and for any cap: what the import warns of is a cycle, no set
\* of groups is reported twice, and in the end every cycle within the cap is
\* accounted for.
THEOREM CycleReportsAreExact == SearchesSpec => []CyclesAreExact
<1>1. CyclesInv => CyclesAreExact
    <2> SUFFICES ASSUME CyclesInv PROVE CyclesAreExact
        OBVIOUS
    <2>1. \A c \in cycles : Cycles!IsCycle(c) /\ Len(c) <= MaxDepth
        <3>1. ASSUME NEW c \in Rings PROVE Cycles!IsCycle(c) /\ Len(c) <= MaxDepth
            BY CapIsPositive DEF Rings
        <3> QED BY <3>1 DEF CyclesInv, ReportsInv
    <2>2. \A c, d \in cycles : Cycles!OnPath(c) = Cycles!OnPath(d) => c = d
        BY DEF CyclesInv, ReportsInv
    <2>3. ASSUME Cycles!Done, NEW n \in 1..MaxDepth, NEW c \in [1..n -> Nodes], Cycles!IsCycle(c)
          PROVE  Cycles!Reported(c)
        <3>1. c \in Rings
            BY <2>3, RingLength, CapIsPositive DEF Rings
        <3> QED BY <2>3, <3>1, DoneIsReported
    <2> QED BY <2>1, <2>2, <2>3 DEF CyclesAreExact, Cycles!CyclesAreExact
<1>2. SearchesInit => CyclesInv
    BY InitCyclesInv
<1> QED BY <1>1, <1>2, NextCyclesInv, PTL DEF SearchesSpec, searches

\* The search of the members is undisturbed by the search for cycles.
LEMMA SearchesStepsList == [SearchesNext]_searches => [Next]_vars
BY DEF SearchesNext, LookForCycles, ListMembers, Cycles!Next, Cycles!Start, Cycles!Close,
       Cycles!Walk, Cycles!Return, searches, vars, search

LEMMA ListInvariant == SearchesSpec => []ExpansionInv
<1>1. SearchesInit => ExpansionInv
    BY InitExpansionInv DEF SearchesInit
<1>2. ExpansionInv /\ [SearchesNext]_searches => ExpansionInv'
    BY SearchesStepsList, NextExpansionInv
<1> QED BY <1>1, <1>2, PTL DEF SearchesSpec, searches

\* After any import, whoever the page of a group lists is in the group,
\* through no more nested memberships than the cap.
THEOREM PageListsMembers == SearchesSpec => []FoundThroughChain
<1>1. ExpansionInv => FoundThroughChain
    BY DEF ExpansionInv
<1> QED BY <1>1, ListInvariant, PTL

\* After any import that nests no deeper than the cap, the page is complete.
THEOREM PageIsComplete == SearchesSpec => []CompleteWhenShallow
<1> QED BY ExpandedIsComplete, ListInvariant, PTL

----------------------------------------------------------------------------
(***************************************************************************)
(* The reports and the page of a group agree.  A cycle through the group   *)
(* leads back, against the memberships, from the group to all that are on  *)
(* it; a member of the group that the group is in closes the chain it was  *)
(* found by to a cycle.                                                    *)
(***************************************************************************)

\* A set of naturals that is not empty has a least element.
LEMMA LeastOf ==
    ASSUME NEW T \in SUBSET Nat, T # {}
    PROVE  \E m \in T : \A n \in T : m <= n
<1>1. PICK m \in T : \A n \in T : ~ (<<n, m>> \in OpToRel(<, Nat))
    BY NatLessThanWellFounded, WFMin
<1>2. ASSUME NEW n \in T PROVE m <= n
    <2>1. ~ (n < m)
        BY <1>1 DEF OpToRel
    <2> QED BY <2>1
<1> QED BY <1>2

\* From one of a cycle back to its first.
LEMMA BackAlongRing ==
    ASSUME membersOf \in [Nodes -> SUBSET Nodes], NEW c \in Rings, NEW S,
           \A p \in S : membersOf[p] \subseteq S,
           NEW n \in 1..Len(c), c[n] \in S
    PROVE  \A k \in 1..n : c[k] \in S
<1>1. Len(c) \in 1..MaxDepth /\ MaxDepth \in Nat \ {0}
      /\ \A k \in 1..Len(c) : Following(c, k) \in Cycles!GroupsOf(c[k])
    BY RingFacts, CapIsPositive
<1>2. \A k \in 1..(n - 1) : k \in 1..Len(c) /\ Following(c, k) = c[k + 1]
    BY <1>1 DEF Following
<1> DEFINE T == {i \in 0..(n - 1) : c[n - i] \notin S}
<1>3. T = {}
    <2> SUFFICES ASSUME T # {} PROVE FALSE
        OBVIOUS
    <2>1. T \in SUBSET Nat
        BY <1>1
    <2>2. PICK i \in T : \A j \in T : i <= j
        BY <2>1, LeastOf
    <2>3. i \in 0..(n - 1) /\ c[n - i] \notin S /\ i # 0
        BY <1>1
    <2> DEFINE k == n - i
    <2>4. k \in 1..(n - 1) /\ i - 1 \in 0..(n - 1) /\ n - (i - 1) = k + 1 /\ i - 1 < i
        BY <1>1, <2>3
    <2>5. c[k + 1] \in S
        BY <2>2, <2>3, <2>4
    <2>6. c[k] \in membersOf[c[k + 1]]
        BY <1>1, <1>2, <2>4 DEF Cycles!GroupsOf
    <2> QED BY <2>3, <2>5, <2>6
<1>4. ASSUME NEW k \in 1..n PROVE c[k] \in S
    <2>1. n - k \in 0..(n - 1) /\ n - (n - k) = k
        BY <1>1
    <2> QED BY <1>3, <2>1
<1> QED BY <1>4

\* A set that is closed under membership holds all of a cycle or none.
LEMMA AroundRing ==
    ASSUME membersOf \in [Nodes -> SUBSET Nodes], NEW c \in Rings, NEW S,
           \A p \in S : membersOf[p] \subseteq S,
           NEW n \in 1..Len(c), c[n] \in S
    PROVE  \A k \in 1..Len(c) : c[k] \in S
<1>1. Len(c) \in 1..Len(c) /\ 1 \in 1..n
    BY RingFacts, CapIsPositive
<1>2. c[1] \in S
    BY <1>1, BackAlongRing
<1>3. c[Len(c)] \in membersOf[c[1]]
    BY <1>1, RingFacts DEF Following, Cycles!GroupsOf
<1>4. c[Len(c)] \in S
    BY <1>2, <1>3
<1> QED BY <1>1, <1>4, BackAlongRing

\* A search that refused nobody at the cap has met the members of all it met.
LEMMA MetIsClosed ==
    ASSUME ExpansionInv, Done, Chains(MaxDepth) = {}
    PROVE  \A p \in Seen : membersOf[p] \subseteq Seen
<1>1. Len(stack) = 0 /\ todo = {}
    BY EmptySeq DEF Done
<1>2. Chains(MaxDepth + 1) = {}
    <2> SUFFICES ASSUME NEW c \in Chains(MaxDepth + 1) PROVE FALSE
        OBVIOUS
    <2>1. MaxDepth \in Nat \ {0}
        BY ExpansionAssumption
    <2>2. c \in [1..(MaxDepth + 1) -> Nodes] /\ IsChain(c) /\ Len(c) = MaxDepth + 1
        BY <2>1, ChainLength DEF Chains
    <2> DEFINE d == [k \in 1..MaxDepth |-> c[k]]
    <2>3. d \in [1..MaxDepth -> Nodes] /\ \A k \in 1..MaxDepth : d[k] = c[k]
        BY <2>1, <2>2
    <2> HIDE DEF d
    <2>4. Len(d) = MaxDepth
        BY <2>1, <2>3, ChainLength
    <2>5. IsChain(d)
        BY <2>1, <2>2, <2>3, <2>4 DEF IsChain
    <2>6. d \in Chains(MaxDepth)
        BY <2>3, <2>5 DEF Chains
    <2> QED BY <2>6
<1>3. \A p \in Seen : Expanded(p)
    BY <1>2 DEF ExpansionInv
<1> QED BY <1>1, <1>3 DEF Expanded, Waiting

\* The chain from the group down to a member that the group is in, read
\* upwards from the group, is a cycle.
LEMMA ChainCloses ==
    ASSUME membersOf \in [Nodes -> SUBSET Nodes],
           NEW n \in 1..(MaxDepth - 1), NEW c \in Chains(n), Group \in membersOf[c[n]]
    PROVE  \E ring \in Rings : ring[1] = Group
<1>1. MaxDepth \in Nat \ {0} /\ Group \in Nodes /\ n \in Nat
    BY ExpansionAssumption
<1>2. c \in [1..n -> Nodes] /\ IsChain(c) /\ Len(c) = n
    BY <1>1, ChainLength DEF Chains
<1> DEFINE ring == [j \in 1..(n + 1) |-> IF j = 1 THEN Group ELSE c[n + 2 - j]]
<1>3. /\ ring \in [1..(n + 1) -> Nodes]
      /\ ring[1] = Group
      /\ \A j \in 2..(n + 1) : n + 2 - j \in 1..n /\ ring[j] = c[n + 2 - j]
    BY <1>1, <1>2
<1> HIDE DEF ring
<1>4. ring \in Seq(Nodes) /\ Len(ring) = n + 1
    BY <1>1, <1>3, RingLength
<1>5. Len(ring) \in 1..MaxDepth
    BY <1>1, <1>4
<1>6. ring[1] \in Cycles!GroupsOf(Cycles!Last(ring))
    <2>1. n + 1 \in 2..(n + 1) /\ n + 2 - (n + 1) = 1
        BY <1>1
    <2>2. Cycles!Last(ring) = c[1]
        BY <1>3, <1>4, <2>1 DEF Cycles!Last
    <2> QED BY <1>1, <1>2, <1>3, <2>2 DEF IsChain, Cycles!GroupsOf
<1>7. ASSUME NEW k \in 1..n PROVE ring[k + 1] \in Cycles!GroupsOf(ring[k])
    <2>1. k + 1 \in 2..(n + 1) /\ n + 2 - (k + 1) = n + 1 - k /\ n + 1 - k \in 1..n
        BY <1>1
    <2>2. ring[k + 1] = c[n + 1 - k] /\ c[n + 1 - k] \in Nodes
        BY <1>2, <1>3, <2>1
    <2>3. CASE k = 1
        <3>1. n + 1 - k = n
            BY <1>1, <2>3
        <3> QED BY <1>3, <2>2, <2>3, <3>1 DEF Cycles!GroupsOf
    <2>4. CASE k # 1
        <3>1. k \in 2..(n + 1) /\ n + 1 - k \in 1..(n - 1) /\ (n + 1 - k) + 1 = n + 2 - k
            BY <1>1, <2>4
        <3>2. c[n + 2 - k] \in membersOf[c[n + 1 - k]]
            BY <1>2, <3>1 DEF IsChain
        <3> QED BY <1>3, <2>2, <3>1, <3>2 DEF Cycles!GroupsOf
    <2> QED BY <2>3, <2>4
<1>8. ASSUME NEW j \in 1..(n + 1), NEW k \in 1..(n + 1), ring[j] = ring[k] PROVE j = k
    <2>1. \A i \in 1..(n + 1) : i = 1 \/ i \in 2..(n + 1)
        BY <1>1
    <2>2. \A i \in 1..n : c[i] # Group
        BY <1>2 DEF IsChain
    <2>3. \A h, i \in 1..n : c[h] = c[i] => h = i
        BY <1>2 DEF IsChain
    <2>4. CASE j = 1 \/ k = 1
        BY <1>3, <1>8, <2>1, <2>2, <2>4
    <2>5. CASE j # 1 /\ k # 1
        <3>1. j \in 2..(n + 1) /\ k \in 2..(n + 1)
            BY <2>1, <2>5
        <3>2. n + 2 - j = n + 2 - k
            BY <1>3, <1>8, <2>3, <3>1
        <3> QED BY <1>1, <3>2
    <2> QED BY <2>4, <2>5
<1>9. ring # <<>>
    BY <1>1, <1>4, EmptySeq
<1>10. \A k \in 1..(Len(ring) - 1) : ring[k + 1] \in Cycles!GroupsOf(ring[k])
    BY <1>1, <1>4, <1>7
<1>11. Cycles!IsCycle(ring)
    BY <1>4, <1>6, <1>8, <1>9, <1>10 DEF Cycles!IsCycle
<1> QED BY <1>3, <1>4, <1>5, <1>11 DEF Rings

\* The import page and the page of a group agree, in every tenant and whatever
\* the order: of a group that nests below the cap, a warning of a cycle names
\* it exactly if it is a member of somebody its page lists.
THEOREM WarningAgreesWithPage == SearchesSpec => []WarnedAboutItself
<1>1. ASSUME CyclesInv, ExpansionInv, Cycles!Done, Done, Chains(MaxDepth) = {}
      PROVE  (\E c \in cycles : Group \in Cycles!OnPath(c)) <=> \E m \in found : Group \in membersOf[m]
    <2>1. /\ membersOf \in [Nodes -> SUBSET Nodes]
          /\ \A n \in Nodes : n \notin membersOf[n]
          /\ MaxDepth \in Nat \ {0} /\ Group \in Nodes
        BY <1>1, ExpansionAssumption DEF ExpansionInv, TypeOK
    <2>2. ASSUME NEW c \in cycles, Group \in Cycles!OnPath(c)
          PROVE  \E m \in found : Group \in membersOf[m]
        <3>1. c \in Rings
            BY <1>1 DEF CyclesInv, ReportsInv
        <3>2. PICK g \in 1..Len(c) : c[g] = Group
            BY <2>2 DEF Cycles!OnPath
        <3>3. \A k \in 1..Len(c) : c[k] \in Seen
            BY <1>1, <2>1, <3>1, <3>2, MetIsClosed, AroundRing DEF Seen
        <3> DEFINE m == Following(c, g)
        <3>4. m \in Cycles!GroupsOf(Group)
            BY <3>1, <3>2, RingFacts
        <3>5. m \in Seen
            <4>1. (IF g = Len(c) THEN 1 ELSE g + 1) \in 1..Len(c)
                BY <2>1, <3>1, RingFacts
            <4> QED BY <3>3, <4>1 DEF Following
        <3>6. Group \in membersOf[m] /\ m \in Nodes
            BY <3>4 DEF Cycles!GroupsOf
        <3> HIDE DEF m
        <3>7. m # Group
            BY <2>1, <3>6
        <3> QED BY <3>5, <3>6, <3>7 DEF Seen
    <2>3. ASSUME NEW m \in found, Group \in membersOf[m]
          PROVE  \E c \in cycles : Group \in Cycles!OnPath(c)
        <3>1. PICK n \in 1..MaxDepth : \E c \in Chains(n) : c[n] = m
            BY <1>1 DEF ExpansionInv, FoundThroughChain
        <3>2. PICK c \in Chains(n) : c[n] = m
            BY <3>1
        <3>3. n \in 1..(MaxDepth - 1)
            BY <1>1, <2>1, <3>2
        <3>4. PICK ring \in Rings : ring[1] = Group
            BY <2>1, <2>3, <3>2, <3>3, ChainCloses
        <3>5. Cycles!Reported(ring)
            BY <1>1, <3>4, DoneIsReported
        <3>6. Group \in Cycles!OnPath(ring)
            <4>1. 1 \in 1..Len(ring)
                BY <2>1, <3>4, RingFacts
            <4> QED BY <3>4, <4>1 DEF Cycles!OnPath
        <3> QED BY <3>5, <3>6 DEF Cycles!Reported
    <2> QED BY <2>2, <2>3
<1>2. CyclesInv /\ ExpansionInv => WarnedAboutItself
    BY <1>1 DEF WarnedAboutItself
<1>3. SearchesSpec => []CyclesInv
    BY InitCyclesInv, NextCyclesInv, PTL DEF SearchesSpec, searches
<1> QED BY <1>2, <1>3, ListInvariant, PTL
=============================================================================
