------------------------ MODULE MembershipWalkProofs ------------------------
(* Theorems about MembershipWalk for any tenant, caps and iteration order. *)
EXTENDS MembershipWalk, FiniteSetTheorems, SequenceTheorems, TLAPS

(***************************************************************************)
(* The calls under way: the chain of the f-th call has f - 1 groups and is *)
(* a real path, and its loop has only groups of its node left.             *)
(***************************************************************************)
CallsNested ==
    \A f \in 1..Len(stack) :
        /\ Len(stack[f].chain) = f - 1
        /\ f # 1 => IsPath(groupsOf, stack[f].chain)
        /\ stack[f].todo \subseteq groupsOf[Current(stack[f].chain)]

WalkInv == TypeOK /\ CallsNested /\ PathsAreReal

LEMMA TenantType ==
    ASSUME NEW m \in Tenants
    PROVE  m \in [Nodes -> SUBSET Nodes]
BY WalkAssumption

\* What moving the innermost loop past g changes.
LEMMA AdvancedFacts ==
    ASSUME TypeOK, Running, NEW g
    PROVE  /\ Len(stack) \in Nat \ {0}
           /\ Top \in Frame
           /\ Advanced(g) \in Seq(Frame)
           /\ Len(Advanced(g)) = Len(stack)
           /\ \A f \in 1..Len(stack) :
                /\ Advanced(g)[f].chain = stack[f].chain
                /\ Advanced(g)[f].todo =
                     IF f = Len(stack) THEN stack[f].todo \ {g} ELSE stack[f].todo
<1>1. stack \in Seq(Frame) /\ Len(stack) \in Nat \ {0}
    BY EmptySeq DEF TypeOK, Running
<1>2. Top \in Frame
    BY <1>1, ElementOfSeq DEF Top
<1> DEFINE e == [stack[Len(stack)] EXCEPT !.todo = @ \ {g}]
<1>3. /\ e \in Frame
      /\ e.chain = Top.chain
      /\ e.todo = Top.todo \ {g}
    BY <1>2 DEF Frame, Top
<1>4. Advanced(g) = [stack EXCEPT ![Len(stack)] = e]
    BY DEF Advanced
<1> HIDE DEF e
<1>5. /\ Advanced(g) \in Seq(Frame)
      /\ Len(Advanced(g)) = Len(stack)
      /\ \A f \in 1..Len(stack) :
            Advanced(g)[f] = IF f = Len(stack) THEN e ELSE stack[f]
    BY <1>1, <1>3, <1>4, ExceptSeq
<1> QED BY <1>1, <1>2, <1>3, <1>5 DEF Top

\* One more unvisited group makes a longer path.
LEMMA PathGrows ==
    ASSUME WalkInv, Running, NEW g \in Top.todo, g \notin Visited(Top.chain)
    PROVE  /\ g \in Nodes
           /\ Append(Top.chain, g) \in Seq(Nodes)
           /\ Len(Append(Top.chain, g)) = Len(stack)
           /\ IsPath(groupsOf, Append(Top.chain, g))
           /\ Len(Append(Top.chain, g)) <= MaxDepth
<1> DEFINE c == Top.chain
           p == Append(c, g)
<1>1. /\ Len(stack) \in Nat \ {0}
      /\ Top = stack[Len(stack)]
      /\ c \in Seq(Nodes)
      /\ Top.todo \subseteq Nodes
    BY AdvancedFacts DEF WalkInv, Frame, Top
<1>2. /\ Len(c) = Len(stack) - 1
      /\ Len(stack) # 1 => IsPath(groupsOf, c)
      /\ g \in groupsOf[Current(c)]
      /\ Len(c) < MaxDepth
    <2>1. Len(stack) \in 1..Len(stack)
        BY <1>1
    <2>2. /\ Len(stack[Len(stack)].chain) = Len(stack) - 1
          /\ Len(stack) # 1 => IsPath(groupsOf, stack[Len(stack)].chain)
          /\ stack[Len(stack)].todo \subseteq groupsOf[Current(stack[Len(stack)].chain)]
        BY <2>1 DEF WalkInv, CallsNested
    <2>3. Len(stack[Len(stack)].chain) < MaxDepth
        BY <2>1 DEF WalkInv, TypeOK
    <2> QED BY <1>1, <2>2, <2>3
<1>3. /\ g \in Nodes
      /\ p \in Seq(Nodes)
      /\ Len(p) = Len(c) + 1
      /\ p[Len(c) + 1] = g
      /\ \A k \in 1..Len(c) : p[k] = c[k]
    BY <1>1
<1>4. g # Principal /\ \A k \in 1..Len(c) : c[k] # g
    BY DEF Visited
<1>5. Len(c) \in Nat /\ (Len(c) = 0 <=> c = <<>>)
    BY <1>1, EmptySeq
<1> HIDE DEF c, p
<1>6. IsPath(groupsOf, p)
    <2>1. CASE Len(c) = 0
        <3>1. Len(p) = 1 /\ p[1] = g /\ g \in groupsOf[Principal]
            BY <1>2, <1>3, <1>5, <2>1 DEF Current
        <3> QED BY <1>3, <1>4, <3>1 DEF IsPath
    <2>2. CASE Len(c) # 0
        <3>1. IsPath(groupsOf, c) /\ Current(c) = c[Len(c)]
            BY <1>1, <1>2, <1>5, <2>2 DEF Current
        <3>2. p # <<>> /\ p[1] \in groupsOf[Principal]
            BY <1>3, <1>5, <2>2, <3>1 DEF IsPath
        <3>3. \A k \in 1..(Len(p) - 1) : p[k + 1] \in groupsOf[p[k]]
            BY <1>2, <1>3, <1>5, <2>2, <3>1 DEF IsPath
        <3>4. \A k \in 1..Len(p) :
                  /\ p[k] # Principal
                  /\ \A j \in 1..Len(p) : p[j] = p[k] => j = k
            BY <1>3, <1>4, <1>5, <3>1 DEF IsPath
        <3> QED BY <3>2, <3>3, <3>4 DEF IsPath
    <2> QED BY <2>1, <2>2
<1>7. Len(p) = Len(stack) /\ Len(p) <= MaxDepth
    BY <1>1, <1>2, <1>3, <1>5, WalkAssumption
<1> QED BY <1>3, <1>6, <1>7 DEF c, p

\* A call under way on a chain of real memberships.
LEMMA CallFacts ==
    ASSUME groupsOf \in Tenants, NEW chain \in Seq(Nodes)
    PROVE  /\ Call(chain) \in Frame
           /\ Call(chain).chain = chain
           /\ Call(chain).todo = groupsOf[Current(chain)]
<1>1. Current(chain) \in Nodes
    BY EmptySeq, WalkAssumption DEF Current
<1>2. groupsOf[Current(chain)] \in SUBSET Nodes
    BY <1>1, TenantType
<1> QED BY <1>2 DEF Call, Frame

LEMMA InitWalkInv == Init => WalkInv
<1> SUFFICES ASSUME Init PROVE WalkInv
    OBVIOUS
<1>1. <<>> \in Seq(Nodes) /\ Len(<<>>) = 0
    BY EmptySeq
<1>2. /\ groupsOf \in Tenants
      /\ stack = <<Call(<<>>)>>
      /\ Call(<<>>) \in Frame
      /\ Call(<<>>).chain = <<>>
      /\ Call(<<>>).todo = groupsOf[Current(<<>>)]
    BY <1>1, CallFacts DEF Init
<1>3. stack \in Seq(Frame) /\ Len(stack) = 1 /\ stack[1] = Call(<<>>)
    BY <1>2
<1>4. TypeOK
    BY <1>1, <1>2, <1>3, WalkAssumption DEF Init, TypeOK
<1>5. CallsNested
    BY <1>1, <1>2, <1>3 DEF CallsNested
<1>6. PathsAreReal
    BY DEF Init, PathsAreReal
<1> QED BY <1>4, <1>5, <1>6 DEF WalkInv

LEMMA SkipWalkInv ==
    ASSUME WalkInv, NEW g \in Nodes, Skip(g)
    PROVE  WalkInv'
<1>1. TypeOK /\ Running /\ stack' = Advanced(g) /\ UNCHANGED <<groupsOf, results>>
    BY DEF WalkInv, Skip
<1>2. /\ Len(stack') = Len(stack)
      /\ \A f \in 1..Len(stack) :
            /\ stack'[f].chain = stack[f].chain
            /\ stack'[f].todo \subseteq stack[f].todo
    <2>1. \A f \in 1..Len(stack) :
            /\ Advanced(g)[f].chain = stack[f].chain
            /\ Advanced(g)[f].todo =
                 IF f = Len(stack) THEN stack[f].todo \ {g} ELSE stack[f].todo
        BY <1>1, AdvancedFacts
    <2> QED BY <1>1, <2>1, AdvancedFacts
<1>3. TypeOK'
    BY <1>1, <1>2, AdvancedFacts DEF TypeOK
<1>4. CallsNested'
    <2> SUFFICES ASSUME NEW f \in 1..Len(stack')
                 PROVE  /\ Len(stack'[f].chain) = f - 1
                        /\ f # 1 => IsPath(groupsOf', stack'[f].chain)
                        /\ stack'[f].todo \subseteq groupsOf'[Current(stack'[f].chain)]
        BY DEF CallsNested, Current
    <2>1. f \in 1..Len(stack) /\ stack'[f].chain = stack[f].chain
                             /\ stack'[f].todo \subseteq stack[f].todo
        BY <1>2
    <2>2. /\ Len(stack[f].chain) = f - 1
          /\ f # 1 => IsPath(groupsOf, stack[f].chain)
          /\ stack[f].todo \subseteq groupsOf[Current(stack[f].chain)]
        BY <2>1 DEF WalkInv, CallsNested
    <2> QED BY <1>1, <2>1, <2>2
<1>5. PathsAreReal'
    BY <1>1 DEF WalkInv, PathsAreReal, IsPath
<1> QED BY <1>3, <1>4, <1>5 DEF WalkInv

\* Returning drops the innermost call.
LEMMA ReturnFacts ==
    ASSUME TypeOK, Return
    PROVE  /\ Len(stack) \in Nat \ {0}
           /\ stack' \in Seq(Frame)
           /\ Len(stack') = Len(stack) - 1
           /\ \A f \in 1..Len(stack') : f \in 1..Len(stack) /\ stack'[f] = stack[f]
           /\ UNCHANGED <<groupsOf, results>>
<1>1. /\ stack \in Seq(Frame) /\ Len(stack) \in Nat \ {0}
      /\ stack' = SubSeq(stack, 1, Len(stack) - 1)
      /\ UNCHANGED <<groupsOf, results>>
    BY EmptySeq DEF TypeOK, Return, Running
<1>2. /\ stack' \in Seq(Frame)
      /\ Len(stack') = Len(stack) - 1
      /\ \A f \in 1..Len(stack') : f \in 1..Len(stack) /\ stack'[f] = stack[f]
    <2>1. \A f \in 1..(Len(stack) - 1) : f \in 1..Len(stack) /\ stack[f] \in Frame
        BY <1>1, ElementOfSeq
    <2> DEFINE popped == SubSeq(stack, 1, Len(stack) - 1)
    <2>2. /\ popped \in Seq(Frame)
          /\ Len(popped) = IF 1 <= Len(stack) - 1 THEN (Len(stack) - 1) - 1 + 1 ELSE 0
          /\ \A f \in 1..((Len(stack) - 1) - 1 + 1) : popped[f] = stack[1 + f - 1]
        BY <1>1, <2>1, SubSeqProperties
    <2> HIDE DEF popped
    <2>3. stack' = popped
        BY <1>1 DEF popped
    <2>4. /\ Len(stack') = Len(stack) - 1
          /\ \A f \in 1..(Len(stack) - 1) : stack'[f] = stack[f]
        <3>1. Len(popped) = Len(stack) - 1
            <4>1. Len(popped) = IF 1 <= Len(stack) - 1 THEN (Len(stack) - 1) - 1 + 1 ELSE 0
                BY <2>2
            <4> DEFINE n == Len(stack)
            <4>2. n \in Nat \ {0}
                BY <1>1
            <4> HIDE DEF n
            <4>3. (IF 1 <= n - 1 THEN (n - 1) - 1 + 1 ELSE 0) = n - 1
                BY <4>2
            <4> QED BY <4>1, <4>3 DEF n
        <3>2. ASSUME NEW f \in 1..(Len(stack) - 1) PROVE popped[f] = stack[f]
            <4>1. f \in 1..((Len(stack) - 1) - 1 + 1) /\ 1 + f - 1 = f
                BY <1>1
            <4> QED BY <2>2, <4>1
        <3> QED BY <2>3, <3>1, <3>2
    <2> QED BY <2>1, <2>2, <2>3, <2>4
<1> QED BY <1>1, <1>2

LEMMA ReturnWalkInv ==
    ASSUME WalkInv, Return
    PROVE  WalkInv'
<1>1. TypeOK
    BY DEF WalkInv
<1>2. /\ stack' \in Seq(Frame)
      /\ \A f \in 1..Len(stack') : f \in 1..Len(stack) /\ stack'[f] = stack[f]
      /\ UNCHANGED <<groupsOf, results>>
    BY <1>1, ReturnFacts
<1>3. TypeOK'
    BY <1>1, <1>2 DEF WalkInv, TypeOK
<1>4. CallsNested'
    <2> SUFFICES ASSUME NEW f \in 1..Len(stack')
                 PROVE  /\ Len(stack'[f].chain) = f - 1
                        /\ f # 1 => IsPath(groupsOf', stack'[f].chain)
                        /\ stack'[f].todo \subseteq groupsOf'[Current(stack'[f].chain)]
        BY DEF CallsNested, Current
    <2>1. f \in 1..Len(stack) /\ stack'[f].chain = stack[f].chain
                             /\ stack'[f].todo \subseteq stack[f].todo
        BY <1>2
    <2>2. /\ Len(stack[f].chain) = f - 1
          /\ f # 1 => IsPath(groupsOf, stack[f].chain)
          /\ stack[f].todo \subseteq groupsOf[Current(stack[f].chain)]
        BY <2>1 DEF WalkInv, CallsNested
    <2> QED BY <1>2, <2>1, <2>2
<1>5. PathsAreReal'
    BY <1>2 DEF WalkInv, PathsAreReal, IsPath
<1> QED BY <1>3, <1>4, <1>5 DEF WalkInv

\* Recording a path keeps the earlier ones, and moves the innermost loop on;
\* the call on the new path either starts or is refused.
LEMMA ExtendFacts ==
    ASSUME WalkInv, NEW g \in Nodes, Extend(g), NEW path, path = Append(Top.chain, g)
    PROVE  /\ Len(stack) \in Nat \ {0} /\ Len(results) \in Nat
           /\ results' \in Seq(Seq(Nodes))
           /\ Len(results') = Len(results) + 1
           /\ results'[Len(results) + 1] = path
           /\ \A r \in 1..Len(results) : results'[r] = results[r]
           /\ stack' \in Seq(Frame)
           /\ \A f \in 1..Len(stack) :
                /\ stack'[f].chain = stack[f].chain
                /\ stack'[f].todo =
                     IF f = Len(stack) THEN stack[f].todo \ {g} ELSE stack[f].todo
           /\ \/ Len(stack') = Len(stack) /\ Refused(path, Len(results'))
              \/ /\ Len(stack') = Len(stack) + 1
                 /\ ~ Refused(path, Len(results'))
                 /\ stack'[Len(stack) + 1].chain = path
                 /\ stack'[Len(stack) + 1].todo = groupsOf[Current(path)]
<1>1. /\ TypeOK /\ Running
      /\ g \in Top.todo /\ g \notin Visited(Top.chain)
      /\ results' = Append(results, path)
      /\ stack' = IF Refused(path, Len(results')) THEN Advanced(g)
                  ELSE Append(Advanced(g), Call(path))
    BY DEF WalkInv, Extend
<1>2. path \in Seq(Nodes)
    BY <1>1, PathGrows
<1>3. results \in Seq(Seq(Nodes)) /\ groupsOf \in Tenants
    BY <1>1 DEF TypeOK
<1>4. /\ results' \in Seq(Seq(Nodes))
      /\ Len(results') = Len(results) + 1
      /\ results'[Len(results) + 1] = path
      /\ \A r \in 1..Len(results) : results'[r] = results[r]
      /\ Len(results) \in Nat
    BY <1>1, <1>2, <1>3, AppendProperties, LenProperties
<1> DEFINE adv == Advanced(g)
<1>5. /\ Len(stack) \in Nat \ {0}
      /\ adv \in Seq(Frame)
      /\ Len(adv) = Len(stack)
      /\ \A f \in 1..Len(stack) :
           /\ adv[f].chain = stack[f].chain
           /\ adv[f].todo =
                IF f = Len(stack) THEN stack[f].todo \ {g} ELSE stack[f].todo
    BY <1>1, AdvancedFacts
<1>6. /\ Call(path) \in Frame
      /\ Call(path).chain = path
      /\ Call(path).todo = groupsOf[Current(path)]
    BY <1>2, <1>3, CallFacts
<1> HIDE DEF adv
<1>7. /\ Append(adv, Call(path)) \in Seq(Frame)
      /\ Len(Append(adv, Call(path))) = Len(stack) + 1
      /\ Append(adv, Call(path))[Len(stack) + 1] = Call(path)
      /\ \A f \in 1..Len(stack) : Append(adv, Call(path))[f] = adv[f]
    BY <1>5, <1>6, AppendProperties
<1>8. CASE Refused(path, Len(results'))
    <2>1. stack' = adv
        BY <1>1, <1>8 DEF adv
    <2> QED BY <1>4, <1>5, <1>8, <2>1
<1>9. CASE ~ Refused(path, Len(results'))
    <2>1. stack' = Append(adv, Call(path))
        BY <1>1, <1>9 DEF adv
    <2> QED BY <1>4, <1>5, <1>6, <1>7, <1>9, <2>1
<1> QED BY <1>8, <1>9

LEMMA ExtendWalkInv ==
    ASSUME WalkInv, NEW g \in Nodes, Extend(g)
    PROVE  WalkInv'
<1> DEFINE path == Append(Top.chain, g)
<1>1. /\ path \in Seq(Nodes)
      /\ Len(path) = Len(stack)
      /\ IsPath(groupsOf, path)
      /\ Len(path) <= MaxDepth
    BY PathGrows DEF Extend
<1>2. UNCHANGED groupsOf
    BY DEF Extend
<1> HIDE DEF path
<1>3. /\ Len(stack) \in Nat \ {0} /\ Len(results) \in Nat
      /\ results' \in Seq(Seq(Nodes))
      /\ Len(results') = Len(results) + 1
      /\ results'[Len(results) + 1] = path
      /\ \A r \in 1..Len(results) : results'[r] = results[r]
      /\ stack' \in Seq(Frame)
    BY ExtendFacts DEF path
<1>4. \A f \in 1..Len(stack) :
         /\ stack'[f].chain = stack[f].chain
         /\ stack'[f].todo \subseteq stack[f].todo
    BY ExtendFacts DEF path
<1>5. \/ Len(stack') = Len(stack)
      \/ /\ Len(stack') = Len(stack) + 1
         /\ ~ Refused(path, Len(results'))
         /\ stack'[Len(stack) + 1].chain = path
         /\ stack'[Len(stack) + 1].todo = groupsOf[Current(path)]
    BY ExtendFacts DEF path
<1>6. PathsAreReal'
    <2>1. ASSUME NEW r \in 1..Len(results')
          PROVE  IsPath(groupsOf, results'[r]) /\ Len(results'[r]) <= MaxDepth
        <3>1. CASE r \in 1..Len(results)
            <4>1. IsPath(groupsOf, results[r]) /\ Len(results[r]) <= MaxDepth
                BY <3>1 DEF WalkInv, PathsAreReal
            <4> QED BY <1>3, <3>1, <4>1
        <3>2. CASE r \notin 1..Len(results)
            <4>1. r = Len(results) + 1
                BY <1>3, <3>2
            <4> QED BY <1>1, <1>3, <4>1
        <3> QED BY <3>1, <3>2
    <2> QED BY <1>2, <2>1 DEF PathsAreReal
<1>7. ASSUME NEW f \in 1..Len(stack')
      PROVE  /\ Len(stack'[f].chain) = f - 1
             /\ f # 1 => IsPath(groupsOf', stack'[f].chain)
             /\ stack'[f].todo \subseteq groupsOf'[Current(stack'[f].chain)]
             /\ Len(stack'[f].chain) < MaxDepth
    <2>1. CASE f \in 1..Len(stack)
        <3>1. /\ Len(stack[f].chain) = f - 1
              /\ f # 1 => IsPath(groupsOf, stack[f].chain)
              /\ stack[f].todo \subseteq groupsOf[Current(stack[f].chain)]
            BY <2>1 DEF WalkInv, CallsNested
        <3>2. Len(stack[f].chain) < MaxDepth
            BY <2>1 DEF WalkInv, TypeOK
        <3> QED BY <1>2, <1>4, <2>1, <3>1, <3>2
    <2>2. CASE f \notin 1..Len(stack)
        <3>1. f = Len(stack) + 1 /\ ~ Refused(path, Len(results'))
            BY <1>3, <1>5, <2>2
        <3>2. stack'[f].chain = path /\ stack'[f].todo = groupsOf[Current(path)]
            BY <1>3, <1>5, <2>2, <3>1
        <3>3. Len(path) < MaxDepth
            BY <1>1, <1>3, <3>1, WalkAssumption DEF Refused
        <3> QED BY <1>1, <1>2, <1>3, <3>1, <3>2, <3>3
    <2> QED BY <2>1, <2>2
<1>8. TypeOK'
    BY <1>2, <1>3, <1>7 DEF WalkInv, TypeOK
<1>9. CallsNested'
    BY <1>7 DEF CallsNested, Current
<1> QED BY <1>6, <1>8, <1>9 DEF WalkInv

LEMMA NextWalkInv == WalkInv /\ [Next]_vars => WalkInv'
<1> SUFFICES ASSUME WalkInv, [Next]_vars PROVE WalkInv'
    OBVIOUS
<1>1. ASSUME NEW g \in Nodes, Skip(g) PROVE WalkInv'
    BY <1>1, SkipWalkInv
<1>2. ASSUME NEW g \in Nodes, Extend(g) PROVE WalkInv'
    BY <1>2, ExtendWalkInv
<1>3. CASE Return
    BY <1>3, ReturnWalkInv
<1>4. CASE UNCHANGED vars
    BY <1>4 DEF vars, WalkInv, TypeOK, CallsNested, PathsAreReal, Current
<1> QED BY <1>1, <1>2, <1>3, <1>4 DEF Next

\* At every moment of a walk, each call under way holds a real chain of
\* memberships, one group longer than the call around it, and has left only
\* groups of the chain's last one; and all that was recorded so far is real.
THEOREM WalkInvariant == Spec => []WalkInv
<1> QED BY InitWalkInv, NextWalkInv, PTL DEF Spec

\* The walk never leaves its types, nor starts a call at the depth cap.
THEOREM WalkTypeCorrect == Spec => []TypeOK
<1>1. WalkInv => TypeOK
    BY DEF WalkInv
<1> QED BY <1>1, WalkInvariant, PTL

\* In any tenant, with cycles of any length and any caps, every path found is
\* a chain of real memberships without repetition and within the depth cap.
THEOREM WalkSound == Spec => []PathsAreReal
<1>1. WalkInv => PathsAreReal
    BY DEF WalkInv
<1> QED BY <1>1, WalkInvariant, PTL

----------------------------------------------------------------------------
(***************************************************************************)
(* Completeness.  While the path cap is not reached, a path within the     *)
(* depth cap has been found or will be: some call under way has a prefix   *)
(* of it as its chain and the next group of it still to try.               *)
(***************************************************************************)
Found(p) == \E r \in 1..Len(results) : results[r] = p

Agrees(chain, p) ==
    /\ Len(chain) < Len(p)
    /\ \A k \in 1..Len(chain) : chain[k] = p[k]

Waiting(p) ==
    \E f \in 1..Len(stack) :
        /\ Agrees(stack[f].chain, p)
        /\ p[Len(stack[f].chain) + 1] \in stack[f].todo

CoverInv == Len(results) < MaxPaths => \A p \in ShortPaths : Found(p) \/ Waiting(p)

LEMMA ShortPathFacts ==
    ASSUME NEW p \in ShortPaths
    PROVE  /\ p \in Seq(Nodes)
           /\ Len(p) \in 1..MaxDepth
           /\ IsPath(groupsOf, p)
<1>1. PICK n \in 1..MaxDepth : p \in [1..n -> Nodes]
    BY DEF ShortPaths
<1>2. n \in Nat
    BY <1>1, WalkAssumption
<1>3. p \in Seq(Nodes)
    BY <1>1, <1>2, SeqDef
<1>4. Len(p) = n
    BY <1>1, <1>2, <1>3, LenProperties
<1> QED BY <1>1, <1>3, <1>4 DEF ShortPaths

\* The next group of a path is not on the part of it already walked.
LEMMA NextGroupUnvisited ==
    ASSUME NEW p \in ShortPaths, NEW chain \in Seq(Nodes), Agrees(chain, p)
    PROVE  /\ p[Len(chain) + 1] \notin Visited(chain)
           /\ p[Len(chain) + 1] \in groupsOf[Current(chain)]
<1>1. /\ Len(p) \in 1..MaxDepth
      /\ IsPath(groupsOf, p)
      /\ Len(chain) \in Nat /\ (Len(chain) = 0 <=> chain = <<>>)
      /\ Len(chain) < Len(p)
      /\ \A k \in 1..Len(chain) : chain[k] = p[k]
    BY ShortPathFacts, EmptySeq, LenProperties DEF Agrees
<1>2. Len(chain) + 1 \in 1..Len(p)
    BY <1>1, WalkAssumption
<1>3. p[Len(chain) + 1] # Principal
    BY <1>1, <1>2 DEF IsPath
<1>4. ASSUME NEW k \in 1..Len(chain) PROVE chain[k] # p[Len(chain) + 1]
    <2>1. k \in 1..Len(p) /\ k # Len(chain) + 1
        BY <1>1, <1>2
    <2> QED BY <1>1, <1>2, <2>1 DEF IsPath
<1>5. CASE chain = <<>>
    <2>1. p[Len(chain) + 1] = p[1] /\ Current(chain) = Principal
        BY <1>1, <1>5 DEF Current
    <2> QED BY <1>1, <1>3, <1>4, <2>1 DEF IsPath, Visited
<1>6. CASE chain # <<>>
    <2>1. Len(chain) \in 1..(Len(p) - 1) /\ Len(chain) \in 1..Len(chain)
        BY <1>1, <1>2, <1>6
    <2>2. Current(chain) = p[Len(chain)]
        BY <1>1, <1>6, <2>1 DEF Current
    <2>3. p[Len(chain) + 1] \in groupsOf[p[Len(chain)]]
        BY <1>1, <2>1 DEF IsPath
    <2> QED BY <1>3, <1>4, <2>2, <2>3 DEF Visited
<1> QED BY <1>5, <1>6

LEMMA InitCover == Init => CoverInv
<1> SUFFICES ASSUME Init, NEW p \in ShortPaths PROVE Waiting(p)
    BY DEF CoverInv
<1>1. <<>> \in Seq(Nodes) /\ Len(<<>>) = 0
    BY EmptySeq
<1>2. /\ Call(<<>>).chain = <<>>
      /\ Call(<<>>).todo = groupsOf[Current(<<>>)]
    BY <1>1, CallFacts DEF Init
<1>3. Agrees(<<>>, p)
    BY <1>1, ShortPathFacts DEF Agrees
<1>4. p[0 + 1] \in groupsOf[Current(<<>>)]
    BY <1>1, <1>3, NextGroupUnvisited
<1>5. Len(stack) = 1 /\ stack[1] = Call(<<>>)
    BY DEF Init
<1> QED BY <1>1, <1>2, <1>3, <1>4, <1>5 DEF Waiting

LEMMA SkipCover ==
    ASSUME WalkInv, CoverInv, NEW g \in Nodes, Skip(g)
    PROVE  CoverInv'
<1>1. /\ TypeOK /\ Running /\ stack' = Advanced(g)
      /\ g \in Visited(Top.chain)
      /\ UNCHANGED <<groupsOf, results>>
    BY DEF WalkInv, Skip
<1>2. /\ Len(stack) \in Nat \ {0}
      /\ Top \in Frame /\ Top = stack[Len(stack)]
      /\ Len(stack') = Len(stack)
      /\ \A f \in 1..Len(stack) :
           /\ stack'[f].chain = stack[f].chain
           /\ stack'[f].todo =
                IF f = Len(stack) THEN stack[f].todo \ {g} ELSE stack[f].todo
    BY <1>1, AdvancedFacts DEF Top
<1>3. ShortPaths' = ShortPaths
    BY <1>1 DEF ShortPaths
<1> SUFFICES ASSUME Len(results) < MaxPaths, NEW p \in ShortPaths
             PROVE  Found(p)' \/ Waiting(p)'
    BY <1>1, <1>3 DEF CoverInv
<1>4. CASE Found(p)
    BY <1>1, <1>4 DEF Found
<1>5. CASE Waiting(p)
    <2>1. PICK f \in 1..Len(stack) :
              /\ Agrees(stack[f].chain, p)
              /\ p[Len(stack[f].chain) + 1] \in stack[f].todo
        BY <1>5 DEF Waiting
    <2>2. f = Len(stack) => p[Len(stack[f].chain) + 1] # g
        <3>1. Top.chain \in Seq(Nodes)
            BY <1>2 DEF Frame
        <3> QED BY <1>1, <1>2, <2>1, <3>1, NextGroupUnvisited
    <2>3. /\ f \in 1..Len(stack')
          /\ Agrees(stack'[f].chain, p)
          /\ p[Len(stack'[f].chain) + 1] \in stack'[f].todo
        BY <1>2, <2>1, <2>2
    <2> QED BY <2>3 DEF Waiting, Agrees
<1> QED BY <1>4, <1>5 DEF CoverInv

LEMMA ReturnCover ==
    ASSUME WalkInv, CoverInv, Return
    PROVE  CoverInv'
<1>1. /\ Len(stack) \in Nat \ {0}
      /\ Len(stack') = Len(stack) - 1
      /\ \A f \in 1..Len(stack') : f \in 1..Len(stack) /\ stack'[f] = stack[f]
      /\ UNCHANGED <<groupsOf, results>>
    BY ReturnFacts DEF WalkInv
<1>2. stack[Len(stack)].todo = {}
    BY DEF Return, Top
<1>3. ShortPaths' = ShortPaths
    BY <1>1 DEF ShortPaths
<1> SUFFICES ASSUME Len(results) < MaxPaths, NEW p \in ShortPaths
             PROVE  Found(p)' \/ Waiting(p)'
    BY <1>1, <1>3 DEF CoverInv
<1>4. CASE Found(p)
    BY <1>1, <1>4 DEF Found
<1>5. CASE Waiting(p)
    <2>1. PICK f \in 1..Len(stack) :
              /\ Agrees(stack[f].chain, p)
              /\ p[Len(stack[f].chain) + 1] \in stack[f].todo
        BY <1>5 DEF Waiting
    <2>2. f \in 1..Len(stack')
        BY <1>1, <1>2, <2>1
    <2>3. /\ Agrees(stack'[f].chain, p)
          /\ p[Len(stack'[f].chain) + 1] \in stack'[f].todo
        BY <1>1, <2>1, <2>2
    <2> QED BY <2>2, <2>3 DEF Waiting, Agrees
<1> QED BY <1>4, <1>5 DEF CoverInv

LEMMA ExtendCover ==
    ASSUME WalkInv, CoverInv, NEW g \in Nodes, Extend(g)
    PROVE  CoverInv'
<1> DEFINE path == Append(Top.chain, g)
<1>1. /\ path \in Seq(Nodes)
      /\ Len(path) = Len(stack)
      /\ Len(path) = Len(Top.chain) + 1
      /\ path[Len(path)] = g
      /\ \A k \in 1..Len(Top.chain) : path[k] = Top.chain[k]
    <2>1. Top.chain \in Seq(Nodes)
        BY AdvancedFacts DEF WalkInv, Extend, Frame
    <2>2. /\ path \in Seq(Nodes)
          /\ Len(path) = Len(stack)
        BY PathGrows DEF Extend
    <2> QED BY <2>1, <2>2, AppendProperties
<1> HIDE DEF path
<1>2. /\ Len(stack) \in Nat \ {0} /\ Len(results) \in Nat
      /\ Len(results') = Len(results) + 1
      /\ results'[Len(results) + 1] = path
      /\ \A r \in 1..Len(results) : results'[r] = results[r]
    BY ExtendFacts DEF path
<1>3. \A f \in 1..Len(stack) :
         /\ stack'[f].chain = stack[f].chain
         /\ stack'[f].todo =
              IF f = Len(stack) THEN stack[f].todo \ {g} ELSE stack[f].todo
    BY ExtendFacts DEF path
<1>4. \/ Len(stack') = Len(stack) /\ Refused(path, Len(results'))
      \/ /\ Len(stack') = Len(stack) + 1
         /\ stack'[Len(stack) + 1].chain = path
         /\ stack'[Len(stack) + 1].todo = groupsOf[Current(path)]
    BY ExtendFacts DEF path
<1>5. ShortPaths' = ShortPaths
    BY DEF ShortPaths, Extend
<1> SUFFICES ASSUME Len(results') < MaxPaths, NEW p \in ShortPaths
             PROVE  Found(p)' \/ Waiting(p)'
    BY <1>5 DEF CoverInv
<1>6. Found(p) \/ Waiting(p)
    BY <1>2, WalkAssumption DEF CoverInv
<1>7. CASE Found(p)
    BY <1>2, <1>7 DEF Found
<1>8. CASE Waiting(p)
    <2>1. PICK f \in 1..Len(stack) :
              /\ Agrees(stack[f].chain, p)
              /\ p[Len(stack[f].chain) + 1] \in stack[f].todo
        BY <1>8 DEF Waiting
    <2>2. CASE f # Len(stack) \/ p[Len(stack[f].chain) + 1] # g
        <3>1. /\ f \in 1..Len(stack')
              /\ Agrees(stack'[f].chain, p)
              /\ p[Len(stack'[f].chain) + 1] \in stack'[f].todo
            <4>1. f \in 1..Len(stack')
                BY <1>2, <1>4
            <4>2. stack'[f].chain = stack[f].chain
                BY <1>3
            <4>3. p[Len(stack[f].chain) + 1] \in stack'[f].todo
                BY <1>3, <2>1, <2>2
            <4> QED BY <2>1, <4>1, <4>2, <4>3
        <3> QED BY <3>1 DEF Waiting, Agrees
    <2>3. CASE f = Len(stack) /\ p[Len(stack[f].chain) + 1] = g
        <3>1. /\ Len(path) <= Len(p)
              /\ \A k \in 1..Len(path) : path[k] = p[k]
              /\ p \in Seq(Nodes) /\ Len(p) \in 1..MaxDepth
            <4>1. /\ p \in Seq(Nodes) /\ Len(p) \in 1..MaxDepth
                BY ShortPathFacts
            <4>2. /\ Len(Top.chain) < Len(p)
                  /\ \A k \in 1..Len(Top.chain) : Top.chain[k] = p[k]
                  /\ p[Len(Top.chain) + 1] = g
                BY <2>1, <2>3 DEF Agrees, Top
            <4>3. Len(Top.chain) \in Nat
                BY <1>1, <1>2
            <4>4. Len(path) <= Len(p)
                BY <1>1, <4>1, <4>2, <4>3, LenProperties
            <4>5. ASSUME NEW k \in 1..Len(path) PROVE path[k] = p[k]
                <5>1. k \in 1..Len(Top.chain) \/ k = Len(Top.chain) + 1
                    BY <1>1, <4>3
                <5> QED BY <1>1, <4>2, <5>1
            <4> QED BY <4>1, <4>4, <4>5
        <3>2. CASE Len(path) = Len(p)
            <4>1. path = p
                BY <1>1, <3>1, <3>2, SeqEqual
            <4> QED BY <1>2, <4>1 DEF Found
        <3>3. CASE Len(path) # Len(p)
            <4>1. ~ Refused(path, Len(results'))
                BY <1>1, <1>2, <3>1, <3>3, WalkAssumption DEF Refused
            <4>2. Agrees(path, p)
                BY <1>1, <1>2, <3>1, <3>3, WalkAssumption DEF Agrees
            <4>3. p[Len(path) + 1] \in groupsOf[Current(path)]
                BY <1>1, <4>2, NextGroupUnvisited
            <4>4. Len(stack) + 1 \in 1..Len(stack')
                BY <1>2, <1>4, <4>1
            <4> QED BY <1>4, <4>1, <4>2, <4>3, <4>4 DEF Waiting, Agrees
        <3> QED BY <3>2, <3>3
    <2> QED BY <2>2, <2>3
<1> QED BY <1>6, <1>7, <1>8

LEMMA NextCover == WalkInv /\ CoverInv /\ [Next]_vars => CoverInv'
<1> SUFFICES ASSUME WalkInv, CoverInv, [Next]_vars PROVE CoverInv'
    OBVIOUS
<1>1. ASSUME NEW g \in Nodes, Skip(g) PROVE CoverInv'
    BY <1>1, SkipCover
<1>2. ASSUME NEW g \in Nodes, Extend(g) PROVE CoverInv'
    BY <1>2, ExtendCover
<1>3. CASE Return
    BY <1>3, ReturnCover
<1>4. CASE UNCHANGED vars
    BY <1>4 DEF vars, CoverInv, ShortPaths, Found, Waiting, Agrees
<1> QED BY <1>1, <1>2, <1>3, <1>4 DEF Next

\* In any tenant and in any iteration order, a walk that ends below the path
\* cap has found every nesting path within the depth cap: the per-path visited
\* set loses none of them.
THEOREM WalkComplete == Spec => []CompleteUnlessCapped
<1>1. Init => WalkInv /\ CoverInv
    BY InitWalkInv, InitCover
<1>2. (WalkInv /\ CoverInv) /\ [Next]_vars => (WalkInv /\ CoverInv)'
    BY NextWalkInv, NextCover
<1>3. CoverInv => CompleteUnlessCapped
    <2> SUFFICES ASSUME CoverInv, stack = <<>>, Len(results) < MaxPaths,
                        NEW p \in ShortPaths
                 PROVE  Found(p)
        BY DEF CompleteUnlessCapped, Running, Found
    <2>1. Len(stack) = 0
        BY EmptySeq
    <2>2. ~ Waiting(p)
        BY <2>1 DEF Waiting
    <2> QED BY <2>2 DEF CoverInv
<1> QED BY <1>1, <1>2, <1>3, PTL DEF Spec

----------------------------------------------------------------------------
(***************************************************************************)
(* Past the path cap.  The chain of a call begins with the chains of the   *)
(* calls around it, so the path that meets the cap begins with all of      *)
(* them; as no call is entered after that, those under way keep to it.     *)
(***************************************************************************)
Around ==
    \A f, h \in 1..Len(stack) : f < h =>
        \A k \in 1..(f - 1) : stack[h].chain[k] = stack[f].chain[k]

KeptTo ==
    Len(results) >= MaxPaths =>
        \A f \in 1..Len(stack) : Agrees(stack[f].chain, results[MaxPaths])

CapInv == Around /\ KeptTo /\ PastCapOnlySiblings

LEMMA InitCap == Init => CapInv
<1> SUFFICES ASSUME Init PROVE CapInv
    OBVIOUS
<1>1. Len(stack) = 1 /\ Len(results) = 0
    BY EmptySeq DEF Init
<1> QED BY <1>1, WalkAssumption DEF CapInv, Around, KeptTo, PastCapOnlySiblings

\* Fewer calls, with the same chains and results.
LEMMA FewerCalls ==
    ASSUME CapInv, results' = results,
           Len(stack) \in Nat, Len(stack') \in Nat, Len(stack') <= Len(stack),
           \A f \in 1..Len(stack') : stack'[f].chain = stack[f].chain
    PROVE  CapInv'
<1>1. \A f \in 1..Len(stack') : f \in 1..Len(stack)
    OBVIOUS
<1>2. Around'
    BY <1>1 DEF CapInv, Around
<1>3. KeptTo'
    <2> SUFFICES ASSUME Len(results) >= MaxPaths, NEW f \in 1..Len(stack')
                 PROVE  Agrees(stack'[f].chain, results[MaxPaths])
        BY DEF KeptTo, Agrees
    <2> QED BY <1>1 DEF CapInv, KeptTo
<1>4. PastCapOnlySiblings'
    BY DEF CapInv, PastCapOnlySiblings
<1> QED BY <1>2, <1>3, <1>4 DEF CapInv

LEMMA SkipCap ==
    ASSUME WalkInv, CapInv, NEW g \in Nodes, Skip(g)
    PROVE  CapInv'
<1>1. TypeOK /\ Running /\ stack' = Advanced(g) /\ results' = results
    BY DEF WalkInv, Skip
<1>2. Len(stack) \in Nat /\ Len(stack') = Len(stack)
    BY <1>1, AdvancedFacts
<1>3. \A f \in 1..Len(stack) : stack'[f].chain = stack[f].chain
    BY <1>1, AdvancedFacts
<1> QED BY <1>1, <1>2, <1>3, FewerCalls

LEMMA ReturnCap ==
    ASSUME WalkInv, CapInv, Return
    PROVE  CapInv'
<1>1. /\ Len(stack) \in Nat \ {0}
      /\ Len(stack') = Len(stack) - 1
      /\ \A f \in 1..Len(stack') : f \in 1..Len(stack) /\ stack'[f] = stack[f]
      /\ results' = results
    BY ReturnFacts DEF WalkInv
<1> QED BY <1>1, FewerCalls

LEMMA ExtendCap ==
    ASSUME WalkInv, CapInv, NEW g \in Nodes, Extend(g)
    PROVE  CapInv'
<1> DEFINE path == Append(Top.chain, g)
           n == Len(stack)
           m == Len(results)
<1>1. /\ n \in Nat \ {0}
      /\ Len(path) = n
      /\ \A k \in 1..(n - 1) : path[k] = stack[n].chain[k]
    <2>1. Top.chain \in Seq(Nodes) /\ n \in Nat \ {0}
        BY AdvancedFacts DEF WalkInv, Extend, Frame
    <2>2. Len(path) = n /\ Top = stack[n]
        BY PathGrows DEF Extend, Top
    <2>3. Len(path) = Len(Top.chain) + 1
          /\ \A k \in 1..Len(Top.chain) : path[k] = Top.chain[k]
        BY <2>1, AppendProperties
    <2>4. Len(Top.chain) = n - 1
        BY <2>1, <2>2, <2>3, LenProperties
    <2> QED BY <2>1, <2>2, <2>3, <2>4
<1> HIDE DEF path
<1>2. /\ m \in Nat
      /\ Len(results') = m + 1
      /\ results'[m + 1] = path
      /\ \A r \in 1..m : results'[r] = results[r]
    BY ExtendFacts DEF path
<1>3. \A f \in 1..n : stack'[f].chain = stack[f].chain
    BY ExtendFacts DEF path
<1>4. \/ Len(stack') = n
      \/ /\ Len(stack') = n + 1
         /\ stack'[n + 1].chain = path
         /\ ~ Refused(path, Len(results'))
    BY ExtendFacts DEF path
<1>5. \A f \in 1..n : Len(stack[f].chain) = f - 1
    BY DEF WalkInv, CallsNested
<1> HIDE DEF n, m
<1>6. MaxPaths \in Nat \ {0}
    BY WalkAssumption
\* The new path goes on from every call under way.
<1>7. \A f \in 1..n : Agrees(stack[f].chain, path)
    <2> SUFFICES ASSUME NEW f \in 1..n PROVE Agrees(stack[f].chain, path)
        OBVIOUS
    <2>1. \A k \in 1..(f - 1) : stack[n].chain[k] = stack[f].chain[k]
        <3>1. CASE f = n
            BY <3>1
        <3>2. CASE f # n
            <4>1. f < n /\ n \in 1..n
                BY <1>1, <3>2
            <4> QED BY <4>1 DEF CapInv, Around, n
        <3> QED BY <3>1, <3>2
    <2> QED BY <1>1, <1>5, <2>1 DEF Agrees
<1>8. ASSUME NEW f \in 1..Len(stack'), NEW h \in 1..Len(stack'), f < h, NEW k \in 1..(f - 1)
      PROVE  stack'[h].chain[k] = stack'[f].chain[k]
    <2>1. f \in 1..n /\ stack'[f].chain = stack[f].chain
        BY <1>1, <1>3, <1>4, <1>8
    <2>2. CASE h \in 1..n
        <3>1. stack[h].chain[k] = stack[f].chain[k]
            BY <1>8, <2>1, <2>2 DEF CapInv, Around, n
        <3> QED BY <1>3, <2>1, <2>2, <3>1
    <2>3. CASE h \notin 1..n
        <3>1. stack'[h].chain = path
            BY <1>1, <1>4, <2>3
        <3>2. k \in 1..Len(stack[f].chain)
            BY <1>5, <2>1
        <3> QED BY <1>7, <2>1, <3>1, <3>2 DEF Agrees
    <2> QED BY <2>2, <2>3
\* From the path that meets the cap on, no call is entered.
<1>9. ASSUME m + 1 >= MaxPaths
      PROVE  Len(stack') = n
    BY <1>2, <1>4, <1>9 DEF Refused
<1>10. ASSUME m + 1 >= MaxPaths, NEW f \in 1..n
       PROVE  Agrees(stack[f].chain, results'[MaxPaths])
    <2>1. CASE m + 1 = MaxPaths
        BY <1>2, <1>7, <2>1
    <2>2. CASE m + 1 # MaxPaths
        <3>1. m >= MaxPaths /\ MaxPaths \in 1..m
            BY <1>2, <1>6, <1>10, <2>2
        <3>2. Agrees(stack[f].chain, results[MaxPaths])
            BY <3>1 DEF CapInv, KeptTo, n, m
        <3> QED BY <1>2, <3>1, <3>2
    <2> QED BY <2>1, <2>2
<1>11. KeptTo'
    <2> SUFFICES ASSUME Len(results') >= MaxPaths, NEW f \in 1..Len(stack')
                 PROVE  Agrees(stack'[f].chain, results'[MaxPaths])
        BY DEF KeptTo, Agrees
    <2>1. f \in 1..n
        BY <1>2, <1>9
    <2> QED BY <1>2, <1>3, <1>10, <2>1
<1>12. ASSUME NEW r \in 1..Len(results'), r > MaxPaths
       PROVE  /\ Len(results'[r]) <= Len(results'[MaxPaths])
              /\ \A k \in 1..(Len(results'[r]) - 1) : results'[r][k] = results'[MaxPaths][k]
    <2>1. m >= MaxPaths /\ MaxPaths \in 1..m /\ results'[MaxPaths] = results[MaxPaths]
        BY <1>2, <1>6, <1>12
    <2>2. CASE r \in 1..m
        <3>1. /\ Len(results[r]) <= Len(results[MaxPaths])
              /\ \A k \in 1..(Len(results[r]) - 1) : results[r][k] = results[MaxPaths][k]
            BY <1>12, <2>2 DEF CapInv, PastCapOnlySiblings, m
        <3> QED BY <1>2, <2>1, <2>2, <3>1
    <2>3. CASE r \notin 1..m
        <3>1. results'[r] = path
            BY <1>2, <2>3
        <3>2. n \in 1..n /\ Agrees(stack[n].chain, results[MaxPaths])
            BY <1>1, <2>1 DEF CapInv, KeptTo, n, m
        <3>3. /\ n - 1 < Len(results[MaxPaths])
              /\ \A k \in 1..(n - 1) : stack[n].chain[k] = results[MaxPaths][k]
            BY <1>5, <3>2 DEF Agrees
        <3>4. Len(results[MaxPaths]) \in Nat
            BY <2>1, ElementOfSeq, LenProperties DEF WalkInv, TypeOK, m
        <3> QED BY <1>1, <2>1, <3>1, <3>3, <3>4
    <2> QED BY <2>2, <2>3
<1>13. Around' /\ PastCapOnlySiblings'
    BY <1>8, <1>12 DEF Around, PastCapOnlySiblings
<1> QED BY <1>11, <1>13 DEF CapInv

LEMMA NextCap == WalkInv /\ CapInv /\ [Next]_vars => CapInv'
<1> SUFFICES ASSUME WalkInv, CapInv, [Next]_vars PROVE CapInv'
    OBVIOUS
<1>1. ASSUME NEW g \in Nodes, Skip(g) PROVE CapInv'
    BY <1>1, SkipCap
<1>2. ASSUME NEW g \in Nodes, Extend(g) PROVE CapInv'
    BY <1>2, ExtendCap
<1>3. CASE Return
    BY <1>3, ReturnCap
<1>4. CASE UNCHANGED vars
    BY <1>4 DEF vars, CapInv, Around, KeptTo, PastCapOnlySiblings, Agrees
<1> QED BY <1>1, <1>2, <1>3, <1>4 DEF Next

\* In any tenant and with any caps, a walk that has met the path cap goes no
\* further: whatever it still returns is a group beside the chain it was on.
THEOREM WalkEndsAtCap == Spec => []PastCapOnlySiblings
<1>1. Init => WalkInv /\ CapInv
    BY InitWalkInv, InitCap
<1>2. (WalkInv /\ CapInv) /\ [Next]_vars => (WalkInv /\ CapInv)'
    BY NextWalkInv, NextCap
<1>3. CapInv => PastCapOnlySiblings
    BY DEF CapInv
<1> QED BY <1>1, <1>2, <1>3, PTL DEF Spec
----------------------------------------------------------------------------
(***************************************************************************)
(* What the rules and the pages use.  AccessReview takes the chains above  *)
(* a principal from the memberships at once.                               *)
(***************************************************************************)
CONSTANTS Scopes, Roles, Names, AssignmentIds, Nothing, Graphs

VARIABLES graph, phase, found

Review == INSTANCE AccessReview WITH Principals <- Nodes

\* The graphs that have the memberships of this tenant.
OfTenant(g) == g.members = {e \in Nodes \X Nodes : e[2] \in groupsOf[e[1]]}

\* A walk that has ended, in a tenant whose nesting above the principal stays
\* within both caps, has returned the chains of AccessReview and no others.
WalkedAsUsed ==
    \A g : OfTenant(g) =>
        /\ \A r \in 1..Len(results) : results[r] \in Review!Chains(g, Principal)
        /\ /\ ~ Running /\ Len(results) < MaxPaths
           /\ \A c \in Review!Chains(g, Principal) : Len(c) <= MaxDepth
           => \A c \in Review!Chains(g, Principal) : \E r \in 1..Len(results) : results[r] = c

LEMMA ReviewCardinality == \A S : Review!Cardinality(S) = Cardinality(S)
BY DEF Review!Cardinality, Cardinality

LEMMA ChainsArePaths ==
    ASSUME IsFiniteSet(Nodes), TypeOK, NEW g, OfTenant(g), NEW c
    PROVE  c \in Review!Chains(g, Principal)
            <=> c \in Seq(Nodes) /\ IsPath(groupsOf, c)
<1>1. groupsOf \in [Nodes -> SUBSET Nodes]
    BY WalkAssumption DEF TypeOK
<1>2. \A n, q : Review!MemberOf(g, n, q) <=> n \in Nodes /\ q \in Nodes /\ q \in groupsOf[n]
    BY DEF OfTenant, Review!MemberOf
<1>3. ASSUME c \in Review!Chains(g, Principal)
      PROVE  c \in Seq(Nodes) /\ IsPath(groupsOf, c)
    <2>1. PICK S \in SUBSET (Nodes \ {Principal}) : c \in Review!SetToSeqs(S)
        BY <1>3 DEF Review!Chains
    <2>2. /\ c # <<>>
          /\ Review!MemberOf(g, Principal, c[1])
          /\ \A k \in 1..(Len(c) - 1) : Review!MemberOf(g, c[k], c[k + 1])
        BY <1>3 DEF Review!Chains
    <2>3. Cardinality(S) \in Nat
        BY FS_Subset, FS_CardinalityType
    <2>4. /\ c \in [1..Cardinality(S) -> S]
          /\ \A i, j \in 1..Cardinality(S) : i # j => c[i] # c[j]
        BY <2>1, ReviewCardinality DEF Review!SetToSeqs
    <2>5. c \in Seq(S)
        BY <2>3, <2>4, SeqDef
    <2>6. Len(c) = Cardinality(S)
        BY <2>3, <2>4, <2>5, LenProperties
    <2>7. c \in [1..Len(c) -> Nodes]
        BY <2>4, <2>6
    <2>8. c \in Seq(Nodes)
        BY <2>3, <2>6, <2>7, SeqDef
    <2>9. \A k \in 1..Len(c) : c[k] # Principal
        BY <2>4, <2>6
    <2>10. \A k, j \in 1..Len(c) : c[j] = c[k] => j = k
        BY <2>4, <2>6
    <2> QED BY <1>2, <2>2, <2>8, <2>9, <2>10 DEF IsPath
<1>4. ASSUME c \in Seq(Nodes), IsPath(groupsOf, c)
      PROVE  c \in Review!Chains(g, Principal)
    <2> DEFINE S == {c[k] : k \in 1..Len(c)}
    <2>1. Len(c) \in Nat /\ c \in [1..Len(c) -> Nodes]
        BY <1>4, LenProperties
    <2>2. /\ c # <<>> /\ c[1] \in groupsOf[Principal]
          /\ \A k \in 1..(Len(c) - 1) : c[k + 1] \in groupsOf[c[k]]
          /\ \A k \in 1..Len(c) : c[k] # Principal
          /\ \A k, j \in 1..Len(c) : c[j] = c[k] => j = k
        BY <1>4 DEF IsPath
    <2>3. S \in SUBSET (Nodes \ {Principal})
        BY <2>1, <2>2
    <2>4. IsFiniteSet(1..Len(c)) /\ Cardinality(1..Len(c)) = Len(c)
        BY <2>1, FS_Interval
    <2>5. c \in Surjection(1..Len(c), S) /\ c \in Injection(1..Len(c), S)
        <3>1. c \in [1..Len(c) -> S]
            BY <2>1
        <3>2. \A s \in S : \E k \in 1..Len(c) : c[k] = s
            OBVIOUS
        <3> HIDE DEF S
        <3> QED BY <2>2, <3>1, <3>2 DEF Injection, Surjection, IsInjective
    <2>6. Cardinality(S) = Len(c)
        <3> HIDE DEF S
        <3> QED BY <2>4, <2>5, FS_Surjection
    <2>7. c \in Review!SetToSeqs(S)
        <3>1. c \in [1..Cardinality(S) -> S]
            BY <2>1, <2>6
        <3> HIDE DEF S
        <3> QED BY <2>2, <2>6, <3>1, ReviewCardinality DEF Review!SetToSeqs
    <2>8. c[1] \in Nodes /\ \A k \in 1..(Len(c) - 1) : c[k] \in Nodes /\ c[k + 1] \in Nodes
        <3>1. Len(c) \in Nat \ {0}
            BY <1>4, <2>2, EmptySeq
        <3>2. 1 \in 1..Len(c) /\ \A k \in 1..(Len(c) - 1) : k \in 1..Len(c) /\ k + 1 \in 1..Len(c)
            BY <3>1
        <3> QED BY <2>1, <3>2
    <2>9. /\ Review!MemberOf(g, Principal, c[1])
          /\ \A k \in 1..(Len(c) - 1) : Review!MemberOf(g, c[k], c[k + 1])
        BY <1>2, <2>2, <2>8, WalkAssumption
    <2> HIDE DEF S
    <2> QED BY <2>2, <2>3, <2>7, <2>9 DEF Review!Chains
<1> QED BY <1>3, <1>4

LEMMA WalkedAsUsedInv ==
    IsFiniteSet(Nodes) /\ TypeOK /\ PathsAreReal /\ CompleteUnlessCapped => WalkedAsUsed
<1> SUFFICES ASSUME IsFiniteSet(Nodes), TypeOK, PathsAreReal, CompleteUnlessCapped,
                    NEW g, OfTenant(g)
             PROVE  /\ \A r \in 1..Len(results) : results[r] \in Review!Chains(g, Principal)
                    /\ /\ ~ Running /\ Len(results) < MaxPaths
                       /\ \A c \in Review!Chains(g, Principal) : Len(c) <= MaxDepth
                       => \A c \in Review!Chains(g, Principal) :
                            \E r \in 1..Len(results) : results[r] = c
    BY DEF WalkedAsUsed
<1>1. \A r \in 1..Len(results) : results[r] \in Seq(Nodes)
    BY ElementOfSeq DEF TypeOK
<1>2. \A r \in 1..Len(results) : results[r] \in Review!Chains(g, Principal)
    BY <1>1, ChainsArePaths DEF PathsAreReal
<1>3. ASSUME ~ Running, Len(results) < MaxPaths, NEW c \in Review!Chains(g, Principal),
             Len(c) <= MaxDepth
      PROVE  \E r \in 1..Len(results) : results[r] = c
    <2>1. c \in Seq(Nodes) /\ IsPath(groupsOf, c)
        BY ChainsArePaths
    <2>2. Len(c) \in Nat \ {0}
        BY <2>1, EmptySeq DEF IsPath
    <2>3. Len(c) \in 1..MaxDepth
        BY <1>3, <2>2, WalkAssumption
    <2>4. c \in [1..Len(c) -> Nodes]
        BY <2>1, LenProperties
    <2>5. c \in ShortPaths
        BY <2>1, <2>3, <2>4 DEF ShortPaths
    <2> QED BY <1>3, <2>5 DEF CompleteUnlessCapped
<1> QED BY <1>2, <1>3

\* The paths of membership_paths are the chains the findings and the pages are
\* about as long as the nesting of groups stays within the caps; beyond them
\* some are left out, and none is made up.
THEOREM WalkFindsChains == IsFiniteSet(Nodes) /\ Spec => []WalkedAsUsed
<1>1. CASE IsFiniteSet(Nodes)
    <2>1. TypeOK /\ PathsAreReal /\ CompleteUnlessCapped => WalkedAsUsed
        BY <1>1, WalkedAsUsedInv
    <2> QED BY <2>1, WalkTypeCorrect, WalkSound, WalkComplete, PTL
<1> QED BY <1>1
=============================================================================
