------------------------ MODULE AccessScreensProofs ------------------------
(* Theorems about what is said of a snapshot, for any graph: the findings    *)
(* about privilege by membership, second routes and redundant assignments    *)
(* are right, the pages agree with each other and with the findings, the     *)
(* diagram shows what there is, and the two searches over the scopes, with   *)
(* cycles and missing parents, return what the rules and the pages use.      *)
EXTENDS AccessScreens, ScopeSearches, FunctionTheorems, FiniteSetTheorems,
        SequenceTheorems, WellFoundedInduction, TLAPS

(***************************************************************************)
(* What edges lead to.                                                     *)
(***************************************************************************)

LEMMA ReachedFacts ==
    ASSUME NEW all, NEW nodes \in SUBSET all, NEW edges,
           \A e \in edges : e[2] \in all
    PROVE  /\ Reached(nodes, edges, all) \subseteq all
           /\ nodes \subseteq Reached(nodes, edges, all)
           /\ Closed(Reached(nodes, edges, all), edges)
BY DEF Reached, Closed

LEMMA ReachedIsLeast ==
    ASSUME NEW all, NEW nodes, NEW edges, NEW S \in SUBSET all,
           nodes \subseteq S, Closed(S, edges)
    PROVE  Reached(nodes, edges, all) \subseteq S
BY DEF Reached

\* What the rules and the pages are told of the snapshot.
LEMMA GraphFacts ==
    ASSUME NEW g, IsGraph(g)
    PROVE  /\ DOMAIN g.type \subseteq Principals /\ DOMAIN g.role \subseteq Roles
           /\ DOMAIN g.parent \subseteq Scopes
           /\ \A e \in g.members : e \in Principals \X Principals
           /\ \A e \in Children(g) : e[2] \in DOMAIN g.parent
           /\ \A e \in Parents(g) : e[1] \in DOMAIN g.parent /\ e[2] \in DOMAIN g.parent
           /\ \A a \in DOMAIN g.assigned :
                /\ g.assigned[a].holder \in Principals
                /\ g.assigned[a].role \in Roles /\ g.assigned[a].scope \in Scopes
BY DEF IsGraph, Children, Parents

----------------------------------------------------------------------------
(***************************************************************************)
(* The hierarchy of scopes.                                                *)
(***************************************************************************)

Climbed(g, s) == Reached({s} \cap DOMAIN g.parent, Parents(g), DOMAIN g.parent)

LEMMA ClimbedFacts ==
    ASSUME NEW g, IsGraph(g), NEW s
    PROVE  /\ Climbed(g, s) \subseteq DOMAIN g.parent
           /\ s \in DOMAIN g.parent => s \in Climbed(g, s)
           /\ \A t \in Climbed(g, s) : g.parent[t] \in DOMAIN g.parent => g.parent[t] \in Climbed(g, s)
           /\ \A t \in Climbed(g, s) : Climbed(g, t) \subseteq Climbed(g, s)
           /\ \A t : Covers(g, t, s) <=> t = s \/ t \in Climbed(g, s)
<1>1. \A e \in Parents(g) : e[2] \in DOMAIN g.parent
    BY GraphFacts
<1>2. /\ Climbed(g, s) \subseteq DOMAIN g.parent
      /\ s \in DOMAIN g.parent => s \in Climbed(g, s)
      /\ Closed(Climbed(g, s), Parents(g))
    BY <1>1, ReachedFacts DEF Climbed
<1>3. \A t \in DOMAIN g.parent : g.parent[t] \in DOMAIN g.parent => <<t, g.parent[t]>> \in Parents(g)
    BY DEF Parents
<1>4. \A t \in Climbed(g, s) : g.parent[t] \in DOMAIN g.parent => g.parent[t] \in Climbed(g, s)
    BY <1>2, <1>3 DEF Closed
<1>5. ASSUME NEW t \in Climbed(g, s) PROVE Climbed(g, t) \subseteq Climbed(g, s)
    BY <1>2, ReachedIsLeast DEF Climbed
<1>6. \A t : Covers(g, t, s) <=> t = s \/ t \in Climbed(g, s)
    BY DEF Covers, Ancestors, Climbed
<1> QED BY <1>2, <1>4, <1>5, <1>6

\* An assignment that reaches a scope reaches what is below it.
LEMMA CoversIsTransitive ==
    ASSUME NEW g, IsGraph(g), NEW s, NEW t, NEW u,
           s \in Ancestors(g, t), Covers(g, t, u)
    PROVE  Covers(g, s, u)
<1>1. s \in Climbed(g, t)
    BY DEF Ancestors, Climbed
<1>2. t = u \/ t \in Climbed(g, u)
    BY ClimbedFacts
<1>3. s \in Climbed(g, u)
    BY <1>1, <1>2, ClimbedFacts
<1> QED BY <1>3, ClimbedFacts

LEMMA SubtreeFacts ==
    ASSUME NEW g, IsGraph(g), NEW s \in Scopes
    PROVE  /\ s \in Subtree(g, s) /\ Subtree(g, s) \subseteq Scopes
           /\ \A t \in DOMAIN g.parent : g.parent[t] \in Subtree(g, s) => t \in Subtree(g, s)
           /\ \A t \in Subtree(g, s) : Subtree(g, t) \subseteq Subtree(g, s)
           /\ s \in DOMAIN g.parent => Subtree(g, s) \subseteq DOMAIN g.parent
<1>1. /\ \A e \in Children(g) : e[2] \in DOMAIN g.parent /\ e[2] \in Scopes
      /\ DOMAIN g.parent \subseteq Scopes
    BY GraphFacts
<1>2. /\ s \in Subtree(g, s) /\ Subtree(g, s) \subseteq Scopes
      /\ Closed(Subtree(g, s), Children(g))
    BY <1>1, ReachedFacts DEF Subtree
<1>3. \A t \in DOMAIN g.parent : <<g.parent[t], t>> \in Children(g)
    BY DEF Children
<1>4. Closed(DOMAIN g.parent, Children(g))
    BY <1>1 DEF Closed
<1>5. s \in DOMAIN g.parent => Subtree(g, s) \subseteq DOMAIN g.parent
    BY <1>1, <1>4, ReachedIsLeast DEF Subtree
<1>6. \A t \in DOMAIN g.parent : g.parent[t] \in Subtree(g, s) => t \in Subtree(g, s)
    BY <1>2, <1>3 DEF Closed
<1>7. ASSUME NEW t \in Subtree(g, s) PROVE Subtree(g, t) \subseteq Subtree(g, s)
    <2> DEFINE S == Subtree(g, s)
    <2>1. S \subseteq Scopes /\ {t} \subseteq S /\ Closed(S, Children(g))
        BY <1>2
    <2> HIDE DEF S
    <2>2. Subtree(g, t) \subseteq S
        BY <2>1, ReachedIsLeast DEF Subtree
    <2> QED BY <2>2 DEF S
<1> QED BY <1>2, <1>5, <1>6, <1>7

\* covers climbs, descendants goes down; the answer is the same.
LEMMA CoversIsSubtree ==
    ASSUME NEW g, IsGraph(g), NEW s \in Scopes, NEW t \in DOMAIN g.parent
    PROVE  Covers(g, s, t) <=> (s \in DOMAIN g.parent /\ t \in Subtree(g, s)) \/ s = t
<1>1. DOMAIN g.parent \subseteq Scopes
    BY GraphFacts
<1>2. ASSUME s \in Climbed(g, t) PROVE t \in Subtree(g, s)
    <2> DEFINE S == {u \in DOMAIN g.parent : u \in Scopes /\ t \in Subtree(g, u)}
    <2>1. {t} \cap DOMAIN g.parent \subseteq S
        BY <1>1, SubtreeFacts
    <2>2. ASSUME NEW e \in Parents(g), e[1] \in S PROVE e[2] \in S
        <3>1. PICK u \in DOMAIN g.parent : e = <<u, g.parent[u]>> /\ g.parent[u] \in DOMAIN g.parent
            BY DEF Parents
        <3>2. t \in Subtree(g, u) /\ u \in Subtree(g, g.parent[u])
            BY <1>1, <2>2, <3>1, SubtreeFacts
        <3>3. Subtree(g, u) \subseteq Subtree(g, g.parent[u])
            BY <1>1, <3>1, <3>2, SubtreeFacts
        <3> QED BY <1>1, <3>1, <3>2, <3>3
    <2>3. Closed(S, Parents(g))
        BY <2>2 DEF Closed
    <2> HIDE DEF S
    <2>4. S \subseteq DOMAIN g.parent
        BY DEF S
    <2>5. Climbed(g, t) \subseteq S
        BY <2>1, <2>3, <2>4, ReachedIsLeast DEF Climbed
    <2> QED BY <1>2, <2>5 DEF S
<1>3. ASSUME s \in DOMAIN g.parent, t \in Subtree(g, s) PROVE s \in Climbed(g, t)
    <2> DEFINE S == {u \in DOMAIN g.parent : s \in Climbed(g, u)}
    <2>1. {s} \subseteq S
        BY <1>3, ClimbedFacts
    <2>2. ASSUME NEW e \in Children(g), e[1] \in S PROVE e[2] \in S
        <3>1. PICK u \in DOMAIN g.parent : e = <<g.parent[u], u>>
            BY DEF Children
        <3>2. g.parent[u] \in DOMAIN g.parent /\ s \in Climbed(g, g.parent[u])
            BY <2>2, <3>1
        <3>3. g.parent[u] \in Climbed(g, u)
            BY <3>2, ClimbedFacts
        <3>4. s \in Climbed(g, u)
            BY <3>2, <3>3, ClimbedFacts
        <3> QED BY <3>1, <3>4
    <2>3. Closed(S, Children(g))
        BY <2>2 DEF Closed
    <2> HIDE DEF S
    <2>4. S \subseteq Scopes
        BY <1>1 DEF S
    <2>5. Subtree(g, s) \subseteq S
        BY <2>1, <2>3, <2>4, ReachedIsLeast DEF Subtree
    <2> QED BY <1>3, <2>5 DEF S
<1>4. Climbed(g, t) \subseteq DOMAIN g.parent
    BY ClimbedFacts
<1> QED BY <1>2, <1>3, <1>4, ClimbedFacts

----------------------------------------------------------------------------
(***************************************************************************)
(* The nesting of groups.                                                  *)
(***************************************************************************)

LEMMA LeastOf ==
    ASSUME NEW T \in SUBSET Nat, T # {}
    PROVE  \E m \in T : \A n \in T : m <= n
<1>1. PICK m \in T : \A n \in T : ~ (<<n, m>> \in OpToRel(<, Nat))
    BY NatLessThanWellFounded, WFMin
<1>2. ASSUME NEW n \in T PROVE m <= n
    <2>1. ~ (n < m)
        BY <1>1 DEF OpToRel
    <2> QED BY <2>1
<1> QED BY <1>2

\* A walk of n memberships up from p that comes back neither to p nor to a
\* group.
IsWalk(g, p, c, n) ==
    /\ n \in Nat \ {0}
    /\ c \in [1..n -> Principals \ {p}]
    /\ \A i, j \in 1..n : i # j => c[i] # c[j]
    /\ MemberOf(g, p, c[1])
    /\ \A k \in 1..(n - 1) : MemberOf(g, c[k], c[k + 1])

LEMMA ChainIsWalk ==
    ASSUME NEW g, NEW p, NEW c \in Chains(g, p)
    PROVE  IsWalk(g, p, c, Len(c)) /\ Last(c) = c[Len(c)] /\ Last(c) \in Principals \ {p}
<1>1. PICK S \in SUBSET (Principals \ {p}) : c \in SetToSeqs(S)
    BY DEF Chains
<1>2. /\ c # <<>> /\ MemberOf(g, p, c[1])
      /\ \A k \in 1..(Len(c) - 1) : MemberOf(g, c[k], c[k + 1])
    BY DEF Chains
<1>3. Cardinality(S) \in Nat
    BY <1>1, ReviewAssumption, FS_Subset, FS_CardinalityType
<1>4. /\ c \in [1..Cardinality(S) -> S]
      /\ \A i, j \in 1..Cardinality(S) : i # j => c[i] # c[j]
    BY <1>1 DEF SetToSeqs
<1>5. c \in Seq(S)
    BY <1>3, <1>4, SeqDef
<1>6. Len(c) = Cardinality(S)
    BY <1>3, <1>4, <1>5, LenProperties
<1>7. Len(c) \in Nat \ {0}
    BY <1>2, <1>3, <1>5, <1>6, EmptySeq
<1>8. c \in [1..Len(c) -> Principals \ {p}]
    BY <1>1, <1>4, <1>6
<1>9. Len(c) \in 1..Len(c)
    BY <1>7
<1> QED BY <1>2, <1>4, <1>6, <1>7, <1>8, <1>9 DEF IsWalk, Last

LEMMA WalkIsChain ==
    ASSUME NEW g, NEW p, NEW n, NEW c, IsWalk(g, p, c, n)
    PROVE  c \in Chains(g, p) /\ Len(c) = n /\ Last(c) = c[n]
<1> DEFINE S == {c[k] : k \in 1..n}
<1>1. /\ n \in Nat \ {0} /\ c \in [1..n -> Principals \ {p}]
      /\ \A i, j \in 1..n : i # j => c[i] # c[j]
      /\ MemberOf(g, p, c[1])
      /\ \A k \in 1..(n - 1) : MemberOf(g, c[k], c[k + 1])
    BY DEF IsWalk
<1>2. S \in SUBSET (Principals \ {p}) /\ c \in [1..n -> S] /\ \A s \in S : \E k \in 1..n : c[k] = s
    BY <1>1
<1> HIDE DEF S
<1>3. c \in Bijection(1..n, S)
    <2> DEFINE D == 1..n
    <2>1. c \in [D -> S] /\ (\A a, b \in D : c[a] = c[b] => a = b) /\ \A s \in S : \E k \in D : c[k] = s
        BY <1>1, <1>2
    <2> HIDE DEF D
    <2>2. c \in Bijection(D, S)
        BY <2>1, Fun_IsBij
    <2> QED BY <2>2 DEF D
<1>4. Cardinality(S) = n
    <2>1. IsFiniteSet(1..n) /\ Cardinality(1..n) = n
        BY <1>1, FS_Interval
    <2>2. ExistsBijection(1..n, S)
        BY <1>3 DEF ExistsBijection
    <2> QED BY <2>1, <2>2, FS_Bijection
<1>5. c \in SetToSeqs(S)
    BY <1>1, <1>2, <1>4 DEF SetToSeqs
<1>6. c \in Seq(S)
    BY <1>1, <1>2, SeqDef
<1>7. Len(c) = n /\ c # <<>>
    BY <1>1, <1>2, <1>6, LenProperties, EmptySeq
<1>8. c \in Chains(g, p)
    BY <1>1, <1>2, <1>5, <1>7 DEF Chains
<1> QED BY <1>7, <1>8 DEF Last

\* A chain leads to groups that are above p.
LEMMA ChainIsAbove ==
    ASSUME NEW g, IsGraph(g), NEW p \in Principals, NEW c \in Chains(g, p)
    PROVE  Last(c) \in Above(g, p)
<1> DEFINE R == Reached({p}, g.members, Principals)
           T == {k \in 1..Len(c) : c[k] \notin R}
<1>1. IsWalk(g, p, c, Len(c)) /\ Last(c) = c[Len(c)]
    BY ChainIsWalk
<1>2. \A e \in g.members : e[2] \in Principals
    BY GraphFacts
<1>3. p \in R /\ Closed(R, g.members)
    BY <1>2, ReachedFacts
<1> HIDE DEF R
<1>4. \A r \in R : \A q : MemberOf(g, r, q) => q \in R
    BY <1>3 DEF Closed, MemberOf
<1>5. ASSUME T # {} PROVE FALSE
    <2>1. PICK m \in T : \A k \in T : m <= k
        <3>1. T \subseteq Nat
            OBVIOUS
        <3> HIDE DEF T
        <3> QED BY <1>5, <3>1, LeastOf
    <2>2. Len(c) \in Nat \ {0} /\ m \in 1..Len(c) /\ c[m] \notin R
        BY <1>1, <2>1 DEF IsWalk
    <2>3. CASE m = 1
        BY <1>1, <1>3, <1>4, <2>2, <2>3 DEF IsWalk
    <2>4. CASE m # 1
        <3>1. m - 1 \in 1..(Len(c) - 1) /\ m - 1 \in 1..Len(c) /\ m - 1 < m
            BY <2>2, <2>4
        <3>2. c[m - 1] \in R
            BY <2>1, <3>1
        <3>3. (m - 1) + 1 = m
            BY <2>2
        <3>4. MemberOf(g, c[m - 1], c[m])
            BY <1>1, <3>1, <3>3 DEF IsWalk
        <3> QED BY <1>4, <2>2, <3>2, <3>4
    <2> QED BY <2>3, <2>4
<1>6. Len(c) \in 1..Len(c) /\ c[Len(c)] # p
    BY <1>1 DEF IsWalk
<1>7. Last(c) \in R \ {p}
    BY <1>1, <1>5, <1>6
<1> QED BY <1>7 DEF Above, R

\* A walk to its n-th group, or one group further.
LEMMA WalkPrefix ==
    ASSUME NEW g, NEW p, NEW c, NEW n, IsWalk(g, p, c, n), NEW k \in 1..n
    PROVE  \E d : IsWalk(g, p, d, k) /\ d[k] = c[k]
<1> DEFINE d == [i \in 1..k |-> c[i]]
<1>1. /\ n \in Nat \ {0} /\ c \in [1..n -> Principals \ {p}]
      /\ \A i, j \in 1..n : i # j => c[i] # c[j]
      /\ MemberOf(g, p, c[1])
      /\ \A i \in 1..(n - 1) : MemberOf(g, c[i], c[i + 1])
    BY DEF IsWalk
<1>2. k \in Nat \ {0} /\ \A i \in 1..k : i \in 1..n
    BY <1>1
<1>3. d \in [1..k -> Principals \ {p}] /\ \A i \in 1..k : d[i] = c[i]
    BY <1>1, <1>2
<1> HIDE DEF d
<1>4. \A i \in 1..(k - 1) : i \in 1..(n - 1) /\ i \in 1..k /\ i + 1 \in 1..k
    BY <1>1, <1>2
<1>5. IsWalk(g, p, d, k)
    BY <1>1, <1>2, <1>3, <1>4 DEF IsWalk
<1>6. d[k] = c[k]
    BY <1>2, <1>3
<1> QED BY <1>5, <1>6

LEMMA WalkOn ==
    ASSUME NEW g, NEW p, NEW c, NEW n, IsWalk(g, p, c, n),
           NEW q \in Principals \ {p}, MemberOf(g, c[n], q), \A k \in 1..n : c[k] # q
    PROVE  \E d : IsWalk(g, p, d, n + 1) /\ d[n + 1] = q
<1> DEFINE d == [i \in 1..(n + 1) |-> IF i = n + 1 THEN q ELSE c[i]]
<1>1. /\ n \in Nat \ {0} /\ c \in [1..n -> Principals \ {p}]
      /\ \A i, j \in 1..n : i # j => c[i] # c[j]
      /\ MemberOf(g, p, c[1])
      /\ \A i \in 1..(n - 1) : MemberOf(g, c[i], c[i + 1])
    BY DEF IsWalk
<1>2. \A i \in 1..(n + 1) : i \in 1..n \/ i = n + 1
    BY <1>1
<1>3. /\ d \in [1..(n + 1) -> Principals \ {p}]
      /\ d[n + 1] = q /\ \A i \in 1..n : d[i] = c[i]
    BY <1>1, <1>2
<1> HIDE DEF d
<1>4. ASSUME NEW i \in 1..n PROVE MemberOf(g, d[i], d[i + 1])
    <2>1. CASE i = n
        BY <1>1, <1>3, <2>1
    <2>2. CASE i # n
        <3>1. i \in 1..(n - 1) /\ i + 1 \in 1..n
            BY <1>1, <2>2
        <3> QED BY <1>1, <1>3, <3>1
    <2> QED BY <2>1, <2>2
<1>5. \A i, j \in 1..(n + 1) : i # j => d[i] # d[j]
    BY <1>1, <1>2, <1>3
<1>6. (n + 1) - 1 = n /\ n + 1 \in Nat \ {0} /\ 1 \in 1..n
    BY <1>1
<1>7. IsWalk(g, p, d, n + 1)
    BY <1>1, <1>3, <1>4, <1>5, <1>6 DEF IsWalk
<1> QED BY <1>3, <1>7

\* The groups above p are those the chains lead to.
LEMMA AboveIsLastOfChains ==
    ASSUME NEW g, IsGraph(g), NEW p \in Principals, NEW q \in Above(g, p)
    PROVE  \E c \in Chains(g, p) : Last(c) = q
<1> DEFINE S == {r \in Principals : r = p \/ \E n, c : IsWalk(g, p, c, n) /\ c[n] = r}
<1>1. p \in S
    OBVIOUS
<1>2. ASSUME NEW e \in g.members, e[1] \in S PROVE e[2] \in S
    <2>1. e[2] \in Principals /\ MemberOf(g, e[1], e[2])
        BY GraphFacts DEF MemberOf
    <2>2. CASE e[2] = p
        BY <2>1, <2>2
    <2>3. CASE e[1] = p /\ e[2] # p
        <3> DEFINE c == [i \in 1..1 |-> e[2]]
        <3>1. c \in [1..1 -> Principals \ {p}] /\ c[1] = e[2]
            BY <2>1, <2>3
        <3> HIDE DEF c
        <3>2. IsWalk(g, p, c, 1)
            BY <2>1, <2>3, <3>1 DEF IsWalk
        <3> QED BY <2>1, <3>1, <3>2
    <2>4. CASE e[1] # p /\ e[2] # p
        <3>1. PICK n, c : IsWalk(g, p, c, n) /\ c[n] = e[1]
            BY <1>2, <2>4
        <3>2. CASE \E k \in 1..n : c[k] = e[2]
            <4>1. PICK k \in 1..n : c[k] = e[2]
                BY <3>2
            <4>2. \E d : IsWalk(g, p, d, k) /\ d[k] = e[2]
                BY <3>1, <4>1, WalkPrefix
            <4> QED BY <2>1, <4>2
        <3>3. CASE \A k \in 1..n : c[k] # e[2]
            <4>1. \E d : IsWalk(g, p, d, n + 1) /\ d[n + 1] = e[2]
                BY <2>1, <2>4, <3>1, <3>3, WalkOn
            <4> QED BY <2>1, <4>1
        <3> QED BY <3>2, <3>3
    <2> QED BY <2>2, <2>3, <2>4
<1>3. S \subseteq Principals /\ {p} \subseteq S /\ Closed(S, g.members)
    BY <1>1, <1>2 DEF Closed
<1> HIDE DEF S
<1>4. Reached({p}, g.members, Principals) \subseteq S
    BY <1>3, ReachedIsLeast
<1>5. q \in S /\ q # p
    BY <1>4 DEF Above
<1>6. PICK n, c : IsWalk(g, p, c, n) /\ c[n] = q
    BY <1>5 DEF S
<1> QED BY <1>6, WalkIsChain

----------------------------------------------------------------------------
(***************************************************************************)
(* Access paths.                                                           *)
(***************************************************************************)

LEMMA PathFacts ==
    ASSUME NEW g, NEW p, NEW x \in AccessPaths(g, p)
    PROVE  /\ x = [principal |-> p, chain |-> x.chain, assignment |-> x.assignment]
           /\ x.principal = p /\ p \in DOMAIN g.type
           /\ x.chain = <<>> \/ x.chain \in Chains(g, p)
           /\ x.assignment \in DOMAIN g.assigned
           /\ g.assigned[x.assignment].holder = GrantedVia(p, x.chain)
           /\ RoleOf(g, x) \in DOMAIN g.role
BY DEF AccessPaths, RoleOf

LEMMA IsAccessPath ==
    ASSUME NEW g, NEW p \in DOMAIN g.type, NEW c, c = <<>> \/ c \in Chains(g, p),
           NEW a \in DOMAIN g.assigned,
           g.assigned[a].holder = GrantedVia(p, c), g.assigned[a].role \in DOMAIN g.role
    PROVE  /\ [principal |-> p, chain |-> c, assignment |-> a] \in AccessPaths(g, p)
           /\ [principal |-> p, chain |-> c, assignment |-> a].principal = p
           /\ [principal |-> p, chain |-> c, assignment |-> a].chain = c
           /\ [principal |-> p, chain |-> c, assignment |-> a].assignment = a
BY DEF AccessPaths

LEMMA AllPathsFacts ==
    ASSUME NEW g, NEW x
    PROVE  x \in AllPaths(g) <=> x \in AccessPaths(g, x.principal)
<1>1. ASSUME x \in AllPaths(g) PROVE x \in AccessPaths(g, x.principal)
    <2>1. PICK p \in DOMAIN g.type : x \in AccessPaths(g, p)
        BY <1>1 DEF AllPaths
    <2> QED BY <2>1, PathFacts
<1>2. ASSUME x \in AccessPaths(g, x.principal) PROVE x \in AllPaths(g)
    BY <1>2, PathFacts DEF AllPaths
<1> QED BY <1>1, <1>2

\* A path by a group comes from an assignment to a group above the identity.
LEMMA GrantedViaGroup ==
    ASSUME NEW g, IsGraph(g), NEW p \in Principals, NEW c \in Chains(g, p)
    PROVE  /\ c # <<>> /\ Len(c) \in Nat \ {0}
           /\ GrantedVia(p, c) = Last(c) /\ GrantedVia(p, c) # p
           /\ GrantedVia(p, c) \in Above(g, p)
<1>1. c # <<>>
    BY DEF Chains
<1>2. Len(c) \in Nat \ {0} /\ Last(c) # p
    BY ChainIsWalk DEF IsWalk
<1> QED BY <1>1, <1>2, ChainIsAbove DEF GrantedVia

----------------------------------------------------------------------------
(***************************************************************************)
(* The findings.                                                           *)
(***************************************************************************)

LEMMA RulesOfFindings ==
    ASSUME NEW g, NEW paths
    PROVE  /\ \A f \in Direct("direct-owner", "owner", g, paths) : f.rule = "direct-owner"
           /\ \A f \in Direct("direct-contributor", "contributor", g, paths) :
                f.rule = "direct-contributor"
           /\ \A f \in UserAccessAdministrator(g, paths) : f.rule = "user-access-administrator"
           /\ \A f \in PrivilegedAt("privileged-at-management-group", "managementGroup", g) :
                f.rule = "privileged-at-management-group"
           /\ \A f \in PrivilegedAt("privileged-at-subscription", "subscription", g) :
                f.rule = "privileged-at-subscription"
           /\ \A f \in CustomRoleWildcard(g) : f.rule = "custom-role-wildcard"
           /\ \A f \in CustomRoleCanAssignRoles(g) : f.rule = "custom-role-can-assign-roles"
           /\ \A f \in UnusedCustomRole(g) : f.rule = "unused-custom-role"
           /\ \A f \in PrivilegedViaGroup(g, paths) : f.rule = "privileged-via-group"
           /\ \A f \in ServicePrincipalPrivileged(g, paths) : f.rule = "service-principal-privileged"
           /\ \A f \in MultiplePathsToSameAccess(g, paths) : f.rule = "multiple-paths-to-same-access"
           /\ \A f \in DuplicateAssignment(g) : f.rule = "duplicate-assignment"
           /\ \A f \in RedundantNarrowAssignment(g, paths) : f.rule = "redundant-narrow-assignment"
           /\ \A f \in WriteRoleAtBroadScope(g) : f.rule = "write-role-at-broad-scope"
<1>1. \A rule, x : OfPath(rule, g, x).rule = rule
    BY DEF OfPath
<1>2. \A rule, a : OfAssignment(rule, g, a).rule = rule
    BY DEF OfAssignment
<1>3. \A rule, r : OfRole(rule, r).rule = rule
    BY DEF OfRole
<1>4. /\ \A f \in Direct("direct-owner", "owner", g, paths) : f.rule = "direct-owner"
      /\ \A f \in Direct("direct-contributor", "contributor", g, paths) :
            f.rule = "direct-contributor"
      /\ \A f \in UserAccessAdministrator(g, paths) : f.rule = "user-access-administrator"
    BY <1>1 DEF Direct, UserAccessAdministrator
<1>5. /\ \A f \in PrivilegedAt("privileged-at-management-group", "managementGroup", g) :
            f.rule = "privileged-at-management-group"
      /\ \A f \in PrivilegedAt("privileged-at-subscription", "subscription", g) :
            f.rule = "privileged-at-subscription"
      /\ \A f \in DuplicateAssignment(g) : f.rule = "duplicate-assignment"
      /\ \A f \in WriteRoleAtBroadScope(g) : f.rule = "write-role-at-broad-scope"
    BY <1>2 DEF PrivilegedAt, DuplicateAssignment, WriteRoleAtBroadScope
<1>6. /\ \A f \in CustomRoleWildcard(g) : f.rule = "custom-role-wildcard"
      /\ \A f \in CustomRoleCanAssignRoles(g) : f.rule = "custom-role-can-assign-roles"
      /\ \A f \in UnusedCustomRole(g) : f.rule = "unused-custom-role"
    BY <1>3 DEF CustomRoleWildcard, CustomRoleCanAssignRoles, UnusedCustomRole
<1>7. /\ \A f \in PrivilegedViaGroup(g, paths) : f.rule = "privileged-via-group"
      /\ \A f \in ServicePrincipalPrivileged(g, paths) : f.rule = "service-principal-privileged"
    BY <1>1 DEF PrivilegedViaGroup, ServicePrincipalPrivileged
<1>8. /\ \A f \in MultiplePathsToSameAccess(g, paths) : f.rule = "multiple-paths-to-same-access"
      /\ \A f \in RedundantNarrowAssignment(g, paths) : f.rule = "redundant-narrow-assignment"
    BY <1>1 DEF MultiplePathsToSameAccess, RedundantNarrowAssignment
<1> QED BY <1>4, <1>5, <1>6, <1>7, <1>8

\* The findings of a rule are what the rule says, and not another one.
LEMMA FindingsOfRule ==
    ASSUME NEW g, NEW f
    PROVE  /\ f.rule = "privileged-via-group" =>
                (f \in Findings(g) <=> f \in PrivilegedViaGroup(g, AllPaths(g)))
           /\ f.rule = "service-principal-privileged" =>
                (f \in Findings(g) <=> f \in ServicePrincipalPrivileged(g, AllPaths(g)))
           /\ f.rule = "multiple-paths-to-same-access" =>
                (f \in Findings(g) <=> f \in MultiplePathsToSameAccess(g, AllPaths(g)))
           /\ f.rule = "redundant-narrow-assignment" =>
                (f \in Findings(g) <=> f \in RedundantNarrowAssignment(g, AllPaths(g)))
BY RulesOfFindings DEF Findings

\* What was found is what the rules say of the snapshot.
ReviewInv ==
    /\ graph \in Graphs /\ phase \in {"resolved", "reviewed"}
    /\ found = IF phase = "reviewed" THEN Findings(graph) ELSE {}

\* The rules are run once, over a snapshot that stays as it is.
THEOREM ReviewInvariant == Spec => []ReviewInv
<1>1. Init => ReviewInv
    BY DEF Init, ReviewInv
<1>2. ReviewInv /\ [Next]_vars => ReviewInv'
    BY DEF ReviewInv, Next, Evaluate, vars
<1> QED BY <1>1, <1>2, PTL DEF Spec

LEMMA ReviewedGraph == ReviewInv => IsGraph(graph)
BY ReviewAssumption DEF ReviewInv

----------------------------------------------------------------------------

LEMMA LinkOpensItsPathInv == ReviewInv => LinkOpensItsPath
<1> SUFFICES ASSUME ReviewInv, NEW x \in AllPaths(graph)
             PROVE  Opened(graph, x.principal, x.assignment, x.chain) = {x}
    BY DEF LinkOpensItsPath
<1> DEFINE p == x.principal
           all == Candidates(graph, p, x.assignment)
<1>1. x \in AccessPaths(graph, p) /\ x \in all
    BY AllPathsFacts DEF Candidates
<1>2. \A y \in all :
        /\ y = [principal |-> p, chain |-> y.chain, assignment |-> x.assignment]
        /\ y.chain = <<>> \/ y.chain \in Chains(graph, p)
    BY PathFacts DEF Candidates
<1>3. p \in Principals
    BY <1>1, PathFacts, ReviewedGraph, GraphFacts
<1>4. \A y \in all : y.chain = x.chain => y = x
    BY <1>1, <1>2
<1> HIDE DEF p, all
<1>5. CASE x.chain # <<>>
    BY <1>1, <1>4, <1>5 DEF Opened, p, all
<1>6. CASE x.chain = <<>>
    <2>1. Len(x.chain) = 0
        BY <1>6, EmptySeq
    <2>2. \A y \in all : Len(y.chain) \in Nat /\ (Len(y.chain) = 0 => y.chain = <<>>)
        BY <1>2, <1>3, <1>6, <2>1, ReviewedGraph, GrantedViaGroup
    <2>3. First(all) = {x}
        BY <1>1, <1>4, <1>6, <2>1, <2>2 DEF First
    <2> QED BY <1>6, <2>3 DEF Opened, p, all
<1> QED BY <1>5, <1>6

\* A link to a path opens that path, in every snapshot.
THEOREM LinksAreRight == Spec => []LinkOpensItsPath
<1> QED BY LinkOpensItsPathInv, ReviewInvariant, PTL

\* A finding names what is in the snapshot.
WellNamed(g, f) ==
    /\ DOMAIN f = {"rule", "principal", "role", "scope"}
    /\ f.principal \in DOMAIN g.type \cup {Nothing}
    /\ f.role \in DOMAIN g.role \cup {Nothing}
    /\ f.scope \in Scopes \cup {Nothing}

LEMMA FindingsAreWellNamed ==
    ASSUME NEW g, IsGraph(g), NEW f \in Findings(g)
    PROVE  WellNamed(g, f)
<1> DEFINE paths == AllPaths(g)
<1>1. ASSUME NEW rule, NEW x \in paths PROVE WellNamed(g, OfPath(rule, g, x))
    <2>1. /\ x.principal \in DOMAIN g.type /\ RoleOf(g, x) \in DOMAIN g.role
          /\ x.assignment \in DOMAIN g.assigned
        BY AllPathsFacts, PathFacts
    <2>2. ScopeOf(g, x) \in Scopes
        BY <2>1, GraphFacts DEF ScopeOf
    <2> QED BY <2>1, <2>2 DEF WellNamed, OfPath
<1>2. ASSUME NEW rule, NEW a \in DOMAIN g.assigned PROVE WellNamed(g, OfAssignment(rule, g, a))
    <2>1. g.assigned[a].scope \in Scopes
        BY GraphFacts
    <2> QED BY <2>1 DEF WellNamed, OfAssignment, Imported
<1>3. ASSUME NEW rule, NEW r \in DOMAIN g.role PROVE WellNamed(g, OfRole(rule, r))
    BY DEF WellNamed, OfRole
<1> HIDE DEF paths
<1>4. \A name, rule : \A h \in Direct(rule, name, g, paths) : WellNamed(g, h)
    BY <1>1 DEF Direct
<1>5. /\ \A h \in UserAccessAdministrator(g, paths) : WellNamed(g, h)
      /\ \A h \in PrivilegedViaGroup(g, paths) : WellNamed(g, h)
      /\ \A h \in ServicePrincipalPrivileged(g, paths) : WellNamed(g, h)
    BY <1>1 DEF UserAccessAdministrator, PrivilegedViaGroup, ServicePrincipalPrivileged
<1>6. /\ \A h \in MultiplePathsToSameAccess(g, paths) : WellNamed(g, h)
      /\ \A h \in RedundantNarrowAssignment(g, paths) : WellNamed(g, h)
    BY <1>1 DEF MultiplePathsToSameAccess, RedundantNarrowAssignment
<1>7. \A rule, kind : \A h \in PrivilegedAt(rule, kind, g) : WellNamed(g, h)
    BY <1>2 DEF PrivilegedAt, AssignedAt
<1>8. /\ \A h \in DuplicateAssignment(g) : WellNamed(g, h)
      /\ \A h \in WriteRoleAtBroadScope(g) : WellNamed(g, h)
    BY <1>2 DEF DuplicateAssignment, WriteRoleAtBroadScope, AssignedAt
<1>9. /\ \A h \in CustomRoleWildcard(g) : WellNamed(g, h)
      /\ \A h \in CustomRoleCanAssignRoles(g) : WellNamed(g, h)
      /\ \A h \in UnusedCustomRole(g) : WellNamed(g, h)
    BY <1>3 DEF CustomRoleWildcard, CustomRoleCanAssignRoles, UnusedCustomRole, CustomRoles
<1> QED BY <1>4, <1>5, <1>6, <1>7, <1>8, <1>9 DEF Findings, paths

\* The findings name identities, roles and scopes of the snapshot.
THEOREM ReviewTypeCorrect == Spec => []TypeOK
<1>1. ReviewInv => TypeOK
    BY ReviewedGraph, FindingsAreWellNamed DEF ReviewInv, TypeOK, WellNamed
<1> QED BY <1>1, ReviewInvariant, PTL

----------------------------------------------------------------------------
(***************************************************************************)
(* Privilege by membership.                                                *)
(***************************************************************************)

\* Someone comes to a role at a scope by a group if and only if it is assigned
\* to a group above him.
LEMMA PathsByGroup ==
    ASSUME NEW g, IsGraph(g), NEW p \in DOMAIN g.type, NEW r \in DOMAIN g.role, NEW s
    PROVE  (\E x \in AccessPaths(g, p) : x.chain # <<>> /\ RoleOf(g, x) = r /\ ScopeOf(g, x) = s)
            <=> \E a \in Grants(g, r, s) : g.assigned[a].holder \in Above(g, p)
<1>1. p \in Principals
    BY GraphFacts
<1>2. ASSUME NEW x \in AccessPaths(g, p), x.chain # <<>>, RoleOf(g, x) = r, ScopeOf(g, x) = s
      PROVE  \E a \in Grants(g, r, s) : g.assigned[a].holder \in Above(g, p)
    <2>1. /\ x.chain \in Chains(g, p) /\ x.assignment \in DOMAIN g.assigned
          /\ g.assigned[x.assignment].holder = GrantedVia(p, x.chain)
        BY <1>2, PathFacts
    <2>2. x.assignment \in Grants(g, r, s)
        BY <1>2, <2>1 DEF Grants, RoleOf, ScopeOf
    <2> QED BY <1>1, <2>1, <2>2, GrantedViaGroup
<1>3. ASSUME NEW a \in Grants(g, r, s), g.assigned[a].holder \in Above(g, p)
      PROVE  \E x \in AccessPaths(g, p) :
                x.chain # <<>> /\ RoleOf(g, x) = r /\ ScopeOf(g, x) = s
    <2>1. PICK c \in Chains(g, p) : Last(c) = g.assigned[a].holder
        BY <1>1, <1>3, AboveIsLastOfChains
    <2>2. c # <<>> /\ GrantedVia(p, c) = g.assigned[a].holder
        BY <1>1, <2>1, GrantedViaGroup
    <2>3. a \in DOMAIN g.assigned /\ g.assigned[a].role = r /\ g.assigned[a].scope = s
        BY DEF Grants
    <2> DEFINE x == [principal |-> p, chain |-> c, assignment |-> a]
    <2>4. x \in AccessPaths(g, p) /\ x.chain = c /\ x.assignment = a
        BY <2>2, <2>3, IsAccessPath
    <2> HIDE DEF x
    <2> QED BY <2>2, <2>3, <2>4 DEF RoleOf, ScopeOf
<1> QED BY <1>2, <1>3

\* And directly if and only if it is assigned to him.
LEMMA DirectPaths ==
    ASSUME NEW g, IsGraph(g), NEW p \in DOMAIN g.type, NEW r \in DOMAIN g.role, NEW s
    PROVE  (\E x \in AccessPaths(g, p) : x.chain = <<>> /\ RoleOf(g, x) = r /\ ScopeOf(g, x) = s)
            <=> \E a \in Grants(g, r, s) : g.assigned[a].holder = p
<1>1. ASSUME NEW x \in AccessPaths(g, p), x.chain = <<>>, RoleOf(g, x) = r, ScopeOf(g, x) = s
      PROVE  \E a \in Grants(g, r, s) : g.assigned[a].holder = p
    <2>1. /\ x.assignment \in DOMAIN g.assigned
          /\ g.assigned[x.assignment].holder = p
        BY <1>1, PathFacts DEF GrantedVia
    <2> QED BY <1>1, <2>1 DEF Grants, RoleOf, ScopeOf
<1>2. ASSUME NEW a \in Grants(g, r, s), g.assigned[a].holder = p
      PROVE  \E x \in AccessPaths(g, p) :
                x.chain = <<>> /\ RoleOf(g, x) = r /\ ScopeOf(g, x) = s
    <2>1. a \in DOMAIN g.assigned /\ g.assigned[a].role = r /\ g.assigned[a].scope = s
        BY DEF Grants
    <2>2. GrantedVia(p, <<>>) = p
        BY DEF GrantedVia
    <2> DEFINE x == [principal |-> p, chain |-> <<>>, assignment |-> a]
    <2>3. x \in AccessPaths(g, p) /\ x.chain = <<>> /\ x.assignment = a
        BY <1>2, <2>1, <2>2, IsAccessPath
    <2> HIDE DEF x
    <2> QED BY <2>1, <2>3 DEF RoleOf, ScopeOf
<1> QED BY <1>1, <1>2

LEMMA PrivilegeIsReportedInv == ReviewInv => PrivilegeIsReported
<1> SUFFICES ASSUME ReviewInv, phase = "reviewed",
                    NEW p \in DOMAIN graph.type, NEW r \in DOMAIN graph.role, NEW s \in Scopes
             PROVE
                LET reported(rule) ==
                        [rule |-> rule, principal |-> p, role |-> r, scope |-> s] \in found
                    given(holders) ==
                        /\ graph.role[r].privileged
                        /\ \E a \in Grants(graph, r, s) : graph.assigned[a].holder \in holders
                IN  /\ reported("privileged-via-group") <=>
                            graph.type[p] # "group" /\ given(Above(graph, p))
                    /\ reported("service-principal-privileged") <=>
                            /\ graph.type[p] \in {"servicePrincipal", "managedIdentity"}
                            /\ given(Above(graph, p) \cup {p})
    BY DEF PrivilegeIsReported
<1> DEFINE key(rule) == [rule |-> rule, principal |-> p, role |-> r, scope |-> s]
           mine == {x \in AccessPaths(graph, p) : RoleOf(graph, x) = r /\ ScopeOf(graph, x) = s}
<1>1. IsGraph(graph) /\ found = Findings(graph)
    BY ReviewedGraph DEF ReviewInv
<1>2. /\ key("privileged-via-group") \in found
            <=> key("privileged-via-group") \in PrivilegedViaGroup(graph, AllPaths(graph))
      /\ key("service-principal-privileged") \in found
            <=> key("service-principal-privileged") \in ServicePrincipalPrivileged(graph, AllPaths(graph))
    BY <1>1, FindingsOfRule
<1>3. ASSUME NEW rule, NEW x \in AllPaths(graph)
      PROVE  key(rule) = OfPath(rule, graph, x) <=> x \in mine
    <2>1. x \in AccessPaths(graph, x.principal) /\ \A q : x \in AccessPaths(graph, q) => x.principal = q
        BY AllPathsFacts, PathFacts
    <2>2. OfPath(rule, graph, x) = key(rule) <=>
            x.principal = p /\ RoleOf(graph, x) = r /\ ScopeOf(graph, x) = s
        BY DEF OfPath
    <2> QED BY <2>1, <2>2
<1>4. \A x \in mine : x \in AllPaths(graph) /\ x.principal = p
                        /\ FactsOf(graph, x) = graph.role[r]
    BY AllPathsFacts, PathFacts DEF FactsOf
<1> HIDE DEF mine, key
<1>5. key("privileged-via-group") \in PrivilegedViaGroup(graph, AllPaths(graph)) <=>
        graph.type[p] # "group" /\ graph.role[r].privileged /\ \E x \in mine : x.chain # <<>>
    BY <1>3, <1>4 DEF PrivilegedViaGroup
<1>6. key("service-principal-privileged") \in ServicePrincipalPrivileged(graph, AllPaths(graph)) <=>
        /\ graph.type[p] \in {"servicePrincipal", "managedIdentity"}
        /\ graph.role[r].privileged /\ mine # {}
    BY <1>3, <1>4 DEF ServicePrincipalPrivileged
<1>7. (\E x \in mine : x.chain # <<>>) <=>
            \E a \in Grants(graph, r, s) : graph.assigned[a].holder \in Above(graph, p)
    BY <1>1, PathsByGroup DEF mine
<1>8. (\E x \in mine : x.chain = <<>>) <=>
            \E a \in Grants(graph, r, s) : graph.assigned[a].holder = p
    BY <1>1, DirectPaths DEF mine
<1>9. mine # {} <=>
            \E a \in Grants(graph, r, s) : graph.assigned[a].holder \in Above(graph, p) \cup {p}
    BY <1>7, <1>8
<1> QED BY <1>2, <1>5, <1>6, <1>7, <1>9 DEF key

\* Nobody who is privileged by a membership is missed and nobody else is
\* accused, for any nesting of groups.
THEOREM PrivilegeIsFound == Spec => []PrivilegeIsReported
<1> QED BY PrivilegeIsReportedInv, ReviewInvariant, PTL

----------------------------------------------------------------------------
(***************************************************************************)
(* Revoking.                                                               *)
(***************************************************************************)

\* Without some assignments the memberships and the hierarchy are what they
\* were, and an identity has the paths of the other assignments.
LEMMA WithoutFacts ==
    ASSUME NEW g, IsGraph(g), NEW as
    PROVE  LET less == Without(g, as) IN
           /\ less.type = g.type /\ less.role = g.role
           /\ less.members = g.members /\ less.parent = g.parent
           /\ DOMAIN less.assigned = DOMAIN g.assigned \ as
           /\ \A a \in DOMAIN less.assigned : less.assigned[a] = g.assigned[a]
BY DEF Without, IsGraph

LEMMA PathsWithout ==
    ASSUME NEW g, IsGraph(g), NEW as, NEW p
    PROVE  /\ AccessPaths(Without(g, as), p) = {x \in AccessPaths(g, p) : x.assignment \notin as}
           /\ \A x \in AccessPaths(Without(g, as), p) :
                RoleOf(Without(g, as), x) = RoleOf(g, x) /\ ScopeOf(Without(g, as), x) = ScopeOf(g, x)
           /\ \A s, t : Covers(Without(g, as), s, t) = Covers(g, s, t)
<1> DEFINE less == Without(g, as)
<1>1. /\ less.type = g.type /\ less.role = g.role
      /\ less.members = g.members /\ less.parent = g.parent
      /\ DOMAIN less.assigned = DOMAIN g.assigned \ as
      /\ \A a \in DOMAIN less.assigned : less.assigned[a] = g.assigned[a]
    BY WithoutFacts
<1> HIDE DEF less
<1>2. Chains(less, p) = Chains(g, p)
    BY <1>1 DEF Chains, MemberOf
<1>3. ASSUME NEW x PROVE x \in AccessPaths(less, p) <=> x \in AccessPaths(g, p) /\ x.assignment \notin as
    BY <1>1, <1>2 DEF AccessPaths
<1>4. \A x \in AccessPaths(less, p) : RoleOf(less, x) = RoleOf(g, x) /\ ScopeOf(less, x) = ScopeOf(g, x)
    BY <1>1, PathFacts DEF RoleOf, ScopeOf
<1>5. \A s, t : Covers(less, s, t) = Covers(g, s, t)
    BY <1>1 DEF Covers, Ancestors, Parents
<1>6. AccessPaths(less, p) = {x \in AccessPaths(g, p) : x.assignment \notin as}
    BY <1>3
<1> QED BY <1>4, <1>5, <1>6 DEF less

\* A route without groups is not one with groups.
LEMMA EmptyRoute ==
    ASSUME NEW g, IsGraph(g), NEW p, NEW x \in AccessPaths(g, p), NEW y \in AccessPaths(g, p)
    PROVE  /\ x.chain = <<>> /\ y.chain = <<>> => Route(g, x) = Route(g, y)
           /\ x.chain = <<>> /\ y.chain # <<>> => Route(g, x) # Route(g, y)
<1>1. DOMAIN Route(g, x) = 1..Len(x.chain) /\ DOMAIN Route(g, y) = 1..Len(y.chain)
    BY DEF Route
<1>2. x.chain = <<>> /\ y.chain = <<>> => Route(g, x) = Route(g, y)
    BY DEF Route
<1>3. ASSUME x.chain = <<>>, y.chain # <<>> PROVE Route(g, x) # Route(g, y)
    <2>1. p \in Principals /\ y.chain \in Chains(g, p)
        BY <1>3, PathFacts, GraphFacts
    <2>2. Len(y.chain) \in Nat \ {0} /\ Len(x.chain) = 0
        BY <1>3, <2>1, GrantedViaGroup, EmptySeq
    <2>3. 1 \in 1..Len(y.chain) /\ 1 \notin 1..Len(x.chain)
        BY <2>2
    <2> QED BY <1>1, <2>3
<1> QED BY <1>2, <1>3

LEMMA RevokingDirectKeepsAccessInv == ReviewInv => RevokingDirectKeepsAccess
<1> SUFFICES ASSUME ReviewInv, phase = "reviewed",
                    NEW p \in DOMAIN graph.type, NEW r \in DOMAIN graph.role, NEW s \in Scopes
             PROVE  LET direct == {a \in Grants(graph, r, s) : graph.assigned[a].holder = p}
                        after == Without(graph, direct)
                    IN  direct # {} =>
                            ([rule |-> "multiple-paths-to-same-access",
                              principal |-> p, role |-> r, scope |-> s] \in found
                             <=> \E x \in AccessPaths(after, p) :
                                    RoleOf(after, x) = r /\ ScopeOf(after, x) = s)
    BY DEF RevokingDirectKeepsAccess
<1> DEFINE direct == {a \in Grants(graph, r, s) : graph.assigned[a].holder = p}
           after == Without(graph, direct)
           key == [rule |-> "multiple-paths-to-same-access", principal |-> p, role |-> r, scope |-> s]
           kept == {x \in AccessPaths(graph, p) : x.assignment \notin direct
                                                    /\ RoleOf(graph, x) = r /\ ScopeOf(graph, x) = s}
<1> SUFFICES ASSUME direct # {}
             PROVE  key \in found
                    <=> \E x \in AccessPaths(after, p) : RoleOf(after, x) = r /\ ScopeOf(after, x) = s
    OBVIOUS
<1>1. IsGraph(graph) /\ found = Findings(graph)
    BY ReviewedGraph DEF ReviewInv
<1>2. p \in Principals
    BY <1>1, GraphFacts
<1>3. kept # {} <=> \E x \in AccessPaths(after, p) : RoleOf(after, x) = r /\ ScopeOf(after, x) = s
    <2> HIDE DEF direct
    <2>1. /\ AccessPaths(after, p) = {x \in AccessPaths(graph, p) : x.assignment \notin direct}
          /\ \A x \in AccessPaths(after, p) :
                RoleOf(after, x) = RoleOf(graph, x) /\ ScopeOf(after, x) = ScopeOf(graph, x)
        BY <1>1, PathsWithout
    <2> HIDE DEF after
    <2> QED BY <2>1
<1>4. key \in found <=> key \in MultiplePathsToSameAccess(graph, AllPaths(graph))
    BY <1>1, FindingsOfRule
<1>5. key \in MultiplePathsToSameAccess(graph, AllPaths(graph)) <=>
        \E x, y \in AccessPaths(graph, p) :
            /\ RoleOf(graph, x) = r /\ ScopeOf(graph, x) = s
            /\ RoleOf(graph, y) = r /\ ScopeOf(graph, y) = s
            /\ Route(graph, x) # Route(graph, y)
    <2>1. key \in MultiplePathsToSameAccess(graph, AllPaths(graph)) <=>
            \E x \in AllPaths(graph) :
                /\ key = OfPath("multiple-paths-to-same-access", graph, x)
                /\ \E y \in AllPaths(graph) :
                    SameGrant(graph, x, y) /\ Route(graph, x) # Route(graph, y)
        BY DEF MultiplePathsToSameAccess
    <2>2. \A x : key = OfPath("multiple-paths-to-same-access", graph, x) <=>
            x.principal = p /\ RoleOf(graph, x) = r /\ ScopeOf(graph, x) = s
        BY DEF OfPath
    <2>3. \A x : x \in AllPaths(graph) /\ x.principal = p <=> x \in AccessPaths(graph, p)
        BY AllPathsFacts, PathFacts
    <2> HIDE DEF key
    <2> QED BY <2>1, <2>2, <2>3 DEF SameGrant
<1>6. ASSUME NEW x \in AccessPaths(graph, p), RoleOf(graph, x) = r, ScopeOf(graph, x) = s
      PROVE  x \in kept <=> x.chain # <<>>
    <2>1. x.assignment \in Grants(graph, r, s)
        BY <1>6, PathFacts DEF Grants, RoleOf, ScopeOf
    <2>2. x.assignment \in direct <=> GrantedVia(p, x.chain) = p
        BY <2>1, PathFacts
    <2>3. GrantedVia(p, x.chain) = p <=> x.chain = <<>>
        BY <1>1, <1>2, PathFacts, GrantedViaGroup DEF GrantedVia
    <2> QED BY <1>6, <2>2, <2>3
<1>7. PICK z \in AccessPaths(graph, p) :
            z.chain = <<>> /\ RoleOf(graph, z) = r /\ ScopeOf(graph, z) = s
    BY <1>1, DirectPaths
<1>8. ASSUME kept # {} PROVE key \in found
    <2>1. PICK x \in kept : x.chain # <<>>
        BY <1>6, <1>8
    <2>2. Route(graph, z) # Route(graph, x)
        BY <1>1, <1>7, <2>1, EmptyRoute
    <2> QED BY <1>4, <1>5, <1>7, <2>1, <2>2
<1>9. ASSUME key \in found PROVE kept # {}
    <2>1. PICK x, y \in AccessPaths(graph, p) :
            /\ RoleOf(graph, x) = r /\ ScopeOf(graph, x) = s
            /\ RoleOf(graph, y) = r /\ ScopeOf(graph, y) = s
            /\ Route(graph, x) # Route(graph, y)
        BY <1>4, <1>5, <1>9
    <2>2. x.chain # <<>> \/ y.chain # <<>>
        BY <1>1, <2>1, EmptyRoute
    <2> QED BY <1>6, <2>1, <2>2
<1> QED BY <1>3, <1>8, <1>9

\* Of the identities with a role of their own, exactly those that keep it by a
\* group once it is revoked are reported to have a second route.
THEOREM SecondRouteIsReal == Spec => []RevokingDirectKeepsAccess
<1> QED BY RevokingDirectKeepsAccessInv, ReviewInvariant, PTL

LEMMA RedundantForHolderInv == ReviewInv => RedundantForHolder
<1> SUFFICES ASSUME ReviewInv, NEW f \in found, f.rule = "redundant-narrow-assignment"
             PROVE  Access(Without(graph, Grants(graph, f.role, f.scope)), f.principal)
                        = Access(graph, f.principal)
    BY DEF RedundantForHolder
<1> DEFINE gone == Grants(graph, f.role, f.scope)
           less == Without(graph, gone)
           p == f.principal
           may(g, x) == {RoleOf(g, x)} \X {t \in Scopes : Covers(g, ScopeOf(g, x), t)}
<1>1. IsGraph(graph) /\ f \in Findings(graph)
    BY ReviewedGraph DEF ReviewInv
<1>2. PICK y, z \in AllPaths(graph) :
        /\ z.principal = y.principal /\ RoleOf(graph, z) = RoleOf(graph, y)
        /\ ScopeOf(graph, z) \in Ancestors(graph, ScopeOf(graph, y))
        /\ f = OfPath("redundant-narrow-assignment", graph, y)
    BY <1>1, FindingsOfRule DEF RedundantNarrowAssignment
<1>3. /\ y \in AccessPaths(graph, p) /\ z \in AccessPaths(graph, p)
      /\ RoleOf(graph, z) = f.role /\ ScopeOf(graph, z) \in Ancestors(graph, f.scope)
    BY <1>2, AllPathsFacts DEF OfPath
<1>4. ScopeOf(graph, z) # f.scope
    BY <1>3 DEF Ancestors
<1>5. z.assignment \notin gone
    BY <1>4 DEF Grants, ScopeOf
<1>6. /\ AccessPaths(less, p) = {x \in AccessPaths(graph, p) : x.assignment \notin gone}
      /\ \A x \in AccessPaths(less, p) : may(less, x) = may(graph, x)
    BY <1>1, PathsWithout
<1>7. ASSUME NEW x \in AccessPaths(graph, p), x.assignment \in gone
      PROVE  may(graph, x) \subseteq may(graph, z)
    <2>1. RoleOf(graph, x) = f.role /\ ScopeOf(graph, x) = f.scope
        BY <1>7 DEF Grants, RoleOf, ScopeOf
    <2>2. \A t \in Scopes : Covers(graph, f.scope, t) => Covers(graph, ScopeOf(graph, z), t)
        BY <1>1, <1>3, CoversIsTransitive
    <2> QED BY <1>3, <2>1, <2>2
<1> HIDE DEF gone, less, p, may
<1>8. UNION {may(less, x) : x \in AccessPaths(less, p)} = UNION {may(graph, x) : x \in AccessPaths(graph, p)}
    <2>1. ASSUME NEW x \in AccessPaths(less, p)
          PROVE  x \in AccessPaths(graph, p) /\ may(less, x) = may(graph, x)
        BY <1>6
    <2>2. ASSUME NEW x \in AccessPaths(graph, p)
          PROVE  \E v \in AccessPaths(less, p) : may(graph, x) \subseteq may(less, v)
        <3>1. CASE x.assignment \notin gone
            BY <1>6, <3>1
        <3>2. CASE x.assignment \in gone
            BY <1>3, <1>5, <1>6, <1>7, <3>2
        <3> QED BY <3>1, <3>2
    <2> QED BY <2>1, <2>2
<1> QED BY <1>8 DEF Access, gone, less, p, may

\* A redundant assignment grants nothing extra to the identity of the finding,
\* for any nesting of groups and any cycle of management groups.
THEOREM RedundantIsHarmless == Spec => []RedundantForHolder
<1> QED BY RedundantForHolderInv, ReviewInvariant, PTL

----------------------------------------------------------------------------
(***************************************************************************)
(* The pages.                                                              *)
(***************************************************************************)

\* The row of the page of an identity that a path is in, and all such rows.
GrantOf(g, x) ==
    [role |-> RoleOf(g, x), scope |-> ScopeOf(g, x),
     direct |-> \E y \in AccessPaths(g, x.principal) : SameGrant(g, x, y) /\ y.chain = <<>>,
     reach |-> Subtree(g, ScopeOf(g, x))]

Held(g, x) == [principal |-> x.principal, row |-> GrantOf(g, x)]

GrantsShown(g) ==
    UNION {{[principal |-> p, row |-> row] : row \in GrantRows(g, p)} : p \in DOMAIN g.type}

LEMMA HeldFacts ==
    ASSUME NEW g, NEW x
    PROVE  /\ Held(g, x).principal = x.principal
           /\ Held(g, x).row.role = RoleOf(g, x) /\ Held(g, x).row.scope = ScopeOf(g, x)
           /\ Held(g, x).row.reach = Subtree(g, ScopeOf(g, x))
           /\ Held(g, x).row = GrantOf(g, x)
           /\ GrantOf(g, x).scope = ScopeOf(g, x) /\ GrantOf(g, x).role = RoleOf(g, x)
           /\ GrantOf(g, x).direct <=>
                \E y \in AccessPaths(g, x.principal) : SameGrant(g, x, y) /\ y.chain = <<>>
BY DEF Held, GrantOf

\* The pages of the identities have one row or another for every path.
LEMMA GrantsAreHeld ==
    ASSUME NEW g
    PROVE  GrantsShown(g) = {Held(g, x) : x \in AllPaths(g)}
<1>1. ASSUME NEW p PROVE GrantRows(g, p) = {GrantOf(g, x) : x \in AccessPaths(g, p)}
    <2>1. \A x \in AccessPaths(g, p) : x.principal = p
        BY PathFacts
    <2>2. \A x \in AccessPaths(g, p) :
            GrantOf(g, x) =
                [role |-> RoleOf(g, x), scope |-> ScopeOf(g, x),
                 direct |-> \E y \in AccessPaths(g, p) : SameGrant(g, x, y) /\ y.chain = <<>>,
                 reach |-> Subtree(g, ScopeOf(g, x))]
        BY <2>1 DEF GrantOf
    <2> QED BY <2>2 DEF GrantRows
<1>2. ASSUME NEW h \in GrantsShown(g) PROVE \E x \in AllPaths(g) : h = Held(g, x)
    <2>1. PICK p \in DOMAIN g.type : \E row \in GrantRows(g, p) : h = [principal |-> p, row |-> row]
        BY <1>2 DEF GrantsShown
    <2>2. PICK x \in AccessPaths(g, p) : h = [principal |-> p, row |-> GrantOf(g, x)]
        BY <1>1, <2>1
    <2>3. x.principal = p /\ x \in AllPaths(g)
        BY <2>2, PathFacts, AllPathsFacts
    <2> QED BY <2>2, <2>3 DEF Held
<1>3. ASSUME NEW x \in AllPaths(g) PROVE Held(g, x) \in GrantsShown(g)
    <2>1. x \in AccessPaths(g, x.principal) /\ x.principal \in DOMAIN g.type
        BY AllPathsFacts, PathFacts
    <2>2. GrantOf(g, x) \in GrantRows(g, x.principal)
        BY <1>1, <2>1
    <2> QED BY <2>1, <2>2 DEF Held, GrantsShown
<1> QED BY <1>2, <1>3

\* The page of a scope is about the paths that reach it.
LEMMA ReachingPaths ==
    ASSUME NEW g, IsGraph(g), NEW s \in DOMAIN g.parent, NEW x
    PROVE  x \in PrincipalsWithAccessTo(g, s) <=>
            /\ x \in AllPaths(g)
            /\ ScopeOf(g, x) \in DOMAIN g.parent /\ s \in Subtree(g, ScopeOf(g, x))
<1>1. x \in PrincipalsWithAccessTo(g, s) <=> x \in AllPaths(g) /\ Covers(g, ScopeOf(g, x), s)
    BY AllPathsFacts, PathFacts DEF PrincipalsWithAccessTo, AccessAtScope
<1>2. ASSUME x \in AllPaths(g)
      PROVE  Covers(g, ScopeOf(g, x), s) <=>
                ScopeOf(g, x) \in DOMAIN g.parent /\ s \in Subtree(g, ScopeOf(g, x))
    <2>1. ScopeOf(g, x) \in Scopes
        BY <1>2, AllPathsFacts, PathFacts, GraphFacts DEF ScopeOf
    <2>2. s \in Scopes /\ s \in Subtree(g, s)
        BY GraphFacts, SubtreeFacts
    <2> QED BY <2>1, <2>2, CoversIsSubtree
<1> QED BY <1>1, <1>2

\* The rows of the page of a scope are those of these grants.
HasRowsOf(g, s, reaching) ==
    ScopeRows(g, s) =
        {[principal |-> h.principal, role |-> h.row.role,
          inherited |-> \A k \in reaching :
            k.principal = h.principal /\ k.row.role = h.row.role => k.row.scope # s] :
            h \in reaching}

\* And has the rows that the pages of the identities promise.
LEMMA ScopePage ==
    ASSUME NEW g, IsGraph(g), NEW s \in DOMAIN g.parent, NEW reaching,
           reaching = {h \in GrantsShown(g) : h.row.scope \in DOMAIN g.parent /\ s \in h.row.reach}
    PROVE  HasRowsOf(g, s, reaching)
<1> DEFINE paths == PrincipalsWithAccessTo(g, s)
           inherited(x) == \A y \in paths :
                y.principal = x.principal /\ RoleOf(g, y) = RoleOf(g, x) => ScopeOf(g, y) # s
           promised(h) == \A k \in reaching :
                k.principal = h.principal /\ k.row.role = h.row.role => k.row.scope # s
           shown(x) == [principal |-> x.principal, role |-> RoleOf(g, x), inherited |-> inherited(x)]
           told(h) == [principal |-> h.principal, role |-> h.row.role, inherited |-> promised(h)]
<1>1. reaching = {Held(g, x) : x \in paths}
    BY GrantsAreHeld, ReachingPaths, HeldFacts
<1> HIDE DEF paths
<1>2. ASSUME NEW x \in paths PROVE inherited(x) = promised(Held(g, x))
    BY <1>1, HeldFacts
<1> HIDE DEF inherited, promised
<1>3. \A x \in paths : shown(x) = told(Held(g, x))
    <2> SUFFICES ASSUME NEW x \in paths PROVE shown(x) = told(Held(g, x))
        OBVIOUS
    <2>1. inherited(x) = promised(Held(g, x))
        BY <1>2
    <2> QED BY <2>1, HeldFacts
<1>4. ScopeRows(g, s) = {shown(x) : x \in paths}
    BY DEF ScopeRows, paths, inherited
<1> HIDE DEF shown, told
<1>5. {shown(x) : x \in paths} = {told(h) : h \in reaching}
    BY <1>1, <1>3
<1> QED BY <1>4, <1>5 DEF told, promised, HasRowsOf

\* The page of a role has its holders, as their own pages show them.
LEMMA RolePage ==
    ASSUME NEW g, IsGraph(g), NEW r \in DOMAIN g.role,
           NEW held, held = {h \in GrantsShown(g) : h.row.role = r}
    PROVE  /\ {row.principal : row \in HolderRows(g, r)} = {h.principal : h \in held}
           /\ \A row \in HolderRows(g, r) :
                LET of == {h.row : h \in {k \in held : k.principal = row.principal}} IN
                /\ row.scopes = {grant.scope : grant \in of}
                /\ row.direct <=> \E grant \in of : grant.direct
                /\ row.via \subseteq Above(g, row.principal)
<1> DEFINE paths == AssigneesOfRole(g, r)
           of(p) == {x \in paths : x.principal = p}
           line(p) == [principal |-> p,
                       scopes |-> {ScopeOf(g, x) : x \in of(p)},
                       direct |-> \E x \in of(p) : x.chain = <<>>,
                       via |-> {GrantedVia(p, x.chain) : x \in {y \in of(p) : y.chain # <<>>}}]
<1>1. held = {Held(g, x) : x \in paths}
    BY GrantsAreHeld, HeldFacts DEF AssigneesOfRole
<1>2. HolderRows(g, r) = {line(p) : p \in {x.principal : x \in paths}}
    BY DEF HolderRows
<1>3. {row.principal : row \in HolderRows(g, r)} = {h.principal : h \in held}
    <2>1. \A p : line(p).principal = p
        OBVIOUS
    <2>2. \A x \in paths : Held(g, x).principal = x.principal
        BY HeldFacts
    <2> HIDE DEF line, paths
    <2>3. {row.principal : row \in HolderRows(g, r)} = {x.principal : x \in paths}
        <3> DEFINE holders == {x.principal : x \in paths}
        <3>1. HolderRows(g, r) = {line(p) : p \in holders}
            BY <1>2
        <3> HIDE DEF holders
        <3>2. {row.principal : row \in HolderRows(g, r)} = holders
            BY <2>1, <3>1
        <3> QED BY <3>2 DEF holders
    <2>4. {h.principal : h \in held} = {x.principal : x \in paths}
        BY <1>1, <2>2
    <2> QED BY <2>3, <2>4
<1>4. ASSUME NEW row \in HolderRows(g, r)
      PROVE  LET of1 == {h.row : h \in {k \in held : k.principal = row.principal}} IN
                /\ row.scopes = {grant.scope : grant \in of1}
                /\ row.direct <=> \E grant \in of1 : grant.direct
                /\ row.via \subseteq Above(g, row.principal)
    <2> DEFINE p == row.principal
               rows == {h.row : h \in {k \in held : k.principal = p}}
    <2>1. row = line(p)
        BY <1>2
    <2>2. /\ row.scopes = {ScopeOf(g, x) : x \in of(p)}
          /\ row.direct <=> \E x \in of(p) : x.chain = <<>>
          /\ row.via = {GrantedVia(p, x.chain) : x \in {y \in of(p) : y.chain # <<>>}}
        BY <2>1
    <2> HIDE DEF p
    <2>3. rows = {GrantOf(g, x) : x \in of(p)}
        BY <1>1, HeldFacts
    <2>4. \A x : x \in of(p) <=> x \in AccessPaths(g, p) /\ RoleOf(g, x) = r
        BY AllPathsFacts, PathFacts DEF AssigneesOfRole
    <2>5. ASSUME NEW x \in AccessPaths(g, p), x.chain # <<>>
          PROVE  GrantedVia(p, x.chain) \in Above(g, p)
        BY <2>5, PathFacts, GraphFacts, GrantedViaGroup
    <2> HIDE DEF rows, of
    <2>6. row.scopes = {grant.scope : grant \in rows}
        BY <2>2, <2>3, HeldFacts
    <2>7. (\E x \in of(p) : x.chain = <<>>) <=> \E grant \in rows : grant.direct
        <3>1. ASSUME NEW x \in of(p), x.chain = <<>> PROVE \E grant \in rows : grant.direct
            <4>1. SameGrant(g, x, x) /\ x \in AccessPaths(g, x.principal)
                BY <2>4, PathFacts DEF SameGrant
            <4>2. GrantOf(g, x).direct
                BY <3>1, <4>1, HeldFacts
            <4> QED BY <2>3, <4>2
        <3>2. ASSUME NEW grant \in rows, grant.direct PROVE \E x \in of(p) : x.chain = <<>>
            <4>1. PICK x \in of(p) : grant = GrantOf(g, x)
                BY <2>3
            <4>2. x.principal = p /\ RoleOf(g, x) = r
                BY <2>4, PathFacts
            <4>3. PICK y \in AccessPaths(g, p) : SameGrant(g, x, y) /\ y.chain = <<>>
                BY <3>2, <4>1, <4>2, HeldFacts
            <4>4. y \in of(p)
                BY <2>4, <4>2, <4>3 DEF SameGrant
            <4> QED BY <4>3, <4>4
        <3> QED BY <3>1, <3>2
    <2>8. row.via \subseteq Above(g, p)
        BY <2>2, <2>4, <2>5
    <2> QED BY <2>2, <2>6, <2>7, <2>8 DEF rows, p
<1> QED BY <1>3, <1>4

\* The privileged rows by a group are the findings about them.
LEMMA PrivilegedPage ==
    ASSUME NEW g, IsGraph(g), NEW byGroup, byGroup = {x \in PrivilegedRows(g) : x.chain # <<>>}
    PROVE  /\ {OfPath("privileged-via-group", g, x) : x \in byGroup}
                = {f \in Findings(g) : f.rule = "privileged-via-group"}
           /\ {q \in {GrantedVia(x.principal, x.chain) : x \in byGroup} :
                    q \in DOMAIN g.type /\ g.type[q] = "group"} \subseteq PrivilegedGroups(g)
<1>1. {OfPath("privileged-via-group", g, x) : x \in byGroup} = PrivilegedViaGroup(g, AllPaths(g))
    BY DEF PrivilegedViaGroup, PrivilegedRows
<1>2. \A f \in PrivilegedViaGroup(g, AllPaths(g)) : f.rule = "privileged-via-group"
    BY RulesOfFindings
<1>3. PrivilegedViaGroup(g, AllPaths(g)) = {f \in Findings(g) : f.rule = "privileged-via-group"}
    BY <1>2, FindingsOfRule
<1>4. ASSUME NEW x \in byGroup, GrantedVia(x.principal, x.chain) \in DOMAIN g.type,
             g.type[GrantedVia(x.principal, x.chain)] = "group"
      PROVE  GrantedVia(x.principal, x.chain) \in PrivilegedGroups(g)
    <2>1. x \in AccessPaths(g, x.principal) /\ FactsOf(g, x).privileged
        BY AllPathsFacts DEF PrivilegedRows
    <2>2. /\ x.assignment \in DOMAIN g.assigned
          /\ g.assigned[x.assignment].holder = GrantedVia(x.principal, x.chain)
          /\ RoleOf(g, x) \in DOMAIN g.role
        BY <2>1, PathFacts
    <2> QED BY <1>4, <2>1, <2>2 DEF PrivilegedGroups, FactsOf, RoleOf
<1> QED BY <1>1, <1>3, <1>4

LEMMA ScreensAgreeInv == ReviewInv => ScreensAgree
<1> SUFFICES ASSUME ReviewInv, phase = "reviewed" PROVE ScreensAgree
    BY DEF ScreensAgree
<1>1. IsGraph(graph) /\ found = Findings(graph)
    BY ReviewedGraph DEF ReviewInv
<1>2. \A s \in DOMAIN graph.parent :
        LET reaching == {h \in GrantsShown(graph) :
                            h.row.scope \in DOMAIN graph.parent /\ s \in h.row.reach} IN
        ScopeRows(graph, s) =
            {[principal |-> h.principal, role |-> h.row.role,
              inherited |-> \A k \in reaching :
                k.principal = h.principal /\ k.row.role = h.row.role => k.row.scope # s] :
                h \in reaching}
    <2> TAKE s \in DOMAIN graph.parent
    <2> DEFINE reaching == {h \in GrantsShown(graph) :
                                h.row.scope \in DOMAIN graph.parent /\ s \in h.row.reach}
    <2>1. reaching = {h \in GrantsShown(graph) :
                                h.row.scope \in DOMAIN graph.parent /\ s \in h.row.reach}
        OBVIOUS
    <2> HIDE DEF reaching
    <2>2. HasRowsOf(graph, s, reaching)
        BY <1>1, <2>1, ScopePage
    <2> QED BY <2>2 DEF reaching, HasRowsOf
<1>3. \A r \in DOMAIN graph.role :
        LET page == HolderRows(graph, r)
            held == {h \in GrantsShown(graph) : h.row.role = r}
        IN  /\ {row.principal : row \in page} = {h.principal : h \in held}
            /\ \A row \in page :
                LET of == {h.row : h \in {k \in held : k.principal = row.principal}} IN
                /\ row.scopes = {grant.scope : grant \in of}
                /\ row.direct <=> \E grant \in of : grant.direct
                /\ row.via \subseteq Above(graph, row.principal)
    BY <1>1, RolePage
<1>4. LET byGroup == {x \in PrivilegedRows(graph) : x.chain # <<>>} IN
      /\ {OfPath("privileged-via-group", graph, x) : x \in byGroup}
            = {f \in Findings(graph) : f.rule = "privileged-via-group"}
      /\ {q \in {GrantedVia(x.principal, x.chain) : x \in byGroup} :
                q \in DOMAIN graph.type /\ graph.type[q] = "group"} \subseteq PrivilegedGroups(graph)
    BY <1>1, PrivilegedPage
<1> QED BY <1>1, <1>2, <1>3, <1>4 DEF ScreensAgree, GrantsShown

\* The pages of identities, scopes, roles and privileged access tell one story,
\* and the one of the findings.
THEOREM PagesTellOneStory == Spec => []ScreensAgree
<1> QED BY ScreensAgreeInv, ReviewInvariant, PTL

----------------------------------------------------------------------------
(***************************************************************************)
(* The diagram: a column never holds more than there are rows, what is in  *)
(* it stays, and so what was full stays full.                              *)
(***************************************************************************)

\* The loop over the first n paths.
IsDrawn(d, g, paths, rows, n) ==
    d = [k \in 0..n |-> IF k = 0 THEN NoDiagram ELSE DrawPath(g, d[k - 1], paths[k], rows)]

LEMMA DrawingExists ==
    ASSUME NEW g, NEW paths, NEW rows, NEW n \in Nat
    PROVE  \E d : IsDrawn(d, g, paths, rows, n)
<1> DEFINE T == {k \in Nat : ~ \E d : IsDrawn(d, g, paths, rows, k)}
<1>1. ASSUME T # {} PROVE FALSE
    <2>1. PICK m \in T : \A k \in T : m <= k
        BY <1>1, LeastOf
    <2>2. CASE m = 0
        <3> DEFINE d == [k \in 0..0 |-> NoDiagram]
        <3>1. IsDrawn(d, g, paths, rows, 0)
            BY DEF IsDrawn
        <3> QED BY <2>1, <2>2, <3>1
    <2>3. CASE m # 0
        <3>1. m - 1 \in Nat /\ m - 1 \notin T
            BY <2>1, <2>3
        <3>2. PICK e : IsDrawn(e, g, paths, rows, m - 1)
            BY <3>1
        <3> DEFINE d == [k \in 0..m |-> IF k = 0 THEN NoDiagram
                                        ELSE DrawPath(g, e[k - 1], paths[k], rows)]
        <3>3. \A k \in 0..(m - 1) : e[k] = IF k = 0 THEN NoDiagram ELSE DrawPath(g, e[k - 1], paths[k], rows)
            BY <3>1, <3>2 DEF IsDrawn
        <3>4. \A k \in 0..(m - 1) : d[k] = e[k]
            BY <3>1, <3>3
        <3>5. \A k \in 0..m : k # 0 => k - 1 \in 0..(m - 1)
            BY <3>1
        <3>6. d = [k \in 0..m |-> IF k = 0 THEN NoDiagram ELSE DrawPath(g, d[k - 1], paths[k], rows)]
            BY <3>4, <3>5
        <3>7. IsDrawn(d, g, paths, rows, m)
            BY <3>6 DEF IsDrawn
        <3> HIDE DEF d
        <3> QED BY <2>1, <3>7
    <2> QED BY <2>2, <2>3
<1> QED BY <1>1

LEMMA DrawnFacts ==
    ASSUME NEW g, NEW paths, NEW rows, Len(paths) \in Nat
    PROVE  /\ Drawn(g, paths, rows)[0] = NoDiagram
           /\ \A k \in 1..Len(paths) :
                Drawn(g, paths, rows)[k] = DrawPath(g, Drawn(g, paths, rows)[k - 1], paths[k], rows)
<1>1. \E d : IsDrawn(d, g, paths, rows, Len(paths))
    BY DrawingExists
<1>2. IsDrawn(Drawn(g, paths, rows), g, paths, rows, Len(paths))
    <2>1. Drawn(g, paths, rows) = CHOOSE d : IsDrawn(d, g, paths, rows, Len(paths))
        BY DEF Drawn, IsDrawn
    <2> QED BY <1>1, <2>1
<1> DEFINE d == Drawn(g, paths, rows)
<1> HIDE DEF d
<1>3. d = [k \in 0..Len(paths) |-> IF k = 0 THEN NoDiagram ELSE DrawPath(g, d[k - 1], paths[k], rows)]
    BY <1>2 DEF IsDrawn, d
<1>4. d[0] = NoDiagram /\ \A k \in 1..Len(paths) : d[k] = DrawPath(g, d[k - 1], paths[k], rows)
    BY <1>3
<1> QED BY <1>4 DEF d

\* Columns never hold more than there are rows, and what is full stays as it is.
Bounded(column, rows) == IsFiniteSet(column) /\ Cardinality(column) <= rows

Full(column, ids, rows) == ids \ column # {} /\ Cardinality(column) = rows

LEMMA BoundedGrows ==
    ASSUME NEW column, NEW rows \in Nat, Bounded(column, rows), NEW e
    PROVE  /\ Fits(column, {e}, rows) => Bounded(column \cup {e}, rows)
           /\ ~ Fits(column, {e}, rows) => Full(column, {e}, rows)
<1>1. /\ Cardinality(column) \in Nat /\ IsFiniteSet(column \cup {e})
      /\ Cardinality(column \cup {e}) =
            IF e \in column THEN Cardinality(column) ELSE Cardinality(column) + 1
    BY FS_AddElement, FS_CardinalityType DEF Bounded
<1> QED BY <1>1 DEF Bounded, Full, Fits

LEMMA FullStays ==
    ASSUME NEW column, NEW more, NEW rows, NEW ids,
           Full(column, ids, rows), column \subseteq more, Bounded(more, rows)
    PROVE  Full(more, ids, rows)
<1>1. /\ IsFiniteSet(column) /\ Cardinality(column) <= Cardinality(more)
      /\ Cardinality(more) = Cardinality(column) => more = column
    BY FS_Subset DEF Bounded
<1>2. Cardinality(more) \in Nat /\ Cardinality(column) \in Nat
    BY <1>1, FS_CardinalityType DEF Bounded
<1> QED BY <1>1, <1>2 DEF Full, Bounded

LEMMA GreatestOf ==
    ASSUME NEW N \in Nat, NEW T \in SUBSET (0..N), T # {}
    PROVE  Max(T) \in T /\ \A n \in T : n <= Max(T)
<1> DEFINE U == {k \in Nat : N - k \in T}
<1>1. PICK t \in T : TRUE
    OBVIOUS
<1>2. t \in 0..N /\ N - t \in Nat /\ N - (N - t) = t
    BY <1>1
<1>3. U \in SUBSET Nat /\ U # {}
    BY <1>1, <1>2
<1>4. PICK m \in U : \A k \in U : m <= k
    <2> HIDE DEF U
    <2> QED BY <1>3, LeastOf
<1>5. N - m \in T /\ m \in Nat
    BY <1>4
<1>6. ASSUME NEW n \in T PROVE N - m >= n
    <2>1. n \in 0..N /\ N - n \in Nat /\ N - (N - n) = n
        BY <1>6
    <2>2. N - n \in U
        BY <2>1
    <2>3. m <= N - n
        BY <1>4, <2>2
    <2> HIDE DEF U
    <2> QED BY <1>5, <2>1, <2>3
<1>7. Max(T) \in T /\ \A n \in T : Max(T) >= n
    BY <1>5, <1>6 DEF Max
<1>8. \A n \in T : n \in Int
    OBVIOUS
<1> QED BY <1>7, <1>8

\* The first groups of a chain.
Nearest(chain, n) == {chain[k] : k \in 1..n}

LEMMA NearestFacts ==
    ASSUME NEW S, NEW chain \in Seq(S), NEW n \in 0..Len(chain)
    PROVE  /\ Range(SubSeq(chain, 1, n)) = Nearest(chain, n)
           /\ Range(chain) = Nearest(chain, Len(chain))
<1>1. Len(chain) \in Nat
    BY LenProperties
<1>2. SubSeq(chain, 1, n) = [k \in 1..n |-> chain[k]] /\ SubSeq(chain, 1, n) \in Seq(S)
    BY <1>1, SubSeqProperties
<1>3. Range(SubSeq(chain, 1, n)) = {SubSeq(chain, 1, n)[k] : k \in 1..n}
    BY <1>2 DEF Range
<1>4. Range(SubSeq(chain, 1, n)) = Nearest(chain, n)
    BY <1>2, <1>3 DEF Nearest
<1> QED BY <1>4, RangeEquality DEF Nearest

\* A chain is drawn to its end, or until the column of groups is full.
LEMMA DrawnGroupsFacts ==
    ASSUME NEW S, NEW chain \in Seq(S), NEW d, NEW rows \in Nat, Bounded(d.groups, rows)
    PROVE  LET n == DrawnGroups(d, chain, rows)
               drawn == d.groups \cup Nearest(chain, n)
           IN  /\ n \in 0..Len(chain) /\ Bounded(drawn, rows)
               /\ n # Len(chain) => Full(drawn, Range(chain), rows)
<1> DEFINE column(n) == d.groups \cup Nearest(chain, n)
           T == {n \in 0..Len(chain) : Cardinality(column(n)) <= rows}
           top == DrawnGroups(d, chain, rows)
<1>1. Len(chain) \in Nat
    BY LenProperties
<1>2. T = {n \in 0..Len(chain) : Fits(d.groups, Range(SubSeq(chain, 1, n)), rows)}
    BY NearestFacts DEF Fits
<1>3. Nearest(chain, 0) = {}
    BY DEF Nearest
<1>4. 0 \in T
    <2>1. column(0) = d.groups
        BY <1>3
    <2> HIDE DEF column
    <2>2. Cardinality(column(0)) <= rows
        BY <2>1 DEF Bounded
    <2> QED BY <1>1, <2>2
<1>5. top = Max(T)
    BY <1>2 DEF DrawnGroups
<1>6. top \in T /\ \A n \in T : n <= top
    <2>1. T \in SUBSET (0..Len(chain)) /\ T # {}
        BY <1>4
    <2> HIDE DEF T
    <2> QED BY <1>1, <1>5, <2>1, GreatestOf
<1>7. \A n \in Nat : IsFiniteSet(column(n))
    <2> SUFFICES ASSUME NEW n \in Nat PROVE IsFiniteSet(column(n))
        OBVIOUS
    <2>1. [k \in 1..n |-> chain[k]] \in Surjection(1..n, Nearest(chain, n))
        BY DEF Surjection, Nearest
    <2>2. IsFiniteSet(Nearest(chain, n))
        BY <2>1, FS_Interval, FS_Surjection
    <2> QED BY <2>2, FS_Union DEF Bounded
<1>8. top \in 0..Len(chain) /\ top \in Nat /\ Bounded(column(top), rows)
    BY <1>1, <1>6, <1>7 DEF Bounded
<1>9. ASSUME top # Len(chain) PROVE Full(column(top), Range(chain), rows)
    <2>1. top + 1 \in 0..Len(chain) /\ top + 1 \in 1..Len(chain) /\ ~ (top + 1 <= top)
        BY <1>1, <1>8, <1>9
    <2>2. ~ (Cardinality(column(top + 1)) <= rows)
        BY <1>6, <2>1
    <2>3. column(top + 1) = column(top) \cup {chain[top + 1]}
        <3>1. \A k : k \in 1..(top + 1) <=> k \in 1..top \/ k = top + 1
            BY <1>8
        <3> QED BY <3>1 DEF Nearest
    <2>4. ~ Fits(column(top), {chain[top + 1]}, rows)
        BY <2>2, <2>3 DEF Fits
    <2>5. Full(column(top), {chain[top + 1]}, rows)
        BY <1>8, <2>4, BoundedGrows
    <2>6. chain[top + 1] \in Range(chain)
        BY <1>1, <2>1, NearestFacts DEF Nearest
    <2> QED BY <2>5, <2>6 DEF Full
<1> QED BY <1>8, <1>9

\* The nodes and edges of a path that is drawn from one end to the other.
RoleNode(g, x) == <<"role", RoleOf(g, x)>>

Edges(g, x) ==
    {<<Node(x, k - 1), Node(x, k), FALSE>> : k \in 1..Len(x.chain)}
    \cup {<<Node(x, Len(x.chain)), RoleNode(g, x), FALSE>>,
          <<RoleNode(g, x), <<"scope", ScopeOf(g, x)>>, x.chain # <<>>>>}

\* A path is there, or lacks a node for which there was no room.
Shown(g, d, x, rows) ==
    \/ Edges(g, x) \subseteq d.edges
    \/ Full(d.groups, Range(x.chain), rows)
    \/ Full(d.roles, {RoleOf(g, x)}, rows)
    \/ Full(d.scopes, {ScopeOf(g, x)}, rows)

ColumnsBounded(d, rows) ==
    Bounded(d.groups, rows) /\ Bounded(d.roles, rows) /\ Bounded(d.scopes, rows)

Extends(d, e) ==
    /\ d.groups \subseteq e.groups /\ d.roles \subseteq e.roles
    /\ d.scopes \subseteq e.scopes /\ d.edges \subseteq e.edges

LEMMA ShownStays ==
    ASSUME NEW g, NEW x, NEW rows, NEW d, NEW e,
           Shown(g, d, x, rows), Extends(d, e), ColumnsBounded(e, rows)
    PROVE  Shown(g, e, x, rows)
<1>1. CASE Edges(g, x) \subseteq d.edges
    BY <1>1 DEF Shown, Extends
<1>2. CASE Full(d.groups, Range(x.chain), rows)
    BY <1>2, FullStays DEF Shown, Extends, ColumnsBounded
<1>3. CASE Full(d.roles, {RoleOf(g, x)}, rows)
    BY <1>3, FullStays DEF Shown, Extends, ColumnsBounded
<1>4. CASE Full(d.scopes, {ScopeOf(g, x)}, rows)
    BY <1>4, FullStays DEF Shown, Extends, ColumnsBounded
<1> QED BY <1>1, <1>2, <1>3, <1>4 DEF Shown

\* What the body of the loop does to the diagram.
LEMMA DrawPathFacts ==
    ASSUME NEW g, NEW S, NEW x, x.chain \in Seq(S), NEW rows \in Nat,
           NEW d, ColumnsBounded(d, rows)
    PROVE  LET e == DrawPath(g, d, x, rows) IN
           /\ ColumnsBounded(e, rows) /\ Extends(d, e)
           /\ e.edges \subseteq d.edges \cup Edges(g, x)
           /\ Shown(g, e, x, rows)
<1> DEFINE n == DrawnGroups(d, x.chain, rows)
           withRole == RoleDrawn(g, d, x, n, rows)
           withScope == withRole /\ Fits(d.scopes, {ScopeOf(g, x)}, rows)
           scopeEdge == <<RoleNode(g, x), <<"scope", ScopeOf(g, x)>>, x.chain # <<>>>>
           roleEdge == <<Node(x, n), RoleNode(g, x), FALSE>>
           steps == {<<Node(x, k - 1), Node(x, k), FALSE>> : k \in 1..n}
           e == DrawPath(g, d, x, rows)
<1>1. Len(x.chain) \in Nat
    BY LenProperties
<1>2. /\ n \in 0..Len(x.chain)
      /\ Range(SubSeq(x.chain, 1, n)) = Nearest(x.chain, n)
      /\ Bounded(d.groups \cup Nearest(x.chain, n), rows)
      /\ n # Len(x.chain) => Full(d.groups \cup Nearest(x.chain, n), Range(x.chain), rows)
    BY DrawnGroupsFacts, NearestFacts DEF ColumnsBounded
<1>3. /\ e.groups = d.groups \cup Nearest(x.chain, n)
      /\ e.roles = d.roles \cup {r \in {RoleOf(g, x)} : withRole}
      /\ e.scopes = d.scopes \cup {s \in {ScopeOf(g, x)} : withScope}
      /\ e.edges = d.edges \cup steps \cup {f \in {roleEdge} : withRole} \cup {f \in {scopeEdge} : withScope}
    BY <1>2 DEF DrawPath, RoleNode
<1>4. withRole <=> n = Len(x.chain) /\ Fits(d.roles, {RoleOf(g, x)}, rows)
    BY DEF RoleDrawn
<1>5. \A k \in 1..n : k \in 1..Len(x.chain)
    BY <1>1, <1>2
<1>6. /\ steps \subseteq Edges(g, x) /\ scopeEdge \in Edges(g, x)
      /\ n = Len(x.chain) => roleEdge \in Edges(g, x)
      /\ n = Len(x.chain) => Edges(g, x) = steps \cup {roleEdge, scopeEdge}
    <2> HIDE DEF n
    <2> QED BY <1>5 DEF Edges
<1>7. withScope <=> withRole /\ Fits(d.scopes, {ScopeOf(g, x)}, rows)
    OBVIOUS
<1> HIDE DEF e, n, withRole, withScope, steps, roleEdge, scopeEdge
<1>8. ColumnsBounded(e, rows)
    <2>1. Bounded(e.groups, rows)
        BY <1>2, <1>3
    <2>2. Bounded(e.roles, rows)
        <3>1. CASE withRole
            <4>1. e.roles = d.roles \cup {RoleOf(g, x)}
                BY <1>3, <3>1
            <4> QED BY <1>4, <3>1, <4>1, BoundedGrows DEF ColumnsBounded
        <3>2. CASE ~ withRole
            <4>1. e.roles = d.roles
                BY <1>3, <3>2
            <4> QED BY <4>1 DEF ColumnsBounded
        <3> QED BY <3>1, <3>2
    <2>3. Bounded(e.scopes, rows)
        <3>1. CASE withScope
            <4>1. e.scopes = d.scopes \cup {ScopeOf(g, x)}
                BY <1>3, <3>1
            <4> QED BY <1>7, <3>1, <4>1, BoundedGrows DEF ColumnsBounded
        <3>2. CASE ~ withScope
            <4>1. e.scopes = d.scopes
                BY <1>3, <3>2
            <4> QED BY <4>1 DEF ColumnsBounded
        <3> QED BY <3>1, <3>2
    <2> QED BY <2>1, <2>2, <2>3 DEF ColumnsBounded
<1>9. Extends(d, e)
    BY <1>3 DEF Extends
<1>10. e.edges \subseteq d.edges \cup Edges(g, x)
    BY <1>3, <1>4, <1>6, <1>7
<1>11. Shown(g, e, x, rows)
    <2>1. CASE n # Len(x.chain)
        BY <1>2, <1>3, <2>1 DEF Shown
    <2>2. CASE n = Len(x.chain) /\ ~ withRole
        <3>1. Full(d.roles, {RoleOf(g, x)}, rows)
            BY <1>4, <2>2, BoundedGrows DEF ColumnsBounded
        <3>2. Full(e.roles, {RoleOf(g, x)}, rows)
            BY <1>8, <1>9, <3>1, FullStays DEF Extends, ColumnsBounded
        <3> QED BY <3>2 DEF Shown
    <2>3. CASE n = Len(x.chain) /\ withRole /\ ~ withScope
        <3>1. Full(d.scopes, {ScopeOf(g, x)}, rows)
            BY <1>7, <2>3, BoundedGrows DEF ColumnsBounded
        <3>2. Full(e.scopes, {ScopeOf(g, x)}, rows)
            BY <1>8, <1>9, <3>1, FullStays DEF Extends, ColumnsBounded
        <3> QED BY <3>2 DEF Shown
    <2>4. CASE n = Len(x.chain) /\ withRole /\ withScope
        BY <1>3, <1>6, <2>4 DEF Shown
    <2> QED BY <2>1, <2>2, <2>3, <2>4
<1> QED BY <1>8, <1>9, <1>10, <1>11 DEF e

\* After n paths.
LoopInv(g, paths, rows, n) ==
    LET d == Drawn(g, paths, rows)[n] IN
    /\ ColumnsBounded(d, rows)
    /\ \A f \in d.edges : \E k \in 1..n : f \in Edges(g, paths[k])
    /\ \A k \in 1..n : Shown(g, d, paths[k], rows)

LEMMA LoopKeepsInv ==
    ASSUME NEW g, NEW paths, Len(paths) \in Nat, NEW rows \in Nat,
           NEW S, \A k \in 1..Len(paths) : paths[k].chain \in Seq(S)
    PROVE  \A n \in 0..Len(paths) : LoopInv(g, paths, rows, n)
<1> DEFINE T == {n \in 0..Len(paths) : ~ LoopInv(g, paths, rows, n)}
           d(n) == Drawn(g, paths, rows)[n]
<1> SUFFICES ASSUME T # {} PROVE FALSE
    OBVIOUS
<1>1. PICK m \in T : \A k \in T : m <= k
    <2>1. T \in SUBSET Nat
        OBVIOUS
    <2> HIDE DEF T
    <2> QED BY <2>1, LeastOf
<1>2. m \in 0..Len(paths) /\ ~ LoopInv(g, paths, rows, m)
    OBVIOUS
<1>3. m # 0
    <2>1. d(0) = NoDiagram
        BY DrawnFacts
    <2>2. Bounded({}, rows)
        BY FS_EmptySet DEF Bounded
    <2>3. LoopInv(g, paths, rows, 0)
        BY <2>1, <2>2 DEF LoopInv, NoDiagram, ColumnsBounded
    <2> QED BY <1>2, <2>3
<1>4. m - 1 \in 0..Len(paths) /\ m \in 1..Len(paths) /\ ~ (m <= m - 1)
    BY <1>2, <1>3
<1>5. LoopInv(g, paths, rows, m - 1)
    BY <1>1, <1>4
<1>6. d(m) = DrawPath(g, d(m - 1), paths[m], rows)
    BY <1>4, DrawnFacts
<1>7. \A k \in 1..m : k = m \/ k \in 1..(m - 1)
    BY <1>4
<1>8. \A k \in 1..(m - 1) : k \in 1..m
    BY <1>4
<1>9. /\ ColumnsBounded(d(m - 1), rows)
      /\ \A f \in d(m - 1).edges : \E k \in 1..(m - 1) : f \in Edges(g, paths[k])
      /\ \A k \in 1..(m - 1) : Shown(g, d(m - 1), paths[k], rows)
    BY <1>5 DEF LoopInv
<1> HIDE DEF d, T
<1>10. /\ ColumnsBounded(d(m), rows) /\ Extends(d(m - 1), d(m))
       /\ d(m).edges \subseteq d(m - 1).edges \cup Edges(g, paths[m])
       /\ Shown(g, d(m), paths[m], rows)
    BY <1>4, <1>6, <1>9, DrawPathFacts
<1>11. \A f \in d(m).edges : \E k \in 1..m : f \in Edges(g, paths[k])
    <2> SUFFICES ASSUME NEW f \in d(m).edges
                 PROVE  \E k \in 1..m : f \in Edges(g, paths[k])
        OBVIOUS
    <2>1. CASE f \in Edges(g, paths[m])
        <3>1. m \in 1..m
            BY <1>4
        <3> QED BY <2>1, <3>1
    <2>2. CASE f \in d(m - 1).edges
        <3>1. PICK k \in 1..(m - 1) : f \in Edges(g, paths[k])
            BY <1>9, <2>2
        <3> QED BY <1>8, <3>1
    <2> QED BY <1>10, <2>1, <2>2
<1>12. \A k \in 1..m : Shown(g, d(m), paths[k], rows)
    BY <1>7, <1>9, <1>10, ShownStays
<1>13. LoopInv(g, paths, rows, m)
    BY <1>10, <1>11, <1>12 DEF LoopInv, d
<1> QED BY <1>2, <1>13

\* There are finitely many paths, so that they can be put in order.
LEMMA ChainsAreFinite ==
    ASSUME NEW g, NEW p
    PROVE  IsFiniteSet(Chains(g, p)) /\ Chains(g, p) \subseteq Seq(Principals)
<1> DEFINE N == Cardinality(Principals)
           all == SUBSET ((1..N) \X Principals)
           steps == [c \in Chains(g, p) |-> {<<k, c[k]>> : k \in 1..Len(c)}]
<1>1. N \in Nat
    BY ReviewAssumption, FS_CardinalityType
<1>2. ASSUME NEW c \in Chains(g, p)
      PROVE  Len(c) \in 0..N /\ c \in Seq(Principals)
    <2>1. PICK S \in SUBSET (Principals \ {p}) : c \in SetToSeqs(S)
        BY DEF Chains
    <2>2. S \subseteq Principals /\ Cardinality(S) \in Nat /\ Cardinality(S) <= N
        BY <2>1, ReviewAssumption, FS_Subset, FS_CardinalityType
    <2>3. c \in [1..Cardinality(S) -> S]
        BY <2>1 DEF SetToSeqs
    <2>4. c \in Seq(S)
        BY <2>2, <2>3, SeqDef
    <2>5. Len(c) = Cardinality(S)
        BY <2>2, <2>3, <2>4, LenProperties
    <2>6. c \in [1..Len(c) -> Principals] /\ Len(c) \in Nat
        BY <2>2, <2>3, <2>5
    <2>7. c \in Seq(Principals)
        BY <2>6, SeqDef
    <2> QED BY <1>1, <2>2, <2>5, <2>7
<1>3. IsFiniteSet(all)
    <2>1. IsFiniteSet(1..N) /\ IsFiniteSet(Principals)
        BY <1>1, ReviewAssumption, FS_Interval
    <2>2. IsFiniteSet((1..N) \X Principals)
        BY <2>1, FS_Product
    <2> QED BY <2>2, FS_SUBSET
<1>4. ASSUME NEW c \in Chains(g, p) PROVE steps[c] \in all
    <2>1. Len(c) \in 0..N /\ c \in [1..Len(c) -> Principals]
        BY <1>2, LenProperties
    <2>2. \A k \in 1..Len(c) : k \in 1..N /\ c[k] \in Principals
        BY <1>1, <2>1
    <2> QED BY <2>2
<1>5. ASSUME NEW c \in Chains(g, p), NEW e \in Chains(g, p), steps[c] = steps[e]
      PROVE  c = e
    <2>1. /\ Len(c) \in Nat /\ DOMAIN c = 1..Len(c) /\ c \in Seq(Principals)
          /\ Len(e) \in Nat /\ DOMAIN e = 1..Len(e) /\ e \in Seq(Principals)
        BY <1>1, <1>2, LenProperties
    <2>2. {<<k, c[k]>> : k \in 1..Len(c)} = {<<k, e[k]>> : k \in 1..Len(e)}
        BY <1>5
    <2>3. \A k \in 1..Len(c) : k \in 1..Len(e) /\ c[k] = e[k]
        <3> SUFFICES ASSUME NEW k \in 1..Len(c) PROVE k \in 1..Len(e) /\ c[k] = e[k]
            OBVIOUS
        <3>1. <<k, c[k]>> \in {<<j, e[j]>> : j \in 1..Len(e)}
            BY <2>2
        <3> QED BY <3>1
    <2>4. \A k \in 1..Len(e) : k \in 1..Len(c)
        <3> SUFFICES ASSUME NEW k \in 1..Len(e) PROVE k \in 1..Len(c)
            OBVIOUS
        <3>1. <<k, e[k]>> \in {<<j, c[j]>> : j \in 1..Len(c)}
            BY <2>2
        <3> QED BY <3>1
    <2>5. Len(c) = Len(e)
        <3> DEFINE m == Len(c)
                   n == Len(e)
        <3>1. m \in Nat /\ n \in Nat /\ (\A k \in 1..m : k \in 1..n) /\ (\A k \in 1..n : k \in 1..m)
            BY <2>1, <2>3, <2>4
        <3> HIDE DEF m, n
        <3>2. m = 0 \/ m \in 1..m
            BY <3>1
        <3>3. n = 0 \/ n \in 1..n
            BY <3>1
        <3>4. m = n
            BY <3>1, <3>2, <3>3
        <3> QED BY <3>4 DEF m, n
    <2> QED BY <2>1, <2>3, <2>5, SeqEqual
<1>6. steps \in Injection(Chains(g, p), all)
    <2>1. steps \in [Chains(g, p) -> all]
        BY <1>4
    <2>2. \A c, e \in Chains(g, p) : steps[c] = steps[e] => c = e
        BY <1>5
    <2> HIDE DEF steps, all
    <2> QED BY <2>1, <2>2 DEF Injection, IsInjective
<1>7. IsFiniteSet(Chains(g, p))
    <2> HIDE DEF steps, all
    <2> QED BY <1>3, <1>6, FS_Injection
<1> QED BY <1>2, <1>7

LEMMA OrderFacts ==
    ASSUME NEW g, IsGraph(g), NEW p, NEW paths \in Orders(g, p)
    PROVE  /\ Len(paths) \in Nat
           /\ \A k \in 1..Len(paths) : paths[k].chain \in Seq(Principals)
           /\ Range(paths) = {paths[k] : k \in 1..Len(paths)}
<1> DEFINE S == AccessPaths(g, p)
           some == [principal : {p}, chain : {<<>>} \cup Chains(g, p), assignment : DOMAIN g.assigned]
           triples == ({p} \X ({<<>>} \cup Chains(g, p))) \X DOMAIN g.assigned
           take == [t \in triples |-> [principal |-> t[1][1], chain |-> t[1][2], assignment |-> t[2]]]
<1>1. IsFiniteSet(triples)
    BY ChainsAreFinite, FS_Singleton, FS_Union, FS_Product DEF IsGraph
<1>2. take \in Surjection(triples, some)
    <2>1. take \in [triples -> some]
        OBVIOUS
    <2>2. ASSUME NEW x \in some PROVE \E t \in triples : take[t] = x
        <3>1. <<<<x.principal, x.chain>>, x.assignment>> \in triples
            OBVIOUS
        <3>2. take[<<<<x.principal, x.chain>>, x.assignment>>] = x
            BY <3>1
        <3> QED BY <3>1, <3>2
    <2> HIDE DEF take, triples, some
    <2> QED BY <2>1, <2>2 DEF Surjection
<1>3. IsFiniteSet(some)
    <2> HIDE DEF take, triples, some
    <2> QED BY <1>1, <1>2, FS_Surjection
<1>4. S \subseteq some
    BY DEF AccessPaths
<1>5. Cardinality(S) \in Nat
    <2> HIDE DEF S, some
    <2> QED BY <1>3, <1>4, FS_Subset, FS_CardinalityType
<1>6. paths \in [1..Cardinality(S) -> S]
    BY DEF Orders, SetToSeqs
<1>7. paths \in Seq(S)
    BY <1>5, <1>6, SeqDef
<1>8. Len(paths) = Cardinality(S)
    BY <1>5, <1>6, <1>7, LenProperties
<1>9. Len(paths) \in Nat
    BY <1>5, <1>8
<1>10. \A k \in 1..Len(paths) : paths[k] \in some
    BY <1>4, <1>6, <1>8
<1>11. <<>> \in Seq(Principals)
    BY EmptySeq
<1>12. \A k \in 1..Len(paths) : paths[k].chain \in Seq(Principals)
    BY <1>10, <1>11, ChainsAreFinite
<1> QED BY <1>7, <1>9, <1>12, RangeEquality

LEMMA DiagramShowsAccessInv == ReviewInv => DiagramShowsAccess
<1> SUFFICES ASSUME ReviewInv, NEW p \in DOMAIN graph.type, NEW rows \in RowLimits,
                    NEW paths \in Orders(graph, p)
             PROVE  LET d == Diagram(graph, paths, rows) IN
                    /\ d.edges \subseteq UNION {Edges(graph, x) : x \in Range(paths)}
                    /\ \A x \in Range(paths) : Shown(graph, d, x, rows)
    BY DEF DiagramShowsAccess, Edges, Shown, Full, RoleNode
<1> DEFINE d == Diagram(graph, paths, rows)
<1>1. /\ Len(paths) \in Nat /\ Len(paths) \in 0..Len(paths)
      /\ \A k \in 1..Len(paths) : paths[k].chain \in Seq(Principals)
      /\ Range(paths) = {paths[k] : k \in 1..Len(paths)}
    BY ReviewedGraph, OrderFacts
<1>2. rows \in Nat
    BY ScreensAssumption
<1>3. LoopInv(graph, paths, rows, Len(paths))
    BY <1>1, <1>2, LoopKeepsInv
<1>4. /\ \A f \in d.edges : \E k \in 1..Len(paths) : f \in Edges(graph, paths[k])
      /\ \A k \in 1..Len(paths) : Shown(graph, d, paths[k], rows)
    BY <1>3 DEF LoopInv, Diagram
<1> HIDE DEF d
<1>5. d.edges \subseteq UNION {Edges(graph, x) : x \in Range(paths)}
    BY <1>1, <1>4
<1>6. \A x \in Range(paths) : Shown(graph, d, x, rows)
    BY <1>1, <1>4
<1> QED BY <1>5, <1>6 DEF d

\* The diagram of an identity shows memberships and assignments that are there
\* and no others, and leaves out a path only where a column is full
\* (DiagramShowsAccess): the loop of relationship_graph.py, whatever the number
\* of rows and in each order access_paths may give.
THEOREM DiagramsAreRight == Spec => []DiagramShowsAccess
<1> QED BY DiagramShowsAccessInv, ReviewInvariant, PTL

----------------------------------------------------------------------------
(***************************************************************************)
(* The searches over the scopes, step by step.                             *)
(***************************************************************************)

\* Both are the Range of Functions.
LEMMA TreeRange == \A f : Tree!Range(f) = Range(f)
BY DEF Tree!Range, Range

\* What a sequence holds after an append.
LEMMA Appended ==
    ASSUME NEW S, NEW seq \in Seq(S), NEW e \in S
    PROVE  /\ Append(seq, e) \in Seq(S)
           /\ Len(seq) \in Nat
           /\ Len(Append(seq, e)) = Len(seq) + 1
           /\ Append(seq, e)[Len(seq) + 1] = e
           /\ \A i \in 1..Len(seq) : Append(seq, e)[i] = seq[i]
           /\ Tree!Range(Append(seq, e)) = Tree!Range(seq) \cup {e}
<1> DEFINE longer == Append(seq, e)
<1>1. /\ longer \in Seq(S)
      /\ Len(seq) \in Nat
      /\ Len(longer) = Len(seq) + 1
      /\ longer[Len(seq) + 1] = e
      /\ \A i \in 1..Len(seq) : longer[i] = seq[i]
    BY AppendProperties, LenProperties
<1> HIDE DEF longer
<1>2. /\ Tree!Range(longer) = {longer[i] : i \in 1..(Len(seq) + 1)}
      /\ Tree!Range(seq) = {seq[i] : i \in 1..Len(seq)}
    BY <1>1, RangeEquality, TreeRange
<1>3. Tree!Range(longer) = Tree!Range(seq) \cup {e}
    BY <1>1, <1>2
<1> QED BY <1>1, <1>3 DEF longer

LEMMA EmptyRange == Tree!Range(<<>>) = {}
BY DEF Tree!Range

\* What an import is: each imported scope has a parent scope or None.
LEMMA EstateFacts ==
    ASSUME parentOf \in Estates
    PROVE  /\ Tree!Imported \subseteq Scopes
           /\ \A c \in Tree!Imported : parentOf[c] \in Scopes \cup {Nothing}
           /\ \A s : Tree!Children(s) \subseteq Tree!Imported
           /\ \A s : Tree!Node(s) \in Tree!Imported \cup {Nothing}
           /\ Nothing \notin Tree!Imported
<1>1. PICK g \in Graphs : parentOf = g.parent /\ IsGraph(g)
    BY ReviewAssumption DEF Estates
<1>2. Tree!Imported \subseteq Scopes /\ parentOf \in [Tree!Imported -> Scopes \cup {Nothing}]
    BY <1>1 DEF IsGraph, Tree!Imported
<1> QED BY <1>2, ReviewAssumption DEF Tree!Imported, Tree!Children, Tree!Node

\* The sets of scopes that inherit: with a scope, those it is parent of.
Inheriting(S) == \A c \in Tree!Imported : parentOf[c] \in S => c \in S

----------------------------------------------------------------------------
(***************************************************************************)
(* The search downwards: what is listed or waits is under the origin, and  *)
(* the children of what is listed are listed or wait.                      *)
(***************************************************************************)
DownInv ==
    /\ queue \cup Tree!Range(below) \subseteq Tree!Under(origin)
    /\ \A c \in Tree!Imported : parentOf[c] \in Tree!SeenBelow => c \in Tree!SeenBelow \cup queue
    /\ Tree!ReachCountedOnce

(***************************************************************************)
(* The climb: node is the end of it, what is listed covers the target, and *)
(* it is closed under imported parents except where the climb goes on.     *)
(***************************************************************************)
UpInv ==
    /\ Tree!AncestorsClimb
    /\ node # Nothing =>
        node = IF above = <<>> THEN target ELSE above[Len(above)]
    /\ \A s \in Tree!Range(above) : target \in Tree!Under(s)
    /\ \A n \in Tree!SeenAbove \cap Tree!Imported :
        parentOf[n] \in Tree!Imported => parentOf[n] \in Tree!SeenAbove \/ n = node

TreeInv == Tree!TypeOK /\ DownInv /\ UpInv

LEMMA InitTreeInv == SearchesInit => TreeInv
<1> SUFFICES ASSUME Tree!Init PROVE TreeInv
    BY DEF SearchesInit
<1>1. /\ Tree!Imported \subseteq Scopes
      /\ Tree!Children(origin) \subseteq Tree!Imported
      /\ Tree!Node(target) \in Tree!Imported \cup {Nothing}
      /\ Nothing \notin Tree!Imported
    BY EstateFacts DEF Tree!Init
<1>2. above = <<>> /\ below = <<>> /\ Len(<<>>) = 0
    BY EmptySeq DEF Tree!Init
<1>3. Tree!Range(above) = {} /\ Tree!Range(below) = {}
    BY <1>2, EmptyRange
<1>4. Tree!TypeOK
    BY <1>1, <1>2, EmptySeq DEF Tree!Init, Tree!TypeOK
<1>5. DownInv
    <2>1. queue \subseteq Tree!Under(origin)
        BY <1>1 DEF Tree!Init, Tree!Under, Tree!Children
    <2>2. \A c \in Tree!Imported : parentOf[c] \in Tree!SeenBelow => c \in queue
        BY <1>3 DEF Tree!Init, Tree!SeenBelow, Tree!Children
    <2> QED BY <1>2, <1>3, <2>1, <2>2 DEF DownInv, Tree!ReachCountedOnce
<1>6. UpInv
    <2>1. Tree!AncestorsClimb
        BY <1>2 DEF Tree!AncestorsClimb
    <2>2. node # Nothing => node = target
        BY DEF Tree!Init, Tree!Node
    <2>3. ASSUME NEW n \in Tree!SeenAbove \cap Tree!Imported PROVE n = node
        BY <1>3 DEF Tree!SeenAbove, Tree!Init, Tree!Node
    <2> QED BY <1>2, <1>3, <2>1, <2>2, <2>3 DEF UpInv
<1> QED BY <1>4, <1>5, <1>6 DEF TreeInv

LEMMA ClimbTreeInv ==
    ASSUME TreeInv, Tree!Climb
    PROVE  TreeInv'
<1> DEFINE parent == parentOf[node]
<1>1. /\ Tree!TypeOK /\ UpInv /\ DownInv
      /\ UNCHANGED <<parentOf, origin, target, queue, below>>
      /\ node # Nothing /\ parent # Nothing /\ parent \notin Tree!SeenAbove
      /\ node' = Tree!Node(parent)
      /\ above' = IF node' = Nothing THEN above ELSE Append(above, node')
    BY DEF TreeInv, Tree!Climb, Tree!CanClimb
<1>2. /\ Tree!Imported \subseteq Scopes /\ Tree!Imported' = Tree!Imported
      /\ node \in Tree!Imported
      /\ parent \in Scopes
      /\ Nothing \notin Tree!Imported
      /\ above \in Seq(Tree!Imported)
    BY <1>1, EstateFacts DEF Tree!TypeOK, Tree!Imported
<1>3. \A s : Tree!Under(s)' = Tree!Under(s)
    BY <1>1, <1>2 DEF Tree!Under
<1>4. DownInv'
    BY <1>1, <1>2, <1>3 DEF DownInv, Tree!SeenBelow, Tree!ReachCountedOnce
<1>5. \/ parent \notin Tree!Imported /\ node' = Nothing /\ above' = above
      \/ parent \in Tree!Imported /\ node' = parent /\ above' = Append(above, parent)
    BY <1>1, <1>2 DEF Tree!Node
<1>6. CASE parent \notin Tree!Imported /\ node' = Nothing /\ above' = above
    <2>1. Tree!TypeOK'
        BY <1>1, <1>2, <1>6 DEF Tree!TypeOK
    <2>2. Tree!AncestorsClimb'
        BY <1>1, <1>6 DEF UpInv, Tree!AncestorsClimb
    <2>3. \A n \in (Tree!SeenAbove \cap Tree!Imported)' :
              parentOf'[n] \in Tree!Imported' => parentOf'[n] \in Tree!SeenAbove' \/ n = node'
        BY <1>1, <1>2, <1>6 DEF UpInv, Tree!SeenAbove
    <2>4. UpInv'
        BY <1>1, <1>3, <1>6, <2>2, <2>3 DEF UpInv
    <2> QED BY <1>4, <2>1, <2>4 DEF TreeInv
<1>7. CASE parent \in Tree!Imported /\ node' = parent /\ above' = Append(above, parent)
    <2>1. /\ above' \in Seq(Tree!Imported)
          /\ Len(above) \in Nat
          /\ Len(above') = Len(above) + 1
          /\ above'[Len(above) + 1] = parent
          /\ \A i \in 1..Len(above) : above'[i] = above[i]
          /\ Tree!Range(above') = Tree!Range(above) \cup {parent}
        BY <1>2, <1>7, Appended
    <2>2. Tree!TypeOK'
        BY <1>1, <1>2, <1>7, <2>1 DEF Tree!TypeOK
    <2>3. Tree!Range(above) = {above[i] : i \in 1..Len(above)}
        BY <1>2, RangeEquality, TreeRange
    <2>4. parent # target /\ \A i \in 1..Len(above) : above[i] # parent
        BY <1>1, <2>3 DEF Tree!SeenAbove
    <2>5. node = IF Len(above) = 0 THEN target ELSE above[Len(above)]
        <3>1. above = <<>> <=> Len(above) = 0
            BY <1>2, EmptySeq
        <3> QED BY <1>1, <3>1 DEF UpInv
    <2>6. Tree!AncestorsClimb'
        <3> SUFFICES ASSUME NEW i \in 1..(Len(above) + 1)
                     PROVE  /\ above'[i] = parentOf[IF i = 1 THEN target ELSE above'[i - 1]]
                            /\ above'[i] # target
                            /\ \A j \in 1..(Len(above) + 1) : above'[j] = above'[i] => i = j
            BY <1>1, <2>1 DEF Tree!AncestorsClimb
        <3>1. CASE i \in 1..Len(above)
            <4>1. /\ above[i] = parentOf[IF i = 1 THEN target ELSE above[i - 1]]
                  /\ above[i] # target
                  /\ \A j \in 1..Len(above) : above[j] = above[i] => i = j
                BY <1>1, <3>1 DEF UpInv, Tree!AncestorsClimb
            <4>2. i # 1 => i - 1 \in 1..Len(above)
                BY <2>1, <3>1
            <4> QED BY <2>1, <2>4, <3>1, <4>1, <4>2
        <3>2. CASE i = Len(above) + 1
            <4>1. i # 1 => i - 1 \in 1..Len(above)
                BY <2>1, <3>2
            <4>2. node = IF i = 1 THEN target ELSE above'[i - 1]
                BY <2>1, <2>5, <3>2, <4>1
            <4> QED BY <2>1, <2>4, <3>2, <4>2
        <3> QED BY <2>1, <3>1, <3>2
    <2>7. target \in Tree!Under(parent)
        <3> SUFFICES ASSUME NEW S \in SUBSET Scopes, parent \in S, Inheriting(S)
                     PROVE  target \in S
            BY <1>1 DEF Tree!Under, Inheriting, Tree!TypeOK
        <3>1. node \in S
            BY <1>2 DEF Inheriting
        <3>2. node = target \/ node \in Tree!Range(above)
            BY <2>1, <2>3, <2>5
        <3> QED BY <1>1, <3>1, <3>2 DEF UpInv, Tree!Under, Inheriting
    <2>8. node' = IF above' = <<>> THEN target' ELSE above'[Len(above')]
        <3>1. above' # <<>>
            BY <2>1, EmptySeq
        <3> QED BY <1>7, <2>1, <3>1
    <2>9. \A n \in (Tree!SeenAbove \cap Tree!Imported)' :
              parentOf'[n] \in Tree!Imported' => parentOf'[n] \in Tree!SeenAbove' \/ n = node'
        BY <1>1, <1>2, <1>7, <2>1 DEF UpInv, Tree!SeenAbove
    <2>10. \A s \in Tree!Range(above') : target \in Tree!Under(s)
        BY <1>1, <2>1, <2>7 DEF UpInv
    <2>11. UpInv'
        BY <1>1, <1>3, <2>6, <2>8, <2>9, <2>10 DEF UpInv
    <2> QED BY <1>4, <2>2, <2>11 DEF TreeInv
<1> QED BY <1>5, <1>6, <1>7

LEMMA ArriveTreeInv ==
    ASSUME TreeInv, Tree!Arrive
    PROVE  TreeInv'
<1>1. /\ Tree!TypeOK /\ UpInv /\ DownInv
      /\ UNCHANGED <<parentOf, origin, target, above, queue, below>>
      /\ node # Nothing /\ node' = Nothing
      /\ parentOf[node] = Nothing \/ parentOf[node] \in Tree!SeenAbove
    BY DEF TreeInv, Tree!Arrive, Tree!CanClimb
<1>2. Nothing \notin Tree!Imported /\ Tree!Imported' = Tree!Imported
    BY <1>1, EstateFacts DEF Tree!TypeOK, Tree!Imported
<1>3. \A s : Tree!Under(s)' = Tree!Under(s)
    BY <1>1, <1>2 DEF Tree!Under
<1>4. Tree!TypeOK'
    BY <1>1, <1>2 DEF Tree!TypeOK
<1>5. DownInv'
    BY <1>1, <1>2, <1>3 DEF DownInv, Tree!SeenBelow, Tree!ReachCountedOnce
<1>6. Tree!AncestorsClimb'
    BY <1>1 DEF UpInv, Tree!AncestorsClimb
<1>7. \A n \in (Tree!SeenAbove \cap Tree!Imported)' :
          parentOf'[n] \in Tree!Imported' => parentOf'[n] \in Tree!SeenAbove' \/ n = node'
    BY <1>1, <1>2 DEF UpInv, Tree!SeenAbove
<1>8. UpInv'
    BY <1>1, <1>3, <1>6, <1>7 DEF UpInv
<1> QED BY <1>4, <1>5, <1>8 DEF TreeInv

LEMMA PassTreeInv ==
    ASSUME TreeInv, NEW s \in Scopes, Tree!Pass(s)
    PROVE  TreeInv'
<1>1. /\ Tree!TypeOK /\ UpInv /\ DownInv
      /\ UNCHANGED <<parentOf, origin, target, node, above, below>>
      /\ s \in Tree!SeenBelow /\ queue' = queue \ {s}
    BY DEF TreeInv, Tree!Pass
<1>2. Tree!Imported' = Tree!Imported /\ \A t : Tree!Under(t)' = Tree!Under(t)
    BY <1>1 DEF Tree!Under, Tree!Imported
<1>3. Tree!TypeOK'
    BY <1>1, <1>2 DEF Tree!TypeOK
<1>4. DownInv'
    BY <1>1, <1>2 DEF DownInv, Tree!SeenBelow, Tree!ReachCountedOnce
<1>5. Tree!AncestorsClimb'
    BY <1>1 DEF UpInv, Tree!AncestorsClimb
<1>6. UpInv'
    BY <1>1, <1>2, <1>5 DEF UpInv, Tree!SeenAbove
<1> QED BY <1>3, <1>4, <1>6 DEF TreeInv

LEMMA DescendTreeInv ==
    ASSUME TreeInv, NEW s \in Scopes, Tree!Descend(s)
    PROVE  TreeInv'
<1>1. /\ Tree!TypeOK /\ UpInv /\ DownInv
      /\ UNCHANGED <<parentOf, origin, target, node, above>>
      /\ s \in queue /\ s \notin Tree!SeenBelow
      /\ queue' = (queue \ {s}) \cup Tree!Children(s)
      /\ below' = Append(below, s)
    BY DEF TreeInv, Tree!Descend
<1>2. /\ Tree!Imported' = Tree!Imported /\ \A t : Tree!Under(t)' = Tree!Under(t)
      /\ Tree!Children(s) \subseteq Tree!Imported
      /\ Tree!Imported \subseteq Scopes
      /\ s \in Tree!Imported
    BY <1>1, EstateFacts DEF Tree!Under, Tree!Imported, Tree!TypeOK
<1>3. /\ below' \in Seq(Tree!Imported)
      /\ Len(below) \in Nat
      /\ Len(below') = Len(below) + 1
      /\ below'[Len(below) + 1] = s
      /\ \A i \in 1..Len(below) : below'[i] = below[i]
      /\ Tree!Range(below') = Tree!Range(below) \cup {s}
    BY <1>1, <1>2, Appended DEF Tree!TypeOK
<1>4. Tree!TypeOK'
    BY <1>1, <1>2, <1>3 DEF Tree!TypeOK
<1>5. Tree!ReachCountedOnce'
    <2>1. Tree!Range(below) = {below[i] : i \in 1..Len(below)}
        BY <1>1, RangeEquality, TreeRange DEF Tree!TypeOK
    <2>2. s # origin /\ \A i \in 1..Len(below) : below[i] # s
        BY <1>1, <2>1 DEF Tree!SeenBelow
    <2>3. origin \notin Tree!Range(below')
        BY <1>1, <1>3, <2>2 DEF DownInv, Tree!ReachCountedOnce
    <2>4. ASSUME NEW i \in 1..(Len(below) + 1), NEW j \in 1..(Len(below) + 1),
                 below'[i] = below'[j]
          PROVE  i = j
        <3>1. (i \in 1..Len(below) \/ i = Len(below) + 1) /\ (j \in 1..Len(below) \/ j = Len(below) + 1)
            BY <1>3
        <3>2. \A k, l \in 1..Len(below) : below[k] = below[l] => k = l
            BY <1>1 DEF DownInv, Tree!ReachCountedOnce
        <3> QED BY <1>3, <2>2, <2>4, <3>1, <3>2
    <2> QED BY <1>1, <1>3, <2>3, <2>4 DEF Tree!ReachCountedOnce
<1>6. Tree!Children(s) \subseteq Tree!Under(origin)
    <2>1. s \in Tree!Under(origin)
        BY <1>1 DEF DownInv
    <2> QED BY <1>2, <2>1 DEF Tree!Under, Tree!Children
<1>7. (queue \cup Tree!Range(below))' \subseteq Tree!Under(origin)
    BY <1>1, <1>3, <1>6 DEF DownInv
<1>8. \A c \in Tree!Imported : parentOf[c] \in Tree!SeenBelow' => c \in (Tree!SeenBelow \cup queue)'
    <2> SUFFICES ASSUME NEW c \in Tree!Imported, parentOf[c] \in Tree!SeenBelow'
                 PROVE  c \in (Tree!SeenBelow \cup queue)'
        OBVIOUS
    <2>1. Tree!SeenBelow' = Tree!SeenBelow \cup {s}
        BY <1>1, <1>3 DEF Tree!SeenBelow
    <2>2. CASE parentOf[c] = s
        BY <1>1, <2>2 DEF Tree!Children
    <2>3. CASE parentOf[c] \in Tree!SeenBelow
        BY <1>1, <2>1, <2>3 DEF DownInv
    <2> QED BY <2>1, <2>2, <2>3
<1>9. DownInv'
    BY <1>1, <1>2, <1>5, <1>7, <1>8 DEF DownInv
<1>10. Tree!AncestorsClimb'
    BY <1>1 DEF UpInv, Tree!AncestorsClimb
<1>11. UpInv'
    BY <1>1, <1>2, <1>10 DEF UpInv, Tree!SeenAbove
<1> QED BY <1>4, <1>9, <1>11 DEF TreeInv

LEMMA NextTreeInv == TreeInv /\ [SearchesNext]_<<vars, searches>> => TreeInv'
<1> SUFFICES ASSUME TreeInv, Tree!Next \/ UNCHANGED Tree!vars PROVE TreeInv'
    <2>1. UNCHANGED <<vars, searches>> => UNCHANGED Tree!vars
        BY DEF vars, searches, Tree!vars, parentOf
    <2> QED BY <2>1 DEF SearchesNext
<1>1. CASE UNCHANGED Tree!vars
    BY <1>1 DEF Tree!vars, TreeInv, Tree!TypeOK, DownInv, UpInv, Tree!AncestorsClimb, Tree!ReachCountedOnce,
                Tree!SeenAbove, Tree!SeenBelow, Tree!Under, Tree!Imported
<1>2. ASSUME NEW s \in Scopes, Tree!Pass(s) PROVE TreeInv'
    BY <1>2, PassTreeInv
<1>3. ASSUME NEW s \in Scopes, Tree!Descend(s) PROVE TreeInv'
    BY <1>3, DescendTreeInv
<1> QED BY <1>1, <1>2, <1>3, ClimbTreeInv, ArriveTreeInv DEF Tree!Next

THEOREM TreeInvariant == SearchesSpec => []TreeInv
<1> QED BY InitTreeInv, NextTreeInv, PTL DEF SearchesSpec

\* Only imported scopes are ever listed or queued.
THEOREM TreeTypeCorrect == SearchesSpec => []Tree!TypeOK
<1>1. TreeInv => Tree!TypeOK
    BY DEF TreeInv
<1> QED BY <1>1, TreeInvariant, PTL

\* No scope is counted twice in a reach, whatever cycles the import has.
THEOREM ReachIsCountedOnce == SearchesSpec => []Tree!ReachCountedOnce
<1>1. TreeInv => Tree!ReachCountedOnce
    BY DEF TreeInv, DownInv
<1> QED BY <1>1, TreeInvariant, PTL

\* A finished search has found the subtree: the scopes in every set that holds
\* the origin and is closed under inheritance.
LEMMA FinishedSearch == TreeInv => Tree!ReachIsSubtree
<1> SUFFICES ASSUME TreeInv, queue = {} PROVE Tree!SeenBelow = Tree!Under(origin)
    BY DEF Tree!ReachIsSubtree, Tree!SeenBelow
<1>1. Tree!TypeOK /\ DownInv /\ Tree!Imported \subseteq Scopes
    BY EstateFacts DEF TreeInv, Tree!TypeOK
<1>2. Tree!Range(below) \subseteq Tree!Imported
    BY <1>1, RangeOfSeq, TreeRange DEF Tree!TypeOK
<1>3. Tree!SeenBelow \in SUBSET Scopes /\ Inheriting(Tree!SeenBelow) /\ origin \in Tree!SeenBelow
    BY <1>1, <1>2 DEF DownInv, Tree!TypeOK, Tree!SeenBelow, Inheriting
<1>4. Tree!Under(origin) \subseteq Tree!SeenBelow
    BY <1>3 DEF Tree!Under, Inheriting
<1>5. origin \in Tree!Under(origin)
    BY <1>1 DEF Tree!Under, Tree!TypeOK
<1> QED BY <1>1, <1>4, <1>5 DEF DownInv, Tree!SeenBelow

THEOREM ReachIsTheSubtree == SearchesSpec => []Tree!ReachIsSubtree
<1> QED BY FinishedSearch, TreeInvariant, PTL

\* covers and descendants are two algorithms over two indexes of the import;
\* they give the same answer for every assignment at an imported scope.
THEOREM CoversAgreesWithReach == SearchesSpec => []CoversMatchesReach
<1>1. TreeInv => CoversMatchesReach
    <2> SUFFICES ASSUME TreeInv, node = Nothing, queue = {}, origin \in Tree!Imported
                 PROVE  origin \in Tree!SeenAbove <=> target \in Tree!Under(origin)
        BY FinishedSearch DEF CoversMatchesReach, Tree!CoversMatchesReach, Tree!Done, Tree!Covers, Tree!SeenAbove, Tree!ReachIsSubtree
    <2>1. Tree!TypeOK /\ UpInv /\ Nothing \notin Tree!Imported /\ Tree!Imported \subseteq Scopes
        BY EstateFacts DEF TreeInv, Tree!TypeOK
    <2>2. ASSUME origin \in Tree!SeenAbove PROVE target \in Tree!Under(origin)
        BY <2>1, <2>2 DEF Tree!SeenAbove, UpInv, Tree!Under, Tree!TypeOK
    <2>3. ASSUME origin \notin Tree!SeenAbove PROVE target \notin Tree!Under(origin)
        <3> DEFINE S == Tree!Imported \ Tree!SeenAbove
        <3>1. S \in SUBSET Scopes /\ origin \in S /\ target \notin S
            BY <2>1, <2>3 DEF Tree!SeenAbove
        <3>2. Inheriting(S)
            <4> SUFFICES ASSUME NEW c \in Tree!Imported, parentOf[c] \in S PROVE c \in S
                BY DEF Inheriting
            <4>1. c # node
                BY <2>1
            <4> QED BY <2>1, <4>1 DEF UpInv
        <3> QED BY <3>1, <3>2 DEF Tree!Under, Inheriting
    <2> QED BY <2>2, <2>3
<1> QED BY <1>1, TreeInvariant, PTL

LEMMA UnderIsSubtree ==
    ASSUME NEW s
    PROVE  Tree!Under(s) = Subtree(graph, s)
<1>1. \A S : Closed(S, Children(graph)) <=> Inheriting(S)
    <2> SUFFICES ASSUME NEW S PROVE Closed(S, Children(graph)) <=> Inheriting(S)
        OBVIOUS
    <2>1. ASSUME Closed(S, Children(graph)), NEW c \in DOMAIN parentOf, parentOf[c] \in S
          PROVE  c \in S
        <3>1. <<parentOf[c], c>> \in Children(graph)
            BY DEF Children, parentOf
        <3> QED BY <2>1, <3>1 DEF Closed
    <2>2. ASSUME Inheriting(S), NEW e \in Children(graph), e[1] \in S PROVE e[2] \in S
        <3>1. PICK c \in DOMAIN parentOf : e = <<parentOf[c], c>>
            BY DEF Children, parentOf
        <3> QED BY <2>2, <3>1 DEF Inheriting, Tree!Imported
    <2> QED BY <2>1, <2>2 DEF Closed, Inheriting, Tree!Imported
<1>2. Tree!Under(s) = {t \in Scopes : \A S \in SUBSET Scopes : s \in S /\ Inheriting(S) => t \in S}
    BY DEF Tree!Under, Inheriting
<1> HIDE DEF Inheriting
<1> QED BY <1>1, <1>2 DEF Subtree, Reached

\* The least sets of AccessReview are what the two loops return.
LEMMA SearchesFind ==
    ASSUME graph \in Graphs, TreeInv
    PROVE  /\ queue = {} => Tree!SeenBelow = Subtree(graph, origin)
           /\ node = Nothing => Range(above) = Ancestors(graph, target)
<1>1. IsGraph(graph) /\ Tree!Imported = DOMAIN graph.parent
    BY ReviewAssumption DEF Tree!Imported, parentOf
<1>2. /\ Tree!TypeOK /\ UpInv /\ Tree!Imported \subseteq Scopes /\ Nothing \notin Tree!Imported
      /\ Tree!Range(above) \subseteq Tree!Imported
    BY EstateFacts, RangeOfSeq, TreeRange DEF TreeInv, Tree!TypeOK
<1>3. queue = {} => Tree!SeenBelow = Subtree(graph, origin)
    BY FinishedSearch, UnderIsSubtree DEF Tree!ReachIsSubtree, Tree!SeenBelow
<1>4. ASSUME NEW s \in Tree!Range(above) PROVE s \in Ancestors(graph, target)
    <2>1. s \in DOMAIN graph.parent /\ s \in Scopes /\ target \in Subtree(graph, s)
        BY <1>1, <1>2, <1>4, UnderIsSubtree DEF UpInv
    <2>2. target \in DOMAIN graph.parent
        BY <1>1, <2>1, SubtreeFacts
    <2>3. s # target
        BY <1>2, <1>4, RangeEquality, TreeRange DEF UpInv, Tree!AncestorsClimb, Tree!TypeOK
    <2>4. Covers(graph, s, target)
        BY <1>1, <2>1, <2>2, CoversIsSubtree
    <2> QED BY <2>3, <2>4 DEF Covers
<1>5. ASSUME node = Nothing PROVE Ancestors(graph, target) \subseteq Tree!Range(above)
    <2> DEFINE S == Tree!SeenAbove \cap DOMAIN graph.parent
    <2>1. \A n \in S : graph.parent[n] \in DOMAIN graph.parent => graph.parent[n] \in S
        BY <1>1, <1>2, <1>5 DEF UpInv, parentOf
    <2>2. {target} \cap DOMAIN graph.parent \subseteq S
        BY DEF Tree!SeenAbove
    <2> HIDE DEF S
    <2>3. Closed(S, Parents(graph))
        BY <2>1 DEF Closed, Parents
    <2>4. S \in SUBSET DOMAIN graph.parent
        BY DEF S
    <2>5. Climbed(graph, target) \subseteq S
        BY <2>2, <2>3, <2>4, ReachedIsLeast DEF Climbed
    <2> QED BY <2>5 DEF S, Climbed, Ancestors, Tree!SeenAbove
<1> QED BY <1>3, <1>4, <1>5, TreeRange

LEMMA GraphStays == SearchesSpec => [](graph \in Graphs)
<1>1. SearchesInit => graph \in Graphs
    BY DEF SearchesInit, Init
<1>2. graph \in Graphs /\ [SearchesNext]_<<vars, searches>> => (graph \in Graphs)'
    BY DEF SearchesNext, vars
<1> QED BY <1>1, <1>2, PTL DEF SearchesSpec

\* The ancestors are the parents one after the other, without repetition, and
\* what the climb returns is what AccessReview calls Ancestors, for every snapshot.
THEOREM AncestorsAreParents == SearchesSpec => []AncestorsClimb
<1>1. graph \in Graphs /\ TreeInv => AncestorsClimb
    BY SearchesFind DEF TreeInv, UpInv, AncestorsClimb
<1> QED BY <1>1, GraphStays, TreeInvariant, PTL

\* The reach that is shown and counted for a grant is right, for every estate,
\* and is the Subtree of the rules and the pages.
THEOREM ReachShownIsExact == SearchesSpec => []ReachIsExact
<1>1. graph \in Graphs /\ TreeInv => ReachIsExact
    BY FinishedSearch, SearchesFind DEF TreeInv, DownInv, Tree!ReachIsExact, ReachIsExact
<1> QED BY <1>1, GraphStays, TreeInvariant, PTL
=============================================================================
