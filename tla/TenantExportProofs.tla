------------------------- MODULE TenantExportProofs -------------------------
(* Theorems about TenantExport for any tenant, any accounts and any number   *)
(* of changes made while it is read: what a finished export holds, and what  *)
(* becomes of the file it is written to.                                     *)
EXTENDS TenantExport, SequenceTheorems, FiniteSetTheorems, TLAPS

Kinds == {"users", "groups", "servicePrincipals"}

Asked == {"members", "memberOf", "contents", "definitions", "assignments"}

Reads == Kinds \cup {"entities", "accounts"} \cup (Asked \X (Groups \cup Applications \cup Listing))

Stages == {"start", "directory", "memberships", "hierarchy", "access", "definitions",
           "opening", "writing", "ended"}

TypeInv == TypeOK /\ todo \in Seq(Reads) /\ stage \in Stages

\* What is left to read, stage by stage.
TodoInv ==
    /\ stage = "directory" => ToSet(todo) \subseteq Kinds
    /\ stage = "memberships" =>
            ToSet(todo) \subseteq ({"members"} \X Groups) \cup ({"memberOf"} \X Applications)
    /\ stage = "hierarchy" => todo \in {<<"entities", "accounts">>, <<"accounts">>, <<>>}
    /\ stage = "access" => ToSet(todo) \subseteq
            ({"definitions", "assignments"} \X Listing)
                \cup ({"contents"} \X KeysIn(records, "subscriptions"))
    /\ stage \in {"definitions", "opening", "writing"} => todo = <<>>

\* What was read so far has the parents of its scopes.
ClosedInv ==
    /\ Consistent(records)
    /\ \A e \in InSection(records, "managementGroups") \cup InSection(records, "subscriptions") \cup parents :
            e.is \in KeysIn(records, "managementGroups") \cup {Root}
    /\ KeysIn(records, "subscriptions") \subseteq accounts
    /\ \A e \in InSection(records, "resourceGroups") : e.is \in KeysIn(records, "subscriptions")

Complete == todo = <<>> /\ Undefined = {} /\ KeysIn(records, "managementGroups") # {}

\* The file at OutputPath.
FileInv ==
    /\ stage \in {"access", "definitions"} \/ (stage = "hierarchy" /\ todo = <<>>) =>
            KeysIn(records, "managementGroups") # {}
    /\ stage \in {"opening", "writing"} \/ Exported \/ file \in {"partial", "export"} => Complete
    /\ file \in {"partial", "export"} => stage \in {"writing", "ended"} /\ exit # "dry"
    /\ stage = "writing" => file = "partial" \/ overwrite
    /\ Exported => file = "export"

\* What is read is of the time of the export; what was there throughout is
\* there now.
HistoryInv ==
    /\ stage \notin {"start", "ended"} => throughout \subseteq tenant /\ tenant \subseteq ever
    /\ records \subseteq ever /\ parents \subseteq ever
    /\ stage = "start" => records = {} /\ parents = {}
    /\ \A e \in InSection(throughout, "groupMemberships") :
            Person(e.key[1]) \in throughout /\ Person(e.key[2]) \in throughout

LEMMA Disjoint ==
    /\ Users \cap Groups = {} /\ Users \cap Applications = {} /\ Groups \cap Applications = {}
    /\ ManagementGroups \cap Subscriptions = {}
    /\ IsFiniteSet(Groups) /\ IsFiniteSet(Applications)
    /\ IsFiniteSet(ManagementGroups) /\ IsFiniteSet(Subscriptions)
<1> DEFINE kinds == <<Users, Groups, Applications, ManagementGroups, Subscriptions>>
<1>1. \A i, j \in 1..5 : IsFiniteSet(kinds[i]) /\ (i # j => kinds[i] \cap kinds[j] = {})
    BY ExportAssumption
<1>2. /\ kinds[1] = Users /\ kinds[2] = Groups /\ kinds[3] = Applications
      /\ kinds[4] = ManagementGroups /\ kinds[5] = Subscriptions
    OBVIOUS
<1> HIDE DEF kinds
<1>3. 1 \in 1..5 /\ 2 \in 1..5 /\ 3 \in 1..5 /\ 4 \in 1..5 /\ 5 \in 1..5
    OBVIOUS
<1>4. /\ kinds[1] \cap kinds[2] = {} /\ kinds[1] \cap kinds[3] = {} /\ kinds[2] \cap kinds[3] = {}
      /\ kinds[4] \cap kinds[5] = {}
    BY <1>1, <1>3
<1>5. IsFiniteSet(kinds[2]) /\ IsFiniteSet(kinds[3]) /\ IsFiniteSet(kinds[4]) /\ IsFiniteSet(kinds[5])
    BY <1>1, <1>3
<1> QED BY <1>2, <1>4, <1>5

\* The fields of a record, section by section.
LEMMA RecordFacts ==
    ASSUME NEW e \in Records
    PROVE  /\ e.section \in Kinds \cup {"groupMemberships", "managementGroups", "subscriptions",
                                "resourceGroups", "roleDefinitions", "roleAssignments"}
           /\ e.section \in Kinds => e.key \in Objects /\ e = Person(e.key)
           /\ e.section = "groupMemberships" =>
                /\ e.key[1] \in Groups /\ e.key[2] \in Objects
                /\ e.is = e.key[2] /\ e.key = <<e.key[1], e.key[2]>>
           /\ e.section = "managementGroups" =>
                e.key \in ManagementGroups /\ e.is \in ManagementGroups \cup {Root}
           /\ e.section = "subscriptions" => e.key \in Subscriptions /\ e.is \in ManagementGroups
           /\ e.section = "resourceGroups" => e.key \in ResourceGroups /\ e.is \in Subscriptions
           /\ e.section = "roleDefinitions" => e.key \in Roles /\ e.is \in Contents
           /\ e.section = "roleAssignments" => e.key \in Assignments /\ e.is \in Conditions
<1>1. ASSUME NEW o \in Objects, e = Person(o) PROVE e.section \in Kinds /\ e.key = o
    BY <1>1 DEF Person, Entry, Kinds
<1>2. ASSUME NEW g \in Groups, NEW o \in Objects, e = Entry("groupMemberships", <<g, o>>, o)
      PROVE  e.section = "groupMemberships" /\ e.key = <<g, o>> /\ e.is = o
    BY <1>2 DEF Entry
<1>3. ASSUME NEW m, NEW n, e = Entry("managementGroups", m, n)
      PROVE  e.section = "managementGroups" /\ e.key = m /\ e.is = n
    BY <1>3 DEF Entry
<1>4. ASSUME NEW m, NEW n, e = Entry("subscriptions", m, n)
      PROVE  e.section = "subscriptions" /\ e.key = m /\ e.is = n
    BY <1>4 DEF Entry
<1>5. ASSUME NEW m, NEW n, e = Entry("resourceGroups", m, n)
      PROVE  e.section = "resourceGroups" /\ e.key = m /\ e.is = n
    BY <1>5 DEF Entry
<1>6. ASSUME NEW m, NEW n, e = Entry("roleDefinitions", m, n)
      PROVE  e.section = "roleDefinitions" /\ e.key = m /\ e.is = n
    BY <1>6 DEF Entry
<1>7. ASSUME NEW m, NEW n, e = Entry("roleAssignments", m, n)
      PROVE  e.section = "roleAssignments" /\ e.key = m /\ e.is = n
    BY <1>7 DEF Entry
<1>8. CASE \E o \in Objects : e = Person(o)
    BY <1>1, <1>8 DEF Kinds
<1>9. CASE \E g \in Groups, o \in Objects : e = Entry("groupMemberships", <<g, o>>, o)
    BY <1>2, <1>9 DEF Kinds
<1>10. CASE \E m \in ManagementGroups, n \in ManagementGroups \cup {Root} : e = Entry("managementGroups", m, n)
    BY <1>3, <1>10 DEF Kinds
<1>11. CASE \E s \in Subscriptions, m \in ManagementGroups : e = Entry("subscriptions", s, m)
    BY <1>4, <1>11 DEF Kinds
<1>12. CASE \E r \in ResourceGroups, s \in Subscriptions : e = Entry("resourceGroups", r, s)
    BY <1>5, <1>12 DEF Kinds
<1>13. CASE \E r \in Roles, c \in Contents : e = Entry("roleDefinitions", r, c)
    BY <1>6, <1>13 DEF Kinds
<1>14. CASE \E a \in Assignments, c \in Conditions : e = Entry("roleAssignments", a, c)
    BY <1>7, <1>14 DEF Kinds
<1> QED BY <1>8, <1>9, <1>10, <1>11, <1>12, <1>13, <1>14 DEF Records

LEMMA ToSetFacts ==
    ASSUME NEW T, NEW s \in Seq(T)
    PROVE  /\ ToSet(s) \subseteq T
           /\ \A U : ToSet(s) \subseteq U => s \in Seq(U)
           /\ \A k \in 1..Len(s) : s[k] \in ToSet(s)
           /\ \A x \in ToSet(s) : \E k \in 1..Len(s) : x = s[k]
           /\ s = <<>> <=> ToSet(s) = {}
<1>1. Len(s) \in Nat /\ DOMAIN s = 1..Len(s) /\ \A k \in 1..Len(s) : s[k] \in T
    BY ElementOfSeq
<1>2. /\ \A k \in 1..Len(s) : s[k] \in ToSet(s)
      /\ \A x \in ToSet(s) : \E k \in 1..Len(s) : x = s[k]
    BY <1>1 DEF ToSet
<1>3. ToSet(s) \subseteq T
    BY <1>1, <1>2
<1>4. ASSUME NEW U, ToSet(s) \subseteq U PROVE s \in Seq(U)
    <2>1. \A k \in 1..Len(s) : s[k] \in U
        BY <1>2, <1>4
    <2> QED BY <1>1, <2>1
<1>5. s = <<>> <=> ToSet(s) = {}
    <2>1. s = <<>> <=> Len(s) = 0
        BY EmptySeq
    <2>2. Len(s) # 0 => 1 \in 1..Len(s)
        BY <1>1
    <2> QED BY <1>2, <2>1, <2>2
<1> QED BY <1>2, <1>3, <1>4, <1>5

\* A sequence of a finite set has each of its elements.
LEMMA OrderFacts ==
    ASSUME NEW S, IsFiniteSet(S), NEW s \in SetToSeqs(S)
    PROVE  s \in Seq(S) /\ ToSet(s) = S
<1> DEFINE n == Cardinality(S)
<1>1. n \in Nat /\ IsFiniteSet(1..n) /\ Cardinality(1..n) = n
    BY FS_CardinalityType, FS_Interval
<1>2. s \in [1..n -> S] /\ \A i, j \in 1..n : i # j => s[i] # s[j]
    BY DEF SetToSeqs
<1>3. s \in Injection(1..n, S)
    BY <1>2 DEF Injection, IsInjective
<1>4. s \in Surjection(1..n, S)
    BY <1>1, <1>3, FS_Injection
<1>5. \A x \in S : \E k \in 1..n : s[k] = x
    BY <1>4 DEF Surjection
<1>6. s \in Seq(S)
    BY <1>1, <1>2
<1> QED BY <1>1, <1>2, <1>5, <1>6 DEF ToSet

LEMMA TailFacts ==
    ASSUME TypeInv, todo # <<>>
    PROVE  /\ Head(todo) \in Reads /\ Tail(todo) \in Seq(Reads)
           /\ Head(todo) \in ToSet(todo)
           /\ ToSet(todo) = {Head(todo)} \cup ToSet(Tail(todo))
<1>1. todo \in Seq(Reads) /\ Len(todo) \in Nat \ {0}
    BY EmptySeq DEF TypeInv
<1>2. /\ Head(todo) \in Reads /\ Tail(todo) \in Seq(Reads) /\ Head(todo) = todo[1]
      /\ Len(Tail(todo)) = Len(todo) - 1
      /\ \A i \in 1..Len(Tail(todo)) : Tail(todo)[i] = todo[i + 1]
    BY <1>1, HeadTailProperties
<1> DEFINE n == Len(todo)
           rest == Tail(todo)
<1>3. n \in Nat \ {0} /\ DOMAIN todo = 1..n /\ DOMAIN rest = 1..(n - 1)
    BY <1>1, <1>2
<1>4. todo[1] = Head(todo) /\ \A i \in 1..(n - 1) : rest[i] = todo[i + 1]
    BY <1>1, <1>2
<1> HIDE DEF n, rest
<1>5. \A k \in 1..n : k = 1 \/ (k - 1 \in 1..(n - 1) /\ todo[k] = rest[k - 1])
    BY <1>3, <1>4
<1>6. \A k \in 1..(n - 1) : k + 1 \in 1..n /\ todo[k + 1] = rest[k]
    BY <1>3, <1>4
<1>7. 1 \in 1..n
    BY <1>3
<1>8. ToSet(todo) = {todo[k] : k \in 1..n} /\ ToSet(rest) = {rest[k] : k \in 1..(n - 1)}
    BY <1>3 DEF ToSet
<1>9. ToSet(todo) = {Head(todo)} \cup ToSet(rest)
    BY <1>4, <1>5, <1>6, <1>7, <1>8
<1> QED BY <1>2, <1>9 DEF rest

LEMMA ConcatFacts ==
    ASSUME NEW T, NEW first \in Seq(T), NEW second \in Seq(T)
    PROVE  first \o second \in Seq(T) /\ ToSet(first \o second) = ToSet(first) \cup ToSet(second)
<1> DEFINE n == Len(first)
           m == Len(second)
           plan == first \o second
<1>1. n \in Nat /\ m \in Nat /\ DOMAIN first = 1..n /\ DOMAIN second = 1..m
    OBVIOUS
<1>2. plan \in Seq(T) /\ DOMAIN plan = 1..(n + m)
    BY ConcatProperties
<1>3. \A k \in 1..(n + m) : plan[k] = IF k <= n THEN first[k] ELSE second[k - n]
    BY ConcatProperties
<1> HIDE DEF n, m, plan
<1>4. \A k \in 1..(n + m) : (k \in 1..n /\ plan[k] = first[k]) \/ (k - n \in 1..m /\ plan[k] = second[k - n])
    BY <1>1, <1>3
<1>5. \A k \in 1..n : k \in 1..(n + m) /\ plan[k] = first[k]
    BY <1>1, <1>3
<1>6. \A k \in 1..m : k + n \in 1..(n + m) /\ plan[k + n] = second[k]
    <2>1. ASSUME NEW k \in 1..m
          PROVE  k + n \in 1..(n + m) /\ ~ (k + n <= n) /\ (k + n) - n = k
        BY <1>1
    <2> QED BY <1>3, <2>1
<1>7. /\ ToSet(first) = {first[k] : k \in 1..n} /\ ToSet(second) = {second[k] : k \in 1..m}
      /\ ToSet(plan) = {plan[k] : k \in 1..(n + m)}
    BY <1>1, <1>2 DEF ToSet
<1>8. ToSet(plan) = ToSet(first) \cup ToSet(second)
    BY <1>4, <1>5, <1>6, <1>7
<1> QED BY <1>2, <1>8 DEF plan

LEMMA EachFacts ==
    ASSUME NEW R, NEW reads \in Seq(R), Len(reads) \in {2, 3},
           NEW S, NEW scopes \in Seq(S)
    PROVE  /\ Each(reads, scopes) \in Seq(ToSet(reads) \X ToSet(scopes))
           /\ ToSet(Each(reads, scopes)) = ToSet(reads) \X ToSet(scopes)
<1> DEFINE n == Len(reads)
           m == Len(scopes)
           plan == Each(reads, scopes)
           both == ToSet(reads) \X ToSet(scopes)
<1>1. /\ n \in {2, 3} /\ m \in Nat /\ n * m \in Nat
      /\ DOMAIN reads = 1..n /\ DOMAIN scopes = 1..m
    OBVIOUS
<1>2. plan = [k \in 1..(n * m) |->
                <<reads[((k - 1) % n) + 1], scopes[((k - 1) \div n) + 1]>>]
    BY DEF Each
<1> HIDE DEF n, m, plan
<1>3. ASSUME NEW k \in 1..(n * m)
      PROVE  ((k - 1) % n) + 1 \in 1..n /\ ((k - 1) \div n) + 1 \in 1..m
    BY <1>1
<1>4. \A k \in 1..(n * m) : \E i \in 1..n, j \in 1..m : plan[k] = <<reads[i], scopes[j]>>
    BY <1>2, <1>3
<1>5. ASSUME NEW i \in 1..n, NEW j \in 1..m
      PROVE  \E k \in 1..(n * m) : plan[k] = <<reads[i], scopes[j]>>
    <2>1. CASE n = 2
        <3>1. (j - 1) * 2 + i \in 1..(2 * m)
            BY <1>1, <2>1
        <3>2. ((((j - 1) * 2 + i) - 1) % 2) + 1 = i /\ ((((j - 1) * 2 + i) - 1) \div 2) + 1 = j
            BY <1>1, <2>1
        <3> QED BY <1>2, <2>1, <3>1, <3>2
    <2>2. CASE n = 3
        <3>1. (j - 1) * 3 + i \in 1..(3 * m)
            BY <1>1, <2>2
        <3>2. ((((j - 1) * 3 + i) - 1) % 3) + 1 = i /\ ((((j - 1) * 3 + i) - 1) \div 3) + 1 = j
            BY <1>1, <2>2
        <3> QED BY <1>2, <2>2, <3>1, <3>2
    <2> QED BY <1>1, <2>1, <2>2
<1>6. ToSet(reads) = {reads[k] : k \in 1..n} /\ ToSet(scopes) = {scopes[k] : k \in 1..m}
    BY <1>1 DEF ToSet
<1>7. DOMAIN plan = 1..(n * m)
    BY <1>2
<1>8. ToSet(plan) = {plan[k] : k \in 1..(n * m)}
    BY <1>7 DEF ToSet
<1>9. ASSUME NEW k \in 1..(n * m) PROVE plan[k] \in both
    <2>1. PICK i \in 1..n, j \in 1..m : plan[k] = <<reads[i], scopes[j]>>
        BY <1>4
    <2>2. reads[i] \in ToSet(reads) /\ scopes[j] \in ToSet(scopes)
        BY <1>6
    <2> QED BY <2>1, <2>2
<1>10. ASSUME NEW r \in ToSet(reads), NEW x \in ToSet(scopes) PROVE <<r, x>> \in ToSet(plan)
    <2>1. PICK i \in 1..n, j \in 1..m : r = reads[i] /\ x = scopes[j]
        BY <1>6
    <2> QED BY <1>5, <1>8, <2>1
<1>11. both \subseteq ToSet(plan)
    BY <1>10
<1>12. ToSet(plan) \subseteq both
    BY <1>8, <1>9
<1>13. plan \in Seq(both)
    <2> DEFINE N == n * m
    <2>1. N \in Nat /\ plan \in [1..N -> both]
        BY <1>1, <1>2, <1>9
    <2> HIDE DEF N, both
    <2> QED BY <2>1
<1> QED BY <1>11, <1>12, <1>13 DEF plan

LEMMA InitTypeInv == Init => TypeInv
<1> SUFFICES ASSUME Init PROVE TypeInv
    OBVIOUS
<1>1. tenant \subseteq Records /\ Lawful(tenant)
    BY TenantsAssumption DEF Init
<1>2. todo \in Seq(Reads)
    BY DEF Init
<1>3. changes \in 0..MaxChanges
    BY ExportAssumption DEF Init
<1> QED BY <1>1, <1>2, <1>3 DEF Init, TypeInv, TypeOK, Stages

LEMMA TypeFacts ==
    ASSUME TypeInv
    PROVE  /\ tenant \subseteq Records /\ Lawful(tenant) /\ changes \in 0..MaxChanges
           /\ accounts \subseteq Subscriptions
           /\ records \subseteq Records /\ parents \subseteq InSection(Records, "subscriptions")
           /\ overwrite \in BOOLEAN /\ file \in {"none", "another", "partial", "export"}
           /\ exit \in {"running", "dry", "done", "failed"} /\ (exit = "running" <=> stage # "ended")
           /\ ever \subseteq Records /\ throughout \subseteq ever
           /\ todo \in Seq(Reads) /\ stage \in Stages
BY DEF TypeInv, TypeOK

LEMMA TypeStep ==
    ASSUME tenant' \subseteq Records, Lawful(tenant'), changes' \in 0..MaxChanges,
           accounts' \subseteq Subscriptions,
           records' \subseteq Records, parents' \subseteq InSection(Records, "subscriptions"),
           overwrite' \in BOOLEAN, file' \in {"none", "another", "partial", "export"},
           exit' \in {"running", "dry", "done", "failed"}, exit' = "running" <=> stage' # "ended",
           ever' \subseteq Records, throughout' \subseteq ever',
           todo' \in Seq(Reads), stage' \in Stages
    PROVE  TypeInv'
<1>1. Lawful(tenant)'
    BY DEF Lawful, Consistent, InSection, KeysIn, Person, Entry
<1>2. (tenant \subseteq Records)' /\ (parents \subseteq InSection(Records, "subscriptions"))'
      /\ (records \subseteq Records)' /\ (ever \subseteq Records)' /\ (todo \in Seq(Reads))'
    OBVIOUS
<1> QED BY <1>1, <1>2 DEF TypeInv, TypeOK

LEMMA KeyFacts ==
    ASSUME NEW R \in SUBSET Records
    PROVE  /\ KeysIn(R, "groups") \subseteq Groups
           /\ KeysIn(R, "servicePrincipals") \subseteq Applications
           /\ KeysIn(R, "managementGroups") \subseteq ManagementGroups
           /\ KeysIn(R, "subscriptions") \subseteq Subscriptions
<1>1. ASSUME NEW o \in Objects
      PROVE  /\ Person(o).section = "groups" => o \in Groups
             /\ Person(o).section = "servicePrincipals" => o \in Applications
    BY DEF Person, Entry, Objects
<1>2. \A e \in R : e \in Records
    OBVIOUS
<1> QED BY <1>1, <1>2, RecordFacts DEF KeysIn, InSection, Kinds

LEMMA FiniteKeys ==
    ASSUME NEW R \in SUBSET Records
    PROVE  /\ IsFiniteSet(KeysIn(R, "groups")) /\ IsFiniteSet(KeysIn(R, "servicePrincipals"))
           /\ IsFiniteSet(KeysIn(R, "managementGroups")) /\ IsFiniteSet(KeysIn(R, "subscriptions"))
BY KeyFacts, Disjoint, FS_Subset

LEMMA PlanMembershipsFacts ==
    ASSUME TypeInv,
           NEW groups \in SetToSeqs(KeysIn(records, "groups")),
           NEW applications \in SetToSeqs(KeysIn(records, "servicePrincipals"))
    PROVE  LET plan == PlanMemberships(groups, applications) IN
           /\ plan \in Seq(Reads)
           /\ ToSet(plan) = ({"members"} \X KeysIn(records, "groups"))
                                \cup ({"memberOf"} \X KeysIn(records, "servicePrincipals"))
<1> DEFINE G == KeysIn(records, "groups")
           A == KeysIn(records, "servicePrincipals")
           n == Len(groups)
           m == Len(applications)
           first == [k \in 1..n |-> <<"members", groups[k]>>]
           second == [k \in 1..m |-> <<"memberOf", applications[k]>>]
<1>1. groups \in Seq(G) /\ ToSet(groups) = G /\ applications \in Seq(A) /\ ToSet(applications) = A
    BY TypeFacts, FiniteKeys, OrderFacts
<1>2. G \subseteq Groups /\ A \subseteq Applications
    BY TypeFacts, KeyFacts
<1>3. n \in Nat /\ m \in Nat /\ DOMAIN groups = 1..n /\ DOMAIN applications = 1..m
    BY <1>1
<1>4. G = {groups[k] : k \in 1..n} /\ A = {applications[k] : k \in 1..m}
    BY <1>1, <1>3 DEF ToSet
<1>5. PlanMemberships(groups, applications) = first \o second
    BY DEF PlanMemberships
<1> HIDE DEF n, m, G, A
<1>6. first \in [1..n -> Reads] /\ second \in [1..m -> Reads]
    BY <1>2, <1>4 DEF Reads, Asked
<1>7. first \in Seq(Reads) /\ second \in Seq(Reads)
    BY <1>3, <1>6
<1>8. /\ ToSet(first) = {first[k] : k \in 1..n}
      /\ ToSet(second) = {second[k] : k \in 1..m}
    BY DEF ToSet
<1>9. /\ \A k \in 1..n : first[k] = <<"members", groups[k]>>
      /\ \A k \in 1..m : second[k] = <<"memberOf", applications[k]>>
    OBVIOUS
<1> HIDE DEF first, second
<1>10. ToSet(first) = {"members"} \X G
    <2>1. ToSet(first) = {<<"members", groups[k]>> : k \in 1..n}
        BY <1>8, <1>9
    <2> QED BY <1>4, <2>1
<1>11. ToSet(second) = {"memberOf"} \X A
    <2>1. ToSet(second) = {<<"memberOf", applications[k]>> : k \in 1..m}
        BY <1>8, <1>9
    <2> QED BY <1>4, <2>1
<1>12. first \o second \in Seq(Reads) /\ ToSet(first \o second) = ToSet(first) \cup ToSet(second)
    BY <1>7, ConcatFacts
<1> QED BY <1>5, <1>10, <1>11, <1>12 DEF G, A

LEMMA PlanAccessFacts ==
    ASSUME TypeInv,
           NEW groups \in SetToSeqs(KeysIn(records, "managementGroups")),
           NEW subscriptions \in SetToSeqs(KeysIn(records, "subscriptions"))
    PROVE  LET plan == PlanAccess(groups, subscriptions)
               M == KeysIn(records, "managementGroups")
               S == KeysIn(records, "subscriptions")
           IN  /\ plan \in Seq(Reads)
               /\ ToSet(plan) = ({"definitions", "assignments"} \X (M \cup S)) \cup ({"contents"} \X S)
<1> DEFINE M == KeysIn(records, "managementGroups")
           S == KeysIn(records, "subscriptions")
           two == <<"definitions", "assignments">>
           three == <<"contents", "definitions", "assignments">>
           first == Each(two, groups)
           second == Each(three, subscriptions)
<1>1. groups \in Seq(M) /\ ToSet(groups) = M /\ subscriptions \in Seq(S) /\ ToSet(subscriptions) = S
    BY TypeFacts, FiniteKeys, OrderFacts
<1>2. M \subseteq Listing /\ S \subseteq Listing
    BY TypeFacts, KeyFacts DEF Listing
<1>3. Len(two) = 2 /\ two \in Seq(Asked) /\ ToSet(two) = {"definitions", "assignments"}
    BY DEF ToSet, Asked
<1>4. Len(three) = 3 /\ three \in Seq(Asked)
      /\ ToSet(three) = {"contents", "definitions", "assignments"}
    BY DEF ToSet, Asked
<1>5. PlanAccess(groups, subscriptions) = first \o second
    BY DEF PlanAccess
<1> HIDE DEF M, S, two, three
<1>6. first \in Seq(ToSet(two) \X M) /\ ToSet(first) = ToSet(two) \X M
    <2>1. Len(two) \in {2, 3} /\ two \in Seq(Asked)
        BY <1>3
    <2>2. groups \in Seq(M)
        BY <1>1
    <2>3. /\ Each(two, groups) \in Seq(ToSet(two) \X ToSet(groups))
          /\ ToSet(Each(two, groups)) = ToSet(two) \X ToSet(groups)
        BY <2>1, <2>2, EachFacts
    <2> QED BY <1>1, <2>3
<1>7. second \in Seq(ToSet(three) \X S) /\ ToSet(second) = ToSet(three) \X S
    <2>1. Len(three) \in {2, 3} /\ three \in Seq(Asked)
        BY <1>4
    <2>2. subscriptions \in Seq(S)
        BY <1>1
    <2>3. /\ Each(three, subscriptions) \in Seq(ToSet(three) \X ToSet(subscriptions))
          /\ ToSet(Each(three, subscriptions)) = ToSet(three) \X ToSet(subscriptions)
        BY <2>1, <2>2, EachFacts
    <2> QED BY <1>1, <2>3
<1> HIDE DEF first, second
<1>8. ToSet(first) \subseteq Reads /\ ToSet(second) \subseteq Reads
    BY <1>2, <1>3, <1>4, <1>6, <1>7 DEF Reads, Asked
<1>9. first \in Seq(Reads) /\ second \in Seq(Reads)
    BY <1>6, <1>7, <1>8, ToSetFacts
<1>10. first \o second \in Seq(Reads) /\ ToSet(first \o second) = ToSet(first) \cup ToSet(second)
    BY <1>9, ConcatFacts
<1>11. ToSet(first) \cup ToSet(second)
        = ({"definitions", "assignments"} \X (M \cup S)) \cup ({"contents"} \X S)
    BY <1>3, <1>4, <1>6, <1>7
<1> QED BY <1>5, <1>10, <1>11 DEF M, S

----------------------------------------------------------------------------
(* The shape of the state. *)

\* What a list at a scope answers is part of the tenant.
LEMMA AccessAnswers ==
    ASSUME TypeInv, TodoInv, ReadAccess
    PROVE  \E answer \in SUBSET tenant :
            /\ Add(answer)
            /\ Head(todo)[1] = "contents" =>
                    answer = {e \in InSection(tenant, "resourceGroups") : e.is = Head(todo)[2]}
            /\ Head(todo)[1] = "definitions" =>
                    answer = {e \in InSection(tenant, "roleDefinitions") : Head(todo)[2] \in Assignable[e.key]}
            /\ Head(todo)[1] = "assignments" =>
                    answer = {e \in InSection(tenant, "roleAssignments") :
                                Grant[e.key].scope \in Listed[Head(todo)[2]]}
<1>1. Head(todo)[1] \in {"contents", "definitions", "assignments"}
    BY TailFacts DEF ReadAccess, TodoInv
<1>2. CASE Head(todo)[1] = "contents"
    <2> DEFINE answer == {e \in InSection(tenant, "resourceGroups") : e.is = Head(todo)[2]}
    <2>1. Add(answer)
        BY <1>2 DEF ReadAccess
    <2>2. answer \in SUBSET tenant
        BY DEF InSection
    <2> QED BY <1>2, <2>1, <2>2
<1>3. CASE Head(todo)[1] = "definitions"
    <2> DEFINE answer == {e \in InSection(tenant, "roleDefinitions") : Head(todo)[2] \in Assignable[e.key]}
    <2>1. Add(answer)
        BY <1>3 DEF ReadAccess
    <2>2. answer \in SUBSET tenant
        BY DEF InSection
    <2> QED BY <1>3, <2>1, <2>2
<1>4. CASE Head(todo)[1] = "assignments"
    <2> DEFINE answer == {e \in InSection(tenant, "roleAssignments") :
                                Grant[e.key].scope \in Listed[Head(todo)[2]]}
    <2>1. Add(answer)
        BY <1>4 DEF ReadAccess
    <2>2. answer \in SUBSET tenant
        BY DEF InSection
    <2> QED BY <1>4, <2>1, <2>2
<1> QED BY <1>1, <1>2, <1>3, <1>4

\* The reads that follow one another in a stage.
Read == ReadDirectory \/ ReadMemberships \/ ReadEntities \/ ReadAccounts \/ ReadAccess \/ ReadDefinition

\* What a read adds is in the tenant, or was when the hierarchy was read.
LEMMA ReadFacts ==
    ASSUME TypeInv, TodoInv, Read
    PROVE  /\ \E answer \in SUBSET (tenant \cup parents) : records' = records \cup answer
           /\ Consistent(records')
           /\ parents' = parents \/ parents' = InSection(tenant, "subscriptions")
           /\ UNCHANGED <<azure, stage, overwrite, file, exit, history>>
<1>1. CASE ReadDirectory
    BY <1>1 DEF ReadDirectory, Add, InSection
<1>2. CASE ReadMemberships
    BY <1>2 DEF ReadMemberships, Add, InSection
<1>3. CASE ReadEntities
    BY <1>3 DEF ReadEntities, Add, InSection
<1>4. CASE ReadAccounts
    BY <1>4 DEF ReadAccounts, Add, InSection
<1>5. CASE ReadAccess
    BY <1>5, AccessAnswers DEF ReadAccess, Add
<1>6. CASE ReadDefinition
    BY <1>6 DEF ReadDefinition, Add, InSection
<1> QED BY <1>1, <1>2, <1>3, <1>4, <1>5, <1>6 DEF Read

\* What the script leaves to read.
LEMMA TodoStep ==
    ASSUME TypeInv, TodoInv, Script
    PROVE  todo' \in Seq(Reads) /\ TodoInv'
<1> USE TypeFacts
<1>1. CASE Start(TRUE) \/ Start(FALSE)
    <2>1. CASE todo' = todo /\ stage' = "ended"
        BY <2>1 DEF TodoInv
    <2>2. CASE todo' = <<"users", "groups", "servicePrincipals">> /\ stage' = "directory"
        <3>1. ToSet(<<"users", "groups", "servicePrincipals">>) \subseteq Kinds
            BY DEF ToSet, Kinds
        <3>2. <<"users", "groups", "servicePrincipals">> \in Seq(Reads)
            BY DEF Reads, Kinds
        <3> QED BY <2>2, <3>1, <3>2 DEF TodoInv
    <2> QED BY <1>1, <2>1, <2>2 DEF Start, End
<1>2. CASE ReadDirectory
    <2>1. ToSet(todo') \subseteq ToSet(todo) /\ todo' \in Seq(Reads) /\ stage = "directory" /\ stage' = stage
        BY <1>2, TailFacts DEF ReadDirectory
    <2> QED BY <2>1 DEF TodoInv
<1>3. CASE EndDirectory
    <2>1. PICK groups \in SetToSeqs(KeysIn(records, "groups")),
               applications \in SetToSeqs(KeysIn(records, "servicePrincipals")) :
                    todo' = PlanMemberships(groups, applications)
        BY <1>3 DEF EndDirectory
    <2>2. /\ todo' \in Seq(Reads)
          /\ ToSet(todo') = ({"members"} \X KeysIn(records, "groups"))
                                \cup ({"memberOf"} \X KeysIn(records, "servicePrincipals"))
        BY <2>1, PlanMembershipsFacts
    <2>3. stage' = "memberships"
        BY <1>3 DEF EndDirectory
    <2>4. KeysIn(records, "groups") \subseteq Groups /\ KeysIn(records, "servicePrincipals") \subseteq Applications
        BY KeyFacts
    <2> QED BY <2>2, <2>3, <2>4 DEF TodoInv
<1>4. CASE ReadMemberships
    <2>1. ToSet(todo') \subseteq ToSet(todo) /\ todo' \in Seq(Reads) /\ stage = "memberships" /\ stage' = stage
        BY <1>4, TailFacts DEF ReadMemberships
    <2> QED BY <2>1 DEF TodoInv
<1>5. CASE EndMemberships
    <2>1. stage' = "hierarchy" /\ todo' = <<"entities", "accounts">>
        BY <1>5 DEF EndMemberships
    <2>2. <<"entities", "accounts">> \in Seq(Reads)
        BY DEF Reads
    <2> QED BY <2>1, <2>2 DEF TodoInv
<1>6. CASE ReadEntities \/ ReadAccounts
    <2>1. todo' \in Seq(Reads) /\ stage = "hierarchy" /\ stage' = stage /\ todo # <<>> /\ todo' = Tail(todo)
        BY <1>6, TailFacts DEF ReadEntities, ReadAccounts
    <2>2. todo = <<"entities", "accounts">> \/ todo = <<"accounts">>
        BY <2>1 DEF TodoInv
    <2>3. Tail(<<"entities", "accounts">>) = <<"accounts">> /\ Tail(<<"accounts">>) = <<>>
        OBVIOUS
    <2>4. todo' \in {<<"accounts">>, <<>>}
        BY <2>1, <2>2, <2>3
    <2> QED BY <2>1, <2>4 DEF TodoInv
<1>7. CASE EndHierarchy
    <2>1. PICK groups \in SetToSeqs(KeysIn(records, "managementGroups")),
               subscriptions \in SetToSeqs(KeysIn(records, "subscriptions")) :
                    todo' = PlanAccess(groups, subscriptions)
        BY <1>7 DEF EndHierarchy
    <2> DEFINE M == KeysIn(records, "managementGroups")
               S == KeysIn(records, "subscriptions")
    <2>2. /\ todo' \in Seq(Reads)
          /\ ToSet(todo') = ({"definitions", "assignments"} \X (M \cup S)) \cup ({"contents"} \X S)
        BY <2>1, PlanAccessFacts
    <2>3. stage' = "access" /\ records' = records
        BY <1>7 DEF EndHierarchy
    <2>4. M \cup S \subseteq Listing
        BY KeyFacts DEF Listing
    <2>5. S' = S
        BY <2>3
    <2> HIDE DEF M
    <2> QED BY <2>2, <2>3, <2>4, <2>5 DEF TodoInv
<1>8. CASE ReadAccess
    <2>1. ToSet(todo') \subseteq ToSet(todo) /\ todo' \in Seq(Reads) /\ stage = "access" /\ stage' = stage
        BY <1>8, TailFacts DEF ReadAccess
    <2>2. KeysIn(records, "subscriptions") \subseteq KeysIn(records', "subscriptions")
        BY <1>8, ReadFacts DEF Read, KeysIn, InSection
    <2>3. KeysIn(records, "subscriptions")' = KeysIn(records', "subscriptions")
        BY DEF KeysIn, InSection
    <2> QED BY <2>1, <2>2, <2>3 DEF TodoInv
<1>9. CASE EndAccess
    BY <1>9 DEF EndAccess, TodoInv
<1>10. CASE ReadDefinition
    BY <1>10 DEF ReadDefinition, TodoInv
<1>11. CASE EndReading \/ OpenOutput \/ WriteBytes \/ FinishWriting \/ Fail
    <2>1. todo' = todo /\ \/ stage' = "ended"
                          \/ stage \in {"definitions", "opening", "writing"} /\ stage' \in {"opening", "writing"}
        BY <1>11 DEF EndReading, OpenOutput, WriteBytes, FinishWriting, Fail, End
    <2> QED BY <2>1 DEF TodoInv
<1> QED BY <1>1, <1>2, <1>3, <1>4, <1>5, <1>6, <1>7, <1>8, <1>9, <1>10, <1>11 DEF Script

LEMMA TypeNext ==
    ASSUME TypeInv, TodoInv, [Next]_vars
    PROVE  TypeInv' /\ TodoInv'
<1> USE TypeFacts
<1>1. CASE Administer
    <2>1. /\ changes' \in 0..MaxChanges /\ Lawful(tenant') /\ ever' = ever \cup tenant'
          /\ throughout' = throughout \cap tenant'
          /\ UNCHANGED <<accounts, stage, todo, records, parents, overwrite, file, exit>>
        BY <1>1, ExportAssumption DEF Administer
    <2>2. tenant' \subseteq Records
        BY <1>1 DEF Administer, Deleted, Edited
    <2>3. TypeInv'
        BY <2>1, <2>2, TypeStep
    <2> QED BY <2>1, <2>3 DEF TodoInv, KeysIn, InSection
<1>2. CASE SomebodyWrites
    <2>1. file' = "another" /\ UNCHANGED <<azure, stage, todo, records, parents, overwrite, exit, history>>
        BY <1>2 DEF SomebodyWrites
    <2>2. TypeInv'
        BY <2>1, TypeStep DEF azure, history
    <2> QED BY <2>1, <2>2 DEF TodoInv, KeysIn, InSection
<1>3. CASE UNCHANGED vars
    <2>1. TypeInv'
        BY <1>3, TypeStep DEF vars, azure, history
    <2> QED BY <1>3, <2>1 DEF vars, TodoInv, KeysIn, InSection
<1>4. CASE Read
    <2>1. PICK answer \in SUBSET (tenant \cup parents) : records' = records \cup answer
        BY <1>4, ReadFacts
    <2>2. records' \subseteq Records /\ parents' \subseteq InSection(Records, "subscriptions")
        BY <1>4, <2>1, ReadFacts DEF InSection
    <2>3. Script
        BY <1>4 DEF Read, Script
    <2>4. todo' \in Seq(Reads) /\ TodoInv'
        BY <2>3, TodoStep
    <2>5. UNCHANGED <<azure, stage, overwrite, file, exit, history>>
        BY <1>4, ReadFacts
    <2>6. TypeInv'
        BY <2>2, <2>4, <2>5, TypeStep DEF azure, history
    <2> QED BY <2>4, <2>6
<1>5. CASE Script /\ ~ Read
    <2>1. todo' \in Seq(Reads) /\ TodoInv'
        BY <1>5, TodoStep
    <2>2. /\ UNCHANGED <<azure, records, parents, overwrite>>
          /\ file' \in {file, "partial", "export"}
          /\ stage' \in Stages /\ exit' \in {"running", "dry", "done", "failed"}
          /\ (exit' = "running" <=> stage' # "ended")
          /\ (UNCHANGED history \/ (ever' = tenant /\ throughout' = tenant))
        <3>1. CASE Start(TRUE) \/ Start(FALSE)
            BY <3>1 DEF Start, End, Stages, history
        <3>2. CASE EndDirectory \/ EndMemberships \/ EndHierarchy \/ EndAccess
            BY <3>2 DEF EndDirectory, EndMemberships, EndHierarchy, EndAccess, Stages
        <3>3. CASE EndReading \/ OpenOutput \/ WriteBytes
            BY <3>3 DEF EndReading, OpenOutput, FileOpens, WriteBytes, End, Stages
        <3>4. CASE FinishWriting \/ Fail
            BY <3>4 DEF FinishWriting, Fail, End, Stages
        <3> QED BY <1>5, <3>1, <3>2, <3>3, <3>4 DEF Script, Read
    <2>3. ever' \subseteq Records /\ throughout' \subseteq ever'
        BY <2>2 DEF history
    <2>4. TypeInv'
        BY <2>1, <2>2, <2>3, TypeStep DEF azure
    <2> QED BY <2>1, <2>4
<1> QED BY <1>1, <1>2, <1>3, <1>4, <1>5 DEF Next

\* Every state is of its type: records and history hold records of the tenant
\* at some time, the file and the way the script ended go with its stage.
THEOREM ExportTypeCorrect == Spec => []TypeOK
<1>1. Init => TypeInv /\ TodoInv
    BY InitTypeInv DEF Init, TodoInv
<1>2. (TypeInv /\ TodoInv) /\ [Next]_vars => (TypeInv /\ TodoInv)'
    BY TypeNext
<1>3. TypeInv => TypeOK
    BY DEF TypeInv
<1> QED BY <1>1, <1>2, <1>3, PTL DEF Spec

----------------------------------------------------------------------------
(* What a finished export can be read with, and its file. *)

LEMMA ClosedStep ==
    ASSUME ClosedInv, NEW answer, records' = records \cup answer, Consistent(records'),
           accounts' = accounts,
           \A e \in InSection(answer, "managementGroups") \cup parents' :
                e.is \in KeysIn(records', "managementGroups") \cup {Root},
           InSection(answer, "subscriptions") \subseteq {e \in parents : e.key \in accounts},
           \A e \in InSection(answer, "resourceGroups") : e.is \in KeysIn(records', "subscriptions")
    PROVE  ClosedInv'
<1>1. /\ KeysIn(records, "managementGroups") \subseteq KeysIn(records', "managementGroups")
      /\ KeysIn(records, "subscriptions") \subseteq KeysIn(records', "subscriptions")
    BY DEF KeysIn, InSection
<1>2. Consistent(records)' = Consistent(records')
    BY DEF Consistent
<1>3. \A e \in InSection(records', "managementGroups") \cup InSection(records', "subscriptions") \cup parents' :
            e.is \in KeysIn(records', "managementGroups") \cup {Root}
    BY <1>1 DEF InSection, ClosedInv
<1>4. KeysIn(records', "subscriptions") \subseteq accounts'
    BY DEF KeysIn, InSection, ClosedInv
<1>5. \A e \in InSection(records', "resourceGroups") : e.is \in KeysIn(records', "subscriptions")
    BY <1>1 DEF InSection, ClosedInv
<1>6. ClosedInv' <=>
        /\ Consistent(records')
        /\ \A e \in InSection(records', "managementGroups") \cup InSection(records', "subscriptions") \cup parents' :
                e.is \in KeysIn(records', "managementGroups") \cup {Root}
        /\ KeysIn(records', "subscriptions") \subseteq accounts'
        /\ \A e \in InSection(records', "resourceGroups") : e.is \in KeysIn(records', "subscriptions")
    BY DEF ClosedInv, Consistent, InSection, KeysIn
<1> QED BY <1>3, <1>4, <1>5, <1>6

LEMMA ClosedNext ==
    ASSUME TypeInv, TodoInv, ClosedInv, [Next]_vars
    PROVE  ClosedInv'
<1> USE TypeFacts
<1>1. ASSUME parents' = parents
      PROVE  \A e \in parents' : e.is \in KeysIn(records, "managementGroups") \cup {Root}
    BY <1>1 DEF ClosedInv
<1>2. ASSUME NEW answer, records' = records \cup answer
      PROVE  KeysIn(records, "managementGroups") \subseteq KeysIn(records', "managementGroups")
    BY <1>2 DEF KeysIn, InSection
<1>3. CASE ReadDirectory
    <2> DEFINE answer == InSection(tenant, Head(todo))
    <2>1. /\ records' = records \cup answer /\ Consistent(records')
          /\ parents' = parents /\ accounts' = accounts
        BY <1>3 DEF ReadDirectory, Add, azure
    <2>2. Head(todo) \in Kinds
        BY <1>3, TailFacts DEF ReadDirectory, TodoInv
    <2>3. /\ InSection(answer, "managementGroups") = {} /\ InSection(answer, "subscriptions") = {}
          /\ InSection(answer, "resourceGroups") = {}
        BY <2>2 DEF InSection, Kinds
    <2> HIDE DEF answer
    <2> QED BY <1>1, <1>2, <2>1, <2>3, ClosedStep
<1>4. CASE ReadMemberships
    <2>1. PICK answer \in SUBSET InSection(tenant, "groupMemberships") :
            records' = records \cup answer /\ Consistent(records')
        BY <1>4 DEF ReadMemberships, Add
    <2>2. parents' = parents /\ accounts' = accounts
        BY <1>4 DEF ReadMemberships, azure
    <2>3. /\ InSection(answer, "managementGroups") = {} /\ InSection(answer, "subscriptions") = {}
          /\ InSection(answer, "resourceGroups") = {}
        BY DEF InSection
    <2> QED BY <1>1, <1>2, <2>1, <2>2, <2>3, ClosedStep
<1>5. CASE ReadEntities
    <2> DEFINE answer == InSection(tenant, "managementGroups")
    <2>1. /\ records' = records \cup answer /\ Consistent(records')
          /\ parents' = InSection(tenant, "subscriptions") /\ accounts' = accounts
        BY <1>5 DEF ReadEntities, Add, azure
    <2>2. InSection(answer, "subscriptions") = {} /\ InSection(answer, "resourceGroups") = {}
        BY DEF InSection
    <2>3. \A e \in InSection(tenant, "managementGroups") \cup InSection(tenant, "subscriptions") :
            e.is \in KeysIn(tenant, "managementGroups") \cup {Root}
        BY DEF Lawful, InSection
    <2>4. KeysIn(tenant, "managementGroups") \subseteq KeysIn(records', "managementGroups")
        BY <2>1 DEF KeysIn, InSection
    <2>5. \A e \in InSection(answer, "managementGroups") \cup parents' :
            e.is \in KeysIn(records', "managementGroups") \cup {Root}
        BY <2>1, <2>3, <2>4 DEF InSection
    <2> HIDE DEF answer
    <2> QED BY <2>1, <2>2, <2>5, ClosedStep
<1>6. CASE ReadAccounts
    <2> DEFINE answer == {e \in parents : e.key \in accounts}
    <2>1. /\ records' = records \cup answer /\ Consistent(records')
          /\ parents' = parents /\ accounts' = accounts
        BY <1>6 DEF ReadAccounts, Add, azure
    <2>2. /\ InSection(answer, "managementGroups") = {} /\ InSection(answer, "resourceGroups") = {}
          /\ InSection(answer, "subscriptions") \subseteq {e \in parents : e.key \in accounts}
        BY DEF InSection
    <2> HIDE DEF answer
    <2> QED BY <1>1, <1>2, <2>1, <2>2, ClosedStep
<1>7. CASE ReadAccess
    <2>1. PICK answer \in SUBSET tenant :
            /\ Add(answer)
            /\ Head(todo)[1] = "contents" =>
                    answer = {e \in InSection(tenant, "resourceGroups") : e.is = Head(todo)[2]}
            /\ Head(todo)[1] = "definitions" => answer \subseteq InSection(tenant, "roleDefinitions")
            /\ Head(todo)[1] = "assignments" => answer \subseteq InSection(tenant, "roleAssignments")
        BY <1>7, AccessAnswers
    <2>2. /\ records' = records \cup answer /\ Consistent(records')
          /\ parents' = parents /\ accounts' = accounts
        BY <1>7, <2>1 DEF ReadAccess, Add, azure
    <2>3. /\ Head(todo)[1] \in {"contents", "definitions", "assignments"}
          /\ Head(todo)[1] = "contents" => Head(todo)[2] \in KeysIn(records, "subscriptions")
        BY <1>7, TailFacts DEF ReadAccess, TodoInv
    <2>4. /\ InSection(answer, "managementGroups") = {} /\ InSection(answer, "subscriptions") = {}
          /\ \A e \in InSection(answer, "resourceGroups") : e.is \in KeysIn(records, "subscriptions")
        BY <2>1, <2>3 DEF InSection
    <2>5. KeysIn(records, "subscriptions") \subseteq KeysIn(records', "subscriptions")
        BY <2>2 DEF KeysIn, InSection
    <2> QED BY <1>1, <1>2, <2>2, <2>4, <2>5, ClosedStep
<1>8. CASE ReadDefinition
    <2>1. PICK answer \in SUBSET InSection(tenant, "roleDefinitions") :
            records' = records \cup answer /\ Consistent(records')
        BY <1>8 DEF ReadDefinition, Add
    <2>2. parents' = parents /\ accounts' = accounts
        BY <1>8 DEF ReadDefinition, azure
    <2>3. /\ InSection(answer, "managementGroups") = {} /\ InSection(answer, "subscriptions") = {}
          /\ InSection(answer, "resourceGroups") = {}
        BY DEF InSection
    <2> QED BY <1>1, <1>2, <2>1, <2>2, <2>3, ClosedStep
<1>9. CASE UNCHANGED <<records, parents, accounts>>
    BY <1>9 DEF ClosedInv, Consistent, InSection, KeysIn
<1>10. ~ Read /\ [Next]_vars => UNCHANGED <<records, parents, accounts>>
    <2>1. Administer \/ SomebodyWrites \/ UNCHANGED vars => UNCHANGED <<records, parents, accounts>>
        BY DEF Administer, SomebodyWrites, vars, azure
    <2>2. Start(TRUE) \/ Start(FALSE) \/ EndDirectory \/ EndMemberships \/ EndHierarchy \/ EndAccess
            => UNCHANGED <<records, parents, accounts>>
        BY DEF Start, EndDirectory, EndMemberships, EndHierarchy, EndAccess, azure
    <2>3. EndReading \/ OpenOutput \/ WriteBytes \/ FinishWriting \/ Fail
            => UNCHANGED <<records, parents, accounts>>
        BY DEF EndReading, OpenOutput, WriteBytes, FinishWriting, Fail, azure
    <2> QED BY <2>1, <2>2, <2>3 DEF Next, Script, Read
<1> QED BY <1>3, <1>4, <1>5, <1>6, <1>7, <1>8, <1>9, <1>10 DEF Read

LEMMA FileNext ==
    ASSUME TypeInv, TodoInv, FileInv, [Next]_vars
    PROVE  FileInv' /\ (file = "another" /\ ~ overwrite => file' = "another")
<1> USE TypeFacts
<1>1. ASSUME UNCHANGED <<todo, records>> PROVE Complete' = Complete
    BY <1>1 DEF Complete, Undefined, KeysIn, InSection
<1>2. ASSUME UNCHANGED <<todo, records, stage, file, exit, overwrite>>
      PROVE  FileInv' /\ (file = "another" /\ ~ overwrite => file' = "another")
    BY <1>1, <1>2 DEF FileInv, Exported, KeysIn, InSection
<1>3. CASE Administer \/ UNCHANGED vars
    BY <1>2, <1>3 DEF Administer, vars
<1>4. CASE SomebodyWrites
    BY <1>1, <1>4 DEF SomebodyWrites, FileInv, Exported, KeysIn, InSection
<1>5. CASE Start(TRUE) \/ Start(FALSE)
    BY <1>1, <1>5 DEF Start, End, FileInv, Exported, Complete, Undefined
<1>6. CASE ReadDirectory \/ EndDirectory \/ ReadMemberships \/ EndMemberships
    <2>1. /\ stage \in {"directory", "memberships"} /\ stage' \in {"directory", "memberships", "hierarchy"}
          /\ stage' = "hierarchy" => todo' # <<>>
          /\ UNCHANGED <<file, exit>>
        <3>1. CASE ReadDirectory \/ EndDirectory \/ ReadMemberships
            BY <3>1 DEF ReadDirectory, EndDirectory, ReadMemberships
        <3>2. CASE EndMemberships
            BY <3>2 DEF EndMemberships
        <3> QED BY <1>6, <3>1, <3>2
    <2>2. exit = "running" /\ file \notin {"partial", "export"}
        BY <2>1 DEF FileInv
    <2> QED BY <2>1, <2>2 DEF FileInv, Exported
<1>7. CASE ReadEntities \/ ReadAccounts
    <2>1. /\ stage = "hierarchy" /\ UNCHANGED <<stage, file, exit>>
        BY <1>7 DEF ReadEntities, ReadAccounts
    <2>2. exit = "running" /\ file \notin {"partial", "export"}
        BY <2>1 DEF FileInv
    <2>3. todo' = <<>> => KeysIn(records', "managementGroups") # {}
        <3>1. CASE ReadEntities
            <4>1. todo = <<"entities", "accounts">> /\ todo' = Tail(todo)
                BY <3>1 DEF ReadEntities, TodoInv
            <4> QED BY <4>1
        <3>2. CASE ReadAccounts
            BY <3>2 DEF ReadAccounts, Add, KeysIn, InSection
        <3> QED BY <1>7, <3>1, <3>2
    <2>4. KeysIn(records, "managementGroups")' = KeysIn(records', "managementGroups")
        BY DEF KeysIn, InSection
    <2> QED BY <2>1, <2>2, <2>3, <2>4 DEF FileInv, Exported
<1>8. CASE EndHierarchy \/ EndAccess
    <2>1. /\ (stage = "hierarchy" /\ todo = <<>>) \/ stage = "access"
          /\ stage' \in {"access", "definitions"} /\ UNCHANGED <<file, exit, records>>
        BY <1>8 DEF EndHierarchy, EndAccess
    <2>2. exit = "running" /\ file \notin {"partial", "export"} /\ KeysIn(records, "managementGroups") # {}
        BY <2>1 DEF FileInv
    <2> QED BY <2>1, <2>2 DEF FileInv, Exported, KeysIn, InSection
<1>9. CASE ReadAccess \/ ReadDefinition
    <2>1. stage \in {"access", "definitions"} /\ UNCHANGED <<stage, file, exit>>
        BY <1>9 DEF ReadAccess, ReadDefinition
    <2>2. exit = "running" /\ file \notin {"partial", "export"} /\ KeysIn(records, "managementGroups") # {}
        BY <2>1 DEF FileInv
    <2>3. KeysIn(records', "managementGroups") # {}
        BY <1>9, <2>2, ReadFacts DEF Read, KeysIn, InSection
    <2>4. KeysIn(records, "managementGroups")' = KeysIn(records', "managementGroups")
        BY DEF KeysIn, InSection
    <2> QED BY <2>1, <2>2, <2>3, <2>4 DEF FileInv, Exported
<1>10. CASE EndReading
    <2>1. /\ stage = "definitions" /\ Undefined = {} /\ UNCHANGED <<file, todo, records, overwrite>>
          /\ \/ stage' = "ended" /\ exit' = "failed"
             \/ stage' = "opening" /\ exit' = exit
        BY <1>10 DEF EndReading, End
    <2>2. Complete /\ file \notin {"partial", "export"} /\ exit = "running"
        BY <2>1 DEF FileInv, TodoInv, Complete
    <2> QED BY <1>1, <2>1, <2>2 DEF FileInv, Exported
<1>11. CASE OpenOutput
    <2>1. /\ stage = "opening" /\ stage' = "writing" /\ UNCHANGED <<todo, records, overwrite, exit>>
          /\ (file = "none" /\ file' = "partial") \/ (overwrite /\ file' = file)
        BY <1>11 DEF OpenOutput, FileOpens
    <2>2. Complete /\ file \notin {"partial", "export"} /\ exit = "running"
        BY <2>1 DEF FileInv
    <2> QED BY <1>1, <2>1, <2>2 DEF FileInv, Exported
<1>12. CASE WriteBytes
    <2>1. stage = "writing" /\ file' = "partial" /\ UNCHANGED <<stage, todo, records, overwrite, exit>>
        BY <1>12 DEF WriteBytes
    <2>2. Complete /\ exit = "running" /\ (file = "partial" \/ overwrite)
        BY <2>1 DEF FileInv
    <2> QED BY <1>1, <2>1, <2>2 DEF FileInv, Exported
<1>13. CASE FinishWriting
    <2>1. /\ stage = "writing" /\ file' = "export" /\ UNCHANGED <<todo, records, overwrite>>
          /\ stage' = "ended" /\ exit' = "done"
        BY <1>13 DEF FinishWriting, End
    <2>2. Complete /\ (file = "partial" \/ overwrite)
        BY <2>1 DEF FileInv
    <2> QED BY <1>1, <2>1, <2>2 DEF FileInv, Exported
<1>14. CASE Fail
    BY <1>1, <1>14 DEF Fail, End, FileInv, Exported
<1> QED BY <1>3, <1>4, <1>5, <1>6, <1>7, <1>8, <1>9, <1>10, <1>11, <1>12, <1>13, <1>14
        DEF Next, Script

LEMMA ExportInvariants == Spec => [](TypeInv /\ TodoInv /\ ClosedInv /\ FileInv)
<1>1. Init => TypeInv /\ TodoInv /\ ClosedInv /\ FileInv
    <2>1. Init => ClosedInv
        BY DEF Init, ClosedInv, Consistent, InSection, KeysIn
    <2>2. Init => FileInv
        BY DEF Init, FileInv, Exported
    <2> QED BY <2>1, <2>2, InitTypeInv DEF Init, TodoInv
<1>2. TypeInv /\ TodoInv /\ ClosedInv /\ FileInv /\ [Next]_vars
        => (TypeInv /\ TodoInv /\ ClosedInv /\ FileInv)'
    BY TypeNext, ClosedNext, FileNext
<1> QED BY <1>1, <1>2, PTL DEF Spec

\* A finished export can be read by itself: its assigned roles are defined in
\* it, its scopes have their parents in it and no record is in it twice.
THEOREM ExportReadableAlone == Spec => []ExportIsClosed
<1>1. ClosedInv /\ FileInv => ExportIsClosed
    BY DEF ClosedInv, FileInv, ExportIsClosed, Complete, Undefined, KeysIn
<1> QED BY <1>1, ExportInvariants, PTL

\* Nothing is written before all was read, an export that says it is done is in
\* the file, and the file of somebody else is only overwritten with -Overwrite.
THEOREM OutputIsComplete == Spec => OutputOnlyWhenComplete
<1>1. FileInv =>
        /\ file \in {"partial", "export"} =>
            /\ stage \in {"writing", "ended"} /\ exit # "dry"
            /\ todo = <<>> /\ Undefined = {} /\ KeysIn(records, "managementGroups") # {}
        /\ Exported => file = "export"
    BY DEF FileInv, Complete
<1>2. TypeInv /\ TodoInv /\ FileInv /\ [Next]_vars =>
        [file = "another" /\ ~ overwrite => file' = "another"]_vars
    BY FileNext
<1> QED BY <1>1, <1>2, ExportInvariants, PTL DEF Spec, OutputOnlyWhenComplete

----------------------------------------------------------------------------
(* What an export tells of the tenant. *)

LEMMA HistoryNext ==
    ASSUME TypeInv, TodoInv, HistoryInv, [Next]_vars
    PROVE  HistoryInv'
<1> USE TypeFacts
<1>1. CASE Administer
    <2>1. /\ stage \notin {"start", "ended"} /\ Lawful(tenant')
          /\ ever' = ever \cup tenant' /\ throughout' = throughout \cap tenant'
          /\ UNCHANGED <<stage, records, parents>>
        BY <1>1 DEF Administer, Reading
    <2>2. \A e \in InSection(throughout', "groupMemberships") :
            Person(e.key[1]) \in throughout' /\ Person(e.key[2]) \in throughout'
        BY <2>1 DEF HistoryInv, Lawful, InSection
    <2>3. (\A e \in InSection(throughout, "groupMemberships") :
            Person(e.key[1]) \in throughout /\ Person(e.key[2]) \in throughout)'
        BY <2>2 DEF InSection, Person, Entry
    <2> QED BY <2>1, <2>3 DEF HistoryInv
<1>2. CASE SomebodyWrites \/ UNCHANGED vars
    BY <1>2 DEF SomebodyWrites, vars, azure, history, HistoryInv, InSection, Person, Entry
<1>3. CASE Start(TRUE) \/ Start(FALSE)
    <2>1. UNCHANGED <<tenant, records, parents>>
        BY <1>3 DEF Start, azure
    <2>2. CASE UNCHANGED history /\ stage' = "ended"
        BY <2>1, <2>2 DEF history, HistoryInv, InSection, Person, Entry
    <2>3. CASE ever' = tenant /\ throughout' = tenant /\ stage' = "directory"
        <3>1. records = {} /\ parents = {}
            BY <1>3 DEF Start, HistoryInv
        <3>2. \A e \in InSection(throughout', "groupMemberships") :
                Person(e.key[1]) \in throughout' /\ Person(e.key[2]) \in throughout'
            BY <2>3 DEF Lawful
        <3>3. (\A e \in InSection(throughout, "groupMemberships") :
                Person(e.key[1]) \in throughout /\ Person(e.key[2]) \in throughout)'
            BY <3>2 DEF InSection, Person, Entry
        <3> QED BY <2>1, <2>3, <3>1, <3>3 DEF HistoryInv
    <2> QED BY <1>3, <2>2, <2>3 DEF Start, End, history
<1>4. CASE Read
    <2>1. PICK answer \in SUBSET (tenant \cup parents) : records' = records \cup answer
        BY <1>4, ReadFacts
    <2>2. parents' \subseteq parents \cup tenant /\ UNCHANGED <<tenant, stage, ever, throughout>>
        BY <1>4, ReadFacts DEF InSection, azure, history
    <2>3. stage \notin {"start", "ended"}
        BY <1>4 DEF Read, ReadDirectory, ReadMemberships, ReadEntities, ReadAccounts, ReadAccess,
                    ReadDefinition
    <2>4. tenant \subseteq ever /\ records \subseteq ever /\ parents \subseteq ever
        BY <2>3 DEF HistoryInv
    <2>5. records' \subseteq ever /\ parents' \subseteq ever
        BY <2>1, <2>2, <2>4
    <2> QED BY <2>2, <2>3, <2>5 DEF HistoryInv, InSection, Person, Entry
<1>5. CASE EndDirectory \/ EndMemberships \/ EndHierarchy \/ EndAccess \/ EndReading
            \/ OpenOutput \/ WriteBytes \/ FinishWriting \/ Fail
    <2>1. UNCHANGED <<tenant, records, parents, ever, throughout>> /\ stage' # "start"
        BY <1>5 DEF EndDirectory, EndMemberships, EndHierarchy, EndAccess, EndReading,
                    OpenOutput, WriteBytes, FinishWriting, Fail, End, azure, history
    <2>2. stage' # "ended" => stage \notin {"start", "ended"}
        BY <1>5 DEF EndDirectory, EndMemberships, EndHierarchy, EndAccess, EndReading,
                    OpenOutput, WriteBytes, FinishWriting, Fail, End
    <2> QED BY <2>1, <2>2 DEF HistoryInv, InSection, Person, Entry
<1> QED BY <1>1, <1>2, <1>3, <1>4, <1>5 DEF Next, Script, Read

\* The read that answers with a membership for certain.
Asks(e) == IF e.key[2] \in Applications THEN <<"memberOf", e.key[2]>> ELSE <<"members", e.key[1]>>

Early == stage \in {"directory", "memberships"}

BeforeAccess == Early \/ stage = "hierarchy"

StillDue(read) == BeforeAccess \/ (stage = "access" /\ read \in ToSet(todo))

\* What was so all the time and is not yet collected is still to be read.
Awaited(e) ==
    /\ e.section \in Kinds => stage = "directory" /\ e.section \in ToSet(todo)
    /\ e.section = "groupMemberships" =>
            stage = "directory" \/ (stage = "memberships" /\ Asks(e) \in ToSet(todo))
    /\ e.section = "managementGroups" => Early \/ (stage = "hierarchy" /\ "entities" \in ToSet(todo))
    /\ e.section = "subscriptions" =>
            \/ Early
            \/ stage = "hierarchy" /\ "entities" \in ToSet(todo)
            \/ /\ e \in parents
               /\ e.key \in accounts => stage = "hierarchy" /\ "accounts" \in ToSet(todo)
    /\ e.section = "resourceGroups" => (e.is \in CoveredThroughout => StillDue(<<"contents", e.is>>))
    /\ e.section = "roleDefinitions" =>
            \A x \in Assignable[e.key] \cap CoveredThroughout : StillDue(<<"definitions", x>>)
    /\ e.section = "roleAssignments" =>
            \A x \in CoveredThroughout : Grant[e.key].scope \in Listed[x] => StillDue(<<"assignments", x>>)

CoverInv ==
    stage \notin {"start", "ended"} \/ Exported => \A e \in throughout \ records : Awaited(e)

LEMMA CoveredStep ==
    ASSUME throughout' \subseteq throughout, accounts' = accounts
    PROVE  CoveredThroughout' \subseteq CoveredThroughout
BY DEF CoveredThroughout, KeysIn, InSection

\* A read at a scope leaves the other reads.
LEMMA AccessCovers ==
    ASSUME TypeInv, TodoInv, HistoryInv, ReadAccess,
           NEW e \in throughout \ records', Awaited(e)
    PROVE  Awaited(e)'
<1> USE TypeFacts
<1>1. /\ stage = "access" /\ stage' = stage /\ accounts' = accounts
      /\ throughout' = throughout /\ parents' = parents /\ tenant' = tenant
    BY DEF ReadAccess, azure, history
<1>2. throughout \subseteq tenant
    BY <1>1 DEF HistoryInv
<1>3. ToSet(todo) = {Head(todo)} \cup ToSet(todo')
    BY TailFacts DEF ReadAccess
<1>4. PICK answer \in SUBSET tenant :
            /\ records' = records \cup answer
            /\ Head(todo)[1] = "contents" =>
                    answer = {f \in InSection(tenant, "resourceGroups") : f.is = Head(todo)[2]}
            /\ Head(todo)[1] = "definitions" =>
                    answer = {f \in InSection(tenant, "roleDefinitions") : Head(todo)[2] \in Assignable[f.key]}
            /\ Head(todo)[1] = "assignments" =>
                    answer = {f \in InSection(tenant, "roleAssignments") :
                                Grant[f.key].scope \in Listed[Head(todo)[2]]}
    BY AccessAnswers DEF Add
<1>5. e \in tenant /\ e \notin answer
    BY <1>2, <1>4
<1>6. CoveredThroughout' \subseteq CoveredThroughout
    BY <1>1, CoveredStep
<1>7. \A read \in ToSet(todo) : read # Head(todo) => StillDue(read)'
    BY <1>1, <1>3 DEF StillDue
<1>8. ASSUME e.section = "resourceGroups", e.is \in CoveredThroughout
      PROVE  StillDue(<<"contents", e.is>>)'
    <2>1. <<"contents", e.is>> \in ToSet(todo)
        BY <1>1, <1>8 DEF Awaited, StillDue, BeforeAccess, Early
    <2>2. <<"contents", e.is>> # Head(todo)
        BY <1>4, <1>5, <1>8 DEF InSection
    <2> QED BY <1>7, <2>1, <2>2
<1>9. ASSUME e.section = "roleDefinitions", NEW x \in Assignable[e.key] \cap CoveredThroughout
      PROVE  StillDue(<<"definitions", x>>)'
    <2>1. <<"definitions", x>> \in ToSet(todo)
        BY <1>1, <1>9 DEF Awaited, StillDue, BeforeAccess, Early
    <2>2. <<"definitions", x>> # Head(todo)
        BY <1>4, <1>5, <1>9 DEF InSection
    <2> QED BY <1>7, <2>1, <2>2
<1>10. ASSUME e.section = "roleAssignments", NEW x \in CoveredThroughout, Grant[e.key].scope \in Listed[x]
       PROVE  StillDue(<<"assignments", x>>)'
    <2>1. <<"assignments", x>> \in ToSet(todo)
        BY <1>1, <1>10 DEF Awaited, StillDue, BeforeAccess, Early
    <2>2. <<"assignments", x>> # Head(todo)
        BY <1>4, <1>5, <1>10 DEF InSection
    <2> QED BY <1>7, <2>1, <2>2
<1>11. e.section \notin Kinds \cup {"groupMemberships", "managementGroups"}
    BY <1>1 DEF Awaited, Early
<1>12. e.section = "subscriptions" => e \in parents' /\ e.key \notin accounts'
    BY <1>1 DEF Awaited, Early
<1> QED BY <1>6, <1>8, <1>9, <1>10, <1>11, <1>12 DEF Awaited

\* A record that is awaited before the access is read stays so until then.
LEMMA EarlyCovers ==
    ASSUME NEW e, BeforeAccess', e.section \in {"resourceGroups", "roleDefinitions", "roleAssignments"}
    PROVE  Awaited(e)'
<1>1. \A read : StillDue(read)'
    BY DEF StillDue
<1>2. e.section \notin Kinds \cup {"groupMemberships", "managementGroups", "subscriptions"}
    BY DEF Kinds
<1> QED BY <1>1, <1>2 DEF Awaited

LEMMA SectionFacts ==
    ASSUME TypeInv, NEW e \in throughout
    PROVE  e \in Records /\ \/ e.section \in Kinds
                            \/ e.section \in {"groupMemberships", "managementGroups", "subscriptions"}
                            \/ e.section \in {"resourceGroups", "roleDefinitions", "roleAssignments"}
BY TypeFacts, RecordFacts

LEMMA ReadCovers ==
    ASSUME TypeInv, TodoInv, HistoryInv, Read,
           NEW e \in throughout \ records', Awaited(e)
    PROVE  Awaited(e)'
<1> USE TypeFacts, SectionFacts
<1>1. /\ stage' = stage /\ accounts' = accounts /\ throughout' = throughout /\ tenant' = tenant
      /\ records \subseteq records'
    BY ReadFacts DEF azure, history
<1>2. stage \notin {"start", "ended"} => throughout \subseteq tenant
    BY DEF HistoryInv
<1>3. CASE ReadDirectory
    <2>1. /\ stage = "directory" /\ records' = records \cup InSection(tenant, Head(todo))
          /\ ToSet(todo) = {Head(todo)} \cup ToSet(todo')
        BY <1>3, TailFacts DEF ReadDirectory, Add
    <2>2. e.section # Head(todo)
        BY <1>2, <2>1 DEF InSection
    <2>3. e.section \in Kinds => e.section \in ToSet(todo')
        BY <2>1, <2>2 DEF Awaited
    <2>4. Early' /\ BeforeAccess' /\ stage' = "directory"
        BY <1>1, <2>1 DEF Early, BeforeAccess
    <2>5. CASE e.section \in {"resourceGroups", "roleDefinitions", "roleAssignments"}
        BY <2>4, <2>5, EarlyCovers
    <2>6. CASE e.section \notin {"resourceGroups", "roleDefinitions", "roleAssignments"}
        BY <2>3, <2>4, <2>6 DEF Awaited
    <2> QED BY <2>5, <2>6
<1>4. CASE ReadMemberships
    <2> DEFINE end == IF Head(todo)[1] = "members" THEN 1 ELSE 2
               answer == {f \in InSection(tenant, "groupMemberships") : f.key[end] = Head(todo)[2]}
               omitted == {f \in answer : end = 1 /\ f.key[2] \in Applications}
    <2>1. /\ stage = "memberships"
          /\ ToSet(todo) = {Head(todo)} \cup ToSet(todo')
        BY <1>4, TailFacts DEF ReadMemberships
    <2>2. PICK hidden \in SUBSET omitted : records' = records \cup (answer \ hidden)
        BY <1>4 DEF ReadMemberships, Add
    <2>3. Early' /\ BeforeAccess' /\ stage' = "memberships"
        BY <1>1, <2>1 DEF Early, BeforeAccess
    <2>4. ASSUME e.section = "groupMemberships" PROVE Asks(e) \in ToSet(todo')
        <3>1. Asks(e) \in ToSet(todo)
            BY <2>1, <2>4 DEF Awaited
        <3>2. Asks(e) # Head(todo)
            <4>1. e \in InSection(tenant, "groupMemberships") /\ e \notin answer \ hidden
                BY <1>2, <2>1, <2>2, <2>4 DEF InSection
            <4>2. CASE e.key[2] \in Applications
                BY <4>1, <4>2 DEF Asks
            <4>3. CASE e.key[2] \notin Applications
                BY <4>1, <4>3 DEF Asks
            <4> QED BY <4>2, <4>3
        <3> QED BY <2>1, <3>1, <3>2
    <2>5. e.section \notin Kinds
        BY <2>1 DEF Awaited
    <2>6. CASE e.section \in {"resourceGroups", "roleDefinitions", "roleAssignments"}
        BY <2>3, <2>6, EarlyCovers
    <2>7. CASE e.section \notin {"resourceGroups", "roleDefinitions", "roleAssignments"}
        <3>1. Asks(e)' = Asks(e)
            BY DEF Asks
        <3> QED BY <2>3, <2>4, <2>5, <2>7, <3>1 DEF Awaited
    <2> QED BY <2>6, <2>7
<1>5. CASE ReadEntities \/ ReadAccounts
    <2>1. /\ stage = "hierarchy" /\ ~ Early
          /\ ToSet(todo) = {Head(todo)} \cup ToSet(todo')
        BY <1>5, TailFacts DEF ReadEntities, ReadAccounts, Early
    <2>2. BeforeAccess'
        BY <1>1, <2>1 DEF BeforeAccess
    <2>3. e.section \notin Kinds \cup {"groupMemberships"}
        BY <2>1 DEF Awaited
    <2>4. CASE e.section \in {"resourceGroups", "roleDefinitions", "roleAssignments"}
        BY <2>2, <2>4, EarlyCovers
    <2>5. CASE e.section = "managementGroups"
        <3>1. "entities" \in ToSet(todo)
            BY <2>1, <2>5 DEF Awaited
        <3>2. ~ ReadEntities
            BY <1>2, <2>1, <2>5 DEF ReadEntities, Add, InSection
        <3>3. "entities" \in ToSet(todo')
            BY <1>5, <2>1, <3>1, <3>2 DEF ReadAccounts
        <3> QED BY <1>1, <2>1, <2>5, <3>3 DEF Awaited, Kinds
    <2>6. CASE e.section = "subscriptions"
        <3>1. CASE ReadEntities
            <4>1. e \in parents'
                BY <1>2, <2>1, <2>6, <3>1 DEF ReadEntities, InSection
            <4>2. todo = <<"entities", "accounts">> /\ todo' = Tail(todo)
                BY <2>1, <3>1 DEF ReadEntities, TodoInv
            <4>3. "accounts" \in ToSet(todo')
                BY <4>2 DEF ToSet
            <4> QED BY <1>1, <2>1, <2>6, <4>1, <4>3 DEF Awaited, Kinds
        <3>2. CASE ReadAccounts
            <4>1. todo = <<"accounts">>
                BY <2>1, <3>2 DEF ReadAccounts, TodoInv
            <4>2. "entities" \notin ToSet(todo)
                BY <4>1 DEF ToSet
            <4>3. e \in parents
                BY <2>1, <2>6, <4>2 DEF Awaited
            <4>4. e.key \notin accounts /\ parents' = parents
                BY <3>2, <4>3 DEF ReadAccounts, Add
            <4> QED BY <1>1, <2>6, <4>3, <4>4 DEF Awaited, Kinds
        <3> QED BY <1>5, <3>1, <3>2
    <2> QED BY <2>3, <2>4, <2>5, <2>6
<1>6. CASE ReadAccess
    BY <1>6, AccessCovers
<1>7. CASE ReadDefinition
    <2>1. stage = "definitions" /\ stage' = "definitions" /\ todo' = todo /\ parents' = parents
        BY <1>7 DEF ReadDefinition
    <2>2. \A read : ~ StillDue(read)
        BY <2>1 DEF StillDue, BeforeAccess, Early
    <2>3. CoveredThroughout' = CoveredThroughout
        BY <1>1 DEF CoveredThroughout
    <2>4. ~ Early
        BY <2>1 DEF Early
    <2> QED BY <1>1, <2>1, <2>2, <2>3, <2>4 DEF Awaited
<1> QED BY <1>3, <1>4, <1>5, <1>6, <1>7 DEF Read

\* Once the access is read, what is awaited is so whatever the stage.
LEMMA LateCovers ==
    ASSUME NEW e, Awaited(e), UNCHANGED <<accounts, throughout, parents>>,
           stage \in {"definitions", "opening", "writing"} \/ (stage = "access" /\ ToSet(todo) = {}),
           stage' \notin {"directory", "memberships", "hierarchy"}
    PROVE  Awaited(e)'
<1>1. \A read : ~ StillDue(read)
    BY DEF StillDue, BeforeAccess, Early
<1>2. CoveredThroughout' = CoveredThroughout
    BY DEF CoveredThroughout
<1>3. ~ Early /\ stage # "directory" /\ stage # "hierarchy"
    BY DEF Early
<1> QED BY <1>1, <1>2, <1>3 DEF Awaited

\* Those that are asked for their memberships.
LEMMA DirectoryCovers ==
    ASSUME TypeInv, HistoryInv, EndDirectory, \A e \in throughout \ records : Awaited(e),
           NEW e \in throughout \ records'
    PROVE  Awaited(e)'
<1> USE TypeFacts, SectionFacts
<1>1. /\ stage = "directory" /\ todo = <<>> /\ stage' = "memberships" /\ records' = records
    BY DEF EndDirectory
<1>2. PICK groups \in SetToSeqs(KeysIn(records, "groups")),
           applications \in SetToSeqs(KeysIn(records, "servicePrincipals")) :
                todo' = PlanMemberships(groups, applications)
    BY DEF EndDirectory
<1>3. ToSet(todo') = ({"members"} \X KeysIn(records, "groups"))
                        \cup ({"memberOf"} \X KeysIn(records, "servicePrincipals"))
    BY <1>2, PlanMembershipsFacts
<1>4. ToSet(todo) = {}
    BY <1>1 DEF ToSet
<1>5. \A f \in throughout : f.section \in Kinds => f \in records
    BY <1>4 DEF Awaited
<1>6. Early' /\ BeforeAccess'
    BY <1>1 DEF Early, BeforeAccess
<1>7. CASE e.section \in {"resourceGroups", "roleDefinitions", "roleAssignments"}
    BY <1>6, <1>7, EarlyCovers
<1>8. CASE e.section \in {"managementGroups", "subscriptions"}
    BY <1>6, <1>8 DEF Awaited, Kinds
<1>9. CASE e.section = "groupMemberships"
    <2>1. /\ e.key[1] \in Groups /\ e.key[2] \in Objects
          /\ Person(e.key[1]) \in throughout /\ Person(e.key[2]) \in throughout
        BY <1>9, RecordFacts DEF HistoryInv, InSection
    <2>2. Person(e.key[1]).section = "groups" /\ Person(e.key[1]).key = e.key[1]
        BY <2>1, Disjoint DEF Person, Entry
    <2>3. e.key[1] \in KeysIn(records, "groups")
        BY <1>5, <2>1, <2>2 DEF KeysIn, InSection, Kinds
    <2>4. ASSUME e.key[2] \in Applications
          PROVE  e.key[2] \in KeysIn(records, "servicePrincipals")
        <3>1. Person(e.key[2]).section = "servicePrincipals" /\ Person(e.key[2]).key = e.key[2]
            BY <2>4, Disjoint DEF Person, Entry
        <3> QED BY <1>5, <2>1, <3>1 DEF KeysIn, InSection, Kinds
    <2>5. Asks(e) \in ToSet(todo')
        BY <1>3, <2>3, <2>4 DEF Asks
    <2>6. Asks(e)' = Asks(e)
        BY DEF Asks
    <2> QED BY <1>1, <1>9, <2>5, <2>6 DEF Awaited, Kinds
<1> QED BY <1>1, <1>5, <1>7, <1>8, <1>9

\* The scopes that are read.
LEMMA HierarchyCovers ==
    ASSUME TypeInv, EndHierarchy, \A e \in throughout \ records : Awaited(e),
           NEW e \in throughout \ records'
    PROVE  Awaited(e)'
<1> USE TypeFacts, SectionFacts
<1>1. /\ stage = "hierarchy" /\ todo = <<>> /\ stage' = "access"
      /\ UNCHANGED <<records, accounts, throughout, parents>>
    BY DEF EndHierarchy, azure, history
<1>2. PICK groups \in SetToSeqs(KeysIn(records, "managementGroups")),
           subscriptions \in SetToSeqs(KeysIn(records, "subscriptions")) :
                todo' = PlanAccess(groups, subscriptions)
    BY DEF EndHierarchy
<1> DEFINE M == KeysIn(records, "managementGroups")
           S == KeysIn(records, "subscriptions")
<1>3. ToSet(todo') = ({"definitions", "assignments"} \X (M \cup S)) \cup ({"contents"} \X S)
    BY <1>2, PlanAccessFacts
<1>4. ToSet(todo) = {} /\ ~ Early
    BY <1>1 DEF ToSet, Early
<1>5. \A f \in throughout : f.section = "managementGroups" => f \in records
    BY <1>4 DEF Awaited
<1>6. \A f \in throughout : f.section = "subscriptions" /\ f.key \in accounts => f \in records
    BY <1>4 DEF Awaited
<1>7. KeysIn(throughout, "managementGroups") \subseteq M
    BY <1>5 DEF KeysIn, InSection
<1>8. KeysIn(throughout, "subscriptions") \cap accounts \subseteq S
    BY <1>6 DEF KeysIn, InSection
<1>9. CoveredThroughout \subseteq M \cup S
    BY <1>7, <1>8 DEF CoveredThroughout
<1>10. KeysIn(throughout, "managementGroups") \cap Subscriptions = {}
    BY KeyFacts, Disjoint
<1>11. CoveredThroughout \cap Subscriptions \subseteq S
    BY <1>8, <1>10 DEF CoveredThroughout
<1> HIDE DEF M, S
<1>12. CoveredThroughout' = CoveredThroughout
    BY <1>1 DEF CoveredThroughout
<1>13. \A read \in ToSet(todo') : StillDue(read)'
    BY <1>1 DEF StillDue
<1>14. e.section \notin Kinds \cup {"groupMemberships", "managementGroups"}
    BY <1>1, <1>4, <1>5 DEF Awaited
<1>15. CASE e.section = "subscriptions"
    <2>1. e \in parents' /\ e.key \notin accounts'
        BY <1>1, <1>4, <1>15 DEF Awaited
    <2> QED BY <1>15, <2>1 DEF Awaited, Kinds
<1>16. CASE e.section = "resourceGroups"
    <2>1. e.is \in Subscriptions
        BY <1>16, RecordFacts
    <2>2. e.is \in CoveredThroughout => StillDue(<<"contents", e.is>>)'
        BY <1>3, <1>11, <1>13, <2>1
    <2> QED BY <1>12, <1>16, <2>2 DEF Awaited, Kinds
<1>17. CASE e.section = "roleDefinitions"
    <2>1. \A x \in CoveredThroughout : StillDue(<<"definitions", x>>)'
        BY <1>3, <1>9, <1>13
    <2> QED BY <1>12, <1>17, <2>1 DEF Awaited, Kinds
<1>18. CASE e.section = "roleAssignments"
    <2>1. \A x \in CoveredThroughout : StillDue(<<"assignments", x>>)'
        BY <1>3, <1>9, <1>13
    <2> QED BY <1>12, <1>18, <2>1 DEF Awaited, Kinds
<1> QED BY <1>14, <1>15, <1>16, <1>17, <1>18

LEMMA CoverNext ==
    ASSUME TypeInv, TodoInv, HistoryInv, CoverInv, [Next]_vars
    PROVE  CoverInv'
<1> USE TypeFacts
<1>1. SUFFICES ASSUME (stage \notin {"start", "ended"} \/ Exported)', NEW e \in throughout' \ records'
               PROVE  Awaited(e)'
    BY DEF CoverInv, Awaited, Exported
<1> DEFINE Known == \A f \in throughout \ records : Awaited(f)
<1>2. CASE Administer
    <2>1. /\ stage \notin {"start", "ended"} /\ throughout' = throughout \cap tenant'
          /\ UNCHANGED <<accounts, stage, todo, records, parents>>
        BY <1>2 DEF Administer, Reading
    <2>2. Awaited(e)
        BY <2>1 DEF CoverInv
    <2>3. CoveredThroughout' \subseteq CoveredThroughout
        BY <2>1, CoveredStep
    <2>4. Early' = Early /\ BeforeAccess' = BeforeAccess /\ \A read : StillDue(read)' = StillDue(read)
        BY <2>1 DEF Early, BeforeAccess, StillDue
    <2>5. Asks(e)' = Asks(e) /\ ToSet(todo)' = ToSet(todo)
        BY <2>1 DEF Asks
    <2> QED BY <2>1, <2>2, <2>3, <2>4, <2>5 DEF Awaited
<1>3. CASE SomebodyWrites \/ UNCHANGED vars
    <2>1. UNCHANGED <<accounts, stage, todo, records, parents, throughout, exit>>
        BY <1>3 DEF SomebodyWrites, vars, azure, history
    <2>2. Awaited(e)
        BY <1>1, <2>1 DEF CoverInv, Exported
    <2>3. CoveredThroughout' = CoveredThroughout
        BY <2>1 DEF CoveredThroughout
    <2>4. Early' = Early /\ BeforeAccess' = BeforeAccess /\ \A read : StillDue(read)' = StillDue(read)
        BY <2>1 DEF Early, BeforeAccess, StillDue
    <2>5. Asks(e)' = Asks(e) /\ ToSet(todo)' = ToSet(todo)
        BY <2>1 DEF Asks
    <2> QED BY <2>1, <2>2, <2>3, <2>4, <2>5 DEF Awaited
<1>4. CASE Start(TRUE) \/ Start(FALSE)
    <2>1. stage' = "directory" /\ todo' = <<"users", "groups", "servicePrincipals">> /\ throughout' = tenant
        BY <1>1, <1>4 DEF Start, End, Exported
    <2>2. Kinds \subseteq ToSet(todo')
        BY <2>1 DEF Kinds, ToSet
    <2>3. e \in Records /\ Early' /\ BeforeAccess'
        BY <2>1 DEF Early, BeforeAccess
    <2>4. CASE e.section \in {"resourceGroups", "roleDefinitions", "roleAssignments"}
        BY <2>3, <2>4, EarlyCovers
    <2>5. CASE e.section \notin {"resourceGroups", "roleDefinitions", "roleAssignments"}
        BY <2>1, <2>2, <2>3, <2>5 DEF Awaited
    <2> QED BY <2>4, <2>5
<1>5. ASSUME Script, ~ (Start(TRUE) \/ Start(FALSE))
      PROVE  /\ stage \notin {"start", "ended"} /\ Known /\ e \in throughout \ records
             /\ UNCHANGED <<accounts, throughout>>
    <2>1. CASE Read
        <3>1. stage \notin {"start", "ended"}
            BY <2>1 DEF Read, ReadDirectory, ReadMemberships, ReadEntities, ReadAccounts, ReadAccess,
                        ReadDefinition
        <3>2. UNCHANGED <<accounts, throughout>> /\ records \subseteq records'
            BY <2>1, ReadFacts DEF azure, history
        <3> QED BY <1>1, <3>1, <3>2 DEF CoverInv
    <2>2. CASE EndDirectory \/ EndMemberships \/ EndHierarchy \/ EndAccess \/ EndReading
                \/ OpenOutput \/ WriteBytes \/ FinishWriting \/ Fail
        <3>1. UNCHANGED <<accounts, throughout, records>>
            BY <2>2 DEF EndDirectory, EndMemberships, EndHierarchy, EndAccess, EndReading,
                        OpenOutput, WriteBytes, FinishWriting, Fail, azure, history
        <3>2. stage \notin {"start", "ended"}
            BY <1>1, <2>2 DEF EndDirectory, EndMemberships, EndHierarchy, EndAccess, EndReading,
                        OpenOutput, WriteBytes, FinishWriting, Fail, End, Exported
        <3> QED BY <1>1, <3>1, <3>2 DEF CoverInv
    <2> QED BY <1>5, <2>1, <2>2 DEF Script, Read
<1>6. CASE Read
    <2>1. Script /\ ~ (Start(TRUE) \/ Start(FALSE))
        BY <1>6 DEF Script, Read, Start, ReadDirectory, ReadMemberships, ReadEntities, ReadAccounts,
                    ReadAccess, ReadDefinition
    <2>2. e \in throughout \ records' /\ Awaited(e)
        BY <1>1, <1>5, <2>1
    <2> QED BY <1>6, <2>2, ReadCovers
<1>7. CASE EndDirectory
    <2>1. Known /\ e \in throughout \ records'
        BY <1>1, <1>5, <1>7 DEF Script, Start, EndDirectory
    <2> QED BY <1>7, <2>1, DirectoryCovers
<1>8. CASE EndMemberships
    <2>1. /\ Awaited(e) /\ UNCHANGED <<accounts, throughout, parents>> /\ e \in Records
        BY <1>1, <1>5, <1>8, SectionFacts DEF Script, Start, EndMemberships
    <2>2. stage = "memberships" /\ todo = <<>> /\ stage' = "hierarchy" /\ todo' = <<"entities", "accounts">>
        BY <1>8 DEF EndMemberships
    <2>3. ToSet(todo) = {} /\ "entities" \in ToSet(todo') /\ BeforeAccess'
        BY <2>2 DEF ToSet, BeforeAccess
    <2>4. e.section \notin Kinds \cup {"groupMemberships"}
        BY <2>1, <2>2, <2>3 DEF Awaited
    <2>5. CASE e.section \in {"resourceGroups", "roleDefinitions", "roleAssignments"}
        BY <2>3, <2>5, EarlyCovers
    <2>6. CASE e.section \notin {"resourceGroups", "roleDefinitions", "roleAssignments"}
        BY <2>2, <2>3, <2>4, <2>6 DEF Awaited
    <2> QED BY <2>5, <2>6
<1>9. CASE EndHierarchy
    <2>1. Known /\ e \in throughout \ records'
        BY <1>1, <1>5, <1>9 DEF Script, Start, EndHierarchy
    <2> QED BY <1>9, <2>1, HierarchyCovers
<1>10. CASE EndAccess
    <2>1. Awaited(e) /\ UNCHANGED <<accounts, throughout, parents>>
        BY <1>1, <1>5, <1>10 DEF Script, Start, EndAccess
    <2>2. stage = "access" /\ todo = <<>> /\ stage' = "definitions"
        BY <1>10 DEF EndAccess
    <2>3. ToSet(todo) = {}
        BY <2>2 DEF ToSet
    <2> QED BY <2>1, <2>2, <2>3, LateCovers
<1>11. CASE EndReading \/ OpenOutput \/ WriteBytes \/ FinishWriting
    <2>1. /\ stage \in {"definitions", "opening", "writing"}
          /\ stage' \in {"opening", "writing", "ended"} /\ parents' = parents
        BY <1>11 DEF EndReading, OpenOutput, WriteBytes, FinishWriting, End
    <2>2. Awaited(e) /\ UNCHANGED <<accounts, throughout, parents>>
        BY <1>1, <1>5, <1>11, <2>1 DEF Script, Start
    <2> QED BY <2>1, <2>2, LateCovers
<1>12. CASE Fail
    BY <1>1, <1>12 DEF Fail, End, Exported
<1> QED BY <1>2, <1>3, <1>4, <1>6, <1>7, <1>8, <1>9, <1>10, <1>11, <1>12 DEF Next, Script, Read

\* A finished export holds nothing that was not so at some time, and all that
\* was so all the time where it looks.
THEOREM ExportTellsTheTruth == Spec => []ExportWasTrue
<1>1. Init => HistoryInv /\ CoverInv
    <2>1. Init => HistoryInv
        BY DEF Init, HistoryInv, InSection
    <2>2. Init => CoverInv
        BY DEF Init, CoverInv, Exported
    <2> QED BY <2>1, <2>2
<1>2. TypeInv /\ TodoInv /\ HistoryInv /\ CoverInv /\ [Next]_vars => (HistoryInv /\ CoverInv)'
    BY HistoryNext, CoverNext
<1>3. TypeInv /\ ClosedInv /\ HistoryInv /\ CoverInv => ExportWasTrue
    <2> SUFFICES ASSUME TypeInv, ClosedInv, HistoryInv, CoverInv, Exported
                 PROVE  ExportWasTrue
        BY DEF ExportWasTrue
    <2>1. stage = "ended" /\ ~ Early /\ \A read : ~ StillDue(read)
        BY TypeFacts DEF Exported, Early, BeforeAccess, StillDue
    <2>2. records \subseteq ever
        BY DEF HistoryInv
    <2>3. ASSUME NEW e \in throughout, e \notin records
          PROVE  /\ e.section \in {"subscriptions", "resourceGroups", "roleDefinitions", "roleAssignments"}
                 /\ e.section = "subscriptions" => e \in parents /\ e.key \notin accounts
                 /\ e.section = "resourceGroups" => e.is \notin CoveredThroughout
                 /\ e.section = "roleDefinitions" => Assignable[e.key] \cap CoveredThroughout = {}
                 /\ e.section = "roleAssignments" =>
                        ~ \E x \in CoveredThroughout : Grant[e.key].scope \in Listed[x]
        <3>1. Awaited(e)
            BY <2>3 DEF CoverInv
        <3> QED BY <2>1, <3>1, SectionFacts DEF Awaited
    <2>4. \A f \in parents : f.key \notin accounts => f.key \in NotCollected
        BY DEF NotCollected, ClosedInv
    <2>5. \A f \in records : f.section = "subscriptions" => f.key \in accounts
        BY DEF ClosedInv, KeysIn, InSection
    <2>6. ASSUME NEW e \in throughout
          PROVE  CASE e.section = "roleAssignments" ->
                        (\E x \in CoveredThroughout : Grant[e.key].scope \in Listed[x]) => e \in records
                   [] e.section = "roleDefinitions" ->
                        Assignable[e.key] \cap CoveredThroughout # {} => e \in records
                   [] e.section = "resourceGroups" -> e.is \in CoveredThroughout => e \in records
                   [] e.section = "subscriptions" ->
                        IF e.key \in accounts THEN e \in records ELSE e.key \in NotCollected
                   [] OTHER -> e \in records
        BY <2>3, <2>4, <2>5
    <2> QED BY <2>2, <2>6 DEF ExportWasTrue
<1> QED BY <1>1, <1>2, <1>3, ExportInvariants, PTL DEF Spec

=============================================================================
