------------------------ MODULE DatasetImportProofs ------------------------
(* Theorems about DatasetImport for documents of any length over any ids:   *)
(* what becomes of each record, what the graph may hold twice, and what is  *)
(* said of references.                                                      *)
EXTENDS DatasetImport, SequenceTheorems, FiniteSetTheorems, TLAPS

\* The places that entities of the graph say they were made of.
PlacesOf(f) == {f[x].from : x \in DOMAIN f}

Origins ==
    PlacesOf(scopes) \cup PlacesOf(roles) \cup PlacesOf(principals)
        \cup PlacesOf(memberships) \cup PlacesOf(assignments)

IsSequence(s) == s \in Seq(ToSet(s))

ShapeInv ==
    /\ at \in 1..12
    /\ IsSequence(doc) /\ IsSequence(memberships) /\ IsSequence(assignments)
    /\ counts \in [SectionNames -> Nat] /\ skipped \in [SectionNames -> Nat]

\* Entities and warnings are of places that have been read, or of none.
PlaceInv ==
    /\ Origins \subseteq 0..Len(doc)
    /\ \A w \in warnings : w.record \in 0..Len(doc)

\* Memberships refer to identities, and assignments to all sections, loaded
\* before them.
OrderInv ==
    /\ at < 11 => memberships = <<>>
    /\ at < 12 => assignments = <<>>

\* DanglingReported, also while the sections are loaded.
ReferenceInv ==
    /\ \A a \in ToSet(assignments) :
        /\ ReportedIff("danglingReference", a.from, "principal", a.principal \notin DOMAIN principals)
        /\ ReportedIff("danglingReference", a.from, "role", a.role \notin DOMAIN roles)
        /\ ReportedIff("danglingReference", a.from, "scope", a.scope \notin DOMAIN scopes)
    /\ \A m \in ToSet(memberships) :
        /\ ReportedIff("danglingReference", m.from, "group", m.group \notin DOMAIN principals)
        /\ ReportedIff("danglingReference", m.from, "member", m.member \notin DOMAIN principals)

ImportInv == ShapeInv /\ PlaceInv /\ OrderInv /\ EveryRecordAccounted /\ GraphIsSimple /\ ReferenceInv

----------------------------------------------------------------------------

\* A sequence with one element more.
LEMMA AppendFacts ==
    ASSUME NEW s, IsSequence(s), NEW e, NEW t, t = Append(s, e)
    PROVE  /\ IsSequence(t) /\ Len(s) \in Nat /\ Len(t) = Len(s) + 1
           /\ DOMAIN s = 1..Len(s) /\ DOMAIN t = 1..(Len(s) + 1)
           /\ \A k \in 1..Len(s) : t[k] = s[k]
           /\ t[Len(s) + 1] = e
           /\ ToSet(t) = ToSet(s) \cup {e}
<1> DEFINE T == ToSet(s) \cup {e}
<1>1. s \in Seq(ToSet(s)) /\ s \in Seq(T) /\ e \in T
    BY SeqMonotonic, Zenon DEF IsSequence
<1>2. /\ t \in Seq(T) /\ Len(t) = Len(s) + 1
      /\ \A k \in 1..Len(s) : t[k] = s[k]
      /\ t[Len(s) + 1] = e
    BY <1>1, AppendProperties
<1>3. /\ Len(s) \in Nat /\ DOMAIN s = 1..Len(s) /\ \A k \in 1..Len(s) : s[k] \in ToSet(s)
      /\ DOMAIN t = 1..Len(t)
    BY <1>1, <1>2, ElementOfSeq, LenProperties
<1>4. ToSet(t) \subseteq T
    BY <1>2, <1>3 DEF ToSet
<1>5. T \subseteq ToSet(t)
    <2>1. ToSet(s) \subseteq ToSet(t)
        BY <1>2, <1>3 DEF ToSet
    <2>2. e \in ToSet(t)
        BY <1>2, <1>3 DEF ToSet
    <2> QED BY <2>1, <2>2
<1>6. ToSet(t) = T
    BY <1>4, <1>5
<1> QED BY <1>1, <1>2, <1>3, <1>6 DEF IsSequence

\* The elements of a sequence with one element more.
LEMMA AppendSet ==
    ASSUME NEW s, IsSequence(s), NEW e, NEW t, t = Append(s, e)
    PROVE  ToSet(t) = ToSet(s) \cup {e}
BY AppendFacts, Zenon

LEMMA SequenceFacts ==
    ASSUME NEW s, IsSequence(s)
    PROVE  Len(s) \in Nat /\ DOMAIN s = 1..Len(s)
BY LenProperties DEF IsSequence

\* A place in the graph, and in a table that gets an entry more.
LEMMA PutPlaces ==
    ASSUME NEW f, NEW g, NEW id, NEW e, id \notin DOMAIN f, g = Put(f, id, e), e.from = Here
    PROVE  PlacesOf(g) = PlacesOf(f) \cup {Here}
<1>1. DOMAIN g = DOMAIN f \cup {id}
    BY DEF Put
<1>2. g[id] = e /\ \A x \in DOMAIN f : g[x] = f[x]
    BY DEF Put
<1> QED BY <1>1, <1>2 DEF PlacesOf

LEMMA AppendPlaces ==
    ASSUME NEW s, IsSequence(s), NEW e, NEW t, t = Append(s, e)
    PROVE  PlacesOf(t) = PlacesOf(s) \cup {e.from}
<1>1. /\ Len(s) \in Nat /\ DOMAIN s = 1..Len(s) /\ DOMAIN t = 1..(Len(s) + 1)
      /\ \A k \in 1..Len(s) : t[k] = s[k]
      /\ t[Len(s) + 1] = e
    BY AppendFacts
<1>2. 1..(Len(s) + 1) = 1..Len(s) \cup {Len(s) + 1}
    BY <1>1
<1> QED BY <1>1, <1>2 DEF PlacesOf

LEMMA EntityPlace ==
    ASSUME NEW s, IsSequence(s), NEW e \in ToSet(s)
    PROVE  e.from \in PlacesOf(s)
BY DEF ToSet, PlacesOf

\* The records the graph is made of, as places.
LEMMA KeptPlaces == Kept = Origins \cap (1..Len(doc))
BY DEF Kept, Origins, PlacesOf, ToSet

\* Where the loaders stand in the order of run.
LEMMA SectionPlaces ==
    ASSUME at \in 1..12
    PROVE  /\ Len(Sections) = 12 /\ Section \in SectionNames
           /\ Section \in {"tenants", "roleDefinitions"} \cup ScopeSections \cup PrincipalSections =>
                at < 11
           /\ Section = "tenants" => at = 1
           /\ Section = "groupMemberships" => at = 11
           /\ Section = "roleAssignments" => at = 12
<1>1. /\ Len(Sections) = 12
      /\ Sections[1] = "tenants" /\ Sections[2] = "managementGroups" /\ Sections[3] = "subscriptions"
      /\ Sections[4] = "resourceGroups" /\ Sections[5] = "resources" /\ Sections[6] = "roleDefinitions"
      /\ Sections[7] = "users" /\ Sections[8] = "groups" /\ Sections[9] = "servicePrincipals"
      /\ Sections[10] = "managedIdentities" /\ Sections[11] = "groupMemberships"
      /\ Sections[12] = "roleAssignments"
    BY DEF Sections
<1>2. Section \in SectionNames
    BY <1>1 DEF Section, SectionNames
<1>3. \/ at = 1 \/ at = 2 \/ at = 3 \/ at = 4 \/ at = 5 \/ at = 6
      \/ at = 7 \/ at = 8 \/ at = 9 \/ at = 10 \/ at = 11 \/ at = 12
    OBVIOUS
<1>4. Section = Sections[at]
    BY DEF Section
<1>5. at < 11 \/ at = 11 \/ at = 12
    BY <1>3
<1>6. at = 11 => Section = "groupMemberships"
    BY <1>1, <1>4
<1>7. at = 12 => Section = "roleAssignments"
    BY <1>1, <1>4
<1>8. at < 11 => Section \notin {"groupMemberships", "roleAssignments"}
    BY <1>1, <1>3, <1>4
<1>9. Section = "tenants" => at = 1
    BY <1>1, <1>3, <1>4
<1>10. {"groupMemberships", "roleAssignments"} \cap
            ({"tenants", "roleDefinitions"} \cup ScopeSections \cup PrincipalSections) = {}
    BY DEF ScopeSections, PrincipalSections
<1> QED BY <1>1, <1>2, <1>5, <1>6, <1>7, <1>8, <1>9, <1>10

----------------------------------------------------------------------------
(* What a step does to the record at hand: it is left, or taken into the    *)
(* graph, and its warnings say so.                                          *)

ReadsRecord ==
    /\ phase = "loading" /\ phase' = "loading" /\ at' = at
    /\ \E r : doc' = Append(doc, [section |-> Section, record |-> r])

\* warnings' has these more, all of the record at hand.
Warns(new) == warnings' = warnings \cup new /\ \A w \in new : w.record = Here

LeftStep ==
    /\ ReadsRecord
    /\ graph' = graph /\ counts' = counts
    /\ skipped' = [skipped EXCEPT ![Section] = @ + 1]
    /\ \E new : Warns(new) /\ \E w \in new : w.about = "record"

TakenStep ==
    /\ ReadsRecord
    /\ skipped' = skipped
    /\ counts' = [counts EXCEPT ![Section] = @ + 1]
    /\ \E new : Warns(new) /\ \A w \in new : w.about # "record"
    /\ Origins' = Origins \cup {Here}

LEMMA LeaveIsLeft ==
    ASSUME NEW s, NEW r, Reading(s, r), NEW category, NEW ws,
           \A w \in ws : w.record = Here,
           Leave(category, ws)
    PROVE  LeftStep
<1> DEFINE note == [category |-> category, record |-> Here, about |-> "record"]
<1>1. ReadsRecord
    BY DEF Reading, ReadsRecord, Leave
<1>2. warnings' = warnings \cup (ws \cup {note})
    BY DEF Leave, WarnedIf
<1>3. note.record = Here /\ note.about = "record"
    OBVIOUS
<1> HIDE DEF note
<1>4. Warns(ws \cup {note}) /\ \E w \in ws \cup {note} : w.about = "record"
    BY <1>2, <1>3 DEF Warns
<1> QED BY <1>1, <1>4 DEF LeftStep, Leave, graph

LEMMA TakeIsTaken ==
    ASSUME NEW s, NEW r, Reading(s, r), NEW ws,
           \A w \in ws : w.record = Here /\ w.about # "record",
           Take(ws),
           Origins' = Origins \cup {Here}
    PROVE  TakenStep
<1>1. ReadsRecord
    BY DEF Reading, ReadsRecord, Take
<1>2. Warns(ws)
    BY DEF Take, Warns
<1> QED BY <1>1, <1>2 DEF TakenStep, Take

LEMMA WarningFacts ==
    ASSUME NEW condition, NEW category, NEW about
    PROVE  \A w \in WarnedIf(condition, category, about) : w.record = Here /\ w.about = about
BY DEF WarnedIf

LEMMA TenantStep ==
    ASSUME ShapeInv, NEW r, LoadTenant(r)
    PROVE  LeftStep \/ (TakenStep /\ at < 11 /\ UNCHANGED <<memberships, assignments>>)
<1>1. CASE Root \in DOMAIN scopes
    <2>1. Reading("tenants", r) /\ Leave("duplicate", {})
        BY <1>1 DEF LoadTenant
    <2> QED BY <2>1, LeaveIsLeft
<1>2. CASE Root \notin DOMAIN scopes
    <2>1. /\ Reading("tenants", r) /\ Take({})
          /\ scopes' = Put(scopes, Root, [parent |-> Absent, from |-> Here])
          /\ UNCHANGED <<roles, principals, memberships, assignments>>
        BY <1>2 DEF LoadTenant
    <2>2. PlacesOf(scopes') = PlacesOf(scopes) \cup {Here}
        <3> DEFINE new == [parent |-> Absent, from |-> Here]
        <3>1. new.from = Here /\ scopes' = Put(scopes, Root, new)
            BY <2>1
        <3> HIDE DEF new
        <3> QED BY <1>2, <3>1, PutPlaces
    <2>3. Origins' = Origins \cup {Here}
        BY <2>1, <2>2 DEF Origins, PlacesOf
    <2>4. TakenStep
        BY <2>1, <2>3, TakeIsTaken
    <2>5. at < 11
        BY <2>1, SectionPlaces DEF Reading, ShapeInv
    <2> QED BY <2>1, <2>4, <2>5
<1> QED BY <1>1, <1>2

LEMMA ScopeStep ==
    ASSUME ShapeInv, NEW s, NEW r, LoadScope(s, r)
    PROVE  LeftStep \/ (TakenStep /\ at < 11 /\ UNCHANGED <<memberships, assignments>>)
<1> DEFINE orphaned == WarnedIf(r.parent = Absent, "missingParent", "parent")
           entry == [parent |-> IF r.parent = Absent THEN Root ELSE r.parent, from |-> Here]
<1>1. s \in ScopeSections /\ Reading(s, r) /\ AddScope(s, r)
    BY DEF LoadScope
<1>2. \A w \in orphaned : w.record = Here /\ w.about # "record"
    BY WarningFacts
<1>3. CASE r.scope \in DOMAIN scopes
    <2>1. Leave("duplicate", orphaned)
        BY <1>1, <1>3 DEF AddScope
    <2> QED BY <1>1, <1>2, <2>1, LeaveIsLeft
<1>4. CASE r.scope \notin DOMAIN scopes
    <2>1. /\ Take(orphaned) /\ scopes' = Put(scopes, r.scope, entry)
          /\ UNCHANGED <<roles, principals, memberships, assignments>>
        BY <1>1, <1>4 DEF AddScope
    <2>2. PlacesOf(scopes') = PlacesOf(scopes) \cup {Here}
        <3> DEFINE new == entry
        <3>1. new.from = Here /\ scopes' = Put(scopes, r.scope, new)
            BY <2>1
        <3> HIDE DEF new
        <3> QED BY <1>4, <3>1, PutPlaces
    <2>3. Origins' = Origins \cup {Here}
        BY <2>1, <2>2 DEF Origins, PlacesOf
    <2>4. TakenStep
        BY <1>1, <1>2, <2>1, <2>3, TakeIsTaken
    <2>5. at < 11
        BY <1>1, SectionPlaces DEF Reading, ShapeInv
    <2> QED BY <2>1, <2>4, <2>5
<1> QED BY <1>3, <1>4

LEMMA RoleStep ==
    ASSUME ShapeInv, NEW r, LoadRole(r)
    PROVE  LeftStep \/ (TakenStep /\ at < 11 /\ UNCHANGED <<memberships, assignments>>)
<1> DEFINE ws == WarnedIf(r.faulty, "malformedRecord", "permissions")
                    \cup WarnedIf(~r.grants, "emptyPermissions", "permissions")
<1>1. Reading("roleDefinitions", r)
    BY DEF LoadRole
<1>2. CASE r.id \in DOMAIN roles
    BY <1>1, <1>2, LeaveIsLeft DEF LoadRole
<1>3. CASE r.id \notin DOMAIN roles
    <2>1. /\ Take(ws) /\ roles' = Put(roles, r.id, [from |-> Here])
          /\ UNCHANGED <<scopes, principals, memberships, assignments>>
        BY <1>3 DEF LoadRole
    <2>2. PlacesOf(roles') = PlacesOf(roles) \cup {Here}
        <3> DEFINE new == [from |-> Here]
        <3>1. new.from = Here /\ roles' = Put(roles, r.id, new)
            BY <2>1
        <3> HIDE DEF new
        <3> QED BY <1>3, <3>1, PutPlaces
    <2>3. Origins' = Origins \cup {Here}
        BY <2>1, <2>2 DEF Origins, PlacesOf
    <2>4. \A w \in ws : w.record = Here /\ w.about # "record"
        BY WarningFacts
    <2>5. TakenStep
        BY <1>1, <2>1, <2>3, <2>4, TakeIsTaken
    <2>6. at < 11
        BY <1>1, SectionPlaces DEF Reading, ShapeInv
    <2> QED BY <2>1, <2>5, <2>6
<1> QED BY <1>2, <1>3

LEMMA PrincipalStep ==
    ASSUME ShapeInv, NEW s, NEW id, LoadPrincipal(s, id)
    PROVE  LeftStep \/ (TakenStep /\ at < 11 /\ UNCHANGED <<memberships, assignments>>)
<1>1. s \in PrincipalSections /\ Reading(s, id)
    BY DEF LoadPrincipal
<1>2. CASE id \in DOMAIN principals
    BY <1>1, <1>2, LeaveIsLeft DEF LoadPrincipal
<1>3. CASE id \notin DOMAIN principals
    <2>1. /\ Take({}) /\ principals' = Put(principals, id, [type |-> s, from |-> Here])
          /\ UNCHANGED <<scopes, roles, memberships, assignments>>
        BY <1>3 DEF LoadPrincipal
    <2>2. PlacesOf(principals') = PlacesOf(principals) \cup {Here}
        <3> DEFINE new == [type |-> s, from |-> Here]
        <3>1. new.from = Here /\ principals' = Put(principals, id, new)
            BY <2>1
        <3> HIDE DEF new
        <3> QED BY <1>3, <3>1, PutPlaces
    <2>3. Origins' = Origins \cup {Here}
        BY <2>1, <2>2 DEF Origins, PlacesOf
    <2>4. TakenStep
        BY <1>1, <2>1, <2>3, TakeIsTaken
    <2>5. at < 11
        BY <1>1, SectionPlaces DEF Reading, ShapeInv
    <2> QED BY <2>1, <2>4, <2>5
<1> QED BY <1>2, <1>3

\* The record at hand is reported as dangling, or is not.
Reported(about) == [category |-> "danglingReference", record |-> Here, about |-> about] \in warnings'

LEMMA NotReportedBefore ==
    ASSUME ShapeInv, PlaceInv, NEW about
    PROVE  [category |-> "danglingReference", record |-> Here, about |-> about] \notin warnings
<1> DEFINE note == [category |-> "danglingReference", record |-> Here, about |-> about]
<1>1. note.record = Here
    OBVIOUS
<1> HIDE DEF note
<1>2. Here \notin 0..Len(doc)
    BY SequenceFacts DEF Here, ShapeInv
<1>3. note \notin warnings
    BY <1>1, <1>2 DEF PlaceInv
<1> QED BY <1>3 DEF note

LEMMA MembershipStep ==
    ASSUME ShapeInv, PlaceInv, NEW r \in Membership, LoadMembership(r)
    PROVE  \/ LeftStep
           \/ /\ TakenStep /\ at = 11 /\ UNCHANGED <<scopes, roles, principals, assignments>>
              /\ \E m :
                    /\ memberships' = Append(memberships, m) /\ m.from = Here
                    /\ m.group # m.member
                    /\ \A n \in ToSet(memberships) : n.group # m.group \/ n.member # m.member
                    /\ Reported("group") <=> m.group \notin DOMAIN principals
                    /\ Reported("member") <=> m.member \notin DOMAIN principals
<1> DEFINE dangling(id, about) == WarnedIf(id \notin DOMAIN principals, "danglingReference", about)
           mismatch == WarnedIf(/\ r.group \in DOMAIN principals
                                /\ principals[r.group].type # "groups", "typeMismatch", "group")
           ws == dangling(r.group, "group") \cup mismatch \cup dangling(r.member, "member")
           m == [group |-> r.group, member |-> r.member, from |-> Here]
<1>1. Reading("groupMemberships", r)
    BY DEF LoadMembership
<1>2. CASE r.group = r.member
    BY <1>1, <1>2, LeaveIsLeft DEF LoadMembership
<1>3. CASE r.group # r.member /\ r \in Pairs
    BY <1>1, <1>3, LeaveIsLeft DEF LoadMembership
<1>4. CASE r.group # r.member /\ r \notin Pairs
    <2>1. /\ Take(ws) /\ memberships' = Append(memberships, m)
          /\ UNCHANGED <<scopes, roles, principals, assignments>>
        BY <1>4 DEF LoadMembership
    <2>2. m.from = Here /\ m.group = r.group /\ m.member = r.member
        OBVIOUS
    <2>3. Origins' = Origins \cup {Here}
        <3> HIDE DEF m
        <3>1. PlacesOf(memberships') = PlacesOf(memberships) \cup {Here}
            BY <2>1, <2>2, AppendPlaces DEF ShapeInv
        <3> QED BY <2>1, <3>1 DEF Origins, PlacesOf
    <2>4. \A w \in ws : w.record = Here /\ w.about # "record"
        <3>1. \A w \in dangling(r.group, "group") : w.record = Here /\ w.about # "record"
            BY WarningFacts
        <3>2. \A w \in mismatch : w.record = Here /\ w.about # "record"
            BY DEF WarnedIf
        <3>3. \A w \in dangling(r.member, "member") : w.record = Here /\ w.about # "record"
            BY WarningFacts
        <3> QED BY <3>1, <3>2, <3>3
    <2>5. TakenStep
        BY <1>1, <2>1, <2>3, <2>4, TakeIsTaken
    <2>6. at = 11
        BY <1>1, SectionPlaces DEF Reading, ShapeInv
    <2>7. r = [group |-> r.group, member |-> r.member]
        BY DEF Membership
    <2>8. \A n \in ToSet(memberships) : n.group # r.group \/ n.member # r.member
        BY <1>4, <2>7 DEF Pairs
    <2>9. warnings' = warnings \cup ws
        BY <2>1 DEF Take
    <2>10. /\ Reported("group") <=> r.group \notin DOMAIN principals
           /\ Reported("member") <=> r.member \notin DOMAIN principals
        BY <2>9, NotReportedBefore DEF Reported, WarnedIf
    <2> HIDE DEF m
    <2> QED BY <1>4, <2>1, <2>2, <2>5, <2>6, <2>8, <2>10
<1> QED BY <1>2, <1>3, <1>4

LEMMA AssignmentStep ==
    ASSUME ShapeInv, PlaceInv, NEW r, LoadAssignment(r)
    PROVE  \/ LeftStep
           \/ /\ TakenStep /\ at = 12 /\ UNCHANGED <<scopes, roles, principals, memberships>>
              /\ \E a :
                    /\ assignments' = Append(assignments, a) /\ a.from = Here
                    /\ \A b \in ToSet(assignments) : b.id # a.id
                    /\ Reported("principal") <=> a.principal \notin DOMAIN principals
                    /\ Reported("role") <=> a.role \notin DOMAIN roles
                    /\ Reported("scope") <=> a.scope \notin DOMAIN scopes
<1> DEFINE known == r.principal \in DOMAIN principals
           type == IF known THEN principals[r.principal].type ELSE r.type
           noPrincipal == WarnedIf(~known, "danglingReference", "principal")
           noRole == WarnedIf(r.role \notin DOMAIN roles, "danglingReference", "role")
           noScope == WarnedIf(r.scope \notin DOMAIN scopes, "danglingReference", "scope")
           mismatch == WarnedIf(r.type \notin {Absent, type}, "typeMismatch", "principal")
           ws == noPrincipal \cup noRole \cup noScope \cup mismatch
           a == [id |-> IdOf(r), principal |-> r.principal, role |-> r.role,
                 scope |-> r.scope, type |-> type, from |-> Here]
<1>1. Reading("roleAssignments", r)
    BY DEF LoadAssignment
<1>2. CASE ~Parses(r)
    BY <1>1, <1>2, LeaveIsLeft DEF LoadAssignment
<1>3. CASE Parses(r) /\ Repeated(r)
    BY <1>1, <1>3, LeaveIsLeft DEF LoadAssignment
<1>4. CASE Parses(r) /\ ~Repeated(r)
    <2>1. /\ Take(ws) /\ assignments' = Append(assignments, a)
          /\ UNCHANGED <<scopes, roles, principals, memberships>>
        BY <1>4 DEF LoadAssignment
    <2>2. /\ a.from = Here /\ a.id = IdOf(r) /\ a.principal = r.principal
          /\ a.role = r.role /\ a.scope = r.scope
        OBVIOUS
    <2>3. Origins' = Origins \cup {Here}
        <3> HIDE DEF a
        <3>1. PlacesOf(assignments') = PlacesOf(assignments) \cup {Here}
            BY <2>1, <2>2, AppendPlaces DEF ShapeInv
        <3> QED BY <2>1, <3>1 DEF Origins, PlacesOf
    <2>4. \A w \in ws : w.record = Here /\ w.about # "record"
        <3>1. \A w \in noPrincipal : w.record = Here /\ w.about # "record"
            BY WarningFacts
        <3>2. \A w \in noRole : w.record = Here /\ w.about # "record"
            BY WarningFacts
        <3>3. \A w \in noScope : w.record = Here /\ w.about # "record"
            BY WarningFacts
        <3>4. \A w \in mismatch : w.record = Here /\ w.about # "record"
            BY WarningFacts
        <3> QED BY <3>1, <3>2, <3>3, <3>4
    <2>5. TakenStep
        BY <1>1, <2>1, <2>3, <2>4, TakeIsTaken
    <2>6. at = 12
        BY <1>1, SectionPlaces DEF Reading, ShapeInv
    <2>7. \A b \in ToSet(assignments) : b.id # IdOf(r)
        BY <1>4 DEF Repeated
    <2>8. warnings' = warnings \cup ws
        BY <2>1 DEF Take
    <2>9. /\ Reported("principal") <=> r.principal \notin DOMAIN principals
          /\ Reported("role") <=> r.role \notin DOMAIN roles
          /\ Reported("scope") <=> r.scope \notin DOMAIN scopes
        BY <2>8, NotReportedBefore DEF Reported, WarnedIf
    <2> HIDE DEF a
    <2> QED BY <2>1, <2>2, <2>5, <2>6, <2>7, <2>9
<1> QED BY <1>2, <1>3, <1>4

----------------------------------------------------------------------------
(* Records accounted for.                                                   *)

\* The places of the records of a section.
ReadIn(s) == {k \in 1..Len(doc) : doc[k].section = s}

LEMMA ReadFacts ==
    ASSUME ShapeInv, ReadsRecord
    PROVE  /\ IsSequence(doc') /\ Len(doc) \in Nat /\ Len(doc') = Len(doc) + 1 /\ Here = Len(doc) + 1
           /\ Section \in SectionNames
           /\ \A s : /\ ReadIn(s)' = ReadIn(s) \cup {k \in {Here} : s = Section}
                     /\ IsFiniteSet(ReadIn(s)) /\ Here \notin ReadIn(s)
<1>1. PICK r : doc' = Append(doc, [section |-> Section, record |-> r])
    BY DEF ReadsRecord
<1> DEFINE d == [section |-> Section, record |-> r]
<1>2. d.section = Section /\ doc' = Append(doc, d)
    BY <1>1
<1> HIDE DEF d
<1>3. /\ IsSequence(doc') /\ Len(doc) \in Nat /\ Len(doc') = Len(doc) + 1
      /\ \A k \in 1..Len(doc) : doc'[k] = doc[k]
      /\ doc'[Len(doc) + 1] = d
    <2>1. IsSequence(doc)
        BY DEF ShapeInv
    <2>2. IsSequence(doc') /\ Len(doc) \in Nat /\ Len(doc') = Len(doc) + 1
        BY <1>2, <2>1, AppendFacts
    <2>3. doc'[Len(doc) + 1] = d
        BY <1>2, <2>1, AppendFacts
    <2>4. \A k \in 1..Len(doc) : doc'[k] = doc[k]
        BY <1>2, <2>1, AppendFacts
    <2> QED BY <2>2, <2>3, <2>4
<1>4. Here = Len(doc) + 1
    BY DEF Here
<1>5. ASSUME NEW s
      PROVE  /\ ReadIn(s)' = ReadIn(s) \cup {k \in {Here} : s = Section}
             /\ IsFiniteSet(ReadIn(s)) /\ Here \notin ReadIn(s)
    <2>1. ReadIn(s) \subseteq 1..Len(doc) /\ IsFiniteSet(1..Len(doc))
        BY <1>3, FS_Interval DEF ReadIn
    <2>2. IsFiniteSet(ReadIn(s))
        BY <2>1, FS_Subset
    <2>3. ReadIn(s)' = {k \in 1..(Len(doc) + 1) : doc'[k].section = s}
        BY <1>3 DEF ReadIn
    <2>4. \A k \in 1..Len(doc) : doc'[k].section = doc[k].section
        BY <1>3
    <2>5. doc'[Here].section = Section
        BY <1>2, <1>3, <1>4
    <2>6. 1..(Len(doc) + 1) = 1..Len(doc) \cup {Here} /\ Here \notin 1..Len(doc)
        BY <1>3, <1>4
    <2>7. ReadIn(s)' = ReadIn(s) \cup {k \in {Here} : s = Section}
        BY <2>3, <2>4, <2>5, <2>6 DEF ReadIn
    <2> QED BY <2>2, <2>6, <2>7 DEF ReadIn
<1>6. Section \in SectionNames
    BY SectionPlaces DEF ShapeInv
<1>7. \A s : /\ ReadIn(s)' = ReadIn(s) \cup {k \in {Here} : s = Section}
            /\ IsFiniteSet(ReadIn(s)) /\ Here \notin ReadIn(s)
    BY <1>5
<1>8. IsSequence(doc') /\ Len(doc) \in Nat /\ Len(doc') = Len(doc) + 1
    BY <1>3
<1> QED BY <1>4, <1>6, <1>7, <1>8

LEMMA LeftFacts ==
    ASSUME ShapeInv, ReadsRecord, PlaceInv, NEW new, Warns(new)
    PROVE  /\ Left' = Left \cup {k \in {Here} : \E w \in new : w.about = "record"}
           /\ Left \subseteq 1..Len(doc)
           /\ \A w \in warnings' : w.record \in 0..Len(doc')
<1>1. /\ Len(doc) \in Nat /\ Len(doc') = Len(doc) + 1 /\ Here = Len(doc) + 1
    BY ReadFacts
<1>2. 1..Len(doc') = 1..Len(doc) \cup {Here} /\ Here \notin 0..Len(doc)
    BY <1>1
<1>3. \A w \in warnings : w.record # Here
    BY <1>2 DEF PlaceInv
<1>4. warnings' = warnings \cup new /\ \A w \in new : w.record = Here
    BY DEF Warns
<1>5. Left' = {k \in 1..Len(doc') : \E w \in warnings' : w.record = k /\ w.about = "record"}
    BY DEF Left
<1>6. ASSUME NEW k \in 1..Len(doc')
      PROVE  k \in Left' <=> (k \in Left \/ (k = Here /\ \E w \in new : w.about = "record"))
    BY <1>2, <1>3, <1>4, <1>5 DEF Left
<1>7. Left \subseteq 1..Len(doc) /\ Left \subseteq 1..Len(doc') /\ Left' \subseteq 1..Len(doc')
    BY <1>2, <1>5 DEF Left
<1>8. Left' = Left \cup {k \in {Here} : \E w \in new : w.about = "record"}
    BY <1>2, <1>6, <1>7
<1>9. \A w \in warnings' : w.record \in 0..Len(doc')
    BY <1>1, <1>4 DEF PlaceInv
<1> QED BY <1>7, <1>8, <1>9

\* The number of records of a section that are among those taken.
LEMMA CardinalityStep ==
    ASSUME NEW S, IsFiniteSet(S), NEW e, e \notin S
    PROVE  /\ IsFiniteSet(S \cup {e}) /\ Cardinality(S) \in Nat
           /\ Cardinality(S \cup {e}) = Cardinality(S) + 1
BY FS_AddElement, FS_CardinalityType

LEMMA CountedInv ==
    CountsMatchGraph <=> (phase # "crashed" => \A s \in SectionNames :
        /\ counts[s] = Cardinality(ReadIn(s) \cap Kept)
        /\ counts[s] + skipped[s] = Cardinality(ReadIn(s)))
BY DEF CountsMatchGraph, ReadIn

LEMMA LeftAccounted ==
    ASSUME ShapeInv, PlaceInv, EveryRecordAccounted, LeftStep
    PROVE  ShapeInv' /\ PlaceInv' /\ EveryRecordAccounted'
<1> USE DEF LeftStep
<1>1. PICK new : Warns(new) /\ \E w \in new : w.about = "record"
    OBVIOUS
<1>2. /\ IsSequence(doc') /\ Len(doc) \in Nat /\ Len(doc') = Len(doc) + 1 /\ Here = Len(doc) + 1
      /\ Section \in SectionNames
      /\ \A s : /\ ReadIn(s)' = ReadIn(s) \cup {k \in {Here} : s = Section}
                /\ IsFiniteSet(ReadIn(s)) /\ Here \notin ReadIn(s)
    BY ReadFacts
<1>3. /\ scopes' = scopes /\ roles' = roles /\ principals' = principals
      /\ memberships' = memberships /\ assignments' = assignments
    BY DEF graph
<1>4. Origins' = Origins
    BY <1>3 DEF Origins
<1>5. Left' = Left \cup {Here} /\ Left \subseteq 1..Len(doc)
      /\ \A w \in warnings' : w.record \in 0..Len(doc')
    BY <1>1, LeftFacts
<1>6. /\ 1..Len(doc') = 1..Len(doc) \cup {Here} /\ Here \notin 0..Len(doc)
      /\ 0..Len(doc) \subseteq 0..Len(doc')
    BY <1>2
<1>7. Kept' = Kept /\ Here \notin Kept
    <2>1. Kept' = Origins' \cap (1..Len(doc'))
        BY DEF Kept, Origins, PlacesOf, ToSet
    <2> QED BY <1>4, <1>6, <2>1, KeptPlaces DEF PlaceInv
<1>8. ShapeInv'
    BY <1>2, <1>3 DEF ShapeInv, ReadsRecord
<1>9. PlaceInv'
    BY <1>4, <1>5, <1>6 DEF PlaceInv
<1>10. phase # "crashed" /\ phase' # "crashed"
    BY DEF ReadsRecord
<1>11. NothingLostSilently'
    BY <1>5, <1>6, <1>7, <1>10 DEF EveryRecordAccounted, NothingLostSilently
<1>12. ASSUME NEW s \in SectionNames
       PROVE  /\ counts'[s] = Cardinality(ReadIn(s)' \cap Kept')
              /\ counts'[s] + skipped'[s] = Cardinality(ReadIn(s)')
    <2>1. /\ counts[s] = Cardinality(ReadIn(s) \cap Kept)
          /\ counts[s] + skipped[s] = Cardinality(ReadIn(s))
        BY <1>10, CountedInv DEF EveryRecordAccounted
    <2>2. ReadIn(s)' \cap Kept' = ReadIn(s) \cap Kept
        BY <1>2, <1>7
    <2>3. counts[s] \in Nat /\ skipped[s] \in Nat
        BY DEF ShapeInv
    <2>4. CASE s = Section
        <3>1. ReadIn(s)' = ReadIn(s) \cup {Here}
            BY <1>2, <2>4
        <3>2. Cardinality(ReadIn(s)') = Cardinality(ReadIn(s)) + 1
            BY <1>2, <3>1, CardinalityStep
        <3>3. skipped'[s] = skipped[s] + 1 /\ counts'[s] = counts[s]
            BY <2>4 DEF ShapeInv
        <3>4. counts'[s] = Cardinality(ReadIn(s)' \cap Kept')
            BY <2>1, <2>2, <3>3
        <3>5. counts'[s] + skipped'[s] = Cardinality(ReadIn(s)')
            BY <2>1, <2>3, <3>2, <3>3
        <3> QED BY <3>4, <3>5
    <2>5. CASE s # Section
        <3>1. ReadIn(s)' = ReadIn(s)
            BY <1>2, <2>5
        <3>2. skipped'[s] = skipped[s] /\ counts' = counts
            BY <2>5 DEF ShapeInv
        <3> QED BY <2>1, <2>2, <3>1, <3>2
    <2> QED BY <2>4, <2>5
<1>13. CountsMatchGraph'
    BY <1>10, <1>12, CountedInv DEF CountsMatchGraph, ReadIn
<1> QED BY <1>8, <1>9, <1>11, <1>13 DEF EveryRecordAccounted

LEMMA TakenAccounted ==
    ASSUME ShapeInv, PlaceInv, EveryRecordAccounted, TakenStep,
           IsSequence(memberships'), IsSequence(assignments')
    PROVE  ShapeInv' /\ PlaceInv' /\ EveryRecordAccounted'
<1> USE DEF TakenStep
<1>1. PICK new : Warns(new) /\ \A w \in new : w.about # "record"
    OBVIOUS
<1>2. /\ IsSequence(doc') /\ Len(doc) \in Nat /\ Len(doc') = Len(doc) + 1 /\ Here = Len(doc) + 1
      /\ Section \in SectionNames
      /\ \A s : /\ ReadIn(s)' = ReadIn(s) \cup {k \in {Here} : s = Section}
                /\ IsFiniteSet(ReadIn(s)) /\ Here \notin ReadIn(s)
    BY ReadFacts
<1>3. Origins' = Origins \cup {Here}
    OBVIOUS
<1>4. Left' = Left /\ Left \subseteq 1..Len(doc)
      /\ \A w \in warnings' : w.record \in 0..Len(doc')
    BY <1>1, LeftFacts
<1>5. /\ 1..Len(doc') = 1..Len(doc) \cup {Here} /\ Here \notin 0..Len(doc)
      /\ 0..Len(doc) \subseteq 0..Len(doc') /\ Here \in 0..Len(doc')
    BY <1>2
<1>6. Kept' = Kept \cup {Here} /\ Here \notin Kept
    <2>1. Kept' = Origins' \cap (1..Len(doc'))
        BY DEF Kept, Origins, PlacesOf, ToSet
    <2> QED BY <1>3, <1>5, <2>1, KeptPlaces DEF PlaceInv
<1>7. ShapeInv'
    BY <1>2 DEF ShapeInv, ReadsRecord
<1>8. PlaceInv'
    BY <1>3, <1>4, <1>5 DEF PlaceInv
<1>9. phase # "crashed" /\ phase' # "crashed"
    BY DEF ReadsRecord
<1>10. NothingLostSilently'
    BY <1>4, <1>5, <1>6, <1>9 DEF EveryRecordAccounted, NothingLostSilently
<1>11. ASSUME NEW s \in SectionNames
       PROVE  /\ counts'[s] = Cardinality(ReadIn(s)' \cap Kept')
              /\ counts'[s] + skipped'[s] = Cardinality(ReadIn(s)')
    <2>1. /\ counts[s] = Cardinality(ReadIn(s) \cap Kept)
          /\ counts[s] + skipped[s] = Cardinality(ReadIn(s))
        BY <1>9, CountedInv DEF EveryRecordAccounted
    <2>2. counts[s] \in Nat /\ skipped[s] \in Nat
        BY DEF ShapeInv
    <2>3. CASE s = Section
        <3>1. ReadIn(s)' = ReadIn(s) \cup {Here}
            BY <1>2, <2>3
        <3>2. Cardinality(ReadIn(s)') = Cardinality(ReadIn(s)) + 1
            BY <1>2, <3>1, CardinalityStep
        <3>3. ReadIn(s)' \cap Kept' = (ReadIn(s) \cap Kept) \cup {Here}
            BY <1>6, <3>1
        <3>4. IsFiniteSet(ReadIn(s) \cap Kept) /\ Here \notin ReadIn(s) \cap Kept
            BY <1>2, <1>6, FS_Intersection
        <3>5. Cardinality(ReadIn(s)' \cap Kept') = Cardinality(ReadIn(s) \cap Kept) + 1
            BY <3>3, <3>4, CardinalityStep
        <3>6. skipped'[s] = skipped[s] /\ counts'[s] = counts[s] + 1
            BY <2>3 DEF ShapeInv
        <3>7. counts'[s] = Cardinality(ReadIn(s)' \cap Kept')
            BY <2>1, <3>5, <3>6
        <3>8. counts'[s] + skipped'[s] = Cardinality(ReadIn(s)')
            BY <2>1, <2>2, <3>2, <3>6
        <3> QED BY <3>7, <3>8
    <2>4. CASE s # Section
        <3>1. ReadIn(s)' = ReadIn(s)
            BY <1>2, <2>4
        <3>2. ReadIn(s)' \cap Kept' = ReadIn(s) \cap Kept
            BY <1>2, <1>6, <3>1
        <3>3. skipped'[s] = skipped[s] /\ counts'[s] = counts[s]
            BY <2>4 DEF ShapeInv
        <3> QED BY <2>1, <3>1, <3>2, <3>3
    <2> QED BY <2>3, <2>4
<1>12. CountsMatchGraph'
    BY <1>9, <1>11, CountedInv DEF CountsMatchGraph, ReadIn
<1> QED BY <1>7, <1>8, <1>10, <1>12 DEF EveryRecordAccounted

----------------------------------------------------------------------------
(* The graph and its references.                                            *)

LEMMA EntityPlaces ==
    ASSUME ShapeInv, PlaceInv
    PROVE  /\ \A e \in ToSet(memberships) \cup ToSet(assignments) : e.from # Here
           /\ \A e \in ToSet(memberships) \cup ToSet(assignments) : e.from \in 0..Len(doc)
<1>1. Here \notin 0..Len(doc)
    BY SequenceFacts DEF Here, ShapeInv
<1>2. \A e \in ToSet(memberships) \cup ToSet(assignments) : e.from \in Origins
    BY EntityPlace DEF ShapeInv, Origins
<1> QED BY <1>1, <1>2 DEF PlaceInv

\* Of an entity that is there, nothing new is reported.
LEMMA StillReported ==
    ASSUME ShapeInv, PlaceInv, NEW new, Warns(new),
           NEW e \in ToSet(memberships) \cup ToSet(assignments), NEW about
    PROVE  [category |-> "danglingReference", record |-> e.from, about |-> about] \in warnings'
            <=> [category |-> "danglingReference", record |-> e.from, about |-> about] \in warnings
<1> DEFINE note == [category |-> "danglingReference", record |-> e.from, about |-> about]
<1>1. note.record = e.from
    OBVIOUS
<1> HIDE DEF note
<1>2. note \notin new
    BY <1>1, EntityPlaces DEF Warns
<1>3. note \in warnings' <=> note \in warnings
    BY <1>2 DEF Warns
<1> QED BY <1>3 DEF note

LEMMA LeftReferences ==
    ASSUME ImportInv, LeftStep
    PROVE  OrderInv' /\ GraphIsSimple' /\ ReferenceInv'
<1> USE DEF ImportInv
<1>1. /\ scopes' = scopes /\ roles' = roles /\ principals' = principals
      /\ memberships' = memberships /\ assignments' = assignments /\ at' = at
    BY DEF LeftStep, ReadsRecord, graph
<1>2. PICK new : Warns(new)
    BY DEF LeftStep
<1>3. OrderInv' /\ GraphIsSimple'
    BY <1>1 DEF OrderInv, GraphIsSimple
<1>4. ReferenceInv'
    BY <1>1, <1>2, StillReported DEF ReferenceInv, ReportedIff
<1> QED BY <1>3, <1>4

\* While there are neither memberships nor assignments.
LEMMA NoReferences ==
    ASSUME memberships = <<>>, assignments = <<>>
    PROVE  GraphIsSimple /\ ReferenceInv
<1>1. ToSet(memberships) = {} /\ ToSet(assignments) = {}
      /\ DOMAIN memberships = {} /\ DOMAIN assignments = {}
    BY EmptySeq DEF ToSet
<1> QED BY <1>1 DEF GraphIsSimple, ReferenceInv

LEMMA MembershipTaken ==
    ASSUME ImportInv, TakenStep, at = 11,
           UNCHANGED <<scopes, roles, principals, assignments>>,
           NEW m, memberships' = Append(memberships, m), m.from = Here, m.group # m.member,
           \A n \in ToSet(memberships) : n.group # m.group \/ n.member # m.member,
           Reported("group") <=> m.group \notin DOMAIN principals,
           Reported("member") <=> m.member \notin DOMAIN principals
    PROVE  IsSequence(memberships') /\ OrderInv' /\ GraphIsSimple' /\ ReferenceInv'
<1> USE DEF ImportInv
<1>1. /\ IsSequence(memberships') /\ Len(memberships) \in Nat
      /\ DOMAIN memberships = 1..Len(memberships) /\ DOMAIN memberships' = 1..(Len(memberships) + 1)
      /\ \A k \in 1..Len(memberships) : memberships'[k] = memberships[k]
      /\ memberships'[Len(memberships) + 1] = m
      /\ ToSet(memberships') = ToSet(memberships) \cup {m}
    <2>1. IsSequence(memberships)
        BY DEF ShapeInv
    <2>2. /\ IsSequence(memberships') /\ Len(memberships) \in Nat
          /\ DOMAIN memberships = 1..Len(memberships) /\ DOMAIN memberships' = 1..(Len(memberships) + 1)
        BY <2>1, AppendFacts
    <2>3. \A k \in 1..Len(memberships) : memberships'[k] = memberships[k]
        BY <2>1, AppendFacts
    <2>4. memberships'[Len(memberships) + 1] = m
        BY <2>1, AppendFacts
    <2>5. ToSet(memberships') = ToSet(memberships) \cup {m}
        BY <2>1, AppendSet, Zenon
    <2> QED BY <2>2, <2>3, <2>4, <2>5
<1>2. assignments = <<>> /\ assignments' = <<>> /\ at' = at
    BY DEF OrderInv, TakenStep, ReadsRecord
<1>3. ToSet(assignments') = {} /\ DOMAIN assignments' = {}
    BY <1>2, EmptySeq DEF ToSet
<1>4. OrderInv'
    BY <1>2 DEF OrderInv
<1>5. GraphIsSimple'
    <2>1. \A k \in 1..Len(memberships) :
            memberships[k].group # m.group \/ memberships[k].member # m.member
        BY <1>1 DEF ToSet
    <2>2. \A i, j \in DOMAIN memberships' :
            memberships'[i].group = memberships'[j].group /\ memberships'[i].member = memberships'[j].member
                => i = j
        BY <1>1, <2>1 DEF GraphIsSimple
    <2>3. \A n \in ToSet(memberships') : n.group # n.member
        BY <1>1 DEF GraphIsSimple
    <2> QED BY <1>3, <2>2, <2>3 DEF GraphIsSimple
<1>6. PICK new : Warns(new)
    BY DEF TakenStep
<1>7. ReferenceInv'
    <2>1. ASSUME NEW n \in ToSet(memberships)
          PROVE  /\ ReportedIff("danglingReference", n.from, "group", n.group \notin DOMAIN principals)'
                 /\ ReportedIff("danglingReference", n.from, "member", n.member \notin DOMAIN principals)'
        BY <1>6, StillReported DEF ReferenceInv, ReportedIff
    <2>2. /\ ReportedIff("danglingReference", m.from, "group", m.group \notin DOMAIN principals)'
          /\ ReportedIff("danglingReference", m.from, "member", m.member \notin DOMAIN principals)'
        BY DEF Reported, ReportedIff
    <2> QED BY <1>1, <1>3, <2>1, <2>2 DEF ReferenceInv
<1> QED BY <1>1, <1>4, <1>5, <1>7

LEMMA AssignmentTaken ==
    ASSUME ImportInv, TakenStep, at = 12,
           UNCHANGED <<scopes, roles, principals, memberships>>,
           NEW a, assignments' = Append(assignments, a), a.from = Here,
           \A b \in ToSet(assignments) : b.id # a.id,
           Reported("principal") <=> a.principal \notin DOMAIN principals,
           Reported("role") <=> a.role \notin DOMAIN roles,
           Reported("scope") <=> a.scope \notin DOMAIN scopes
    PROVE  IsSequence(assignments') /\ OrderInv' /\ GraphIsSimple' /\ ReferenceInv'
<1> USE DEF ImportInv
<1>1. /\ IsSequence(assignments') /\ Len(assignments) \in Nat
      /\ DOMAIN assignments = 1..Len(assignments) /\ DOMAIN assignments' = 1..(Len(assignments) + 1)
      /\ \A k \in 1..Len(assignments) : assignments'[k] = assignments[k]
      /\ assignments'[Len(assignments) + 1] = a
      /\ ToSet(assignments') = ToSet(assignments) \cup {a}
    <2>1. IsSequence(assignments)
        BY DEF ShapeInv
    <2>2. /\ IsSequence(assignments') /\ Len(assignments) \in Nat
          /\ DOMAIN assignments = 1..Len(assignments) /\ DOMAIN assignments' = 1..(Len(assignments) + 1)
        BY <2>1, AppendFacts
    <2>3. \A k \in 1..Len(assignments) : assignments'[k] = assignments[k]
        BY <2>1, AppendFacts
    <2>4. assignments'[Len(assignments) + 1] = a
        BY <2>1, AppendFacts
    <2>5. ToSet(assignments') = ToSet(assignments) \cup {a}
        BY <2>1, AppendSet, Zenon
    <2> QED BY <2>2, <2>3, <2>4, <2>5
<1>2. at' = at
    BY DEF TakenStep, ReadsRecord
<1>3. OrderInv'
    BY <1>2 DEF OrderInv
<1>4. GraphIsSimple'
    <2>1. \A k \in 1..Len(assignments) : assignments[k].id # a.id
        BY <1>1 DEF ToSet
    <2>2. \A i, j \in DOMAIN assignments' : assignments'[i].id = assignments'[j].id => i = j
        BY <1>1, <2>1 DEF GraphIsSimple
    <2> QED BY <2>2 DEF GraphIsSimple
<1>5. PICK new : Warns(new)
    BY DEF TakenStep
<1>6. ReferenceInv'
    <2>1. ASSUME NEW b \in ToSet(assignments)
          PROVE  /\ ReportedIff("danglingReference", b.from, "principal", b.principal \notin DOMAIN principals)'
                 /\ ReportedIff("danglingReference", b.from, "role", b.role \notin DOMAIN roles)'
                 /\ ReportedIff("danglingReference", b.from, "scope", b.scope \notin DOMAIN scopes)'
        BY <1>5, StillReported DEF ReferenceInv, ReportedIff
    <2>2. /\ ReportedIff("danglingReference", a.from, "principal", a.principal \notin DOMAIN principals)'
          /\ ReportedIff("danglingReference", a.from, "role", a.role \notin DOMAIN roles)'
          /\ ReportedIff("danglingReference", a.from, "scope", a.scope \notin DOMAIN scopes)'
        BY DEF Reported, ReportedIff
    <2>3. ASSUME NEW m \in ToSet(memberships)
          PROVE  /\ ReportedIff("danglingReference", m.from, "group", m.group \notin DOMAIN principals)'
                 /\ ReportedIff("danglingReference", m.from, "member", m.member \notin DOMAIN principals)'
        BY <1>5, StillReported DEF ReferenceInv, ReportedIff
    <2> QED BY <1>1, <2>1, <2>2, <2>3 DEF ReferenceInv
<1> QED BY <1>1, <1>3, <1>4, <1>6

\* A tenant, scope, role or identity is taken before there are references.
LEMMA EntityTaken ==
    ASSUME ImportInv, TakenStep, at < 11, UNCHANGED <<memberships, assignments>>
    PROVE  /\ IsSequence(memberships') /\ IsSequence(assignments')
           /\ OrderInv' /\ GraphIsSimple' /\ ReferenceInv'
<1>1. /\ memberships' = <<>> /\ assignments' = <<>> /\ at' = at
      /\ memberships = <<>> /\ assignments = <<>>
    BY DEF ImportInv, OrderInv, ShapeInv, TakenStep, ReadsRecord
<1>2. ToSet(memberships') = {} /\ ToSet(assignments') = {}
      /\ DOMAIN memberships' = {} /\ DOMAIN assignments' = {}
    BY <1>1, EmptySeq DEF ToSet
<1>3. GraphIsSimple' /\ ReferenceInv'
    BY <1>2 DEF GraphIsSimple, ReferenceInv
<1>4. OrderInv'
    BY <1>1 DEF OrderInv
<1> QED BY <1>1, <1>3, <1>4 DEF ImportInv, ShapeInv

\* Whatever is done with a record, the invariant is kept.
LEMMA RecordStep ==
    ASSUME ImportInv,
           \/ LeftStep
           \/ TakenStep /\ at < 11 /\ UNCHANGED <<memberships, assignments>>
    PROVE  ImportInv'
<1>1. CASE LeftStep
    BY <1>1, LeftAccounted, LeftReferences DEF ImportInv
<1>2. CASE TakenStep /\ at < 11 /\ UNCHANGED <<memberships, assignments>>
    BY <1>2, TakenAccounted, EntityTaken DEF ImportInv
<1> QED BY <1>1, <1>2

----------------------------------------------------------------------------

LEMMA InitImport == Init => ImportInv
<1> SUFFICES ASSUME Init PROVE ImportInv
    OBVIOUS
<1> USE DEF Init
<1>1. IsSequence(<<>>)
    BY EmptySeq DEF IsSequence
<1>2. Len(doc) = 0 /\ 1..Len(doc) = {} /\ 1 \in 1..12
    BY EmptySeq
<1>3. ShapeInv
    BY <1>1, <1>2 DEF ShapeInv
<1>4. PlaceInv /\ OrderInv
    <2>1. Origins = {}
        BY DEF Origins, PlacesOf
    <2> QED BY <2>1 DEF PlaceInv, OrderInv
<1>5. EveryRecordAccounted
    <2>1. Kept = {} /\ Left = {} /\ \A s : ReadIn(s) = {}
        BY <1>2 DEF Kept, Left, ReadIn
    <2>2. NothingLostSilently
        BY <1>2, <2>1 DEF NothingLostSilently
    <2>3. CountsMatchGraph
        BY <2>1, CountedInv, FS_EmptySet
    <2> QED BY <2>2, <2>3 DEF EveryRecordAccounted
<1>6. GraphIsSimple /\ ReferenceInv
    BY NoReferences
<1> QED BY <1>3, <1>4, <1>5, <1>6 DEF ImportInv

LEMMA NextSectionStep ==
    ASSUME ImportInv, NextSection
    PROVE  ImportInv'
<1> USE DEF ImportInv
<1>1. /\ at \in 1..11 /\ at' = at + 1 /\ doc' = doc /\ phase' = phase
      /\ roles' = roles /\ principals' = principals
      /\ memberships' = memberships /\ assignments' = assignments
      /\ counts' = counts /\ skipped' = skipped
    <2>1. at \in 1..12 /\ Len(Sections) = 12
        BY SectionPlaces DEF ShapeInv
    <2>2. at < Len(Sections)
        BY DEF NextSection
    <2>3. at \in 1..11
        BY <2>1, <2>2
    <2> QED BY <2>3 DEF NextSection
<1>2. \/ scopes' = scopes /\ warnings' = warnings
      \/ /\ at = 1 /\ Root \notin DOMAIN scopes
         /\ scopes' = Put(scopes, Root, [parent |-> Absent, from |-> 0])
         /\ warnings' = warnings \cup {[category |-> "missingSection", record |-> 0, about |-> "record"]}
    BY SectionPlaces DEF NextSection, ShapeInv
<1>3. Origins' \cap (1..Len(doc)) = Origins \cap (1..Len(doc)) /\ Origins' \subseteq Origins \cup {0}
    <2>1. CASE scopes' = scopes
        BY <1>1, <2>1 DEF Origins
    <2>2. CASE Root \notin DOMAIN scopes /\ scopes' = Put(scopes, Root, [parent |-> Absent, from |-> 0])
        <3>1. PlacesOf(scopes') \subseteq PlacesOf(scopes) \cup {0} /\ PlacesOf(scopes) \subseteq PlacesOf(scopes')
            <4>1. DOMAIN scopes' = DOMAIN scopes \cup {Root}
                BY <2>2 DEF Put
            <4>2. \A x \in DOMAIN scopes : scopes'[x] = scopes[x]
                BY <2>2 DEF Put
            <4>3. scopes'[Root].from = 0
                BY <2>2 DEF Put
            <4> QED BY <4>1, <4>2, <4>3 DEF PlacesOf
        <3> QED BY <1>1, <3>1 DEF Origins
    <2> QED BY <1>2, <2>1, <2>2
<1>4. Len(doc) \in Nat
    BY SequenceFacts DEF ShapeInv
<1>5. Kept' = Kept /\ Left' = Left /\ \A s : ReadIn(s)' = ReadIn(s)
    <2>1. Kept' = Origins' \cap (1..Len(doc'))
        BY DEF Kept, Origins, PlacesOf, ToSet
    <2>2. Kept' = Kept
        BY <1>1, <1>3, <2>1, KeptPlaces
    <2>3. Left' = Left
        BY <1>1, <1>2, <1>4 DEF Left
    <2> QED BY <1>1, <2>2, <2>3 DEF ReadIn
<1>6. ShapeInv'
    BY <1>1 DEF ShapeInv
<1>7. PlaceInv'
    <2>1. 0 \in 0..Len(doc)
        BY <1>4
    <2>2. \A w \in warnings' : w \in warnings \/ w.record = 0
        BY <1>2
    <2> QED BY <1>1, <1>3, <2>1, <2>2 DEF PlaceInv
<1>8. OrderInv'
    BY <1>1 DEF OrderInv, ShapeInv
<1>9. EveryRecordAccounted'
    <2>1. NothingLostSilently'
        BY <1>1, <1>5 DEF EveryRecordAccounted, NothingLostSilently
    <2>2. \A s : ReadIn(s) = {k \in 1..Len(doc) : doc[k].section = s}
        BY DEF ReadIn
    <2>3. CountsMatchGraph'
        BY <1>1, <1>5 DEF EveryRecordAccounted, CountsMatchGraph
    <2> QED BY <2>1, <2>3 DEF EveryRecordAccounted
<1>10. GraphIsSimple'
    BY <1>1 DEF GraphIsSimple
<1>11. ReferenceInv'
    <2>1. CASE scopes' = scopes /\ warnings' = warnings
        BY <1>1, <2>1 DEF ReferenceInv, ReportedIff
    <2>2. CASE at = 1
        <3>1. memberships' = <<>> /\ assignments' = <<>>
            BY <1>1, <2>2 DEF OrderInv
        <3>2. ToSet(memberships') = {} /\ ToSet(assignments') = {}
            BY <3>1, EmptySeq DEF ToSet
        <3> QED BY <3>2 DEF ReferenceInv
    <2> QED BY <1>2, <2>1, <2>2
<1> QED BY <1>6, <1>7, <1>8, <1>9, <1>10, <1>11

\* The steps that leave the graph and its warnings alone.
LEMMA OtherStep ==
    ASSUME ImportInv, graph' = graph, ledger' = ledger, at' = at,
           \/ doc' = doc /\ (phase = "crashed" => phase' = "crashed")
           \/ phase' = "crashed" /\ \E d : doc' = Append(doc, d)
    PROVE  ImportInv'
<1> USE DEF ImportInv
<1>1. /\ scopes' = scopes /\ roles' = roles /\ principals' = principals
      /\ memberships' = memberships /\ assignments' = assignments
      /\ counts' = counts /\ skipped' = skipped /\ warnings' = warnings /\ at' = at
    BY DEF graph, ledger
<1>2. IsSequence(doc') /\ Len(doc) \in Nat /\ (doc' = doc \/ Len(doc') = Len(doc) + 1)
    <2>1. IsSequence(doc) /\ Len(doc) \in Nat
        BY SequenceFacts DEF ShapeInv
    <2>2. CASE \E d : doc' = Append(doc, d)
        <3>1. PICK d : doc' = Append(doc, d)
            BY <2>2
        <3> QED BY <2>1, <3>1, AppendFacts
    <2> QED BY <2>1, <2>2
<1>3. ShapeInv'
    BY <1>1, <1>2 DEF ShapeInv
<1>4. PlaceInv'
    <2>1. 0..Len(doc) \subseteq 0..Len(doc')
        BY <1>2
    <2>2. Origins' = Origins
        BY <1>1 DEF Origins
    <2> QED BY <1>1, <2>1, <2>2 DEF PlaceInv
<1>5. OrderInv' /\ GraphIsSimple' /\ ReferenceInv'
    BY <1>1 DEF OrderInv, GraphIsSimple, ReferenceInv, ReportedIff
<1>6. EveryRecordAccounted'
    <2>1. CASE phase' = "crashed"
        BY <2>1 DEF EveryRecordAccounted, NothingLostSilently, CountsMatchGraph
    <2>2. CASE doc' = doc /\ phase # "crashed"
        <3>1. Kept' = Kept /\ Left' = Left
            BY <1>1, <2>2 DEF Kept, Left
        <3> QED BY <1>1, <2>2, <3>1 DEF EveryRecordAccounted, NothingLostSilently, CountsMatchGraph
    <2> QED BY <2>1, <2>2
<1> QED BY <1>3, <1>4, <1>5, <1>6

LEMMA NextImport == ImportInv /\ [Next]_vars => ImportInv'
<1> SUFFICES ASSUME ImportInv, [Next]_vars PROVE ImportInv'
    OBVIOUS
<1> USE DEF ImportInv
<1>1. CASE UNCHANGED vars
    <2>1. graph' = graph /\ ledger' = ledger /\ at' = at /\ doc' = doc /\ phase' = phase
        BY <1>1 DEF vars
    <2> QED BY <2>1, OtherStep
<1>2. CASE Refuse
    BY <1>2, OtherStep DEF Refuse
<1>3. ASSUME NEW s \in SectionNames, SkipMalformed(s) PROVE ImportInv'
    <2>1. LeftStep
        BY <1>3, LeaveIsLeft DEF SkipMalformed
    <2> QED BY <2>1, RecordStep
<1>4. ASSUME NEW r \in Records["tenants"], LoadTenant(r) PROVE ImportInv'
    BY <1>4, TenantStep, RecordStep
<1>5. ASSUME NEW s \in ScopeSections, NEW r \in Records[s], LoadScope(s, r) PROVE ImportInv'
    BY <1>5, ScopeStep, RecordStep
<1>6. ASSUME NEW r \in Records["resources"], SkipResource(r) PROVE ImportInv'
    <2>1. LeftStep
        BY <1>6, LeaveIsLeft DEF SkipResource
    <2> QED BY <2>1, RecordStep
<1>7. ASSUME NEW r \in Records["subscriptions"], CrashOnBlank(r) PROVE ImportInv'
    <2>1. graph' = graph /\ ledger' = ledger /\ at' = at /\ phase' = "crashed" /\ \E d : doc' = Append(doc, d)
        BY <1>7 DEF CrashOnBlank, Reading
    <2> QED BY <2>1, OtherStep
<1>8. ASSUME NEW r \in Records["roleDefinitions"], LoadRole(r) PROVE ImportInv'
    BY <1>8, RoleStep, RecordStep
<1>9. ASSUME NEW s \in PrincipalSections, NEW id \in Records[s], LoadPrincipal(s, id) PROVE ImportInv'
    BY <1>9, PrincipalStep, RecordStep
<1>10. ASSUME NEW r \in Records["groupMemberships"], LoadMembership(r) PROVE ImportInv'
    <2>1. r \in Membership
        BY ImportAssumption
    <2>2. CASE LeftStep
        BY <2>2, RecordStep
    <2>3. CASE ~ LeftStep
        <3>1. PICK m : /\ TakenStep /\ at = 11 /\ UNCHANGED <<scopes, roles, principals, assignments>>
                       /\ memberships' = Append(memberships, m) /\ m.from = Here
                       /\ m.group # m.member
                       /\ \A n \in ToSet(memberships) : n.group # m.group \/ n.member # m.member
                       /\ Reported("group") <=> m.group \notin DOMAIN principals
                       /\ Reported("member") <=> m.member \notin DOMAIN principals
            BY <1>10, <2>1, <2>3, MembershipStep
        <3>2. IsSequence(memberships') /\ OrderInv' /\ GraphIsSimple' /\ ReferenceInv'
            BY <3>1, MembershipTaken
        <3>3. IsSequence(assignments')
            BY <3>1 DEF ShapeInv
        <3> QED BY <3>1, <3>2, <3>3, TakenAccounted
    <2> QED BY <2>2, <2>3
<1>11. ASSUME NEW r \in Records["roleAssignments"], LoadAssignment(r) PROVE ImportInv'
    <2>1. CASE LeftStep
        BY <2>1, RecordStep
    <2>2. CASE ~ LeftStep
        <3>1. PICK a : /\ TakenStep /\ at = 12 /\ UNCHANGED <<scopes, roles, principals, memberships>>
                       /\ assignments' = Append(assignments, a) /\ a.from = Here
                       /\ \A b \in ToSet(assignments) : b.id # a.id
                       /\ Reported("principal") <=> a.principal \notin DOMAIN principals
                       /\ Reported("role") <=> a.role \notin DOMAIN roles
                       /\ Reported("scope") <=> a.scope \notin DOMAIN scopes
            BY <1>11, <2>2, AssignmentStep
        <3>2. IsSequence(assignments') /\ OrderInv' /\ GraphIsSimple' /\ ReferenceInv'
            BY <3>1, AssignmentTaken
        <3>3. IsSequence(memberships')
            BY <3>1 DEF ShapeInv
        <3> QED BY <3>1, <3>2, <3>3, TakenAccounted
    <2> QED BY <2>1, <2>2
<1>12. CASE NextSection
    BY <1>12, NextSectionStep
<1>13. CASE CheckIntegrity
    BY <1>13, OtherStep DEF CheckIntegrity
<1> QED
    BY <1>1, <1>2, <1>3, <1>4, <1>5, <1>6, <1>7, <1>8, <1>9, <1>10, <1>11, <1>12, <1>13 DEF Next

\* The inductive invariant of the importer: places, order, accounts, and what
\* is said of references, together.
THEOREM ImportInvariant == Spec => []ImportInv
<1> QED BY InitImport, NextImport, PTL DEF Spec

\* Of every document, however long and however its records are repeated across
\* sections, each record read is kept and counted or named and counted as
\* skipped: the importer's promise that nothing is dropped without a warning.
THEOREM RecordsAreAccounted == Spec => []EveryRecordAccounted
<1>1. ImportInv => EveryRecordAccounted
    BY DEF ImportInv
<1> QED BY <1>1, ImportInvariant, PTL

\* No two assignments have one id, generated ids included, and no membership is
\* there twice, whatever the document.
THEOREM ImportedGraphIsSimple == Spec => []GraphIsSimple
<1>1. ImportInv => GraphIsSimple
    BY DEF ImportInv
<1> QED BY <1>1, ImportInvariant, PTL

\* The warnings given while sections are still being loaded are right about the
\* finished graph, because of the order the sections are loaded in.
THEOREM ReferencesAreReported == Spec => []DanglingReported
<1>1. ImportInv => DanglingReported
    BY DEF ImportInv, ReferenceInv, DanglingReported
<1> QED BY <1>1, ImportInvariant, PTL
=============================================================================
