------------------------- MODULE OfflineDriftProofs -------------------------
(* Theorems about the comparison of files, for any target files, scopes,     *)
(* clocks and administrators: what is in an observation was so while it was  *)
(* collected, and so a green was true of every file that went into it, the   *)
(* answer does not depend on how the files are named, and a tenant that was  *)
(* left alone is judged for what it was.                                     *)
EXTENDS OfflineDrift, FunctionTheorems, FiniteSetTheorems, SequenceTheorems,
        WellFoundedInduction, TLAPS

(***************************************************************************)
(* The inductive invariant.                                                *)
(***************************************************************************)

\* A read of the scope d returns the assignments at the scope s.
Applies(d, s) == s \in AtOrAbove[d.id] \/ Inside(d, s)

\* What each assignment id has been, and what each role: a condition on a
\* history.  One id has one key for as long as it is in force.
IsHistory(was, wereRoles) ==
    /\ was \in [Ids -> SUBSET (Record \cup {Nothing})]
    /\ wereRoles \in [Roles -> SUBSET Permissions]
    /\ \A i \in Ids : IsFiniteSet(was[i])
    /\ \A x \in Roles : IsFiniteSet(wereRoles[x])
    /\ \A i \in Ids : Nothing \notin was[i] => \A r, s \in was[i] : r.key = s.key

\* What was read of a scope is part of the history, and nothing of the scope
\* that was there throughout is left out.
ScopeSeen(d, seen, was) ==
    /\ \A o \in seen : o \in Observed /\ o.record \in was[o.id] /\ Applies(d, Origin[o.id])
    /\ \A i \in Ids : Applies(d, Origin[i]) /\ Nothing \notin was[i] => \E o \in seen : o.id = i

SeenTruly(results, defs, was, wereRoles) ==
    /\ \A d \in DOMAIN results : ScopeSeen(d, results[d], was)
    /\ \A x \in DOMAIN defs : x \in Roles /\ defs[x] \in wereRoles[x]

OnceEach(scopes) == \A d, e \in scopes : d.id = e.id => d = e

CollectInv ==
    Collecting =>
        /\ DOMAIN reading = {"target", "results", "roles"}
        /\ OnceEach(reading.target.scopes)
        /\ IsHistory(past, pastRoles)
        /\ \A i \in Ids : live[i] \in past[i]
        /\ \A x \in Roles : allowed[x] \in pastRoles[x]
        /\ SeenTruly(reading.results, reading.roles, past, pastRoles)

SavedInv ==
    saved # Nothing =>
        /\ IsHistory(saved.past, saved.pastRoles)
        /\ SeenTruly(saved.results, saved.roles, saved.past, saved.pastRoles)
        /\ OnceEach(DOMAIN saved.results)
        /\ \E k \in Skews : saved.collectedAt = saved.ended + k

AnswerInv == Answered => answer.report = Judge(answer.documents, saved)

OfflineInv == TypeOK /\ CollectInv /\ SavedInv /\ AnswerInv

----------------------------------------------------------------------------
(***************************************************************************)
(* Merging.                                                                *)
(***************************************************************************)

LEMMA LeastOf ==
    ASSUME NEW T \in SUBSET Nat, T # {}
    PROVE  \E m \in T : \A n \in T : m <= n
<1>1. PICK m \in T : \A n \in T : ~ (<<n, m>> \in OpToRel(<, Nat))
    BY NatLessThanWellFounded, WFMin
<1>2. ASSUME NEW n \in T PROVE m <= n
    <2>1. ~ (n < m)
        BY <1>1 DEF OpToRel
    <2> QED BY <2>1
<1> QED BY <1>2

\* The target files of one run: a list that is not empty.
LEMMA FilesFacts ==
    ASSUME NEW docs \in Libraries
    PROVE  /\ Len(docs) \in Nat \ {0} /\ DOMAIN docs = 1..Len(docs)
           /\ Range(docs) = {docs[i] : i \in 1..Len(docs)}
           /\ \A doc \in Range(docs) : doc # Malformed =>
                /\ doc.scopes \subseteq Declaration
                /\ doc.approved \subseteq Record
                /\ DOMAIN doc.pinned \subseteq Roles
<1>1. docs # <<>> /\ docs \in Seq(Range(docs))
    BY OfflineAssumption
<1>2. Len(docs) \in Nat \ {0} /\ DOMAIN docs = 1..Len(docs)
    BY <1>1, EmptySeq, LenProperties
<1>3. Range(docs) = {docs[i] : i \in 1..Len(docs)}
    BY <1>2 DEF Range
<1> QED BY <1>2, <1>3, OfflineAssumption

\* A merge that is not refused loses no scope and no pinned role of any file,
\* and mixes up none.
LEMMA MergeKeeps ==
    ASSUME NEW docs, Len(docs) \in Nat \ {0}, Compatible(docs)
    PROVE  /\ Merge(docs).tenantId = docs[1].tenantId
           /\ Merge(docs).scopes = UNION {docs[i].scopes : i \in 1..Len(docs)}
           /\ Merge(docs).approved = UNION {docs[i].approved : i \in 1..Len(docs)}
           /\ DOMAIN Merge(docs).pinned = UNION {DOMAIN docs[i].pinned : i \in 1..Len(docs)}
           /\ \A i \in 1..Len(docs) : \A x \in DOMAIN docs[i].pinned :
                Merge(docs).pinned[x] = docs[i].pinned[x]
<1>1. /\ Merge(docs).tenantId = docs[1].tenantId
      /\ Merge(docs).scopes = Declared(docs)
      /\ Merge(docs).approved = UNION {docs[i].approved : i \in 1..Len(docs)}
      /\ DOMAIN Merge(docs).pinned = UNION {DOMAIN docs[i].pinned : i \in 1..Len(docs)}
      /\ \A x \in DOMAIN Merge(docs).pinned : Merge(docs).pinned[x] =
            docs[CHOOSE i \in 1..Len(docs) : x \in DOMAIN docs[i].pinned].pinned[x]
    BY DEF Merge
<1>2. ASSUME NEW i \in 1..Len(docs), NEW d \in docs[i].scopes
      PROVE  d \in Declared(docs)
    <2> DEFINE T == {j \in 1..Len(docs) : d \in docs[j].scopes}
    <2>1. T \subseteq Nat /\ T # {}
        BY <1>2
    <2>2. PICK m \in T : \A n \in T : m <= n
        BY <2>1, LeastOf
    <2>3. m \in 1..Len(docs) /\ d \in docs[m].scopes
        BY <2>2
    <2>4. ASSUME NEW j \in 1..(m - 1), NEW e \in docs[j].scopes, e.id = d.id
          PROVE  FALSE
        <3>1. j \in 1..Len(docs) /\ j < m
            BY <2>3
        <3>2. e = d
            BY <2>3, <2>4, <3>1 DEF Compatible
        <3>3. j \in T
            BY <3>1, <3>2
        <3> QED BY <2>2, <3>1, <3>3
    <2> HIDE DEF T
    <2> QED BY <2>3, <2>4 DEF Declared
<1>3. Declared(docs) \subseteq UNION {docs[i].scopes : i \in 1..Len(docs)}
    BY DEF Declared
<1>4. ASSUME NEW i \in 1..Len(docs), NEW x \in DOMAIN docs[i].pinned
      PROVE  Merge(docs).pinned[x] = docs[i].pinned[x]
    <2> DEFINE j == CHOOSE k \in 1..Len(docs) : x \in DOMAIN docs[k].pinned
    <2>1. j \in 1..Len(docs) /\ x \in DOMAIN docs[j].pinned
        BY <1>4
    <2>2. x \in DOMAIN Merge(docs).pinned
        BY <1>1, <1>4
    <2>3. Merge(docs).pinned[x] = docs[j].pinned[x]
        BY <1>1, <2>2
    <2> HIDE DEF j
    <2>4. i = j
        BY <1>4, <2>1 DEF Compatible
    <2> QED BY <2>3, <2>4
<1> QED BY <1>1, <1>2, <1>3, <1>4

\* No scope is declared in two ways, and no key is approved in two.
LEMMA MergedIsUnambiguous ==
    ASSUME NEW docs \in Libraries, Mergeable(docs)
    PROVE  /\ OnceEach(Merge(docs).scopes)
           /\ \A r, s \in Merge(docs).approved : r.key = s.key => r = s
<1>1. Len(docs) \in Nat \ {0} /\ \A i \in 1..Len(docs) : docs[i] \in Range(docs)
    BY FilesFacts
<1>2. Compatible(docs) /\ \A i \in 1..Len(docs) : Valid(docs[i])
    BY <1>1 DEF Mergeable
<1>3. ASSUME NEW d \in Merge(docs).scopes, NEW e \in Merge(docs).scopes, d.id = e.id
      PROVE  d = e
    <2>1. PICK i \in 1..Len(docs), j \in 1..Len(docs) : d \in docs[i].scopes /\ e \in docs[j].scopes
        BY <1>1, <1>2, MergeKeeps
    <2> QED BY <1>2, <1>3, <2>1 DEF Compatible, Valid
<1>4. ASSUME NEW r \in Merge(docs).approved, NEW s \in Merge(docs).approved, r.key = s.key
      PROVE  r = s
    <2>1. PICK i \in 1..Len(docs), j \in 1..Len(docs) : r \in docs[i].approved /\ s \in docs[j].approved
        BY <1>1, <1>2, MergeKeeps
    <2>2. CASE i = j
        BY <1>2, <1>4, <2>1, <2>2 DEF Valid
    <2>3. CASE i # j
        <3>1. r.key \in KeysOf(docs[i].approved) /\ r.key \in KeysOf(docs[j].approved)
            BY <1>4, <2>1 DEF KeysOf
        <3> QED BY <1>2, <2>1, <2>3, <3>1 DEF Compatible
    <2> QED BY <2>2, <2>3
<1> QED BY <1>3, <1>4 DEF OnceEach

----------------------------------------------------------------------------
(***************************************************************************)
(* The invariant holds.                                                    *)
(***************************************************************************)

LEMMA InitOfflineInv == Init => OfflineInv
BY OfflineAssumption
   DEF Init, OfflineInv, TypeOK, CollectInv, SavedInv, AnswerInv, Collecting, Answered, NoHistory

\* What is said of the history stays true as the history grows.
LEMMA LongerHistory ==
    ASSUME NEW results, NEW defs, NEW was, NEW wereRoles, SeenTruly(results, defs, was, wereRoles),
           NEW then, NEW thenRoles,
           \A i \in Ids : was[i] \subseteq then[i],
           \A x \in Roles : wereRoles[x] \subseteq thenRoles[x]
    PROVE  SeenTruly(results, defs, then, thenRoles)
<1>1. ASSUME NEW d \in DOMAIN results
      PROVE  ScopeSeen(d, results[d], then)
    <2>1. ScopeSeen(d, results[d], was)
        BY DEF SeenTruly
    <2>2. \A o \in Observed : o.id \in Ids
        BY DEF Observed
    <2> QED BY <2>1, <2>2 DEF ScopeSeen
<1> QED BY <1>1 DEF SeenTruly

LEMMA AdministerKeepsInv ==
    ASSUME OfflineInv, NEW i \in Ids, NEW r \in Record \cup {Nothing}, Administer(i, r)
    PROVE  OfflineInv'
<1>1. /\ r # Nothing => r.key.scope = Origin[i] /\ (live[i] # Nothing => r.key = live[i].key)
      /\ changes < MaxChanges
      /\ live' = [live EXCEPT ![i] = r] /\ changes' = changes + 1
      /\ past' = IF Collecting THEN [past EXCEPT ![i] = @ \cup {r}] ELSE past
      /\ allowed' = allowed /\ now' = now /\ reading' = reading /\ pastRoles' = pastRoles
      /\ saved' = saved /\ answer' = Nothing
    BY DEF Administer
<1>2. /\ live \in [Ids -> Record \cup {Nothing}] /\ changes \in 0..MaxChanges /\ MaxChanges \in Nat
      /\ past \in [Ids -> SUBSET (Record \cup {Nothing})]
    BY OfflineAssumption DEF OfflineInv, TypeOK
<1>3. TypeOK'
    <2>1. past' \in [Ids -> SUBSET (Record \cup {Nothing})]
        BY <1>1, <1>2
    <2>2. live' \in [Ids -> Record \cup {Nothing}] /\ changes' \in 0..MaxChanges
        BY <1>1, <1>2
    <2> QED BY <1>1, <2>1, <2>2 DEF OfflineInv, TypeOK, Collecting
<1>4. CollectInv'
    <2> SUFFICES ASSUME Collecting PROVE CollectInv'
        BY <1>1 DEF CollectInv, Collecting
    <2>1. /\ DOMAIN reading = {"target", "results", "roles"}
          /\ OnceEach(reading.target.scopes)
          /\ IsHistory(past, pastRoles)
          /\ \A j \in Ids : live[j] \in past[j]
          /\ \A x \in Roles : allowed[x] \in pastRoles[x]
          /\ SeenTruly(reading.results, reading.roles, past, pastRoles)
        BY DEF OfflineInv, CollectInv
    <2>2. /\ past' \in [Ids -> SUBSET (Record \cup {Nothing})]
          /\ past'[i] = past[i] \cup {r} /\ \A j \in Ids : j # i => past'[j] = past[j]
        BY <1>1, <1>2
    <2>3. \A j \in Ids : IsFiniteSet(past'[j])
        BY <2>1, <2>2, FS_AddElement DEF IsHistory
    <2>4. ASSUME NEW j \in Ids, Nothing \notin past'[j], NEW q \in past'[j], NEW s \in past'[j]
          PROVE  q.key = s.key
        <3>1. Nothing \notin past[j] /\ \A a, b \in past[j] : a.key = b.key
            BY <2>1, <2>2, <2>4 DEF IsHistory
        <3>2. CASE j # i
            BY <2>2, <2>4, <3>1, <3>2
        <3>3. CASE j = i
            <4>1. r # Nothing /\ live[i] # Nothing /\ r.key = live[i].key
                BY <1>1, <2>1, <2>2, <2>4, <3>1, <3>3
            <4>2. \A a \in past[i] : a.key = r.key
                BY <2>1, <3>1, <3>3, <4>1
            <4> QED BY <2>2, <2>4, <3>3, <4>2
        <3> QED BY <3>2, <3>3
    <2>5. IsHistory(past', pastRoles')
        BY <1>1, <2>1, <2>2, <2>3, <2>4 DEF IsHistory
    <2>6. SeenTruly(reading.results, reading.roles, past', pastRoles')
        BY <1>1, <2>1, <2>2, LongerHistory
    <2>7. \A j \in Ids : live'[j] \in past'[j]
        BY <1>1, <1>2, <2>1, <2>2
    <2> QED BY <1>1, <2>1, <2>5, <2>6, <2>7 DEF CollectInv
<1> QED BY <1>1, <1>3, <1>4 DEF OfflineInv, SavedInv, AnswerInv, Answered

LEMMA RedefineKeepsInv ==
    ASSUME OfflineInv, NEW x \in Roles, NEW p \in Permissions, Redefine(x, p)
    PROVE  OfflineInv'
<1>1. /\ changes < MaxChanges
      /\ allowed' = [allowed EXCEPT ![x] = p] /\ changes' = changes + 1
      /\ pastRoles' = IF Collecting THEN [pastRoles EXCEPT ![x] = @ \cup {p}] ELSE pastRoles
      /\ live' = live /\ now' = now /\ reading' = reading /\ past' = past
      /\ saved' = saved /\ answer' = Nothing
    BY DEF Redefine
<1>2. /\ allowed \in [Roles -> Permissions] /\ changes \in 0..MaxChanges /\ MaxChanges \in Nat
      /\ pastRoles \in [Roles -> SUBSET Permissions]
    BY OfflineAssumption DEF OfflineInv, TypeOK
<1>3. TypeOK'
    <2>1. pastRoles' \in [Roles -> SUBSET Permissions]
        BY <1>1, <1>2
    <2>2. allowed' \in [Roles -> Permissions] /\ changes' \in 0..MaxChanges
        BY <1>1, <1>2
    <2> QED BY <1>1, <2>1, <2>2 DEF OfflineInv, TypeOK, Collecting
<1>4. CollectInv'
    <2> SUFFICES ASSUME Collecting PROVE CollectInv'
        BY <1>1 DEF CollectInv, Collecting
    <2>1. /\ DOMAIN reading = {"target", "results", "roles"}
          /\ OnceEach(reading.target.scopes)
          /\ IsHistory(past, pastRoles)
          /\ \A i \in Ids : live[i] \in past[i]
          /\ \A y \in Roles : allowed[y] \in pastRoles[y]
          /\ SeenTruly(reading.results, reading.roles, past, pastRoles)
        BY DEF OfflineInv, CollectInv
    <2>2. /\ pastRoles' \in [Roles -> SUBSET Permissions]
          /\ pastRoles'[x] = pastRoles[x] \cup {p}
          /\ \A y \in Roles : y # x => pastRoles'[y] = pastRoles[y]
        BY <1>1, <1>2
    <2>3. \A y \in Roles : IsFiniteSet(pastRoles'[y])
        BY <2>1, <2>2, FS_AddElement DEF IsHistory
    <2>4. IsHistory(past', pastRoles')
        BY <1>1, <2>1, <2>2, <2>3 DEF IsHistory
    <2>5. SeenTruly(reading.results, reading.roles, past', pastRoles')
        BY <1>1, <2>1, <2>2, LongerHistory
    <2>6. \A y \in Roles : allowed'[y] \in pastRoles'[y]
        BY <1>1, <1>2, <2>1, <2>2
    <2> QED BY <1>1, <2>1, <2>4, <2>5, <2>6 DEF CollectInv
<1> QED BY <1>1, <1>3, <1>4 DEF OfflineInv, SavedInv, AnswerInv, Answered

LEMMA TickKeepsInv == OfflineInv /\ Tick => OfflineInv'
<1> SUFFICES ASSUME OfflineInv, Tick PROVE OfflineInv'
    OBVIOUS
<1>1. /\ now < MaxTime /\ now' = now + 1 /\ answer' = Nothing
      /\ live' = live /\ allowed' = allowed /\ changes' = changes
      /\ reading' = reading /\ past' = past /\ pastRoles' = pastRoles /\ saved' = saved
    BY DEF Tick, azure, history
<1>2. now \in 0..MaxTime /\ MaxTime \in Nat /\ (saved # Nothing => saved.ended \in 0..now)
    BY OfflineAssumption DEF OfflineInv, TypeOK
<1>3. now' \in 0..MaxTime /\ (saved' # Nothing => saved'.ended \in 0..now')
    BY <1>1, <1>2
<1>4. TypeOK'
    BY <1>1, <1>3 DEF OfflineInv, TypeOK, Collecting
<1>5. CollectInv'
    BY <1>1 DEF OfflineInv, CollectInv, Collecting
<1> QED BY <1>1, <1>4, <1>5 DEF OfflineInv, SavedInv, AnswerInv, Answered

LEMMA BeginKeepsInv ==
    ASSUME OfflineInv, NEW docs \in Libraries, BeginCollection(docs)
    PROVE  OfflineInv'
<1>1. /\ Mergeable(docs)
      /\ reading' = [target |-> Merge(docs), results |-> <<>>, roles |-> <<>>]
      /\ past' = [i \in Ids |-> {live[i]}] /\ pastRoles' = [x \in Roles |-> {allowed[x]}]
      /\ answer' = Nothing
      /\ live' = live /\ allowed' = allowed /\ changes' = changes /\ now' = now /\ saved' = saved
    BY DEF BeginCollection, azure
<1>2. /\ live \in [Ids -> Record \cup {Nothing}] /\ allowed \in [Roles -> Permissions]
    BY DEF OfflineInv, TypeOK
<1>3. /\ DOMAIN reading' = {"target", "results", "roles"}
      /\ DOMAIN reading'.results = {} /\ DOMAIN reading'.roles = {}
      /\ reading'.target = Merge(docs)
    BY <1>1
<1>4. /\ past' \in [Ids -> SUBSET (Record \cup {Nothing})]
      /\ pastRoles' \in [Roles -> SUBSET Permissions]
    BY <1>1, <1>2
<1>5. TypeOK'
    BY <1>1, <1>3, <1>4 DEF OfflineInv, TypeOK
<1>6. IsHistory(past', pastRoles')
    <2>1. \A i \in Ids : IsFiniteSet(past'[i])
        BY <1>1, FS_Singleton
    <2>2. \A x \in Roles : IsFiniteSet(pastRoles'[x])
        BY <1>1, FS_Singleton
    <2>3. \A i \in Ids : \A r, s \in past'[i] : r = s
        BY <1>1
    <2> QED BY <1>4, <2>1, <2>2, <2>3 DEF IsHistory
<1>7. OnceEach(reading'.target.scopes)
    BY <1>1, <1>3, MergedIsUnambiguous
<1>8. CollectInv'
    BY <1>1, <1>2, <1>3, <1>6, <1>7 DEF CollectInv, SeenTruly
<1> QED BY <1>1, <1>5, <1>8 DEF OfflineInv, SavedInv, AnswerInv, Answered

LEMMA ReadScopeKeepsInv ==
    ASSUME OfflineInv, NEW d \in Declaration, ReadScope(d)
    PROVE  OfflineInv'
<1>1. /\ Collecting /\ d \in reading.target.scopes
      /\ reading' = [reading EXCEPT !.results = With(@, d, Returned(d))]
      /\ answer' = Nothing
      /\ live' = live /\ allowed' = allowed /\ changes' = changes /\ now' = now
      /\ past' = past /\ pastRoles' = pastRoles /\ saved' = saved
    BY DEF ReadScope, azure, history
<1>2. /\ DOMAIN reading = {"target", "results", "roles"}
      /\ DOMAIN reading.results \subseteq reading.target.scopes
      /\ OnceEach(reading.target.scopes)
      /\ IsHistory(past, pastRoles)
      /\ \A i \in Ids : live[i] \in past[i]
      /\ \A x \in Roles : allowed[x] \in pastRoles[x]
      /\ SeenTruly(reading.results, reading.roles, past, pastRoles)
    BY <1>1 DEF OfflineInv, TypeOK, CollectInv
<1>3. /\ DOMAIN reading' = {"target", "results", "roles"}
      /\ reading'.target = reading.target /\ reading'.roles = reading.roles
      /\ reading'.results = With(reading.results, d, Returned(d))
    BY <1>1, <1>2
<1>4. /\ DOMAIN reading'.results = DOMAIN reading.results \cup {d}
      /\ reading'.results[d] = Returned(d)
      /\ \A e \in DOMAIN reading.results : e # d => reading'.results[e] = reading.results[e]
    BY <1>3 DEF With
<1>5. TypeOK'
    BY <1>1, <1>2, <1>3, <1>4 DEF OfflineInv, TypeOK
<1>6. ScopeSeen(d, Returned(d), past)
    <2>1. ASSUME NEW o \in Returned(d)
          PROVE  o \in Observed /\ o.record \in past[o.id] /\ Applies(d, Origin[o.id])
        <3>1. o \in Observed /\ o.record = live[o.id] /\ Applies(d, Origin[o.id])
            BY DEF Returned, Applies
        <3>2. o.id \in Ids
            BY <3>1 DEF Observed
        <3> QED BY <1>2, <3>1, <3>2
    <2>2. ASSUME NEW i \in Ids, Applies(d, Origin[i]), Nothing \notin past[i]
          PROVE  \E o \in Returned(d) : o.id = i
        <3>1. live[i] \in Record
            BY <1>2, <2>2 DEF OfflineInv, TypeOK
        <3> DEFINE o == [id |-> i, record |-> live[i]]
        <3>2. o \in Observed /\ o.id = i /\ o.record = live[i]
            BY <3>1 DEF Observed
        <3> HIDE DEF o
        <3>3. o \in Returned(d)
            BY <2>2, <3>2 DEF Returned, Applies
        <3> QED BY <3>2, <3>3
    <2> QED BY <2>1, <2>2 DEF ScopeSeen
<1>7. SeenTruly(reading'.results, reading'.roles, past, pastRoles)
    BY <1>2, <1>3, <1>4, <1>6 DEF SeenTruly
<1>8. CollectInv'
    BY <1>1, <1>2, <1>3, <1>7 DEF CollectInv
<1> QED BY <1>1, <1>5, <1>8 DEF OfflineInv, SavedInv, AnswerInv, Answered

LEMMA ReadRoleKeepsInv ==
    ASSUME OfflineInv, NEW x \in Roles, ReadRole(x)
    PROVE  OfflineInv'
<1>1. /\ Collecting
      /\ reading' = [reading EXCEPT !.roles = With(@, x, allowed[x])]
      /\ answer' = Nothing
      /\ live' = live /\ allowed' = allowed /\ changes' = changes /\ now' = now
      /\ past' = past /\ pastRoles' = pastRoles /\ saved' = saved
    BY DEF ReadRole, azure, history
<1>2. /\ DOMAIN reading = {"target", "results", "roles"}
      /\ DOMAIN reading.results \subseteq reading.target.scopes
      /\ OnceEach(reading.target.scopes)
      /\ IsHistory(past, pastRoles)
      /\ \A i \in Ids : live[i] \in past[i]
      /\ \A y \in Roles : allowed[y] \in pastRoles[y]
      /\ SeenTruly(reading.results, reading.roles, past, pastRoles)
    BY <1>1 DEF OfflineInv, TypeOK, CollectInv
<1>3. /\ DOMAIN reading' = {"target", "results", "roles"}
      /\ reading'.target = reading.target /\ reading'.results = reading.results
      /\ reading'.roles = With(reading.roles, x, allowed[x])
    BY <1>1, <1>2
<1>4. /\ DOMAIN reading'.roles = DOMAIN reading.roles \cup {x}
      /\ reading'.roles[x] = allowed[x]
      /\ \A y \in DOMAIN reading.roles : y # x => reading'.roles[y] = reading.roles[y]
    BY <1>3 DEF With
<1>5. TypeOK'
    BY <1>1, <1>2, <1>3 DEF OfflineInv, TypeOK
<1>6. SeenTruly(reading'.results, reading'.roles, past, pastRoles)
    BY <1>2, <1>3, <1>4 DEF SeenTruly
<1>7. CollectInv'
    BY <1>1, <1>2, <1>3, <1>6 DEF CollectInv
<1> QED BY <1>1, <1>5, <1>7 DEF OfflineInv, SavedInv, AnswerInv, Answered

LEMMA EndKeepsInv ==
    ASSUME OfflineInv, NEW skew \in Skews, EndCollection(skew)
    PROVE  OfflineInv'
<1>1. /\ Collecting
      /\ DOMAIN reading.results = reading.target.scopes
      /\ saved' = [tenantId |-> Home, collectedAt |-> now + skew,
                   results |-> reading.results, roles |-> reading.roles,
                   ended |-> now, past |-> past, pastRoles |-> pastRoles]
      /\ reading' = Nothing /\ answer' = Nothing
      /\ past' = [i \in Ids |-> {}] /\ pastRoles' = [x \in Roles |-> {}]
      /\ live' = live /\ allowed' = allowed /\ changes' = changes /\ now' = now
    BY DEF EndCollection, azure
<1>2. /\ OnceEach(reading.target.scopes)
      /\ IsHistory(past, pastRoles)
      /\ SeenTruly(reading.results, reading.roles, past, pastRoles)
    BY <1>1 DEF OfflineInv, CollectInv
<1>3. /\ past' \in [Ids -> SUBSET (Record \cup {Nothing})]
      /\ pastRoles' \in [Roles -> SUBSET Permissions]
      /\ now \in 0..MaxTime
    BY <1>1 DEF OfflineInv, TypeOK
<1>4. TypeOK'
    BY <1>1, <1>3, OfflineAssumption DEF OfflineInv, TypeOK, Collecting
<1>5. SavedInv'
    BY <1>1, <1>2 DEF SavedInv
<1> QED BY <1>1, <1>4, <1>5 DEF OfflineInv, CollectInv, AnswerInv, Answered, Collecting

LEMMA CompareKeepsInv ==
    ASSUME OfflineInv, NEW docs \in Libraries, Compare(docs)
    PROVE  OfflineInv'
<1>1. /\ answer' = [documents |-> docs, report |-> Judge(docs, saved)]
      /\ live' = live /\ allowed' = allowed /\ changes' = changes /\ now' = now
      /\ reading' = reading /\ past' = past /\ pastRoles' = pastRoles /\ saved' = saved
    BY DEF Compare, azure, history
<1>2. TypeOK'
    BY <1>1 DEF OfflineInv, TypeOK, Collecting
<1>3. CollectInv' /\ SavedInv'
    BY <1>1 DEF OfflineInv, CollectInv, Collecting, SavedInv
<1>4. answer'.documents = docs /\ answer'.report = Judge(docs, saved)
    BY <1>1
<1>5. AnswerInv'
    BY <1>1, <1>4 DEF AnswerInv, Judge, Fresh
<1> QED BY <1>2, <1>3, <1>5 DEF OfflineInv

LEMMA NextOfflineInv == OfflineInv /\ [Next]_vars => OfflineInv'
<1> SUFFICES ASSUME OfflineInv, [Next]_vars PROVE OfflineInv'
    OBVIOUS
<1>1. CASE Administrators
    BY <1>1, AdministerKeepsInv, RedefineKeepsInv DEF Administrators
<1>2. CASE Tick
    BY <1>2, TickKeepsInv
<1>3. CASE \E docs \in Libraries : BeginCollection(docs) \/ Compare(docs)
    BY <1>3, BeginKeepsInv, CompareKeepsInv
<1>4. CASE \E d \in Declaration : ReadScope(d)
    BY <1>4, ReadScopeKeepsInv
<1>5. CASE \E x \in Roles : ReadRole(x)
    BY <1>5, ReadRoleKeepsInv
<1>6. CASE \E skew \in Skews : EndCollection(skew)
    BY <1>6, EndKeepsInv
<1>7. CASE UNCHANGED vars
    <2>1. /\ live' = live /\ allowed' = allowed /\ changes' = changes /\ now' = now
          /\ reading' = reading /\ past' = past /\ pastRoles' = pastRoles
          /\ saved' = saved /\ answer' = answer
        BY <1>7 DEF vars, azure, history
    <2>2. TypeOK' /\ CollectInv' /\ SavedInv'
        BY <2>1 DEF OfflineInv, TypeOK, CollectInv, SavedInv, Collecting
    <2>3. AnswerInv'
        BY <2>1 DEF OfflineInv, AnswerInv, Answered, Judge, Fresh
    <2> QED BY <2>2, <2>3 DEF OfflineInv
<1> QED BY <1>1, <1>2, <1>3, <1>4, <1>5, <1>6, <1>7 DEF Next

\* What is observed was so, and what is answered is what the comparison says
\* of the files that were read, at every time, whatever the tenant does.
THEOREM OfflineInvariant == Spec => []OfflineInv
<1> QED BY InitOfflineInv, NextOfflineInv, PTL DEF Spec

\* The state has its shape.
THEOREM OfflineTypeCorrect == Spec => []TypeOK
<1>1. OfflineInv => TypeOK
    BY DEF OfflineInv
<1> QED BY <1>1, OfflineInvariant, PTL

----------------------------------------------------------------------------
(***************************************************************************)
(* What an answer says.                                                    *)
(***************************************************************************)

\* The findings are empty if and only if what is observed is what is approved,
\* once each, and the pinned roles are as they were.
LEMMA NoFindingsIsAgreement ==
    ASSUME NEW t, NEW obs, NEW defs,
           \A r, s \in t.approved : r.key = s.key => r = s
    PROVE  Findings(t, obs, defs) = NoFindings <=>
            /\ \A r \in t.approved : \E o \in obs : o.record = r
            /\ \A o \in obs : o.record \in t.approved
            /\ \A o, p \in obs : o.record.key = p.record.key => o.id = p.id
            /\ \A x \in DOMAIN t.pinned : defs[x] = t.pinned[x]
<1>1. Findings(t, obs, defs) = NoFindings <=>
        /\ Missing(t, obs) = {} /\ Unexpected(t, obs) = {} /\ Changed(t, obs) = {}
        /\ Duplicated(obs) = {} /\ RolesChanged(t, defs) = {}
    BY DEF Findings, NoFindings
<1>2. Duplicated(obs) = {} <=> \A o, p \in obs : o.record.key = p.record.key => o.id = p.id
    BY DEF Duplicated
<1>3. RolesChanged(t, defs) = {} <=> \A x \in DOMAIN t.pinned : defs[x] = t.pinned[x]
    BY DEF RolesChanged
<1>4. Missing(t, obs) = {} <=> \A r \in t.approved : \E o \in obs : o.record.key = r.key
    BY DEF Missing, KeysOf, Held
<1>5. Unexpected(t, obs) = {} <=> \A o \in obs : \E r \in t.approved : o.record.key = r.key
    BY DEF Unexpected, KeysOf
<1>6. Changed(t, obs) = {} <=>
        \A r \in t.approved : \A o \in obs : o.record.key = r.key => o.record \in t.approved
    BY DEF Changed, KeysOf, Held
<1> QED BY <1>1, <1>2, <1>3, <1>4, <1>5, <1>6

\* A verdict is given for files that can be merged, for a recent observation
\* of their tenant, complete for their scopes and roles.
LEMMA JudgedIsVerdict ==
    ASSUME NEW docs, NEW seen, Judge(docs, seen) # ErrorReport
    PROVE  /\ Mergeable(docs) /\ seen # Nothing /\ Fresh(seen)
           /\ Merge(docs).scopes = DOMAIN seen.results
           /\ DOMAIN Merge(docs).pinned = DOMAIN seen.roles
           /\ Judge(docs, seen) = Verdict(Merge(docs), ById(seen), seen.roles)
BY DEF Judge, CoversExactly

LEMMA StatusOf ==
    ASSUME NEW t, NEW obs, NEW defs
    PROVE  /\ ErrorReport.status = "error"
           /\ Verdict(t, obs, defs).status =
                IF Findings(t, obs, defs) = NoFindings THEN "in-sync" ELSE "drift"
BY DEF ErrorReport, Verdict

\* The merge, seen as the sets of what its files declare, approve and pin.
LEMMA MergeOfFiles ==
    ASSUME NEW docs \in Libraries, Mergeable(docs)
    PROVE  /\ Merge(docs).scopes = UNION {doc.scopes : doc \in Range(docs)}
           /\ Merge(docs).approved = UNION {doc.approved : doc \in Range(docs)}
           /\ DOMAIN Merge(docs).pinned = UNION {DOMAIN doc.pinned : doc \in Range(docs)}
           /\ \A doc \in Range(docs) : \A x \in DOMAIN doc.pinned :
                Merge(docs).pinned[x] = doc.pinned[x]
<1>1. Len(docs) \in Nat \ {0} /\ Range(docs) = {docs[i] : i \in 1..Len(docs)} /\ Compatible(docs)
    BY FilesFacts DEF Mergeable
<1> QED BY <1>1, MergeKeeps

\* An assignment is in the coverage of the files if and only if a read of one
\* of their scopes returns it.
LEMMA CoverageIsReturned ==
    ASSUME NEW i \in Ids,
           \A doc \in Range(answer.documents) : doc.scopes \subseteq Declaration
    PROVE  InCoverage(i) <=>
            \E doc \in Range(answer.documents) : \E d \in doc.scopes : Applies(d, Origin[i])
<1>1. \A s \in Scopes : s \in AtOrAbove[s]
    BY OfflineAssumption
<1>2. ASSUME NEW d \in Declaration
      PROVE  Applies(d, Origin[i]) <=>
                \/ Origin[i] \in AtOrAbove[d.id]
                \/ d.includeDescendants /\ IsPrefix(d.id, Origin[i])
    <2>1. d.id \in Scopes
        BY DEF Declaration
    <2> QED BY <1>1, <2>1 DEF Applies, Inside
<1> QED BY <1>2 DEF InCoverage

\* What a saved observation has of each assignment: the state it was in while
\* the observation was collected, for those that were in the way throughout.
LEMMA SavedFacts ==
    ASSUME OfflineInv, saved # Nothing
    PROVE  /\ \A o \in ById(saved) :
                /\ o \in Observed /\ o.id \in Ids /\ o.record \in Record
                /\ o.record \in saved.past[o.id]
                /\ \E d \in DOMAIN saved.results : Applies(d, Origin[o.id])
           /\ \A d \in DOMAIN saved.results : \A i \in Ids :
                Applies(d, Origin[i]) /\ Nothing \notin saved.past[i] =>
                    \E o \in ById(saved) : o.id = i
           /\ \A x \in DOMAIN saved.roles : x \in Roles /\ saved.roles[x] \in saved.pastRoles[x]
<1>1. /\ \A d \in DOMAIN saved.results : ScopeSeen(d, saved.results[d], saved.past)
      /\ \A x \in DOMAIN saved.roles : x \in Roles /\ saved.roles[x] \in saved.pastRoles[x]
    BY DEF OfflineInv, SavedInv, SeenTruly
<1>2. \A o \in Observed : o.id \in Ids /\ o.record \in Record
    BY DEF Observed
<1> QED BY <1>1, <1>2 DEF ScopeSeen, ById

LEMMA GreenWasTrueInv == OfflineInv => GreenWasTrue
<1> SUFFICES ASSUME OfflineInv, Answered, answer.report.status = "in-sync"
             PROVE  GreenWasTrue
    BY DEF GreenWasTrue
<1> DEFINE docs == answer.documents
           t == Merge(docs)
<1>1. docs \in Libraries /\ answer.report = Judge(docs, saved)
    BY DEF OfflineInv, TypeOK, AnswerInv, Answered
<1>2. answer.report # ErrorReport
    BY StatusOf
<1>3. /\ Mergeable(docs) /\ saved # Nothing /\ Fresh(saved)
      /\ t.scopes = DOMAIN saved.results
      /\ DOMAIN t.pinned = DOMAIN saved.roles
      /\ answer.report = Verdict(t, ById(saved), saved.roles)
    BY <1>1, <1>2, JudgedIsVerdict
<1>4. /\ t.scopes = UNION {doc.scopes : doc \in Range(docs)}
      /\ t.approved = Approved
      /\ DOMAIN t.pinned = UNION {DOMAIN doc.pinned : doc \in Range(docs)}
      /\ \A doc \in Range(docs) : \A x \in DOMAIN doc.pinned : t.pinned[x] = doc.pinned[x]
    BY <1>1, <1>3, MergeOfFiles DEF Approved
<1>5. \A doc \in Range(docs) : doc.scopes \subseteq Declaration
    BY <1>1, <1>3, FilesFacts DEF Mergeable, Valid
<1>6. \A r, s \in t.approved : r.key = s.key => r = s
    BY <1>1, <1>3, MergedIsUnambiguous
<1>7. Findings(t, ById(saved), saved.roles) = NoFindings
    BY <1>3, StatusOf
<1> HIDE DEF docs, t
<1>8. /\ \A r \in Approved : \E o \in ById(saved) : o.record = r
      /\ \A o \in ById(saved) : o.record \in Approved
      /\ \A o, p \in ById(saved) : o.record.key = p.record.key => o.id = p.id
      /\ \A x \in DOMAIN t.pinned : saved.roles[x] = t.pinned[x]
    BY <1>4, <1>6, <1>7, NoFindingsIsAgreement
<1>9. /\ \A o \in ById(saved) : o.id \in Ids /\ o.record \in saved.past[o.id]
      /\ \A d \in DOMAIN saved.results : \A i \in Ids :
            Applies(d, Origin[i]) /\ Nothing \notin saved.past[i] => \E o \in ById(saved) : o.id = i
      /\ \A x \in DOMAIN saved.roles : x \in Roles /\ saved.roles[x] \in saved.pastRoles[x]
    BY <1>3, SavedFacts
<1>10. now - saved.ended <= MaxAge + Ahead
    <2>1. PICK k \in Skews : saved.collectedAt = saved.ended + k
        BY <1>3 DEF OfflineInv, SavedInv
    <2>2. k \in Int /\ k <= Ahead /\ Ahead \in Nat /\ MaxAge \in Nat
        BY OfflineAssumption
    <2>3. now \in Nat /\ saved.ended \in Nat
        BY <1>3, OfflineAssumption DEF OfflineInv, TypeOK
    <2>4. now - saved.collectedAt <= MaxAge
        BY <1>3, <2>1, <2>2, <2>3 DEF Fresh
    <2> QED BY <2>1, <2>2, <2>3, <2>4
<1>11. ASSUME NEW r \in Approved PROVE \E i \in Ids : r \in saved.past[i]
    BY <1>8, <1>9
<1>12. ASSUME NEW i \in Ids, InCoverage(i), Nothing \notin saved.past[i]
       PROVE  \E o \in ById(saved) : o.id = i
    <2>1. \E doc \in Range(docs) : \E d \in doc.scopes : Applies(d, Origin[i])
        BY <1>5, <1>12, CoverageIsReturned DEF docs
    <2>2. \E d \in DOMAIN saved.results : Applies(d, Origin[i])
        BY <1>3, <1>4, <2>1
    <2> QED BY <1>9, <1>12, <2>2
<1>13. ASSUME NEW i \in Ids, InCoverage(i), Nothing \notin saved.past[i]
       PROVE  saved.past[i] \cap Approved # {}
    BY <1>8, <1>9, <1>12, <1>13
<1>14. ASSUME NEW i \in Ids, NEW j \in Ids, i # j, InCoverage(i), InCoverage(j),
              Nothing \notin saved.past[i] \cup saved.past[j]
       PROVE  KeysOf(saved.past[i]) # KeysOf(saved.past[j])
    <2>1. PICK o \in ById(saved), p \in ById(saved) : o.id = i /\ p.id = j
        BY <1>12, <1>14
    <2>2. o.record \in saved.past[i] /\ p.record \in saved.past[j]
        BY <1>9, <2>1
    <2>3. \A r, s \in saved.past[j] : r.key = s.key
        BY <1>3, <1>14 DEF OfflineInv, SavedInv, IsHistory
    <2>4. o.record.key # p.record.key
        BY <1>8, <1>14, <2>1
    <2>5. o.record.key \in KeysOf(saved.past[i]) /\ o.record.key \notin KeysOf(saved.past[j])
        BY <2>2, <2>3, <2>4 DEF KeysOf
    <2> QED BY <2>5
<1>15. ASSUME NEW doc \in Range(docs), NEW x \in DOMAIN doc.pinned
       PROVE  doc.pinned[x] \in saved.pastRoles[x]
    <2>1. x \in DOMAIN t.pinned /\ t.pinned[x] = doc.pinned[x]
        BY <1>4
    <2> QED BY <1>3, <1>8, <1>9, <2>1
<1> QED BY <1>10, <1>11, <1>13, <1>14, <1>15 DEF GreenWasTrue, docs

\* Whoever reads a green of the files reads what was true of the tenant: for
\* any files that are merged, any scopes, and any changes in between.
THEOREM OfflineGreenIsTrue == Spec => []GreenWasTrue
<1> QED BY GreenWasTrueInv, OfflineInvariant, PTL

----------------------------------------------------------------------------
(***************************************************************************)
(* The order of the files.                                                 *)
(***************************************************************************)

LEMMA BijectionFacts ==
    ASSUME NEW n \in Nat, NEW p \in Bijection(1..n, 1..n)
    PROVE  /\ p \in [1..n -> 1..n]
           /\ \A j \in 1..n : \E i \in 1..n : p[i] = j
           /\ \A i, j \in 1..n : p[i] = p[j] => i = j
<1> DEFINE S == 1..n
<1> HIDE DEF S
<1>1. p \in Bijection(S, S)
    BY DEF S
<1>2. /\ p \in [S -> S]
      /\ \A a, b \in S : p[a] = p[b] => a = b
      /\ \A b \in S : \E a \in S : p[a] = b
    BY <1>1, Fun_BijectionProperties
<1> QED BY <1>2 DEF S

\* The files read in another order.
Reordered(docs, p) == [i \in 1..Len(docs) |-> docs[p[i]]]

LEMMA ReorderedFacts ==
    ASSUME NEW docs \in Libraries, NEW p \in Bijection(1..Len(docs), 1..Len(docs))
    PROVE  /\ Len(Reordered(docs, p)) = Len(docs)
           /\ Range(Reordered(docs, p)) = Range(docs)
           /\ \A i \in 1..Len(docs) : Reordered(docs, p)[i] = docs[p[i]]
<1>1. /\ Len(docs) \in Nat \ {0} /\ DOMAIN docs = 1..Len(docs)
      /\ Range(docs) = {docs[i] : i \in 1..Len(docs)}
    BY FilesFacts
<1>2. /\ p \in [1..Len(docs) -> 1..Len(docs)]
      /\ \A j \in 1..Len(docs) : \E i \in 1..Len(docs) : p[i] = j
    BY <1>1, BijectionFacts
<1>3. /\ DOMAIN Reordered(docs, p) = 1..Len(docs)
      /\ \A i \in 1..Len(docs) : Reordered(docs, p)[i] = docs[p[i]]
    BY DEF Reordered
<1>4. Reordered(docs, p) \in [1..Len(docs) -> Range(docs)]
    BY <1>1, <1>2 DEF Reordered
<1>5. Reordered(docs, p) \in Seq(Range(docs))
    BY <1>1, <1>4, SeqDef
<1>6. Len(Reordered(docs, p)) = Len(docs)
    BY <1>1, <1>3, <1>5, LenProperties
<1>7. Range(Reordered(docs, p)) = {docs[p[i]] : i \in 1..Len(docs)}
    BY <1>3 DEF Range
<1>8. {docs[p[i]] : i \in 1..Len(docs)} = Range(docs)
    <2>1. \A i \in 1..Len(docs) : docs[p[i]] \in Range(docs)
        BY <1>1, <1>2
    <2>2. ASSUME NEW doc \in Range(docs)
          PROVE  \E i \in 1..Len(docs) : docs[p[i]] = doc
        <3>1. PICK j \in 1..Len(docs) : doc = docs[j]
            BY <1>1
        <3>2. PICK i \in 1..Len(docs) : p[i] = j
            BY <1>2
        <3> QED BY <3>1, <3>2
    <2> QED BY <2>1, <2>2
<1> QED BY <1>3, <1>6, <1>7, <1>8

\* Two lists with the same files, each as often in the one as in the other.
Rearranges(p, docs, others) ==
    /\ Len(docs) \in Nat \ {0} /\ Len(others) = Len(docs)
    /\ p \in [1..Len(docs) -> 1..Len(docs)]
    /\ \A j \in 1..Len(docs) : \E i \in 1..Len(docs) : p[i] = j
    /\ \A i, j \in 1..Len(docs) : p[i] = p[j] => i = j
    /\ \A i \in 1..Len(docs) : others[i] = docs[p[i]]

LEMMA ReorderedIsRearranged ==
    ASSUME NEW docs \in Libraries, NEW p \in Bijection(1..Len(docs), 1..Len(docs))
    PROVE  Rearranges(p, docs, Reordered(docs, p))
<1>1. Len(docs) \in Nat \ {0}
    BY FilesFacts
<1>2. /\ Len(Reordered(docs, p)) = Len(docs)
      /\ \A i \in 1..Len(docs) : Reordered(docs, p)[i] = docs[p[i]]
    BY ReorderedFacts
<1>3. /\ p \in [1..Len(docs) -> 1..Len(docs)]
      /\ \A j \in 1..Len(docs) : \E i \in 1..Len(docs) : p[i] = j
      /\ \A i, j \in 1..Len(docs) : p[i] = p[j] => i = j
    BY <1>1, BijectionFacts
<1> QED BY <1>1, <1>2, <1>3 DEF Rearranges

\* Both can be merged or neither can.
LEMMA CompatibleInAnyOrder ==
    ASSUME NEW docs, NEW others, NEW p, Rearranges(p, docs, others)
    PROVE  Compatible(others) <=> Compatible(docs)
<1> DEFINE n == Len(docs)
           Agree(d, e) ==
            /\ d.tenantId = e.tenantId
            /\ \A x \in d.scopes, y \in e.scopes : x.id = y.id => x = y
            /\ KeysOf(d.approved) \cap KeysOf(e.approved) = {}
            /\ DOMAIN d.pinned \cap DOMAIN e.pinned = {}
<1>1. Compatible(docs) <=> \A i, j \in 1..n : i # j => Agree(docs[i], docs[j])
    BY DEF Compatible
<1>2. Compatible(others) <=> \A i, j \in 1..n : i # j => Agree(others[i], others[j])
    BY DEF Compatible, Rearranges
<1> HIDE DEF Agree
<1>3. ASSUME Compatible(docs), NEW i \in 1..n, NEW j \in 1..n, i # j
      PROVE  Agree(others[i], others[j])
    <2>1. p[i] \in 1..n /\ p[j] \in 1..n /\ p[i] # p[j]
        BY <1>3 DEF Rearranges
    <2>2. Agree(docs[p[i]], docs[p[j]])
        BY <1>1, <1>3, <2>1
    <2> QED BY <2>2 DEF Rearranges
<1>4. ASSUME Compatible(others), NEW a \in 1..n, NEW b \in 1..n, a # b
      PROVE  Agree(docs[a], docs[b])
    <2>1. PICK i \in 1..n : p[i] = a
        BY DEF Rearranges
    <2>2. PICK j \in 1..n : p[j] = b
        BY DEF Rearranges
    <2>3. Agree(others[i], others[j])
        BY <1>2, <1>4, <2>1, <2>2
    <2>4. others[i] = docs[a] /\ others[j] = docs[b]
        BY <2>1, <2>2 DEF Rearranges
    <2> QED BY <2>3, <2>4
<1> QED BY <1>1, <1>2, <1>3, <1>4

\* And the merge is the same.
LEMMA MergedInAnyOrder ==
    ASSUME NEW docs, NEW others, NEW p, Rearranges(p, docs, others),
           Compatible(docs), Compatible(others)
    PROVE  Merge(others) = Merge(docs)
<1> DEFINE n == Len(docs)
           ofDocs == {docs[i] : i \in 1..n}
           ofOthers == {others[i] : i \in 1..n}
<1>1. n \in Nat \ {0} /\ Len(others) = n
    BY DEF Rearranges
<1>2. \A i \in 1..n : p[i] \in 1..n /\ others[i] = docs[p[i]]
    BY DEF Rearranges
<1>3. \A j \in 1..n : \E i \in 1..n : others[i] = docs[j]
    BY DEF Rearranges
<1>4. ofOthers = ofDocs
    <2>1. ofOthers \subseteq ofDocs
        BY <1>2
    <2>2. ofDocs \subseteq ofOthers
        BY <1>3
    <2> HIDE DEF ofDocs, ofOthers
    <2> QED BY <2>1, <2>2
<1>5. /\ Merge(docs).tenantId = docs[1].tenantId
      /\ Merge(docs).scopes = UNION {docs[i].scopes : i \in 1..n}
      /\ Merge(docs).approved = UNION {docs[i].approved : i \in 1..n}
      /\ DOMAIN Merge(docs).pinned = UNION {DOMAIN docs[i].pinned : i \in 1..n}
      /\ \A i \in 1..n : \A x \in DOMAIN docs[i].pinned : Merge(docs).pinned[x] = docs[i].pinned[x]
    BY <1>1, MergeKeeps
<1>6. /\ Merge(others).tenantId = others[1].tenantId
      /\ Merge(others).scopes = UNION {others[i].scopes : i \in 1..n}
      /\ Merge(others).approved = UNION {others[i].approved : i \in 1..n}
      /\ DOMAIN Merge(others).pinned = UNION {DOMAIN others[i].pinned : i \in 1..n}
      /\ \A i \in 1..n : \A x \in DOMAIN others[i].pinned :
            Merge(others).pinned[x] = others[i].pinned[x]
    BY <1>1, MergeKeeps
<1>7. /\ Merge(docs).scopes = UNION {d.scopes : d \in ofDocs}
      /\ Merge(docs).approved = UNION {d.approved : d \in ofDocs}
      /\ DOMAIN Merge(docs).pinned = UNION {DOMAIN d.pinned : d \in ofDocs}
      /\ \A d \in ofDocs : \A x \in DOMAIN d.pinned : Merge(docs).pinned[x] = d.pinned[x]
    BY <1>5
<1>8. /\ Merge(others).scopes = UNION {d.scopes : d \in ofOthers}
      /\ Merge(others).approved = UNION {d.approved : d \in ofOthers}
      /\ DOMAIN Merge(others).pinned = UNION {DOMAIN d.pinned : d \in ofOthers}
      /\ \A d \in ofOthers : \A x \in DOMAIN d.pinned : Merge(others).pinned[x] = d.pinned[x]
    BY <1>6
<1>9. Merge(others).tenantId = Merge(docs).tenantId
    <2>1. 1 \in 1..n /\ p[1] \in 1..n /\ others[1] = docs[p[1]]
        BY <1>1, <1>2
    <2>2. docs[p[1]].tenantId = docs[1].tenantId
        BY <2>1 DEF Compatible
    <2> QED BY <1>5, <1>6, <2>1, <2>2
<1> HIDE DEF ofDocs, ofOthers
<1>10. /\ Merge(others).scopes = Merge(docs).scopes
       /\ Merge(others).approved = Merge(docs).approved
       /\ DOMAIN Merge(others).pinned = DOMAIN Merge(docs).pinned
    BY <1>4, <1>7, <1>8
<1>11. \A x \in DOMAIN Merge(docs).pinned : Merge(others).pinned[x] = Merge(docs).pinned[x]
    BY <1>4, <1>7, <1>8
<1>12. ASSUME NEW ds
       PROVE  Merge(ds).pinned = [x \in DOMAIN Merge(ds).pinned |-> Merge(ds).pinned[x]]
    <2> DEFINE roles == UNION {DOMAIN ds[i].pinned : i \in 1..Len(ds)}
               pin(x) == ds[CHOOSE i \in 1..Len(ds) : x \in DOMAIN ds[i].pinned].pinned[x]
    <2>1. Merge(ds).pinned = [x \in roles |-> pin(x)]
        BY DEF Merge
    <2> HIDE DEF roles, pin
    <2> QED BY <2>1
<1>13. Merge(others).pinned = Merge(docs).pinned
    BY <1>10, <1>11, <1>12
<1>14. ASSUME NEW ds
       PROVE  Merge(ds) = [tenantId |-> Merge(ds).tenantId, scopes |-> Merge(ds).scopes,
                           approved |-> Merge(ds).approved, pinned |-> Merge(ds).pinned]
    BY DEF Merge
<1> QED BY <1>9, <1>10, <1>13, <1>14

LEMMA JudgedInAnyOrder ==
    ASSUME NEW docs \in Libraries, NEW p \in Bijection(1..Len(docs), 1..Len(docs))
    PROVE  Judge(Reordered(docs, p), saved) = Judge(docs, saved)
<1> DEFINE others == Reordered(docs, p)
<1>1. Rearranges(p, docs, others) /\ Range(others) = Range(docs)
    BY ReorderedIsRearranged, ReorderedFacts
<1> HIDE DEF others
<1>2. Mergeable(others) <=> Mergeable(docs)
    BY <1>1, CompatibleInAnyOrder DEF Mergeable
<1>3. Mergeable(docs) => Merge(others) = Merge(docs)
    BY <1>1, CompatibleInAnyOrder, MergedInAnyOrder DEF Mergeable
<1>4. Judge(others, saved) = Judge(docs, saved)
    BY <1>2, <1>3 DEF Judge
<1> QED BY <1>4 DEF others

LEMMA AnswerIgnoresFileNamesInv == OfflineInv => AnswerIgnoresFileNames
<1> SUFFICES ASSUME OfflineInv, Answered,
                    NEW p \in Bijection(1..Len(answer.documents), 1..Len(answer.documents))
             PROVE  Judge(Reordered(answer.documents, p), saved) = answer.report
    BY DEF AnswerIgnoresFileNames, Reordered
<1>1. answer.documents \in Libraries /\ answer.report = Judge(answer.documents, saved)
    BY DEF OfflineInv, TypeOK, AnswerInv, Answered
<1> QED BY <1>1, JudgedInAnyOrder

\* Whoever keeps an approval, and whatever the files are called, the answer is
\* the same: for any number of files.
THEOREM FileNamesAreIgnored == Spec => []AnswerIgnoresFileNames
<1> QED BY AnswerIgnoresFileNamesInv, OfflineInvariant, PTL

----------------------------------------------------------------------------
(***************************************************************************)
(* A tenant that was left alone.                                           *)
(***************************************************************************)

\* Where the history has one state of each assignment and role, what was
\* observed is that state.
LEMMA QuietFacts ==
    ASSUME OfflineInv, saved # Nothing,
           \A i \in DOMAIN saved.past : Cardinality(saved.past[i]) = 1,
           \A x \in DOMAIN saved.pastRoles : Cardinality(saved.pastRoles[x]) = 1
    PROVE  /\ \A i \in Ids : saved.past[i] = {CHOOSE r \in saved.past[i] : TRUE}
           /\ \A o, p \in ById(saved) : o.id = p.id => o = p
           /\ \A o \in ById(saved) : o.record = CHOOSE r \in saved.past[o.id] : TRUE
           /\ \A x \in DOMAIN saved.roles : saved.pastRoles[x] = {saved.roles[x]}
<1>1. /\ DOMAIN saved.past = Ids /\ DOMAIN saved.pastRoles = Roles
      /\ \A i \in Ids : IsFiniteSet(saved.past[i])
      /\ \A x \in Roles : IsFiniteSet(saved.pastRoles[x])
    BY DEF OfflineInv, SavedInv, IsHistory
<1>2. /\ \A o \in ById(saved) : o \in Observed /\ o.id \in Ids /\ o.record \in saved.past[o.id]
      /\ \A x \in DOMAIN saved.roles : x \in Roles /\ saved.roles[x] \in saved.pastRoles[x]
    BY SavedFacts
<1>3. ASSUME NEW i \in Ids PROVE saved.past[i] = {CHOOSE r \in saved.past[i] : TRUE}
    <2>1. PICK r : saved.past[i] = {r}
        BY <1>1, FS_Singleton
    <2>2. (CHOOSE q \in saved.past[i] : TRUE) \in saved.past[i]
        BY <2>1
    <2> QED BY <2>1, <2>2
<1>4. ASSUME NEW x \in DOMAIN saved.roles PROVE saved.pastRoles[x] = {saved.roles[x]}
    <2>1. PICK d : saved.pastRoles[x] = {d}
        BY <1>1, <1>2, FS_Singleton
    <2> QED BY <1>2, <2>1
<1>5. \A o \in ById(saved) : o.record = CHOOSE r \in saved.past[o.id] : TRUE
    BY <1>2, <1>3
<1>6. ASSUME NEW o \in ById(saved), NEW p \in ById(saved), o.id = p.id PROVE o = p
    <2>1. o.record = p.record
        BY <1>5, <1>6
    <2>2. /\ o = [id |-> o.id, record |-> o.record]
          /\ p = [id |-> p.id, record |-> p.record]
        BY <1>2 DEF Observed
    <2> QED BY <1>6, <2>1, <2>2
<1> QED BY <1>3, <1>4, <1>5, <1>6

\* Files that agree with an observation on tenant, scopes and roles, and not
\* with each other on a key or a role, can be merged, and are judged.
LEMMA QuietIsJudged ==
    ASSUME OfflineInv, saved # Nothing, NEW docs \in Libraries,
           \A doc \in Range(docs) : Valid(doc) /\ doc.tenantId = saved.tenantId,
           \A i, j \in 1..Len(docs) : i # j =>
                /\ KeysOf(docs[i].approved) \cap KeysOf(docs[j].approved) = {}
                /\ DOMAIN docs[i].pinned \cap DOMAIN docs[j].pinned = {},
           UNION {doc.scopes : doc \in Range(docs)} = DOMAIN saved.results,
           UNION {DOMAIN doc.pinned : doc \in Range(docs)} = DOMAIN saved.roles,
           saved.collectedAt - Ahead <= now, now - saved.collectedAt <= MaxAge,
           \A o, p \in ById(saved) : o.id = p.id => o = p
    PROVE  /\ Mergeable(docs)
           /\ Judge(docs, saved) = Verdict(Merge(docs), ById(saved), saved.roles)
<1>1. /\ Len(docs) \in Nat \ {0} /\ \A i \in 1..Len(docs) : docs[i] \in Range(docs)
    BY FilesFacts
<1>2. OnceEach(DOMAIN saved.results)
    BY DEF OfflineInv, SavedInv
<1>3. ASSUME NEW i \in 1..Len(docs), NEW j \in 1..Len(docs),
             NEW d \in docs[i].scopes, NEW e \in docs[j].scopes, d.id = e.id
      PROVE  d = e
    <2>1. d \in DOMAIN saved.results /\ e \in DOMAIN saved.results
        BY <1>1
    <2> QED BY <1>2, <1>3, <2>1 DEF OnceEach
<1>4. Compatible(docs)
    BY <1>1, <1>3 DEF Compatible
<1>5. Mergeable(docs)
    BY <1>4 DEF Mergeable
<1>6. /\ Merge(docs).tenantId = saved.tenantId
      /\ Merge(docs).scopes = DOMAIN saved.results
      /\ DOMAIN Merge(docs).pinned = DOMAIN saved.roles
    <2>1. Merge(docs).tenantId = docs[1].tenantId /\ docs[1] \in Range(docs)
        BY <1>1, <1>4, MergeKeeps
    <2>2. /\ Merge(docs).scopes = UNION {doc.scopes : doc \in Range(docs)}
          /\ DOMAIN Merge(docs).pinned = UNION {DOMAIN doc.pinned : doc \in Range(docs)}
        BY <1>5, MergeOfFiles
    <2> QED BY <2>1, <2>2
<1>7. Fresh(saved)
    <2>1. PICK k \in Skews : saved.collectedAt = saved.ended + k
        BY DEF OfflineInv, SavedInv
    <2>2. k \in Int /\ Ahead \in Nat /\ MaxAge \in Nat /\ now \in Nat /\ saved.ended \in Nat
        BY OfflineAssumption DEF OfflineInv, TypeOK
    <2> QED BY <2>1, <2>2 DEF Fresh
<1>8. ~ Conflicting(ById(saved))
    BY DEF Conflicting
<1> QED BY <1>5, <1>6, <1>7, <1>8 DEF Judge, CoversExactly

LEMMA QuietTenantJudgedInv == OfflineInv => QuietTenantJudged
<1> DEFINE docs == answer.documents
           there == {i \in Ids : InCoverage(i) /\ saved.past[i] # {Nothing}}
           was(i) == CHOOSE r \in saved.past[i] : TRUE
           alike == /\ {was(i) : i \in there} = Approved
                    /\ \A i, j \in there : was(i).key = was(j).key => i = j
                    /\ \A doc \in Range(docs) : \A x \in DOMAIN doc.pinned :
                            saved.pastRoles[x] = {doc.pinned[x]}
<1> SUFFICES ASSUME OfflineInv, Answered, saved # Nothing,
                    \A doc \in Range(docs) : Valid(doc) /\ doc.tenantId = saved.tenantId,
                    \A i, j \in 1..Len(docs) : i # j =>
                        /\ KeysOf(docs[i].approved) \cap KeysOf(docs[j].approved) = {}
                        /\ DOMAIN docs[i].pinned \cap DOMAIN docs[j].pinned = {},
                    UNION {doc.scopes : doc \in Range(docs)} = DOMAIN saved.results,
                    UNION {DOMAIN doc.pinned : doc \in Range(docs)} = DOMAIN saved.roles,
                    saved.collectedAt - Ahead <= now, now - saved.collectedAt <= MaxAge,
                    \A i \in DOMAIN saved.past : Cardinality(saved.past[i]) = 1,
                    \A x \in DOMAIN saved.pastRoles : Cardinality(saved.pastRoles[x]) = 1
             PROVE  answer.report.status = IF alike THEN "in-sync" ELSE "drift"
    BY DEF QuietTenantJudged
<1>1. docs \in Libraries /\ answer.report = Judge(docs, saved)
    BY DEF OfflineInv, TypeOK, AnswerInv, Answered
<1> HIDE DEF docs, there, was
<1>2. /\ \A i \in Ids : saved.past[i] = {was(i)}
      /\ \A o, p \in ById(saved) : o.id = p.id => o = p
      /\ \A o \in ById(saved) : o.record = was(o.id)
      /\ \A x \in DOMAIN saved.roles : saved.pastRoles[x] = {saved.roles[x]}
    BY QuietFacts DEF was
<1>3. Mergeable(docs) /\ Judge(docs, saved) = Verdict(Merge(docs), ById(saved), saved.roles)
    BY <1>1, <1>2, QuietIsJudged
<1>4. /\ Merge(docs).approved = Approved
      /\ DOMAIN Merge(docs).pinned = UNION {DOMAIN doc.pinned : doc \in Range(docs)}
      /\ \A doc \in Range(docs) : \A x \in DOMAIN doc.pinned :
            Merge(docs).pinned[x] = doc.pinned[x]
    BY <1>1, <1>3, MergeOfFiles DEF Approved, docs
<1>5. /\ \A o \in ById(saved) :
            /\ o.id \in Ids /\ o.record \in Record
            /\ \E d \in DOMAIN saved.results : Applies(d, Origin[o.id])
      /\ \A d \in DOMAIN saved.results : \A i \in Ids :
            Applies(d, Origin[i]) /\ Nothing \notin saved.past[i] => \E o \in ById(saved) : o.id = i
    BY SavedFacts
<1>6. \A i \in Ids : InCoverage(i) <=> \E d \in DOMAIN saved.results : Applies(d, Origin[i])
    <2>1. \A doc \in Range(docs) : doc.scopes \subseteq Declaration
        BY <1>1, FilesFacts DEF Valid
    <2>2. \A i \in Ids : InCoverage(i) <=>
            \E doc \in Range(docs) : \E d \in doc.scopes : Applies(d, Origin[i])
        BY <2>1, CoverageIsReturned DEF docs
    <2> QED BY <2>2
<1>7. \A o \in ById(saved) : o.id \in there
    <2>1. Nothing \notin Record
        BY OfflineAssumption
    <2>2. ASSUME NEW o \in ById(saved) PROVE o.id \in there
        <3>1. o.id \in Ids /\ InCoverage(o.id)
            BY <1>5, <1>6
        <3>2. saved.past[o.id] = {o.record} /\ o.record # Nothing
            BY <1>2, <1>5, <2>1
        <3>3. saved.past[o.id] # {Nothing}
            BY <3>2
        <3> QED BY <3>1, <3>3 DEF there
    <2> QED BY <2>2
<1>8. \A i \in there : \E o \in ById(saved) : o.id = i /\ o.record = was(i)
    BY <1>2, <1>5, <1>6 DEF there
<1>9. \A r, s \in Approved : r.key = s.key => r = s
    BY <1>1, <1>3, <1>4, MergedIsUnambiguous
<1>10. Findings(Merge(docs), ById(saved), saved.roles) = NoFindings <=>
        /\ \A r \in Approved : \E o \in ById(saved) : o.record = r
        /\ \A o \in ById(saved) : o.record \in Approved
        /\ \A o, p \in ById(saved) : o.record.key = p.record.key => o.id = p.id
        /\ \A x \in DOMAIN Merge(docs).pinned : saved.roles[x] = Merge(docs).pinned[x]
    BY <1>4, <1>9, NoFindingsIsAgreement
<1>11. {was(i) : i \in there} = Approved <=>
        /\ \A r \in Approved : \E o \in ById(saved) : o.record = r
        /\ \A o \in ById(saved) : o.record \in Approved
    <2>1. {was(i) : i \in there} = {o.record : o \in ById(saved)}
        BY <1>2, <1>7, <1>8
    <2>2. {o.record : o \in ById(saved)} = Approved <=>
            /\ \A r \in Approved : r \in {o.record : o \in ById(saved)}
            /\ \A r \in {o.record : o \in ById(saved)} : r \in Approved
        OBVIOUS
    <2>3. \A r : r \in {o.record : o \in ById(saved)} <=> \E o \in ById(saved) : o.record = r
        OBVIOUS
    <2> QED BY <2>1, <2>2, <2>3
<1>12. (\A i, j \in there : was(i).key = was(j).key => i = j) <=>
        \A o, p \in ById(saved) : o.record.key = p.record.key => o.id = p.id
    BY <1>2, <1>7, <1>8
<1>13. (\A doc \in Range(docs) : \A x \in DOMAIN doc.pinned : saved.pastRoles[x] = {doc.pinned[x]})
        <=> \A x \in DOMAIN Merge(docs).pinned : saved.roles[x] = Merge(docs).pinned[x]
    <2>1. \A doc \in Range(docs) : \A x \in DOMAIN doc.pinned :
            /\ x \in DOMAIN Merge(docs).pinned
            /\ saved.pastRoles[x] = {saved.roles[x]}
            /\ Merge(docs).pinned[x] = doc.pinned[x]
        BY <1>2, <1>4
    <2>2. \A x \in DOMAIN Merge(docs).pinned : \E doc \in Range(docs) : x \in DOMAIN doc.pinned
        BY <1>4
    <2>3. \A a, b : {a} = {b} <=> a = b
        OBVIOUS
    <2>4. \A doc \in Range(docs) : \A x \in DOMAIN doc.pinned :
            saved.pastRoles[x] = {doc.pinned[x]} <=> saved.roles[x] = Merge(docs).pinned[x]
        BY <2>1, <2>3
    <2> QED BY <2>1, <2>2, <2>4
<1>14. Findings(Merge(docs), ById(saved), saved.roles) = NoFindings <=> alike
    BY <1>10, <1>11, <1>12, <1>13
<1> HIDE DEF alike
<1> QED BY <1>1, <1>3, <1>14, StatusOf

\* A tenant that nobody changes while it is observed is never refused, and is
\* in sync if and only if it is what the files say, however their scopes
\* overlap.
THEOREM QuietTenantIsJudged == Spec => []QuietTenantJudged
<1> QED BY QuietTenantJudgedInv, OfflineInvariant, PTL
=============================================================================
