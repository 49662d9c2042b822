--------------------------- MODULE RbacScanProofs ---------------------------
(* Theorems about RbacScan for any tenant, target, collections, report      *)
(* directories and number of changes: what a verdict says of the time of    *)
(* its run, and of the evidence beside it.                                  *)
EXTENDS RbacScan, SequenceTheorems, TLAPS

RoleMap == UNION {[X -> Permissions] : X \in SUBSET Roles}

Cursor == [query : Nat, page : Nat, seen : SUBSET Nat, attempt : Nat]

TypeInv == TypeOK /\ cursor \in Cursor

\* Before the reads there is nothing read, and before the comparison no report.
PhaseInv ==
    /\ phase \in {"idle", "session"} => observed = {} /\ DOMAIN roles = {}
    /\ report = NoFile <=> phase \in {"idle", "session", "assignments", "roles"}

\* What was read was so when it was read, and since then nothing has been
\* forgotten.
TimeInv ==
    /\ ~ Idle =>
        /\ \A i \in Ids : live[i] \in past[i]
        /\ \A x \in Roles : allowed[x] \in pastRoles[x]
    /\ \A o \in observed : o.record \in past[o.id]
    /\ \A x \in DOMAIN roles : roles[x] \in pastRoles[x]

\* The pages of the collections that the scan still has to read.
ToRead(q, p) ==
    \/ phase = "session"
    \/ phase = "assignments" /\ q > cursor.query
    \/ phase = "assignments" /\ q = cursor.query /\ p \notin cursor.seen

Met(i) == NoRecord \in past[i] \/ \E o \in observed : o.id = i

\* A page not read before comes after exactly those that were, and an id is
\* met, was not held all the time, or is on a page yet to be read.
CoverInv ==
    /\ phase = "assignments" /\ cursor.page \notin cursor.seen =>
            cursor.seen = 1..(cursor.page - 1)
    /\ phase \in {"session", "assignments", "roles"} =>
            \A q \in 1..Len(Queries) : \A p \in 1..Len(Queries[q]) : \A i \in Queries[q][p] :
                Met(i) \/ ToRead(q, p)

\* What there is in the directory of the run at each step of it.
OwnFilesInv ==
    ~ Idle =>
        /\ files[dir].made /\ exits[dir] \notin {0, 1} /\ files[dir].summary = NoFile
        /\ phase \notin {"report", "summary"} => files[dir].observed = NoFile
        /\ phase # "summary" => files[dir].report = NoFile
        /\ phase = "summary" => files[dir].report = report
        /\ report # NoFile /\ report.status # "error" =>
            /\ report = Verdict(target, observed, roles)
            /\ phase # "observed" =>
                    files[dir].observed = [assignments |-> observed, roles |-> roles]

\* A directory that no run has made is empty, and no run concluded in it.
FreshInv ==
    \A d \in Dirs : ~ files[d].made =>
        /\ files[d].observed = NoFile /\ files[d].report = NoFile /\ files[d].summary = NoFile
        /\ exits[d] \notin {0, 1}

EvidenceInv ==
    /\ OwnFilesInv /\ FreshInv
    /\ EvidenceReproducesVerdict /\ ExitAgreesWithEvidence

SoundInv == GreenIsTrue /\ DriftIsTrue

ScanInv == TypeInv /\ PhaseInv /\ TimeInv /\ CoverInv /\ SoundInv

LEMMA InitTypeInv == Init => TypeInv
<1> SUFFICES ASSUME Init PROVE TypeInv
    OBVIOUS
<1>1. FirstRead \in Cursor
    BY DEF FirstRead, Cursor
<1>2. Len(Queries) \in Nat \ {0} /\ Queries[1] \in Seq(SUBSET Ids) /\ Len(Queries[1]) \in Nat \ {0}
    <2>1. Queries \in Seq(Seq(SUBSET Ids)) /\ Len(Queries) \in Nat \ {0}
        BY ScanAssumption, EmptySeq
    <2>2. 1 \in 1..Len(Queries) /\ Queries[1] \in Seq(SUBSET Ids) /\ Queries[1] # <<>>
        BY <2>1, ElementOfSeq, ScanAssumption
    <2> QED BY <2>1, <2>2, EmptySeq
<1>3. [assignments |-> {}, roles |-> <<>>] \in Evidence
    <2>1. <<>> \in [{} -> Permissions]
        OBVIOUS
    <2>2. {} \in SUBSET Roles
        OBVIOUS
    <2>3. <<>> \in UNION {[X -> Permissions] : X \in SUBSET Roles}
        BY <2>1, <2>2
    <2> QED BY <2>3 DEF Evidence
<1>4. DOMAIN <<>> \subseteq DOMAIN target.pinned
    OBVIOUS
<1>5. Unwritten \in Directory
    BY DEF Unwritten, Directory
<1>6. /\ cursor.query \in 1..Len(Queries)
      /\ cursor.page \in 1..Len(Queries[cursor.query])
      /\ cursor.seen \subseteq 1..Len(Queries[cursor.query])
      /\ cursor.attempt \in 1..Attempts
    BY <1>2, ScanAssumption DEF Init, FirstRead
<1> QED BY <1>1, <1>3, <1>4, <1>5, <1>6, ScanAssumption DEF Init, TypeInv, TypeOK

LEMMA QueryFacts ==
    /\ Len(Queries) \in Nat \ {0}
    /\ \A q \in 1..Len(Queries) : Len(Queries[q]) \in Nat \ {0}
    /\ \A q \in 1..Len(Queries) : \A p \in 1..Len(Queries[q]) : Queries[q][p] \subseteq Ids
<1>1. Queries \in Seq(Seq(SUBSET Ids)) /\ Len(Queries) \in Nat \ {0}
    BY ScanAssumption, EmptySeq
<1>2. \A q \in 1..Len(Queries) : Queries[q] \in Seq(SUBSET Ids) /\ Queries[q] # <<>>
    BY <1>1, ElementOfSeq, ScanAssumption
<1>3. ASSUME NEW q \in 1..Len(Queries)
      PROVE  /\ Len(Queries[q]) \in Nat \ {0}
             /\ \A p \in 1..Len(Queries[q]) : Queries[q][p] \subseteq Ids
    BY <1>2, EmptySeq, ElementOfSeq
<1> QED BY <1>1, <1>3

LEMMA FirstReadFacts ==
    ASSUME NEW q \in 1..Len(Queries), NEW c, c = [FirstRead EXCEPT !.query = q]
    PROVE  /\ c \in Cursor
           /\ c.query \in 1..Len(Queries) /\ c.page \in 1..Len(Queries[c.query])
           /\ c.seen \subseteq 1..Len(Queries[c.query]) /\ c.attempt \in 1..Attempts
           /\ c.query = q /\ c.page = 1 /\ c.seen = {}
<1>1. c = [query |-> q, page |-> 1, seen |-> {}, attempt |-> 1]
    BY DEF FirstRead
<1>2. q \in Nat /\ 1 \in 1..Len(Queries[q]) /\ 1 \in 1..Attempts /\ 1 \in Nat
    BY QueryFacts, ScanAssumption
<1>3. c.query = q /\ c.page = 1 /\ c.seen = {} /\ c.attempt = 1
    BY <1>1
<1>4. c \in Cursor
    <2>1. [query |-> q, page |-> 1, seen |-> {}, attempt |-> 1] \in Cursor
        BY <1>2 DEF Cursor
    <2> QED BY <1>1, <2>1
<1>5. /\ c.query \in 1..Len(Queries) /\ c.page \in 1..Len(Queries[c.query])
      /\ c.attempt \in 1..Attempts
    BY <1>2, <1>3
<1>6. c.seen \subseteq 1..Len(Queries[c.query])
    BY <1>3
<1> QED BY <1>3, <1>4, <1>5, <1>6

LEMMA FirstReadIsFirst ==
    /\ FirstRead = [FirstRead EXCEPT !.query = 1] /\ 1 \in 1..Len(Queries)
    /\ FirstRead \in Cursor /\ FirstRead.query = 1 /\ FirstRead.page = 1
    /\ FirstRead.seen = {} /\ FirstRead.attempt = 1
BY QueryFacts DEF FirstRead, Cursor

LEMMA OnPageFacts ==
    ASSUME NEW q, NEW p
    PROVE  OnPage(q, p) \subseteq Observed
           /\ \A o \in OnPage(q, p) : o.record = live[o.id]
BY DEF OnPage

LEMMA EvidenceParts ==
    ASSUME NEW o, NEW r
    PROVE  [assignments |-> o, roles |-> r] \in Evidence <=> o \subseteq Observed /\ r \in RoleMap
<1>1. Evidence = [assignments : SUBSET Observed, roles : RoleMap]
    BY DEF Evidence, RoleMap
<1> QED BY <1>1

LEMMA NothingReadIsEvidence == {} \subseteq Observed /\ <<>> \in RoleMap /\ DOMAIN <<>> = {}
<1>1. <<>> \in [{} -> Permissions] /\ DOMAIN <<>> = {}
    OBVIOUS
<1>2. {} \in SUBSET Roles
    OBVIOUS
<1>3. <<>> \in RoleMap
    BY <1>1, <1>2 DEF RoleMap
<1> QED BY <1>1, <1>3

LEMMA VerdictType ==
    ASSUME NEW t \in Targets, NEW o \in SUBSET Observed, NEW r
    PROVE  Verdict(t, o, r) \in Comparison
<1>1. \A x \in Record : x.key \in Keys
    BY DEF Record
<1>2. t.approved \subseteq Record /\ DOMAIN t.pinned \subseteq Roles
    BY ScanAssumption
<1>3. \A x \in o : x.record \in Record
    BY DEF Observed
<1>4. /\ Missing(t, o) \subseteq Keys /\ Changed(t, o) \subseteq Keys
      /\ Unexpected(t, o) \subseteq Keys /\ Duplicated(o) \subseteq Keys
    BY <1>1, <1>2, <1>3 DEF Missing, Changed, Unexpected, Duplicated, KeysOf
<1>5. RolesChanged(t, r) \subseteq Roles
    BY <1>2 DEF RolesChanged
<1>6. Findings(t, o, r) \in [missing : SUBSET Keys, unexpected : SUBSET Keys, changed : SUBSET Keys,
                            duplicate : SUBSET Keys, roles : SUBSET Roles]
    BY <1>4, <1>5 DEF Findings
<1> QED BY <1>6 DEF Verdict, Comparison

\* The three kinds of report, told apart by their status.
LEMMA ReportFacts ==
    /\ NoFile \notin Report /\ NoFile \notin Evidence /\ NoFile \notin {0, 1, 2}
    /\ ErrorReport \in Report /\ ErrorReport.status = "error"
    /\ \A x \in Report : x = ErrorReport \/ x.status \in {"in-sync", "drift"}
    /\ \A x \in Report : x.status \in {"in-sync", "drift", "error"}
<1>1. ErrorReport.status = "error"
    BY DEF ErrorReport
<1>2. \A x \in Comparison : x.status \in {"in-sync", "drift"}
    BY DEF Comparison
<1> QED BY <1>1, <1>2, ScanAssumption DEF Report

\* The files after one of them is written to the directory of the run.
LEMMA FileWritten ==
    ASSUME TypeInv
    PROVE  /\ \A e \in Evidence : [files EXCEPT ![dir].observed = e] \in [Dirs -> Directory]
           /\ \A e \in Report : [files EXCEPT ![dir].report = e] \in [Dirs -> Directory]
           /\ \A e \in {"in-sync", "drift", "error"} : [files EXCEPT ![dir].summary = e] \in [Dirs -> Directory]
           /\ \A d \in Dirs : [files EXCEPT ![d].made = TRUE] \in [Dirs -> Directory]
BY DEF TypeInv, TypeOK, Directory

\* What is read keeps its shape; what else changes is given by the step.
LEMMA TypeStep ==
    ASSUME TypeInv,
           live' \in [Ids -> Record \cup {NoRecord}], allowed' \in [Roles -> Permissions],
           changes' \in 0..MaxChanges,
           past' \in [Ids -> SUBSET (Record \cup {NoRecord})],
           pastRoles' \in [Roles -> SUBSET Permissions],
           phase' \in {"idle", "session", "assignments", "roles", "observed", "report", "summary"},
           dir' \in Dirs, target' \in Targets,
           cursor' \in Cursor,
           cursor'.query \in 1..Len(Queries), cursor'.page \in 1..Len(Queries[cursor'.query]),
           cursor'.seen \subseteq 1..Len(Queries[cursor'.query]), cursor'.attempt \in 1..Attempts,
           observed' \subseteq Observed, roles' \in RoleMap,
           DOMAIN roles' \subseteq DOMAIN target'.pinned,
           report' \in Report \cup {NoFile}, files' \in [Dirs -> Directory],
           exits' \in [Dirs -> {NoFile, 0, 1, 2}]
    PROVE  TypeInv'
<1>1. [assignments |-> observed', roles |-> roles'] \in Evidence
    BY EvidenceParts
<1> QED BY <1>1 DEF TypeInv, TypeOK, Cursor, Evidence, Report, Comparison, Observed, Record, ErrorReport, Directory

LEMMA TypeFacts ==
    ASSUME TypeInv
    PROVE  /\ live \in [Ids -> Record \cup {NoRecord}] /\ allowed \in [Roles -> Permissions]
           /\ changes \in 0..MaxChanges
           /\ past \in [Ids -> SUBSET (Record \cup {NoRecord})]
           /\ pastRoles \in [Roles -> SUBSET Permissions]
           /\ phase \in {"idle", "session", "assignments", "roles", "observed", "report", "summary"}
           /\ dir \in Dirs /\ target \in Targets
           /\ cursor \in Cursor
           /\ cursor.query \in 1..Len(Queries) /\ cursor.page \in 1..Len(Queries[cursor.query])
           /\ cursor.seen \subseteq 1..Len(Queries[cursor.query]) /\ cursor.attempt \in 1..Attempts
           /\ observed \subseteq Observed /\ roles \in RoleMap
           /\ DOMAIN roles \subseteq DOMAIN target.pinned
           /\ report \in Report \cup {NoFile} /\ files \in [Dirs -> Directory]
           /\ exits \in [Dirs -> {NoFile, 0, 1, 2}]
<1>1. observed \subseteq Observed /\ roles \in RoleMap
    BY EvidenceParts DEF TypeInv, TypeOK
<1> QED BY <1>1 DEF TypeInv, TypeOK

LEMMA ReadRoleFacts ==
    ASSUME TypeInv, NEW x \in Roles, ReadRole(x)
    PROVE  /\ roles' \in RoleMap /\ DOMAIN roles' = DOMAIN roles \cup {x}
           /\ \A y \in DOMAIN roles : y # x => roles'[y] = roles[y]
           /\ roles'[x] = allowed[x]
<1>1. /\ roles' = [y \in DOMAIN roles \cup {x} |-> IF y = x THEN allowed[x] ELSE roles[y]]
      /\ roles \in RoleMap /\ allowed[x] \in Permissions
    BY TypeFacts DEF ReadRole
<1>2. PICK X \in SUBSET Roles : roles \in [X -> Permissions]
    BY <1>1 DEF RoleMap
<1>3. roles' \in [X \cup {x} -> Permissions] /\ X \cup {x} \in SUBSET Roles
    BY <1>1, <1>2
<1>4. roles' \in RoleMap
    BY <1>3 DEF RoleMap
<1> QED BY <1>1, <1>4

LEMMA PageRead ==
    ASSUME TypeInv
    PROVE  observed \cup OnPage(cursor.query, cursor.page) \subseteq Observed
BY TypeFacts, OnPageFacts

LEMMA NextPage ==
    ASSUME TypeInv, NEW next \in Nat,
           (next = cursor.page + 1 /\ ~ LastPage) \/ next \in cursor.seen \cup {cursor.page},
           NEW c, c = [cursor EXCEPT !.page = next, !.seen = @ \cup {cursor.page}, !.attempt = 1]
    PROVE  /\ c \in Cursor
           /\ c.query \in 1..Len(Queries) /\ c.page \in 1..Len(Queries[c.query])
           /\ c.seen \subseteq 1..Len(Queries[c.query]) /\ c.attempt \in 1..Attempts
           /\ c.query = cursor.query /\ c.page = next /\ c.seen = cursor.seen \cup {cursor.page}
<1>1. /\ cursor \in Cursor
      /\ cursor.query \in 1..Len(Queries) /\ cursor.page \in 1..Len(Queries[cursor.query])
      /\ cursor.seen \subseteq 1..Len(Queries[cursor.query])
      /\ Len(Queries[cursor.query]) \in Nat
    BY TypeFacts, QueryFacts
<1>2. /\ c.query = cursor.query /\ c.page = next /\ c.seen = cursor.seen \cup {cursor.page}
      /\ c.attempt = 1
    BY <1>1 DEF Cursor
<1>3. cursor.page \in Nat /\ cursor.seen \in SUBSET Nat
    BY <1>1 DEF Cursor
<1>4. c \in Cursor
    BY <1>1, <1>3 DEF Cursor
<1>5. next \in 1..Len(Queries[cursor.query])
    BY <1>1, <1>3 DEF LastPage
<1>6. 1 \in 1..Attempts
    BY ScanAssumption
<1> QED BY <1>1, <1>2, <1>4, <1>5, <1>6

LEMMA GoneTypeInv ==
    ASSUME TypeInv, Gone,
           files' \in [Dirs -> Directory], exits' \in [Dirs -> {NoFile, 0, 1, 2}]
    PROVE  TypeInv'
<1>1. /\ past' \in [Ids -> SUBSET (Record \cup {NoRecord})]
      /\ pastRoles' \in [Roles -> SUBSET Permissions]
    BY DEF Gone
<1> QED BY <1>1, TypeFacts, TypeStep, NothingReadIsEvidence, FirstReadIsFirst, FirstReadFacts
        DEF Gone, azure, run

LEMMA NextTypeInv == TypeInv /\ PhaseInv /\ [Next]_vars => TypeInv'
<1> SUFFICES ASSUME TypeInv, PhaseInv, [Next]_vars PROVE TypeInv'
    OBVIOUS
<1> USE DEF azure, history, reading, run
<1>1. ASSUME NEW i \in Ids, NEW r \in Record \cup {NoRecord}, Administer(i, r) PROVE TypeInv'
    <2>1. live' \in [Ids -> Record \cup {NoRecord}] /\ changes' \in 0..MaxChanges
        BY <1>1, TypeFacts, ScanAssumption DEF Administer
    <2>2. past' \in [Ids -> SUBSET (Record \cup {NoRecord})]
        BY <1>1, TypeFacts DEF Administer
    <2> QED BY <1>1, <2>1, <2>2, TypeFacts, TypeStep DEF Administer
<1>2. ASSUME NEW x \in Roles, NEW p \in Permissions, Redefine(x, p) PROVE TypeInv'
    <2>1. allowed' \in [Roles -> Permissions] /\ changes' \in 0..MaxChanges
        BY <1>2, TypeFacts, ScanAssumption DEF Redefine
    <2>2. pastRoles' \in [Roles -> SUBSET Permissions]
        BY <1>2, TypeFacts DEF Redefine
    <2> QED BY <1>2, <2>1, <2>2, TypeFacts, TypeStep DEF Redefine
<1>3. ASSUME NEW d \in Dirs, Refuse(d) PROVE TypeInv'
    <2>1. exits' \in [Dirs -> {NoFile, 0, 1, 2}]
        BY <1>3, TypeFacts DEF Refuse
    <2> QED BY <1>3, <2>1, TypeFacts, TypeStep DEF Refuse
<1>4. ASSUME NEW d \in Dirs, NEW t \in Targets, Begin(d, t) PROVE TypeInv'
    <2>1. files' \in [Dirs -> Directory]
        BY <1>4, FileWritten DEF Begin
    <2>2. /\ past' \in [Ids -> SUBSET (Record \cup {NoRecord})]
          /\ pastRoles' \in [Roles -> SUBSET Permissions]
        BY <1>4, TypeFacts DEF Begin
    <2>3. DOMAIN roles' \subseteq DOMAIN target'.pinned
        BY <1>4 DEF Begin, PhaseInv, Idle
    <2> QED BY <1>4, <2>1, <2>2, <2>3, TypeFacts, TypeStep, FirstReadIsFirst, FirstReadFacts DEF Begin
<1>5. CASE Fail
    BY <1>5, TypeFacts, TypeStep, ReportFacts, NothingReadIsEvidence DEF Fail
<1>6. CASE Retry
    <2>1. cursor' = [cursor EXCEPT !.attempt = @ + 1] /\ cursor.attempt \in Nat
          /\ cursor.attempt < Attempts /\ cursor \in Cursor
        BY <1>6, TypeFacts DEF Retry, Cursor
    <2>2. /\ cursor' \in Cursor /\ cursor'.query = cursor.query /\ cursor'.page = cursor.page
          /\ cursor'.seen = cursor.seen /\ cursor'.attempt = cursor.attempt + 1
        BY <2>1 DEF Cursor
    <2>3. cursor'.attempt \in 1..Attempts
        BY <2>1, <2>2, ScanAssumption
    <2> QED BY <1>6, <2>2, <2>3, TypeFacts, TypeStep DEF Retry
<1>7. CASE CheckSession
    BY <1>7, TypeFacts, TypeStep, FirstReadIsFirst, FirstReadFacts DEF CheckSession
<1>8. ASSUME NEW next \in Nat, ReadPage(next) PROVE TypeInv'
    BY <1>8, TypeFacts, TypeStep, PageRead, NextPage DEF ReadPage
<1>9. CASE ReadLastPage
    <2>1. CASE cursor.query < Len(Queries)
        <3>1. cursor.query + 1 \in 1..Len(Queries)
            BY <2>1, TypeFacts, QueryFacts
        <3>2. cursor' = [FirstRead EXCEPT !.query = cursor.query + 1] /\ phase' = "assignments"
            BY <1>9, <2>1 DEF ReadLastPage
        <3> QED BY <1>9, <3>1, <3>2, TypeFacts, TypeStep, PageRead, FirstReadFacts DEF ReadLastPage
    <2>2. CASE ~ (cursor.query < Len(Queries))
        BY <1>9, <2>2, TypeFacts, TypeStep, PageRead, FirstReadIsFirst, FirstReadFacts DEF ReadLastPage
    <2> QED BY <2>1, <2>2
<1>10. ASSUME NEW x \in Roles, ReadRole(x) PROVE TypeInv'
    BY <1>10, TypeFacts, TypeStep, ReadRoleFacts, FirstReadIsFirst, FirstReadFacts DEF ReadRole
<1>11. CASE Compare
    <2>1. report' \in Report
        BY <1>11, TypeFacts, VerdictType DEF Compare, Report
    <2> QED BY <1>11, <2>1, TypeFacts, TypeStep DEF Compare
<1>12. CASE WriteObserved
    <2>1. files' \in [Dirs -> Directory]
        BY <1>12, FileWritten DEF WriteObserved, TypeInv, TypeOK
    <2> QED BY <1>12, <2>1, TypeFacts, TypeStep DEF WriteObserved
<1>13. CASE LoseObserved
    BY <1>13, TypeFacts, TypeStep, ReportFacts DEF LoseObserved
<1>14. CASE WriteReport
    <2>1. files' \in [Dirs -> Directory]
        BY <1>14, FileWritten, TypeFacts DEF WriteReport, PhaseInv
    <2> QED BY <1>14, <2>1, TypeFacts, TypeStep DEF WriteReport
<1>15. CASE WriteSummary
    <2>1. report.status \in {"in-sync", "drift", "error"}
        BY <1>15, TypeFacts, ReportFacts DEF WriteSummary, PhaseInv
    <2>2. files' \in [Dirs -> Directory]
        BY <1>15, <2>1, FileWritten DEF WriteSummary
    <2>3. exits' \in [Dirs -> {NoFile, 0, 1, 2}]
        BY <1>15, <2>1, TypeFacts DEF WriteSummary
    <2> QED BY <1>15, <2>2, <2>3, GoneTypeInv DEF WriteSummary
<1>16. CASE LoseReport
    <2>1. exits' \in [Dirs -> {NoFile, 0, 1, 2}] /\ files' \in [Dirs -> Directory]
        BY <1>16, TypeFacts DEF LoseReport
    <2> QED BY <1>16, <2>1, GoneTypeInv DEF LoseReport
<1>17. CASE Kill
    BY <1>17, TypeFacts, GoneTypeInv DEF Kill
<1>18. CASE UNCHANGED vars
    BY <1>18, TypeFacts, TypeStep DEF vars
<1>19. \A n \in UNION {1..Len(Queries[q]) : q \in 1..Len(Queries)} : n \in Nat
    BY QueryFacts
<1> QED BY <1>1, <1>2, <1>3, <1>4, <1>5, <1>6, <1>7, <1>8, <1>9, <1>10, <1>11, <1>12, <1>13,
           <1>14, <1>15, <1>16, <1>17, <1>18, <1>19
        DEF Next, Administrators, Scheduler, Scanner

LEMMA NextPhaseInv == TypeInv /\ PhaseInv /\ [Next]_vars => PhaseInv'
<1> SUFFICES ASSUME TypeInv, PhaseInv, [Next]_vars PROVE PhaseInv'
    OBVIOUS
<1> USE DEF azure, history, reading, run, PhaseInv, Idle
<1>1. ASSUME NEW i \in Ids, NEW r \in Record \cup {NoRecord}, Administer(i, r) PROVE PhaseInv'
    BY <1>1 DEF Administer
<1>2. ASSUME NEW x \in Roles, NEW p \in Permissions, Redefine(x, p) PROVE PhaseInv'
    BY <1>2 DEF Redefine
<1>3. ASSUME NEW d \in Dirs, Refuse(d) PROVE PhaseInv'
    BY <1>3 DEF Refuse
<1>4. ASSUME NEW d \in Dirs, NEW t \in Targets, Begin(d, t) PROVE PhaseInv'
    BY <1>4 DEF Begin
<1>5. CASE Fail
    BY <1>5, ReportFacts DEF Fail
<1>6. CASE Retry
    BY <1>6 DEF Retry
<1>7. CASE CheckSession
    BY <1>7 DEF CheckSession
<1>8. ASSUME NEW next, ReadPage(next) PROVE PhaseInv'
    BY <1>8 DEF ReadPage
<1>9. CASE ReadLastPage
    BY <1>9 DEF ReadLastPage
<1>10. ASSUME NEW x \in Roles, ReadRole(x) PROVE PhaseInv'
    BY <1>10 DEF ReadRole
<1>11. CASE Compare
    BY <1>11, TypeFacts, VerdictType, ReportFacts DEF Compare, Report
<1>12. CASE WriteObserved
    BY <1>12 DEF WriteObserved
<1>13. CASE LoseObserved
    BY <1>13, ReportFacts DEF LoseObserved
<1>14. CASE WriteReport
    BY <1>14 DEF WriteReport
<1>15. CASE WriteSummary \/ LoseReport \/ Kill
    BY <1>15, NothingReadIsEvidence DEF WriteSummary, LoseReport, Kill, Gone
<1>16. CASE UNCHANGED vars
    BY <1>16 DEF vars
<1> QED BY <1>1, <1>2, <1>3, <1>4, <1>5, <1>6, <1>7, <1>8, <1>9, <1>10, <1>11, <1>12, <1>13,
           <1>14, <1>15, <1>16
        DEF Next, Administrators, Scheduler, Scanner

LEMMA InitEvidenceInv == Init => EvidenceInv
BY ReportFacts DEF Init, Unwritten, EvidenceInv, OwnFilesInv, FreshInv, Idle,
                   EvidenceReproducesVerdict, ExitAgreesWithEvidence

\* A step that writes nothing and leaves what the report follows from.
LEMMA QuietStep ==
    ASSUME EvidenceInv, files' = files, exits' = exits,
           dir' = dir, target' = target, observed' = observed, roles' = roles, report' = report,
           phase' = phase \/ {phase, phase'} \subseteq {"session", "assignments", "roles"}
    PROVE  EvidenceInv'
<1>1. OwnFilesInv'
    BY DEF EvidenceInv, OwnFilesInv, Idle, Verdict, Findings, Missing, Unexpected, Changed,
           Duplicated, RolesChanged, Held, KeysOf
<1> QED BY <1>1 DEF EvidenceInv, FreshInv, EvidenceReproducesVerdict, ExitAgreesWithEvidence

\* A directory that is not the one of the run is left as it is.
LEMMA VerdictHasTarget ==
    ASSUME NEW t, NEW o, NEW r
    PROVE  Verdict(t, o, r).target = t
           /\ (Verdict(t, o, r).status = "in-sync" <=> Findings(t, o, r) = NoFindings)
           /\ (Verdict(t, o, r).status = "drift" <=> Findings(t, o, r) # NoFindings)
           /\ Verdict(t, o, r).findings = Findings(t, o, r)
BY DEF Verdict

\* The process ends and leaves the directories to the next one.
LEMMA GoneEvidenceInv ==
    ASSUME Gone, FreshInv', EvidenceReproducesVerdict', ExitAgreesWithEvidence'
    PROVE  EvidenceInv'
BY DEF Gone, EvidenceInv, OwnFilesInv, Idle

LEMMA NextEvidenceInv == TypeInv /\ PhaseInv /\ EvidenceInv /\ [Next]_vars => EvidenceInv'
<1> SUFFICES ASSUME TypeInv, PhaseInv, EvidenceInv, [Next]_vars PROVE EvidenceInv'
    OBVIOUS
<1> USE DEF azure, history, reading, run
<1>a. /\ OwnFilesInv /\ FreshInv /\ EvidenceReproducesVerdict /\ ExitAgreesWithEvidence
      /\ dir \in Dirs /\ files \in [Dirs -> Directory] /\ exits \in [Dirs -> {NoFile, 0, 1, 2}]
      /\ report \in Report \cup {NoFile}
      /\ phase \in {"idle", "session", "assignments", "roles", "observed", "report", "summary"}
    BY TypeFacts DEF EvidenceInv
<1>1. ASSUME NEW i \in Ids, NEW r \in Record \cup {NoRecord}, Administer(i, r) PROVE EvidenceInv'
    BY <1>1, QuietStep DEF Administer
<1>2. ASSUME NEW x \in Roles, NEW p \in Permissions, Redefine(x, p) PROVE EvidenceInv'
    BY <1>2, QuietStep DEF Redefine
<1>3. ASSUME NEW d \in Dirs, Refuse(d) PROVE EvidenceInv'
    <2>1. /\ files' = files /\ exits' = [exits EXCEPT ![d] = 2] /\ phase = "idle" /\ phase' = "idle"
        BY <1>3 DEF Refuse, Idle
    <2>2. OwnFilesInv'
        BY <2>1 DEF OwnFilesInv, Idle
    <2>3. FreshInv' /\ ExitAgreesWithEvidence'
        BY <1>a, <2>1 DEF FreshInv, ExitAgreesWithEvidence
    <2>4. EvidenceReproducesVerdict'
        BY <1>a, <2>1 DEF EvidenceReproducesVerdict
    <2> QED BY <2>2, <2>3, <2>4 DEF EvidenceInv
<1>4. ASSUME NEW d \in Dirs, NEW t \in Targets, Begin(d, t) PROVE EvidenceInv'
    <2>1. /\ ~ files[d].made /\ files' = [files EXCEPT ![d].made = TRUE] /\ exits' = exits
          /\ dir' = d /\ phase' = "session" /\ report' = NoFile
        BY <1>4 DEF Begin, Idle, PhaseInv
    <2>2. \A e \in Dirs : /\ files'[e].observed = files[e].observed
                          /\ files'[e].report = files[e].report
                          /\ files'[e].summary = files[e].summary
                          /\ files'[e].made = (files[e].made \/ e = d)
        BY <1>a, <2>1 DEF Directory
    <2>3. OwnFilesInv'
        BY <1>a, <2>1, <2>2 DEF OwnFilesInv, FreshInv
    <2>4. FreshInv' /\ ExitAgreesWithEvidence'
        BY <1>a, <2>1, <2>2 DEF FreshInv, ExitAgreesWithEvidence
    <2>5. EvidenceReproducesVerdict'
        BY <1>a, <2>2 DEF EvidenceReproducesVerdict
    <2> QED BY <2>3, <2>4, <2>5 DEF EvidenceInv
<1>5. CASE Fail
    <2>1. /\ phase \in {"session", "assignments", "roles"} /\ phase' = "report" /\ report' = ErrorReport
          /\ files' = files /\ exits' = exits /\ dir' = dir
        BY <1>5 DEF Fail, Collecting
    <2>2. OwnFilesInv'
        BY <1>a, <2>1, ReportFacts DEF OwnFilesInv, Idle
    <2> QED BY <1>a, <2>1, <2>2
            DEF EvidenceInv, FreshInv, EvidenceReproducesVerdict, ExitAgreesWithEvidence
<1>6. CASE Retry
    BY <1>6, QuietStep DEF Retry
<1>7. CASE CheckSession
    BY <1>7, QuietStep DEF CheckSession
<1>b. ASSUME phase \in {"assignments", "roles"}, phase' \in {"assignments", "roles"},
             files' = files, exits' = exits, dir' = dir, report' = report
      PROVE  EvidenceInv'
    <2>1. OwnFilesInv'
        BY <1>a, <1>b DEF OwnFilesInv, Idle, PhaseInv
    <2> QED BY <1>a, <1>b, <2>1
            DEF EvidenceInv, FreshInv, EvidenceReproducesVerdict, ExitAgreesWithEvidence
<1>8. ASSUME NEW next, ReadPage(next) PROVE EvidenceInv'
    BY <1>8, <1>b DEF ReadPage
<1>9. CASE ReadLastPage
    BY <1>9, <1>b DEF ReadLastPage
<1>10. ASSUME NEW x \in Roles, ReadRole(x) PROVE EvidenceInv'
    BY <1>10, <1>b DEF ReadRole
<1>11. CASE Compare
    <2>1. /\ phase = "roles" /\ phase' = "observed" /\ report' = Verdict(target', observed', roles')
          /\ files' = files /\ exits' = exits /\ dir' = dir
        BY <1>11 DEF Compare, Verdict, Findings, Missing, Unexpected, Changed, Duplicated,
                     RolesChanged, Held, KeysOf
    <2>2. OwnFilesInv'
        BY <1>a, <2>1 DEF OwnFilesInv, Idle, Verdict, Findings, Missing, Unexpected, Changed,
                          Duplicated, RolesChanged, Held, KeysOf
    <2> QED BY <1>a, <2>1, <2>2
            DEF EvidenceInv, FreshInv, EvidenceReproducesVerdict, ExitAgreesWithEvidence
<1>c. ASSUME NEW e \in Evidence, files' = [files EXCEPT ![dir].observed = e],
             exits' = exits, dir' = dir, target' = target, observed' = observed, roles' = roles,
             report' = report, phase = "observed", phase' = "report",
             e = [assignments |-> observed, roles |-> roles]
      PROVE  EvidenceInv'
    <2>1. \A d \in Dirs : /\ files'[d].observed = (IF d = dir THEN e ELSE files[d].observed)
                          /\ files'[d].report = files[d].report
                          /\ files'[d].summary = files[d].summary
                          /\ files'[d].made = files[d].made
        BY <1>a, <1>c DEF Directory
    <2>2. files[dir].made /\ exits[dir] \notin {0, 1} /\ files[dir].summary = NoFile
          /\ files[dir].report = NoFile
          /\ (report # NoFile /\ report.status # "error" => report = Verdict(target, observed, roles))
        BY <1>a, <1>c DEF OwnFilesInv, Idle
    <2>3. OwnFilesInv'
        BY <1>a, <1>c, <2>1, <2>2 DEF OwnFilesInv, Idle, Verdict, Findings, Missing, Unexpected,
                                      Changed, Duplicated, RolesChanged, Held, KeysOf
    <2>4. FreshInv' /\ ExitAgreesWithEvidence'
        BY <1>a, <1>c, <2>1, <2>2 DEF FreshInv, ExitAgreesWithEvidence
    <2>5. EvidenceReproducesVerdict'
        BY <1>a, <2>1, <2>2 DEF EvidenceReproducesVerdict
    <2> QED BY <2>3, <2>4, <2>5 DEF EvidenceInv
<1>12. CASE WriteObserved
    <2>1. [assignments |-> observed, roles |-> roles] \in Evidence
        BY DEF TypeInv, TypeOK
    <2> QED BY <1>12, <1>c, <2>1 DEF WriteObserved
<1>13. CASE LoseObserved
    <2>1. /\ phase = "observed" /\ phase' = "report" /\ report' = ErrorReport
          /\ files' = files /\ exits' = exits /\ dir' = dir
        BY <1>13 DEF LoseObserved
    <2>2. OwnFilesInv'
        BY <1>a, <2>1, ReportFacts DEF OwnFilesInv, Idle
    <2> QED BY <1>a, <2>1, <2>2
            DEF EvidenceInv, FreshInv, EvidenceReproducesVerdict, ExitAgreesWithEvidence
<1>14. CASE WriteReport
    <2>1. /\ files' = [files EXCEPT ![dir].report = report] /\ phase = "report" /\ phase' = "summary"
          /\ exits' = exits /\ dir' = dir /\ report' = report /\ target' = target
          /\ observed' = observed /\ roles' = roles
        BY <1>14 DEF WriteReport
    <2>2. \A d \in Dirs : /\ files'[d].report = (IF d = dir THEN report ELSE files[d].report)
                          /\ files'[d].observed = files[d].observed
                          /\ files'[d].summary = files[d].summary
                          /\ files'[d].made = files[d].made
        BY <1>a, <2>1 DEF Directory
    <2>3. /\ files[dir].made /\ exits[dir] \notin {0, 1} /\ files[dir].summary = NoFile
          /\ (report # NoFile /\ report.status # "error" =>
                report = Verdict(target, observed, roles)
                /\ files[dir].observed = [assignments |-> observed, roles |-> roles])
        BY <1>a, <2>1 DEF OwnFilesInv, Idle
    <2>4. OwnFilesInv'
        BY <1>a, <2>1, <2>2, <2>3 DEF OwnFilesInv, Idle, Verdict, Findings, Missing, Unexpected,
                                      Changed, Duplicated, RolesChanged, Held, KeysOf
    <2>5. FreshInv' /\ ExitAgreesWithEvidence'
        BY <1>a, <2>1, <2>2, <2>3 DEF FreshInv, ExitAgreesWithEvidence
    <2>6. ASSUME NEW d \in Dirs, files'[d].report # NoFile, files'[d].report.status # "error"
          PROVE  /\ files'[d].observed # NoFile
                 /\ files'[d].report = Verdict(files'[d].report.target,
                            files'[d].observed.assignments, files'[d].observed.roles)
        <3>1. CASE d = dir
            <4>1. /\ files'[d].report = Verdict(target, observed, roles)
                  /\ files'[d].observed = [assignments |-> observed, roles |-> roles]
                BY <2>2, <2>3, <2>6, <3>1
            <4>2. files'[d].observed \in Evidence
                BY <4>1 DEF TypeInv, TypeOK
            <4>3. /\ files'[d].observed.assignments = observed /\ files'[d].observed.roles = roles
                  /\ files'[d].report.target = target
                BY <4>1, VerdictHasTarget
            <4> QED BY <4>1, <4>2, <4>3, ReportFacts
        <3>2. CASE d # dir
            BY <1>a, <2>2, <2>6, <3>2 DEF EvidenceReproducesVerdict
        <3> QED BY <3>1, <3>2
    <2>7. EvidenceReproducesVerdict'
        BY <2>6 DEF EvidenceReproducesVerdict, Verdict, Findings, Missing, Unexpected,
                    Changed, Duplicated, RolesChanged, Held, KeysOf
    <2> QED BY <2>4, <2>5, <2>7 DEF EvidenceInv
<1>15. CASE WriteSummary
    <2>1. /\ files' = [files EXCEPT ![dir].summary = report.status] /\ phase = "summary"
          /\ exits' = [exits EXCEPT ![dir] =
                            CASE report.status = "in-sync" -> 0
                              [] report.status = "drift" -> 1
                              [] report.status = "error" -> 2]
          /\ report # NoFile /\ report \in Report
        BY <1>15, <1>a DEF WriteSummary, PhaseInv
    <2>2. \A d \in Dirs : /\ files'[d].summary = (IF d = dir THEN report.status ELSE files[d].summary)
                          /\ files'[d].observed = files[d].observed
                          /\ files'[d].report = files[d].report
                          /\ files'[d].made = files[d].made
        BY <1>a, <2>1 DEF Directory
    <2>3. files[dir].made /\ files[dir].report = report
        BY <1>a, <2>1 DEF OwnFilesInv, Idle
    <2>4. FreshInv'
        BY <1>a, <2>1, <2>2, <2>3 DEF FreshInv
    <2>5. EvidenceReproducesVerdict'
        BY <1>a, <2>2 DEF EvidenceReproducesVerdict
    <2>6. ExitAgreesWithEvidence'
        BY <1>a, <2>1, <2>2, <2>3, ReportFacts DEF ExitAgreesWithEvidence
    <2> QED BY <1>15, <2>4, <2>5, <2>6, GoneEvidenceInv DEF WriteSummary
<1>16. CASE LoseReport
    <2>1. files' = files /\ exits' = [exits EXCEPT ![dir] = 2]
        BY <1>16 DEF LoseReport
    <2>2. FreshInv' /\ EvidenceReproducesVerdict' /\ ExitAgreesWithEvidence'
        BY <1>a, <2>1 DEF FreshInv, EvidenceReproducesVerdict, ExitAgreesWithEvidence
    <2> QED BY <1>16, <2>2, GoneEvidenceInv DEF LoseReport
<1>17. CASE Kill
    <2>1. files' = files /\ exits' = exits
        BY <1>17 DEF Kill
    <2>2. FreshInv' /\ EvidenceReproducesVerdict' /\ ExitAgreesWithEvidence'
        BY <1>a, <2>1 DEF FreshInv, EvidenceReproducesVerdict, ExitAgreesWithEvidence
    <2> QED BY <1>17, <2>2, GoneEvidenceInv DEF Kill
<1>18. CASE UNCHANGED vars
    BY <1>18, QuietStep DEF vars
<1> QED BY <1>1, <1>2, <1>3, <1>4, <1>5, <1>6, <1>7, <1>8, <1>9, <1>10, <1>11, <1>12, <1>13,
           <1>14, <1>15, <1>16, <1>17, <1>18
        DEF Next, Administrators, Scheduler, Scanner

LEMMA CoveredFacts ==
    /\ Covered \subseteq Ids
    /\ \A i \in Covered : \E q \in 1..Len(Queries) : \E p \in 1..Len(Queries[q]) : i \in Queries[q][p]
BY QueryFacts DEF Covered

\* What a verdict says of a run stays true while the run goes on.
LEMMA VerdictStaysTrue ==
    ASSUME TypeInv, PhaseInv, TimeInv, SoundInv, report' = report, target' = target,
           \A i \in Ids : past[i] \subseteq past'[i],
           \A x \in Roles : pastRoles[x] \subseteq pastRoles'[x]
    PROVE  SoundInv'
<1>1. target \in Targets /\ target.approved \subseteq Record /\ DOMAIN target.pinned \subseteq Roles
    BY TypeFacts, ScanAssumption
<1>2. Concluded("in-sync")' = Concluded("in-sync") /\ Concluded("drift")' = Concluded("drift")
    BY DEF Concluded
<1>3. GreenIsTrue'
    <2> SUFFICES ASSUME Concluded("in-sync")
                 PROVE  /\ \A r \in target.approved : \E i \in Ids : r \in past'[i]
                        /\ \A i \in Covered : NoRecord \notin past'[i] =>
                                past'[i] \cap target.approved # {}
                        /\ \A i, j \in Covered :
                                i # j /\ NoRecord \notin past'[i] \cup past'[j] =>
                                    \E r \in past'[i], s \in past'[j] : r.key # s.key
                        /\ \A x \in DOMAIN target.pinned : target.pinned[x] \in pastRoles'[x]
        BY <1>2 DEF GreenIsTrue
    <2>1. \A r \in target.approved : \E i \in Ids : r \in past'[i]
        BY DEF SoundInv, GreenIsTrue
    <2>2. \A i \in Covered : NoRecord \notin past'[i] => past'[i] \cap target.approved # {}
        BY CoveredFacts DEF SoundInv, GreenIsTrue
    <2>3. ASSUME NEW i \in Covered, NEW j \in Covered, i # j, NoRecord \notin past'[i] \cup past'[j]
          PROVE  \E r \in past'[i], s \in past'[j] : r.key # s.key
        <3>1. past[i] \subseteq past'[i] /\ past[j] \subseteq past'[j]
            BY CoveredFacts
        <3>2. PICK r \in past[i], s \in past[j] : r.key # s.key
            BY <2>3, <3>1 DEF SoundInv, GreenIsTrue
        <3> QED BY <3>1, <3>2
    <2>4. \A x \in DOMAIN target.pinned : target.pinned[x] \in pastRoles'[x]
        BY <1>1 DEF SoundInv, GreenIsTrue
    <2> QED BY <2>1, <2>2, <2>3, <2>4
<1>4. DriftIsTrue'
    <2> SUFFICES ASSUME Concluded("drift")
                 PROVE  /\ \A k \in report.findings.missing : \A i \in Covered :
                                NoRecord \in past'[i] \/ \E r \in past'[i] : r.key # k
                        /\ \A k \in report.findings.unexpected : \E i \in Ids :
                                k \in KeysOf(past'[i] \ {NoRecord})
                        /\ \A k \in report.findings.changed : \E i \in Ids :
                                k \in KeysOf(past'[i] \ ({NoRecord} \cup target.approved))
                        /\ \A k \in report.findings.duplicate : \E i, j \in Ids : i # j /\
                                k \in KeysOf(past'[i] \ {NoRecord}) \cap KeysOf(past'[j] \ {NoRecord})
                        /\ \A x \in report.findings.roles : pastRoles'[x] # {target.pinned[x]}
        BY <1>2 DEF DriftIsTrue, KeysOf
    <2>1. \A k \in report.findings.missing : \A i \in Covered :
                NoRecord \in past'[i] \/ \E r \in past'[i] : r.key # k
        BY CoveredFacts DEF SoundInv, DriftIsTrue
    <2>2. \A k \in report.findings.unexpected : \E i \in Ids : k \in KeysOf(past'[i] \ {NoRecord})
        BY DEF SoundInv, DriftIsTrue, KeysOf
    <2>3. \A k \in report.findings.changed : \E i \in Ids :
                k \in KeysOf(past'[i] \ ({NoRecord} \cup target.approved))
        BY DEF SoundInv, DriftIsTrue, KeysOf
    <2>4. ASSUME NEW k \in report.findings.duplicate
          PROVE  \E i, j \in Ids : i # j /\
                    k \in KeysOf(past'[i] \ {NoRecord}) \cap KeysOf(past'[j] \ {NoRecord})
        <3>1. PICK i \in Ids, j \in Ids : i # j /\
                    k \in KeysOf(past[i] \ {NoRecord}) \cap KeysOf(past[j] \ {NoRecord})
            BY DEF SoundInv, DriftIsTrue
        <3>2. k \in KeysOf(past'[i] \ {NoRecord}) \cap KeysOf(past'[j] \ {NoRecord})
            BY <3>1 DEF KeysOf
        <3> QED BY <3>1, <3>2
    <2>5. ASSUME NEW x \in report.findings.roles PROVE pastRoles'[x] # {target.pinned[x]}
        <3>1. x \in Roles
            <4>1. report \in Comparison
                BY TypeFacts, ReportFacts DEF Concluded, Report
            <4> QED BY <4>1 DEF Comparison
        <3>2. pastRoles[x] # {target.pinned[x]} /\ pastRoles[x] \subseteq pastRoles'[x]
            BY <3>1 DEF SoundInv, DriftIsTrue
        <3>3. allowed[x] \in pastRoles[x]
            BY <3>1 DEF Concluded, PhaseInv, TimeInv, Idle
        <3> QED BY <3>2, <3>3
    <2> QED BY <2>1, <2>2, <2>3, <2>4, <2>5
<1> QED BY <1>3, <1>4 DEF SoundInv

\* The comparison reaches a verdict on what was met, and everything was.
LEMMA CompareIsSound ==
    ASSUME TypeInv, TimeInv, CoverInv, Compare
    PROVE  SoundInv'
<1> DEFINE found == Findings(target, observed, roles)
<1>1. /\ report' = Verdict(target, observed, roles)
      /\ phase = "roles" /\ DOMAIN roles = DOMAIN target.pinned /\ ~ Conflicting(observed)
      /\ past' = past /\ pastRoles' = pastRoles /\ target' = target
    BY DEF Compare, history, run
<1>2. /\ target.approved \subseteq Record
      /\ \A r, s \in target.approved : r.key = s.key => r = s
      /\ DOMAIN target.pinned \subseteq Roles
    BY TypeFacts, ScanAssumption
<1>3. ASSUME NEW o \in observed
      PROVE  /\ o.id \in Ids /\ o.record \in Record /\ o.record # NoRecord
             /\ o.record \in past[o.id]
             /\ o = [id |-> o.id, record |-> o.record]
    BY TypeFacts, ScanAssumption DEF Observed, TimeInv
<1>4. ASSUME NEW i \in Covered
      PROVE  NoRecord \in past[i] \/ \E o \in observed : o.id = i
    BY <1>1, CoveredFacts DEF CoverInv, ToRead, Met
<1>5. ASSUME NEW x \in DOMAIN target.pinned PROVE roles[x] \in pastRoles[x]
    BY <1>1 DEF TimeInv
<1>6. /\ found.missing = Missing(target, observed)
      /\ found.unexpected = Unexpected(target, observed)
      /\ found.changed = Changed(target, observed)
      /\ found.duplicate = Duplicated(observed)
      /\ found.roles = RolesChanged(target, roles)
    BY DEF Findings
<1>7. /\ report'.status = "in-sync" => found = NoFindings
      /\ report'.findings = found
    BY <1>1, VerdictHasTarget
<1> HIDE DEF found
<1>8. ASSUME found = NoFindings
      PROVE  /\ \A r \in target.approved : \E i \in Ids : r \in past[i]
             /\ \A i \in Covered : NoRecord \notin past[i] => past[i] \cap target.approved # {}
             /\ \A i, j \in Covered : i # j /\ NoRecord \notin past[i] \cup past[j] =>
                    \E r \in past[i], s \in past[j] : r.key # s.key
             /\ \A x \in DOMAIN target.pinned : target.pinned[x] \in pastRoles[x]
    <2>1. /\ Missing(target, observed) = {} /\ Unexpected(target, observed) = {}
          /\ Changed(target, observed) = {} /\ Duplicated(observed) = {}
          /\ RolesChanged(target, roles) = {}
        BY <1>6, <1>8 DEF NoFindings
    <2>2. ASSUME NEW o \in observed PROVE o.record \in target.approved
        <3>1. PICK r \in target.approved : r.key = o.record.key
            BY <2>1 DEF Unexpected, KeysOf
        <3>2. o \in Held(observed, r.key) /\ r.key \in KeysOf(target.approved)
            BY <3>1 DEF Held, KeysOf
        <3> QED BY <2>1, <3>2 DEF Changed
    <2>3. ASSUME NEW r \in target.approved PROVE \E i \in Ids : r \in past[i]
        <3>1. PICK o \in observed : o.record.key = r.key
            BY <2>1 DEF Missing, KeysOf, Held
        <3>2. o.record = r
            BY <1>2, <2>2, <3>1
        <3> QED BY <1>3, <3>2
    <2>4. ASSUME NEW i \in Covered, NoRecord \notin past[i]
          PROVE  past[i] \cap target.approved # {}
        BY <1>3, <1>4, <2>2, <2>4
    <2>5. ASSUME NEW i \in Covered, NEW j \in Covered, i # j, NoRecord \notin past[i] \cup past[j]
          PROVE  \E r \in past[i], s \in past[j] : r.key # s.key
        <3>1. PICK o \in observed : o.id = i
            BY <1>4, <2>5
        <3>2. PICK p \in observed : p.id = j
            BY <1>4, <2>5
        <3>3. o.record.key # p.record.key
            BY <2>1, <2>5, <3>1, <3>2 DEF Duplicated
        <3> QED BY <1>3, <3>1, <3>2, <3>3
    <2>6. ASSUME NEW x \in DOMAIN target.pinned PROVE target.pinned[x] \in pastRoles[x]
        BY <1>5, <2>1 DEF RolesChanged
    <2> QED BY <2>3, <2>4, <2>5, <2>6
<1>9. /\ \A k \in found.missing : \A i \in Covered :
            NoRecord \in past[i] \/ \E r \in past[i] : r.key # k
      /\ \A k \in found.unexpected : \E i \in Ids : k \in KeysOf(past[i] \ {NoRecord})
      /\ \A k \in found.changed : \E i \in Ids :
            k \in KeysOf(past[i] \ ({NoRecord} \cup target.approved))
      /\ \A k \in found.duplicate : \E i, j \in Ids :
            i # j /\ k \in KeysOf(past[i] \ {NoRecord}) \cap KeysOf(past[j] \ {NoRecord})
      /\ \A x \in found.roles : pastRoles[x] # {target.pinned[x]}
    <2>1. ASSUME NEW k \in found.missing, NEW i \in Covered
          PROVE  NoRecord \in past[i] \/ \E r \in past[i] : r.key # k
        <3>1. \A o \in observed : o.record.key # k
            BY <1>6, <2>1 DEF Missing, Held
        <3> QED BY <1>3, <1>4, <3>1
    <2>2. ASSUME NEW k \in found.unexpected PROVE \E i \in Ids : k \in KeysOf(past[i] \ {NoRecord})
        BY <1>3, <1>6 DEF Unexpected, KeysOf
    <2>3. ASSUME NEW k \in found.changed
          PROVE  \E i \in Ids : k \in KeysOf(past[i] \ ({NoRecord} \cup target.approved))
        <3>1. PICK o \in observed : o.record.key = k /\ o.record \notin target.approved
            BY <1>6 DEF Changed, Held
        <3>2. k \in KeysOf(past[o.id] \ ({NoRecord} \cup target.approved))
            BY <1>3, <3>1 DEF KeysOf
        <3> QED BY <1>3, <3>2
    <2>4. ASSUME NEW k \in found.duplicate
          PROVE  \E i, j \in Ids : i # j /\
                    k \in KeysOf(past[i] \ {NoRecord}) \cap KeysOf(past[j] \ {NoRecord})
        <3>1. PICK o \in observed, p \in observed :
                    o.record.key = k /\ p.record.key = k /\ o.id # p.id
            BY <1>6 DEF Duplicated
        <3>2. k \in KeysOf(past[o.id] \ {NoRecord}) /\ k \in KeysOf(past[p.id] \ {NoRecord})
            BY <1>3, <3>1 DEF KeysOf
        <3> QED BY <1>3, <3>1, <3>2
    <2>5. ASSUME NEW x \in found.roles PROVE pastRoles[x] # {target.pinned[x]}
        <3>1. x \in DOMAIN target.pinned /\ roles[x] # target.pinned[x]
            BY <1>6, <2>5 DEF RolesChanged
        <3> QED BY <1>5, <3>1
    <2> QED BY <2>1, <2>2, <2>3, <2>4, <2>5
<1>10. GreenIsTrue'
    BY <1>1, <1>7, <1>8 DEF GreenIsTrue, Concluded
<1>11. DriftIsTrue'
    BY <1>1, <1>7, <1>9 DEF DriftIsTrue, Concluded, KeysOf
<1> QED BY <1>10, <1>11 DEF SoundInv

LEMMA NextTimeInv == TypeInv /\ PhaseInv /\ TimeInv /\ [Next]_vars => TimeInv'
<1> SUFFICES ASSUME TypeInv, PhaseInv, TimeInv, [Next]_vars PROVE TimeInv'
    OBVIOUS
<1> USE DEF azure, history, reading, run, Idle
<1>a. /\ past \in [Ids -> SUBSET (Record \cup {NoRecord})] /\ live \in [Ids -> Record \cup {NoRecord}]
      /\ pastRoles \in [Roles -> SUBSET Permissions] /\ allowed \in [Roles -> Permissions]
      /\ \A o \in observed : o.id \in Ids
      /\ DOMAIN roles \subseteq Roles
    <2>1. \A o \in observed : o.id \in Ids
        BY TypeFacts DEF Observed
    <2> QED BY <2>1, TypeFacts, ScanAssumption
<1>1. ASSUME NEW i \in Ids, NEW r \in Record \cup {NoRecord}, Administer(i, r) PROVE TimeInv'
    <2>1. /\ live' = [live EXCEPT ![i] = r]
          /\ past' = IF phase = "idle" THEN past ELSE [past EXCEPT ![i] = @ \cup {r}]
          /\ allowed' = allowed /\ pastRoles' = pastRoles /\ phase' = phase
          /\ observed' = observed /\ roles' = roles
        BY <1>1 DEF Administer
    <2>2. \A j \in Ids : past[j] \subseteq past'[j] /\ (phase # "idle" /\ j = i => r \in past'[j])
        BY <1>a, <2>1
    <2>3. \A j \in Ids : live'[j] = (IF j = i THEN r ELSE live[j])
        BY <1>a, <2>1
    <2> QED BY <1>a, <2>1, <2>2, <2>3 DEF TimeInv
<1>2. ASSUME NEW x \in Roles, NEW p \in Permissions, Redefine(x, p) PROVE TimeInv'
    <2>1. /\ allowed' = [allowed EXCEPT ![x] = p]
          /\ pastRoles' = IF phase = "idle" THEN pastRoles ELSE [pastRoles EXCEPT ![x] = @ \cup {p}]
          /\ live' = live /\ past' = past /\ phase' = phase
          /\ observed' = observed /\ roles' = roles
        BY <1>2 DEF Redefine
    <2>2. \A y \in Roles : pastRoles[y] \subseteq pastRoles'[y]
                            /\ (phase # "idle" /\ y = x => p \in pastRoles'[y])
        BY <1>a, <2>1
    <2>3. \A y \in Roles : allowed'[y] = (IF y = x THEN p ELSE allowed[y])
        BY <1>a, <2>1
    <2> QED BY <1>a, <2>1, <2>2, <2>3 DEF TimeInv
<1>3. ASSUME NEW d \in Dirs, NEW t \in Targets, Begin(d, t) PROVE TimeInv'
    BY <1>3 DEF Begin, TimeInv, PhaseInv
<1>4. ASSUME NEW o, observed' = observed \cup o, \A x \in o : x.record = live[x.id] /\ x.id \in Ids,
             phase # "idle", UNCHANGED <<live, allowed, past, pastRoles, roles>>
      PROVE  TimeInv'
    BY <1>4 DEF TimeInv
<1>5. ASSUME NEW next, ReadPage(next) PROVE TimeInv'
    <2>1. \A x \in OnPage(cursor.query, cursor.page) : x.record = live[x.id] /\ x.id \in Ids
        BY OnPageFacts DEF Observed
    <2> QED BY <1>4, <1>5, <2>1 DEF ReadPage
<1>6. CASE ReadLastPage
    <2>1. \A x \in OnPage(cursor.query, cursor.page) : x.record = live[x.id] /\ x.id \in Ids
        BY OnPageFacts DEF Observed
    <2> QED BY <1>4, <1>6, <2>1 DEF ReadLastPage
<1>7. ASSUME NEW x \in Roles, ReadRole(x) PROVE TimeInv'
    <2>1. \A y \in DOMAIN roles' : roles'[y] \in pastRoles[y]
        BY <1>7, ReadRoleFacts DEF ReadRole, TimeInv
    <2> QED BY <1>7, <2>1 DEF ReadRole, TimeInv
<1>8. ASSUME phase' # "idle" => phase # "idle",
             UNCHANGED <<live, allowed, past, pastRoles, observed, roles>>
      PROVE  TimeInv'
    BY <1>8 DEF TimeInv
<1>9. CASE \/ \E d \in Dirs : Refuse(d)
           \/ Retry \/ CheckSession \/ Compare
           \/ WriteObserved \/ LoseObserved \/ WriteReport \/ UNCHANGED vars
    BY <1>8, <1>9 DEF Refuse, Retry, Collecting, CheckSession, Compare, WriteObserved, LoseObserved,
                      WriteReport, vars
<1>10. CASE Fail
    <2>1. /\ phase \in {"session", "assignments", "roles"} /\ observed' = {} /\ roles' = <<>>
          /\ UNCHANGED <<live, allowed, past, pastRoles>>
        BY <1>10 DEF Fail, Collecting
    <2> QED BY <2>1, NothingReadIsEvidence DEF TimeInv
<1>11. CASE WriteSummary \/ LoseReport \/ Kill
    <2>1. phase' = "idle" /\ observed' = {} /\ roles' = <<>>
        BY <1>11 DEF WriteSummary, LoseReport, Kill, Gone
    <2> QED BY <2>1, NothingReadIsEvidence DEF TimeInv
<1> QED BY <1>1, <1>2, <1>3, <1>5, <1>6, <1>7, <1>9, <1>10, <1>11
        DEF Next, Administrators, Scheduler, Scanner

\* Of each id on the page either its assignment is returned, or there is none.
LEMMA PageIsMet ==
    ASSUME TypeInv, TimeInv, phase = "assignments", past' = past,
           observed' = observed \cup OnPage(cursor.query, cursor.page),
           NEW i \in Queries[cursor.query][cursor.page]
    PROVE  NoRecord \in past'[i] \/ \E o \in observed' : o.id = i
<1>1. i \in Ids
    BY TypeFacts, QueryFacts
<1>2. live[i] \in past[i] /\ live[i] \in Record \cup {NoRecord}
    BY <1>1, TypeFacts DEF TimeInv, Idle
<1>3. CASE live[i] = NoRecord
    BY <1>2, <1>3
<1>4. CASE live[i] \in Record
    <2> DEFINE o == [id |-> i, record |-> live[i]]
    <2>1. o \in Observed /\ o.id = i /\ o.record = live[o.id]
        BY <1>1, <1>4 DEF Observed
    <2>2. o \in OnPage(cursor.query, cursor.page)
        BY <2>1 DEF OnPage
    <2> QED BY <2>1, <2>2
<1> QED BY <1>2, <1>3, <1>4

LEMMA NextCoverInv == TypeInv /\ TimeInv /\ CoverInv /\ [Next]_vars => CoverInv'
<1> SUFFICES ASSUME TypeInv, TimeInv, CoverInv, [Next]_vars PROVE CoverInv'
    OBVIOUS
<1> USE DEF azure, history, reading, run, Idle
<1>a. /\ past \in [Ids -> SUBSET (Record \cup {NoRecord})]
      /\ \A q \in 1..Len(Queries) : \A p \in 1..Len(Queries[q]) : Queries[q][p] \subseteq Ids
      /\ Len(Queries) \in Nat /\ \A q \in 1..Len(Queries) : Len(Queries[q]) \in Nat
      /\ cursor \in Cursor /\ cursor.query \in 1..Len(Queries)
      /\ cursor.page \in 1..Len(Queries[cursor.query])
      /\ cursor.query \in Nat /\ cursor.page \in Nat
    BY TypeFacts, QueryFacts DEF Cursor
<1>1. ASSUME phase' = phase, observed' = observed, \A i \in Ids : past[i] \subseteq past'[i],
             \/ phase \notin {"session", "assignments"}
             \/ /\ cursor'.query = cursor.query /\ cursor'.page = cursor.page
                /\ cursor'.seen = cursor.seen
      PROVE  CoverInv'
    BY <1>a, <1>1 DEF CoverInv, ToRead, Met
<1>2. ASSUME NEW i \in Ids, NEW r \in Record \cup {NoRecord}, Administer(i, r) PROVE CoverInv'
    <2>1. \A j \in Ids : past[j] \subseteq past'[j]
        BY <1>a, <1>2 DEF Administer
    <2> QED BY <1>1, <1>2, <2>1 DEF Administer
<1>3. ASSUME NEW x \in Roles, NEW p \in Permissions, Redefine(x, p) PROVE CoverInv'
    BY <1>1, <1>3 DEF Redefine
<1>4. ASSUME NEW d \in Dirs, Refuse(d) PROVE CoverInv'
    BY <1>1, <1>4 DEF Refuse
<1>5. ASSUME NEW d \in Dirs, NEW t \in Targets, Begin(d, t) PROVE CoverInv'
    BY <1>5 DEF Begin, CoverInv, ToRead
<1>6. CASE Retry
    <2>1. cursor'.query = cursor.query /\ cursor'.page = cursor.page /\ cursor'.seen = cursor.seen
        BY <1>a, <1>6 DEF Retry, Cursor
    <2> QED BY <1>1, <1>6, <2>1 DEF Retry
<1>7. CASE CheckSession
    <2>1. phase' = "assignments" /\ cursor'.query = 1 /\ cursor'.page = 1 /\ cursor'.seen = {}
        BY <1>7, FirstReadIsFirst DEF CheckSession
    <2> QED BY <1>a, <2>1 DEF CoverInv, ToRead
<1>8. ASSUME NEW next \in Nat, ReadPage(next) PROVE CoverInv'
    <2>1. /\ phase = "assignments" /\ phase' = "assignments" /\ cursor.page \notin cursor.seen
          /\ (next = cursor.page + 1 /\ ~ LastPage) \/ next \in cursor.seen \cup {cursor.page}
          /\ observed' = observed \cup OnPage(cursor.query, cursor.page) /\ past' = past
        BY <1>8 DEF ReadPage, FreshPage
    <2>2. /\ cursor'.query = cursor.query /\ cursor'.page = next
          /\ cursor'.seen = cursor.seen \cup {cursor.page}
        BY <1>8, <2>1, NextPage DEF ReadPage
    <2>3. cursor.seen = 1..(cursor.page - 1)
        BY <2>1 DEF CoverInv
    <2>4. cursor'.page \notin cursor'.seen => cursor'.seen = 1..(cursor'.page - 1)
        BY <1>a, <2>1, <2>2, <2>3
    <2>5. ASSUME NEW q \in 1..Len(Queries), NEW p \in 1..Len(Queries[q]), NEW i \in Queries[q][p]
          PROVE  (Met(i) \/ ToRead(q, p))'
        <3>1. CASE q = cursor.query /\ p = cursor.page
            BY <2>1, <3>1, PageIsMet DEF Met
        <3>2. CASE Met(i)
            BY <2>1, <3>2 DEF Met
        <3>3. CASE ToRead(q, p) /\ ~ (q = cursor.query /\ p = cursor.page)
            BY <2>1, <2>2, <3>3 DEF ToRead
        <3> QED BY <2>1, <3>1, <3>2, <3>3 DEF CoverInv
    <2> QED BY <2>4, <2>5 DEF CoverInv
<1>9. CASE ReadLastPage
    <2>1. /\ phase = "assignments" /\ cursor.page \notin cursor.seen
          /\ cursor.page = Len(Queries[cursor.query])
          /\ observed' = observed \cup OnPage(cursor.query, cursor.page) /\ past' = past
        BY <1>9 DEF ReadLastPage, FreshPage, LastPage
    <2>2. cursor.seen = 1..(cursor.page - 1)
        BY <2>1 DEF CoverInv
    <2>3. \/ /\ cursor.query < Len(Queries) /\ phase' = "assignments"
             /\ cursor'.query = cursor.query + 1 /\ cursor'.page = 1 /\ cursor'.seen = {}
          \/ cursor.query = Len(Queries) /\ phase' = "roles"
        <3>1. CASE cursor.query < Len(Queries)
            <4>1. cursor.query + 1 \in 1..Len(Queries)
                BY <1>a, <3>1
            <4> QED BY <1>9, <2>1, <3>1, <4>1, FirstReadFacts DEF ReadLastPage
        <3>2. CASE ~ (cursor.query < Len(Queries))
            BY <1>9, <1>a, <3>2 DEF ReadLastPage
        <3> QED BY <3>1, <3>2
    <2>4. phase' = "assignments" /\ cursor'.page \notin cursor'.seen =>
                cursor'.seen = 1..(cursor'.page - 1)
        <3>1. {} = 1..(1 - 1)
            OBVIOUS
        <3>2. "roles" # "assignments"
            OBVIOUS
        <3>3. phase' = "assignments" => cursor'.page = 1 /\ cursor'.seen = {}
            BY <2>3, <3>2
        <3> QED BY <3>1, <3>3
    <2>5. ASSUME NEW q \in 1..Len(Queries), NEW p \in 1..Len(Queries[q]), NEW i \in Queries[q][p]
          PROVE  (Met(i) \/ ToRead(q, p))'
        <3>1. CASE q = cursor.query /\ p = cursor.page
            BY <2>1, <3>1, PageIsMet DEF Met
        <3>2. CASE Met(i)
            BY <2>1, <3>2 DEF Met
        <3>3. CASE q > cursor.query
            <4>1. phase' = "assignments" /\ cursor'.query = cursor.query + 1 /\ cursor'.seen = {}
                BY <1>a, <2>3, <3>3
            <4> QED BY <1>a, <3>3, <4>1 DEF ToRead
        <3>4. CASE q = cursor.query /\ p \notin cursor.seen
            <4>1. p = cursor.page
                BY <1>a, <2>1, <2>2, <3>4
            <4> QED BY <3>1, <3>4, <4>1
        <3> QED BY <2>1, <3>2, <3>3, <3>4 DEF CoverInv, ToRead
    <2> QED BY <2>4, <2>5 DEF CoverInv
<1>10. ASSUME NEW x \in Roles, ReadRole(x) PROVE CoverInv'
    BY <1>1, <1>10 DEF ReadRole
<1>11. ASSUME phase' \notin {"session", "assignments", "roles"} PROVE CoverInv'
    BY <1>11 DEF CoverInv
<1>12. CASE Fail \/ Compare \/ WriteObserved \/ LoseObserved \/ WriteReport \/ WriteSummary
            \/ LoseReport \/ Kill
    BY <1>11, <1>12 DEF Fail, Compare, WriteObserved, LoseObserved, WriteReport, WriteSummary,
                        LoseReport, Kill, Gone
<1>13. CASE UNCHANGED vars
    BY <1>1, <1>13 DEF vars
<1>14. \A n \in UNION {1..Len(Queries[q]) : q \in 1..Len(Queries)} : n \in Nat
    BY QueryFacts
<1> QED BY <1>2, <1>3, <1>4, <1>5, <1>6, <1>7, <1>8, <1>9, <1>10, <1>12, <1>13, <1>14
        DEF Next, Administrators, Scheduler, Scanner

LEMMA NextSoundInv ==
    TypeInv /\ PhaseInv /\ TimeInv /\ CoverInv /\ SoundInv /\ [Next]_vars => SoundInv'
<1> SUFFICES ASSUME TypeInv, PhaseInv, TimeInv, CoverInv, SoundInv, [Next]_vars PROVE SoundInv'
    OBVIOUS
<1> USE DEF azure, history, reading, run
<1>1. ASSUME ~ Concluded("in-sync")', ~ Concluded("drift")' PROVE SoundInv'
    BY <1>1 DEF SoundInv, GreenIsTrue, DriftIsTrue
<1>2. ASSUME NEW i \in Ids, NEW r \in Record \cup {NoRecord}, Administer(i, r) PROVE SoundInv'
    <2>1. \A j \in Ids : past[j] \subseteq past'[j]
        BY <1>2, TypeFacts DEF Administer
    <2> QED BY <1>2, <2>1, VerdictStaysTrue DEF Administer
<1>3. ASSUME NEW x \in Roles, NEW p \in Permissions, Redefine(x, p) PROVE SoundInv'
    <2>1. \A y \in Roles : pastRoles[y] \subseteq pastRoles'[y]
        BY <1>3, TypeFacts DEF Redefine
    <2> QED BY <1>3, <2>1, VerdictStaysTrue DEF Redefine
<1>4. ASSUME NEW d \in Dirs, NEW t \in Targets, Begin(d, t) PROVE SoundInv'
    BY <1>1, <1>4 DEF Begin, PhaseInv, Idle, Concluded
<1>5. CASE \/ (\E d \in Dirs : Refuse(d)) \/ Retry \/ CheckSession
           \/ \E next \in UNION {1..Len(Queries[q]) : q \in 1..Len(Queries)} : ReadPage(next)
           \/ ReadLastPage \/ (\E x \in Roles : ReadRole(x))
           \/ WriteObserved \/ WriteReport \/ UNCHANGED vars
    BY <1>5, VerdictStaysTrue DEF Refuse, Retry, CheckSession, ReadPage, ReadLastPage, ReadRole,
                                  WriteObserved, WriteReport, vars
<1>6. CASE Fail \/ LoseObserved
    BY <1>1, <1>6, ReportFacts DEF Fail, LoseObserved, Concluded
<1>7. CASE Compare
    BY <1>7, CompareIsSound
<1>8. CASE WriteSummary \/ LoseReport \/ Kill
    BY <1>1, <1>8 DEF WriteSummary, LoseReport, Kill, Gone, Concluded
<1> QED BY <1>2, <1>3, <1>4, <1>5, <1>6, <1>7, <1>8
        DEF Next, Administrators, Scheduler, Scanner

LEMMA InitScanInv == Init => ScanInv
<1> SUFFICES ASSUME Init PROVE ScanInv
    OBVIOUS
<1>1. phase = "idle" /\ observed = {} /\ DOMAIN roles = {} /\ report = NoFile
    BY NothingReadIsEvidence DEF Init
<1>2. PhaseInv /\ TimeInv /\ CoverInv /\ SoundInv
    BY <1>1 DEF PhaseInv, TimeInv, Idle, CoverInv, SoundInv, GreenIsTrue, DriftIsTrue, Concluded
<1> QED BY <1>2, InitTypeInv DEF ScanInv

LEMMA ScanInvariant == Spec => [](ScanInv /\ EvidenceInv)
<1>1. ScanInv /\ EvidenceInv /\ [Next]_vars => (ScanInv /\ EvidenceInv)'
    BY NextTypeInv, NextPhaseInv, NextTimeInv, NextCoverInv, NextSoundInv, NextEvidenceInv DEF ScanInv
<1> QED BY <1>1, InitScanInv, InitEvidenceInv, PTL DEF Spec

\* The state always has its shape: no read is attempted too often, and each
\* file holds what it is there for.
THEOREM ScanTypeCorrect == Spec => []TypeOK
<1>1. ScanInv => TypeOK
    BY DEF ScanInv, TypeInv
<1> QED BY <1>1, ScanInvariant, PTL

\* However many changes are made between whichever reads, a green report is
\* true of the time of its run.
THEOREM GreenReportIsTrue == Spec => []GreenIsTrue
<1>1. ScanInv => GreenIsTrue
    BY DEF ScanInv, SoundInv
<1> QED BY <1>1, ScanInvariant, PTL

\* And a report of drift names nothing that was not so during the run.
THEOREM DriftReportIsTrue == Spec => []DriftIsTrue
<1>1. ScanInv => DriftIsTrue
    BY DEF ScanInv, SoundInv
<1> QED BY <1>1, ScanInvariant, PTL

\* Wherever a run fails or is killed, a report.json that concludes anything
\* lies beside an observed.json from which it can be derived again.
THEOREM ReportHasItsEvidence == Spec => []EvidenceReproducesVerdict
<1>1. EvidenceInv => EvidenceReproducesVerdict
    BY DEF EvidenceInv
<1> QED BY <1>1, ScanInvariant, PTL

\* A pipeline that acts on status 0 or 1 acts on what both report files say.
THEOREM ExitHasItsEvidence == Spec => []ExitAgreesWithEvidence
<1>1. EvidenceInv => ExitAgreesWithEvidence
    BY DEF EvidenceInv
<1> QED BY <1>1, ScanInvariant, PTL

\* No file of a report directory is ever written twice.
THEOREM EvidenceIsKept == Spec => EvidenceKept
<1> DEFINE Keeps == \A d \in Dirs : \A f \in {"observed", "report", "summary"} :
                        files[d][f] # NoFile => files'[d][f] = files[d][f]
<1>1. ScanInv /\ EvidenceInv /\ [Next]_vars => [Keeps]_vars
    <2> SUFFICES ASSUME TypeInv, OwnFilesInv, FreshInv, Next PROVE Keeps
        BY DEF ScanInv, EvidenceInv
    <2>a. dir \in Dirs /\ files \in [Dirs -> Directory]
        BY TypeFacts
    <2>1. ASSUME files' = files PROVE Keeps
        BY <2>1
    <2>2. ASSUME NEW d \in Dirs, NEW t \in Targets, Begin(d, t) PROVE Keeps
        <3>1. files' = [files EXCEPT ![d].made = TRUE]
            BY <2>2 DEF Begin
        <3> QED BY <2>a, <3>1 DEF Directory
    <2>3. CASE WriteObserved
        <3>1. /\ files' = [files EXCEPT ![dir].observed = [assignments |-> observed, roles |-> roles]]
              /\ files[dir].observed = NoFile
            BY <2>3 DEF WriteObserved, OwnFilesInv, Idle
        <3> QED BY <2>a, <3>1 DEF Directory
    <2>4. CASE WriteReport
        <3>1. files' = [files EXCEPT ![dir].report = report] /\ files[dir].report = NoFile
            BY <2>4 DEF WriteReport, OwnFilesInv, Idle
        <3> QED BY <2>a, <3>1 DEF Directory
    <2>5. CASE WriteSummary
        <3>1. files' = [files EXCEPT ![dir].summary = report.status] /\ files[dir].summary = NoFile
            BY <2>5 DEF WriteSummary, OwnFilesInv, Idle
        <3> QED BY <2>a, <3>1 DEF Directory
    <2>6. CASE \/ Administrators \/ (\E d \in Dirs : Refuse(d)) \/ Fail \/ Retry \/ CheckSession
               \/ (\E next \in UNION {1..Len(Queries[q]) : q \in 1..Len(Queries)} : ReadPage(next))
               \/ ReadLastPage \/ (\E x \in Roles : ReadRole(x)) \/ Compare
               \/ LoseObserved \/ LoseReport \/ Kill
        <3>1. files' = files
            BY <2>6 DEF Administrators, Administer, Redefine, Refuse, Fail, Retry, CheckSession,
                        ReadPage, ReadLastPage, ReadRole, Compare, LoseObserved, LoseReport, Kill
        <3> QED BY <2>1, <3>1
    <2> QED BY <2>2, <2>3, <2>4, <2>5, <2>6 DEF Next, Scheduler, Scanner
<1> QED BY <1>1, ScanInvariant, PTL DEF Spec, EvidenceKept

=============================================================================
