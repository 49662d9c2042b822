---------------------------- MODULE DriftCompare ----------------------------
(***************************************************************************)
(* compare (drift/engine.py), without its refusals: the difference between *)
(* an approved target and the assignments and role definitions observed.   *)
(*                                                                         *)
(* A target t has a set of approvals, t.approved, each with a key          *)
(* (principal, role and scope) and constraints, and the permissions of     *)
(* each pinned role, t.pinned.  An observed assignment has an Azure id and *)
(* a record of the same kind; defs are the role definitions observed.      *)
(***************************************************************************)
EXTENDS FiniteSets

KeysOf(records) == {r.key : r \in records}

Held(obs, k) == {o \in obs : o.record.key = k}

Missing(t, obs) == {k \in KeysOf(t.approved) : Held(obs, k) = {}}

Unexpected(t, obs) == {o.record.key : o \in obs} \ KeysOf(t.approved)

\* Mutant: the conditions of a grant are not compared.
ChangedKeyOnly(t, obs) ==
    {k \in KeysOf(t.approved) : \E o \in Held(obs, k) : o.record.key \notin KeysOf(t.approved)}

Changed(t, obs) ==
    {k \in KeysOf(t.approved) : \E o \in Held(obs, k) : o.record \notin t.approved}

Duplicated(obs) == {o.record.key : o \in {o \in obs :
                        \E p \in obs : p.record.key = o.record.key /\ p.id # o.id}}

RolesChanged(t, defs) == {x \in DOMAIN t.pinned : defs[x] # t.pinned[x]}

Findings(t, obs, defs) ==
    [missing |-> Missing(t, obs), unexpected |-> Unexpected(t, obs),
     changed |-> Changed(t, obs), duplicate |-> Duplicated(obs),
     roles |-> RolesChanged(t, defs)]

NoFindings == [missing |-> {}, unexpected |-> {}, changed |-> {}, duplicate |-> {}, roles |-> {}]

Verdict(t, obs, defs) ==
    [status |-> IF Findings(t, obs, defs) = NoFindings THEN "in-sync" ELSE "drift",
     target |-> t, findings |-> Findings(t, obs, defs)]

ErrorReport == [status |-> "error"]

\* Two records of one assignment id: the tenant changed between two reads.
Conflicting(obs) == \E o, p \in obs : o.id = p.id /\ o # p
=============================================================================
