--------------------------- MODULE Administration ---------------------------
(***************************************************************************)
(* The second factor of a platform administrator, and what administrators  *)
(* do to accounts and campuses.  A code is checked against a row that was  *)
(* read before and consumed by a conditional update; an operation admits   *)
(* its author, checks its target, writes and records, each in a statement  *)
(* of its own.                                                             *)
(***************************************************************************)
EXTENDS Integers, FiniteSets, Sequences

CONSTANTS Proofs,        \* requests that may show a code of the authenticator
          MaxSecrets,    \* bound of the model: enrolments
          LastPeriod,    \* bound of the model, in time steps of 30 seconds
          Staff, Students, Orders, \* accounts that begin as admin or not; operations
          MaxRecords     \* bound of the model: audit records

ASSUME FactorBoundsAssumption == MaxSecrets \in Nat /\ LastPeriod \in Nat /\ MaxRecords \in Nat

SkewSteps == 1
Persons == Staff \cup Students
NoSecret == 0

VARIABLES period, secrets,  \* the time step, and how many secrets were generated
          factor,           \* the row of admin_totp_secrets
          proofs,
          people,           \* role and status of the accounts
          orders,
          records           \* admin_audit_logs

factorVars == <<period, secrets, factor, proofs>>
officeVars == <<people, orders, records>>

FactorInit ==
    /\ period = 0 /\ secrets = 0
    /\ factor = [secret |-> NoSecret, confirmed |-> FALSE, used |-> -1]
    /\ proofs = [p \in Proofs |-> [step |-> "idle"]]

OfficeInit ==
    /\ people = [a \in Persons |-> [role |-> IF a \in Staff THEN "admin" ELSE "user", status |-> "active"]]
    /\ orders = [o \in Orders |-> [step |-> "idle"]]
    /\ records = <<>>

-----------------------------------------------------------------------------
(* The factor.                                                             *)

BeginEnrollment ==
    /\ ~factor.confirmed /\ secrets < MaxSecrets
    /\ secrets' = secrets + 1
    /\ factor' = [secret |-> secrets + 1, confirmed |-> FALSE, used |-> -1]
    /\ UNCHANGED <<period, proofs>>

\* confirm_enrollment and reauthenticate, after the password: read the row.
\* Without a confirmed factor the password is enough.
ReadFactor(p, purpose, secret, at) ==
    /\ proofs[p].step = "idle"
    /\ secret \in 1..secrets /\ at \in (period - SkewSteps - 1)..(period + SkewSteps) /\ at >= 0
    /\ proofs' = [proofs EXCEPT ![p] =
         IF purpose = "reauthenticate" /\ ~factor.confirmed
         THEN [step |-> "let_in", enforced |-> FALSE]
         ELSE [step |-> "read", purpose |-> purpose, code |-> [secret |-> secret, at |-> at], seen |-> factor]]
    /\ UNCHANGED <<period, secrets, factor>>

\* totp::verify with what was read: a code of that secret, of a step near now
\* and later than the last one used.
Verifies(p) ==
    LET it == proofs[p]
    IN  /\ it.code.secret = it.seen.secret
        /\ it.code.at \in (period - SkewSteps)..(period + SkewSteps)
        /\ it.code.at > it.seen.used
        /\ it.purpose = "reauthenticate" => it.seen.confirmed

\* Bug: the update trusts the comparison made with what was read.
UnusedWhenRead(p) == proofs[p].seen.used < proofs[p].code.at
Unused(p) == factor.used < proofs[p].code.at

Consume(p) ==
    LET it == proofs[p]
    IN  /\ it.step = "read"
        /\ IF Verifies(p) /\ Unused(p) /\ (it.purpose = "confirm" \/ factor.confirmed)
           THEN /\ factor' = [factor EXCEPT !.used = it.code.at, !.confirmed = TRUE]
                /\ proofs' = [proofs EXCEPT ![p] = [step |-> "let_in", enforced |-> TRUE, code |-> it.code]]
           ELSE /\ proofs' = [proofs EXCEPT ![p] = [step |-> "refused"]]
                /\ UNCHANGED factor
        /\ UNCHANGED <<period, secrets>>

NextPeriod ==
    /\ period < LastPeriod /\ period' = period + 1
    /\ UNCHANGED <<secrets, factor, proofs>>

FactorNext ==
    \/ BeginEnrollment \/ NextPeriod
    \/ \E p \in Proofs :
          \/ Consume(p)
          \/ \E purpose \in {"confirm", "reauthenticate"}, secret \in 1..MaxSecrets, at \in 0..(LastPeriod + 1) :
                ReadFactor(p, purpose, secret, at)

FactorSpec == FactorInit /\ [][FactorNext]_factorVars

-----------------------------------------------------------------------------
(* Operations on accounts.                                                 *)

\* PlatformAdminScope: an active account with the role, authenticated lately.
Admit(o, by, what, whom) ==
    /\ orders[o].step = "idle"
    /\ people[by] = [role |-> "admin", status |-> "active"] /\ by # whom
    /\ orders' = [orders EXCEPT ![o] = [step |-> "admitted", by |-> by, what |-> what, whom |-> whom]]
    /\ UNCHANGED <<people, records>>

\* find_by_id of the target: administrators are neither banned nor unbanned.
CheckTarget(o) ==
    LET it == orders[o]
        refused == it.what \in {"ban", "unban"} /\ people[it.whom].role = "admin"
    IN  /\ it.step = "admitted"
        /\ orders' = [orders EXCEPT ![o] = IF refused THEN [step |-> "refused"]
                         ELSE [step |-> "checked", by |-> it.by, what |-> it.what, whom |-> it.whom,
                               old |-> people[it.whom]]]
        /\ UNCHANGED <<people, records>>

Effect(what, account) ==
    CASE what = "ban"     -> [account EXCEPT !.status = "banned"]
      [] what = "unban"   -> [account EXCEPT !.status = "active"]
      [] what = "promote" -> [account EXCEPT !.role = "admin"]
      [] what = "demote"  -> [account EXCEPT !.role = "user"]

WriteAccount(o) ==
    LET it == orders[o]
    IN  /\ it.step = "checked"
        /\ people' = [people EXCEPT ![it.whom] = Effect(it.what, @)]
        /\ orders' = [orders EXCEPT ![o].step = "written"]
        /\ UNCHANGED records

\* record_audit: an error is logged, and the operation succeeds.
RecordAudit(o) ==
    LET it == orders[o]
    IN  /\ it.step = "written"
        /\ orders' = [orders EXCEPT ![o].step = "done"]
        /\ \/ /\ Len(records) < MaxRecords
              /\ records' = Append(records, [by |-> it.by, whom |-> it.whom, old |-> it.old,
                                             new |-> Effect(it.what, it.old)])
           \/ UNCHANGED records
        /\ UNCHANGED people

OfficeNext == \E o \in Orders :
    \/ CheckTarget(o) \/ WriteAccount(o) \/ RecordAudit(o)
    \/ \E by, whom \in Persons, what \in {"ban", "unban", "promote", "demote"} : Admit(o, by, what, whom)

-----------------------------------------------------------------------------
(* Properties.                                                             *)

\* totp.rs: every code is single-use, also when requests show it at once or
\* the factor is enrolled again meanwhile.
CodesAreSingleUse == \A p, q \in Proofs :
    /\ p # q
    /\ proofs[p].step = "let_in" /\ proofs[p].enforced
    /\ proofs[q].step = "let_in" /\ proofs[q].enforced
    => proofs[p].code # proofs[q].code

\* Refuted: a secret that is generated while a code of the one before is
\* checked becomes active although nobody has shown a code of it.
ConfirmedIsProven == factor.confirmed =>
    \E p \in Proofs : proofs[p].step = "let_in" /\ proofs[p].enforced /\ proofs[p].code.secret = factor.secret
\* Refuted: nobody demotes himself, but two administrators can demote each
\* other; and an account can become an administrator's while it is banned.
AnAdminRemains == \E a \in Persons : people[a].role = "admin"
AdminsAreNotBanned == [][\A a \in Persons :
    people[a].status = "active" /\ people'[a].status = "banned" => people[a].role # "admin"]_officeVars
\* Refuted: operations on one account record values that do not follow on
\* each other, and what could not be recorded has happened all the same.
RecordsFollow == \A i \in DOMAIN records, j \in DOMAIN records :
    j = i + 1 /\ records[i].whom = records[j].whom => records[j].old = records[i].new
=============================================================================
