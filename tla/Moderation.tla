----------------------------- MODULE Moderation ------------------------------
(***************************************************************************)
(* Moderation cases: reports, machine rejections and emergency takedowns   *)
(* open them, admins decide them, their subject may appeal once.           *)
(*                                                                         *)
(* A listing is restricted by effects that each belong to a case and may   *)
(* stand beside each other; pictures and messages have a single status     *)
(* column, which every decision overwrites; accounts can be reported but   *)
(* not restricted.  Every operation is one transaction that locks the      *)
(* listing, then the case, then the appeal or effect; a takedown by hand   *)
(* is dated by its begin, before it waits for the listing.                 *)
(***************************************************************************)
EXTENDS Naturals, FiniteSets

CONSTANTS
    Inventory, Media, Accounts,   \* what a case may be about
    Admins, Reporters, Owner,    \* Owner: the subject of every case
    Cases,
    MaxTakedowns    \* bound: takedowns by hand that begin

ASSUME CastAssumption == "nobody" \notin Admins \cup Reporters \cup {Owner}

\* Listings, pictures and accounts are rows of different tables.
ASSUME KindsAssumption ==
    /\ Inventory \cap Media = {} /\ (Inventory \cup Media) \cap Accounts = {}
    /\ "none" \notin Inventory \cup Media \cup Accounts \cup Cases

VARIABLES
    case,      \* moderation_cases, with the report that is its source
    effect,    \* listing_restriction_effects: one per case at most
    appeal,    \* moderation_appeals: one per case and appellant
    column,    \* the status column of a picture or message
    begun,     \* number of takedowns by hand so far, which orders their times
    waiting,   \* the takedown that each admin has begun: of what, and when
    imposed,   \* imposed_at of the effects of takedowns
    overtaken  \* history: takedowns committed after one that had begun later

takedownVars == <<begun, waiting, imposed, overtaken>>
caseVars == <<case, effect, appeal, column, takedownVars>>

-----------------------------------------------------------------------------
Resources == Inventory \cup Media \cup Accounts
Statuses  == {"open", "reviewing", "actioned", "dismissed", "appealed", "resolved"}

NoCase == [source |-> "none", reporter |-> "nobody", resource |-> "none", status |-> "none",
           resolution |-> "none", decider |-> "nobody", report |-> "none"]

NoTakedown == [of |-> "none", at |-> 0]

CaseInit ==
    /\ case = [c \in Cases |-> NoCase]
    /\ effect = [c \in Cases |-> "none"]
    /\ appeal = [c \in Cases |-> "none"]
    /\ column = [m \in Media |-> "approved"]
    /\ begun = 0
    /\ waiting = [a \in Admins |-> NoTakedown]
    /\ imposed = [c \in Cases |-> 0]
    /\ overtaken = {}

FreshCases == {c \in Cases : case[c] = NoCase}

-----------------------------------------------------------------------------
(* Reports.  A report and its case are created together, so the report is  *)
(* a field of the case.                                                    *)

ReportedBy(p, r) ==
    {c \in Cases : case[c].source = "report" /\ case[c].reporter = p /\ case[c].resource = r}

\* The unique index of reports on a listing or account covers those not yet
\* decided; that of reports on a message covers them all.
Standing(p, r) ==
    IF r \in Media THEN ReportedBy(p, r)
    ELSE {c \in ReportedBy(p, r) : case[c].report \in {"open", "reviewing"}}

\* create_case_for_report, create_case_for_content_report: the report has a
\* case of its own, that points at it.
CaseFor(p, r) == [NoCase EXCEPT !.source = "report", !.reporter = p, !.resource = r,
                                !.status = "open", !.report = "open"]

\* ON CONFLICT ... DO UPDATE: repeating a standing report changes its wording.
Report(p, r) ==
    /\ p # Owner
    /\ IF Standing(p, r) # {} THEN UNCHANGED case
       ELSE \E c \in FreshCases : case' = [case EXCEPT ![c] = CaseFor(p, r)]
    /\ UNCHANGED <<effect, appeal, column, takedownVars>>

\* finalize_job of a rejected picture.
MachineRejects(m) ==
    /\ \E c \in FreshCases :
        case' = [case EXCEPT ![c] = [NoCase EXCEPT !.source = "machine", !.resource = m,
                     !.status = "actioned", !.resolution = "restricted"]]
    /\ column' = [column EXCEPT ![m] = "rejected"]
    /\ UNCHANGED <<effect, appeal, takedownVars>>

-----------------------------------------------------------------------------
(* Effects.                                                                *)

\* Inserting revives the effect the case already has.
Impose(c) == effect' = [effect EXCEPT ![c] = "active"]

\* Bug: An effect released for the listing instead of the case.
ReleaseAll(c, how) ==
    /\ effect[c] = "active"
    /\ effect' = [d \in Cases |-> IF case[d].resource = case[c].resource /\ effect[d] = "active"
                                  THEN how ELSE effect[d]]

\* Fails, and with it the whole transaction, when there is nothing to release.
ReleaseEffect(c, how) ==
    /\ effect[c] = "active"
    /\ effect' = [effect EXCEPT ![c] = how]

\* What a decision does to the resource: "restrict", "restore", or "keep"
\* (a dismissal, which leaves listings alone but clears a column).
Apply(c, what) ==
    LET r == case[c].resource IN
    /\ IF r \in Inventory
       THEN CASE what = "restrict" -> Impose(c)
              [] what = "restore"  -> ReleaseEffect(c, "released")
              [] OTHER             -> UNCHANGED effect
       ELSE UNCHANGED effect
    /\ column' = IF r \in Media
                 THEN [column EXCEPT ![r] = IF what = "restrict" THEN "rejected" ELSE "approved"]
                 ELSE column

\* sync_report_status: the report follows the case; an appeal leaves it.
ReportStatus(c, status, resolution) ==
    IF case[c].source # "report" THEN case[c].report
    ELSE CASE status = "reviewing" -> "reviewing"
           [] status = "dismissed" -> "dismissed"
           [] status = "actioned"  -> "resolved"
           [] status = "resolved"  -> IF resolution = "restored" THEN "dismissed" ELSE "resolved"
           [] OTHER                -> case[c].report

Decide(a, c, status, resolution) ==
    case' = [case EXCEPT ![c] = [@ EXCEPT !.status = status, !.resolution = resolution,
                 !.decider = a, !.report = ReportStatus(c, status, resolution)]]

-----------------------------------------------------------------------------
(* review_case: no admin judges a case about themselves.                   *)

StartReview(a, c) ==
    /\ case[c].status = "open" /\ a # Owner
    /\ case' = [case EXCEPT ![c] = [@ EXCEPT !.status = "reviewing",
                    !.report = ReportStatus(c, "reviewing", "none")]]
    /\ UNCHANGED <<effect, appeal, column, takedownVars>>

RestrictByCase(a, c) ==
    /\ case[c].status \in {"open", "reviewing"} /\ a # Owner
    /\ case[c].resource \notin Accounts
    /\ Decide(a, c, "actioned", "restricted")
    /\ Apply(c, "restrict")
    /\ UNCHANGED <<appeal, takedownVars>>

Dismiss(a, c) ==
    /\ case[c].status \in {"open", "reviewing"} /\ a # Owner
    /\ Decide(a, c, "dismissed", "no_violation")
    /\ Apply(c, "keep")
    /\ UNCHANGED <<appeal, takedownVars>>

\* Open to the admin who decided the case, and with an appeal pending.
Restore(a, c) ==
    /\ case[c].status \in {"actioned", "appealed"} /\ a # Owner
    /\ case[c].resource \notin Accounts
    /\ Decide(a, c, "resolved", "restored")
    /\ Apply(c, "restore")
    /\ UNCHANGED <<appeal, takedownVars>>

-----------------------------------------------------------------------------
(* Appeals.                                                                *)

CanAppeal(c) ==
    /\ case[c].status \in {"actioned", "resolved"} /\ case[c].resolution = "restricted"
    /\ case[c].resource \notin Accounts
    /\ case[c].resource \in Inventory => effect[c] = "active"

SubmitAppeal(c) ==
    /\ CanAppeal(c) /\ appeal[c] = "none"
    /\ appeal' = [appeal EXCEPT ![c] = "pending"]
    /\ case' = [case EXCEPT ![c].status = "appealed"]
    /\ UNCHANGED <<effect, column, takedownVars>>

MayReview(a, c) ==
    /\ appeal[c] = "pending"
    /\ a # Owner /\ a # case[c].decider
    /\ case[c].status = "appealed"

Uphold(a, c) ==
    /\ MayReview(a, c)
    /\ appeal' = [appeal EXCEPT ![c] = "upheld"]
    /\ Decide(a, c, "resolved", "restricted")
    /\ Apply(c, "restrict")
    /\ UNCHANGED takedownVars

\* Bug: Overturning that forgets to sync the report.
OverturnSilently(a, c) ==
    /\ MayReview(a, c)
    /\ appeal' = [appeal EXCEPT ![c] = "overturned"]
    /\ case' = [case EXCEPT ![c] = [@ EXCEPT !.status = "resolved", !.resolution = "restored",
                                              !.decider = a]]
    /\ Apply(c, "restore")
    /\ UNCHANGED takedownVars

Overturn(a, c) ==
    /\ MayReview(a, c)
    /\ appeal' = [appeal EXCEPT ![c] = "overturned"]
    /\ Decide(a, c, "resolved", "restored")
    /\ Apply(c, "restore")
    /\ UNCHANGED takedownVars

-----------------------------------------------------------------------------
(* Emergency takedowns.                                                    *)

\* NOW() is the time at which the transaction begins; then it waits for the
\* listing.
BeginTakedown(a, l) ==
    /\ waiting[a] = NoTakedown /\ begun < MaxTakedowns
    /\ begun' = begun + 1
    /\ waiting' = [waiting EXCEPT ![a] = [of |-> l, at |-> begun + 1]]
    /\ UNCHANGED <<case, effect, appeal, column, imposed, overtaken>>

Takedowns(l) == {c \in Cases : case[c].source = "manual" /\ case[c].resource = l}

\* Bug: A takedown that looks for a standing one by the status of its case.
ActiveTakedownByStatus(l) == {c \in Takedowns(l) : case[c].status = "actioned"}
ActiveTakedown(l) == {c \in Takedowns(l) : effect[c] = "active"}

\* A repeated takedown finds the case that stands.
FindTakedown(a) ==
    /\ waiting[a] # NoTakedown /\ ActiveTakedown(waiting[a].of) # {}
    /\ waiting' = [waiting EXCEPT ![a] = NoTakedown]
    /\ UNCHANGED <<case, effect, appeal, column, begun, imposed, overtaken>>

Takedown(a) ==
    /\ waiting[a] # NoTakedown /\ ActiveTakedown(waiting[a].of) = {}
    /\ waiting' = [waiting EXCEPT ![a] = NoTakedown]
    /\ LET l == waiting[a].of IN
       \E c \in FreshCases :
        /\ case' = [case EXCEPT ![c] = [NoCase EXCEPT !.source = "manual", !.resource = l,
                        !.status = "actioned", !.resolution = "restricted", !.decider = a]]
        /\ Impose(c)
        /\ imposed' = [imposed EXCEPT ![c] = waiting[a].at]
        /\ overtaken' = IF \E d \in Takedowns(l) : imposed[d] > waiting[a].at
                        THEN overtaken \cup {c} ELSE overtaken
    /\ UNCHANGED <<appeal, column, begun>>

\* ORDER BY imposed_at DESC LIMIT 1
Newest(l) == {c \in Takedowns(l) : \A d \in Takedowns(l) : imposed[d] <= imposed[c]}

\* Looks at the newest takedown only, and not at the status of its case; one
\* that a restore has released is found again, and nothing is done.
RestoreTakedown(a, l) ==
    /\ \E c \in Newest(l) :
        /\ ReleaseEffect(c, "manual_restore")
        /\ Decide(a, c, "resolved", "restored")
    /\ UNCHANGED <<appeal, column, takedownVars>>

-----------------------------------------------------------------------------
CaseNext ==
    \/ \E p \in Reporters, r \in Resources : Report(p, r)
    \/ \E m \in Media : MachineRejects(m)
    \/ \E a \in Admins, c \in Cases :
        StartReview(a, c) \/ RestrictByCase(a, c) \/ Dismiss(a, c) \/ Restore(a, c)
        \/ Uphold(a, c) \/ Overturn(a, c)
    \/ \E c \in Cases : SubmitAppeal(c)
    \/ \E a \in Admins, l \in Inventory : BeginTakedown(a, l) \/ RestoreTakedown(a, l)
    \/ \E a \in Admins : FindTakedown(a) \/ Takedown(a)

CaseSpec == CaseInit /\ [][CaseNext]_caseVars

-----------------------------------------------------------------------------
(* Properties.                                                             *)

\* A case that says a listing is restricted has its own effect in force, and
\* no other case has one: decisions, appeals, takedowns and restores of other
\* cases of the same listing neither lift it nor leave one behind.
EffectsMatchCases == \A c \in Cases : case[c].resource \in Inventory =>
    (effect[c] = "active" <=> case[c].resolution = "restricted")

\* What a reporter is told matches what became of the case, through appeals
\* and restores: dismissed exactly if no restriction came of it or it was
\* lifted again, resolved while one stands.
ReportsFollowCases == \A c \in Cases : case[c].source = "report" =>
    case[c].report = CASE case[c].resolution = "restricted" -> "resolved"
                       [] case[c].resolution \in {"restored", "no_violation"} -> "dismissed"
                       [] OTHER -> case[c].status

\* No two takedowns of a listing stand at once (the unique index would fail),
\* and a restore finds the one that stands, however requests wait for the
\* listing, but for one that began before a takedown which has come and gone
\* while it waited.
RestoreFindsTakedown == \A l \in Inventory : \A c \in ActiveTakedown(l) :
    /\ ActiveTakedown(l) = {c}
    /\ c \in Newest(l) \/ c \in overtaken

\* Refuted: restore_manual_listing_takedown finds every takedown.  The effect
\* of an overtaken one is not the newest by imposed_at (moderation_case.rs:923),
\* and restoring answers Ok (956-962) while the listing stays down.
EveryTakedownIsFound == \A l \in Inventory : ActiveTakedown(l) \subseteq Newest(l)

\* What every decision keeps true of a case, its effect and its report.
CasesAgree == EffectsMatchCases /\ ReportsFollowCases /\ RestoreFindsTakedown

\* docs/trust-safety.md: an appeal is reviewed, by an admin who took no part
\* in the decision.  So while it waits its case must be one review_appeal
\* accepts.
AppealAwaitsReview == \A c \in Cases : appeal[c] = "pending" => case[c].status = "appealed"

=============================================================================
