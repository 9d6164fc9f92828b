---------------------------- MODULE Interruptions ----------------------------
(***************************************************************************)
(* What may interrupt a user.  One topic is sent under the budget:         *)
(* recommendations for a wanted post.  Each of them is first recorded as   *)
(* an answer, then asks for permission in a transaction that locks the     *)
(* owner's settings, then writes its notification in another one.  The     *)
(* settings are changed from several devices, the ledger is marked by      *)
(* whoever reads the inbox.                                                *)
(***************************************************************************)
EXTENDS Integers, FiniteSets

CONSTANTS Attempts,     \* recommendations for the user's wanted posts
          Devices,      \* on which the user changes the settings
          Budgets,      \* values of daily_budget that a user may choose
          BudgetWindow, StatsWindow, \* 24 hours and 30 days
          MinOutcomes,  \* MIN_OUTCOMES_FOR_STATS
          LastHour      \* bound of the model

ASSUME BudgetsAssumption ==
    /\ Budgets \subseteq Nat
    /\ {BudgetWindow, StatsWindow, MinOutcomes} \subseteq Nat \ {0} /\ LastHour \in Nat
    /\ IsFiniteSet(Attempts)

VARIABLES hour,
          settings,  \* the row of interruption_preferences
          ledger,    \* the attempts: rows of interruption_ledger, once decided
          tuning,    \* what a device has read and is about to write
          highest    \* the largest budget there has been

attentionVars == <<hour, settings, ledger, tuning, highest>>

\* Hundredths of the worth of a message; a recommendation is worth 0.8.
Worth == 80
BaseThreshold == 30
CoolingThreshold == 60
ChilledThreshold == 85

NoAttempt == [step |-> "idle", at |-> 0, decision |-> "none", mark |-> "none"]

AttentionInit ==
    /\ hour = 0
    /\ settings \in [budget : Budgets, muted : {FALSE}, quiet : {0}]
    /\ ledger = [a \in Attempts |-> NoAttempt]
    /\ tuning = [d \in Devices |-> [step |-> "idle"]]
    /\ highest = settings.budget

-----------------------------------------------------------------------------
\* InterruptionService::request.  NOW() is the time of the transaction's
\* begin, before it waits for the lock; what it reads it reads afterwards.
AskPermission(a) ==
    /\ ledger[a].step = "idle"
    /\ ledger' = [ledger EXCEPT ![a] = [@ EXCEPT !.step = "begun", !.at = hour]]
    /\ UNCHANGED <<hour, settings, tuning, highest>>

Delivered == {a \in Attempts : ledger[a].decision = "delivered"}

\* How the user has treated the topic lately.
Judged(now) == {b \in Delivered : ledger[b].mark # "none" /\ ledger[b].at > now - StatsWindow}
ThresholdFor(now) ==
    LET outcomes == Cardinality(Judged(now))
        accepted == Cardinality({b \in Judged(now) : ledger[b].mark = "accepted"})
    IN  CASE outcomes < MinOutcomes -> BaseThreshold
          [] outcomes >= MinOutcomes /\ 5 * accepted < outcomes -> ChilledThreshold
          [] outcomes >= MinOutcomes /\ 5 * accepted \in outcomes..(2 * outcomes - 1) -> CoolingThreshold
          [] OTHER -> BaseThreshold

\* Bug: what others deliver while the request waits for the lock is not seen.
SpentBefore(now) == Cardinality({b \in Delivered : ledger[b].at \in (now - BudgetWindow + 1)..(now - 1)})

Spent(now) == Cardinality({b \in Delivered : ledger[b].at > now - BudgetWindow})

Verdict(now) ==
    IF settings.quiet > hour THEN "suppressed_quiet"
    ELSE IF settings.muted THEN "suppressed_muted"
    ELSE IF Worth < ThresholdFor(now) THEN "suppressed_low_value"
    ELSE IF Spent(now) >= settings.budget THEN "suppressed_budget" ELSE "delivered"

Permit(a) ==
    /\ ledger[a].step = "begun"
    /\ ledger' = [ledger EXCEPT ![a] = [@ EXCEPT !.step = "decided", !.decision = Verdict(ledger[a].at)]]
    /\ UNCHANGED <<hour, settings, tuning, highest>>

\* The budget cannot be consulted: nothing is recorded, and nothing pushed.
Unavailable(a) ==
    /\ ledger[a].step = "begun"
    /\ ledger' = [ledger EXCEPT ![a] = [@ EXCEPT !.step = "decided", !.decision = "unavailable"]]
    /\ UNCHANGED <<hour, settings, tuning, highest>>

\* create_budgeted: the notification, pushed or not, in a transaction of its
\* own.  If it fails the error is logged, and if the process ends before it
\* nobody will notice: a retry of the answer is a replay.
CreateBudgeted(a) ==
    /\ ledger[a].step = "decided"
    /\ \E end \in {"in_inbox", "lost"} : ledger' = [ledger EXCEPT ![a].step = end]
    /\ UNCHANGED <<hour, settings, tuning, highest>>

\* accept and dismiss: of what was delivered, and once.
MarkAccepted(a, mark) ==
    /\ a \in Delivered /\ ledger[a].mark = "none" /\ ledger[a].step = "in_inbox"
    /\ ledger' = [ledger EXCEPT ![a].mark = mark]
    /\ UNCHANGED <<hour, settings, tuning, highest>>

-----------------------------------------------------------------------------
\* update_preferences reads the settings, puts in what was asked for, and
\* writes all of them.
Quieter == {hour + 1}
ReadPreferences(d) ==
    /\ tuning[d].step = "idle"
    /\ \E new \in {[settings EXCEPT !.budget = b] : b \in Budgets}
                    \cup {[settings EXCEPT !.muted = ~@], [settings EXCEPT !.quiet = 0]}
                    \cup {[settings EXCEPT !.quiet = t] : t \in Quieter} :
          tuning' = [tuning EXCEPT ![d] = [step |-> "read", new |-> new]]
    /\ UNCHANGED <<hour, settings, ledger, highest>>

SetPreferences(d) ==
    /\ tuning[d].step = "read"
    /\ settings' = tuning[d].new
    /\ highest' = IF settings'.budget > highest THEN settings'.budget ELSE highest
    /\ tuning' = [tuning EXCEPT ![d] = [step |-> "done"]]
    /\ UNCHANGED <<hour, ledger>>

HourPasses ==
    /\ hour < LastHour /\ hour' = hour + 1
    /\ UNCHANGED <<settings, ledger, tuning, highest>>

AttentionNext ==
    \/ \E a \in Attempts :
          \/ AskPermission(a) \/ Permit(a) \/ Unavailable(a) \/ CreateBudgeted(a)
          \/ \E mark \in {"accepted", "dismissed"} : MarkAccepted(a, mark)
    \/ \E d \in Devices : ReadPreferences(d) \/ SetPreferences(d)
    \/ HourPasses

AttentionSpec == AttentionInit /\ [][AttentionNext]_attentionVars

-----------------------------------------------------------------------------
(* Properties.                                                             *)

\* In no stretch of 24 hours, wherever it begins, is a user interrupted more
\* often than the largest budget there has been allows, although every
\* request counts from the time at which it began to wait for the others.
BudgetHolds == \A t \in (1 - BudgetWindow)..LastHour :
    Cardinality({a \in Delivered : ledger[a].at \in t..(t + BudgetWindow - 1)}) <= highest

\* interruption.rs:24: what is held back is still written to the inbox.
EveryAnswerIsFound == \A a \in Attempts : ledger[a].step # "lost"
===============================================================================
