--------------------------- MODULE ActionPlanProofs ---------------------------
(***************************************************************************)
(* Theorems about ActionPlan, for every set of plans, users, listings and  *)
(* requests in flight.                                                     *)
(*                                                                         *)
(* The inductive invariant says what the lock of the plan's row protects:  *)
(* the one confirmation that holds it found the plan open and, for an L3   *)
(* plan, brought the second token (Locked).  That token travels only after *)
(* a first confirmation (TwoSteps), so a request can carry it only when    *)
(* the plan is armed or over (Carried).                                    *)
(***************************************************************************)
EXTENDS ActionPlan, TLAPS

\* A confirmation names a stored plan and carries a token its user was shown.
Carried ==
    \A c \in Calls : call[c].op = "confirm" =>
        /\ call[c].plan \in Rows
        /\ call[c].token \in known[call[c].plan] \cup {"wrong"}

\* Who holds the lock of an open plan's row: one request, past all the steps.
Locked ==
    /\ \A c \in Calls : Executing(c) =>
           /\ Open(call[c].plan)
           /\ L3(call[c].plan) => call[c].token = "second"
    /\ \A c, d \in Calls :
           Executing(c) /\ Executing(d) /\ call[c].plan = call[d].plan => c = d

\* An id that is not in the table has no tokens.
Unused == \A p \in Plans \ Rows : known[p] = {}

IInv == TypeOK /\ ExecutedOnce /\ TwoSteps /\ VerdictsAgree /\ Carried /\ Locked /\ Unused

USE OwnerAssumption, ActionAssumption, PriceAssumption, NoneAssumption, RevAssumption

-----------------------------------------------------------------------------
(* Facts about the tables. *)

LEMMA LiveRow ==
    ASSUME TypeOK, NEW p \in Rows
    PROVE  /\ p \in Plans
           /\ plan[p] \in PlanRow
           /\ plan[p].request \in Request
BY DEF TypeOK, Rows, NoRow, PlanRow

\* A row with the status of a row is one.
LEMMA StatusMakesRow ==
    ASSUME TypeOK, NEW p \in Plans,
           plan[p].status \in {"pending", "confirmed_once"} \cup Terminal
    PROVE  p \in Rows
BY DEF TypeOK, Rows, NoRow, PlanRow, Terminal

LEMMA CallKinds ==
    ASSUME TypeOK, NEW c \in Calls
    PROVE  /\ call[c].op = "confirm" => call[c] \in Confirm
           /\ call[c].op = "propose" => call[c] \in Draft
BY DEF TypeOK, Confirm, Draft, NoCall

\* Writing a row over an old or a free one.
LEMMA WriteRow ==
    ASSUME TypeOK, NEW p \in Plans, NEW row \in PlanRow,
           plan' = [plan EXCEPT ![p] = row]
    PROVE  /\ plan' \in [Plans -> PlanRow \cup {NoRow}]
           /\ plan'[p] = row
           /\ \A q \in Plans : q # p => plan'[q] = plan[q]
           /\ Rows' = Rows \cup {p}
<1>1. plan' \in [Plans -> PlanRow \cup {NoRow}] /\ plan'[p] = row
      /\ \A q \in Plans : q # p => plan'[q] = plan[q]
  BY DEF TypeOK
<1>2. row # NoRow
  BY DEF PlanRow, NoRow, Terminal
<1>3. \A q \in Plans : q \in Rows' <=> q = p \/ q \in Rows
  BY <1>1, <1>2 DEF Rows
<1>4. Rows \subseteq Plans /\ Rows' \subseteq Plans
  BY DEF Rows
<1> QED BY <1>1, <1>3, <1>4

\* Ending a request.
LEMMA EndCall ==
    ASSUME TypeOK, NEW c \in Calls, call' = [call EXCEPT ![c] = NoCall]
    PROVE  /\ call' \in [Calls -> Draft \cup Confirm \cup {NoCall}]
           /\ call'[c].op = "none"
           /\ \A d \in Calls : d # c => call'[d] = call[d]
BY DEF TypeOK, NoCall

LEMMA TouchType ==
    ASSUME TypeOK, NEW l \in Listings, NEW what
    PROVE  /\ Touch(l, what) \in Listing
           /\ \A price \in Prices : [Touch(l, what) EXCEPT !.price = price] \in Listing
           /\ \A s \in {"active", "sold", "deleted"} :
                  [Touch(l, what) EXCEPT !.status = s] \in Listing
<1>1. listing[l] \in Listing
  BY DEF TypeOK
<1> DEFINE rev == IF Revised(what) THEN listing[l].revision + 1 ELSE listing[l].revision
           edits == IF what = "price" THEN listing[l].edits ELSE listing[l].edits + 1
<1>2. rev \in Nat /\ edits \in Nat
  BY <1>1 DEF Listing
<1>3. Touch(l, what) = [listing[l] EXCEPT !.revision = rev, !.edits = edits]
  BY DEF Touch
<1>4. Touch(l, what) \in Listing
  <2> HIDE DEF rev, edits
  <2> QED BY <1>1, <1>2, <1>3 DEF Listing
<1> QED BY <1>4 DEF Listing

-----------------------------------------------------------------------------
(* Types. *)

LEMMA ApplyType ==
    ASSUME TypeOK, NEW q \in Request, Apply(q)
    PROVE  /\ listing' \in [Listings -> Listing]
           /\ intents' \subseteq Intent
           /\ talks' \subseteq [listing : Listings, user : Users]
<1>1. q.listing \in Listings /\ q.user \in Users /\ q.action \in Actions
      /\ q.amount \in Prices \cup {None} /\ q.amount \in Amounts(q.action)
  BY DEF Request
<1>2. CASE q.action = "purchase"
  <2>1. q.amount \in Prices
    BY <1>1, <1>2 DEF Amounts
  <2> QED BY <1>1, <1>2, <2>1 DEF Apply, TypeOK, Intent
<1>3. CASE q.action = "negotiate"
  BY <1>1, <1>3 DEF Apply, TypeOK
<1>4. CASE q.action = "update"
  <2> DEFINE new == IF q.amount = None THEN Touch(q.listing, "content")
                    ELSE [Touch(q.listing, "price") EXCEPT !.price = q.amount]
  <2>1. new \in Listing
    BY <1>1, TouchType
  <2>2. listing' = [listing EXCEPT ![q.listing] = new] /\ UNCHANGED <<intents, talks>>
    BY <1>4 DEF Apply
  <2> QED BY <1>1, <2>1, <2>2 DEF TypeOK
<1>5. CASE q.action = "delete"
  <2> DEFINE new == [Touch(q.listing, "status") EXCEPT !.status = "deleted"]
  <2>1. new \in Listing
    BY <1>1, TouchType
  <2>2. listing' = [listing EXCEPT ![q.listing] = new] /\ UNCHANGED <<intents, talks>>
    BY <1>5 DEF Apply
  <2> QED BY <1>1, <2>1, <2>2 DEF TypeOK
<1> QED BY <1>1, <1>2, <1>3, <1>4, <1>5

\* The steps that change the listing, the memberships or other people's deals.
LEMMA MarketType ==
    ASSUME TypeOK, Market
    PROVE  TypeOK'
<1>1. ASSUME NEW l \in Listings, NEW new \in Listing,
             listing' = [listing EXCEPT ![l] = new], restricted' \subseteq Listings, Others
      PROVE  TypeOK'
  BY <1>1 DEF Others, history, TypeOK
<1>2. ASSUME NEW l \in Listings, Edit(l)
      PROVE  TypeOK'
  BY <1>1, <1>2, TouchType DEF Edit, TypeOK
<1>3. ASSUME NEW l \in Listings, Restriction(l)
      PROVE  TypeOK'
  <2>1. restricted' \subseteq Listings
    BY <1>3 DEF Restriction, TypeOK
  <2> QED BY <1>1, <1>3, <2>1, TouchType DEF Restriction
<1>4. ASSUME NEW l \in Listings, NEW price \in Prices, Reprice(l, price)
      PROVE  TypeOK'
  BY <1>1, <1>4, TouchType DEF Reprice, TypeOK
<1>5. ASSUME NEW l \in Listings, NEW s \in {"active", "sold", "deleted"}, SetStatus(l, s)
      PROVE  TypeOK'
  BY <1>1, <1>5, TouchType DEF SetStatus, TypeOK
<1>6. ASSUME NEW u \in Users, Membership(u)
      PROVE  TypeOK'
  BY <1>6 DEF Membership, history, TypeOK
<1>7. ASSUME NEW i \in intents, EndIntent(i)
      PROVE  TypeOK'
  BY <1>7 DEF EndIntent, history, TypeOK
<1>8. ASSUME NEW t \in talks, EndTalk(t)
      PROVE  TypeOK'
  BY <1>8 DEF EndTalk, history, TypeOK
<1>9. ASSUME NEW i \in Intent, OpenIntent(i)
      PROVE  TypeOK'
  BY <1>9 DEF OpenIntent, history, TypeOK
<1> QED BY <1>2, <1>3, <1>4, <1>5, <1>6, <1>7, <1>8, <1>9 DEF Market

\* Proposals.
LEMMA ProposalType ==
    ASSUME TypeOK, NEW c \in Calls,
           \/ \E request \in Request : Propose(c, request)
           \/ \E p \in Plans : InsertPlan(c, p) \/ ReplayProposal(c, p)
    PROVE  TypeOK'
<1>1. ASSUME NEW request \in Request, Propose(c, request)
      PROVE  TypeOK'
  <2> DEFINE seen == [edits |-> listing[request.listing].edits,
                      price |-> listing[request.listing].price]
             draft == [op |-> "propose", request |-> request, snapshot |-> Snapshot(request),
                       seen |-> seen]
  <2>1. listing[request.listing] \in Listing
    BY DEF Request, TypeOK
  <2>2. seen \in View /\ Snapshot(request) \in Nat \cup {None}
    BY <2>1 DEF View, Snapshot, Listing
  <2>3. draft \in Draft
    BY <2>2 DEF Draft
  <2>4. call' = [call EXCEPT ![c] = draft]
    BY <1>1 DEF Propose
  <2>5. call' \in [Calls -> Draft \cup Confirm \cup {NoCall}]
    BY <2>3, <2>4 DEF TypeOK
  <2> QED BY <1>1, <2>5 DEF Propose, market, history, TypeOK
<1>2. ASSUME NEW p \in Plans, NEW ok \in BOOLEAN, call[c].op = "propose", Answered(c, p, ok)
      PROVE  /\ acks' \subseteq [request : Request, plan : Plans, ok : BOOLEAN]
             /\ call' \in [Calls -> Draft \cup Confirm \cup {NoCall}]
  <2>1. call[c].request \in Request
    BY <1>2, CallKinds DEF Draft
  <2>2. acks' \subseteq acks \cup {[request |-> call[c].request, plan |-> p, ok |-> ok]}
    BY <1>2 DEF Answered
  <2>3. acks' \subseteq [request : Request, plan : Plans, ok : BOOLEAN]
    BY <2>1, <2>2 DEF TypeOK
  <2> QED BY <1>2, <2>3, EndCall DEF Answered
<1>3. ASSUME NEW p \in Plans, InsertPlan(c, p)
      PROVE  TypeOK'
  <2> DEFINE row == [status |-> "pending", request |-> call[c].request,
                     snapshot |-> call[c].snapshot, seen |-> call[c].seen, result |-> None]
  <2>1. row \in PlanRow
    BY <1>3, CallKinds DEF InsertPlan, Draft, PlanRow, Results
  <2>2. plan' \in [Plans -> PlanRow \cup {NoRow}]
    BY <1>3, <2>1, WriteRow DEF InsertPlan
  <2> QED BY <1>2, <1>3, <2>2 DEF InsertPlan, market, TypeOK
<1>4. ASSUME NEW p \in Plans, ReplayProposal(c, p)
      PROVE  TypeOK'
  <2>1. SameRequest(p, c) \in BOOLEAN
    BY DEF SameRequest
  <2> QED BY <1>2, <1>4, <2>1 DEF ReplayProposal, market, TypeOK
<1> QED BY <1>1, <1>3, <1>4

\* What a confirmation writes into its plan's row.
LEMMA RowUpdates ==
    ASSUME TypeOK, NEW p \in Rows, NEW outcome \in Results \cup {"error"}
    PROVE  /\ \A s \in {"pending", "confirmed_once"} \cup Terminal :
                  [plan[p] EXCEPT !.status = s] \in PlanRow
           /\ [plan[p] EXCEPT !.status = IF outcome = "error" THEN "failed" ELSE "executed",
                              !.result = IF outcome = "error" THEN None ELSE outcome] \in PlanRow
           /\ Recorded(p, outcome) =
                  [plan EXCEPT ![p] =
                      [plan[p] EXCEPT
                          !.status = IF outcome = "error" THEN "failed" ELSE "executed",
                          !.result = IF outcome = "error" THEN None ELSE outcome]]
<1>1. plan[p] \in PlanRow /\ p \in Plans
  BY LiveRow
<1>2. \A s \in {"pending", "confirmed_once"} \cup Terminal :
          [plan[p] EXCEPT !.status = s] \in PlanRow
  BY <1>1 DEF PlanRow
<1> DEFINE s == IF outcome = "error" THEN "failed" ELSE "executed"
           r == IF outcome = "error" THEN None ELSE outcome
<1>3. s \in Terminal /\ r \in Results
  BY DEF Terminal, Results
<1>4. [plan[p] EXCEPT !.status = s, !.result = r] \in PlanRow
  <2> HIDE DEF s, r
  <2> QED BY <1>1, <1>3 DEF PlanRow
<1>5. Recorded(p, outcome) = [plan EXCEPT ![p] = [plan[p] EXCEPT !.status = s, !.result = r]]
  BY <1>1 DEF Recorded, TypeOK
<1> QED BY <1>2, <1>4, <1>5

\* Confirmations and the other steps on one plan.
LEMMA ConfirmationType ==
    ASSUME TypeOK, Carried, NEW c \in Calls, Confirmation(c)
    PROVE  TypeOK'
<1> DEFINE p == call[c].plan
<1>1. call[c].op = "confirm"
  BY DEF Confirmation, Reject, StartExecution, Repeat, Expire, Challenge, Execute, Waiting,
         Executing
<1>2. call[c] \in Confirm /\ p \in Rows /\ p \in Plans /\ plan[p] \in PlanRow
  BY <1>1, CallKinds, LiveRow DEF Carried
<1>3. ASSUME NEW row \in PlanRow, plan' = [plan EXCEPT ![p] = row]
      PROVE  plan' \in [Plans -> PlanRow \cup {NoRow}]
  BY <1>2, <1>3, WriteRow
<1>4. ASSUME NEW delivered \in BOOLEAN, NEW status \in Terminal, NEW result \in Results,
             Reply(c, delivered, p, status, result)
      PROVE  /\ told' \subseteq [plan : Plans, status : Terminal, result : Results]
             /\ call' \in [Calls -> Draft \cup Confirm \cup {NoCall}]
  <2>1. told' \subseteq told \cup {[plan |-> p, status |-> status, result |-> result]}
    BY <1>4 DEF Reply
  <2> QED BY <1>2, <1>4, <2>1, EndCall DEF Reply, TypeOK
<1>5. plan[p].result \in Results
  BY <1>2 DEF PlanRow
<1>6. CASE Reject(c)
  BY <1>6, EndCall DEF Reject, market, history, TypeOK
<1>7. CASE StartExecution(c)
  <2>1. [call[c] EXCEPT !.executing = TRUE] \in Confirm
    BY <1>2 DEF Confirm
  <2>2. call' = [call EXCEPT ![c] = [call[c] EXCEPT !.executing = TRUE]]
    BY <1>7 DEF StartExecution
  <2>3. call' \in [Calls -> Draft \cup Confirm \cup {NoCall}]
    BY <2>1, <2>2 DEF TypeOK
  <2> QED BY <1>7, <2>3 DEF StartExecution, market, history, TypeOK
<1>8. ASSUME NEW delivered \in BOOLEAN, Repeat(c, delivered)
      PROVE  TypeOK'
  <2>1. plan[p].status \in Terminal
    BY <1>2, <1>8 DEF Repeat, Confirmable, Open, PlanRow
  <2> QED BY <1>4, <1>5, <1>8, <2>1 DEF Repeat, market, TypeOK
<1>9. ASSUME NEW delivered \in BOOLEAN, Expire(c, delivered)
      PROVE  TypeOK'
  <2>1. [plan[p] EXCEPT !.status = "expired"] \in PlanRow /\ "expired" \in Terminal
    BY <1>2 DEF PlanRow, Terminal
  <2>2. plan' = [plan EXCEPT ![p] = [plan[p] EXCEPT !.status = "expired"]]
    BY <1>2, <1>9 DEF Expire, TypeOK
  <2> QED BY <1>3, <1>4, <1>5, <1>9, <2>1, <2>2 DEF Expire, market, TypeOK
<1>10. ASSUME NEW delivered \in BOOLEAN, Challenge(c, delivered)
       PROVE  TypeOK'
  <2>1. [plan[p] EXCEPT !.status = "confirmed_once"] \in PlanRow
    BY <1>2 DEF PlanRow
  <2>2. plan' = [plan EXCEPT ![p] = [plan[p] EXCEPT !.status = "confirmed_once"]]
    BY <1>2, <1>10 DEF Challenge, TypeOK
  <2>3. known' \in [Plans -> SUBSET Tokens]
    BY <1>10 DEF Challenge, TypeOK, Tokens
  <2> QED BY <1>3, <1>10, <2>1, <2>2, <2>3, EndCall DEF Challenge, market, TypeOK
<1>11. ASSUME NEW delivered \in BOOLEAN, NEW outcome \in Results \cup {"error"},
              Execute(c, delivered, outcome)
       PROVE  TypeOK'
  <2> DEFINE s == IF outcome = "error" THEN "failed" ELSE "executed"
             r == IF outcome = "error" THEN None ELSE outcome
  <2>1. s \in Terminal /\ r \in Results
    BY DEF Terminal, Results
  <2>2. plan' \in [Plans -> PlanRow \cup {NoRow}]
    <3> DEFINE row == [plan[p] EXCEPT !.status = s, !.result = r]
    <3>1. row \in PlanRow /\ Recorded(p, outcome) = [plan EXCEPT ![p] = row]
      BY <1>2, RowUpdates
    <3>2. plan' = Recorded(p, outcome)
      BY <1>11 DEF Execute
    <3> HIDE DEF row
    <3> QED BY <1>3, <3>1, <3>2
  <2>3. /\ told' \subseteq [plan : Plans, status : Terminal, result : Results]
        /\ call' \in [Calls -> Draft \cup Confirm \cup {NoCall}]
    <3>1. Reply(c, delivered, p, s, r)
      BY <1>11 DEF Execute
    <3> QED BY <1>4, <2>1, <3>1
  <2>4. facts' \in [Plans -> Nat]
    <3>1. facts[p] + 1 \in Nat
      BY <1>2 DEF TypeOK
    <3>2. facts' = facts \/ facts' = [facts EXCEPT ![p] = facts[p] + 1]
      BY <1>11 DEF Execute
    <3> QED BY <3>1, <3>2 DEF TypeOK
  <2>5. /\ listing' \in [Listings -> Listing]
        /\ intents' \subseteq Intent
        /\ talks' \subseteq [listing : Listings, user : Users]
    <3>1. CASE outcome = "done"
      BY <1>2, <1>11, <3>1, ApplyType, LiveRow DEF Execute
    <3>2. CASE outcome # "done"
      BY <1>11, <3>2 DEF Execute, TypeOK
    <3> QED BY <3>1, <3>2
  <2> QED BY <1>11, <2>2, <2>3, <2>4, <2>5 DEF Execute, TypeOK
<1> QED BY <1>6, <1>7, <1>8, <1>9, <1>10, <1>11 DEF Confirmation

LEMMA OtherType ==
    ASSUME TypeOK,
           \/ \E c \in Calls : \/ Abort(c)
                               \/ \E p \in Plans, token \in Tokens \cup {"wrong"} :
                                     Ask(c, p, token)
           \/ \E p \in Plans : ListPlan(p) \/ Cancel(p) \/ Elapse(p)
    PROVE  TypeOK'
<1>1. ASSUME NEW c \in Calls, Abort(c)
      PROVE  TypeOK'
  BY <1>1, EndCall DEF Abort, market, history, TypeOK
<1>2. ASSUME NEW c \in Calls, NEW p \in Plans, NEW token \in Tokens \cup {"wrong"},
             Ask(c, p, token)
      PROVE  TypeOK'
  <2> DEFINE new == [op |-> "confirm", plan |-> p, token |-> token,
                     late |-> p \in elapsed, executing |-> FALSE]
  <2>1. new \in Confirm
    BY DEF Confirm
  <2>2. call' = [call EXCEPT ![c] = new]
    BY <1>2 DEF Ask
  <2>3. call' \in [Calls -> Draft \cup Confirm \cup {NoCall}]
    BY <2>1, <2>2 DEF TypeOK
  <2> QED BY <1>2, <2>3 DEF Ask, market, history, TypeOK
<1>3. ASSUME NEW p \in Plans, ListPlan(p)
      PROVE  TypeOK'
  <2>1. Shown(p) \subseteq Tokens
    BY DEF Shown, Tokens
  <2>2. known' \in [Plans -> SUBSET Tokens]
    BY <1>3, <2>1 DEF ListPlan, TypeOK
  <2> QED BY <1>3, <2>2 DEF ListPlan, market, TypeOK
<1>4. ASSUME NEW p \in Plans, Cancel(p)
      PROVE  TypeOK'
  <2>1. p \in Rows
    BY <1>4 DEF Cancel
  <2>2. [plan[p] EXCEPT !.status = "cancelled"] \in PlanRow
    BY <2>1, LiveRow DEF PlanRow, Terminal
  <2>3. plan' = [plan EXCEPT ![p] = [plan[p] EXCEPT !.status = "cancelled"]]
    BY <1>4 DEF Cancel, TypeOK
  <2>4. plan' \in [Plans -> PlanRow \cup {NoRow}]
    BY <2>2, <2>3, WriteRow
  <2> QED BY <1>4, <2>4 DEF Cancel, market, history, TypeOK
<1>5. ASSUME NEW p \in Plans, Elapse(p)
      PROVE  TypeOK'
  BY <1>5 DEF Elapse, market, history, TypeOK
<1> QED BY <1>1, <1>2, <1>3, <1>4, <1>5

\* Every step keeps the types.
LEMMA StepType ==
    ASSUME TypeOK, Carried, [Next]_vars
    PROVE  TypeOK'
<1>1. CASE UNCHANGED vars
  BY <1>1 DEF vars, market, history, TypeOK
<1> QED BY <1>1, MarketType, ProposalType, ConfirmationType, OtherType DEF Next

-----------------------------------------------------------------------------
(* What the lock of a row protects. *)

\* Nothing is decided about a plan that is open or not yet stored.
LEMMA Undecided ==
    ASSUME TypeOK, ExecutedOnce, VerdictsAgree, NEW p \in Plans, p \in Rows => Open(p)
    PROVE  facts[p] = 0 /\ \A v \in told : v.plan # p
<1>1. ~(p \in Rows /\ plan[p].status \in Terminal)
  BY DEF Open, Terminal
<1>2. facts[p] \in Nat /\ facts[p] <= 1 /\ facts[p] # 1
  BY <1>1 DEF ExecutedOnce, TypeOK, Terminal
<1>3. ASSUME NEW v \in told, v.plan = p
      PROVE  FALSE
  <2>1. v.status \in Terminal
    BY DEF TypeOK
  <2>2. plan[p].status \in Terminal
    BY <1>3, <2>1 DEF VerdictsAgree
  <2> QED BY <1>1, <2>2, StatusMakesRow
<1> QED BY <1>2, <1>3

\* Writing such a row, short of executing it, decides nothing.
LEMMA StillUndecided ==
    ASSUME TypeOK, ExecutedOnce, NEW p \in Plans, p \in Rows => Open(p),
           NEW row \in PlanRow, row.status # "executed",
           plan' = [plan EXCEPT ![p] = row], facts' = facts
    PROVE  ExecutedOnce'
<1>1. /\ plan'[p] = row /\ Rows' = Rows \cup {p}
      /\ \A q \in Plans : q # p => plan'[q] = plan[q]
  BY WriteRow
<1>2. facts[p] # 1
  BY DEF ExecutedOnce, Open
<1> QED BY <1>1, <1>2 DEF ExecutedOnce

\* A row that nobody else has locked may be written, and requests may end.
LEMMA FreeRow ==
    ASSUME TypeOK, Carried, Locked, Unused, NEW p \in Plans, NEW row \in PlanRow,
           plan' = [plan EXCEPT ![p] = row],
           \A d \in Calls : call'[d] \in {call[d], NoCall},
           \A d \in Calls : Executing(d) /\ call[d].plan = p => call'[d] = NoCall,
           \A q \in Plans : known[q] \subseteq known'[q] /\ (q # p => known'[q] = known[q])
    PROVE  Carried' /\ Locked' /\ Unused'
<1>1. /\ plan'[p] = row /\ Rows' = Rows \cup {p} /\ Rows \subseteq Plans
      /\ \A q \in Plans : q # p => plan'[q] = plan[q]
  BY WriteRow DEF Rows
<1>2. ASSUME NEW d \in Calls, call'[d].op = "confirm"
      PROVE  call'[d] = call[d] /\ call[d].plan \in Rows
  BY <1>2 DEF NoCall, Carried
<1>3. Carried'
  BY <1>1, <1>2 DEF Carried
<1>4. ASSUME NEW d \in Calls, Executing(d)'
      PROVE  /\ Executing(d) /\ call'[d] = call[d]
             /\ call[d].plan # p /\ call[d].plan \in Plans
  BY <1>1, <1>2, <1>4 DEF Executing, NoCall
<1>5. Locked'
  BY <1>1, <1>4 DEF Locked, Open, L3
<1>6. Unused'
  BY <1>1 DEF Unused
<1> QED BY <1>3, <1>5, <1>6

\* So may requests alone.
LEMMA SameRows ==
    ASSUME TypeOK, Carried, Locked, Unused, plan' = plan,
           \A d \in Calls : call'[d] \in {call[d], NoCall},
           \A q \in Plans : known[q] \subseteq known'[q],
           \A q \in Plans \ Rows : known'[q] = known[q]
    PROVE  Carried' /\ Locked' /\ Unused'
<1>1. Rows' = Rows /\ Rows \subseteq Plans
  BY DEF Rows
<1>2. ASSUME NEW d \in Calls, call'[d].op = "confirm"
      PROVE  call'[d] = call[d] /\ call[d].plan \in Rows
  BY <1>2 DEF NoCall, Carried
<1>3. Carried'
  BY <1>1, <1>2 DEF Carried
<1>4. ASSUME NEW d \in Calls, Executing(d)'
      PROVE  Executing(d) /\ call'[d] = call[d]
  BY <1>2, <1>4 DEF Executing
<1>5. Locked'
  BY <1>4 DEF Locked, Open, L3
<1>6. Unused'
  BY <1>1 DEF Unused
<1> QED BY <1>3, <1>5, <1>6

Rest == ExecutedOnce /\ TwoSteps /\ VerdictsAgree /\ Carried /\ Locked /\ Unused

\* Steps that leave the table alone and at most end requests.
LEMMA NothingWritten ==
    ASSUME IInv, UNCHANGED <<plan, known, facts, told>>,
           \A d \in Calls : call'[d] \in {call[d], NoCall}
    PROVE  Rest'
<1>1. Carried' /\ Locked' /\ Unused'
  BY SameRows DEF IInv
<1>2. ExecutedOnce' /\ TwoSteps' /\ VerdictsAgree'
  BY DEF IInv, ExecutedOnce, TwoSteps, VerdictsAgree, Rows, L3
<1> QED BY <1>1, <1>2 DEF Rest

LEMMA ProposalStep ==
    ASSUME IInv, NEW c \in Calls, NEW p \in Plans, InsertPlan(c, p)
    PROVE  Rest'
<1> DEFINE row == [status |-> "pending", request |-> call[c].request,
                   snapshot |-> call[c].snapshot, seen |-> call[c].seen, result |-> None]
<1>1. TypeOK /\ p \notin Rows /\ plan' = [plan EXCEPT ![p] = row]
      /\ UNCHANGED <<known, facts, told>>
  BY DEF InsertPlan, IInv
<1>2. row \in PlanRow /\ row.status = "pending"
  BY <1>1, CallKinds DEF InsertPlan, Draft, PlanRow, Results
<1> HIDE DEF row
<1>3. /\ plan'[p] = row /\ Rows' = Rows \cup {p}
      /\ \A q \in Plans : q # p => plan'[q] = plan[q]
  BY <1>1, <1>2, WriteRow
<1>4. \A d \in Calls : call'[d] \in {call[d], NoCall}
  BY <1>1 DEF InsertPlan, Answered, TypeOK
<1>5. \A d \in Calls : Executing(d) => call[d].plan # p
  BY <1>1 DEF IInv, Carried, Executing
<1>6. Carried' /\ Locked' /\ Unused'
  BY <1>1, <1>2, <1>4, <1>5, FreeRow DEF IInv
<1>7. ExecutedOnce'
  BY <1>1, <1>2, StillUndecided DEF IInv
<1>8. TwoSteps'
  <2>1. known[p] = {}
    BY <1>1 DEF IInv, Unused
  <2>2. Rows \subseteq Plans
    BY DEF Rows
  <2> QED BY <1>1, <1>2, <1>3, <2>1, <2>2 DEF IInv, TwoSteps, L3
<1>9. VerdictsAgree'
  <2>1. \A v \in told : v.plan # p /\ v.plan \in Plans
    BY <1>1, Undecided DEF IInv, TypeOK
  <2> QED BY <1>1, <1>3, <2>1 DEF IInv, VerdictsAgree
<1> QED BY <1>6, <1>7, <1>8, <1>9 DEF Rest

LEMMA CancelStep ==
    ASSUME IInv, NEW p \in Plans, Cancel(p)
    PROVE  Rest'
<1> DEFINE row == [plan[p] EXCEPT !.status = "cancelled"]
<1>1. TypeOK /\ p \in Rows /\ Open(p) /\ ~Held(p) /\ UNCHANGED <<call, known, facts, told>>
  BY DEF Cancel, Cancellable, IInv, history
<1>2. plan' = [plan EXCEPT ![p] = row]
  BY <1>1 DEF Cancel, TypeOK
<1>3. row \in PlanRow /\ row.status = "cancelled" /\ row.request = plan[p].request
  BY <1>1, LiveRow DEF PlanRow, Terminal
<1> HIDE DEF row
<1>4. /\ plan'[p] = row /\ Rows' = Rows \cup {p}
      /\ \A q \in Plans : q # p => plan'[q] = plan[q]
  BY <1>1, <1>2, <1>3, WriteRow
<1>5. Carried' /\ Locked' /\ Unused'
  BY <1>1, <1>2, <1>3, FreeRow DEF IInv, Held
<1>6. ExecutedOnce'
  BY <1>1, <1>2, <1>3, StillUndecided DEF IInv
<1>7. TwoSteps'
  <2>1. Rows \subseteq Plans
    BY DEF Rows
  <2> QED BY <1>1, <1>3, <1>4, <2>1 DEF IInv, TwoSteps, L3
<1>8. VerdictsAgree'
  <2>1. \A v \in told : v.plan # p /\ v.plan \in Plans
    BY <1>1, Undecided DEF IInv, TypeOK
  <2> QED BY <1>1, <1>4, <2>1 DEF IInv, VerdictsAgree
<1> QED BY <1>5, <1>6, <1>7, <1>8 DEF Rest

\* The user learns the token of the current step: the second one when armed.
LEMMA ListStep ==
    ASSUME IInv, NEW p \in Plans, ListPlan(p)
    PROVE  Rest'
<1>1. TypeOK /\ p \in Rows /\ UNCHANGED <<plan, call, facts, told>>
      /\ known' = [known EXCEPT ![p] = known[p] \cup Shown(p)]
  BY DEF ListPlan, IInv
<1>2. \A q \in Plans : known[q] \subseteq known'[q] /\ (q # p => known'[q] = known[q])
  BY <1>1 DEF TypeOK
<1>3. Carried' /\ Locked' /\ Unused'
  BY <1>1, <1>2, SameRows DEF IInv
<1>4. TwoSteps'
  <2>1. Rows' = Rows /\ Rows \subseteq Plans
    BY <1>1 DEF Rows
  <2>2. "second" \in known'[p] /\ "second" \notin known[p] =>
            L3(p) /\ plan[p].status = "confirmed_once"
    BY <1>1 DEF TypeOK, Shown
  <2> QED BY <1>1, <1>2, <2>1, <2>2 DEF IInv, TwoSteps, L3
<1>5. ExecutedOnce' /\ VerdictsAgree'
  BY <1>1 DEF IInv, ExecutedOnce, VerdictsAgree, Rows
<1> QED BY <1>3, <1>4, <1>5 DEF Rest

\* Requests begin with a token their user was shown.
LEMMA AskStep ==
    ASSUME IInv, NEW c \in Calls, NEW p \in Plans, NEW token \in Tokens \cup {"wrong"},
           Ask(c, p, token)
    PROVE  Rest'
<1> DEFINE new == [op |-> "confirm", plan |-> p, token |-> token,
                   late |-> p \in elapsed, executing |-> FALSE]
<1>1. /\ TypeOK /\ p \in Rows /\ token \in known[p] \cup {"wrong"}
      /\ UNCHANGED <<plan, known, facts, told>> /\ Rows' = Rows
  BY DEF Ask, IInv, history, Rows
<1>2. call'[c] = new /\ \A d \in Calls : d # c => call'[d] = call[d]
  BY <1>1 DEF Ask, TypeOK
<1>3. new.op = "confirm" /\ new.plan = p /\ new.token = token /\ ~new.executing
  OBVIOUS
<1> HIDE DEF new
<1>4. Carried'
  BY <1>1, <1>2, <1>3 DEF IInv, Carried
<1>5. Locked'
  <2>1. \A d \in Calls : Executing(d)' => d # c /\ Executing(d) /\ call'[d] = call[d]
    BY <1>2, <1>3 DEF Executing
  <2> QED BY <1>1, <2>1 DEF IInv, Locked, Open, L3
<1>6. ExecutedOnce' /\ TwoSteps' /\ VerdictsAgree' /\ Unused'
  BY <1>1 DEF IInv, ExecutedOnce, TwoSteps, VerdictsAgree, Unused, L3
<1> QED BY <1>4, <1>5, <1>6 DEF Rest

LEMMA ProposeStep ==
    ASSUME IInv, NEW c \in Calls, NEW request \in Request, Propose(c, request)
    PROVE  Rest'
<1>1. TypeOK /\ UNCHANGED <<plan, known, facts, told>> /\ Rows' = Rows
  BY DEF Propose, IInv, history, Rows
<1>2. call'[c].op = "propose" /\ \A d \in Calls : d # c => call'[d] = call[d]
  BY <1>1 DEF Propose, TypeOK
<1>3. Carried'
  BY <1>1, <1>2 DEF IInv, Carried
<1>4. Locked'
  <2>1. \A d \in Calls : Executing(d)' => Executing(d) /\ call'[d] = call[d]
    BY <1>2 DEF Executing
  <2> QED BY <1>1, <2>1 DEF IInv, Locked, Open, L3
<1>5. ExecutedOnce' /\ TwoSteps' /\ VerdictsAgree' /\ Unused'
  BY <1>1 DEF IInv, ExecutedOnce, TwoSteps, VerdictsAgree, Unused, L3
<1> QED BY <1>3, <1>4, <1>5 DEF Rest

\* Taking the lock of an open, unlocked row with a token past its challenge.
LEMMA StartStep ==
    ASSUME IInv, NEW c \in Calls, StartExecution(c)
    PROVE  Rest'
<1> DEFINE p == call[c].plan
<1>1. /\ TypeOK /\ call[c].op = "confirm" /\ ~Held(p) /\ Open(p) /\ TokenIsValid(c)
      /\ ~Challenges(c) /\ UNCHANGED <<plan, known, facts, told>> /\ Rows' = Rows
  BY DEF StartExecution, Waiting, Confirmable, IInv, history, Rows
<1>2. call[c] \in Confirm
  BY <1>1, CallKinds
<1>3. /\ call'[c].op = "confirm" /\ call'[c].plan = p /\ call'[c].token = call[c].token
      /\ \A d \in Calls : d # c => call'[d] = call[d]
  BY <1>1, <1>2 DEF StartExecution, TypeOK, Confirm
<1>4. Carried'
  BY <1>1, <1>3 DEF IInv, Carried
<1>5. L3(p) => call[c].token = "second"
  BY <1>1 DEF TokenIsValid, Challenges
<1>6. \A d \in Calls : Executing(d) => call[d].plan # p
  BY DEF Held, StartExecution, Waiting
<1>7. Locked'
  <2>1. \A d \in Calls : d # c /\ Executing(d)' => Executing(d) /\ call'[d] = call[d]
    BY <1>3 DEF Executing
  <2>2. \A q \in {p} : Open(q)' = Open(q) /\ L3(q)' = L3(q)
    BY <1>1 DEF Open, L3
  <2> QED BY <1>1, <1>3, <1>5, <1>6, <2>1, <2>2 DEF IInv, Locked, Open, L3
<1>8. ExecutedOnce' /\ TwoSteps' /\ VerdictsAgree' /\ Unused'
  BY <1>1 DEF IInv, ExecutedOnce, TwoSteps, VerdictsAgree, Unused, L3
<1> QED BY <1>4, <1>7, <1>8 DEF Rest

\* What a waiting confirmation is looking at.
LEMMA WaitingCall ==
    ASSUME IInv, NEW c \in Calls, Waiting(c)
    PROVE  LET p == call[c].plan IN
           /\ p \in Rows /\ p \in Plans /\ plan[p] \in PlanRow /\ plan[p].request \in Request
           /\ call[c] \in Confirm /\ call[c].token \in known[p] \cup {"wrong"}
           /\ \A d \in Calls : Executing(d) => call[d].plan # p
<1> DEFINE p == call[c].plan
<1>1. TypeOK /\ call[c].op = "confirm"
  BY DEF IInv, Waiting
<1>2. p \in Rows /\ call[c].token \in known[p] \cup {"wrong"}
  BY <1>1 DEF IInv, Carried
<1>3. p \in Plans /\ plan[p] \in PlanRow /\ plan[p].request \in Request
  BY <1>1, <1>2, LiveRow
<1>4. call[c] \in Confirm
  BY <1>1, CallKinds
<1>5. \A d \in Calls : Executing(d) => call[d].plan # p
  BY DEF Waiting, Held
<1> QED BY <1>2, <1>3, <1>4, <1>5

\* A reply tells the user one verdict more.
LEMMA ReplyTells ==
    ASSUME TypeOK, NEW c \in Calls, NEW delivered \in BOOLEAN, NEW p \in Plans,
           NEW status, NEW result, Reply(c, delivered, p, status, result)
    PROVE  /\ \A v \in told' : \/ v \in told
                               \/ v.plan = p /\ v.status = status /\ v.result = result
           /\ \A d \in Calls : call'[d] \in {call[d], NoCall}
           /\ call'[c] = NoCall
BY DEF Reply, TypeOK

LEMMA RepeatStep ==
    ASSUME IInv, NEW c \in Calls, NEW delivered \in BOOLEAN, Repeat(c, delivered)
    PROVE  Rest'
<1> DEFINE p == call[c].plan
<1>1. TypeOK /\ Waiting(c) /\ UNCHANGED <<plan, known, facts>> /\ Rows' = Rows
  BY DEF Repeat, IInv, Rows
<1>2. p \in Plans
  BY <1>1, WaitingCall
<1>3. /\ \A v \in told' : \/ v \in told
                          \/ v.plan = p /\ v.status = plan[p].status /\ v.result = plan[p].result
      /\ \A d \in Calls : call'[d] \in {call[d], NoCall}
  BY <1>1, <1>2, ReplyTells DEF Repeat
<1>4. Carried' /\ Locked' /\ Unused'
  BY <1>1, <1>3, SameRows DEF IInv
<1>5. VerdictsAgree'
  BY <1>1, <1>3 DEF IInv, VerdictsAgree
<1>6. ExecutedOnce' /\ TwoSteps'
  BY <1>1 DEF IInv, ExecutedOnce, TwoSteps, L3
<1> QED BY <1>4, <1>5, <1>6 DEF Rest

LEMMA ExpireStep ==
    ASSUME IInv, NEW c \in Calls, NEW delivered \in BOOLEAN, Expire(c, delivered)
    PROVE  Rest'
<1> DEFINE p == call[c].plan
           row == [plan[p] EXCEPT !.status = "expired"]
<1>1. TypeOK /\ Waiting(c) /\ Open(p) /\ UNCHANGED <<known, facts>>
  BY DEF Expire, Expires, Confirmable, IInv
<1>2. p \in Plans /\ p \in Rows /\ \A d \in Calls : Executing(d) => call[d].plan # p
  BY <1>1, WaitingCall
<1>3. row \in PlanRow /\ row.status = "expired" /\ row.request = plan[p].request
      /\ row.result = plan[p].result
  BY <1>1, <1>2, LiveRow DEF PlanRow, Terminal
<1>4. plan' = [plan EXCEPT ![p] = row]
  BY <1>1 DEF Expire, TypeOK
<1>5. /\ \A v \in told' : \/ v \in told
                          \/ v.plan = p /\ v.status = "expired" /\ v.result = plan[p].result
      /\ \A d \in Calls : call'[d] \in {call[d], NoCall}
  BY <1>1, <1>2, ReplyTells DEF Expire
<1> HIDE DEF row
<1>6. /\ plan'[p] = row /\ Rows' = Rows \cup {p}
      /\ \A q \in Plans : q # p => plan'[q] = plan[q]
  BY <1>1, <1>2, <1>3, <1>4, WriteRow
<1>7. Carried' /\ Locked' /\ Unused'
  BY <1>1, <1>2, <1>3, <1>4, <1>5, FreeRow DEF IInv
<1>8. ExecutedOnce'
  BY <1>1, <1>2, <1>3, <1>4, StillUndecided DEF IInv
<1>9. TwoSteps'
  <2>1. Rows \subseteq Plans
    BY DEF Rows
  <2> QED BY <1>1, <1>2, <1>3, <1>6, <2>1 DEF IInv, TwoSteps, L3
<1>10. VerdictsAgree'
  <2>1. \A v \in told : v.plan # p /\ v.plan \in Plans
    BY <1>1, <1>2, Undecided DEF IInv, TypeOK
  <2> QED BY <1>3, <1>5, <1>6, <2>1 DEF IInv, VerdictsAgree
<1> QED BY <1>7, <1>8, <1>9, <1>10 DEF Rest

LEMMA ChallengeStep ==
    ASSUME IInv, NEW c \in Calls, NEW delivered \in BOOLEAN, Challenge(c, delivered)
    PROVE  Rest'
<1> DEFINE p == call[c].plan
           row == [plan[p] EXCEPT !.status = "confirmed_once"]
<1>1. TypeOK /\ Waiting(c) /\ Open(p) /\ L3(p) /\ UNCHANGED <<facts, told>>
  BY DEF Challenge, Challenges, Confirmable, IInv
<1>2. p \in Plans /\ p \in Rows /\ \A d \in Calls : Executing(d) => call[d].plan # p
  BY <1>1, WaitingCall
<1>3. row \in PlanRow /\ row.status = "confirmed_once" /\ row.request = plan[p].request
  BY <1>1, <1>2, LiveRow DEF PlanRow, Terminal
<1>4. plan' = [plan EXCEPT ![p] = row] /\ call' = [call EXCEPT ![c] = NoCall]
  BY <1>1 DEF Challenge, TypeOK
<1>5. \A q \in Plans : known[q] \subseteq known'[q] /\ (q # p => known'[q] = known[q])
  BY <1>1 DEF Challenge, TypeOK
<1>6. \A d \in Calls : call'[d] \in {call[d], NoCall}
  BY <1>1, <1>4 DEF TypeOK
<1> HIDE DEF row
<1>7. /\ plan'[p] = row /\ Rows' = Rows \cup {p}
      /\ \A q \in Plans : q # p => plan'[q] = plan[q]
  BY <1>1, <1>2, <1>3, <1>4, WriteRow
<1>8. Carried' /\ Locked' /\ Unused'
  BY <1>1, <1>2, <1>3, <1>4, <1>5, <1>6, FreeRow DEF IInv
<1>9. ExecutedOnce'
  BY <1>1, <1>2, <1>3, <1>4, StillUndecided DEF IInv
<1>10. TwoSteps'
  <2>1. Rows \subseteq Plans
    BY DEF Rows
  <2> QED BY <1>1, <1>2, <1>3, <1>5, <1>7, <2>1 DEF IInv, TwoSteps, L3
<1>11. VerdictsAgree'
  <2>1. \A v \in told : v.plan # p /\ v.plan \in Plans
    BY <1>1, <1>2, Undecided DEF IInv, TypeOK
  <2> QED BY <1>1, <1>7, <2>1 DEF IInv, VerdictsAgree
<1> QED BY <1>8, <1>9, <1>10, <1>11 DEF Rest

\* The action and the status: the request that holds the row is the only one.
LEMMA ExecuteStep ==
    ASSUME IInv, NEW c \in Calls, NEW delivered \in BOOLEAN,
           NEW outcome \in Results \cup {"error"}, Execute(c, delivered, outcome)
    PROVE  Rest'
<1> DEFINE p == call[c].plan
           s == IF outcome = "error" THEN "failed" ELSE "executed"
           r == IF outcome = "error" THEN None ELSE outcome
           row == [plan[p] EXCEPT !.status = s, !.result = r]
<1>1. TypeOK /\ Executing(c) /\ Open(p) /\ UNCHANGED known
  BY DEF Execute, IInv, Locked
<1>2. p \in Rows /\ p \in Plans /\ (L3(p) => "second" \in known[p])
  <2>1. p \in Rows /\ call[c].token \in known[p] \cup {"wrong"}
    BY <1>1 DEF IInv, Carried, Executing
  <2> QED BY <1>1, <2>1 DEF IInv, Locked, Rows
<1>3. row \in PlanRow /\ plan' = [plan EXCEPT ![p] = row]
  <2>1. row \in PlanRow /\ Recorded(p, outcome) = [plan EXCEPT ![p] = row]
    BY <1>1, <1>2, RowUpdates
  <2>2. plan' = Recorded(p, outcome)
    BY DEF Execute
  <2> QED BY <2>1, <2>2
<1>4. row.status = s /\ row.result = r /\ row.request = plan[p].request
  BY <1>1, <1>2, LiveRow DEF PlanRow
<1>5. Reply(c, delivered, p, s, r)
  BY DEF Execute
<1>6. facts' = IF outcome = "done" THEN [facts EXCEPT ![p] = facts[p] + 1] ELSE facts
  BY DEF Execute
<1> HIDE DEF row, s, r
<1>7. /\ \A v \in told' : \/ v \in told
                          \/ v.plan = p /\ v.status = s /\ v.result = r
      /\ \A d \in Calls : call'[d] \in {call[d], NoCall}
      /\ call'[c] = NoCall
  BY <1>1, <1>2, <1>5, ReplyTells
<1>8. /\ plan'[p] = row /\ Rows' = Rows
      /\ \A q \in Plans : q # p => plan'[q] = plan[q]
  <2>1. /\ plan'[p] = row /\ Rows' = Rows \cup {p}
        /\ \A q \in Plans : q # p => plan'[q] = plan[q]
    BY <1>1, <1>2, <1>3, WriteRow
  <2> QED BY <1>2, <2>1
<1>9. \A d \in Calls : Executing(d) /\ call[d].plan = p => call'[d] = NoCall
  BY <1>1, <1>7 DEF IInv, Locked
<1>10. Carried' /\ Locked' /\ Unused'
  BY <1>1, <1>2, <1>3, <1>7, <1>9, FreeRow DEF IInv
<1>11. facts[p] = 0 /\ \A v \in told : v.plan # p /\ v.plan \in Plans
  BY <1>1, <1>2, Undecided DEF IInv, TypeOK
<1>12. ExecutedOnce'
  <2>1. ASSUME NEW q \in Plans, q # p
        PROVE  /\ facts'[q] = facts[q] /\ plan'[q] = plan[q]
               /\ q \in Rows' <=> q \in Rows
    BY <1>1, <1>6, <1>8, <2>1 DEF TypeOK
  <2>2. facts'[p] = IF outcome = "done" THEN 1 ELSE 0
    BY <1>1, <1>2, <1>6, <1>11 DEF TypeOK
  <2>3. outcome = "done" <=> s = "executed" /\ r = "done"
    BY NoneAssumption DEF s, r
  <2> QED BY <1>2, <1>4, <1>8, <2>1, <2>2, <2>3 DEF IInv, ExecutedOnce
<1>13. TwoSteps'
  <2>1. Rows \subseteq Plans /\ s \in {"executed", "failed"}
    BY DEF Rows, s
  <2> QED BY <1>1, <1>2, <1>4, <1>8, <2>1 DEF IInv, TwoSteps, L3
<1>14. VerdictsAgree'
  BY <1>4, <1>7, <1>8, <1>11 DEF IInv, VerdictsAgree
<1> QED BY <1>10, <1>12, <1>13, <1>14 DEF Rest

THEOREM StepKeepsInvariant == IInv /\ [Next]_vars => IInv'
<1> SUFFICES ASSUME IInv, [Next]_vars PROVE IInv'
  OBVIOUS
<1>1. TypeOK'
  BY StepType DEF IInv
<1>2. ASSUME UNCHANGED vars
      PROVE  Rest'
  <2>1. UNCHANGED <<plan, call, known, facts, told>>
    BY <1>2 DEF vars, history
  <2>2. \A d \in Calls : call'[d] \in {call[d], NoCall}
    BY <2>1
  <2> QED BY <2>1, <2>2, NothingWritten
<1>3. ASSUME NEW c \in Calls, NEW request \in Request, Propose(c, request)
      PROVE  Rest'
  BY <1>3, ProposeStep
<1>4. ASSUME NEW c \in Calls, NEW p \in Plans, InsertPlan(c, p)
      PROVE  Rest'
  BY <1>4, ProposalStep
<1>5. ASSUME NEW c \in Calls, NEW p \in Plans, ReplayProposal(c, p)
      PROVE  Rest'
  BY <1>5, NothingWritten DEF ReplayProposal, Answered, IInv, TypeOK
<1>6. ASSUME NEW c \in Calls, NEW p \in Plans, NEW token \in Tokens \cup {"wrong"},
             Ask(c, p, token)
      PROVE  Rest'
  BY <1>6, AskStep
<1>7. ASSUME NEW c \in Calls, Reject(c) \/ Abort(c)
      PROVE  Rest'
  BY <1>7, NothingWritten DEF Reject, Abort, history, IInv, TypeOK
<1>8. ASSUME NEW c \in Calls, Confirmation(c)
      PROVE  Rest'
  BY <1>7, <1>8, StartStep, RepeatStep, ExpireStep, ChallengeStep, ExecuteStep DEF Confirmation
<1>9. ASSUME NEW p \in Plans, ListPlan(p) \/ Cancel(p) \/ Elapse(p)
      PROVE  Rest'
  <2>1. CASE Elapse(p)
    BY <2>1, NothingWritten DEF Elapse, history
  <2> QED BY <1>9, <2>1, ListStep, CancelStep
<1>10. ASSUME Market
       PROVE  Rest'
  <2>1. UNCHANGED <<plan, call, known, facts, told>>
    BY <1>10 DEF Market, Edit, Restriction, Reprice, SetStatus, Others, Membership, OpenIntent,
                 EndIntent, EndTalk, history
  <2>2. \A d \in Calls : call'[d] \in {call[d], NoCall}
    BY <2>1
  <2> QED BY <2>1, <2>2, NothingWritten
<1>11. Rest'
  BY <1>2, <1>3, <1>4, <1>5, <1>6, <1>7, <1>8, <1>9, <1>10 DEF Next
<1> QED BY <1>1, <1>11 DEF IInv, Rest

LEMMA InitInvariant == Init => IInv
<1> SUFFICES ASSUME Init PROVE IInv
  OBVIOUS
<1>1. Rows = {} /\ told = {} /\ \A p \in Plans : known[p] = {} /\ facts[p] = 0
  BY DEF Init, Rows
<1>2. \A c \in Calls : call[c].op = "none"
  BY DEF Init, NoCall
<1>3. TypeOK
  <2>1. PICK price \in Prices :
            listing = [l \in Listings |->
                [status |-> "active", revision |-> 1, price |-> price, edits |-> 0]]
    BY DEF Init
  <2>2. listing \in [Listings -> Listing]
    BY <2>1 DEF Listing
  <2> QED BY <2>2 DEF Init, TypeOK
<1>4. ExecutedOnce /\ TwoSteps /\ VerdictsAgree /\ Unused
  BY <1>1 DEF ExecutedOnce, TwoSteps, VerdictsAgree, Unused
<1>5. Carried /\ Locked
  BY <1>2 DEF Carried, Locked, Executing
<1> QED BY <1>3, <1>4, <1>5 DEF IInv

THEOREM InvariantHolds == Spec => []IInv
BY InitInvariant, StepKeepsInvariant, PTL DEF Spec

-----------------------------------------------------------------------------
(* Theorems. *)

\* Every reachable state has the declared types.
THEOREM TypeCorrect == Spec => []TypeOK
<1>1. IInv => TypeOK
  BY DEF IInv
<1> QED BY <1>1, InvariantHolds, PTL

\* However a plan's confirmations interleave, are cut off and are repeated,
\* it leaves one business fact at most, together with its status.
THEOREM PlansExecuteOnce == Spec => []ExecutedOnce
<1>1. IInv => ExecutedOnce
  BY DEF IInv
<1> QED BY <1>1, InvariantHolds, PTL

\* No L3 action runs unless its user was given the second token, and that
\* happens only after a first confirmation.
THEOREM L3TakesTwoSteps == Spec => []TwoSteps
<1>1. IInv => TwoSteps
  BY DEF IInv
<1> QED BY <1>1, InvariantHolds, PTL

\* Every final answer a user has received stays true.
THEOREM AnswersStayTrue == Spec => []VerdictsAgree
<1>1. IInv => VerdictsAgree
  BY DEF IInv
<1> QED BY <1>1, InvariantHolds, PTL

\* A plan that is over stays as it is and leaves no further fact.
THEOREM EndsAreFinal == Spec => TerminalIsFinal
<1>1. ASSUME IInv, Next, NEW p \in Rows, plan[p].status \in Terminal
      PROVE  plan'[p] = plan[p] /\ facts'[p] = facts[p]
  <2>1. TypeOK /\ p \in Plans /\ ~Open(p)
    BY <1>1 DEF IInv, Rows, Open, Terminal
  <2>2. ASSUME NEW c \in Calls, NEW q \in Plans, InsertPlan(c, q)
        PROVE  plan'[p] = plan[p] /\ facts'[p] = facts[p]
    BY <1>1, <2>1, <2>2 DEF InsertPlan, TypeOK
  <2>3. ASSUME NEW q \in Plans, Cancel(q)
        PROVE  plan'[p] = plan[p] /\ facts'[p] = facts[p]
    BY <2>1, <2>3 DEF Cancel, Cancellable, history, TypeOK
  <2>4. ASSUME NEW c \in Calls, Confirmation(c)
        PROVE  plan'[p] = plan[p] /\ facts'[p] = facts[p]
    <3>1. CASE Reject(c) \/ StartExecution(c)
      BY <3>1 DEF Reject, StartExecution, history
    <3>2. ASSUME NEW delivered \in BOOLEAN, Repeat(c, delivered)
          PROVE  plan'[p] = plan[p] /\ facts'[p] = facts[p]
      BY <3>2 DEF Repeat
    <3>3. ASSUME NEW delivered \in BOOLEAN, Expire(c, delivered) \/ Challenge(c, delivered)
          PROVE  plan'[p] = plan[p] /\ facts'[p] = facts[p]
      BY <2>1, <3>3 DEF Expire, Expires, Challenge, Confirmable, TypeOK
    <3>4. ASSUME NEW delivered \in BOOLEAN, NEW outcome \in Results \cup {"error"},
                 Execute(c, delivered, outcome)
          PROVE  plan'[p] = plan[p] /\ facts'[p] = facts[p]
      <4>1. call[c].plan # p
        BY <1>1, <2>1, <3>4 DEF Execute, IInv, Locked
      <4> QED BY <2>1, <3>4, <4>1 DEF Execute, Recorded, TypeOK
    <3> QED BY <2>4, <3>1, <3>2, <3>3, <3>4 DEF Confirmation
  <2>5. ASSUME NEW c \in Calls,
               \/ \E request \in Request : Propose(c, request)
               \/ \E q \in Plans : ReplayProposal(c, q)
               \/ \E q \in Plans, token \in Tokens \cup {"wrong"} : Ask(c, q, token)
               \/ Abort(c)
        PROVE  plan'[p] = plan[p] /\ facts'[p] = facts[p]
    BY <2>5 DEF Propose, ReplayProposal, Ask, Abort, history
  <2>6. ASSUME NEW q \in Plans, ListPlan(q) \/ Elapse(q)
        PROVE  plan'[p] = plan[p] /\ facts'[p] = facts[p]
    BY <2>6 DEF ListPlan, Elapse, history
  <2>7. CASE Market
    BY <2>7 DEF Market, Edit, Restriction, Reprice, SetStatus, Others, Membership, OpenIntent,
                EndIntent, EndTalk, history
  <2> QED BY <1>1, <2>2, <2>3, <2>4, <2>5, <2>6, <2>7 DEF Next
<1>2. IInv /\ [Next]_vars =>
          [\A p \in Rows : plan[p].status \in Terminal =>
              plan'[p] = plan[p] /\ facts'[p] = facts[p]]_vars
  BY <1>1
<1> QED BY <1>2, InvariantHolds, PTL DEF Spec, TerminalIsFinal

-----------------------------------------------------------------------------
(* The revision counts what the snapshot has to protect.                   *)

\* A snapshot is the revision of what was seen; a plan to change somebody
\* else's listing has none, and does nothing.
Snapped(request, snapshot, seen) ==
    \/ snapshot = seen.edits + 1
    \/ request.action \in {"update", "delete"} /\ Owner[request.listing] # request.user

Counted ==
    /\ \A l \in Listings : listing[l].revision = listing[l].edits + 1
    /\ \A p \in Rows : Snapped(plan[p].request, plan[p].snapshot, plan[p].seen)
    /\ \A c \in Calls : call[c].op = "propose" =>
           Snapped(call[c].request, call[c].snapshot, call[c].seen)

LEMMA TouchCounts ==
    ASSUME TypeOK, Counted, NEW l \in Listings,
           NEW what \in {"content", "status", "restriction", "price"}
    PROVE  /\ Touch(l, what) \in Listing
           /\ Touch(l, what).revision = Touch(l, what).edits + 1
<1>1. /\ listing[l] \in Listing /\ listing[l].revision = listing[l].edits + 1
      /\ Touch(l, what) \in Listing
  BY TouchType DEF TypeOK, Counted
<1>2. /\ Touch(l, what).revision =
             IF Revised(what) THEN listing[l].revision + 1 ELSE listing[l].revision
      /\ Touch(l, what).edits = IF what = "price" THEN listing[l].edits ELSE listing[l].edits + 1
  BY <1>1 DEF Touch, Listing
<1>3. Revised(what) <=> what # "price"
  BY DEF Revised
<1>4. Touch(l, what).revision = Touch(l, what).edits + 1
  BY <1>1, <1>2, <1>3 DEF Listing
<1> QED BY <1>1, <1>4

\* Changing one listing by Touch keeps the count.
LEMMA ListingStep ==
    ASSUME TypeOK, Counted, NEW l \in Listings, NEW new,
           new.revision = new.edits + 1, listing' = [listing EXCEPT ![l] = new]
    PROVE  \A k \in Listings : listing'[k].revision = listing'[k].edits + 1
BY DEF TypeOK, Counted

LEMMA MarketCounts ==
    ASSUME TypeOK, Counted, Market
    PROVE  \A k \in Listings : listing'[k].revision = listing'[k].edits + 1
<1>1. ASSUME NEW l \in Listings, Edit(l)
      PROVE  \A k \in Listings : listing'[k].revision = listing'[k].edits + 1
  BY <1>1, TouchCounts, ListingStep DEF Edit
<1>2. ASSUME NEW l \in Listings, Restriction(l)
      PROVE  \A k \in Listings : listing'[k].revision = listing'[k].edits + 1
  BY <1>2, TouchCounts, ListingStep DEF Restriction
<1>3. ASSUME NEW l \in Listings, NEW price \in Prices, Reprice(l, price)
      PROVE  \A k \in Listings : listing'[k].revision = listing'[k].edits + 1
  <2> DEFINE new == [Touch(l, "price") EXCEPT !.price = price]
  <2>1. listing' = [listing EXCEPT ![l] = new]
    BY <1>3 DEF Reprice
  <2>2. new.revision = new.edits + 1
    BY TouchCounts DEF Listing
  <2> HIDE DEF new
  <2> QED BY <2>1, <2>2, ListingStep
<1>4. ASSUME NEW l \in Listings, NEW s \in {"active", "sold", "deleted"}, SetStatus(l, s)
      PROVE  \A k \in Listings : listing'[k].revision = listing'[k].edits + 1
  <2> DEFINE new == [Touch(l, "status") EXCEPT !.status = s]
  <2>1. listing' = [listing EXCEPT ![l] = new]
    BY <1>4 DEF SetStatus
  <2>2. new.revision = new.edits + 1
    BY TouchCounts DEF Listing
  <2> HIDE DEF new
  <2> QED BY <2>1, <2>2, ListingStep
<1>5. CASE UNCHANGED listing
  BY <1>5 DEF Counted
<1> QED BY <1>1, <1>2, <1>3, <1>4, <1>5 DEF Market, Membership, OpenIntent, EndIntent, EndTalk

LEMMA ApplyCounts ==
    ASSUME TypeOK, Counted, NEW q \in Request, Apply(q)
    PROVE  \A k \in Listings : listing'[k].revision = listing'[k].edits + 1
<1>1. q.listing \in Listings /\ q.action \in Actions
  BY DEF Request
<1>2. CASE q.action = "update" /\ q.amount = None
  BY <1>1, <1>2, TouchCounts, ListingStep DEF Apply
<1>3. CASE q.action = "update" /\ q.amount # None
  <2> DEFINE new == [Touch(q.listing, "price") EXCEPT !.price = q.amount]
  <2>1. listing' = [listing EXCEPT ![q.listing] = new]
    BY <1>3 DEF Apply
  <2>2. new.revision = new.edits + 1
    BY <1>1, TouchCounts DEF Listing
  <2> HIDE DEF new
  <2> QED BY <1>1, <2>1, <2>2, ListingStep
<1>4. CASE q.action = "delete"
  <2> DEFINE new == [Touch(q.listing, "status") EXCEPT !.status = "deleted"]
  <2>1. listing' = [listing EXCEPT ![q.listing] = new]
    BY <1>4 DEF Apply
  <2>2. new.revision = new.edits + 1
    BY <1>1, TouchCounts DEF Listing
  <2> HIDE DEF new
  <2> QED BY <1>1, <2>1, <2>2, ListingStep
<1>5. CASE q.action \in {"purchase", "negotiate"}
  BY <1>5 DEF Apply, Counted
<1> QED BY <1>1, <1>2, <1>3, <1>4, <1>5

THEOREM StepCounts == IInv /\ Counted /\ [Next]_vars => Counted'
<1> SUFFICES ASSUME IInv, Counted, [Next]_vars PROVE Counted'
  OBVIOUS
<1>1. TypeOK /\ Carried
  BY DEF IInv
<1>2. \A k \in Listings : listing'[k].revision = listing'[k].edits + 1
  <2>1. ASSUME NEW c \in Calls, Confirmation(c)
        PROVE  \A k \in Listings : listing'[k].revision = listing'[k].edits + 1
    <3>1. ASSUME NEW delivered \in BOOLEAN, NEW outcome \in Results \cup {"error"},
                 Execute(c, delivered, outcome)
          PROVE  \A k \in Listings : listing'[k].revision = listing'[k].edits + 1
      <4>1. plan[call[c].plan].request \in Request
        BY <1>1, <3>1, LiveRow DEF Execute, Executing, Carried
      <4>2. CASE outcome = "done"
        BY <1>1, <3>1, <4>1, <4>2, ApplyCounts DEF Execute
      <4>3. CASE outcome # "done"
        BY <3>1, <4>3 DEF Execute, Counted
      <4> QED BY <4>2, <4>3
    <3>2. CASE UNCHANGED listing
      BY <3>2 DEF Counted
    <3> QED BY <2>1, <3>1, <3>2 DEF Confirmation, Reject, StartExecution, Repeat, Expire,
                                    Challenge, market
  <2>2. CASE Market
    BY <1>1, <2>2, MarketCounts
  <2>3. CASE UNCHANGED listing
    BY <2>3 DEF Counted
  <2> QED BY <2>1, <2>2, <2>3 DEF Next, Propose, InsertPlan, ReplayProposal, Ask, Abort, ListPlan,
                                  Cancel, Elapse, market, vars
<1>3. ASSUME NEW p \in Rows'
      PROVE  Snapped(plan[p].request, plan[p].snapshot, plan[p].seen)'
  <2>0. p \in Plans /\ plan'[p] # NoRow
    BY DEF Rows
  <2>1. \/ /\ p \in Rows
           /\ plan'[p].request = plan[p].request
           /\ plan'[p].snapshot = plan[p].snapshot /\ plan'[p].seen = plan[p].seen
        \/ \E c \in Calls : InsertPlan(c, p)
    <3>1. ASSUME NEW q \in Rows, NEW s, NEW r,
                 \/ plan' = [plan EXCEPT ![q].status = s]
                 \/ plan' = [plan EXCEPT ![q].status = s, ![q].result = r]
          PROVE  /\ p \in Rows
                 /\ plan'[p].request = plan[p].request
                 /\ plan'[p].snapshot = plan[p].snapshot /\ plan'[p].seen = plan[p].seen
      <4>1. plan[q] \in PlanRow /\ q \in Plans
        BY <1>1, LiveRow
      <4>2. plan \in [Plans -> PlanRow \cup {NoRow}]
        BY <1>1 DEF TypeOK
      <4>3. p # q => plan'[p] = plan[p]
        BY <2>0, <3>1, <4>1, <4>2
      <4>4. p = q => /\ plan'[p].request = plan[p].request
                     /\ plan'[p].snapshot = plan[p].snapshot /\ plan'[p].seen = plan[p].seen
        BY <2>0, <3>1, <4>1, <4>2 DEF PlanRow
      <4> QED BY <2>0, <3>1, <4>3, <4>4 DEF Rows
    <3>2. CASE plan' = plan
      BY <2>0, <3>2 DEF Rows
    <3>3. ASSUME NEW c \in Calls, Confirmation(c)
          PROVE  \/ plan' = plan
                 \/ \E q \in Rows, s \in {"failed", "executed", "expired", "confirmed_once"},
                       r \in Results :
                        \/ plan' = [plan EXCEPT ![q].status = s]
                        \/ plan' = [plan EXCEPT ![q].status = s, ![q].result = r]
      <4>1. ASSUME NEW delivered \in BOOLEAN, NEW outcome \in Results \cup {"error"},
                   Execute(c, delivered, outcome)
            PROVE  \E q \in Rows, s \in {"failed", "executed"}, r \in Results :
                        plan' = [plan EXCEPT ![q].status = s, ![q].result = r]
        <5>1. call[c].plan \in Rows
          BY <1>1, <4>1 DEF Execute, Executing, Carried
        <5>2. CASE outcome = "error"
          <6>1. plan' = [plan EXCEPT ![call[c].plan].status = "failed",
                                     ![call[c].plan].result = None]
            BY <4>1, <5>2 DEF Execute, Recorded
          <6> QED BY <5>1, <6>1 DEF Results
        <5>3. CASE outcome # "error"
          <6>1. plan' = [plan EXCEPT ![call[c].plan].status = "executed",
                                     ![call[c].plan].result = outcome]
            BY <4>1, <5>3 DEF Execute, Recorded
          <6> QED BY <5>1, <5>3, <6>1
        <5> QED BY <5>2, <5>3
      <4>2. ASSUME NEW delivered \in BOOLEAN, Expire(c, delivered)
            PROVE  \E q \in Rows : plan' = [plan EXCEPT ![q].status = "expired"]
        BY <1>1, <4>2 DEF Expire, Waiting, Carried
      <4>3. ASSUME NEW delivered \in BOOLEAN, Challenge(c, delivered)
            PROVE  \E q \in Rows : plan' = [plan EXCEPT ![q].status = "confirmed_once"]
        BY <1>1, <4>3 DEF Challenge, Waiting, Carried
      <4>4. None \in Results
        BY DEF Results
      <4> QED BY <3>3, <4>1, <4>2, <4>3, <4>4 DEF Confirmation, Reject, StartExecution, Repeat
    <3>4. ASSUME NEW c \in Calls, NEW q \in Plans, InsertPlan(c, q), p # q
          PROVE  plan'[p] = plan[p]
      BY <1>1, <2>0, <3>4 DEF InsertPlan, TypeOK
    <3>5. ASSUME NEW c \in Calls, NEW q \in Plans, InsertPlan(c, q)
          PROVE  <2>1!:
      BY <2>0, <3>4, <3>5 DEF Rows
    <3>6. ASSUME NEW q \in Plans, Cancel(q)
          PROVE  <2>1!:
      BY <3>1, <3>6 DEF Cancel
    <3>7. CASE Market
      BY <3>2, <3>7 DEF Market, Edit, Restriction, Reprice, SetStatus, Others, Membership,
                        OpenIntent, EndIntent, EndTalk
    <3>8. ASSUME NEW c \in Calls, Confirmation(c)
          PROVE  <2>1!:
      BY <3>1, <3>2, <3>3, <3>8
    <3> QED BY <3>2, <3>5, <3>6, <3>7, <3>8
            DEF Next, Propose, ReplayProposal, Ask, Abort, ListPlan, Elapse, vars
  <2>2. ASSUME NEW c \in Calls, InsertPlan(c, p)
        PROVE  Snapped(plan[p].request, plan[p].snapshot, plan[p].seen)'
    <3>1. Snapped(call[c].request, call[c].snapshot, call[c].seen)
      BY <2>2 DEF InsertPlan, Counted
    <3>2. /\ plan'[p].request = call[c].request /\ plan'[p].snapshot = call[c].snapshot
          /\ plan'[p].seen = call[c].seen
      BY <1>1, <2>0, <2>2 DEF InsertPlan, TypeOK
    <3> QED BY <3>1, <3>2 DEF Snapped
  <2> QED BY <2>1, <2>2 DEF Counted, Snapped
<1>4. ASSUME NEW c \in Calls, (call[c].op = "propose")'
      PROVE  Snapped(call[c].request, call[c].snapshot, call[c].seen)'
  <2>1. ASSUME NEW request \in Request, Propose(c, request)
        PROVE  Snapped(call[c].request, call[c].snapshot, call[c].seen)'
    <3>1. request.listing \in Listings
      BY DEF Request
    <3>2. /\ call'[c].request = request /\ call'[c].snapshot = Snapshot(request)
          /\ call'[c].seen.edits = listing[request.listing].edits
      BY <1>1, <2>1 DEF Propose, TypeOK
    <3>3. \/ Snapshot(request) = listing[request.listing].edits + 1
          \/ request.action \in {"update", "delete"} /\ Owner[request.listing] # request.user
      BY <3>1 DEF Snapshot, Counted
    <3> QED BY <3>2, <3>3 DEF Snapped
  <2>2. CASE call'[c] = call[c]
    BY <1>4, <2>2 DEF Counted, Snapped
  <2>3. CASE call'[c].op # "propose"
    BY <1>4, <2>3
  <2>4. ASSUME NEW d \in Calls, NEW new, call' = [call EXCEPT ![d] = new]
        PROVE  (d = c /\ call'[c] = new) \/ call'[c] = call[c]
    BY <1>1, <2>4 DEF TypeOK
  <2>5. NoCall.op # "propose"
    BY DEF NoCall
  <2>6. ASSUME NEW d \in Calls, NEW q \in Plans, NEW token, Ask(d, q, token)
        PROVE  call'[c] = call[c] \/ call'[c].op = "confirm"
    BY <2>4, <2>6 DEF Ask
  <2>7. ASSUME NEW d \in Calls, NEW q \in Plans, InsertPlan(d, q) \/ ReplayProposal(d, q)
        PROVE  call'[c] = call[c] \/ call'[c].op # "propose"
    BY <2>4, <2>5, <2>7 DEF InsertPlan, ReplayProposal, Answered
  <2>8. ASSUME NEW d \in Calls, Confirmation(d)
        PROVE  call'[c] = call[c] \/ call'[c].op # "propose"
    <3>1. CASE StartExecution(d)
      <4>1. call[d] \in Confirm
        BY <1>1, <3>1, CallKinds DEF StartExecution, Waiting
      <4>2. call' = [call EXCEPT ![d] = [call[d] EXCEPT !.executing = TRUE]]
        BY <3>1 DEF StartExecution
      <4>3. [call[d] EXCEPT !.executing = TRUE].op = "confirm"
        BY <4>1 DEF Confirm
      <4> QED BY <2>4, <4>2, <4>3
    <3>2. CASE call' = [call EXCEPT ![d] = NoCall]
      BY <2>4, <2>5, <3>2
    <3> QED BY <2>8, <3>1, <3>2 DEF Confirmation, Reject, Repeat, Expire, Challenge, Execute, Reply
  <2>9. ASSUME NEW d \in Calls, Abort(d)
        PROVE  call'[c] = call[c] \/ call'[c].op # "propose"
    BY <2>4, <2>5, <2>9 DEF Abort
  <2>10. ASSUME NEW d \in Calls, NEW request \in Request, Propose(d, request), d # c
         PROVE  call'[c] = call[c]
    BY <2>4, <2>10 DEF Propose
  <2>11. CASE UNCHANGED call
    BY <2>2, <2>11
  <2> QED BY <2>1, <2>2, <2>3, <2>6, <2>7, <2>8, <2>9, <2>10, <2>11
          DEF Next, ListPlan, Cancel, Elapse, Market, Edit, Restriction, Reprice, SetStatus, Others,
              Membership, OpenIntent, EndIntent, EndTalk, vars
<1> QED BY <1>2, <1>3, <1>4 DEF Counted

LEMMA InitCounts == Init => Counted
<1> SUFFICES ASSUME Init PROVE Counted
  OBVIOUS
<1>1. \A l \in Listings : listing[l].revision = listing[l].edits + 1
  BY DEF Init
<1>2. Rows = {} /\ \A c \in Calls : call[c].op # "propose"
  BY DEF Init, Rows, NoCall
<1> QED BY <1>1, <1>2 DEF Counted

\* An action that leaves a fact was compared with the revision, and a plan
\* without a snapshot leaves none.
LEMMA FactsNeedTheRevision ==
    ASSUME IInv, Counted, NEW p \in Rows, Outcome(p) = "done"
    PROVE  listing[plan[p].request.listing].edits = plan[p].seen.edits
<1> DEFINE q == plan[p].request
<1>1. plan[p] \in PlanRow /\ q \in Request
  BY LiveRow DEF IInv, PlanRow
<1>2. q.listing \in Listings /\ q.action \in Actions /\ plan[p].snapshot \in Nat \cup {None}
  BY <1>1 DEF Request, PlanRow
<1>3. IsCurrent(p)
  BY DEF Outcome
<1>4. ~(q.action \in {"update", "delete"} /\ Owner[q.listing] # q.user)
  <2>1. q.action = "update" => UpdateOutcome(q.user, q.listing) = "done"
    BY DEF Outcome
  <2>2. q.action = "delete" => DeleteOutcome(q.user, q.listing) = "done"
    BY DEF Outcome
  <2> QED BY <2>1, <2>2 DEF UpdateOutcome, DeleteOutcome
<1>5. plan[p].snapshot = plan[p].seen.edits + 1
  BY <1>4 DEF Counted, Snapped
<1>6. plan[p].seen.edits \in Nat /\ listing[q.listing].edits \in Nat
  BY <1>1, <1>2 DEF PlanRow, View, IInv, TypeOK, Listing
<1>7. plan[p].snapshot # None
  BY <1>5, <1>6, NoneAssumption
<1>8. plan[p].snapshot = listing[q.listing].edits + 1
  BY <1>2, <1>3, <1>7 DEF IsCurrent, Counted
<1> QED BY <1>5, <1>6, <1>8

\* A confirmed action takes effect only on the listing the proposal saw: the
\* trigger's revision, compared under the listing's lock, misses no edit, no
\* change of status and no restriction.
THEOREM EffectsAreOnWhatWasSeen == Spec => ActsOnWhatWasSeen
<1>1. ASSUME IInv, Counted, Next, NEW p \in Rows, facts'[p] # facts[p]
      PROVE  listing[plan[p].request.listing].edits = plan[p].seen.edits
  <2>1. TypeOK /\ p \in Plans
    BY <1>1 DEF IInv, Rows
  <2>2. PICK c \in Calls, delivered \in BOOLEAN, outcome \in Results \cup {"error"} :
            Execute(c, delivered, outcome)
    BY <1>1 DEF Next, Propose, InsertPlan, ReplayProposal, Ask, Abort, ListPlan, Cancel, Elapse,
                Market, Edit, Restriction, Reprice, SetStatus, Others, Membership, OpenIntent,
                EndIntent, EndTalk, Confirmation, Reject, StartExecution, Repeat, Expire, Challenge, history
  <2>3. outcome = "done" /\ call[c].plan = p
    BY <1>1, <2>1, <2>2 DEF Execute, TypeOK
  <2>4. Outcome(p) = "done"
    BY <2>2, <2>3 DEF Execute
  <2> QED BY <1>1, <2>4, FactsNeedTheRevision
<1>2. IInv /\ Counted /\ [Next]_vars =>
          [\A p \in Rows : facts'[p] # facts[p] =>
              listing[plan[p].request.listing].edits = plan[p].seen.edits]_vars
  BY <1>1
<1> QED BY <1>2, InvariantHolds, InitCounts, StepCounts, PTL DEF Spec, ActsOnWhatWasSeen
-----------------------------------------------------------------------------
(* What a keyed proposal is answered with, and what a purchase leaves.     *)

\* How one step changes a stored plan: never the request it stands for, and
\* it is executed only by the confirmation that holds its lock.
LEMMA RowStep ==
    ASSUME IInv, Next, NEW p \in Rows
    PROVE  /\ p \in Rows' /\ plan'[p].request = plan[p].request
           /\ plan[p].status # "executed" /\ plan'[p].status = "executed" =>
                 \E c \in Calls, delivered \in BOOLEAN, outcome \in Results \ {"error"} :
                     /\ Execute(c, delivered, outcome) /\ call[c].plan = p
                     /\ plan'[p].result = outcome
<1> DEFINE Goal == /\ p \in Rows' /\ plan'[p].request = plan[p].request
                   /\ plan[p].status # "executed" /\ plan'[p].status = "executed" =>
                         \E c \in Calls, delivered \in BOOLEAN, outcome \in Results \ {"error"} :
                             /\ Execute(c, delivered, outcome) /\ call[c].plan = p
                             /\ plan'[p].result = outcome
<1>1. TypeOK /\ Carried /\ p \in Plans /\ plan[p] \in PlanRow /\ plan[p] # NoRow
  BY LiveRow DEF IInv, Rows
<1>2. CASE plan'[p] = plan[p]
  BY <1>1, <1>2 DEF Rows
<1>3. ASSUME NEW row \in PlanRow, plan'[p] = row, row.request = plan[p].request,
             row.status # "executed"
      PROVE  Goal
  <2>1. row # NoRow
    BY <1>3 DEF PlanRow, NoRow, Terminal
  <2> QED BY <1>1, <1>3, <2>1 DEF Rows
\* Only the status is written.
<1>4. ASSUME NEW q \in Plans, NEW s \in {"cancelled", "expired", "confirmed_once"},
             plan' = [plan EXCEPT ![q].status = s]
      PROVE  Goal
  <2>1. CASE q = p
    <3>1. PICK row \in PlanRow : /\ row = [plan[p] EXCEPT !.status = s]
                                 /\ row.request = plan[p].request /\ row.status = s
      <4>1. [plan[p] EXCEPT !.status = s] \in PlanRow
        BY <1>1, <1>4 DEF PlanRow, Terminal
      <4> QED BY <1>1, <4>1 DEF PlanRow
    <3>2. plan'[p] = row
      BY <1>1, <1>4, <2>1, <3>1 DEF TypeOK
    <3> QED BY <1>3, <1>4, <3>1, <3>2
  <2>2. CASE q # p
    BY <1>1, <1>2, <1>4, <2>2 DEF TypeOK
  <2> QED BY <2>1, <2>2
<1>5. ASSUME NEW c \in Calls, NEW delivered \in BOOLEAN, NEW outcome \in Results \cup {"error"},
             Execute(c, delivered, outcome)
      PROVE  Goal
  <2>1. call[c].plan \in Rows
    BY <1>1, <1>5 DEF Execute, Executing, Carried
  <2>2. CASE call[c].plan # p
    <3>1. plan'[p] = plan[p]
      BY <1>1, <1>5, <2>2 DEF Execute, Recorded, TypeOK
    <3> QED BY <1>2, <3>1
  <2>3. CASE call[c].plan = p
    <3> DEFINE s == IF outcome = "error" THEN "failed" ELSE "executed"
               r == IF outcome = "error" THEN None ELSE outcome
           row == [plan[p] EXCEPT !.status = s, !.result = r]
    <3>1. row \in PlanRow /\ Recorded(p, outcome) = [plan EXCEPT ![p] = row]
      BY <1>1, RowUpdates
    <3>2. row.request = plan[p].request /\ row.status = s /\ row.result = r
      <4> HIDE DEF s, r
      <4> QED BY <1>1 DEF PlanRow
    <3> HIDE DEF row
    <3>3. plan'[p] = row
      BY <1>1, <1>5, <2>3, <3>1 DEF Execute, TypeOK
    <3>4. CASE outcome = "error"
      BY <1>3, <3>1, <3>2, <3>3, <3>4
    <3>5. CASE outcome # "error"
      <4>1. outcome \in Results \ {"error"} /\ plan'[p].result = outcome
        BY <3>2, <3>3, <3>5
      <4>2. row # NoRow
        BY <3>1 DEF PlanRow, NoRow, Terminal
      <4>3. p \in Rows' /\ plan'[p].request = plan[p].request
        BY <1>1, <3>2, <3>3, <4>2 DEF Rows
      <4> QED BY <1>5, <2>3, <4>1, <4>3
    <3> QED BY <3>4, <3>5
  <2> QED BY <2>2, <2>3
<1>6. ASSUME NEW c \in Calls, NEW q \in Plans, InsertPlan(c, q) PROVE Goal
  <2>1. plan'[p] = plan[p]
    BY <1>1, <1>6 DEF InsertPlan, TypeOK
  <2> QED BY <1>2, <2>1
<1>7. ASSUME NEW c \in Calls, Confirmation(c) PROVE Goal
  <2>1. ASSUME NEW delivered \in BOOLEAN, Expire(c, delivered) \/ Challenge(c, delivered)
        PROVE  Goal
    <3>1. call[c].plan \in Plans
      BY <1>1, <2>1, LiveRow DEF Expire, Challenge, Waiting, Carried
    <3> QED BY <1>4, <2>1, <3>1 DEF Expire, Challenge
  <2> QED
    BY <1>2, <1>5, <1>7, <2>1 DEF Confirmation, Reject, StartExecution, Repeat, history
<1>8. ASSUME NEW q \in Plans, Cancel(q) PROVE Goal
  BY <1>4, <1>8 DEF Cancel
<1>9. CASE UNCHANGED plan
  BY <1>2, <1>9
<1> QED
  BY <1>6, <1>7, <1>8, <1>9
  DEF Next, Propose, ReplayProposal, Ask, Abort, ListPlan, Elapse, Market, Edit, Restriction,
      Reprice, SetStatus, Others, Membership, OpenIntent, EndIntent, EndTalk

\* Answers name stored plans, besides the property.
AnswersInv == ReplaysAreExact /\ \A a \in acks : a.plan \in Rows

LEMMA AnswersStep == IInv /\ AnswersInv /\ [Next]_vars => AnswersInv'
<1> SUFFICES ASSUME IInv, AnswersInv, [Next]_vars PROVE AnswersInv'
  OBVIOUS
<1>1. CASE UNCHANGED vars
  BY <1>1 DEF vars, history, market, AnswersInv, ReplaysAreExact, Rows
<1>2. CASE Next
  <2>0. TypeOK
    BY DEF IInv
  \* What was answered before stays true.
  <2>1. \A a \in acks : a.plan \in Rows' /\ (a.ok <=> plan'[a.plan].request = a.request)
    <3> SUFFICES ASSUME NEW a \in acks
                 PROVE  a.plan \in Rows' /\ (a.ok <=> plan'[a.plan].request = a.request)
      OBVIOUS
    <3>1. a.plan \in Rows /\ (a.ok <=> plan[a.plan].request = a.request)
      BY DEF AnswersInv, ReplaysAreExact
    <3>2. a.plan \in Rows' /\ plan'[a.plan].request = plan[a.plan].request
      BY <1>2, <3>1, RowStep
    <3> QED BY <3>1, <3>2
  <2>2. ASSUME NEW c \in Calls, NEW p \in Plans, NEW ok \in BOOLEAN, Answered(c, p, ok),
               p \in Rows', ok <=> plan'[p].request = call[c].request
        PROVE  AnswersInv'
    <3>1. PICK new : new = [request |-> call[c].request, plan |-> p, ok |-> ok]
      OBVIOUS
    <3>2. new.plan \in Rows' /\ (new.ok <=> plan'[new.plan].request = new.request)
      BY <2>2, <3>1
    <3>3. acks' \subseteq acks \cup {new}
      BY <2>2, <3>1 DEF Answered
    <3> QED BY <2>1, <3>2, <3>3 DEF AnswersInv, ReplaysAreExact
  <2>3. ASSUME NEW c \in Calls, NEW p \in Plans, InsertPlan(c, p) PROVE AnswersInv'
    <3> DEFINE row == [status |-> "pending", request |-> call[c].request,
                       snapshot |-> call[c].snapshot, seen |-> call[c].seen, result |-> None]
    <3>1. row \in PlanRow /\ plan' = [plan EXCEPT ![p] = row] /\ row.request = call[c].request
      BY <2>0, <2>3, CallKinds DEF InsertPlan, Draft, PlanRow, Results
    <3> HIDE DEF row
    <3>2. p \in Rows' /\ plan'[p].request = call[c].request
      BY <2>0, <3>1, WriteRow
    <3> QED BY <2>2, <2>3, <3>2 DEF InsertPlan
  <2>4. ASSUME NEW c \in Calls, NEW p \in Plans, ReplayProposal(c, p) PROVE AnswersInv'
    <3>1. PICK ok \in BOOLEAN : /\ ok <=> plan[p].request = call[c].request
                                /\ Answered(c, p, ok)
      BY <2>4 DEF ReplayProposal, SameRequest
    <3>2. p \in Rows
      BY <2>4 DEF ReplayProposal, KeyRows
    <3>3. p \in Rows' /\ plan'[p].request = plan[p].request
      BY <1>2, <3>2, RowStep
    <3> QED BY <2>2, <3>1, <3>3
  <2>5. CASE UNCHANGED acks
    BY <2>1, <2>5 DEF AnswersInv, ReplaysAreExact
  <2>6. ASSUME NEW c \in Calls, Confirmation(c) PROVE UNCHANGED acks
    BY <2>6 DEF Confirmation, Reject, StartExecution, Repeat, Expire, Challenge, Execute, history
  <2>7. Market => UNCHANGED acks
    BY DEF Market, Edit, Restriction, Reprice, SetStatus, Others, Membership, OpenIntent,
           EndIntent, EndTalk, history
  <2> QED
    BY <1>2, <2>3, <2>4, <2>5, <2>6, <2>7
    DEF Next, Propose, Ask, Abort, ListPlan, Cancel, Elapse, history
<1> QED BY <1>1, <1>2

LEMMA InitAnswers == Init => AnswersInv
BY DEF Init, AnswersInv, ReplaysAreExact

\* Whatever happens to the listing and to the responses, a key answers with
\* the plan of exactly the request it was first used for
\* (create_plan and proposal_request_hash, services/agent_plan.rs).
THEOREM RepliesAreExact == Spec => []ReplaysAreExact
<1>1. AnswersInv => ReplaysAreExact
  BY DEF AnswersInv
<1> QED BY <1>1, InitAnswers, AnswersStep, InvariantHolds, PTL DEF Spec

\* A buyer has one open intent per listing, made by hand or by a plan.
OneIntent == \A i, j \in intents : i.listing = j.listing /\ i.user = j.user => i = j

LEMMA OneIntentStep == IInv /\ OneIntent /\ [Next]_vars => OneIntent'
<1> SUFFICES ASSUME IInv, OneIntent, [Next]_vars PROVE OneIntent'
  OBVIOUS
<1>1. ASSUME NEW i, intents' = intents \cup {i},
             ~\E j \in intents : j.listing = i.listing /\ j.user = i.user
      PROVE  OneIntent'
  BY <1>1 DEF OneIntent
<1>2. CASE intents' \subseteq intents
  BY <1>2 DEF OneIntent
<1>3. ASSUME NEW c \in Calls, NEW delivered \in BOOLEAN, NEW outcome \in Results \cup {"error"},
             Execute(c, delivered, outcome)
      PROVE  OneIntent'
  <2> DEFINE p == call[c].plan
             q == plan[p].request
  <2>1. p \in Rows /\ q \in Request
    BY <1>3, LiveRow DEF IInv, Carried, Execute, Executing
  <2>2. CASE outcome = "done" /\ q.action = "purchase"
    <3>1. Outcome(p) = "done"
      BY <1>3, <2>2 DEF Execute
    <3>2. PurchaseOutcome(q.user, q.listing, q.amount) = "done"
      BY <2>2, <3>1 DEF Outcome
    <3>3. {i \in intents : i.listing = q.listing /\ i.user = q.user} = {}
      BY <3>2 DEF PurchaseOutcome
    <3> DEFINE new == [listing |-> q.listing, user |-> q.user, price |-> q.amount]
    <3>4. new.listing = q.listing /\ new.user = q.user
      OBVIOUS
    <3>5. intents' = intents \cup {new}
      BY <1>3, <2>2 DEF Execute, Apply
    <3> HIDE DEF new
    <3> QED BY <1>1, <3>3, <3>4, <3>5
  <2>3. CASE outcome # "done"
    BY <1>2, <1>3, <2>3 DEF Execute
  <2>4. CASE outcome = "done" /\ q.action # "purchase"
    <3>1. q.action \in {"negotiate", "update", "delete"}
      BY ActionAssumption, <2>1, <2>4 DEF Request
    <3>2. UNCHANGED intents
      BY <1>3, <2>4, <3>1 DEF Execute, Apply
    <3> QED BY <1>2, <3>2
  <2> QED BY <2>2, <2>3, <2>4
<1>4. ASSUME NEW c \in Calls, Confirmation(c) PROVE OneIntent'
  BY <1>2, <1>3, <1>4 DEF Confirmation, Reject, StartExecution, Repeat, Expire, Challenge, market
<1>5. ASSUME NEW i \in Intent, OpenIntent(i) PROVE OneIntent'
  BY <1>1, <1>5 DEF OpenIntent
<1>6. Market => OneIntent'
  BY <1>2, <1>5 DEF Market, Edit, Restriction, Reprice, SetStatus, Others, Membership,
                    EndIntent, EndTalk
<1> QED
  BY <1>2, <1>4, <1>6 DEF Next, Propose, InsertPlan, ReplayProposal, Ask, Abort, ListPlan,
                          Cancel, Elapse, market, vars

\* An executed purchase stands for one pending intent at the confirmed price.
LEMMA PurchaseLeavesItsPrice ==
    ASSUME IInv, OneIntent, Next, NEW p \in Rows, plan[p].request.action = "purchase",
           plan[p].status # "executed", plan'[p].status = "executed",
           plan'[p].result # "nothing"
    PROVE  LET q == plan[p].request IN
           {i \in intents' : i.listing = q.listing /\ i.user = q.user} =
               {[listing |-> q.listing, user |-> q.user, price |-> q.amount]}
<1> DEFINE q == plan[p].request
           open == {i \in intents : i.listing = q.listing /\ i.user = q.user}
           new == [listing |-> q.listing, user |-> q.user, price |-> q.amount]
<1>1. PICK c \in Calls, delivered \in BOOLEAN, outcome \in Results \ {"error"} :
        Execute(c, delivered, outcome) /\ call[c].plan = p /\ plan'[p].result = outcome
  BY RowStep
<1>2. Outcome(p) = outcome /\ outcome \notin {"nothing", "error"}
  BY <1>1 DEF Execute
<1>3. PurchaseOutcome(q.user, q.listing, q.amount) = outcome
  BY <1>2 DEF Outcome
<1>4. \/ outcome = "done" /\ open = {}
      \/ outcome = "reused" /\ \E i \in open : Repeats(i, q.amount)
  BY <1>2, <1>3 DEF PurchaseOutcome
<1>5. CASE outcome = "done" /\ open = {}
  <2>1. intents' = intents \cup {new}
    BY <1>1, <1>5 DEF Execute, Apply
  <2>2. new.listing = q.listing /\ new.user = q.user
    OBVIOUS
  <2> HIDE DEF new
  <2>3. {i \in intents' : i.listing = q.listing /\ i.user = q.user} = {new}
    BY <1>5, <2>1, <2>2
  <2> QED BY <2>3 DEF new
<1>6. CASE outcome = "reused" /\ \E i \in open : Repeats(i, q.amount)
  <2>1. PICK i \in open : i.price = q.amount
    BY <1>6 DEF Repeats
  <2>2. i \in Intent /\ i.listing = q.listing /\ i.user = q.user
    BY DEF IInv, TypeOK
  <2>3. i = new
    BY <2>1, <2>2 DEF Intent
  <2>4. UNCHANGED intents
    BY <1>1, <1>6 DEF Execute
  <2>5. open = {i}
    BY <2>2 DEF OneIntent
  <2> QED BY <2>3, <2>4, <2>5
<1> QED BY <1>4, <1>5, <1>6

LEMMA InitOneIntent == Init => OneIntent
BY DEF Init, OneIntent

\* An executed purchase has left, or found, the buyer's only open intent of
\* the listing, at the price he confirmed (trade.rs:189-223).
THEOREM PurchasesKeepTheirPrice == Spec => IntentIsAtConfirmedPrice
<1>1. IInv /\ OneIntent /\ [Next]_vars =>
        [\A p \in Rows :
          LET q == plan[p].request IN
          /\ q.action = "purchase" /\ plan[p].status # "executed"
          /\ plan'[p].status = "executed" /\ plan'[p].result # "nothing"
          => {i \in intents' : i.listing = q.listing /\ i.user = q.user} =
                 {[listing |-> q.listing, user |-> q.user, price |-> q.amount]}]_vars
  BY PurchaseLeavesItsPrice
<1> QED
  BY <1>1, InvariantHolds, InitOneIntent, OneIntentStep, PTL DEF Spec, IntentIsAtConfirmedPrice
=============================================================================
