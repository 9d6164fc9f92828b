--------------------------- MODULE HandlersProofs ----------------------------
(***************************************************************************)
(* Proofs about the requests that race each other on accounts: sessions,   *)
(* moderation cases, access checks, memberships, the second factor, the    *)
(* persona, interruptions and memories.  Each part states its types, the   *)
(* inductive invariant, one lemma for each group of actions and what the   *)
(* invariant gives; the last part states what is promised, of each         *)
(* component and of them together.                                         *)
(***************************************************************************)
EXTENDS MCRequestHandlers, TLAPS, FiniteSetTheorems, SequenceTheorems

-----------------------------------------------------------------------------
(* Sessions.                                                               *)

TokenStatus == {"none", "live", "revoked"}

SessionTypes ==
    /\ token \in [Tokens -> [status : TokenStatus, session : Tokens \cup {"none"},
                             from : Tokens \cup {"none"}]]
    /\ flight \in [Flights -> [stage : {"idle", "login", "found", "revoked", "checked"},
                               token : Tokens \cup {"none"}, sawRevoked : BOOLEAN]]
    /\ account \in {"active", "banned"} /\ banning \in {"idle", "row", "done"}

\* A rotation in flight holds a token that is stored.
Holds(c) == flight[c].stage \in {"found", "revoked", "checked"}
HeldIsStored == \A c \in Flights : Holds(c) =>
    flight[c].token \in Tokens /\ token[flight[c].token].status # "none"

\* What is not stored names nothing, and what a token came from is revoked.
UnstoredIsBlank == \A t \in Tokens : token[t].status = "none" => token[t] = NoToken
FromIsRevoked == \A u \in Tokens : token[u].from # "none" =>
    token[u].from \in Tokens /\ token[token[u].from].status = "revoked"

\* A rotation that has revoked its token is the only one that has, and the
\* token has no successor yet.
HasRevoked(c) == flight[c].stage \in {"revoked", "checked"}
RevokedIsMine == \A c \in Flights : HasRevoked(c) =>
    /\ token[flight[c].token].status = "revoked"
    /\ \A u \in Tokens : token[u].from # flight[c].token
    /\ \A d \in Flights : HasRevoked(d) /\ flight[d].token = flight[c].token => d = c

SessionInv == SessionTypes /\ HeldIsStored /\ UnstoredIsBlank /\ FromIsRevoked /\ RevokedIsMine /\ NoFork

\* Revoking every token makes nothing live, and changes no pedigree.
LEMMA RevokingAll ==
    ASSUME SessionInv, RevokeAll
    PROVE  /\ token' \in [Tokens -> [status : TokenStatus, session : Tokens \cup {"none"},
                                     from : Tokens \cup {"none"}]]
           /\ \A t \in Tokens : /\ token'[t].from = token[t].from
                                /\ token[t].status = "revoked" => token'[t].status = "revoked"
                                /\ token'[t].status = "none" <=> token[t].status = "none"
                                /\ token[t].status = "none" => token'[t] = token[t]
  BY DEF SessionInv, SessionTypes, RevokeAll, Works, TokenStatus

\* So a step that revokes every token, and lets no flight move but back to
\* rest, keeps the invariant.
LEMMA RevokingAllIsSafe ==
    ASSUME SessionInv, RevokeAll, account' \in {"active", "banned"}, banning' \in {"idle", "row", "done"},
           \/ flight' = flight
           \/ \E c \in Flights : flight' = [flight EXCEPT ![c] = NoFlight]
    PROVE  SessionInv'
  <1>1. /\ flight' \in [Flights -> [stage : {"idle", "login", "found", "revoked", "checked"},
                                    token : Tokens \cup {"none"}, sawRevoked : BOOLEAN]]
        /\ \A c \in Flights : flight'[c] = flight[c] \/ flight'[c] = NoFlight
    <2>1. CASE flight' = flight
      BY <2>1 DEF SessionInv, SessionTypes
    <2>2. ASSUME NEW c \in Flights, flight' = [flight EXCEPT ![c] = NoFlight] PROVE <1>1!1 /\ <1>1!2
      BY <2>2 DEF SessionInv, SessionTypes, NoFlight
    <2>3. QED
      BY <2>1, <2>2
  <1>2. SessionTypes'
    BY <1>1, RevokingAll DEF SessionTypes
  <1>3. (HeldIsStored /\ UnstoredIsBlank /\ FromIsRevoked /\ NoFork)'
    BY <1>1, RevokingAll DEF SessionInv, SessionTypes, HeldIsStored, UnstoredIsBlank, FromIsRevoked, NoFork, Holds, NoFlight
  <1>4. RevokedIsMine'
    BY <1>1, RevokingAll DEF SessionInv, SessionTypes, HeldIsStored, RevokedIsMine, Holds, HasRevoked, NoFlight
  <1>5. QED
    BY <1>2, <1>3, <1>4 DEF SessionInv

\* What every step of a rotation or a login does to the tokens' pedigrees.
LEMMA SessionStep ==
    ASSUME SessionInv, [SessionNext]_sessionVars
    PROVE  SessionInv'
  <1> USE TokenAssumption
  <1>1. ASSUME NEW c \in Flights, BeginLogin(c) PROVE SessionInv'
    BY <1>1 DEF BeginLogin, SessionInv, SessionTypes, HeldIsStored, UnstoredIsBlank, FromIsRevoked,
                RevokedIsMine, NoFork, Holds, HasRevoked, NoFlight
  <1>2. ASSUME NEW c \in Flights, FinishLogin(c) PROVE SessionInv'
    <2>1. PICK t \in FreshTokens : Store(t, t, "none")
      BY <1>2 DEF FinishLogin
    <2>2. t \in Tokens /\ token[t] = NoToken
      BY <2>1 DEF FreshTokens
    <2>3. flight' = [flight EXCEPT ![c] = NoFlight] /\ UNCHANGED <<account, banning>>
      BY <1>2 DEF FinishLogin
    <2>4. SessionTypes'
      BY <2>1, <2>2, <2>3 DEF Store, SessionInv, SessionTypes, TokenStatus, NoFlight
    <2>5. (HeldIsStored /\ UnstoredIsBlank /\ FromIsRevoked /\ NoFork)'
      BY <2>1, <2>2, <2>3 DEF Store, SessionInv, SessionTypes, HeldIsStored, UnstoredIsBlank,
                              FromIsRevoked, NoFork, Holds, NoFlight, NoToken
    <2>6. RevokedIsMine'
      BY <2>1, <2>2, <2>3 DEF Store, SessionInv, SessionTypes, HeldIsStored, RevokedIsMine, Holds,
                              HasRevoked, NoFlight, NoToken
    <2>7. QED
      BY <2>4, <2>5, <2>6 DEF SessionInv
  <1>3. ASSUME NEW c \in Flights, RevokeOld(c) PROVE SessionInv'
    <2>1. CASE ~flight[c].sawRevoked /\ Works(flight[c].token)
      <3>1. /\ flight[c].stage = "found"
            /\ token' = [token EXCEPT ![flight[c].token].status = "revoked"]
            /\ flight' = [flight EXCEPT ![c].stage = "revoked"]
            /\ UNCHANGED <<account, banning>>
        BY <1>3, <2>1 DEF RevokeOld
      <3>2. flight[c].token \in Tokens /\ token[flight[c].token].status = "live"
        BY <2>1, <3>1 DEF SessionInv, HeldIsStored, Holds, Works
      <3>3. SessionTypes'
        BY <3>1, <3>2 DEF SessionInv, SessionTypes, TokenStatus
      <3>4. (HeldIsStored /\ UnstoredIsBlank /\ FromIsRevoked /\ NoFork)'
        BY <3>1, <3>2 DEF SessionInv, SessionTypes, HeldIsStored, UnstoredIsBlank, FromIsRevoked,
                          NoFork, Holds, NoToken
      <3>5. RevokedIsMine'
        BY <3>1, <3>2 DEF SessionInv, SessionTypes, HeldIsStored, FromIsRevoked, RevokedIsMine, Holds,
                          HasRevoked
      <3>6. QED
        BY <3>3, <3>4, <3>5 DEF SessionInv
    <2>2. CASE ~(~flight[c].sawRevoked /\ Works(flight[c].token))
      BY <1>3, <2>2, RevokingAllIsSafe DEF RevokeOld, EndAll, SessionInv, SessionTypes
    <2>3. QED
      BY <2>1, <2>2
  <1>4. ASSUME NEW c \in Flights, ReadAccount(c) PROVE SessionInv'
    <2>1. CASE account = "banned"
      BY <1>4, <2>1, RevokingAllIsSafe DEF ReadAccount, EndAll, SessionInv, SessionTypes
    <2>2. CASE account # "banned"
      BY <1>4, <2>2 DEF ReadAccount, SessionInv, SessionTypes, HeldIsStored, UnstoredIsBlank, FromIsRevoked,
                        RevokedIsMine, NoFork, Holds, HasRevoked
    <2>3. QED
      BY <2>1, <2>2
  <1>5. ASSUME NEW c \in Flights, StoreNew(c) PROVE SessionInv'
    <2> DEFINE old == flight[c].token
    <2>1. PICK t \in FreshTokens : Store(t, token[old].session, old)
      BY <1>5 DEF StoreNew
    <2>2. t \in Tokens /\ token[t] = NoToken
      BY <2>1 DEF FreshTokens
    <2>3. flight[c].stage = "checked" /\ flight' = [flight EXCEPT ![c] = NoFlight] /\ UNCHANGED <<account, banning>>
      BY <1>5 DEF StoreNew
    <2>4. /\ old \in Tokens /\ token[old].status = "revoked" /\ old # t
          /\ \A u \in Tokens : token[u].from # old
      BY <2>2, <2>3 DEF SessionInv, HeldIsStored, RevokedIsMine, Holds, HasRevoked, NoToken
    <2>5. SessionTypes'
      BY <2>1, <2>2, <2>3, <2>4 DEF Store, SessionInv, SessionTypes, TokenStatus, NoFlight
    <2>6. (HeldIsStored /\ UnstoredIsBlank /\ FromIsRevoked /\ NoFork)'
      BY <2>1, <2>2, <2>3, <2>4 DEF Store, SessionInv, SessionTypes, HeldIsStored, UnstoredIsBlank,
                                    FromIsRevoked, NoFork, Holds, NoFlight, NoToken
    <2>7. RevokedIsMine'
      BY <2>1, <2>2, <2>3, <2>4 DEF Store, SessionInv, SessionTypes, HeldIsStored, RevokedIsMine, Holds,
                                    HasRevoked, NoFlight, NoToken
    <2>8. QED
      BY <2>5, <2>6, <2>7 DEF SessionInv
  <1>6. ASSUME NEW c \in Flights, Fail(c) PROVE SessionInv'
    BY <1>6 DEF Fail, SessionInv, SessionTypes, HeldIsStored, UnstoredIsBlank, FromIsRevoked,
                RevokedIsMine, NoFork, Holds, HasRevoked, NoFlight
  <1>7. ASSUME NEW c \in Flights, NEW t \in Tokens, FindToken(c, t) PROVE SessionInv'
    BY <1>7 DEF FindToken, SessionInv, SessionTypes, HeldIsStored, UnstoredIsBlank, FromIsRevoked,
                RevokedIsMine, NoFork, Holds, HasRevoked, NoFlight
  <1>8. CASE Logout
    BY <1>8, RevokingAllIsSafe DEF Logout, EndAll, SessionInv, SessionTypes
  <1>9. CASE BanTokens
    BY <1>9, RevokingAllIsSafe DEF BanTokens, EndAll, SessionInv, SessionTypes
  <1>10. CASE BanRow \/ Unban \/ UNCHANGED sessionVars
    BY <1>10 DEF BanRow, Unban, sessionVars, SessionInv, SessionTypes, HeldIsStored, UnstoredIsBlank,
                 FromIsRevoked, RevokedIsMine, NoFork, Holds, HasRevoked
  <1>11. QED
    BY <1>1, <1>2, <1>3, <1>4, <1>5, <1>6, <1>7, <1>8, <1>9, <1>10 DEF SessionNext

\* A refresh token has one successor at most, and only the last of a chain
\* works, however many rotations, logouts and bans race each other (api/auth.rs
\* rotate_refresh_token).
THEOREM SessionsStayChains == SessionSpec => []SessionsAreChains
  <1>1. SessionInit => SessionInv
    BY DEF SessionInit, SessionInv, SessionTypes, TokenStatus, HeldIsStored, UnstoredIsBlank, FromIsRevoked,
           RevokedIsMine, NoFork, Holds, HasRevoked, NoFlight, NoToken
  <1>2. SessionInv /\ [SessionNext]_sessionVars => SessionInv'
    BY SessionStep
  <1>3. SessionInv => SessionsAreChains
    BY TokenAssumption DEF SessionInv, SessionTypes, FromIsRevoked, SessionsAreChains, OnlyTheLastWorks, Works
  <1>4. QED
    BY <1>1, <1>2, <1>3, PTL DEF SessionSpec

-----------------------------------------------------------------------------
(* Moderation cases.                                                       *)

Resolutions == {"none", "restricted", "restored", "no_violation"}

ReportStatuses == {"none", "open", "reviewing", "dismissed", "resolved"}
CaseRecords == [source : {"none", "report", "machine", "manual"},
                reporter : Reporters \cup {"nobody"}, resource : Resources \cup {"none"},
                status : Statuses \cup {"none"}, resolution : Resolutions,
                decider : Admins \cup {"nobody"}, report : ReportStatuses]

TakedownRequests == [of : Inventory, at : Nat] \cup {NoTakedown}

CaseTypes ==
    /\ case \in [Cases -> CaseRecords]
    /\ effect \in [Cases -> {"none", "active", "released", "manual_restore"}]
    /\ appeal \in [Cases -> {"none", "pending", "upheld", "overturned"}]
    /\ begun \in Nat
    /\ waiting \in [Admins -> TakedownRequests]
    /\ imposed \in [Cases -> Nat]

\* What a case has come to says how it was resolved.
Undecided == {"none", "open", "reviewing"}
StatusTellsResolution == \A c \in Cases :
    /\ case[c].status \in Undecided <=> case[c].resolution = "none"
    /\ case[c].status \in {"actioned", "appealed"} => case[c].resolution = "restricted"

\* A case that does not exist yet has restricted nothing.
FreshIsInert == \A c \in Cases : case[c].source = "none" =>
    effect[c] # "active" /\ case[c].status = "none"

\* A takedown by hand is born decided.
TakedownsAreDecided == \A c \in Cases : case[c].source = "manual" => case[c].status \notin Undecided

CaseInv == /\ CaseTypes /\ StatusTellsResolution /\ FreshIsInert /\ TakedownsAreDecided
           /\ CasesAgree

\* What is found stays found while no takedown is added.
LEMMA FoundStays ==
    ASSUME RestoreFindsTakedown, UNCHANGED <<imposed, overtaken>>,
           \A l \in Inventory : Takedowns(l)' = Takedowns(l),
           \A l \in Inventory : ActiveTakedown(l)' \subseteq ActiveTakedown(l)
    PROVE  RestoreFindsTakedown'
  <1>1. SUFFICES ASSUME NEW l \in Inventory, NEW c \in ActiveTakedown(l)'
                 PROVE  ActiveTakedown(l)' = {c} /\ (c \in Newest(l)' \/ c \in overtaken')
    BY DEF RestoreFindsTakedown
  <1>2. ActiveTakedown(l) = {c} /\ (c \in Newest(l) \/ c \in overtaken)
    BY <1>1 DEF RestoreFindsTakedown
  <1>3. Newest(l)' = Newest(l)
    BY DEF Newest
  <1>4. QED
    BY <1>1, <1>2, <1>3

\* What a decision leaves of a case, and what it leaves alone.
LEMMA Decided ==
    ASSUME CaseTypes, NEW a \in Admins, NEW c \in Cases,
           NEW status \in {"actioned", "dismissed", "resolved"},
           NEW resolution \in {"restricted", "restored", "no_violation"},
           Decide(a, c, status, resolution)
    PROVE  /\ case' \in [Cases -> CaseRecords]
           /\ \A d \in Cases : d # c => case'[d] = case[d]
           /\ case'[c].source = case[c].source /\ case'[c].resource = case[c].resource
           /\ case'[c].status = status /\ case'[c].resolution = resolution
           /\ case'[c].report = ReportStatus(c, status, resolution)
  <1> DEFINE new == [case[c] EXCEPT !.status = status, !.resolution = resolution, !.decider = a,
                                    !.report = ReportStatus(c, status, resolution)]
  <1>1. case[c] \in CaseRecords
    BY DEF CaseTypes
  <1>2. ReportStatus(c, status, resolution) \in ReportStatuses
    BY <1>1 DEF CaseRecords, ReportStatus, ReportStatuses
  <1>3. new \in CaseRecords
    BY <1>1, <1>2 DEF CaseRecords, Statuses, Resolutions
  <1>4. case' = [case EXCEPT ![c] = new]
    BY DEF Decide
  <1>5. /\ new.source = case[c].source /\ new.resource = case[c].resource
        /\ new.status = status /\ new.resolution = resolution
        /\ new.report = ReportStatus(c, status, resolution)
    BY <1>1 DEF CaseRecords
  <1> HIDE DEF new
  <1>6. QED
    BY <1>3, <1>4, <1>5 DEF CaseTypes

\* A decision whose effect on listings agrees with its resolution keeps the
\* invariant, whatever the case was about.
LEMMA DecisionIsSafe ==
    ASSUME CaseInv, NEW a \in Admins, NEW c \in Cases,
           NEW status \in {"actioned", "dismissed", "resolved"},
           NEW resolution \in {"restricted", "restored", "no_violation"},
           Decide(a, c, status, resolution),
           case[c].source # "none", UNCHANGED takedownVars,
           appeal' \in [Cases -> {"none", "pending", "upheld", "overturned"}],
           effect' \in [Cases -> {"none", "active", "released", "manual_restore"}],
           \A d \in Cases : d # c => effect'[d] = effect[d],
           case[c].resource \in Inventory => (effect'[c] = "active" <=> resolution = "restricted"),
           effect'[c] = "active" /\ case[c].source = "manual" /\ case[c].resource \in Inventory
               => effect[c] = "active",
           <<status, resolution>> \in {<<"actioned", "restricted">>, <<"dismissed", "no_violation">>,
                                       <<"resolved", "restored">>, <<"resolved", "restricted">>}
    PROVE  CaseInv'
  <1>1. /\ case' \in [Cases -> CaseRecords]
        /\ \A d \in Cases : d # c => case'[d] = case[d]
        /\ case'[c].source = case[c].source /\ case'[c].resource = case[c].resource
        /\ case'[c].status = status /\ case'[c].resolution = resolution
        /\ case'[c].report = ReportStatus(c, status, resolution)
    BY Decided DEF CaseInv
  <1>2. CaseTypes'
    BY <1>1 DEF CaseInv, CaseTypes, takedownVars
  <1>3. (StatusTellsResolution /\ TakedownsAreDecided /\ FreshIsInert)'
    BY <1>1 DEF CaseInv, CaseTypes, StatusTellsResolution, TakedownsAreDecided, FreshIsInert, Undecided
  <1>4. \A l \in Inventory : Takedowns(l)' = Takedowns(l)
    BY <1>1 DEF Takedowns
  <1>5. EffectsMatchCases'
    BY <1>1 DEF CaseInv, CasesAgree, EffectsMatchCases
  <1>6. ReportsFollowCases'
    BY <1>1 DEF CaseInv, CasesAgree, ReportsFollowCases, ReportStatus
  <1>7. \A l \in Inventory : ActiveTakedown(l)' \subseteq ActiveTakedown(l)
    BY <1>1, <1>4 DEF ActiveTakedown, Takedowns
  <1>8. RestoreFindsTakedown'
    BY <1>4, <1>7, FoundStays DEF CaseInv, CasesAgree, takedownVars
  <1>9. QED
    BY <1>2, <1>3, <1>5, <1>6, <1>8 DEF CaseInv, CasesAgree

\* A new case, decided or not, whose effect agrees with its resolution.
LEMMA NewCaseIsSafe ==
    ASSUME CaseInv, NEW c \in FreshCases, NEW new \in CaseRecords,
           case' = [case EXCEPT ![c] = new], appeal' = appeal,
           new.source # "none", new.resource # "none",
           \/ new.status = "open" /\ new.resolution = "none" /\ new.report = "open" /\ new.source = "report"
           \/ new.status = "actioned" /\ new.resolution = "restricted" /\ new.source \in {"machine", "manual"},
           effect' \in [Cases -> {"none", "active", "released", "manual_restore"}],
           \A d \in Cases : d # c => effect'[d] = effect[d],
           new.resource \in Inventory => (effect'[c] = "active" <=> new.resolution = "restricted"),
           begun' \in Nat, imposed' \in [Cases -> Nat],
           waiting' \in [Admins -> TakedownRequests],
           \A d \in Cases : d # c => imposed'[d] = imposed[d],
           \/ new.source # "manual" /\ UNCHANGED <<imposed, overtaken>>
           \/ /\ new.resource \in Inventory /\ new.source = "manual"
              /\ ActiveTakedown(new.resource) = {} /\ overtaken \subseteq overtaken'
              /\ c \notin overtaken' => \A d \in Takedowns(new.resource) : imposed[d] <= imposed'[c]
    PROVE  CaseInv'
  <1>1. /\ c \in Cases /\ case[c] = NoCase
        /\ case' \in [Cases -> CaseRecords] /\ case'[c] = new
        /\ \A d \in Cases : d # c => case'[d] = case[d]
    BY DEF CaseInv, CaseTypes, FreshCases
  <1>2. CaseTypes'
    BY <1>1 DEF CaseInv, CaseTypes
  <1>3. (StatusTellsResolution /\ TakedownsAreDecided /\ FreshIsInert)'
    BY <1>1 DEF CaseInv, CaseTypes, StatusTellsResolution, TakedownsAreDecided, FreshIsInert, Undecided
  <1>4. \A l \in Inventory :
           Takedowns(l)' = IF new.source = "manual" /\ new.resource = l THEN Takedowns(l) \cup {c}
                           ELSE Takedowns(l)
    BY <1>1, KindsAssumption DEF Takedowns, NoCase
  <1>5. c \notin UNION {Takedowns(l) : l \in Inventory}
    BY <1>1 DEF Takedowns, NoCase
  <1>6. EffectsMatchCases'
    BY <1>1 DEF CaseInv, CasesAgree, EffectsMatchCases
  <1>7. ReportsFollowCases'
    BY <1>1 DEF CaseInv, CasesAgree, ReportsFollowCases
  <1>8. RestoreFindsTakedown'
    <2>1. CASE new.source # "manual"
      <3>1. \A l \in Inventory : Takedowns(l)' = Takedowns(l)
        BY <2>1, <1>4
      <3>2. \A l \in Inventory : ActiveTakedown(l)' \subseteq ActiveTakedown(l)
        BY <3>1, <1>1, <1>5 DEF ActiveTakedown, Takedowns
      <3>3. QED
        BY <2>1, <3>1, <3>2, FoundStays DEF CaseInv, CasesAgree
    <2>2. CASE new.source = "manual"
      <3>1. SUFFICES ASSUME NEW l \in Inventory, NEW e \in ActiveTakedown(l)'
                     PROVE  ActiveTakedown(l)' = {e} /\ (e \in Newest(l)' \/ e \in overtaken')
        BY DEF RestoreFindsTakedown
      <3>2. CASE l # new.resource
        <4>1. Takedowns(l)' = Takedowns(l) /\ c \notin Takedowns(l) /\ Takedowns(l) \subseteq Cases
          BY <3>2, <1>4, <1>5 DEF Takedowns
        <4>2. ActiveTakedown(l)' = ActiveTakedown(l)
          BY <4>1 DEF ActiveTakedown
        <4>3. ActiveTakedown(l) = {e} /\ (e \in Newest(l) \/ e \in overtaken)
          BY <3>1, <4>2 DEF CaseInv, CasesAgree, RestoreFindsTakedown
        <4>4. Newest(l)' = Newest(l)
          BY <4>1 DEF Newest
        <4>5. QED
          BY <2>2, <4>2, <4>3, <4>4
      <3>3. CASE l = new.resource
        <4>1. Takedowns(l)' = Takedowns(l) \cup {c} /\ c \notin Takedowns(l) /\ Takedowns(l) \subseteq Cases
          BY <2>2, <3>3, <1>4, <1>5 DEF Takedowns
        <4>2. ActiveTakedown(l)' = {c} /\ e = c
          BY <2>2, <3>1, <3>3, <4>1 DEF ActiveTakedown
        <4>3. ASSUME c \notin overtaken' PROVE c \in Newest(l)'
          <5>1. \A d \in Takedowns(l) : imposed'[d] <= imposed'[c]
            BY <2>2, <3>3, <4>1, <4>3
          <5>2. imposed'[c] <= imposed'[c]
            BY <1>1
          <5>3. QED
            BY <4>1, <5>1, <5>2 DEF Newest
        <4>4. QED
          BY <4>2, <4>3
      <3>4. QED
        BY <3>2, <3>3
    <2>3. QED
      BY <2>1, <2>2
  <1>9. QED
    BY <1>2, <1>3, <1>6, <1>7, <1>8 DEF CaseInv, CasesAgree

\* Takedowns that begin, or find that another stands, change no case.
LEMMA CaseUntouched ==
    ASSUME CaseInv, UNCHANGED <<case, effect, appeal, imposed, overtaken>>, begun' \in Nat,
           waiting' \in [Admins -> TakedownRequests]
    PROVE  CaseInv'
  <1>1. (CaseTypes /\ StatusTellsResolution /\ FreshIsInert /\ TakedownsAreDecided)'
    BY DEF CaseInv, CaseTypes, StatusTellsResolution, FreshIsInert, TakedownsAreDecided
  <1>2. (EffectsMatchCases /\ ReportsFollowCases)'
    BY DEF CaseInv, CasesAgree, EffectsMatchCases, ReportsFollowCases
  <1>3. \A l \in Inventory : Takedowns(l)' = Takedowns(l) /\ ActiveTakedown(l)' = ActiveTakedown(l)
    BY DEF Takedowns, ActiveTakedown
  <1>4. QED
    BY <1>1, <1>2, <1>3, FoundStays DEF CaseInv, CasesAgree

\* What the consequences of a decision do to listings.
LEMMA Applied ==
    ASSUME CaseTypes, NEW c \in Cases, NEW what \in {"restrict", "restore", "keep"}, Apply(c, what)
    PROVE  /\ effect' \in [Cases -> {"none", "active", "released", "manual_restore"}]
           /\ \A d \in Cases : d # c => effect'[d] = effect[d]
           /\ case[c].resource \in Inventory => effect'[c] = CASE what = "restrict" -> "active"
                                                               [] what = "restore" -> "released"
                                                               [] OTHER -> effect[c]
           /\ case[c].resource \notin Inventory => effect'[c] = effect[c]
  BY DEF CaseTypes, Apply, Impose, ReleaseEffect

LEMMA CaseStep ==
    ASSUME CaseInv, [CaseNext]_caseVars
    PROVE  CaseInv'
  <1> USE KindsAssumption, CastAssumption
  <1>1. ASSUME NEW p \in Reporters, NEW r \in Resources, Report(p, r) PROVE CaseInv'
    <2>1. CASE Standing(p, r) # {}
      BY <1>1, <2>1, CaseUntouched DEF Report, takedownVars, CaseInv, CaseTypes
    <2>2. CASE Standing(p, r) = {}
      <3> DEFINE new == [NoCase EXCEPT !.source = "report", !.reporter = p, !.resource = r,
                                       !.status = "open", !.report = "open"]
      <3>1. PICK c \in FreshCases : case' = [case EXCEPT ![c] = new]
        BY <1>1, <2>2 DEF Report, CaseFor
      <3>2. /\ new \in CaseRecords /\ new.source = "report" /\ new.resource = r /\ new.status = "open"
            /\ new.resolution = "none" /\ new.report = "open"
        BY DEF NoCase, CaseRecords, Statuses, Resolutions, ReportStatuses
      <3>3. c \in Cases /\ effect[c] # "active" /\ UNCHANGED <<effect, appeal, begun, waiting, imposed, overtaken>>
        BY <1>1 DEF takedownVars, Report, CaseFor, FreshCases, NoCase, CaseInv, FreshIsInert
      <3> HIDE DEF new
      <3>4. QED
        BY <3>1, <3>2, <3>3, NewCaseIsSafe DEF Resources, CaseInv, CaseTypes
    <2>3. QED
      BY <2>1, <2>2
  <1>2. ASSUME NEW m \in Media, MachineRejects(m) PROVE CaseInv'
    <2> DEFINE new == [NoCase EXCEPT !.source = "machine", !.resource = m,
                                     !.status = "actioned", !.resolution = "restricted"]
    <2>1. PICK c \in FreshCases : case' = [case EXCEPT ![c] = new]
      BY <1>2 DEF MachineRejects
    <2>2. /\ new \in CaseRecords /\ new.source = "machine" /\ new.resource = m /\ new.status = "actioned"
          /\ new.resolution = "restricted"
      BY DEF NoCase, CaseRecords, Statuses, Resolutions, ReportStatuses, Resources
    <2>3. UNCHANGED <<effect, appeal, begun, waiting, imposed, overtaken>> /\ m \notin Inventory /\ m # "none"
      BY <1>2 DEF MachineRejects, takedownVars
    <2> HIDE DEF new
    <2>4. QED
      BY <2>1, <2>2, <2>3, NewCaseIsSafe DEF CaseInv, CaseTypes
  <1>3. ASSUME NEW a \in Admins, NEW c \in Cases, StartReview(a, c) PROVE CaseInv'
    <2> DEFINE new == [case[c] EXCEPT !.status = "reviewing", !.report = ReportStatus(c, "reviewing", "none")]
    <2>1. case[c] \in CaseRecords /\ ReportStatus(c, "reviewing", "none") \in ReportStatuses
      BY DEF CaseInv, CaseTypes, CaseRecords, ReportStatus, ReportStatuses
    <2>2. /\ new \in CaseRecords /\ new.source = case[c].source /\ new.resource = case[c].resource
          /\ new.status = "reviewing" /\ new.resolution = case[c].resolution
          /\ new.report = IF case[c].source # "report" THEN case[c].report ELSE "reviewing"
      BY <2>1 DEF CaseRecords, Statuses, ReportStatus
    <2>3. case' = [case EXCEPT ![c] = new] /\ case[c].status = "open"
          /\ UNCHANGED <<effect, appeal, begun, waiting, imposed, overtaken>>
      BY <1>3 DEF StartReview, takedownVars
    <2> HIDE DEF new
    <2>4. CaseTypes'
      BY <2>2, <2>3 DEF CaseInv, CaseTypes
    <2>5. (StatusTellsResolution /\ TakedownsAreDecided /\ FreshIsInert)'
      BY <2>2, <2>3 DEF CaseInv, CaseTypes, StatusTellsResolution, TakedownsAreDecided, FreshIsInert,
                        Undecided
    <2>6. (EffectsMatchCases /\ ReportsFollowCases)'
      BY <2>2, <2>3 DEF CaseInv, CaseTypes, StatusTellsResolution, CasesAgree, EffectsMatchCases,
                        ReportsFollowCases, Undecided
    <2>7. \A l \in Inventory : Takedowns(l)' = Takedowns(l) /\ ActiveTakedown(l)' = ActiveTakedown(l)
      BY <2>2, <2>3 DEF CaseInv, CaseTypes, Takedowns, ActiveTakedown
    <2>8. QED
      BY <2>3, <2>4, <2>5, <2>6, <2>7, FoundStays DEF CaseInv, CasesAgree
  <1>4. ASSUME NEW a \in Admins, NEW c \in Cases, RestrictByCase(a, c) PROVE CaseInv'
    <2>1. /\ Decide(a, c, "actioned", "restricted") /\ Apply(c, "restrict") /\ UNCHANGED <<appeal, takedownVars>>
          /\ case[c].source \notin {"none", "manual"}
      BY <1>4 DEF RestrictByCase, CaseInv, FreshIsInert, TakedownsAreDecided, Undecided
    <2>2. QED
      BY <2>1, Applied, DecisionIsSafe DEF CaseInv, CaseTypes
  <1>5. ASSUME NEW a \in Admins, NEW c \in Cases, Dismiss(a, c) PROVE CaseInv'
    <2>1. /\ Decide(a, c, "dismissed", "no_violation") /\ Apply(c, "keep") /\ UNCHANGED <<appeal, takedownVars>>
          /\ case[c].source \notin {"none", "manual"} /\ case[c].resolution = "none"
      BY <1>5 DEF Dismiss, CaseInv, FreshIsInert, TakedownsAreDecided, StatusTellsResolution, Undecided
    <2>2. case[c].resource \in Inventory => effect[c] # "active"
      BY <2>1 DEF CaseInv, CasesAgree, EffectsMatchCases
    <2>3. QED
      BY <2>1, <2>2, Applied, DecisionIsSafe DEF CaseInv, CaseTypes
  <1>6. ASSUME NEW a \in Admins, NEW c \in Cases, Restore(a, c) PROVE CaseInv'
    <2>1. /\ Decide(a, c, "resolved", "restored") /\ Apply(c, "restore") /\ UNCHANGED <<appeal, takedownVars>>
          /\ case[c].source # "none"
      BY <1>6 DEF Restore, CaseInv, FreshIsInert
    <2>2. QED
      BY <2>1, Applied, DecisionIsSafe DEF CaseInv, CaseTypes
  <1>7. ASSUME NEW a \in Admins, NEW c \in Cases, Uphold(a, c) PROVE CaseInv'
    <2>1. /\ Decide(a, c, "resolved", "restricted") /\ Apply(c, "restrict") /\ UNCHANGED takedownVars
          /\ appeal' = [appeal EXCEPT ![c] = "upheld"]
          /\ case[c].source # "none" /\ case[c].resolution = "restricted"
      BY <1>7 DEF Uphold, MayReview, CaseInv, FreshIsInert, StatusTellsResolution
    <2>2. case[c].resource \in Inventory => effect[c] = "active"
      BY <2>1 DEF CaseInv, CasesAgree, EffectsMatchCases
    <2>3. QED
      BY <2>1, <2>2, Applied, DecisionIsSafe DEF CaseInv, CaseTypes
  <1>8. ASSUME NEW a \in Admins, NEW c \in Cases, Overturn(a, c) PROVE CaseInv'
    <2>1. /\ Decide(a, c, "resolved", "restored") /\ Apply(c, "restore") /\ UNCHANGED takedownVars
          /\ appeal' = [appeal EXCEPT ![c] = "overturned"] /\ case[c].source # "none"
      BY <1>8 DEF Overturn, MayReview, CaseInv, FreshIsInert
    <2>2. QED
      BY <2>1, Applied, DecisionIsSafe DEF CaseInv, CaseTypes
  <1>9. ASSUME NEW c \in Cases, SubmitAppeal(c) PROVE CaseInv'
    <2>1. /\ case' = [case EXCEPT ![c].status = "appealed"] /\ appeal' = [appeal EXCEPT ![c] = "pending"]
          /\ UNCHANGED <<effect, begun, waiting, imposed, overtaken>>
          /\ case[c].status \in {"actioned", "resolved"} /\ case[c].resolution = "restricted"
      BY <1>9 DEF SubmitAppeal, CanAppeal, takedownVars
    <2>2. CaseTypes'
      <3>1. \A r \in CaseRecords : [r EXCEPT !.status = "appealed"] \in CaseRecords
        <4>1. "appealed" \in Statuses \cup {"none"}
          BY DEF Statuses
        <4>2. QED
          BY <4>1 DEF CaseRecords
      <3>2. case' \in [Cases -> CaseRecords]
        BY <2>1, <3>1 DEF CaseInv, CaseTypes
      <3>3. QED
        BY <2>1, <3>2 DEF CaseInv, CaseTypes
    <2>3. (StatusTellsResolution /\ TakedownsAreDecided /\ FreshIsInert)'
      BY <2>1 DEF CaseInv, CaseTypes, CaseRecords, StatusTellsResolution, TakedownsAreDecided, FreshIsInert,
                  Undecided
    <2>4. (EffectsMatchCases /\ ReportsFollowCases)'
      BY <2>1 DEF CaseInv, CaseTypes, CaseRecords, CasesAgree, EffectsMatchCases, ReportsFollowCases
    <2>5. \A l \in Inventory : Takedowns(l)' = Takedowns(l) /\ ActiveTakedown(l)' = ActiveTakedown(l)
      BY <2>1 DEF CaseInv, CaseTypes, CaseRecords, Takedowns, ActiveTakedown
    <2>6. QED
      BY <2>1, <2>2, <2>3, <2>4, <2>5, FoundStays DEF CaseInv, CasesAgree
  <1>10. ASSUME NEW a \in Admins, NEW l \in Inventory, BeginTakedown(a, l) PROVE CaseInv'
    <2>1. begun' \in Nat /\ waiting' \in [Admins -> TakedownRequests]
      BY <1>10 DEF BeginTakedown, TakedownRequests, CaseInv, CaseTypes
    <2>2. QED
      BY <1>10, <2>1, CaseUntouched DEF BeginTakedown
  <1>11. ASSUME NEW a \in Admins, FindTakedown(a) PROVE CaseInv'
    <2>1. begun' \in Nat /\ waiting' \in [Admins -> TakedownRequests]
      BY <1>11 DEF FindTakedown, TakedownRequests, CaseInv, CaseTypes
    <2>2. QED
      BY <1>11, <2>1, CaseUntouched DEF FindTakedown
  <1>12. ASSUME NEW a \in Admins, Takedown(a) PROVE CaseInv'
    <2> DEFINE l == waiting[a].of
               new == [NoCase EXCEPT !.source = "manual", !.resource = l, !.status = "actioned",
                                     !.resolution = "restricted", !.decider = a]
    <2>1. PICK c \in FreshCases :
             /\ case' = [case EXCEPT ![c] = new] /\ Impose(c)
             /\ imposed' = [imposed EXCEPT ![c] = waiting[a].at]
             /\ overtaken' = IF \E d \in Takedowns(l) : imposed[d] > waiting[a].at
                             THEN overtaken \cup {c} ELSE overtaken
      BY <1>12 DEF Takedown
    <2>2. /\ ActiveTakedown(l) = {} /\ appeal' = appeal /\ begun' = begun
          /\ waiting' = [waiting EXCEPT ![a] = NoTakedown]
      BY <1>12 DEF Takedown
    <2>3. l \in Inventory /\ l # "none" /\ waiting[a].at \in Nat
      <3>1. waiting[a] \in TakedownRequests
        BY DEF CaseInv, CaseTypes
      <3>2. waiting[a] # NoTakedown
        BY <1>12 DEF Takedown
      <3>3. QED
        BY <3>1, <3>2 DEF TakedownRequests
    <2>4. \A d \in Takedowns(l) : imposed[d] \in Nat
      BY DEF Takedowns, CaseInv, CaseTypes
    <2> HIDE DEF l
    <2>5. /\ new \in CaseRecords /\ new.source = "manual" /\ new.resource = l /\ new.status = "actioned"
          /\ new.resolution = "restricted"
      BY <2>3 DEF NoCase, CaseRecords, Statuses, Resolutions, ReportStatuses, Resources
    <2>6. c \in Cases /\ effect' = [effect EXCEPT ![c] = "active"]
      BY <2>1 DEF Impose, FreshCases
    <2> HIDE DEF new
    <2>7. /\ effect' \in [Cases -> {"none", "active", "released", "manual_restore"}]
          /\ effect'[c] = "active" /\ \A d \in Cases : d # c => effect'[d] = effect[d]
      BY <2>6 DEF CaseInv, CaseTypes
    <2>8. /\ imposed' \in [Cases -> Nat] /\ imposed'[c] = waiting[a].at
          /\ \A d \in Cases : d # c => imposed'[d] = imposed[d]
      BY <2>1, <2>3, <2>6 DEF CaseInv, CaseTypes
    <2>9. begun' \in Nat /\ waiting' \in [Admins -> TakedownRequests]
      BY <2>2 DEF TakedownRequests, CaseInv, CaseTypes
    <2>10. overtaken \subseteq overtaken'
      BY <2>1
    <2>11. c \notin overtaken' => \A d \in Takedowns(l) : imposed[d] <= imposed'[c]
      BY <2>1, <2>3, <2>4, <2>8
    <2>12. QED
      BY <2>1, <2>2, <2>3, <2>5, <2>7, <2>8, <2>9, <2>10, <2>11, NewCaseIsSafe
  <1>13. ASSUME NEW a \in Admins, NEW l \in Inventory, RestoreTakedown(a, l) PROVE CaseInv'
    <2>1. PICK c \in Newest(l) : ReleaseEffect(c, "manual_restore") /\ Decide(a, c, "resolved", "restored")
      BY <1>13 DEF RestoreTakedown
    <2>2. c \in Cases /\ case[c].source = "manual"
      BY <2>1 DEF Newest, Takedowns
    <2>3. effect' = [effect EXCEPT ![c] = "manual_restore"] /\ UNCHANGED <<appeal, takedownVars>>
      BY <1>13, <2>1 DEF RestoreTakedown, ReleaseEffect
    <2>4. QED
      BY <2>1, <2>2, <2>3, DecisionIsSafe DEF CaseInv, CaseTypes
  <1>14. CASE UNCHANGED caseVars
    BY <1>14, CaseUntouched DEF caseVars, takedownVars, CaseInv, CaseTypes
  <1>15. QED
    BY <1>1, <1>2, <1>3, <1>4, <1>5, <1>6, <1>7, <1>8, <1>9, <1>10, <1>11, <1>12, <1>13, <1>14 DEF CaseNext

\* A case, the restriction it stands for and the report it came from agree,
\* and a takedown that was not overtaken is found by its restore, whatever admins, reporters and the
\* image worker do at once (services/moderation_case.rs).
THEOREM CasesStayAgreed == CaseSpec => []CasesAgree
  <1>1. CaseInit => CaseInv
    BY KindsAssumption DEF CaseInit, CaseInv, CaseTypes, CaseRecords, NoCase, Resolutions, ReportStatuses,
           StatusTellsResolution, FreshIsInert, TakedownsAreDecided, Undecided, CasesAgree, TakedownRequests,
           EffectsMatchCases, ReportsFollowCases, RestoreFindsTakedown, ActiveTakedown, Takedowns
  <1>2. CaseInv /\ [CaseNext]_caseVars => CaseInv'
    BY CaseStep
  <1>3. CaseInv => CasesAgree
    BY DEF CaseInv
  <1>4. QED
    BY <1>1, <1>2, <1>3, PTL DEF CaseSpec

-----------------------------------------------------------------------------
(* Access tokens.                                                          *)

Lookups   == [stage : {"idle", "lookup", "found", "genuine", "read_active", "read_banned"},
              replica : Replicas \cup {"none"}]
Denylists == [denied : BOOLEAN, verified : BOOLEAN, status : {"none", "active", "banned"}]

AccessType ==
    /\ denylist \in [Replicas -> Denylists]
    /\ check \in [Checks -> Lookups]

\* What a request becomes when it goes on to a stage.
LEMMA ChecksGoOn ==
    ASSUME AccessType, NEW k \in Checks, NEW stage, Goto(k, stage),
           stage \in {"lookup", "found", "genuine", "read_active", "read_banned", "refused", "admitted"}
    PROVE  /\ check' \in [Checks -> Lookups]
           /\ \A o \in Checks : o # k => check'[o] = check[o]
           /\ check'[k] = IF stage \in {"refused", "admitted"} THEN NoCheck
                          ELSE [check[k] EXCEPT !.stage = stage]
BY DEF Goto, AccessType, Lookups, NoCheck

LEMMA AccessTypeStep == AccessType /\ [AccessNext]_accessVars => AccessType'
<1> SUFFICES ASSUME AccessType, [AccessNext]_accessVars PROVE AccessType'
  OBVIOUS
<1>1. ASSUME NEW k \in Checks, NEW r \in Replicas, BeginCheck(k, r) PROVE AccessType'
  BY <1>1 DEF BeginCheck, AccessType, FirstLookup, StillDenied, Lookups, Denylists
<1>2. ASSUME NEW k \in Checks, LookUp(k) PROVE AccessType'
  <2>1. denylist' \in [Replicas -> Denylists]
    <3>1. Deny(check[k].replica) \/ UNCHANGED denylist
      BY <1>2 DEF LookUp
    <3>2. CASE Deny(check[k].replica)
      BY <3>2 DEF Deny, AccessType, Denylists
    <3> QED
      BY <3>1, <3>2 DEF AccessType
  <2>2. PICK stage \in {"refused", "found"} : Goto(k, stage)
    BY <1>2 DEF LookUp
  <2>3. check' \in [Checks -> Lookups]
    <3>1. stage \in {"lookup", "found", "genuine", "read_active", "read_banned", "refused", "admitted"}
      BY <2>2
    <3> QED
      BY <2>2, <3>1, ChecksGoOn
  <2> QED
    BY <2>1, <2>3 DEF AccessType
<1>3. ASSUME NEW k \in Checks, MarkVerified(k) PROVE AccessType'
  BY <1>3, ChecksGoOn DEF MarkVerified, AccessType, Denylists
<1>4. ASSUME NEW k \in Checks, CheckStatus(k) PROVE AccessType'
  <2> DEFINE cached == denylist[check[k].replica].status
  <2> DEFINE stage == CASE life = "over" \/ cached = "banned" -> "refused"
                        [] cached = "active" -> "admitted"
                        [] OTHER -> IF standing = "banned" THEN "read_banned" ELSE "read_active"
  <2>1. Goto(k, stage) /\ UNCHANGED denylist
    BY <1>4 DEF CheckStatus
  <2>2. stage \in {"refused", "admitted", "read_banned", "read_active"}
    OBVIOUS
  <2> HIDE DEF stage
  <2> QED
    BY <2>1, <2>2, ChecksGoOn DEF AccessType
<1>5. ASSUME NEW k \in Checks, CacheStatus(k) PROVE AccessType'
  BY <1>5, ChecksGoOn DEF CacheStatus, AccessType, Denylists
<1>6. ASSUME NEW r \in Replicas, RevokeAccess(r) \/ DenyHere(r) \/ InvalidateStatus(r) \/ CacheExpires(r)
      PROVE AccessType'
  BY <1>6 DEF RevokeAccess, DenyHere, InvalidateStatus, CacheExpires, Deny, AccessType, Denylists
<1>7. ASSUME NEW r \in Replicas, RestartReplica(r) PROVE AccessType'
  BY <1>7 DEF RestartReplica, Cold, NoCheck, AccessType, Denylists, Lookups
<1>8. ASSUME NEW status, ChangeStanding(status) PROVE AccessType'
  BY <1>8 DEF ChangeStanding, AccessType
<1>9. TokenAges \/ UNCHANGED accessVars => AccessType'
  BY DEF TokenAges, accessVars, AccessType
<1> QED
  BY <1>1, <1>2, <1>3, <1>4, <1>5, <1>6, <1>7, <1>8, <1>9 DEF AccessNext

Settled(r) ==
    /\ ~Trusts(r)'
    /\ \A k \in Checks :
          check'[k] = [replica |-> r, stage |-> "genuine"]
              => check[k].replica = r /\ check[k].stage \in {"found", "genuine"}

\* Trust comes from a lookup that found nothing and is written by the request
\* that looked; neither can begin while the revocation is on record.
LEMMA TrustShrinks ==
    ASSUME AccessType, [AccessNext]_accessVars, jti = "revoked", life' = "fresh",
           NEW r \in Replicas, ~Trusts(r)
    PROVE  Settled(r)
<1> USE DEF Settled, Trusts
<1>0. life = "fresh"
  <2>1. TokenAges => life' # "fresh"
    BY DEF TokenAges
  <2> QED
    BY <2>1 DEF AccessNext, accessVars, BeginCheck, LookUp, MarkVerified, CheckStatus, CacheStatus, RevokeAccess,
           DenyHere, InvalidateStatus, CacheExpires, RestartReplica, ChangeStanding
<1>1. ASSUME NEW c \in Checks, NEW q \in Replicas, BeginCheck(c, q) PROVE Settled(r)
  <2>1. denylist' = denylist
    BY <1>0, <1>1 DEF BeginCheck, StillDenied, AccessType, Denylists
  <2>2. \A k \in Checks : k # c => check'[k] = check[k]
    BY <1>1 DEF BeginCheck, AccessType
  <2>3. check'[c] = check[c] \/ check'[c] = [replica |-> q, stage |-> FirstLookup(q)]
    BY <1>1 DEF BeginCheck, AccessType
  <2>4. check[c] = NoCheck /\ FirstLookup(q) # "found"
    BY <1>1 DEF BeginCheck, FirstLookup
  <2>5. FirstLookup(q) = "genuine" => ~denylist[q].denied /\ denylist[q].verified
    BY <1>0 DEF FirstLookup, StillDenied
  <2>6. ~Trusts(r)'
    BY <2>1, <2>2, <2>3, <2>4 DEF NoCheck
  <2> QED
    BY <2>2, <2>3, <2>4, <2>5, <2>6 DEF NoCheck
<1>2. ASSUME NEW c \in Checks, LookUp(c) PROVE Settled(r)
  <2>1. Deny(check[c].replica) /\ Goto(c, "refused")
    BY <1>0, <1>2 DEF LookUp
  <2>2. \A k \in Checks : IF k = c THEN check'[k] = NoCheck ELSE check'[k] = check[k]
    BY <2>1, ChecksGoOn
  <2>3. denylist'[r].denied \/ denylist'[r] = denylist[r]
    BY <2>1 DEF Deny, AccessType, Denylists
  <2> QED
    BY <2>2, <2>3 DEF NoCheck, AccessType
<1>3. ASSUME NEW c \in Checks, MarkVerified(c) PROVE Settled(r)
  <2>0. Goto(c, "genuine") /\ check[c].stage = "found"
    BY <1>3 DEF MarkVerified
  <2>1. (\A k \in Checks : k # c => check'[k] = check[k]) /\ check'[c] = [check[c] EXCEPT !.stage = "genuine"]
    BY <2>0, ChecksGoOn
  <2>2. check[c] = [replica |-> check[c].replica, stage |-> "found"]
    BY <2>0 DEF AccessType, Lookups
  <2>5. check'[c] = [replica |-> check[c].replica, stage |-> "genuine"]
    BY <2>1, <2>2
  <2>3. denylist'[r].denied = denylist[r].denied
        /\ (check[c].replica # r => denylist'[r] = denylist[r])
    BY <1>3 DEF MarkVerified, AccessType, Denylists
  <2>6. \A k \in Checks : check'[k] = [replica |-> r, stage |-> "found"] => check[k] = check'[k]
    BY <2>1, <2>5
  <2>4. ~Trusts(r)'
    BY <2>2, <2>3, <2>6
  <2>7. \A k \in Checks : check'[k] = [replica |-> r, stage |-> "genuine"]
                              => check[k].replica = r /\ check[k].stage \in {"found", "genuine"}
    BY <2>1, <2>5, <2>0
  <2> QED
    BY <2>4, <2>7
<1>4. ASSUME NEW c \in Checks, NEW stage \in {"refused", "admitted", "read_banned", "read_active"},
             Goto(c, stage), denylist'[r].denied = denylist[r].denied,
             denylist'[r].verified = denylist[r].verified
      PROVE Settled(r)
  <2>1. \A k \in Checks : k # c => check'[k] = check[k]
    BY <1>4, ChecksGoOn
  <2>3. check'[c] = IF stage \in {"refused", "admitted"} THEN NoCheck ELSE [check[c] EXCEPT !.stage = stage]
    BY <1>4, ChecksGoOn
  <2>2. check'[c].stage \notin {"found", "genuine"}
    BY <1>4, <2>3 DEF NoCheck, AccessType, Lookups
  <2> QED
    BY <1>4, <2>1, <2>2
<1>5. ASSUME NEW k \in Checks, CheckStatus(k) PROVE Settled(r)
  <2> DEFINE cached == denylist[check[k].replica].status
  <2> DEFINE stage == CASE life = "over" \/ cached = "banned" -> "refused"
                        [] cached = "active" -> "admitted"
                        [] OTHER -> IF standing = "banned" THEN "read_banned" ELSE "read_active"
  <2>1. Goto(k, stage) /\ UNCHANGED denylist
    BY <1>5 DEF CheckStatus
  <2>2. stage \in {"refused", "admitted", "read_banned", "read_active"}
    OBVIOUS
  <2> HIDE DEF stage
  <2> QED
    BY <1>4, <2>1, <2>2
<1>6. ASSUME NEW k \in Checks, CacheStatus(k) PROVE Settled(r)
  <2>1. denylist'[r].denied = denylist[r].denied /\ denylist'[r].verified = denylist[r].verified
    BY <1>6 DEF CacheStatus, AccessType, Denylists
  <2>2. Goto(k, "refused") \/ Goto(k, "admitted")
    BY <1>6 DEF CacheStatus
  <2> QED
    BY <1>4, <2>1, <2>2
<1>7. ASSUME UNCHANGED check, denylist'[r].denied \/ denylist'[r].denied = denylist[r].denied,
             denylist'[r].verified => denylist[r].verified
      PROVE Settled(r)
  BY <1>7 DEF AccessType, Denylists
<1>8. ASSUME NEW q \in Replicas, RevokeAccess(q) \/ DenyHere(q) \/ InvalidateStatus(q) \/ CacheExpires(q)
      PROVE Settled(r)
  <2>1. UNCHANGED check
    BY <1>8 DEF RevokeAccess, DenyHere, InvalidateStatus, CacheExpires
  <2>2. /\ denylist'[r].denied \/ denylist'[r].denied = denylist[r].denied
        /\ denylist'[r].verified => denylist[r].verified
    BY <1>8 DEF RevokeAccess, DenyHere, InvalidateStatus, CacheExpires, Deny, AccessType, Denylists
  <2> QED
    BY <1>7, <2>1, <2>2
<1>9. ASSUME NEW q \in Replicas, RestartReplica(q) PROVE Settled(r)
  <2>1. \A k \in Checks : check'[k] = IF check[k].replica = q THEN NoCheck ELSE check[k]
    BY <1>9 DEF RestartReplica
  <2>2. denylist'[r] = IF r = q THEN Cold ELSE denylist[r]
    BY <1>9 DEF RestartReplica, AccessType
  <2> QED
    BY <2>1, <2>2, ReplicasAssumption DEF NoCheck, Cold
<1>10. ASSUME NEW status, ChangeStanding(status) PROVE Settled(r)
  BY <1>7, <1>10 DEF ChangeStanding
<1>11. TokenAges \/ UNCHANGED accessVars => Settled(r)
  BY <1>7 DEF TokenAges, accessVars
<1> QED
  BY <1>1, <1>2, <1>3, <1>5, <1>6, <1>8, <1>9, <1>10, <1>11 DEF AccessNext

\* Trust in a revoked token only shrinks until it expires, on every replica,
\* whatever requests, restarts and caches do (ensure_token_not_revoked).
THEOREM DenialIsFinal == AccessSpec => DeniedStaysDenied
<1>1. AccessInit => AccessType
  BY DEF AccessInit, AccessType, NoCheck, Cold, Lookups, Denylists
<1>2. AccessType /\ [AccessNext]_accessVars =>
        [jti = "revoked" /\ life' = "fresh" =>
            \A r \in Replicas : ~Trusts(r) =>
                /\ ~Trusts(r)'
                /\ \A k \in Checks :
                      check'[k] = [replica |-> r, stage |-> "genuine"]
                          => check[k].replica = r /\ check[k].stage \in {"found", "genuine"}]_accessVars
  BY TrustShrinks DEF Settled
<1> QED
  BY <1>1, <1>2, AccessTypeStep, PTL DEF AccessSpec, DeniedStaysDenied

-----------------------------------------------------------------------------
(* Memberships.                                                            *)

ChallengeFields == {"campus", "mail", "open", "attempts", "age"}
FormFields == {"stage", "campus", "mail", "challenge"}

ChallengeTypes ==
    /\ DOMAIN challenge = Challenges
    /\ \A n \in Challenges :
          /\ DOMAIN challenge[n] = ChallengeFields
          /\ challenge[n].campus \in Campuses \cup {"none"}
          /\ challenge[n].attempts \in Nat /\ challenge[n].age \in Nat

\* Challenges are used in their order, each for a mailbox of its campus, and
\* only the last of a campus is open.
InOrder == \E k \in 0..MaxChallenges : Issued = 1..k
MailFits == \A n \in Issued : CampusOf[challenge[n].mail] = challenge[n].campus
OpenIsLatest == \A n, o \in Issued :
    challenge[n].open /\ challenge[o].campus = challenge[n].campus => o <= n
AttemptsAreFew == \A n \in Issued : challenge[n].attempts <= MaxAttempts
RecentAreFew == \A c \in Campuses : Cardinality(Recent(c)) <= HourlyLimit

ChallengesSound == /\ ChallengeTypes /\ InOrder /\ MailFits /\ OpenIsLatest
                   /\ AttemptsAreFew /\ RecentAreFew

\* A request knows its campus; a code that was typed rightly is that of an open
\* challenge, which it has locked.
FormFits(f) ==
    /\ DOMAIN f = FormFields
    /\ f.stage = "wanted" => f.campus \in Campuses /\ f.mail \in Mailboxes
    /\ f.stage = "changed" => f.campus \in Campuses
    /\ f.stage = "typed" => /\ f.campus \in Campuses /\ f.challenge \in OpenOf(f.campus)
                            /\ challenge[f.challenge].attempts < MaxAttempts
FormsFit == DOMAIN form = Forms /\ \A r \in Forms : FormFits(form[r])
LockedOnce == \A r, s \in Forms :
    form[r].stage = "typed" /\ form[s].stage = "typed" /\ form[r].challenge = form[s].challenge => r = s

MemberInv == /\ mail \in Mailboxes /\ DOMAIN member = Campuses
             /\ ChallengesSound /\ FormsFit /\ LockedOnce

LEMMA OneOpenOf ==
    ASSUME ChallengesSound, NEW c, NEW n \in OpenOf(c)
    PROVE  /\ OpenOf(c) = {n} /\ n \in Issued /\ n \in Challenges
           /\ \A o \in Issued : challenge[o].campus = c => o <= n
<1>1. OpenOf(c) \subseteq Issued /\ Issued \subseteq Challenges
  BY DEF OpenOf, Issued
<1>2. \A o \in Issued : challenge[o].campus = c => o <= n
  BY DEF OpenOf, ChallengesSound, OpenIsLatest
<1>3. \A o \in OpenOf(c) : n <= o
  BY DEF OpenOf, ChallengesSound, OpenIsLatest
<1>4. \A o \in OpenOf(c) : o = n
  <2> TAKE o \in OpenOf(c)
  <2>0. o \in Issued /\ challenge[o].campus = c
    BY DEF OpenOf
  <2>1. o <= n /\ n <= o
    BY <1>2, <1>3, <2>0
  <2>2. o \in Challenges /\ n \in Challenges
    BY <1>1
  <2>3. o \in Int /\ n \in Int
    BY <2>2, MembershipsAssumption DEF Challenges
  <2> QED
    BY <2>1, <2>3
<1> QED
  BY <1>1, <1>2, <1>4

LEMMA FiniteRecent ==
    ASSUME ChallengesSound, NEW c
    PROVE  IsFiniteSet(Recent(c)) /\ IsFiniteSet(Issued) /\ Cardinality(Recent(c)) \in Nat
<1>1. PICK k \in 0..MaxChallenges : Issued = 1..k
  BY DEF ChallengesSound, InOrder
<1>2. IsFiniteSet(Issued)
  BY <1>1, FS_Interval, MembershipsAssumption
<1>3. Recent(c) \subseteq Issued
  BY DEF Recent
<1> QED
  BY <1>2, <1>3, FS_Subset, FS_CardinalityType

\* A challenge that gets older, is missed once more or is closed.
LEMMA AmendedIsSound ==
    ASSUME ChallengesSound, NEW n \in Issued, NEW new, challenge' = [challenge EXCEPT ![n] = new],
           DOMAIN new = ChallengeFields, new.campus = challenge[n].campus, new.mail = challenge[n].mail,
           new.attempts \in Nat, new.attempts <= MaxAttempts, new.age \in Nat, new.age >= challenge[n].age,
           new.open => challenge[n].open
    PROVE  ChallengesSound' /\ \A m \in Challenges : challenge'[m] = IF m = n THEN new ELSE challenge[m]
<1>0. n \in Challenges
  BY DEF Issued
<1>1. \A m \in Challenges : challenge'[m] = IF m = n THEN new ELSE challenge[m]
  BY DEF ChallengesSound, ChallengeTypes
<1>2. ChallengeTypes'
  BY <1>0, <1>1 DEF ChallengesSound, ChallengeTypes
<1>3. Issued' = Issued
  BY <1>0, <1>1 DEF Issued
<1>4. (InOrder /\ MailFits /\ OpenIsLatest /\ AttemptsAreFew)'
  <2>1. InOrder'
    BY <1>3 DEF ChallengesSound, InOrder
  <2>2. \A m \in Issued : m \in Challenges
    BY DEF Issued
  <2>3. MailFits' /\ AttemptsAreFew'
    BY <1>1, <1>3, <2>2 DEF ChallengesSound, MailFits, AttemptsAreFew
  <2>4. \A m \in Issued : challenge'[m].campus = challenge[m].campus /\ (challenge'[m].open => challenge[m].open)
    BY <1>1, <2>2
  <2>5. OpenIsLatest'
    BY <1>3, <2>4 DEF ChallengesSound, OpenIsLatest
  <2> QED
    BY <2>1, <2>3, <2>5
<1>5. ASSUME NEW c \in Campuses PROVE Cardinality(Recent(c)') <= HourlyLimit
  <2>1. \A m \in Issued : challenge'[m].campus = challenge[m].campus
                          /\ (challenge'[m].age < 3 => challenge[m].age < 3)
    BY <1>0, <1>1 DEF ChallengesSound, ChallengeTypes, Issued
  <2>2. Recent(c)' \subseteq Recent(c)
    BY <1>3, <2>1 DEF Recent
  <2>3. /\ Cardinality(Recent(c)') <= Cardinality(Recent(c)) /\ Cardinality(Recent(c)') \in Nat
        /\ Cardinality(Recent(c)) \in Nat
    BY <2>2, FiniteRecent, FS_Subset, FS_CardinalityType
  <2> QED
    BY <2>3, MembershipsAssumption DEF ChallengesSound, RecentAreFew
<1> QED
  BY <1>1, <1>2, <1>4, <1>5 DEF ChallengesSound, RecentAreFew

\* Forms whose challenges nobody touches still fit.
LEMMA FormStillFits ==
    ASSUME NEW f, FormFits(f),
           f.stage = "typed" /\ f.challenge \in Issued =>
               f.challenge \in Issued' /\ challenge'[f.challenge] = challenge[f.challenge]
    PROVE  FormFits(f)'
BY DEF FormFits, OpenOf

\* One form changes, and the challenges do not.
LEMMA FormGoesOn ==
    ASSUME MemberInv, UNCHANGED challenge, mail' \in Mailboxes, DOMAIN member' = Campuses,
           NEW r \in Forms, NEW new, form' = [form EXCEPT ![r] = new], FormFits(new),
           new.stage = "typed" => \A s \in Forms : form[s].stage = "typed" => form[s].challenge # new.challenge
    PROVE  MemberInv'
<1>1. \A s \in Forms : form'[s] = IF s = r THEN new ELSE form[s]
  BY DEF MemberInv, FormsFit
<1>2. ChallengesSound'
  BY DEF MemberInv, ChallengesSound, ChallengeTypes, InOrder, MailFits, OpenIsLatest, AttemptsAreFew, RecentAreFew,
         Issued, Recent
<1>3. Issued' = Issued
  BY DEF Issued
<1>4. \A f : FormFits(f) => FormFits(f)'
  BY <1>3, FormStillFits
<1>5. FormsFit'
  BY <1>1, <1>4 DEF MemberInv, FormsFit
<1>6. LockedOnce'
  BY <1>1 DEF MemberInv, LockedOnce
<1> QED
  BY <1>2, <1>5, <1>6 DEF MemberInv

\* A new challenge takes the place of the open one of its campus, which nobody
\* has locked.
LEMMA IssuingIsSafe == ASSUME MemberInv, NEW r \in Forms, Issue(r) PROVE MemberInv'
<1> DEFINE c == form[r].campus
           k == Cardinality(Issued)
           n == k + 1
           row == [NoChallenge EXCEPT !.campus = c, !.mail = form[r].mail, !.open = TRUE]
<1>0. form[r].stage = "wanted" /\ MayIssue(r) /\ n \in Challenges
      /\ c \in Campuses /\ form[r].mail \in Mailboxes /\ CampusOf[form[r].mail] = c
  BY DEF Issue, MayIssue, MemberInv, FormsFit, FormFits
<1>1. k \in 0..MaxChallenges /\ Issued = 1..k
  <2>1. PICK i \in 0..MaxChallenges : Issued = 1..i
    BY DEF MemberInv, ChallengesSound, InOrder
  <2>2. Cardinality(1..i) = i
    BY <2>1, MembershipsAssumption, FS_Interval
  <2> QED
    BY <2>1, <2>2
<1>2. /\ challenge' = [m \in Challenges |->
            IF m = n THEN row
            ELSE IF m \in OpenOf(c) THEN [challenge[m] EXCEPT !.open = FALSE] ELSE challenge[m]]
      /\ form' = [form EXCEPT ![r].stage = "sending", ![r].challenge = n]
      /\ UNCHANGED <<mail, member, undelivered>>
      /\ \A o \in Forms : form[o].stage = "typed" => form[o].challenge \notin OpenOf(c)
  BY DEF Issue
<1>3. DOMAIN row = ChallengeFields /\ row.campus = c /\ row.mail = form[r].mail /\ row.open
      /\ row.attempts = 0 /\ row.age = 0
  BY DEF NoChallenge, ChallengeFields
<1>4. Cardinality(Recent(c)) < HourlyLimit
  BY <1>0 DEF MayIssue
<1> DEFINE closed == [m \in Challenges |-> [challenge[m] EXCEPT !.open = FALSE]]
<1>5. \A m \in Challenges : /\ DOMAIN closed[m] = ChallengeFields
                            /\ closed[m].campus = challenge[m].campus /\ closed[m].mail = challenge[m].mail
                            /\ closed[m].attempts = challenge[m].attempts /\ closed[m].age = challenge[m].age
                            /\ ~closed[m].open
  BY DEF MemberInv, ChallengesSound, ChallengeTypes, ChallengeFields
<1>6. \A m \in Challenges : challenge'[m] = IF m = n THEN row
                                            ELSE IF m \in OpenOf(c) THEN closed[m] ELSE challenge[m]
  BY <1>2
<1> HIDE DEF c, k, row, closed
<1>7. n \notin Issued /\ \A m \in Issued : m < n /\ m \in Challenges /\ m \in Int
  BY <1>1 DEF Issued
<1>8. \A m \in Issued : /\ challenge'[m].campus = challenge[m].campus /\ challenge'[m].mail = challenge[m].mail
                        /\ challenge'[m].attempts = challenge[m].attempts /\ challenge'[m].age = challenge[m].age
                        /\ (challenge'[m].open => challenge[m].open)
  BY <1>5, <1>6, <1>7
<1>9. \A m \in Issued : challenge[m].campus = c => ~challenge'[m].open
  BY <1>5, <1>6, <1>7 DEF OpenOf
<1>10. challenge'[n] = row
  BY <1>0, <1>6
<1>11. ChallengeTypes'
  <2>1. DOMAIN challenge' = Challenges
    BY <1>2
  <2>2. ASSUME NEW m \in Challenges
        PROVE  /\ DOMAIN challenge'[m] = ChallengeFields /\ challenge'[m].campus \in Campuses \cup {"none"}
               /\ challenge'[m].attempts \in Nat /\ challenge'[m].age \in Nat
    BY <1>0, <1>3, <1>5, <1>6 DEF MemberInv, ChallengesSound, ChallengeTypes
  <2> QED
    BY <2>1, <2>2 DEF ChallengeTypes
<1>12. Issued' = Issued \cup {n}
  <2>1. c # "none"
    BY <1>0, MembershipsAssumption
  <2>2. \A m \in Challenges : m # n => challenge'[m].campus = challenge[m].campus
    BY <1>5, <1>6
  <2> QED
    BY <1>0, <1>3, <1>10, <2>1, <2>2 DEF Issued
<1>13. InOrder'
  <2>1. Issued' = 1..n /\ n \in 0..MaxChallenges
    BY <1>0, <1>1, <1>12, MembershipsAssumption DEF Challenges
  <2> QED
    BY <2>1 DEF InOrder
<1>14. MailFits' /\ AttemptsAreFew'
  BY <1>0, <1>3, <1>8, <1>10, <1>12, MembershipsAssumption DEF MemberInv, ChallengesSound, MailFits, AttemptsAreFew
<1>15. OpenIsLatest'
  <2>1. ASSUME NEW m \in Issued', NEW o \in Issued', challenge'[m].open, challenge'[o].campus = challenge'[m].campus
        PROVE  o <= m
    <3>1. n <= n
      BY <1>1
    <3>2. CASE m = n
      BY <1>7, <1>12, <3>1, <3>2, <1>1
    <3>3. CASE m # n
      <4>1. m \in Issued /\ challenge[m].campus # c /\ challenge[m].open
        BY <1>8, <1>9, <1>12, <2>1, <3>3
      <4>2. o \in Issued
        BY <1>3, <1>8, <1>10, <1>12, <2>1, <4>1
      <4> QED
        BY <1>8, <2>1, <4>1, <4>2 DEF MemberInv, ChallengesSound, OpenIsLatest
    <3> QED
      BY <3>2, <3>3
  <2> QED
    BY <2>1 DEF OpenIsLatest
<1>16. RecentAreFew'
  <2>1. ASSUME NEW d \in Campuses PROVE Cardinality(Recent(d)') <= HourlyLimit
    <3>1. CASE d = c
      <4>1. Recent(d)' = Recent(c) \cup {n} /\ n \notin Recent(c)
        BY <1>3, <1>7, <1>8, <1>10, <1>12, <3>1 DEF Recent
      <4>2. IsFiniteSet(Recent(c)) /\ Cardinality(Recent(c)) \in Nat
        BY FiniteRecent DEF MemberInv
      <4>3. Cardinality(Recent(d)') = Cardinality(Recent(c)) + 1
        BY <4>1, <4>2, FS_AddElement
      <4> QED
        BY <1>4, <4>2, <4>3, MembershipsAssumption
    <3>2. CASE d # c
      <4>1. Recent(d)' = Recent(d)
        BY <1>3, <1>8, <1>10, <1>12, <3>2 DEF Recent
      <4> QED
        BY <4>1 DEF MemberInv, ChallengesSound, RecentAreFew
    <3> QED
      BY <3>1, <3>2
  <2> QED
    BY <2>1 DEF RecentAreFew
<1>17. FormsFit' /\ LockedOnce'
  <2>1. PICK new : new = [form[r] EXCEPT !.stage = "sending", !.challenge = n]
    OBVIOUS
  <2>2. form' = [form EXCEPT ![r] = new] /\ DOMAIN form = Forms
    BY <1>2, <2>1 DEF MemberInv, FormsFit
  <2>3. DOMAIN new = FormFields /\ new.stage = "sending"
    BY <2>1 DEF MemberInv, FormsFit, FormFits, FormFields
  <2>4. \A s \in Forms : form'[s] = IF s = r THEN new ELSE form[s]
    BY <2>2
  <2>5. FormFits(new)'
    BY <2>3 DEF FormFits
  <2>6. ASSUME NEW f, FormFits(f), f.stage = "typed" => f.challenge \notin OpenOf(c)
        PROVE  FormFits(f)'
    <3>1. ASSUME f.stage = "typed", f.challenge \in Issued
          PROVE f.challenge \in Issued' /\ challenge'[f.challenge] = challenge[f.challenge]
      BY <1>6, <1>7, <1>12, <2>6, <3>1
    <3> QED
      BY <2>6, <3>1, FormStillFits
  <2>7. \A f : (f = new \/ \E s \in Forms : f = form[s]) => FormFits(f)'
    BY <1>2, <2>5, <2>6 DEF MemberInv, FormsFit
  <2>8. FormsFit'
    BY <2>2, <2>4, <2>7 DEF FormsFit
  <2>9. LockedOnce'
    BY <2>3, <2>4 DEF MemberInv, LockedOnce
  <2> QED
    BY <2>8, <2>9
<1> QED
  BY <1>2, <1>11, <1>13, <1>14, <1>15, <1>16, <1>17 DEF MemberInv, ChallengesSound

\* A challenge changes that nobody has locked, and no form with it.
LEMMA UnlockedIsAmended ==
    ASSUME MemberInv, UNCHANGED <<mail, member, form>>, NEW n \in Issued, NEW new,
           challenge' = [challenge EXCEPT ![n] = new],
           DOMAIN new = ChallengeFields, new.campus = challenge[n].campus, new.mail = challenge[n].mail,
           new.attempts \in Nat, new.attempts <= MaxAttempts, new.age \in Nat, new.age >= challenge[n].age,
           new.open => challenge[n].open,
           \/ \A r \in Forms : form[r].stage = "typed" => form[r].challenge # n
           \/ new.open = challenge[n].open /\ new.attempts = challenge[n].attempts
    PROVE  MemberInv'
<1>1. ChallengesSound' /\ \A m \in Challenges : challenge'[m] = IF m = n THEN new ELSE challenge[m]
  BY AmendedIsSound DEF MemberInv
<1>2. Issued' = Issued
  BY <1>1 DEF Issued
<1>3. \A f : FormFits(f) /\ (\E r \in Forms : f = form[r]) => FormFits(f)'
  <2>1. ASSUME NEW f, FormFits(f), NEW r \in Forms, f = form[r] PROVE FormFits(f)'
    <3>1. CASE f.stage = "typed" => f.challenge # n
      <4>1. \A m \in Issued : m \in Challenges
        BY DEF Issued
      <4> QED
        BY <1>1, <1>2, <2>1, <3>1, <4>1, FormStillFits
    <3>2. CASE f.stage = "typed" /\ f.challenge = n
      <4>1. new.open = challenge[n].open /\ new.attempts = challenge[n].attempts
        BY <2>1, <3>2
      <4>2. n \in OpenOf(f.campus) /\ n \in Challenges
        BY <2>1, <3>2 DEF FormFits, Issued
      <4>3. n \in OpenOf(f.campus)'
        BY <1>1, <1>2, <4>1, <4>2 DEF OpenOf
      <4> QED
        BY <1>1, <2>1, <3>2, <4>1, <4>2, <4>3 DEF FormFits
    <3> QED
      BY <3>1, <3>2
  <2> QED
    BY <2>1
<1>4. FormsFit'
  BY <1>3 DEF MemberInv, FormsFit
<1> QED
  BY <1>1, <1>4 DEF MemberInv, LockedOnce

LEMMA TypingIsSafe ==
    ASSUME MemberInv, NEW r \in Forms, NEW c \in Campuses, NEW code, TypeCode(r, c, code)
    PROVE  MemberInv'
<1> DEFINE n == CHOOSE m \in OpenOf(c) : \A o \in OpenOf(c) : o <= m
           missed == challenge[n].attempts + 1
<1>1. PICK m \in OpenOf(c) : OpenOf(c) = {m} /\ m \in Issued /\ m \in Challenges
  BY OneOpenOf DEF TypeCode, MemberInv
<1>2. m <= m
  BY <1>1, MembershipsAssumption DEF Challenges
<1>3. n \in OpenOf(c) /\ n \in Issued /\ n \in Challenges
  BY <1>1, <1>2
<1>4. \A o \in Forms : form[o].stage = "typed" => form[o].challenge # n
  BY <1>3 DEF TypeCode, Lockable
<1>5. challenge[n].open /\ challenge[n].campus = c
  BY <1>3 DEF OpenOf
<1>6. /\ DOMAIN challenge[n] = ChallengeFields /\ DOMAIN challenge = Challenges
      /\ challenge[n].attempts \in Nat /\ challenge[n].age \in Nat /\ challenge[n].attempts <= MaxAttempts
  BY <1>3 DEF MemberInv, ChallengesSound, ChallengeTypes, AttemptsAreFew
<1>7. challenge[n].age >= challenge[n].age
  BY <1>6
<1>8. UNCHANGED <<mail, member, undelivered>>
  BY DEF TypeCode
<1>9. \/ challenge' = [challenge EXCEPT ![n].open = FALSE] /\ UNCHANGED form
      \/ /\ ~(challenge[n].attempts >= MaxAttempts) /\ UNCHANGED form
         /\ challenge' = [challenge EXCEPT ![n].attempts = missed, ![n].open = missed < MaxAttempts]
      \/ /\ ~(challenge[n].attempts >= MaxAttempts) /\ UNCHANGED challenge
         /\ form' = [form EXCEPT ![r] = [Idle EXCEPT !.stage = "typed", !.campus = c, !.challenge = n]]
  BY DEF TypeCode
<1> HIDE DEF n
<1>10. CASE challenge' = [challenge EXCEPT ![n].open = FALSE] /\ UNCHANGED form
  <2> DEFINE new == [challenge[n] EXCEPT !.open = FALSE]
  <2>1. challenge' = [challenge EXCEPT ![n] = new]
    BY <1>6, <1>10
  <2>2. DOMAIN new = ChallengeFields /\ new.campus = challenge[n].campus /\ new.mail = challenge[n].mail
        /\ new.attempts = challenge[n].attempts /\ new.age = challenge[n].age /\ ~new.open
    BY <1>6 DEF ChallengeFields
  <2> HIDE DEF new
  <2> QED
    BY <1>3, <1>4, <1>6, <1>7, <1>8, <1>10, <2>1, <2>2, UnlockedIsAmended
<1>11. CASE /\ ~(challenge[n].attempts >= MaxAttempts) /\ UNCHANGED form
            /\ challenge' = [challenge EXCEPT ![n].attempts = missed, ![n].open = missed < MaxAttempts]
  <2>0. PICK x \in Nat : x = missed /\ x <= MaxAttempts
    BY <1>6, <1>11, MembershipsAssumption
  <2>1. PICK b : b = (missed < MaxAttempts)
    OBVIOUS
  <2> DEFINE new == [challenge[n] EXCEPT !.attempts = x, !.open = b]
  <2>2. challenge' = [challenge EXCEPT ![n].attempts = x, ![n].open = b] /\ UNCHANGED form
    BY <1>11, <2>0, <2>1 DEF missed
  <2>3. DOMAIN new = ChallengeFields /\ new.campus = challenge[n].campus /\ new.mail = challenge[n].mail
        /\ new.attempts = x /\ new.age = challenge[n].age
    BY <1>6 DEF ChallengeFields
  <2>4. challenge' = [challenge EXCEPT ![n] = new]
    BY <1>6, <2>2
  <2>5. UNCHANGED form
    BY <2>2
  <2> HIDE DEF new, missed
  <2> QED
    BY <1>3, <1>4, <1>5, <1>6, <1>7, <1>8, <2>0, <2>3, <2>4, <2>5, UnlockedIsAmended
<1>12. CASE /\ ~(challenge[n].attempts >= MaxAttempts) /\ UNCHANGED challenge
            /\ form' = [form EXCEPT ![r] = [Idle EXCEPT !.stage = "typed", !.campus = c, !.challenge = n]]
  <2> DEFINE new == [Idle EXCEPT !.stage = "typed", !.campus = c, !.challenge = n]
  <2>1. DOMAIN new = FormFields /\ new.stage = "typed" /\ new.campus = c /\ new.challenge = n
    BY DEF Idle, FormFields
  <2>2. form' = [form EXCEPT ![r] = new]
    BY <1>12
  <2> HIDE DEF new
  <2>3. FormFits(new)
    BY <1>3, <1>6, <1>12, <2>1, MembershipsAssumption DEF FormFits
  <2> QED
    BY <1>4, <1>8, <1>12, <2>1, <2>2, <2>3, FormGoesOn DEF MemberInv
<1> QED
  BY <1>9, <1>10, <1>11, <1>12

\* Whoever types the right code closes the challenge he has locked.
LEMMA VerifyingIsSafe == ASSUME MemberInv, NEW r \in Forms, Verify(r) PROVE MemberInv'
<1> DEFINE n == form[r].challenge
           new == [challenge[n] EXCEPT !.open = FALSE]
<1>1. form[r].stage = "typed" /\ n \in OpenOf(form[r].campus) /\ form[r].campus \in Campuses
  BY DEF Verify, MemberInv, FormsFit, FormFits
<1>2. n \in Issued /\ n \in Challenges
  BY <1>1 DEF OpenOf, Issued
<1>3. /\ DOMAIN challenge[n] = ChallengeFields /\ DOMAIN challenge = Challenges
      /\ challenge[n].attempts \in Nat /\ challenge[n].age \in Nat /\ challenge[n].attempts <= MaxAttempts
  BY <1>2 DEF MemberInv, ChallengesSound, ChallengeTypes, AttemptsAreFew
<1>4. challenge' = [challenge EXCEPT ![n] = new] /\ form' = [form EXCEPT ![r] = Idle] /\ mail' = mail
      /\ DOMAIN member' = Campuses
  BY <1>3 DEF Verify, Finish, MemberInv
<1>5. DOMAIN new = ChallengeFields /\ new.campus = challenge[n].campus /\ new.mail = challenge[n].mail
      /\ new.attempts = challenge[n].attempts /\ new.age = challenge[n].age /\ ~new.open
  BY <1>3 DEF ChallengeFields
<1> HIDE DEF new
<1>6. challenge[n].age >= challenge[n].age
  BY <1>3
<1>7. ChallengesSound' /\ \A m \in Challenges : challenge'[m] = IF m = n THEN new ELSE challenge[m]
  BY <1>2, <1>3, <1>4, <1>5, <1>6, AmendedIsSound DEF MemberInv
<1>8. Issued' = Issued
  BY <1>5, <1>7 DEF Issued
<1>9. \A s \in Forms : form'[s] = IF s = r THEN Idle ELSE form[s]
  BY <1>4 DEF MemberInv, FormsFit
<1>10. DOMAIN Idle = FormFields /\ Idle.stage = "idle"
  BY DEF Idle, FormFields
<1>11. FormFits(Idle)'
  BY <1>10 DEF FormFits
<1>12. ASSUME NEW f, FormFits(f), f.stage = "typed" => f.challenge # n PROVE FormFits(f)'
  <2>1. \A m \in Issued : m \in Challenges
    BY DEF Issued
  <2> QED
    BY <1>7, <1>8, <1>12, <2>1, FormStillFits
<1>13. \A s \in Forms : s # r /\ form[s].stage = "typed" => form[s].challenge # n
  BY <1>1 DEF MemberInv, LockedOnce
<1>14. \A f : (f = Idle \/ \E s \in Forms : s # r /\ f = form[s]) => FormFits(f)'
  BY <1>11, <1>12, <1>13 DEF MemberInv, FormsFit
<1>15. FormsFit'
  BY <1>4, <1>9, <1>14 DEF MemberInv, FormsFit
<1>16. LockedOnce'
  BY <1>9, <1>10 DEF MemberInv, LockedOnce
<1> QED
  BY <1>4, <1>7, <1>15, <1>16 DEF MemberInv

LEMMA AgeingIsSafe == ASSUME MemberInv, NEW n \in Challenges, TimePasses(n) PROVE MemberInv'
<1>1. /\ DOMAIN challenge[n] = ChallengeFields /\ DOMAIN challenge = Challenges
      /\ challenge[n].attempts \in Nat /\ challenge[n].age \in Nat /\ challenge[n].attempts <= MaxAttempts
      /\ n \in Issued
  BY DEF TimePasses, MemberInv, ChallengesSound, ChallengeTypes, AttemptsAreFew
<1>2. PICK x \in Nat : x = challenge[n].age + 1 /\ x >= challenge[n].age
  BY <1>1
<1> DEFINE new == [challenge[n] EXCEPT !.age = x]
<1>3. challenge' = [challenge EXCEPT ![n] = new]
  BY <1>1, <1>2 DEF TimePasses
<1>4. DOMAIN new = ChallengeFields /\ new.campus = challenge[n].campus /\ new.mail = challenge[n].mail
      /\ new.attempts = challenge[n].attempts /\ new.age = x /\ new.open = challenge[n].open
  BY <1>1 DEF ChallengeFields
<1>5. UNCHANGED <<mail, member, form>>
  BY DEF TimePasses
<1> HIDE DEF new
<1> QED
  BY <1>1, <1>2, <1>3, <1>4, <1>5, UnlockedIsAmended

\* A form that lets go, or does not hold a challenge.
LEMMA HoldingNothingFits ==
    ASSUME NEW f, DOMAIN f = FormFields, f.stage # "typed",
           f.stage = "wanted" => f.campus \in Campuses /\ f.mail \in Mailboxes,
           f.stage = "changed" => f.campus \in Campuses
    PROVE  FormFits(f)
BY DEF FormFits

LEMMA IdleFits == FormFits(Idle) /\ Idle.stage = "idle"
BY HoldingNothingFits DEF Idle, FormFields

LEMMA FinishingIsSafe ==
    ASSUME MemberInv, UNCHANGED <<challenge, mail>>, DOMAIN member' = Campuses, NEW r \in Forms, Finish(r)
    PROVE  MemberInv'
BY IdleFits, FormGoesOn DEF Finish, MemberInv

LEMMA MemberStep == ASSUME MemberInv, [MemberNext]_memberVars PROVE MemberInv'
<1>1. ASSUME NEW r \in Forms, Refuse(r) \/ BreakOff(r) \/ AddMembership(r) PROVE MemberInv'
  BY <1>1, FinishingIsSafe DEF Refuse, BreakOff, AddMembership, MemberInv
<1>2. ASSUME NEW r \in Forms, NEW lost \in BOOLEAN, Deliver(r, lost) PROVE MemberInv'
  BY <1>2, FinishingIsSafe DEF Deliver, MemberInv
<1>3. ASSUME NEW r \in Forms, NEW c \in Campuses, BeginRequest(r, c) PROVE MemberInv'
  <2> DEFINE new == [Idle EXCEPT !.stage = "wanted", !.campus = c, !.mail = mail]
  <2>1. DOMAIN new = FormFields /\ new.stage = "wanted" /\ new.campus = c /\ new.mail = mail
    BY DEF Idle, FormFields
  <2>2. form' = [form EXCEPT ![r] = new] /\ UNCHANGED <<mail, member, challenge>>
    BY <1>3 DEF BeginRequest
  <2> HIDE DEF new
  <2>3. FormFits(new)
    BY <2>1, HoldingNothingFits DEF MemberInv
  <2> QED
    BY <2>1, <2>2, <2>3, FormGoesOn DEF MemberInv
<1>4. ASSUME NEW r \in Forms, NEW m \in Mailboxes, ChangeEmail(r, m) PROVE MemberInv'
  <2> DEFINE new == [Idle EXCEPT !.stage = "changed", !.campus = CampusOf[m]]
  <2>1. DOMAIN new = FormFields /\ new.stage = "changed" /\ new.campus = CampusOf[m]
    BY DEF Idle, FormFields
  <2>2. form' = [form EXCEPT ![r] = new] /\ mail' = m /\ challenge' = challenge /\ DOMAIN member' = Campuses
    BY <1>4 DEF ChangeEmail, MemberInv
  <2> HIDE DEF new
  <2>3. FormFits(new)
    BY <2>1, HoldingNothingFits, MembershipsAssumption
  <2> QED
    BY <2>1, <2>2, <2>3, FormGoesOn DEF MemberInv
<1>5. ASSUME UNCHANGED <<mail, challenge, form>>, DOMAIN member' = Campuses PROVE MemberInv'
  <2>1. ChallengesSound'
    BY <1>5 DEF MemberInv, ChallengesSound, ChallengeTypes, InOrder, MailFits, OpenIsLatest, AttemptsAreFew,
                RecentAreFew, Issued, Recent
  <2>2. \A f : FormFits(f) => FormFits(f)'
    BY <1>5, FormStillFits DEF Issued
  <2> QED
    BY <1>5, <2>1, <2>2 DEF MemberInv, FormsFit, LockedOnce
<1>6. ASSUME NEW c \in Campuses, Suspend(c) PROVE MemberInv'
  BY <1>5, <1>6 DEF Suspend, MemberInv
<1>7. CASE UNCHANGED memberVars
  BY <1>5, <1>7 DEF memberVars, MemberInv
<1> QED
  BY <1>1, <1>2, <1>3, <1>4, <1>6, <1>7, IssuingIsSafe, TypingIsSafe, VerifyingIsSafe, AgeingIsSafe DEF MemberNext

LEMMA MemberInitially == MemberInit => MemberInv
<1> SUFFICES ASSUME MemberInit PROVE MemberInv
  OBVIOUS
<1>1. DOMAIN NoChallenge = ChallengeFields /\ NoChallenge.campus = "none" /\ NoChallenge.attempts = 0
      /\ NoChallenge.age = 0
  BY DEF NoChallenge, ChallengeFields
<1>2. \A n \in Challenges : challenge[n] = NoChallenge
  BY DEF MemberInit
<1>3. Issued = {}
  BY <1>1, <1>2 DEF Issued
<1>4. ChallengeTypes
  BY <1>1, <1>2 DEF MemberInit, ChallengeTypes
<1>5. InOrder
  <2>1. {} = 1..0 /\ 0 \in 0..MaxChallenges
    BY MembershipsAssumption
  <2> QED
    BY <1>3, <2>1 DEF InOrder
<1>6. RecentAreFew
  <2>1. \A c : Recent(c) = {}
    BY <1>3 DEF Recent
  <2> QED
    BY <2>1, FS_EmptySet, MembershipsAssumption DEF RecentAreFew
<1>7. MailFits /\ OpenIsLatest /\ AttemptsAreFew
  BY <1>3 DEF MailFits, OpenIsLatest, AttemptsAreFew
<1>8. FormsFit /\ LockedOnce
  BY IdleFits DEF MemberInit, FormsFit, LockedOnce
<1> QED
  BY <1>4, <1>5, <1>6, <1>7, <1>8 DEF MemberInit, MemberInv, ChallengesSound

LEMMA GuessesStayBounded == MemberInv => GuessesAreBounded
<1> SUFFICES ASSUME MemberInv, NEW c \in Campuses
             PROVE  /\ Cardinality(Recent(c)) <= HourlyLimit
                    /\ \A n \in Issued : challenge[n].attempts <= MaxAttempts
                    /\ Cardinality(OpenOf(c)) <= 1
  BY DEF GuessesAreBounded
<1>1. Cardinality(OpenOf(c)) <= 1
  <2>1. CASE OpenOf(c) = {}
    BY <2>1, FS_EmptySet
  <2>2. CASE OpenOf(c) # {}
    <3>1. PICK n \in OpenOf(c) : OpenOf(c) = {n}
      BY <2>2, OneOpenOf DEF MemberInv
    <3>2. Cardinality({n}) = 1
      BY FS_Singleton
    <3> QED
      BY <3>1, <3>2
  <2> QED
    BY <2>1, <2>2
<1> QED
  BY <1>1 DEF MemberInv, ChallengesSound, RecentAreFew, AttemptsAreFew

\* What VerificationIsEarned says of one step.
Earned(c) ==
    member[c] = "pending" /\ \E n \in OpenOf(c) :
       /\ CampusOf[challenge[n].mail] = c /\ challenge[n].attempts < MaxAttempts
       /\ \A o \in Issued : challenge[o].campus = c => o <= n
       /\ ~challenge'[n].open

LEMMA VerifiedIsEarned ==
    ASSUME MemberInv, [MemberNext]_memberVars, NEW c \in Campuses, member[c] # "verified", member'[c] = "verified"
    PROVE  Earned(c)
<1>1. \E r \in Forms : Verify(r)
  BY DEF MemberInv, MemberNext, memberVars, Refuse, Issue, BreakOff, AddMembership, BeginRequest, TypeCode, ChangeEmail,
         Deliver, Suspend, TimePasses
<1>2. PICK r \in Forms : Verify(r)
  BY <1>1
<1> DEFINE n == form[r].challenge
<1>3. form[r].campus = c /\ member[c] = "pending" /\ form[r].stage = "typed"
  BY <1>2 DEF Verify, VerifiedFrom, MemberInv
<1>4. n \in OpenOf(c) /\ challenge[n].attempts < MaxAttempts
  BY <1>3 DEF MemberInv, FormsFit, FormFits
<1>5. n \in Issued /\ n \in Challenges /\ \A o \in Issued : challenge[o].campus = c => o <= n
  BY <1>4, OneOpenOf DEF MemberInv
<1>6. CampusOf[challenge[n].mail] = c
  BY <1>4, <1>5 DEF MemberInv, ChallengesSound, MailFits, OpenOf
<1>7. ~challenge'[n].open
  BY <1>2, <1>5 DEF Verify, MemberInv, ChallengesSound, ChallengeTypes, ChallengeFields
<1> QED
  BY <1>3, <1>4, <1>5, <1>6, <1>7 DEF Earned

-----------------------------------------------------------------------------
(* The second factor.                                                      *)

FactorFields == {"secret", "confirmed", "used"}
FactorTypes ==
    /\ period \in Int /\ DOMAIN factor = FactorFields /\ factor.used \in Int
    /\ DOMAIN proofs = Proofs
    /\ \A p \in Proofs : proofs[p].step = "read" => proofs[p].code.at \in Int

\* What was let in with a code has used it up: no enrolment can begin any more,
\* and the last step used only grows.
LetIn(p) == proofs[p].step = "let_in" /\ proofs[p].enforced
LetInIsUsed == \A p \in Proofs : LetIn(p) =>
    factor.confirmed /\ proofs[p].code.at \in Int /\ proofs[p].code.at <= factor.used

FactorInv == FactorTypes /\ LetInIsUsed /\ CodesAreSingleUse

\* What lets nobody in with a code, and takes nothing back.
LEMMA NobodyLetIn ==
    ASSUME FactorInv, FactorTypes',
           \A p \in Proofs : LetIn(p)' => LetIn(p) /\ proofs'[p] = proofs[p],
           (\E p \in Proofs : LetIn(p)) => factor' = factor
    PROVE  FactorInv'
<1>1. LetInIsUsed'
  BY DEF FactorInv, LetInIsUsed
<1>2. CodesAreSingleUse'
  BY DEF FactorInv, CodesAreSingleUse, LetIn
<1> QED
  BY <1>1, <1>2 DEF FactorInv

LEMMA ConsumingIsSafe == ASSUME FactorInv, NEW p \in Proofs, Consume(p) PROVE FactorInv'
<1> DEFINE at == proofs[p].code.at
           yes == [step |-> "let_in", enforced |-> TRUE, code |-> proofs[p].code]
           no == [step |-> "refused"]
           used == [factor EXCEPT !.used = at, !.confirmed = TRUE]
<1>1. at \in Int /\ proofs[p].step = "read" /\ UNCHANGED period
  BY DEF Consume, FactorInv, FactorTypes
<1>2. CASE proofs' = [proofs EXCEPT ![p] = no] /\ UNCHANGED factor
  <2>1. \A q \in Proofs : proofs'[q] = IF q = p THEN no ELSE proofs[q]
    BY <1>2 DEF FactorInv, FactorTypes
  <2>2. FactorTypes'
    BY <1>1, <1>2, <2>1 DEF FactorInv, FactorTypes
  <2> QED
    BY <1>2, <2>1, <2>2, NobodyLetIn DEF LetIn
<1>3. CASE proofs' = [proofs EXCEPT ![p] = yes] /\ factor' = used /\ Unused(p)
  <2>1. DOMAIN used = FactorFields /\ used.used = at /\ used.confirmed
    BY DEF FactorInv, FactorTypes, FactorFields
  <2>2. yes.step = "let_in" /\ yes.enforced /\ yes.code = proofs[p].code
    OBVIOUS
  <2>3. factor.used < at /\ factor.used \in Int
    BY <1>3 DEF Unused, FactorInv, FactorTypes
  <2> HIDE DEF yes, used
  <2>4. \A q \in Proofs : proofs'[q] = IF q = p THEN yes ELSE proofs[q]
    BY <1>3 DEF FactorInv, FactorTypes
  <2>5. FactorTypes'
    BY <1>1, <1>3, <2>1, <2>2, <2>4 DEF FactorInv, FactorTypes
  <2>6. \A q \in Proofs : q # p => (LetIn(q)' <=> LetIn(q))
    BY <2>4 DEF LetIn
  <2>7. ASSUME NEW q \in Proofs, LetIn(q)'
        PROVE  factor'.confirmed /\ proofs'[q].code.at \in Int /\ proofs'[q].code.at <= factor'.used
    BY <1>1, <1>3, <2>1, <2>2, <2>3, <2>4, <2>6, <2>7 DEF FactorInv, LetInIsUsed
  <2>8. ASSUME NEW q \in Proofs, q # p, LetIn(q)' PROVE proofs'[q].code # proofs[p].code
    BY <1>1, <2>3, <2>4, <2>6, <2>8 DEF FactorInv, LetInIsUsed
  <2>9. CodesAreSingleUse'
    BY <2>2, <2>4, <2>6, <2>8 DEF FactorInv, CodesAreSingleUse, LetIn
  <2> QED
    BY <2>5, <2>7, <2>9 DEF FactorInv, LetInIsUsed
<1> QED
  BY <1>2, <1>3 DEF Consume

LEMMA ReadingIsSafe ==
    ASSUME FactorInv, NEW p \in Proofs, NEW purpose, NEW secret, NEW at, at \in Int, ReadFactor(p, purpose, secret, at)
    PROVE  FactorInv'
<1> DEFINE plain == [step |-> "let_in", enforced |-> FALSE]
           read == [step |-> "read", purpose |-> purpose, code |-> [secret |-> secret, at |-> at], seen |-> factor]
<1>1. PICK new \in {plain, read} : proofs' = [proofs EXCEPT ![p] = new]
  BY DEF ReadFactor
<1>2. ~(new.step = "let_in" /\ new.enforced)
  BY <1>1
<1>3. new.step = "read" => new.code.at \in Int
  BY <1>1
<1> HIDE DEF plain, read
<1>4. \A q \in Proofs : proofs'[q] = IF q = p THEN new ELSE proofs[q]
  BY <1>1 DEF FactorInv, FactorTypes
<1>5. UNCHANGED <<period, factor>>
  BY DEF ReadFactor
<1>6. FactorTypes'
  BY <1>1, <1>3, <1>4, <1>5 DEF FactorInv, FactorTypes
<1> QED
  BY <1>2, <1>4, <1>5, <1>6, NobodyLetIn DEF LetIn

LEMMA FactorStep == ASSUME FactorInv, [FactorNext]_factorVars PROVE FactorInv'
<1>1. CASE BeginEnrollment
  <2>1. ~\E p \in Proofs : LetIn(p)
    BY <1>1 DEF BeginEnrollment, FactorInv, LetInIsUsed
  <2>2. FactorTypes'
    BY <1>1 DEF BeginEnrollment, FactorInv, FactorTypes, FactorFields
  <2> QED
    BY <1>1, <2>1, <2>2, NobodyLetIn DEF BeginEnrollment, LetIn
<1>2. CASE NextPeriod \/ UNCHANGED factorVars
  <2>1. FactorTypes' /\ UNCHANGED <<factor, proofs>>
    BY <1>2 DEF NextPeriod, factorVars, FactorInv, FactorTypes
  <2> QED
    BY <2>1, NobodyLetIn DEF LetIn
<1> QED
  BY <1>1, <1>2, ConsumingIsSafe, ReadingIsSafe DEF FactorNext

LEMMA FactorInitially == FactorInit => FactorInv
BY DEF FactorInit, FactorInv, FactorTypes, FactorFields, LetInIsUsed, LetIn, CodesAreSingleUse

-----------------------------------------------------------------------------
(* Personas.                                                               *)

LookStatus == {"none", "draft", "published", "archived"}
Rows == [status : LookStatus, look : Drafts \cup {"none"}, selected : Pictures \cup {"none"}]
AuditRows == [action : {"created", "edited", "published", "archived"},
              look : Drafts \cup {"none"}, status : LookStatus]
PictureFields == {"status", "review", "verified"}

PersonaTypes ==
    /\ persona \in Rows /\ audits \in Seq(AuditRows)
    /\ DOMAIN pictures = Pictures /\ \A p \in Pictures : DOMAIN pictures[p] = PictureFields

\* What is published was recorded last, whoever may see it at the moment.
Publication(look) == [action |-> "published", look |-> look, status |-> "published"]
PublishedLast == persona.status = "published" => audits # <<>> /\ audits[Len(audits)] = Publication(persona.look)

\* A picture that is selected was completed and has not been withdrawn.
Presentable(p) == pictures[p].verified /\ pictures[p].status \in {"active", "rejected"}
SelectedIsPresentable == persona.selected # "none" => Presentable(persona.selected)

PersonaInv == PersonaTypes /\ PublishedLast /\ SelectedIsPresentable

\* What is recorded is recorded last.
LEMMA AuditIsLast ==
    ASSUME PersonaTypes, persona' \in Rows,
           NEW action \in {"created", "edited", "published", "archived"}, InsertAudit(action)
    PROVE  /\ audits' \in Seq(AuditRows) /\ audits' # <<>>
           /\ audits'[Len(audits')] = [action |-> action, look |-> persona'.look, status |-> persona'.status]
<1> DEFINE new == [action |-> action, look |-> persona'.look, status |-> persona'.status]
<1>1. new \in AuditRows
  BY DEF Rows, AuditRows
<1>2. audits \in Seq(AuditRows) /\ audits' = Append(audits, new)
  BY DEF PersonaTypes, InsertAudit
<1> HIDE DEF new
<1>3. audits' \in Seq(AuditRows) /\ audits' # <<>> /\ audits'[Len(audits')] = new
  BY <1>1, <1>2
<1> QED
  BY <1>3 DEF new

\* A step that records what it does to the presentation and leaves the pictures
\* alone, or leaves nothing public.
LEMMA RecordedIsSafe ==
    ASSUME PersonaInv, persona' \in Rows, UNCHANGED pictures,
           NEW action \in {"created", "edited", "published", "archived"}, InsertAudit(action),
           persona'.status = "published" => action = "published",
           persona'.selected # "none" => Presentable(persona'.selected)
    PROVE  PersonaInv'
<1>1. /\ audits' \in Seq(AuditRows) /\ audits' # <<>>
      /\ audits'[Len(audits')] = [action |-> action, look |-> persona'.look, status |-> persona'.status]
  BY AuditIsLast DEF PersonaInv
<1>2. PublishedLast'
  BY <1>1 DEF PublishedLast, Publication
<1>3. SelectedIsPresentable'
  BY DEF SelectedIsPresentable, Presentable
<1> QED
  BY <1>1, <1>2, <1>3 DEF PersonaInv, PersonaTypes

\* A step on a picture that is not selected, or stays presentable.
LEMMA PictureIsSafe ==
    ASSUME PersonaInv, UNCHANGED <<persona, audits>>, NEW p \in Pictures, NEW new,
           DOMAIN new = PictureFields, pictures' = [pictures EXCEPT ![p] = new],
           Presentable(p) => new.verified /\ new.status \in {"active", "rejected"}
    PROVE  PersonaInv'
BY DEF PersonaInv, PersonaTypes, PublishedLast, SelectedIsPresentable, Presentable, Rows

LEMMA RevokingIsSafe == ASSUME PersonaInv, NEW p \in Pictures, RevokeAsset(p) PROVE PersonaInv'
<1> DEFINE new == [pictures[p] EXCEPT !.status = "revoked"]
<1>1. pictures' = [pictures EXCEPT ![p] = new] /\ DOMAIN new = PictureFields /\ UNCHANGED audits
  BY DEF RevokeAsset, PersonaInv, PersonaTypes
<1> HIDE DEF new
<1>2. PersonaTypes'
  BY <1>1 DEF RevokeAsset, PersonaInv, PersonaTypes, Rows, LookStatus, Unpublished
<1>3. PublishedLast'
  BY <1>1 DEF RevokeAsset, PersonaInv, PersonaTypes, Rows, PublishedLast, Unpublished
<1>4. SelectedIsPresentable'
  BY <1>1 DEF RevokeAsset, PersonaInv, PersonaTypes, Rows, SelectedIsPresentable, Presentable
<1> QED
  BY <1>2, <1>3, <1>4 DEF PersonaInv

LEMMA PersonaStep == ASSUME PersonaInv, [PersonaNext]_personaVars PROVE PersonaInv'
<1>1. ASSUME UNCHANGED <<persona, audits, pictures>> PROVE PersonaInv'
  BY <1>1 DEF PersonaInv, PersonaTypes, PublishedLast, SelectedIsPresentable, Presentable
<1>2. ASSUME NEW d \in Drafts, FindNoPersona(d) PROVE PersonaInv'
  BY <1>1, <1>2 DEF FindNoPersona
<1>3. ASSUME NEW d \in Drafts, UpsertDraft(d) PROVE PersonaInv'
  <2>1. persona' \in Rows /\ persona'.status = "draft" /\ persona'.selected = "none" /\ UNCHANGED pictures
    BY <1>3 DEF UpsertDraft, Saved, Rows, LookStatus
  <2>2. InsertAudit("created") \/ InsertAudit("edited")
    BY <1>3 DEF UpsertDraft
  <2> QED
    BY <2>1, <2>2, RecordedIsSafe
<1>4. CASE Publish
  <2>1. persona' \in Rows /\ persona'.selected = "none" /\ UNCHANGED pictures
    BY <1>4 DEF Publish, PersonaInv, PersonaTypes, Rows, LookStatus
  <2> QED
    BY <1>4, <2>1, RecordedIsSafe DEF Publish
<1>5. CASE Archive
  <2>1. persona' \in Rows /\ persona'.selected = "none" /\ persona'.status = "archived" /\ UNCHANGED pictures
    BY <1>5 DEF Archive, PersonaInv, PersonaTypes, Rows, LookStatus
  <2> QED
    BY <1>5, <2>1, RecordedIsSafe DEF Archive
<1>6. ASSUME NEW p \in Pictures, SelectAsset(p) PROVE PersonaInv'
  <2>1. persona' \in Rows /\ persona'.selected = p /\ persona'.status # "published" /\ UNCHANGED pictures
    BY <1>6 DEF SelectAsset, PersonaInv, PersonaTypes, Rows, LookStatus, Unpublished
  <2> QED
    BY <1>6, <2>1, RecordedIsSafe DEF SelectAsset, Presentable
<1>7. ASSUME NEW p \in Pictures, CreateAsset(p) \/ ExpireUpload(p) PROVE PersonaInv'
  <2>1. PICK s \in {"pending_upload", "revoked"} : pictures' = [pictures EXCEPT ![p].status = s]
    BY <1>7 DEF CreateAsset, ExpireUpload
  <2> DEFINE new == [pictures[p] EXCEPT !.status = s]
  <2>2. pictures' = [pictures EXCEPT ![p] = new] /\ DOMAIN new = PictureFields
    BY <2>1 DEF PersonaInv, PersonaTypes
  <2>3. ~Presentable(p) /\ UNCHANGED <<persona, audits>>
    BY <1>7 DEF CreateAsset, ExpireUpload, Presentable
  <2> HIDE DEF new
  <2> QED
    BY <2>2, <2>3, PictureIsSafe
<1>8. ASSUME NEW p \in Pictures, NEW reviewed \in BOOLEAN, CompleteAsset(p, reviewed) PROVE PersonaInv'
  <2> DEFINE new == [verified |-> TRUE, status |-> IF reviewed THEN "pending_review" ELSE "active",
                     review |-> IF reviewed THEN "pending" ELSE "not_required"]
  <2>1. pictures' = [pictures EXCEPT ![p] = new] /\ DOMAIN new = PictureFields
    BY <1>8 DEF CompleteAsset, PictureFields
  <2>2. ~Presentable(p) /\ UNCHANGED <<persona, audits>>
    BY <1>8 DEF CompleteAsset, Presentable
  <2> HIDE DEF new
  <2> QED
    BY <2>1, <2>2, PictureIsSafe
<1>9. ASSUME NEW p \in Pictures, NEW verdict \in {"approved", "rejected"}, JudgeAsset(p, verdict) PROVE PersonaInv'
  <2>1. PICK s : /\ s = IF pictures[p].status \in {"revoked", "deleted"} THEN pictures[p].status
                        ELSE IF verdict = "approved" THEN "active" ELSE "rejected"
                 /\ pictures' = [pictures EXCEPT ![p].review = verdict, ![p].status = s]
    BY <1>9 DEF JudgeAsset, PersonaInv, PersonaTypes, PictureFields
  <2> DEFINE new == [pictures[p] EXCEPT !.review = verdict, !.status = s]
  <2>2. pictures' = [pictures EXCEPT ![p] = new]
    BY <2>1 DEF PersonaInv, PersonaTypes
  <2>3. DOMAIN new = PictureFields /\ new.verified = pictures[p].verified /\ new.status = s
    BY DEF PersonaInv, PersonaTypes, PictureFields
  <2>4. Presentable(p) => s \in {"active", "rejected"}
    BY <2>1 DEF Presentable
  <2>5. Presentable(p) => pictures[p].verified
    BY DEF Presentable
  <2>6. UNCHANGED <<persona, audits>>
    BY <1>9 DEF JudgeAsset
  <2> HIDE DEF new
  <2> QED
    BY <2>2, <2>3, <2>4, <2>5, <2>6, PictureIsSafe
<1>10. CASE StandingChanges \/ UNCHANGED personaVars
  BY <1>1, <1>10 DEF StandingChanges, personaVars
<1> QED
  BY <1>2, <1>3, <1>4, <1>5, <1>6, <1>7, <1>8, <1>9, <1>10, RevokingIsSafe DEF PersonaNext

LEMMA PersonaInitially == PersonaInit => PersonaInv
BY DEF PersonaInit, PersonaInv, PersonaTypes, Rows, LookStatus, PublishedLast, SelectedIsPresentable, NoPersona,
       PictureFields

LEMMA LookIsPublished == PersonaInv => PersonaIsAsPublished
BY DEF PersonaInv, PersonaIsAsPublished, PublicLook, PublishedLast, Publication, SelectedIsPresentable, Presentable

-----------------------------------------------------------------------------
(* Interruptions.                                                          *)

LedgerFields == {"step", "at", "decision", "mark"}
SettingFields == {"budget", "muted", "quiet"}

AttentionTypes ==
    /\ hour \in Nat /\ highest \in Nat
    /\ DOMAIN settings = SettingFields /\ settings.budget \in Nat
    /\ DOMAIN tuning = Devices /\ DOMAIN ledger = Attempts
    /\ \A a \in Attempts : DOMAIN ledger[a] = LedgerFields /\ ledger[a].at \in Int

\* A change under way carries a budget, and none is above the highest.
ChangesHaveBudgets == \A d \in Devices : tuning[d].step = "read" =>
    DOMAIN tuning[d].new = SettingFields /\ tuning[d].new.budget \in Nat
BudgetIsKnown == settings.budget <= highest

\* Permission is asked for once, and given after that.
AskedFirst == \A a \in Attempts : ledger[a].step \in {"idle", "begun"} => ledger[a].decision # "delivered"

\* What is delivered within a day from t on.
DayFrom(t) == {a \in Delivered : ledger[a].at \in t..(t + BudgetWindow - 1)}
SpentSet(now) == {b \in Delivered : ledger[b].at > now - BudgetWindow}
Budgeted == \A t \in Int : Cardinality(DayFrom(t)) <= highest

AttentionInv == AttentionTypes /\ ChangesHaveBudgets /\ BudgetIsKnown /\ AskedFirst /\ Budgeted

LEMMA SmallSets == \A S \in SUBSET Attempts : IsFiniteSet(S) /\ Cardinality(S) \in Nat
<1>1. IsFiniteSet(Attempts)
  BY BudgetsAssumption
<1> QED
  BY <1>1, FS_Subset, FS_CardinalityType

\* Permission is only given while the budget is not spent.
LEMMA DeliveredWithinBudget ==
    ASSUME AttentionInv, NEW now, Verdict(now) = "delivered"
    PROVE  Cardinality(SpentSet(now)) < settings.budget
<1>1. Spent(now) = Cardinality(SpentSet(now)) /\ SpentSet(now) \in SUBSET Attempts
  BY DEF Spent, SpentSet, Delivered
<1>2. Spent(now) \in Nat /\ settings.budget \in Nat
  BY <1>1, SmallSets DEF AttentionInv, AttentionTypes
<1>3. ~(Spent(now) >= settings.budget)
  BY Zenon DEF Verdict
<1> QED
  BY <1>1, <1>2, <1>3

\* What leaves the deliveries alone, and lowers no highest budget.
LEMMA NothingDelivered ==
    ASSUME AttentionInv, highest' \in Nat, highest' >= highest,
           Delivered' = Delivered, \A a \in Delivered : ledger'[a].at = ledger[a].at
    PROVE  Budgeted'
<1>1. \A t \in Int : DayFrom(t)' = DayFrom(t)
  BY DEF DayFrom
<1>2. \A t \in Int : DayFrom(t) \in SUBSET Attempts
  BY DEF DayFrom, Delivered
<1>3. \A t \in Int : Cardinality(DayFrom(t)') <= highest'
  <2> TAKE t \in Int
  <2>1. Cardinality(DayFrom(t)) \in Nat /\ Cardinality(DayFrom(t)) <= highest /\ highest \in Nat
    BY <1>2, SmallSets DEF AttentionInv, AttentionTypes, Budgeted
  <2> QED
    BY <1>1, <2>1
<1> QED
  BY <1>3 DEF Budgeted

\* One more delivery, which counts from when permission was asked for.
LEMMA OneDelivered ==
    ASSUME AttentionInv, UNCHANGED highest, NEW a \in Attempts, NEW now \in Int, a \notin Delivered,
           Delivered' = Delivered \cup {a}, ledger'[a].at = now,
           \A b \in Delivered : ledger'[b].at = ledger[b].at,
           Cardinality(SpentSet(now)) < settings.budget
    PROVE  Budgeted'
<1>1. ASSUME NEW t \in Int PROVE Cardinality(DayFrom(t)') <= highest
  <2>1. DayFrom(t) \in SUBSET Attempts /\ SpentSet(now) \in SUBSET Attempts
    BY DEF DayFrom, SpentSet, Delivered
  <2>2. /\ Cardinality(DayFrom(t)) \in Nat /\ Cardinality(SpentSet(now)) \in Nat
        /\ IsFiniteSet(DayFrom(t)) /\ IsFiniteSet(SpentSet(now))
        /\ highest \in Nat /\ settings.budget \in Nat /\ settings.budget <= highest
        /\ Cardinality(DayFrom(t)) <= highest
    BY <2>1, SmallSets DEF AttentionInv, AttentionTypes, BudgetIsKnown, Budgeted
  <2>3. CASE now \notin t..(t + BudgetWindow - 1)
    <3>1. DayFrom(t)' = DayFrom(t)
      BY <2>3 DEF DayFrom
    <3> QED
      BY <2>2, <3>1
  <2>4. CASE now \in t..(t + BudgetWindow - 1)
    <3>1. DayFrom(t)' = DayFrom(t) \cup {a} /\ a \notin DayFrom(t)
      BY <2>4 DEF DayFrom
    <3>2. \A b \in Delivered : ledger[b].at \in t..(t + BudgetWindow - 1) => ledger[b].at > now - BudgetWindow
      BY <2>4, BudgetsAssumption
    <3>3. DayFrom(t) \subseteq SpentSet(now)
      BY <3>2 DEF DayFrom, SpentSet
    <3>4. Cardinality(DayFrom(t)) <= Cardinality(SpentSet(now))
      BY <2>2, <3>3, FS_Subset
    <3>5. Cardinality(DayFrom(t)') = Cardinality(DayFrom(t)) + 1
      BY <2>2, <3>1, FS_AddElement
    <3> QED
      BY <2>2, <3>4, <3>5
  <2> QED
    BY <2>3, <2>4
<1> QED
  BY <1>1 DEF Budgeted

\* A step of one attempt that does not permit anything.
LEMMA OthersDeliverNothing ==
    ASSUME AttentionInv, UNCHANGED <<hour, settings, tuning, highest>>, NEW a \in Attempts, NEW new,
           DOMAIN new = LedgerFields, new.at \in Int, ledger' = [ledger EXCEPT ![a] = new],
           new.decision = "delivered" <=> ledger[a].decision = "delivered",
           ledger[a].decision = "delivered" => new.step \notin {"idle", "begun"} /\ new.at = ledger[a].at
    PROVE  AttentionInv'
<1>1. Delivered' = Delivered /\ \A b \in Delivered : ledger'[b].at = ledger[b].at
  BY DEF Delivered, AttentionInv, AttentionTypes
<1>2. Budgeted'
  BY <1>1, NothingDelivered DEF AttentionInv, AttentionTypes
<1>3. AttentionTypes' /\ AskedFirst'
  BY DEF AttentionInv, AttentionTypes, AskedFirst
<1> QED
  BY <1>2, <1>3 DEF AttentionInv, ChangesHaveBudgets, BudgetIsKnown

LEMMA PermittingIsSafe == ASSUME AttentionInv, NEW a \in Attempts, Permit(a) PROVE AttentionInv'
<1> DEFINE now == ledger[a].at
           new == [ledger[a] EXCEPT !.step = "decided", !.decision = Verdict(now)]
<1>1. ledger' = [ledger EXCEPT ![a] = new] /\ UNCHANGED <<hour, settings, tuning, highest>>
      /\ ledger[a].decision # "delivered"
  BY DEF Permit, AttentionInv, AskedFirst, AttentionTypes
<1>2. DOMAIN new = LedgerFields /\ new.at = now /\ new.step = "decided" /\ new.decision = Verdict(now)
      /\ now \in Int
  BY DEF AttentionInv, AttentionTypes, LedgerFields
<1> HIDE DEF new, now
<1>3. CASE Verdict(now) # "delivered"
  BY <1>1, <1>2, <1>3, OthersDeliverNothing
<1>4. CASE Verdict(now) = "delivered"
  <2>1. \A b \in Attempts : ledger'[b] = IF b = a THEN new ELSE ledger[b]
    BY <1>1 DEF AttentionInv, AttentionTypes
  <2>2. Delivered' = Delivered \cup {a} /\ a \notin Delivered
    BY <1>1, <1>2, <1>4, <2>1 DEF Delivered
  <2>3. \A b \in Delivered : ledger'[b].at = ledger[b].at
    BY <2>1, <2>2 DEF Delivered
  <2>4. \E n \in Int : n = now /\ ledger'[a].at = n /\ Cardinality(SpentSet(n)) < settings.budget
    BY <1>2, <1>4, <2>1, DeliveredWithinBudget
  <2>5. Budgeted'
    BY <1>1, <2>2, <2>3, <2>4, OneDelivered
  <2>6. AttentionTypes' /\ AskedFirst'
    BY <1>1, <1>2, <2>1 DEF AttentionInv, AttentionTypes, AskedFirst
  <2> QED
    BY <1>1, <2>5, <2>6 DEF AttentionInv, ChangesHaveBudgets, BudgetIsKnown
<1> QED
  BY <1>3, <1>4

\* Devices and the clock deliver nothing.
LEMMA DevicesAreSafe ==
    ASSUME AttentionInv, UNCHANGED ledger, hour' \in Nat, highest' \in Nat, highest' >= highest,
           DOMAIN settings' = SettingFields, settings'.budget \in Nat, settings'.budget <= highest',
           DOMAIN tuning' = Devices, ChangesHaveBudgets'
    PROVE  AttentionInv'
<1>1. Budgeted'
  BY NothingDelivered DEF Delivered
<1> QED
  BY <1>1 DEF AttentionInv, AttentionTypes, AskedFirst, BudgetIsKnown

LEMMA ReadingPreferencesIsSafe == ASSUME AttentionInv, NEW d \in Devices, ReadPreferences(d) PROVE AttentionInv'
<1>1. PICK new \in {[settings EXCEPT !.budget = b] : b \in Budgets}
                     \cup {[settings EXCEPT !.muted = ~@], [settings EXCEPT !.quiet = 0]}
                     \cup {[settings EXCEPT !.quiet = t] : t \in Quieter} :
          tuning' = [tuning EXCEPT ![d] = [step |-> "read", new |-> new]]
  BY DEF ReadPreferences
<1>2. DOMAIN new = SettingFields /\ new.budget \in Nat
  BY <1>1, BudgetsAssumption DEF AttentionInv, AttentionTypes, SettingFields
<1>3. DOMAIN tuning' = Devices /\ ChangesHaveBudgets'
  BY <1>1, <1>2 DEF AttentionInv, AttentionTypes, ChangesHaveBudgets
<1> QED
  BY <1>3, DevicesAreSafe DEF ReadPreferences, AttentionInv, AttentionTypes, BudgetIsKnown

LEMMA AttentionStep == ASSUME AttentionInv, [AttentionNext]_attentionVars PROVE AttentionInv'
<1>1. ASSUME NEW a \in Attempts, AskPermission(a) PROVE AttentionInv'
  <2> DEFINE new == [ledger[a] EXCEPT !.step = "begun", !.at = hour]
  <2>1. ledger' = [ledger EXCEPT ![a] = new] /\ UNCHANGED <<hour, settings, tuning, highest>>
        /\ ledger[a].decision # "delivered"
    BY <1>1 DEF AskPermission, AttentionInv, AttentionTypes, AskedFirst
  <2>2. DOMAIN new = LedgerFields /\ new.at \in Int /\ new.decision = ledger[a].decision
    BY DEF AttentionInv, AttentionTypes, LedgerFields
  <2> HIDE DEF new
  <2> QED
    BY <2>1, <2>2, OthersDeliverNothing
<1>2. ASSUME NEW a \in Attempts, Unavailable(a) PROVE AttentionInv'
  <2> DEFINE new == [ledger[a] EXCEPT !.step = "decided", !.decision = "unavailable"]
  <2>1. ledger' = [ledger EXCEPT ![a] = new] /\ UNCHANGED <<hour, settings, tuning, highest>>
        /\ ledger[a].decision # "delivered"
    BY <1>2 DEF Unavailable, AttentionInv, AttentionTypes, AskedFirst
  <2>2. DOMAIN new = LedgerFields /\ new.at \in Int /\ new.decision = "unavailable"
    BY DEF AttentionInv, AttentionTypes, LedgerFields
  <2> HIDE DEF new
  <2> QED
    BY <2>1, <2>2, OthersDeliverNothing
<1>3. ASSUME NEW a \in Attempts, CreateBudgeted(a) PROVE AttentionInv'
  <2>1. PICK end \in {"in_inbox", "lost"} : ledger' = [ledger EXCEPT ![a].step = end]
    BY <1>3 DEF CreateBudgeted
  <2> DEFINE new == [ledger[a] EXCEPT !.step = end]
  <2>2. ledger' = [ledger EXCEPT ![a] = new] /\ UNCHANGED <<hour, settings, tuning, highest>>
    BY <1>3, <2>1 DEF CreateBudgeted, AttentionInv, AttentionTypes
  <2>3. DOMAIN new = LedgerFields /\ new.at \in Int /\ new.at = ledger[a].at
        /\ new.decision = ledger[a].decision /\ new.step = end
    BY DEF AttentionInv, AttentionTypes, LedgerFields
  <2> HIDE DEF new
  <2> QED
    BY <2>2, <2>3, OthersDeliverNothing
<1>4. ASSUME NEW a \in Attempts, NEW mark, MarkAccepted(a, mark) PROVE AttentionInv'
  <2> DEFINE new == [ledger[a] EXCEPT !.mark = mark]
  <2>1. ledger' = [ledger EXCEPT ![a] = new] /\ UNCHANGED <<hour, settings, tuning, highest>>
        /\ ledger[a].step = "in_inbox"
    BY <1>4 DEF MarkAccepted, AttentionInv, AttentionTypes
  <2>2. DOMAIN new = LedgerFields /\ new.at \in Int /\ new.at = ledger[a].at
        /\ new.decision = ledger[a].decision /\ new.step = ledger[a].step
    BY DEF AttentionInv, AttentionTypes, LedgerFields
  <2> HIDE DEF new
  <2> QED
    BY <2>1, <2>2, OthersDeliverNothing
<1>5. ASSUME NEW d \in Devices, SetPreferences(d) PROVE AttentionInv'
  <2>1. settings' = tuning[d].new /\ settings'.budget \in Nat /\ DOMAIN settings' = SettingFields
    BY <1>5 DEF SetPreferences, AttentionInv, AttentionTypes, ChangesHaveBudgets
  <2>2. highest' \in Nat /\ highest' >= highest /\ settings'.budget <= highest'
    BY <1>5, <2>1 DEF SetPreferences, AttentionInv, AttentionTypes
  <2>3. DOMAIN tuning' = Devices /\ ChangesHaveBudgets'
    BY <1>5 DEF SetPreferences, AttentionInv, AttentionTypes, ChangesHaveBudgets
  <2> QED
    BY <1>5, <2>1, <2>2, <2>3, DevicesAreSafe DEF SetPreferences, AttentionInv, AttentionTypes
<1>6. CASE HourPasses \/ UNCHANGED attentionVars
  BY <1>6, DevicesAreSafe DEF HourPasses, attentionVars, AttentionInv, AttentionTypes, BudgetIsKnown, ChangesHaveBudgets
<1> QED
  BY <1>1, <1>2, <1>3, <1>4, <1>5, <1>6, PermittingIsSafe, ReadingPreferencesIsSafe DEF AttentionNext

LEMMA AttentionInitially == AttentionInit => AttentionInv
<1> SUFFICES ASSUME AttentionInit PROVE AttentionInv
  OBVIOUS
<1>1. DOMAIN NoAttempt = LedgerFields /\ NoAttempt.at = 0 /\ NoAttempt.decision = "none"
  BY DEF NoAttempt, LedgerFields
<1>2. AttentionTypes /\ AskedFirst /\ ChangesHaveBudgets /\ BudgetIsKnown
  BY <1>1, BudgetsAssumption DEF AttentionInit, AttentionTypes, SettingFields, AskedFirst, ChangesHaveBudgets, BudgetIsKnown
<1>3. \A t \in Int : DayFrom(t) = {}
  BY <1>1 DEF AttentionInit, DayFrom, Delivered
<1> QED
  BY <1>2, <1>3, FS_EmptySet DEF AttentionInv, AttentionTypes, Budgeted

LEMMA BudgetIsKept == AttentionInv => BudgetHolds
<1> SUFFICES ASSUME AttentionInv PROVE BudgetHolds
  OBVIOUS
<1>1. (1 - BudgetWindow)..LastHour \subseteq Int
  OBVIOUS
<1> QED
  BY <1>1 DEF AttentionInv, Budgeted, BudgetHolds, DayFrom

-----------------------------------------------------------------------------
(* Memories.                                                               *)

PromptFields == {"step", "told"}
MemoryTypes ==
    /\ DOMAIN prompts = Prompts /\ \A t \in Prompts : DOMAIN prompts[t] = PromptFields
    /\ DOMAIN searches = Searches /\ notes \subseteq Notes

\* A prompt that is assembled while the profile is open is known to be.
Working(step) == step \notin {"idle", "done"}
OpenIsNoted == IsOpen(profile) => \A t \in Prompts : Working(prompts[t].step) => t \in open

\* The session is told before the profile, and the profile before the notes.
InTurn(p) ==
    /\ p.step \in {"idle", "started", "session_due"} => p.told = {}
    /\ p.step = "session_done" => p.told \subseteq {"session"}
    /\ p.step = "notes_due" => "profile" \in p.told
ToldInTurn == \A t \in Prompts : InTurn(prompts[t])

\* What OptOutIsHonoured says of one prompt.
Allowed(told, opened) ==
    /\ told \ {"session"} # {} => opened
    /\ \A n \in told \cap Notes : NoteCampus[n] = Here
    /\ told \cap Notes # {} => "profile" \in told
ToldIsAllowed == \A t \in Prompts : Allowed(prompts[t].told, t \in open)

\* What SessionIsShort says, also of what a search is about to write.
Brief(q) == q \in Seq(Searches) /\ Len(q) <= SessionLimit /\ \A i, j \in DOMAIN q : q[i] = q[j] => i = j
MergedIsBrief == \A s \in Searches : searches[s].step = "merged" => Brief(searches[s].ids)

MemoryInv == /\ MemoryTypes /\ OpenIsNoted /\ ToldInTurn /\ ToldIsAllowed
             /\ Brief(session) /\ MergedIsBrief

\* Leaving one listing out keeps the others in their order, each once.
LEMMA OthersAreBrief ==
    ASSUME Brief(session), NEW s \in Searches
    PROVE  /\ OthersThan(s) \in Seq(Searches)
           /\ \A i, j \in DOMAIN OthersThan(s) : OthersThan(s)[i] = OthersThan(s)[j] => i = j
           /\ \A i \in DOMAIN OthersThan(s) : OthersThan(s)[i] # s
<1>0. session \in Seq(Searches) /\ \A i, j \in DOMAIN session : session[i] = session[j] => i = j
  BY DEF Brief
<1>1. CASE ~\E i \in DOMAIN session : session[i] = s
  <2>1. OthersThan(s) = session
    BY <1>1 DEF OthersThan
  <2> QED
    BY <1>0, <1>1, <2>1
<1>2. CASE \E i \in DOMAIN session : session[i] = s
  <2> DEFINE at == CHOOSE i \in DOMAIN session : session[i] = s
             front == SubSeq(session, 1, at - 1)
             back == SubSeq(session, at + 1, Len(session))
             len == Len(session)
  <2>1. at \in DOMAIN session /\ session[at] = s
    BY <1>2
  <2>2. OthersThan(s) = front \o back
    BY <1>2 DEF OthersThan
  <2> HIDE DEF at
  <2>3. at \in 1..len /\ len \in Nat /\ DOMAIN session = 1..len
    BY <1>0, <2>1
  <2>4. /\ front \in Seq(Searches) /\ Len(front) = at - 1
        /\ \A i \in 1..(at - 1) : front[i] = session[i]
    <3>1. \A i \in 1..(at - 1) : session[i] \in Searches
      BY <1>0, <2>3
    <3>2. 1 \in Int /\ at - 1 \in Int
      BY <2>3
    <3>3. /\ front \in Seq(Searches) /\ Len(front) = IF 1 <= at - 1 THEN at - 1 - 1 + 1 ELSE 0
          /\ \A i \in 1..(at - 1 - 1 + 1) : front[i] = session[1 + i - 1]
      BY <3>1, <3>2, SubSeqProperties
    <3> QED
      BY <2>3, <3>3
  <2>5. /\ back \in Seq(Searches) /\ Len(back) = len - at
        /\ \A i \in 1..(len - at) : back[i] = session[at + i]
    <3>1. \A i \in (at + 1)..len : session[i] \in Searches
      BY <1>0, <2>3
    <3>2. at + 1 \in Int /\ len \in Int
      BY <2>3
    <3>3. /\ back \in Seq(Searches) /\ Len(back) = IF at + 1 <= len THEN len - (at + 1) + 1 ELSE 0
          /\ \A i \in 1..(len - (at + 1) + 1) : back[i] = session[at + 1 + i - 1]
      BY <3>1, <3>2, SubSeqProperties
    <3> QED
      BY <2>3, <3>3
  <2> HIDE DEF front, back
  <2>6. /\ OthersThan(s) \in Seq(Searches) /\ Len(OthersThan(s)) = len - 1
        /\ \A i \in 1..(len - 1) : OthersThan(s)[i] = session[IF i < at THEN i ELSE i + 1]
    <3>1. /\ front \o back \in Seq(Searches) /\ Len(front \o back) = Len(front) + Len(back)
          /\ \A i \in 1 .. Len(front) + Len(back) :
                (front \o back)[i] = IF i <= Len(front) THEN front[i] ELSE back[i - Len(front)]
      BY <2>4, <2>5, ConcatProperties
    <3>2. ASSUME NEW i \in 1..(len - 1) PROVE (front \o back)[i] = session[IF i < at THEN i ELSE i + 1]
      <4>1. CASE i < at
        BY <2>3, <2>4, <2>5, <3>1, <4>1
      <4>2. CASE ~(i < at)
        <5>1. (front \o back)[i] = back[i - (at - 1)] /\ i - (at - 1) \in 1..(len - at)
          BY <2>3, <2>4, <2>5, <3>1, <4>2
        <5>2. back[i - (at - 1)] = session[at + (i - (at - 1))] /\ at + (i - (at - 1)) = i + 1
          BY <2>3, <2>5, <5>1
        <5> QED
          BY <4>2, <5>1, <5>2
      <4> QED
        BY <4>1, <4>2
    <3> QED
      BY <2>2, <2>3, <2>4, <2>5, <3>1, <3>2
  <2>7. DOMAIN OthersThan(s) = 1..(len - 1)
    BY <2>3, <2>6
  <2>8. ASSUME NEW i \in 1..(len - 1)
        PROVE  (IF i < at THEN i ELSE i + 1) \in (1..len) \ {at}
    BY <2>3
  <2>9. ASSUME NEW i \in 1..(len - 1), NEW j \in 1..(len - 1), OthersThan(s)[i] = OthersThan(s)[j]
        PROVE  i = j
    <3>1. (IF i < at THEN i ELSE i + 1) = (IF j < at THEN j ELSE j + 1)
      BY <1>0, <2>3, <2>6, <2>8, <2>9
    <3> QED
      BY <2>3, <3>1
  <2>10. ASSUME NEW i \in 1..(len - 1) PROVE OthersThan(s)[i] # s
    BY <1>0, <2>1, <2>3, <2>6, <2>8
  <2> QED
    BY <2>6, <2>7, <2>9, <2>10
<1> QED
  BY <1>1, <1>2

\* What a search writes is brief if what it read was.
LEMMA MergedStaysBrief ==
    ASSUME Brief(session), NEW s \in Searches
    PROVE  LET all == <<s>> \o OthersThan(s) IN Brief(SubSeq(all, 1, Within(Len(all))))
<1> DEFINE rest == OthersThan(s)
           all == <<s>> \o rest
           n == Within(Len(all))
           q == SubSeq(all, 1, n)
<1>1. /\ rest \in Seq(Searches) /\ \A i, j \in DOMAIN rest : rest[i] = rest[j] => i = j
      /\ \A i \in DOMAIN rest : rest[i] # s
  BY OthersAreBrief
<1> HIDE DEF rest
<1>2. <<s>> \in Seq(Searches) /\ Len(<<s>>) = 1 /\ <<s>>[1] = s
  OBVIOUS
<1>3. /\ all \in Seq(Searches) /\ Len(all) = 1 + Len(rest)
      /\ \A i \in 1 .. 1 + Len(rest) : all[i] = IF i <= 1 THEN <<s>>[i] ELSE rest[i - 1]
  BY <1>1, <1>2, ConcatProperties
<1>4. all[1] = s /\ \A i \in 2 .. 1 + Len(rest) : all[i] = rest[i - 1] /\ i - 1 \in DOMAIN rest
  BY <1>1, <1>2, <1>3
<1>5. \A i, j \in 1 .. Len(all) : all[i] = all[j] => i = j
  BY <1>1, <1>3, <1>4
<1>6. n \in 0..Len(all) /\ n <= SessionLimit
  BY <1>3, MemoryAssumption DEF Within
<1> HIDE DEF all, n
<1>7. \A i \in 1..n : all[i] \in Searches
  BY <1>3, <1>6
<1>8. /\ q \in Seq(Searches) /\ Len(q) = IF 1 <= n THEN n - 1 + 1 ELSE 0
      /\ \A i \in 1..(n - 1 + 1) : q[i] = all[1 + i - 1]
  <2>1. 1 \in Int /\ n \in Int
    BY <1>3, <1>6
  <2> QED
    BY <1>7, <2>1, SubSeqProperties
<1>9. Len(q) = n /\ DOMAIN q = 1..n /\ \A i \in 1..n : q[i] = all[i]
  BY <1>6, <1>8
<1>10. Brief(q)
  BY <1>3, <1>5, <1>6, <1>8, <1>9 DEF Brief
<1> QED
  BY <1>10 DEF q, n, all, rest

\* A step of one prompt that tells it nothing it may not be told.
LEMMA PromptGoesOn ==
    ASSUME MemoryInv, UNCHANGED <<profile, session, searches, notes>>, NEW t \in Prompts, NEW new,
           DOMAIN new = PromptFields, prompts' = [prompts EXCEPT ![t] = new],
           open \subseteq open', \A u \in Prompts : u \in open' => u \in open \/ u = t,
           IsOpen(profile) /\ Working(new.step) => t \in open',
           InTurn(new), Allowed(new.told, t \in open')
    PROVE  MemoryInv'
<1>1. \A u \in Prompts : prompts'[u] = IF u = t THEN new ELSE prompts[u]
  BY DEF MemoryInv, MemoryTypes
<1>2. MemoryTypes'
  BY <1>1 DEF MemoryInv, MemoryTypes
<1>3. OpenIsNoted'
  BY <1>1 DEF MemoryInv, OpenIsNoted, Working, IsOpen
<1>4. ToldInTurn'
  BY <1>1 DEF MemoryInv, ToldInTurn
<1>5. \A u \in Prompts : Allowed(prompts'[u].told, u \in open')
  BY <1>1 DEF MemoryInv, ToldIsAllowed, Allowed
<1> QED
  BY <1>2, <1>3, <1>4, <1>5 DEF MemoryInv, ToldIsAllowed, MergedIsBrief, Allowed, Brief

LEMMA StartingPromptIsSafe == ASSUME MemoryInv, NEW t \in Prompts, StartPrompt(t) PROVE MemoryInv'
<1> DEFINE new == [prompts[t] EXCEPT !.step = "started"]
<1>1. prompts' = [prompts EXCEPT ![t] = new] /\ UNCHANGED <<profile, session, searches, notes>>
      /\ prompts[t].told = {}
  BY DEF StartPrompt, MemoryInv, MemoryTypes, ToldInTurn, InTurn
<1>2. DOMAIN new = PromptFields /\ new.step = "started" /\ new.told = {}
  BY <1>1 DEF MemoryInv, MemoryTypes, PromptFields
<1> HIDE DEF new
<1>3. open' = IF IsOpen(profile) THEN open \cup {t} ELSE open
  BY DEF StartPrompt
<1>4. InTurn(new) /\ Allowed(new.told, t \in open')
  BY <1>2 DEF InTurn, Allowed
<1> QED
  BY <1>1, <1>2, <1>3, <1>4, PromptGoesOn

\* A prompt that works on, told as much as before.
LEMMA CheckingSessionIsSafe == ASSUME MemoryInv, NEW t \in Prompts, CheckSession(t) PROVE MemoryInv'
<1>1. PICK s \in {"session_done", "session_due"} : prompts' = [prompts EXCEPT ![t].step = s]
  BY DEF CheckSession
<1> DEFINE new == [prompts[t] EXCEPT !.step = s]
<1>2. prompts' = [prompts EXCEPT ![t] = new] /\ UNCHANGED <<profile, session, searches, notes, open>>
      /\ prompts[t].told = {} /\ Working(prompts[t].step)
  BY <1>1 DEF CheckSession, MemoryInv, MemoryTypes, ToldInTurn, InTurn, Working
<1>3. DOMAIN new = PromptFields /\ new.step = s /\ new.told = {}
  BY <1>2 DEF MemoryInv, MemoryTypes, PromptFields
<1> HIDE DEF new
<1>4. InTurn(new) /\ Allowed(new.told, t \in open')
  BY <1>1, <1>3 DEF InTurn, Allowed
<1> QED
  BY <1>2, <1>3, <1>4, PromptGoesOn DEF MemoryInv, OpenIsNoted

LEMMA TellingSessionIsSafe == ASSUME MemoryInv, NEW t \in Prompts, TellSession(t) PROVE MemoryInv'
<1>1. PICK told \in {{}, {"session"}} :
         prompts' = [prompts EXCEPT ![t].step = "session_done", ![t].told = told]
  BY DEF TellSession
<1> DEFINE new == [prompts[t] EXCEPT !.step = "session_done", !.told = told]
<1>2. prompts' = [prompts EXCEPT ![t] = new] /\ UNCHANGED <<profile, session, searches, notes, open>>
      /\ Working(prompts[t].step)
  BY <1>1 DEF TellSession, MemoryInv, MemoryTypes, Working
<1>3. DOMAIN new = PromptFields /\ new.step = "session_done" /\ new.told = told
  BY DEF MemoryInv, MemoryTypes, PromptFields
<1> HIDE DEF new
<1>4. InTurn(new) /\ Allowed(new.told, t \in open')
  BY <1>1, <1>3, MemoryAssumption DEF InTurn, Allowed
<1> QED
  BY <1>2, <1>3, <1>4, PromptGoesOn DEF MemoryInv, OpenIsNoted

LEMMA TellingProfileIsSafe == ASSUME MemoryInv, NEW t \in Prompts, TellProfile(t) PROVE MemoryInv'
<1>1. UNCHANGED <<profile, session, searches, notes, open>> /\ Working(prompts[t].step)
      /\ prompts[t].told \subseteq {"session"} /\ (IsOpen(profile) => t \in open)
  BY DEF TellProfile, MemoryInv, MemoryTypes, Working, OpenIsNoted, ToldInTurn, InTurn
<1>2. CASE Suppressed(profile)
  <2> DEFINE new == [prompts[t] EXCEPT !.step = "done"]
  <2>1. prompts' = [prompts EXCEPT ![t] = new]
    BY <1>2 DEF TellProfile, MemoryInv, MemoryTypes
  <2>2. DOMAIN new = PromptFields /\ new.step = "done" /\ new.told = prompts[t].told
    BY DEF MemoryInv, MemoryTypes, PromptFields
  <2> HIDE DEF new
  <2>3. InTurn(new) /\ Allowed(new.told, t \in open') /\ ~Working(new.step)
    BY <1>1, <2>2, MemoryAssumption DEF InTurn, Allowed, Working
  <2> QED
    BY <1>1, <2>1, <2>2, <2>3, PromptGoesOn
<1>3. CASE ~Suppressed(profile)
  <2>1. PICK s \in {"notes_due", "done"} : prompts' = [prompts EXCEPT ![t] =
                                              [step |-> s, told |-> prompts[t].told \cup {"profile"}]]
    BY <1>3 DEF TellProfile, MemoryInv, MemoryTypes
  <2> DEFINE new == [step |-> s, told |-> prompts[t].told \cup {"profile"}]
  <2>2. DOMAIN new = PromptFields /\ new.step = s /\ new.told = prompts[t].told \cup {"profile"}
        /\ prompts' = [prompts EXCEPT ![t] = new]
    BY <2>1 DEF PromptFields
  <2> HIDE DEF new
  <2>3. t \in open
    BY <1>1, <1>3 DEF Suppressed
  <2>4. InTurn(new) /\ Allowed(new.told, t \in open')
    BY <1>1, <2>1, <2>2, <2>3, MemoryAssumption DEF InTurn, Allowed
  <2> QED
    BY <1>1, <2>2, <2>3, <2>4, PromptGoesOn
<1> QED
  BY <1>2, <1>3

LEMMA RecallingIsSafe == ASSUME MemoryInv, NEW t \in Prompts, RecallMemories(t) PROVE MemoryInv'
<1> DEFINE found == {n \in notes : NoteCampus[n] = Here}
           new == [step |-> "done", told |-> prompts[t].told \cup found]
<1>1. UNCHANGED <<profile, session, searches, notes, open>> /\ prompts' = [prompts EXCEPT ![t] = new]
      /\ "profile" \in prompts[t].told
  BY DEF RecallMemories, MemoryInv, MemoryTypes, ToldInTurn, InTurn
<1>2. Allowed(prompts[t].told, t \in open)
  BY DEF MemoryInv, ToldIsAllowed
<1>3. t \in open
  BY <1>1, <1>2 DEF Allowed
<1>4. DOMAIN new = PromptFields /\ new.step = "done" /\ new.told = prompts[t].told \cup found
  BY DEF PromptFields
<1> HIDE DEF new
<1>5. Allowed(new.told, t \in open')
  BY <1>1, <1>2, <1>3, <1>4 DEF Allowed
<1>6. InTurn(new) /\ ~Working(new.step)
  BY <1>4 DEF InTurn, Working
<1> QED
  BY <1>1, <1>4, <1>5, <1>6, PromptGoesOn

\* Whoever changes the profile notes the prompts that may see it.
LEMMA ProfileIsSafe ==
    ASSUME MemoryInv, UNCHANGED <<session, searches, notes, prompts>>, open' = open \cup Opened(profile')
    PROVE  MemoryInv'
<1>1. OpenIsNoted'
  BY DEF OpenIsNoted, Opened, Working, IsOpen
<1>2. \A u \in Prompts : Allowed(prompts'[u].told, u \in open')
  BY DEF MemoryInv, ToldIsAllowed, Allowed
<1> QED
  BY <1>1, <1>2 DEF MemoryInv, MemoryTypes, ToldInTurn, ToldIsAllowed, MergedIsBrief, Brief, InTurn, Allowed

LEMMA MemoryStep == ASSUME MemoryInv, [MemoryNext]_memoryVars PROVE MemoryInv'
<1> USE DEF MemoryTypes
<1>1. ASSUME UNCHANGED <<profile, prompts, open>>, notes' \subseteq Notes, Brief(session'),
             DOMAIN searches' = Searches, MergedIsBrief'
      PROVE  MemoryInv'
  BY <1>1 DEF MemoryInv, OpenIsNoted, ToldInTurn, ToldIsAllowed, Brief, IsOpen, Working, InTurn, Allowed
<1>2. ASSUME UNCHANGED searches PROVE MergedIsBrief => MergedIsBrief'
  BY <1>2 DEF MergedIsBrief, Brief
<1>3. ASSUME NEW e \in Edits, ReadProfile(e) \/ WriteProfile(e) PROVE MemoryInv'
  BY <1>3, ProfileIsSafe DEF ReadProfile, WriteProfile
<1>4. ASSUME NEW s \in Searches, MergeSearch(s) PROVE MemoryInv'
  <2> DEFINE all == <<s>> \o OthersThan(s)
             q == SubSeq(all, 1, Within(Len(all)))
  <2>1. Brief(q)
    BY MergedStaysBrief DEF MemoryInv
  <2>2. searches' = [searches EXCEPT ![s] = [step |-> "merged", ids |-> q]]
        /\ UNCHANGED <<profile, session, notes, prompts, open>>
    BY <1>4 DEF MergeSearch
  <2> HIDE DEF q
  <2>3. DOMAIN searches' = Searches /\ \A r \in Searches :
           searches'[r] = IF r = s THEN [step |-> "merged", ids |-> q] ELSE searches[r]
    BY <2>2 DEF MemoryInv
  <2>4. MergedIsBrief'
    BY <2>1, <2>3 DEF MemoryInv, MergedIsBrief, Brief
  <2> QED
    BY <1>1, <2>2, <2>3, <2>4 DEF MemoryInv, Brief
<1>5. ASSUME NEW s \in Searches, RecordSearch(s) PROVE MemoryInv'
  <2>1. Brief(session')
    BY <1>5 DEF RecordSearch, MemoryInv, MergedIsBrief
  <2>2. DOMAIN searches' = Searches /\ \A r \in Searches : r # s => searches'[r] = searches[r]
    BY <1>5 DEF RecordSearch, MemoryInv
  <2>3. searches'[s].step # "merged"
    BY <1>5 DEF RecordSearch, MemoryInv
  <2>4. MergedIsBrief'
    BY <2>2, <2>3 DEF MemoryInv, MergedIsBrief, Brief
  <2> QED
    BY <1>1, <1>5, <2>1, <2>2, <2>4 DEF RecordSearch, MemoryInv
<1>6. CASE ClearSessionMemory
  <2>1. Brief(<<>>)
    BY MemoryAssumption DEF Brief
  <2> QED
    BY <1>1, <1>2, <1>6, <2>1 DEF ClearSessionMemory, MemoryInv, Brief
<1>7. ASSUME NEW n \in Notes, AddMemory(n) \/ DeleteMemory(n) PROVE MemoryInv'
  BY <1>1, <1>2, <1>7 DEF AddMemory, DeleteMemory, MemoryInv, Brief
<1>8. CASE ClearAllMemories \/ UNCHANGED memoryVars
  BY <1>1, <1>2, <1>8 DEF ClearAllMemories, memoryVars, MemoryInv, Brief
<1> QED
  BY <1>3, <1>4, <1>5, <1>6, <1>7, <1>8, StartingPromptIsSafe, CheckingSessionIsSafe, TellingSessionIsSafe,
     TellingProfileIsSafe, RecallingIsSafe DEF MemoryNext

LEMMA MemoryInitially == MemoryInit => MemoryInv
<1>1. Brief(<<>>)
  BY MemoryAssumption DEF Brief
<1> QED
  BY <1>1 DEF MemoryInit, MemoryInv, MemoryTypes, PromptFields, OpenIsNoted, NoProfile, IsOpen, Working, ToldInTurn,
              InTurn, ToldIsAllowed, Allowed, MergedIsBrief

LEMMA MemoryIsHonoured == MemoryInv => OptOutIsHonoured /\ SessionIsShort
BY DEF MemoryInv, ToldIsAllowed, Allowed, OptOutIsHonoured, Brief, SessionIsShort

-----------------------------------------------------------------------------
(* What is promised.                                                       *)

\* Nobody's membership is verified but by the last code that was sent to a
\* mailbox of that campus, once, and not after too many guesses (campus.rs
\* confirm_email_verification).
THEOREM VerificationStaysEarned == MemberSpec => VerificationIsEarned
<1>1. MemberInv /\ [MemberNext]_memberVars =>
        [\A c \in Campuses : member[c] # "verified" /\ member'[c] = "verified" =>
            member[c] = "pending" /\ \E n \in OpenOf(c) :
               /\ CampusOf[challenge[n].mail] = c /\ challenge[n].attempts < MaxAttempts
               /\ \A o \in Issued : challenge[o].campus = c => o <= n
               /\ ~challenge'[n].open]_memberVars
  BY VerifiedIsEarned DEF Earned
<1>2. MemberInv /\ [MemberNext]_memberVars => MemberInv'
  BY MemberStep
<1> QED
  BY <1>1, <1>2, MemberInitially, PTL DEF MemberSpec, VerificationIsEarned

\* The codes of a mailbox are few in an hour and guessed at a few times only,
\* and no code of an authenticator lets two requests in (campus.rs, totp.rs).
THEOREM CodesStayGuarded == MemberSpec /\ FactorSpec => []CodesAreGuarded
<1>1. MemberInv /\ FactorInv => CodesAreGuarded
  BY GuessesStayBounded DEF FactorInv, CodesAreGuarded
<1>2. MemberInv /\ [MemberNext]_memberVars => MemberInv'
  BY MemberStep
<1>3. FactorInv /\ [FactorNext]_factorVars => FactorInv'
  BY FactorStep
<1> QED
  BY <1>1, <1>2, <1>3, MemberInitially, FactorInitially, PTL DEF MemberSpec, FactorSpec

\* What others see of a user is what he published last, he is interrupted no
\* more often than his budget allows, and the assistant is told of him what he
\* allowed while it was told (social_persona.rs, interruption.rs,
\* agent_memory.rs).
THEOREM WillStaysRespected == PersonaSpec /\ AttentionSpec /\ MemorySpec => []WillIsRespected
<1>1. PersonaInv /\ AttentionInv /\ MemoryInv => WillIsRespected
  BY LookIsPublished, BudgetIsKept, MemoryIsHonoured DEF WillIsRespected
<1>2. PersonaInv /\ [PersonaNext]_personaVars => PersonaInv'
  BY PersonaStep
<1>3. AttentionInv /\ [AttentionNext]_attentionVars => AttentionInv'
  BY AttentionStep
<1>4. MemoryInv /\ [MemoryNext]_memoryVars => MemoryInv'
  BY MemoryStep
<1> QED
  BY <1>1, <1>2, <1>3, <1>4, PersonaInitially, AttentionInitially, MemoryInitially, PTL
  DEF PersonaSpec, AttentionSpec, MemorySpec

\* A step of the composition is one of a component, or none.
LEMMA HandlersGoOn ==
    ASSUME [HandlerNext]_handlerVars
    PROVE  /\ [CaseNext]_caseVars /\ [SessionNext]_sessionVars /\ [AccessNext]_accessVars
           /\ [MemberNext]_memberVars /\ [FactorNext]_factorVars /\ [PersonaNext]_personaVars
           /\ [AttentionNext]_attentionVars /\ [MemoryNext]_memoryVars
BY DEF HandlerNext, handlerVars, Follow, Rests

\* What the run handlers explores keeps what its components promise one by
\* one, for any number of people, requests, codes and devices.
THEOREM HandlersKeepTheirWord ==
    HandlerSpec => /\ [](CasesAgree /\ SessionsAreChains /\ CodesAreGuarded /\ WillIsRespected)
                   /\ VerificationIsEarned /\ DeniedStaysDenied
<1>1. HandlerInit => /\ CaseInit /\ SessionInit /\ AccessInit /\ MemberInit
                     /\ FactorInit /\ PersonaInit /\ AttentionInit /\ MemoryInit
  BY DEF HandlerInit
<1>2. [HandlerNext]_handlerVars =>
           /\ [CaseNext]_caseVars /\ [SessionNext]_sessionVars /\ [AccessNext]_accessVars
           /\ [MemberNext]_memberVars /\ [FactorNext]_factorVars /\ [PersonaNext]_personaVars
           /\ [AttentionNext]_attentionVars /\ [MemoryNext]_memoryVars
  BY HandlersGoOn
<1>3. HandlerSpec => /\ CaseSpec /\ SessionSpec /\ AccessSpec /\ MemberSpec
                     /\ FactorSpec /\ PersonaSpec /\ AttentionSpec /\ MemorySpec
  BY <1>1, <1>2, PTL DEF HandlerSpec, CaseSpec, SessionSpec, AccessSpec, MemberSpec,
                         FactorSpec, PersonaSpec, AttentionSpec, MemorySpec
<1> QED
  BY <1>3, CasesStayAgreed, SessionsStayChains, DenialIsFinal, VerificationStaysEarned, CodesStayGuarded,
     WillStaysRespected, PTL
==============================================================================
