-------------------------- MODULE MCRequestHandlers --------------------------
(***************************************************************************)
(* Requests about accounts that race each other: decisions on moderation   *)
(* cases, refresh tokens, access checks, memberships, the second factor    *)
(* and the office of administrators, and what a user lets others see, send *)
(* him and remember of him.  The modules share no state, so each behaviour *)
(* follows one of them, chosen in the beginning, while the others rest:    *)
(* what two of them do side by side is what each of them does alone.       *)
(***************************************************************************)
EXTENDS Moderation, Sessions, AccessChecks, Memberships, Administration,
        Personas, Interruptions, Memories, TLC

CONSTANTS ncu, elsewhere, home, away  \* two campuses and a mailbox at each

MCCampusOf == [m \in Mailboxes |-> IF m = home THEN ncu ELSE elsewhere]
MCNoteCampus == [n \in Notes |-> IF n = home THEN ncu ELSE elsewhere]

\* Admins, requests and whatever else comes in pairs are told apart by nothing
\* but what has happened to them.
Alike == Permutations(Admins)

VARIABLE focus

handlerVars == <<focus, caseVars, sessionVars, accessVars, memberVars, factorVars, officeVars,
                 personaVars, attentionVars, memoryVars, skillVars>>

HandlerInit ==
    /\ focus \in {"cases", "sessions", "access", "members", "factor", "office",
                  "persona", "attention", "memory", "skills"}
    /\ CaseInit /\ SessionInit /\ AccessInit /\ MemberInit /\ FactorInit /\ OfficeInit
    /\ PersonaInit /\ AttentionInit /\ MemoryInit /\ SkillInit
    \* What rests begins in one of its initial states.
    /\ focus # "members" => mail = home
    /\ focus # "attention" => settings.budget = 0

Rests(component, its) == IF focus = component THEN TRUE ELSE UNCHANGED its

\* Nothing but the component that is followed moves.
Follow(component) ==
    /\ focus = component /\ UNCHANGED focus
    /\ Rests("cases", caseVars) /\ Rests("sessions", sessionVars)
    /\ Rests("access", accessVars) /\ Rests("members", memberVars)
    /\ Rests("factor", factorVars) /\ Rests("office", officeVars)
    /\ Rests("persona", personaVars) /\ Rests("attention", attentionVars)
    /\ Rests("memory", memoryVars) /\ Rests("skills", skillVars)

HandlerNext ==
    \/ Follow("cases") /\ CaseNext
    \/ Follow("sessions") /\ SessionNext
    \/ Follow("access") /\ AccessNext
    \/ Follow("members") /\ MemberNext
    \/ Follow("factor") /\ FactorNext
    \/ Follow("office") /\ OfficeNext
    \/ Follow("persona") /\ PersonaNext
    \/ Follow("attention") /\ AttentionNext
    \/ Follow("memory") /\ MemoryNext
    \/ Follow("skills") /\ SkillNext

HandlerSpec == HandlerInit /\ [][HandlerNext]_handlerVars

-----------------------------------------------------------------------------
\* What proves an account cannot be tried without end, nor used twice: the
\* codes of a mailbox (campus.rs) and those of an authenticator (totp.rs).
CodesAreGuarded == GuessesAreBounded /\ CodesAreSingleUse

\* What a user has decided about himself holds while several devices, turns
\* and other people's requests race it: what is shown of him
\* (social_persona.rs), how often he is interrupted (interruption.rs), what
\* the assistant is told about him (agent_memory.rs).
WillIsRespected == PersonaIsAsPublished /\ BudgetHolds /\ OptOutIsHonoured /\ SessionIsShort
==============================================================================
