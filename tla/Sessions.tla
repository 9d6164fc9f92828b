------------------------------ MODULE Sessions -------------------------------
(***************************************************************************)
(* Sessions of one account: refresh tokens that rotate until a logout, a   *)
(* ban or the alarm of a replay ends them all.                             *)
(*                                                                         *)
(* Nothing here is a transaction of more than one statement: a rotation    *)
(* finds the token, revokes it, reads the account, and stores its          *)
(* successor; logout, ban and the alarm of a replay revoke "all tokens     *)
(* there are" at some point in between.                                    *)
(***************************************************************************)
EXTENDS Naturals, FiniteSets

CONSTANTS
    Tokens,      \* refresh tokens
    Flights      \* handlers in flight

ASSUME TokenAssumption == "none" \notin Tokens

VARIABLES
    token,       \* the refresh_tokens table
    account,     \* users.status
    flight,      \* what each rotation or login has done so far
    ended,       \* history: sessions ended by a logout, a ban or a replay
    banning      \* the ban handler, between its statements

sessionVars == <<token, account, flight, ended, banning>>

-----------------------------------------------------------------------------
\* `session` is the token of the login that began it; `from` the predecessor.
NoToken == [status |-> "none", session |-> "none", from |-> "none"]
NoFlight  == [stage |-> "idle", token |-> "none", sawRevoked |-> FALSE]

SessionInit ==
    /\ token = [t \in Tokens |-> NoToken]
    /\ account = "active" /\ banning = "idle"
    /\ flight = [c \in Flights |-> NoFlight]
    /\ ended = {}

FreshTokens == {t \in Tokens : token[t] = NoToken}
Works(t)     == token[t].status = "live"

\* revoke_all_user_tokens: one UPDATE of every token not yet revoked.
RevokeAll == token' = [t \in Tokens |-> IF Works(t) THEN [token[t] EXCEPT !.status = "revoked"]
                                        ELSE token[t]]

\* What the callers of RevokeAll mean by it: no session goes on.
EndAll == RevokeAll /\ ended' = ended \cup {token[t].session : t \in Tokens \ FreshTokens}

Store(t, session, from) ==
    token' = [token EXCEPT ![t] = [status |-> "live", session |-> session, from |-> from]]

-----------------------------------------------------------------------------
(* Logging in and rotating.                                                *)

\* The account is read before the password is verified and the token stored.
BeginLogin(c) ==
    /\ flight[c] = NoFlight /\ account = "active"
    /\ flight' = [flight EXCEPT ![c].stage = "login"]
    /\ UNCHANGED <<token, account, ended, banning>>

FinishLogin(c) ==
    /\ flight[c].stage = "login"
    /\ \E t \in FreshTokens : Store(t, t, "none")
    /\ flight' = [flight EXCEPT ![c] = NoFlight]
    /\ UNCHANGED <<account, ended, banning>>

\* rotate_refresh_token, by the owner or by whoever holds a copy.
FindToken(c, t) ==
    /\ flight[c] = NoFlight /\ token[t] # NoToken
    /\ flight' = [flight EXCEPT ![c] = [stage |-> "found", token |-> t,
                                    sawRevoked |-> token[t].status = "revoked"]]
    /\ UNCHANGED <<token, account, ended, banning>>

\* Bug: An UPDATE whose row count nobody looks at.
RevokeUnchecked(c) ==
    /\ flight[c].stage = "found"
    /\ LET t == flight[c].token IN
       IF ~flight[c].sawRevoked
       THEN /\ token' = [token EXCEPT ![t].status = "revoked"]
            /\ flight' = [flight EXCEPT ![c].stage = "revoked"]
            /\ UNCHANGED ended
       ELSE EndAll /\ flight' = [flight EXCEPT ![c] = NoFlight]
    /\ UNCHANGED <<account, banning>>

\* A token found revoked, or revoked since, sets off the alarm.
RevokeOld(c) ==
    /\ flight[c].stage = "found"
    /\ LET t == flight[c].token IN
       IF ~flight[c].sawRevoked /\ Works(t)
       THEN /\ token' = [token EXCEPT ![t].status = "revoked"]
            /\ flight' = [flight EXCEPT ![c].stage = "revoked"]
            /\ UNCHANGED ended
       ELSE EndAll /\ flight' = [flight EXCEPT ![c] = NoFlight]
    /\ UNCHANGED <<account, banning>>

ReadAccount(c) ==
    /\ flight[c].stage = "revoked"
    /\ IF account = "banned"
       THEN EndAll /\ flight' = [flight EXCEPT ![c] = NoFlight]
       ELSE flight' = [flight EXCEPT ![c].stage = "checked"] /\ UNCHANGED <<token, ended>>
    /\ UNCHANGED <<account, banning>>

StoreNew(c) ==
    /\ flight[c].stage = "checked"
    /\ LET old == flight[c].token IN
       \E t \in FreshTokens : Store(t, token[old].session, old)
    /\ flight' = [flight EXCEPT ![c] = NoFlight]
    /\ UNCHANGED <<account, ended, banning>>

\* A crash, or a campus membership that is gone: the old token is spent.
Fail(c) ==
    /\ flight[c].stage \in {"login", "revoked", "checked"}
    /\ flight' = [flight EXCEPT ![c] = NoFlight]
    /\ UNCHANGED <<token, account, ended, banning>>

-----------------------------------------------------------------------------
(* Ending sessions.                                                        *)

Logout == EndAll /\ UNCHANGED <<account, flight, banning>>

\* ban_user: the row first, the tokens in a later statement.
BanRow ==
    /\ account = "active" /\ banning = "idle"
    /\ account' = "banned" /\ banning' = "row"
    /\ UNCHANGED <<token, flight, ended>>

BanTokens ==
    /\ banning = "row" /\ banning' = "done"
    /\ EndAll
    /\ UNCHANGED <<account, flight>>

Unban ==
    /\ banning = "done" /\ banning' = "idle"
    /\ account' = "active"
    /\ UNCHANGED <<token, flight, ended>>

-----------------------------------------------------------------------------
SessionNext ==
    \/ \E c \in Flights : BeginLogin(c) \/ FinishLogin(c) \/ RevokeOld(c) \/ ReadAccount(c)
                        \/ StoreNew(c) \/ Fail(c)
    \/ \E c \in Flights, t \in Tokens : FindToken(c, t)
    \/ Logout \/ BanRow \/ BanTokens \/ Unban

SessionSpec == SessionInit /\ [][SessionNext]_sessionVars

-----------------------------------------------------------------------------
(* Properties.                                                             *)

\* A refresh token is exchanged for at most one successor, however many
\* requests present it at once: a session never forks.
NoFork == \A t, u \in Tokens : token[t].from # "none" /\ token[t].from = token[u].from => t = u

\* A token that still works is the end of its session: whoever kept a copy
\* of an earlier one holds nothing.
OnlyTheLastWorks == \A t, u \in Tokens : token[u].from = t /\ t # "none" => ~Works(t)

SessionsAreChains == NoFork /\ OnlyTheLastWorks

\* docs/api-reference.md: a replay revokes all of the user's refresh tokens.
EndedStayEnded == \A t \in Tokens : Works(t) => token[t].session \notin ended

=============================================================================
