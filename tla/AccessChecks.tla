----------------------------- MODULE AccessChecks -----------------------------
(***************************************************************************)
(* token_denylist_middleware: what every request with an access token      *)
(* passes, lookup by lookup, while a logout revokes the token and an admin *)
(* bans or unbans its user.  Each replica has a set of denied tokens and   *)
(* two caches, which a restart empties; the tables are shared.  One token  *)
(* of one user is followed: until `exp`, through the 60 s for which the    *)
(* signature is still accepted after it (Validation::default), and beyond. *)
(***************************************************************************)
CONSTANTS
    Replicas,    \* processes, each with its own caches
    Checks       \* requests on their way to a handler

ASSUME ReplicasAssumption == "none" \notin Replicas

VARIABLES
    jti,         \* is the token in revoked_access_tokens?
    life,        \* "fresh" before exp, "leeway" for 60 s after it, then "over"
    logout,      \* the replica that has revoked it and not yet denied it, or "none"
    standing,    \* users.status
    denylist,    \* per replica: the denied set and the two caches
    check,       \* where each request stands
    notified     \* has the last ban or unban dropped its replica's cached status?

accessVars == <<jti, life, logout, standing, denylist, check, notified>>

-----------------------------------------------------------------------------
NoCheck == [stage |-> "idle", replica |-> "none"]
Cold    == [denied |-> FALSE, verified |-> FALSE, status |-> "none"]

AccessInit ==
    /\ jti = "valid" /\ life = "fresh" /\ logout = "none"
    /\ standing = "active" /\ notified = TRUE
    /\ denylist = [r \in Replicas |-> Cold]
    /\ check = [k \in Checks |-> NoCheck]

\* Who is refused or admitted has left; admission is the handler's business.
Goto(k, stage) ==
    check' = [check EXCEPT ![k] = IF stage \in {"refused", "admitted"} THEN NoCheck
                                  ELSE [@ EXCEPT !.stage = stage]]
Deny(r) == denylist' = [denylist EXCEPT ![r].denied = TRUE, ![r].verified = FALSE]

\* cleanup_expired comes first: a denial ends with exp.
StillDenied(r) == denylist[r].denied /\ life = "fresh"

\* Bug: the cache of verified tokens is asked before the denied set.
FirstLookupCached(r) ==
    IF life = "over" THEN "refused"
    ELSE IF denylist[r].verified THEN "genuine" ELSE IF StillDenied(r) THEN "refused" ELSE "lookup"

FirstLookup(r) ==
    IF life = "over" \/ StillDenied(r) THEN "refused"
    ELSE IF denylist[r].verified THEN "genuine" ELSE "lookup"

BeginCheck(k, r) ==
    /\ check[k] = NoCheck
    /\ check' = IF FirstLookup(r) = "refused" THEN check
                ELSE [check EXCEPT ![k] = [replica |-> r, stage |-> FirstLookup(r)]]
    /\ denylist' = IF life = "over" THEN denylist
                   ELSE [denylist EXCEPT ![r].denied = StillDenied(r)]
    /\ UNCHANGED <<jti, life, logout, standing, notified>>

\* The table is asked first, for what has not expired, and the cache is
\* written afterwards.
LookUp(k) ==
    /\ check[k].stage = "lookup"
    /\ IF jti = "revoked" /\ life = "fresh" THEN Deny(check[k].replica) /\ Goto(k, "refused")
       ELSE UNCHANGED denylist /\ Goto(k, "found")
    /\ UNCHANGED <<jti, life, logout, standing, notified>>

MarkVerified(k) ==
    /\ check[k].stage = "found"
    /\ denylist' = [denylist EXCEPT ![check[k].replica].verified = TRUE]
    /\ Goto(k, "genuine")
    /\ UNCHANGED <<jti, life, logout, standing, notified>>

\* The signature and its lifetime are checked again on the way.
CheckStatus(k) ==
    /\ check[k].stage = "genuine"
    /\ LET cached == denylist[check[k].replica].status IN
       Goto(k, CASE life = "over" \/ cached = "banned" -> "refused"
                 [] cached = "active" -> "admitted"
                 [] OTHER -> IF standing = "banned" THEN "read_banned" ELSE "read_active")
    /\ UNCHANGED <<jti, life, logout, standing, denylist, notified>>

CacheStatus(k) ==
    /\ check[k].stage \in {"read_active", "read_banned"}
    /\ LET banned == check[k].stage = "read_banned" IN
        /\ denylist' = [denylist EXCEPT ![check[k].replica].status =
                            IF banned THEN "banned" ELSE "active"]
        /\ Goto(k, IF banned THEN "refused" ELSE "admitted")
    /\ UNCHANGED <<jti, life, logout, standing, notified>>

\* logout: the table first, and then this replica's own denylist.
RevokeAccess(r) ==
    /\ jti = "valid" /\ life # "over" /\ jti' = "revoked" /\ logout' = r
    /\ UNCHANGED <<life, standing, denylist, check, notified>>

DenyHere(r) ==
    /\ logout = r /\ logout' = "none" /\ Deny(r)
    /\ UNCHANGED <<jti, life, standing, check, notified>>

\* ban_user, unban_user: the row, then this replica's cache.
ChangeStanding(status) ==
    /\ notified /\ standing # status
    /\ standing' = status /\ notified' = FALSE
    /\ UNCHANGED <<jti, life, logout, denylist, check>>

InvalidateStatus(r) ==
    /\ ~notified /\ notified' = TRUE
    /\ denylist' = [denylist EXCEPT ![r].status = "none"]
    /\ UNCHANGED <<jti, life, logout, standing, check>>

\* 30 s and 15 s, to the caches.
CacheExpires(r) ==
    /\ \/ denylist' = [denylist EXCEPT ![r].verified = FALSE]
       \/ denylist' = [denylist EXCEPT ![r].status = "none"]
    /\ UNCHANGED <<jti, life, logout, standing, check, notified>>

TokenAges ==
    /\ life # "over" /\ life' = IF life = "fresh" THEN "leeway" ELSE "over"
    /\ UNCHANGED <<jti, logout, standing, denylist, check, notified>>

\* The process dies with its requests and starts with empty caches.
RestartReplica(r) ==
    /\ denylist' = [denylist EXCEPT ![r] = Cold]
    /\ check' = [k \in Checks |-> IF check[k].replica = r THEN NoCheck ELSE check[k]]
    /\ logout' = IF logout = r THEN "none" ELSE logout
    /\ UNCHANGED <<jti, life, standing, notified>>

AccessNext ==
    \/ \E k \in Checks, r \in Replicas : BeginCheck(k, r)
    \/ \E k \in Checks : LookUp(k) \/ MarkVerified(k) \/ CheckStatus(k) \/ CacheStatus(k)
    \/ \E r \in Replicas : \/ RevokeAccess(r) \/ DenyHere(r) \/ InvalidateStatus(r)
                           \/ CacheExpires(r) \/ RestartReplica(r)
    \/ \E status \in {"active", "banned"} : ChangeStanding(status)
    \/ TokenAges

AccessSpec == AccessInit /\ [][AccessNext]_accessVars

-----------------------------------------------------------------------------
\* A replica still takes the token for genuine: it has it in its cache and not
\* among the denied, or a request of its own has asked the table and is about
\* to say so to the cache.
Trusts(r) ==
    /\ ~denylist[r].denied
    /\ denylist[r].verified \/ \E k \in Checks : check[k] = [replica |-> r, stage |-> "found"]

\* Once a token is revoked, trust in it only shrinks until it expires: a
\* replica that does not take it for genuine never does so again, through
\* restarts, expiring caches and requests under way, and lets no request
\* through that has not asked the table before (ensure_token_not_revoked).
DeniedStaysDenied ==
    [][jti = "revoked" /\ life' = "fresh" =>
        \A r \in Replicas : ~Trusts(r) =>
            /\ ~Trusts(r)'
            /\ \A k \in Checks :
                  check'[k] = [replica |-> r, stage |-> "genuine"]
                      => check[k].replica = r /\ check[k].stage \in {"found", "genuine"}]_accessVars

\* Refuted: the same until the token is worth nothing.  Denials end at exp
\* (token_denylist.rs:87, auth_repo.rs:227), while the signature is accepted
\* for 60 s longer: a replica that has denied the token verifies it anew.
RevokedIsRefused == [][jti = "revoked" => \A r \in Replicas : ~Trusts(r) => ~Trusts(r)']_accessVars
=============================================================================
