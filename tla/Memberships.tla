---------------------------- MODULE Memberships ------------------------------
(***************************************************************************)
(* A user's campus memberships (services/campus.rs): a membership is       *)
(* pending until its holder has typed the code that was sent to his campus *)
(* mailbox, and is pending again once he changes the address (user_repo.rs *)
(* update_email).  A code lives five minutes, a new one is sent at most     *)
(* once a minute and so many times an hour, and so many wrong guesses end  *)
(* it.                                                                     *)
(*                                                                         *)
(* Asking for a code reads the address, waits for the membership's row,    *)
(* commits the challenge, and then delivers the code; typing one locks the *)
(* challenge first and writes the membership last.                         *)
(***************************************************************************)
EXTENDS Integers, FiniteSets

CONSTANTS
    Campuses,
    Mailboxes,       \* addresses the user may use
    CampusOf,        \* [Mailboxes -> Campuses], by domain
    MaxChallenges,   \* bound: codes ever sent
    HourlyLimit,     \* VERIFICATION_HOURLY_LIMIT
    MaxAttempts,     \* VERIFICATION_MAX_ATTEMPTS
    Forms            \* requests under way

ASSUME MembershipsAssumption ==
    /\ CampusOf \in [Mailboxes -> Campuses] /\ "none" \notin Campuses
    /\ MaxChallenges \in Nat /\ HourlyLimit \in Nat \ {0} /\ MaxAttempts \in Nat \ {0}

VARIABLES
    mail,          \* users.email
    member,        \* campus_memberships.status by campus
    challenge,     \* campus_verification_challenges, in the order of their requests
    undelivered,   \* challenges with delivery_status failed, within the cooldown
    form           \* what each request has done so far

memberVars == <<mail, member, challenge, undelivered, form>>

Challenges == 1..MaxChallenges
Idle       == [stage |-> "idle", campus |-> "none", mail |-> "none", challenge |-> 0]

\* Age: 0 within the cooldown, 1 valid, 2 expired, 3 an hour old.
NoChallenge == [campus |-> "none", mail |-> "none", open |-> FALSE, attempts |-> 0,
                age |-> 0]

\* create_user: a pending membership at the campus of the address.
MemberInit ==
    /\ mail \in Mailboxes
    /\ member = [c \in Campuses |-> IF c = CampusOf[mail] THEN "pending" ELSE "none"]
    /\ challenge = [n \in Challenges |-> NoChallenge]
    /\ undelivered = {}
    /\ form = [r \in Forms |-> Idle]

Issued    == {n \in Challenges : challenge[n].campus # "none"}
OpenOf(c) == {n \in Issued : challenge[n].campus = c /\ challenge[n].open}
Finish(r)      == form' = [form EXCEPT ![r] = Idle]

-----------------------------------------------------------------------------
(* request_email_verification                                              *)

\* The address is of the moment the statement starts, the membership of the
\* moment its row is locked.
BeginRequest(r, c) ==
    /\ form[r] = Idle /\ member[c] # "none"
    /\ form' = [form EXCEPT ![r] = [Idle EXCEPT !.stage = "wanted", !.campus = c, !.mail = mail]]
    /\ UNCHANGED <<mail, member, challenge, undelivered>>

\* Bug: the limit counts what the cooldown counts.
RecentDelivered(c) == {n \in Issued \ undelivered : challenge[n].campus = c /\ challenge[n].age < 3}
Recent(c)  == {n \in Issued : challenge[n].campus = c /\ challenge[n].age < 3}
Cooling(c) == \E n \in Issued \ undelivered : challenge[n].campus = c /\ challenge[n].age = 0

MayIssue(r) ==
    LET c == form[r].campus IN
    /\ member[c] = "pending" /\ CampusOf[form[r].mail] = c
    /\ Cardinality(Recent(c)) < HourlyLimit /\ ~Cooling(c)

Refuse(r) ==
    /\ form[r].stage = "wanted" /\ ~MayIssue(r)
    /\ Finish(r)
    /\ UNCHANGED <<mail, member, challenge, undelivered>>

\* Open challenges are consumed, which waits for whoever has locked one.
Issue(r) ==
    LET c == form[r].campus
        n == Cardinality(Issued) + 1
    IN /\ form[r].stage = "wanted" /\ MayIssue(r) /\ n \in Challenges
       /\ \A o \in Forms : form[o].stage = "typed" => form[o].challenge \notin OpenOf(c)
       /\ challenge' = [m \in Challenges |->
              IF m = n THEN [NoChallenge EXCEPT !.campus = c, !.mail = form[r].mail, !.open = TRUE]
              ELSE IF m \in OpenOf(c) THEN [challenge[m] EXCEPT !.open = FALSE] ELSE challenge[m]]
       /\ form' = [form EXCEPT ![r].stage = "sending", ![r].challenge = n]
       /\ UNCHANGED <<mail, member, undelivered>>

\* The outcome is written by a statement of its own, within ten seconds.
Deliver(r, lost) ==
    /\ form[r].stage = "sending"
    /\ undelivered' = IF lost THEN undelivered \cup {form[r].challenge} ELSE undelivered
    /\ Finish(r)
    /\ UNCHANGED <<mail, member, challenge>>

-----------------------------------------------------------------------------
(* confirm_email_verification                                              *)

\* Bug: the row is read without a lock, so that two see it open.
LockedByNobody(c) == TRUE
Lockable(c) == \A o \in Forms : form[o].stage = "typed" => form[o].challenge \notin OpenOf(c)

\* Somebody types a code: that of a challenge, or, as 0, one of no challenge.
\* Code and id are hashed together: one challenge's code fits no other.
TypeCode(r, c, code) ==
    /\ form[r] = Idle /\ OpenOf(c) # {} /\ Lockable(c)
    /\ LET n == CHOOSE m \in OpenOf(c) : \A o \in OpenOf(c) : o <= m
           missed == challenge[n].attempts + 1
       IN IF challenge[n].age >= 2 \/ challenge[n].attempts >= MaxAttempts
          THEN challenge' = [challenge EXCEPT ![n].open = FALSE] /\ UNCHANGED form
          ELSE IF code # n
          THEN challenge' = [challenge EXCEPT ![n].attempts = missed, ![n].open = missed < MaxAttempts]
               /\ UNCHANGED form
          ELSE form' = [form EXCEPT ![r] = [Idle EXCEPT !.stage = "typed", !.campus = c,
                                                        !.challenge = n]]
               /\ UNCHANGED challenge
    /\ UNCHANGED <<mail, member, undelivered>>

\* Bug: the membership is verified whatever has become of it.
VerifiedAnyway(c) == "verified"
VerifiedFrom(c)   == IF member[c] = "pending" THEN "verified" ELSE member[c]

Verify(r) ==
    LET n == form[r].challenge
        c == form[r].campus
    IN /\ form[r].stage = "typed"
       /\ challenge' = [challenge EXCEPT ![n].open = FALSE]
       /\ member' = [member EXCEPT ![c] = VerifiedFrom(c)]
       /\ Finish(r)
       /\ UNCHANGED <<mail, undelivered>>

\* Cut off, or chosen by the database when a request for a new code and the
\* typing of the old one wait for each other.
BreakOff(r) ==
    /\ form[r] # Idle
    /\ Finish(r)
    /\ UNCHANGED <<mail, member, challenge, undelivered>>

-----------------------------------------------------------------------------
(* Everything else that changes an address or a membership.                *)

\* update_email; the campus was looked up before.
ChangeEmail(r, m) ==
    /\ form[r] = Idle
    /\ mail' = m
    /\ member' = IF m = mail THEN member
                 ELSE [c \in Campuses |-> IF member[c] = "verified" THEN "pending" ELSE member[c]]
    /\ form' = [form EXCEPT ![r] = [Idle EXCEPT !.stage = "changed", !.campus = CampusOf[m]]]
    /\ UNCHANGED <<challenge, undelivered>>

\* add_pending_email_membership
AddMembership(r) ==
    LET c == form[r].campus IN
    /\ form[r].stage = "changed"
    /\ member' = [member EXCEPT ![c] = IF @ = "none" THEN "pending" ELSE @]
    /\ Finish(r)
    /\ UNCHANGED <<mail, challenge, undelivered>>

\* No handler suspends a membership: an operator does, in the database.
Suspend(c) ==
    /\ member[c] \in {"pending", "verified"}
    /\ member' = [member EXCEPT ![c] = "suspended"]
    /\ UNCHANGED <<mail, challenge, form, undelivered>>

TimePasses(n) ==
    /\ n \in Issued /\ challenge[n].age < 3
    /\ \A o \in Issued : o < n => challenge[o].age > challenge[n].age
    /\ \A r \in Forms : ~(form[r].stage = "sending" /\ form[r].challenge = n)
    /\ challenge' = [challenge EXCEPT ![n].age = @ + 1]
    /\ undelivered' = undelivered \ {n}
    /\ UNCHANGED <<mail, member, form>>

MemberNext ==
    \/ \E r \in Forms :
          \/ Refuse(r) \/ Issue(r) \/ Verify(r) \/ BreakOff(r) \/ AddMembership(r)
          \/ \E c \in Campuses :
                BeginRequest(r, c) \/ \E code \in 0..MaxChallenges : TypeCode(r, c, code)
          \/ \E m \in Mailboxes : ChangeEmail(r, m)
          \/ \E lost \in BOOLEAN : Deliver(r, lost)
    \/ \E c \in Campuses : Suspend(c)
    \/ \E n \in Challenges : TimePasses(n)

MemberSpec == MemberInit /\ [][MemberNext]_memberVars

-----------------------------------------------------------------------------
\* A membership is verified by a code that was sent to a mailbox of that very
\* campus, is the last that was sent, has not been missed too often, and serves
\* this once, whoever else asks, types, moves or is suspended meanwhile.
VerificationIsEarned ==
    [][\A c \in Campuses : member[c] # "verified" /\ member'[c] = "verified" =>
          member[c] = "pending" /\ \E n \in OpenOf(c) :
             /\ CampusOf[challenge[n].mail] = c /\ challenge[n].attempts < MaxAttempts
             /\ \A o \in Issued : challenge[o].campus = c => o <= n
             /\ ~challenge'[n].open]_memberVars

\* Within an hour nobody gets more codes than the limit, nor more guesses than
\* the limits multiply to, failed deliveries and cut off requests included.
GuessesAreBounded ==
    \A c \in Campuses :
       /\ Cardinality(Recent(c)) <= HourlyLimit
       /\ \A n \in Issued : challenge[n].attempts <= MaxAttempts
       /\ Cardinality(OpenOf(c)) <= 1

\* Not so: an old code outlives the change of the address it was sent to
\* (api-reference.md:185, domain-flows.md:52).
VerifiedForCurrentEmail == \A c \in Campuses : member[c] = "verified" => CampusOf[mail] = c
==============================================================================
