------------------------------- MODULE Spaces -------------------------------
(***************************************************************************)
(* Groups and calls.  Every request on a group reads the role of who asks  *)
(* in one statement and writes in a later one, so that roles may have      *)
(* changed in between.  A call is rung after a look at the conversation,   *)
(* and then answered or ended by single statements, from any device.       *)
(***************************************************************************)
EXTENDS Naturals, FiniteSets, Sequences

CONSTANTS Groups, Guests,       \* Guests are verified members of the groups' campus
          Utterances,           \* requests to say something in a group
          UtteranceKeys,        \* client_message_id
          RoleRequests,
          Calls, Phones         \* from which the callee may answer

ASSUME PhoneAssumption == "none" \notin Phones

VARIABLES roles,      \* chat_space_members: group -> guest -> role
          lines,      \* chat_space_messages, by id
          utterances, roleRequests,
          live,       \* the conversation is active and in realtime mode
          calls       \* chat_calls, and which phones were told that they answered

groupVars == <<roles, lines, utterances, roleRequests>>
callVars  == <<live, calls>>

GroupInit ==
    /\ roles = [s \in Groups |-> [g \in Guests |-> "none"]]
    /\ lines = <<>>
    /\ utterances = [u \in Utterances |-> [step |-> "idle"]]
    /\ roleRequests = [r \in RoleRequests |-> [step |-> "idle"]]

CallInit ==
    /\ live = TRUE
    /\ calls = [c \in Calls |-> [state |-> "idle", answer |-> "none", told |-> {}]]

IsMember(s, g) == roles[s][g] \in {"owner", "member"}

-----------------------------------------------------------------------------
(* Groups.                                                                 *)

CreateGroup(s, g) ==
    /\ \A h \in Guests : roles[s][h] = "none"
    /\ lines = <<>> \/ \A i \in DOMAIN lines : lines[i].group # s
    /\ \A r \in RoleRequests : roleRequests[r].step = "allowed" => roleRequests[r].group # s
    /\ \A u \in Utterances : utterances[u].step # "idle" => utterances[u].group # s
    /\ roles' = [roles EXCEPT ![s][g] = "owner"]
    /\ UNCHANGED <<lines, utterances, roleRequests>>

\* add_space_member and remove_space_member: who may.  The role "admin" is
\* accepted here and refused by the table since migration 0103.
AskRole(r, s, g, h, role) ==
    /\ roleRequests[r].step = "idle"
    /\ IsMember(s, g)
    /\ IF role = "none" THEN g = h \/ roles[s][g] = "owner" ELSE roles[s][g] = "owner"
    /\ roleRequests' = [roleRequests EXCEPT ![r] =
            [step |-> "allowed", group |-> s, by |-> g, whose |-> h, role |-> role]]
    /\ UNCHANGED <<roles, lines, utterances>>

WriteRole(r) ==
    LET c == roleRequests[r]
    IN  /\ c.step = "allowed"
        /\ roles' = [roles EXCEPT ![c.group][c.whose] = IF c.role = "admin" THEN @ ELSE c.role]
        /\ roleRequests' = [roleRequests EXCEPT ![r].step = "done"]
        /\ UNCHANGED <<lines, utterances>>

\* send_space_message: the role, then the topic replied to, then the insert.
AskToSpeak(u, s, g, key, parent) ==
    /\ utterances[u].step = "idle"
    /\ IsMember(s, g)
    /\ parent \in 0..Len(lines)
    /\ utterances' = [utterances EXCEPT ![u] =
            [step |-> "admitted", group |-> s, who |-> g, key |-> key, parent |-> parent, line |-> 0]]
    /\ UNCHANGED <<roles, lines, roleRequests>>

IsRootTopic(i, s) == lines[i].group = s /\ lines[i].parent = 0

CheckTopic(u) ==
    /\ utterances[u].step = "admitted"
    /\ LET it == utterances[u]
           sound == it.parent = 0 \/ IsRootTopic(it.parent, it.group)
       IN  utterances' = [utterances EXCEPT ![u].step = IF sound THEN "sound" ELSE "refused"]
    /\ UNCHANGED <<roles, lines, roleRequests>>

SameKey(line, it) == line.group = it.group /\ line.who = it.who /\ line.key = it.key

SendSpaceMessage(u) ==
    LET it   == utterances[u]
        said == {i \in DOMAIN lines : SameKey(lines[i], it)}
    IN  /\ it.step = "sound"
        /\ lines' = IF said # {} THEN lines
                    ELSE Append(lines, [group |-> it.group, who |-> it.who, key |-> it.key,
                                        parent |-> it.parent, by |-> u])
        /\ utterances' = [utterances EXCEPT ![u] = [it EXCEPT !.step = "stored",
                              !.line = IF said # {} THEN CHOOSE i \in said : TRUE ELSE Len(lines')]]
        /\ UNCHANGED <<roles, roleRequests>>

\* The group's updated_at and its audience take statements of their own: when
\* one fails, so does the request, and the line remains.
AnswerSpeaker(u) ==
    /\ utterances[u].step = "stored"
    /\ \E end \in {"answered", "failed"} : utterances' = [utterances EXCEPT ![u].step = end]
    /\ UNCHANGED <<roles, lines, roleRequests>>

GroupNext ==
    \/ \E s \in Groups, g \in Guests :
          \/ CreateGroup(s, g)
          \/ \E r \in RoleRequests, h \in Guests, role \in {"none", "owner", "admin", "member", "banned"} :
                AskRole(r, s, g, h, role)
          \/ \E u \in Utterances, key \in UtteranceKeys, parent \in 0..Cardinality(Utterances) :
                AskToSpeak(u, s, g, key, parent)
    \/ \E r \in RoleRequests : WriteRole(r)
    \/ \E u \in Utterances : CheckTopic(u) \/ SendSpaceMessage(u) \/ AnswerSpeaker(u)

GroupSpec == GroupInit /\ [][GroupNext]_groupVars

-----------------------------------------------------------------------------
(* Calls.                                                                  *)

LoadActiveRealtimeConversation(c) ==
    /\ calls[c].state = "idle" /\ live
    /\ calls' = [calls EXCEPT ![c].state = "checked"] /\ UNCHANGED live
CreateCall(c) ==
    /\ calls[c].state = "checked"
    /\ calls' = [calls EXCEPT ![c].state = "ringing"] /\ UNCHANGED live
\* Elsewhere the conversation closes, or leaves realtime.
LeaveRealtime == live /\ live' = FALSE /\ UNCHANGED calls

StillRinging(call) == call.state = "ringing"

AnswerCall(c, phone) ==
    /\ StillRinging(calls[c])
    /\ calls' = [calls EXCEPT ![c] = [state |-> "accepted", answer |-> phone, told |-> @.told \cup {phone}]]
    /\ UNCHANGED live
EndCall(c) ==
    /\ calls[c].state \in {"ringing", "accepted"}
    /\ calls' = [calls EXCEPT ![c].state = "ended"] /\ UNCHANGED live

CallNext ==
    \/ \E c \in Calls :
          \/ LoadActiveRealtimeConversation(c) \/ CreateCall(c) \/ EndCall(c)
          \/ \E phone \in Phones : AnswerCall(c, phone)
    \/ LeaveRealtime

CallSpec == CallInit /\ [][CallNext]_callVars

-----------------------------------------------------------------------------
(* Properties.                                                             *)

\* Migration 0089: replies point directly to a root topic in the same space,
\* also when what was checked is stored later and under a repeated key.
RepliesHangOnRoots == \A i \in DOMAIN lines :
    lines[i].parent # 0 => /\ lines[i].parent < i
                           /\ lines[lines[i].parent].group = lines[i].group
                           /\ lines[lines[i].parent].parent = 0

\* A message that is sent again is stored once, and all answers show that line.
KeysNameOneLine ==
    /\ \A i, j \in DOMAIN lines : i # j => ~SameKey(lines[i], lines[j])
    /\ \A u \in Utterances : utterances[u].step = "answered" =>
          SameKey(lines[utterances[u].line], utterances[u])

\* Of the phones that ring, one is told that it answered, and the caller is
\* given the answer of that one.
CallsAreAnsweredOnce == \A c \in Calls :
    calls[c].told = IF calls[c].answer = "none" THEN {} ELSE {calls[c].answer}

SpacesAreOrderly == RepliesHangOnRoots /\ KeysNameOneLine /\ CallsAreAnsweredOnce

\* Refuted: who is banned while a message of theirs is checked still speaks,
\* and who leaves while being banned is no longer banned.
BannedIsSilent == [][\A u \in Utterances :
    utterances[u].step = "sound" /\ utterances'[u].step = "stored" =>
        IsMember(utterances[u].group, utterances[u].who)]_groupVars
BansAreLiftedByOwners == [][\A s \in Groups, g \in Guests :
    roles[s][g] = "banned" /\ roles'[s][g] = "none" =>
        \E r \in RoleRequests : roleRequests[r].step = "allowed" /\ roleRequests'[r].step = "done"
                                 /\ roleRequests[r].by # g]_groupVars
\* Refuted: "call_requires_active_realtime" is checked before, not when, it rings.
CallsNeedLiveTalk == [][\A c \in Calls :
    calls[c].state = "checked" /\ calls'[c].state = "ringing" => live]_callVars
=============================================================================
