---------------------------- MODULE Conversations ----------------------------
(***************************************************************************)
(* Direct conversations (services/chat_conversation.rs): a realtime one is *)
(* offered, answered and confirmed before anybody may write in it; a mail  *)
(* one is open from the start.  Either side may close it, block the other, *)
(* or let a deadline pass.                                                 *)
(*                                                                         *)
(* Every operation on a conversation locks its row first and is one step.  *)
(* Creating one is not: nothing is there to be locked.  A request checks   *)
(* key and blocks (BeginCreate), takes the advisory lock of the pair and   *)
(* looks for a live conversation (MeetExisting, Admit), and inserts        *)
(* (InsertConversation).  What the blocks are may change in between.       *)
(* Nor is a block: it locks the rows that it finds (BeginBlock), and until *)
(* it commits (EndBlock) nobody sees it and others may be inserted.        *)
(*                                                                         *)
(* Not in the model: text, quotes, media and notifications, and the checks *)
(* that can only refuse a request on grounds that nothing here depends on: *)
(* the caller's membership, the listing that is named, the number of       *)
(* conversations of a day, the wording.                                    *)
(***************************************************************************)
CONSTANTS Members, \* two or more
          Convs, \* ids of conversations
          Creators, \* requests to create one
          ChatKeys,  \* client_request_id and client_message_id
          NULL

ASSUME NullIsNoId == NULL \notin Convs \cup Members \cup ChatKeys

VARIABLES conv,      \* chat_conversations
          message,   \* message[u][k]: where the message that u sent under id k is
          blocked,   \* chat_blocks: <<blocker, blocked>>
          creation,  \* create requests in progress
          blocking,  \* block transactions that have yet to commit
          consent,   \* history: who has agreed to a conversation
          crossed    \* history: inserted while a block of the pair was under way

chatVars == <<conv, message, blocked, creation, blocking, consent, crossed>>

States == {"syn_sent", "syn_ack", "active", "declined", "cancelled", "expired", "closed", "open"}
LiveStates == {"syn_sent", "syn_ack", "active"}

Unused == [mode |-> "none", state |-> "closed", initiator |-> NULL, recipient |-> NULL,
           key |-> NULL, established |-> FALSE, due |-> FALSE]
NoCreation == [step |-> "idle", initiator |-> NULL, recipient |-> NULL, key |-> NULL, mode |-> "none"]

ChatTypeOK ==
    /\ conv \in [Convs -> [mode : {"none", "realtime", "mail"}, state : States,
                           initiator : Members \cup {NULL}, recipient : Members \cup {NULL},
                           key : ChatKeys \cup {NULL}, established : BOOLEAN,
                           due : BOOLEAN]]
    /\ message \in [Members -> [ChatKeys -> Convs \cup {NULL}]]
    /\ blocked \in SUBSET (Members \X Members)
    /\ creation \in [Creators -> [step : {"idle", "checked", "admitted"}, initiator : Members \cup {NULL},
                           recipient : Members \cup {NULL}, key : ChatKeys \cup {NULL},
                           mode : {"none", "realtime", "mail"}]]
    /\ blocking \subseteq [by : Members, whom : Members, rows : SUBSET Convs, inserts : BOOLEAN]
    /\ consent \in [Convs -> SUBSET Members]
    /\ crossed \in SUBSET Convs

ChatInit ==
    /\ conv = [c \in Convs |-> Unused]
    /\ message = [u \in Members |-> [k \in ChatKeys |-> NULL]]
    /\ blocked = {}
    /\ creation = [r \in Creators |-> NoCreation]
    /\ blocking = {} /\ crossed = {}
    /\ consent = [c \in Convs |-> {}]

------------------------------------------------------------------------------
Used == {c \in Convs : conv[c].mode # "none"}
Realtime(c) == conv[c].mode = "realtime"
Live(c) == Realtime(c) /\ conv[c].state \in LiveStates
Participants(c) == {conv[c].initiator, conv[c].recipient}
PairIsBlocked(u, v) == <<u, v>> \in blocked \/ <<v, u>> \in blocked
IsBlocked(c) == PairIsBlocked(conv[c].initiator, conv[c].recipient)

(* find_live_realtime: either of the two may have asked.                   *)
LiveBetween(u, v) == {c \in Used : Live(c) /\ Participants(c) = {u, v}}

(* A row that can be worked on: it is there, the caller may see it, and    *)
(* its deadline has not passed.  If it has, expire_if_due marks the row    *)
(* and then fails, so that the mark is rolled back with the rest.          *)
MayWorkOn(u, c) == c \in Used /\ u \in Participants(c) /\ ~conv[c].due

(* No block holds the row.  Everybody else waits for it.                   *)
Free(c) == \A b \in blocking : c \notin b.rows

------------------------------------------------------------------------------
(* Creating                                                                *)

(* evaluate_connection_request.  The recipient's settings change whenever  *)
(* he likes and nothing else depends on them, so what they say is an input:*)
(* busy, or no to this caller; nothing in particular; yes to this caller,  *)
(* or to strangers.                                                        *)
Settings == {"no", "contacts", "yes"}
WereConnected(u, v) == \E c \in Used : Participants(c) = {u, v} /\ conv[c].established
Admits(settings, u, v) == settings = "yes" \/ (settings = "contacts" /\ WereConnected(u, v))

(* The advisory lock of a pair is held from Admit to the end.              *)
HoldsPair(r, u, v) ==
    LET q == creation[r]
    IN  q.step = "admitted" /\ q.mode = "realtime" /\ {q.initiator, q.recipient} = {u, v}
PairIsLocked(u, v) == \E r \in Creators : HoldsPair(r, u, v)

KeyTaken(u, k) == \E c \in Used : conv[c].initiator = u /\ conv[c].key = k

BeginCreate(r, u, v, k, mode) ==
    /\ creation[r].step = "idle"
    /\ u # v
    /\ ~KeyTaken(u, k)          \* else the conversation it made is returned
    /\ ~PairIsBlocked(u, v)
    /\ creation' = [creation EXCEPT ![r] = [step |-> "checked", initiator |-> u, recipient |-> v,
                                    key |-> k, mode |-> mode]]
    /\ UNCHANGED <<conv, message, blocked, blocking, consent, crossed>>

Done(r) == creation' = [creation EXCEPT ![r] = NoCreation]

Activated(row) == [row EXCEPT !.state = "active", !.established = TRUE, !.due = FALSE]

(* A live conversation of the pair is there already: it is the answer, and *)
(* an invitation from the other side becomes a connection.                 *)
MeetExisting(r, c) ==
    LET q == creation[r] IN
    /\ q.step = "checked" /\ q.mode = "realtime"
    /\ ~PairIsLocked(q.initiator, q.recipient)
    /\ c \in LiveBetween(q.initiator, q.recipient) /\ Free(c)
    /\ IF conv[c].state = "syn_sent" /\ conv[c].recipient = q.initiator
       THEN /\ message[q.initiator][q.key] = NULL    \* else the unique index refuses
            /\ message' = [message EXCEPT ![q.initiator][q.key] = c]
            /\ conv' = [conv EXCEPT ![c] = Activated(@)]
            /\ consent' = [consent EXCEPT ![c] = @ \cup {q.initiator}]
       ELSE UNCHANGED <<message, conv, consent>>
    /\ Done(r)
    /\ UNCHANGED <<blocked, blocking, crossed>>

Admit(r, settings) ==
    LET q == creation[r] IN
    /\ q.step = "checked"
    /\ q.mode = "realtime" => /\ ~PairIsLocked(q.initiator, q.recipient)
                              /\ LiveBetween(q.initiator, q.recipient) = {}
                              /\ Admits(settings, q.initiator, q.recipient)
    /\ creation' = [creation EXCEPT ![r].step = "admitted"]
    /\ UNCHANGED <<conv, message, blocked, blocking, consent, crossed>>

Fresh == CHOOSE c \in Convs : conv[c].mode = "none"

Opened(q) ==
    [mode |-> q.mode, state |-> IF q.mode = "realtime" THEN "syn_sent" ELSE "open",
     initiator |-> q.initiator, recipient |-> q.recipient, key |-> q.key,
     established |-> FALSE, due |-> FALSE]

(* A block of the two has looked for conversations and not yet committed.  *)
BlockUnderWay(q) == \E b \in blocking : {b.by, b.whom} = {q.initiator, q.recipient}

(* The unique indexes of the two tables, checked as the rows go in.        *)
FitsIndexes(q) ==
    /\ ~KeyTaken(q.initiator, q.key)
    /\ message[q.initiator][q.key] = NULL
    /\ q.mode = "realtime" => LiveBetween(q.initiator, q.recipient) = {}

(* Bug: the opening message is inserted ON CONFLICT DO NOTHING.            *)
InsertIgnoringDuplicates(r) ==
    LET q == creation[r] IN
    /\ q.step = "admitted"
    /\ ~KeyTaken(q.initiator, q.key)
    /\ q.mode = "realtime" => LiveBetween(q.initiator, q.recipient) = {}
    /\ Used # Convs
    /\ conv' = [conv EXCEPT ![Fresh] = Opened(q)]
    /\ message' = [message EXCEPT ![q.initiator][q.key] = IF @ = NULL THEN Fresh ELSE @]
    /\ consent' = [consent EXCEPT ![Fresh] = IF q.mode = "realtime" THEN {q.initiator} ELSE {}]
    /\ crossed' = IF BlockUnderWay(q) THEN crossed \cup {Fresh} ELSE crossed
    /\ Done(r)
    /\ UNCHANGED <<blocked, blocking>>

InsertConversation(r) ==
    LET q == creation[r] IN
    /\ q.step = "admitted"
    /\ FitsIndexes(q)
    /\ Used # Convs
    /\ conv' = [conv EXCEPT ![Fresh] = Opened(q)]
    /\ message' = [message EXCEPT ![q.initiator][q.key] = Fresh]
    /\ consent' = [consent EXCEPT ![Fresh] = IF q.mode = "realtime" THEN {q.initiator} ELSE {}]
    /\ crossed' = IF BlockUnderWay(q) THEN crossed \cup {Fresh} ELSE crossed
    /\ Done(r)
    /\ UNCHANGED <<blocked, blocking>>

(* Refused, timed out, or cut off: nothing was committed.                  *)
AbortCreate(r) ==
    /\ creation[r].step # "idle"
    /\ Done(r)
    /\ UNCHANGED <<conv, message, blocked, blocking, consent, crossed>>

------------------------------------------------------------------------------
(* The handshake and the end of it                                         *)

(* Bug: either side may answer.                                            *)
AnswerForEither(u, c, decision) ==
    /\ MayWorkOn(u, c) /\ Free(c)
    /\ Realtime(c) /\ conv[c].state = "syn_sent"
    /\ ~IsBlocked(c)
    /\ conv' = [conv EXCEPT ![c].state = IF decision = "accept" THEN "syn_ack" ELSE "declined"]
    /\ consent' = [consent EXCEPT ![c] = IF decision = "accept" THEN @ \cup {u} ELSE @]
    /\ UNCHANGED <<message, blocked, creation, blocking, crossed>>

(* Bug: the blocks are looked at when the conversation is made only.       *)
AnswerAcrossBlock(u, c, decision) ==
    /\ MayWorkOn(u, c) /\ Free(c)
    /\ Realtime(c) /\ conv[c].state = "syn_sent"
    /\ conv[c].recipient = u
    /\ conv' = [conv EXCEPT ![c].state = IF decision = "accept" THEN "syn_ack" ELSE "declined"]
    /\ consent' = [consent EXCEPT ![c] = IF decision = "accept" THEN @ \cup {u} ELSE @]
    /\ UNCHANGED <<message, blocked, creation, blocking, crossed>>

MayAnswer(u, c) ==
    /\ MayWorkOn(u, c)
    /\ Realtime(c) /\ conv[c].state = "syn_sent"
    /\ conv[c].recipient = u
    /\ ~IsBlocked(c)

AnswerRequest(u, c, decision) ==
    /\ MayAnswer(u, c) /\ Free(c)
    /\ conv' = [conv EXCEPT ![c].state = IF decision = "accept" THEN "syn_ack" ELSE "declined"]
    /\ consent' = [consent EXCEPT ![c] = IF decision = "accept" THEN @ \cup {u} ELSE @]
    /\ UNCHANGED <<message, blocked, creation, blocking, crossed>>

(* No look at the blocks: a block has closed the conversation.             *)
MayAcknowledge(u, c) ==
    /\ MayWorkOn(u, c)
    /\ Realtime(c) /\ conv[c].state = "syn_ack"
    /\ conv[c].initiator = u

Acknowledge(u, c) ==
    /\ MayAcknowledge(u, c) /\ Free(c)
    /\ conv' = [conv EXCEPT ![c] = Activated(@)]
    /\ UNCHANGED <<message, blocked, creation, blocking, consent, crossed>>

MayClose(u, c) ==
    /\ MayWorkOn(u, c)
    /\ Live(c)
    /\ conv[c].state = "syn_sent" => conv[c].initiator = u

Close(u, c) ==
    /\ MayClose(u, c) /\ Free(c)
    /\ conv' = [conv EXCEPT ![c].state = IF @ = "syn_sent" THEN "cancelled" ELSE "closed"]
    /\ UNCHANGED <<message, blocked, creation, blocking, consent, crossed>>

(* block_user inserts the block, unless there is one, and with the second  *)
(* statement locks every live conversation of the two that it sees.  Both  *)
(* wait for another block that is in the way.                              *)
BeginBlock(u, v) ==
    /\ u # v
    /\ \A b \in blocking : <<b.by, b.whom>> = <<u, v>> => ~b.inserts
    /\ \A c \in LiveBetween(u, v) : Free(c)
    /\ blocking' = blocking \cup {[by |-> u, whom |-> v, rows |-> LiveBetween(u, v),
                                  inserts |-> <<u, v>> \notin blocked]}
    /\ UNCHANGED <<conv, message, blocked, creation, consent, crossed>>

(* It commits.  The advisory lock of the pair is not among its locks, and  *)
(* what was inserted since stays open.  A block that was there before may  *)
(* have been lifted since, and is not put back.                            *)
EndBlock(b) ==
    /\ blocked' = IF b.inserts THEN blocked \cup {<<b.by, b.whom>>} ELSE blocked
    /\ conv' = [c \in Convs |-> IF c \in b.rows
                                THEN [conv[c] EXCEPT !.state = "closed", !.due = FALSE]
                                ELSE conv[c]]
    /\ blocking' = blocking \ {b}
    /\ UNCHANGED <<message, creation, consent, crossed>>

AbortBlock(b) ==
    /\ blocking' = blocking \ {b}
    /\ UNCHANGED <<conv, message, blocked, creation, consent, crossed>>

Unblock(u, v) ==
    /\ <<u, v>> \in blocked
    /\ blocked' = blocked \ {<<u, v>>}
    /\ UNCHANGED <<conv, message, creation, blocking, consent, crossed>>

DeadlinePasses(c) ==
    /\ c \in Used /\ Live(c) /\ ~conv[c].due
    /\ conv' = [conv EXCEPT ![c].due = TRUE]
    /\ UNCHANGED <<message, blocked, creation, blocking, consent, crossed>>

(* The worker, every thirty seconds: all that is overdue, in one statement.*)
Overdue == {c \in Used : Live(c) /\ conv[c].due}
ExpireStale ==
    /\ Overdue # {} /\ \A c \in Overdue : Free(c)
    /\ conv' = [c \in Convs |-> IF c \in Overdue
                                THEN [conv[c] EXCEPT !.state = "expired", !.due = FALSE]
                                ELSE conv[c]]
    /\ UNCHANGED <<message, blocked, creation, blocking, consent, crossed>>

------------------------------------------------------------------------------
(* Writing in one                                                          *)

MayWrite(u, c) ==
    /\ MayWorkOn(u, c)
    /\ ~IsBlocked(c)
    /\ \/ conv[c].state \in {"open", "active"}
       \/ conv[c].state = "syn_ack" /\ conv[c].initiator = u

(* The first message of whoever asked confirms the connection.  A message  *)
(* that was stored before is returned, from whichever conversation it is   *)
(* in; the confirmation is committed all the same.                         *)
SendMessage(u, c, k) ==
    /\ MayWrite(u, c) /\ Free(c)
    /\ message[u][k] = NULL \/ conv[c].state = "syn_ack"
    /\ message' = [message EXCEPT ![u][k] = IF @ = NULL THEN c ELSE @]
    /\ conv' = [conv EXCEPT ![c] = IF Realtime(c) THEN Activated(@) ELSE @]
    /\ UNCHANGED <<blocked, creation, blocking, consent, crossed>>

(* An interaction of the two avatars is a message that is allowed in an    *)
(* active conversation only; the recipient's policy and the rate limit may *)
(* refuse it.                                                              *)
SendAvatarInteraction(u, c, k) ==
    /\ MayWorkOn(u, c) /\ Free(c)
    /\ ~IsBlocked(c)
    /\ conv[c].state = "active"
    /\ message[u][k] = NULL
    /\ message' = [message EXCEPT ![u][k] = c]
    /\ conv' = [conv EXCEPT ![c].due = FALSE]
    /\ UNCHANGED <<blocked, creation, blocking, consent, crossed>>

------------------------------------------------------------------------------
(* What get_conversation tells a participant that he can do.               *)
CanRespond(u, c) ==
    ~IsBlocked(c) /\ Realtime(c) /\ conv[c].state = "syn_sent" /\ conv[c].initiator # u
CanAck(u, c) ==
    ~IsBlocked(c) /\ Realtime(c) /\ conv[c].state = "syn_ack" /\ conv[c].initiator = u
CanSend(u, c) ==
    /\ ~IsBlocked(c)
    /\ IF Realtime(c) THEN conv[c].state = "active" \/ (conv[c].state = "syn_ack" /\ conv[c].initiator = u)
       ELSE conv[c].state = "open"
CanClose(u, c) == ~IsBlocked(c) /\ Live(c)

------------------------------------------------------------------------------
Create(r) ==
    \/ \E u, v \in Members, k \in ChatKeys, mode \in {"realtime", "mail"} : BeginCreate(r, u, v, k, mode)
    \/ \E c \in Convs : MeetExisting(r, c)
    \/ \E settings \in Settings : Admit(r, settings)
    \/ InsertConversation(r)
    \/ AbortCreate(r)

ChatNext ==
    \/ \E r \in Creators : Create(r)
    \/ \E u \in Members, c \in Convs :
          \/ \E d \in {"accept", "decline"} : AnswerRequest(u, c, d)
          \/ Acknowledge(u, c)
          \/ Close(u, c)
          \/ \E k \in ChatKeys : SendMessage(u, c, k) \/ SendAvatarInteraction(u, c, k)
    \/ \E u, v \in Members : BeginBlock(u, v) \/ Unblock(u, v)
    \/ \E b \in blocking : EndBlock(b) \/ AbortBlock(b)
    \/ \E c \in Convs : DeadlinePasses(c)
    \/ ExpireStale

ChatSpec == ChatInit /\ [][ChatNext]_chatVars
------------------------------------------------------------------------------
(* Properties                                                              *)

PhaseIn(mode, state) ==
    IF mode # "realtime" THEN mode
    ELSE CASE state = "syn_sent"  -> "offered"
           [] state = "syn_ack"   -> "answered"
           [] state = "active"    -> "connected"
           [] OTHER               -> "ended"

PhaseOf(c) == PhaseIn(conv[c].mode, conv[c].state)

H == INSTANCE Handshake WITH Users <- Members, phase <- [c \in Convs |-> PhaseOf(c)]

(* Rows, keys, blocks, deadlines and requests in progress are a way to do  *)
(* what Handshake says: nobody is connected unless both have agreed, each  *)
(* by an act of his own, and an ended conversation does not come back.     *)
ImplementsHandshake == H!Spec

(* acknowledge does not look at the blocks (chat_conversation.rs:2463).    *)
(* It need not: what has been answered belongs to a pair that is not       *)
(* blocked, since respond looked and a block ends all that it finds -      *)
(* unless the conversation was made while a block was on its way.          *)
AnsweredIsNotBlocked == \A c \in Used \ crossed : conv[c].state = "syn_ack" => ~IsBlocked(c)

(* lock_realtime_pair turns concurrent duplicates into a lookup instead of *)
(* a constraint error (chat_conversation.rs:3425): who holds the lock and  *)
(* found nothing never meets the unique index of live pairs.               *)
LockSparesIndex ==
    \A r \in Creators : creation[r].step = "admitted" /\ creation[r].mode = "realtime"
        => LiveBetween(creation[r].initiator, creation[r].recipient) = {}

(* What a participant is told that he can do is written apart from what    *)
(* the handlers check (chat_conversation.rs:2326 and :2398, :2463, :2555). *)
(* The two agree, until a deadline passes: the acknowledgement, which only *)
(* the one looks at the blocks for, included, except where a block has     *)
(* missed the conversation.                                                *)
OffersAreAccurate ==
    \A c \in Used : ~conv[c].due => \A u \in Participants(c) :
        /\ CanRespond(u, c) <=> MayAnswer(u, c)
        /\ CanAck(u, c) => MayAcknowledge(u, c)
        /\ MayAcknowledge(u, c) => CanAck(u, c) \/ c \in crossed
        /\ CanSend(u, c) <=> MayWrite(u, c)

(* One id is the key of a request and of its opening message, and either   *)
(* table has an index of its own.  A conversation that a key made is the   *)
(* one that its message is in, whatever else the key was used for.         *)
KeyMeansOneConversation ==
    \A c \in Used : message[conv[c].initiator][conv[c].key] = c

(* "After a block the two can no longer open a conversation"               *)
(* (docs/api-reference.md:737).                                            *)
BlockedPairIsNotLive == \A c \in Used : Live(c) => ~IsBlocked(c)

(* Nor is this so: the conversation that was inserted after a block looked *)
(* for some and answered before it committed stays answered, and the       *)
(* acknowledgement connects the two across the block.                      *)
BlockedPairIsNotAnswered == \A c \in Used : conv[c].state = "syn_ack" => ~IsBlocked(c)

(* "capabilities tells the client whether the current user may respond,    *)
(* ack, send, close ..." (docs/api-reference.md:490).  Whoever is asked is *)
(* told that he can close the request, and then may not.                   *)
CloseIsAccurate ==
    \A c \in Used : ~conv[c].due => \A u \in Participants(c) : CanClose(u, c) => MayClose(u, c)
==============================================================================
