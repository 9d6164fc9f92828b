------------------------------- MODULE Messages -------------------------------
(***************************************************************************)
(* What two people do inside one realtime conversation                     *)
(* (services/chat_conversation.rs): messages and avatar interactions,      *)
(* marks on them, and the relationship space that shows it all page by     *)
(* page.                                                                   *)
(*                                                                         *)
(* A row's time is NOW(), which is when its transaction began; the         *)
(* transaction then waits for the lock on the conversation.  Rows of later *)
(* times may thus be committed before it, and everything that compares     *)
(* times - the limits of interactions, the pages - has to live with that.  *)
(* A request is begun (Begin), takes the lock (TakeLine) and ends          *)
(* (SendText, SendInteraction or GiveUp).  Marks take no lock: they look   *)
(* first (BeginMark) and write later (FinishMark).                         *)
(*                                                                         *)
(* How the conversation came to be, and its deadlines, are the subject of  *)
(* Conversations.  Texts, media, quotes and broadcasts are left out.       *)
(***************************************************************************)
EXTENDS Integers, Sequences, FiniteSets

CONSTANTS Talkers,    \* the two
          Sendings,   \* requests to send something
          LineKeys,   \* client_message_id and client_interaction_id
          Policies,   \* what a recipient may say of interactions
          Cooldown, WindowLength, WindowLimit, \* of interactions
          EditLimit,  \* how long a text may be edited
          PageSize,
          MaxTime, MaxRows, \* bounds of the model
          Blank

ASSUME PoliciesAssumption == {"reject", "receive_only"} \subseteq Policies
ASSUME PacesAssumption ==
    /\ {Cooldown, WindowLength, WindowLimit, PageSize} \subseteq Nat \ {0}
    /\ {EditLimit, MaxTime} \subseteq Nat

VARIABLES clock,
          line,      \* the row of the conversation, and who bars whom
          history,   \* chat_conversation_events and chat_messages, in order of commit
          policy,    \* avatar_interaction_preferences and ..._contact_overrides
          sending,   \* requests in progress
          marking,   \* marks in progress
          walk       \* a reader of the relationship space

lineVars == <<clock, line, history, policy, sending, marking, walk>>

Kinds == {"event", "opening", "message", "avatar_interaction"}
Marks == {"react", "unreact", "pin", "unpin", "hide", "report"}
NoSending == [step |-> "idle", kind |-> "message", by |-> Blank, key |-> Blank, at |-> 0, policy |-> Blank]
NoMark == [what |-> Blank, row |-> 0]
NoWalk == [step |-> "idle", by |-> Blank, cursor |-> 0, shown |-> <<>>, owed |-> {}]

Row(kind, by, key, at, dance) ==
    [kind |-> kind, by |-> by, key |-> key, at |-> at, dance |-> dance, edited |-> FALSE,
     ack |-> {}, reacted |-> {}, pinned |-> {}, hidden |-> {}, reported |-> {}]

LineTypeOK ==
    /\ clock \in 0..MaxTime
    /\ line \in [state : {"syn_ack", "active", "closed"}, initiator : Talkers,
                 barred : SUBSET Talkers, archived : SUBSET Talkers]
    /\ history \in Seq([kind : Kinds, by : Talkers, key : LineKeys \cup {Blank}, at : 0..MaxTime,
                        dance : Policies \cup {Blank}, edited : BOOLEAN, ack : SUBSET Talkers,
                        reacted : SUBSET Talkers, pinned : SUBSET Talkers,
                        hidden : SUBSET Talkers, reported : SUBSET Talkers])
    /\ policy \in [Talkers -> [general : Policies, contact : Policies \cup {"inherit"}]]
    /\ sending \in [Sendings -> [step : {"idle", "begun", "locked"},
                                 kind : {"message", "avatar_interaction"},
                                 by : Talkers \cup {Blank}, key : LineKeys \cup {Blank},
                                 at : 0..MaxTime, policy : Policies \cup {Blank}]]
    /\ marking \in [Talkers -> [what : Marks \cup {Blank}, row : 0..MaxRows]]
    /\ walk.step \in {"idle", "reading", "done"} /\ walk.owed \subseteq 1..MaxRows

(* One INSERT of the creation gives its event and its opening message the  *)
(* same time.                                                              *)
LineInit ==
    /\ clock = 0
    /\ line \in [state : {"syn_ack", "active"}, initiator : Talkers, barred : {{}}, archived : {{}}]
    /\ history = <<Row("event", line.initiator, Blank, 0, Blank),
                   Row("opening", line.initiator, Blank, 0, Blank)>>
    /\ policy = [u \in Talkers |-> [general |-> "receive_only", contact |-> "inherit"]]
    /\ sending = [r \in Sendings |-> NoSending]
    /\ marking = [u \in Talkers |-> NoMark]
    /\ walk = NoWalk

------------------------------------------------------------------------------
Rows == DOMAIN history
Peer(u) == CHOOSE v \in Talkers : v # u
IsBarred == line.barred # {}
LineIsFree == \A r \in Sendings : sending[r].step # "locked"
KeyIsUsed(u, k) == \E i \in Rows : history[i].by = u /\ history[i].key = k
Interactions(u) == {i \in Rows : history[i].kind = "avatar_interaction" /\ history[i].by = u}

SeenBy(u, i) == u \notin history[i].hidden
HasRoom(n) == Len(history) + n <= MaxRows

------------------------------------------------------------------------------
(* Sending                                                                 *)

Begin(r, u, k, kind) ==
    /\ sending[r].step = "idle"
    /\ sending' = [sending EXCEPT ![r] = [step |-> "begun", kind |-> kind, by |-> u, key |-> k,
                                          at |-> clock, policy |-> Blank]]
    /\ UNCHANGED <<clock, line, history, policy, marking, walk>>

(* Refused, answered with what was stored before, or cut off.              *)
GiveUp(r) ==
    /\ sending[r].step # "idle"
    /\ sending' = [sending EXCEPT ![r] = NoSending]
    /\ UNCHANGED <<clock, line, history, policy, marking, walk>>

MaySend(u) == ~IsBarred /\ (line.state = "active" \/ (line.state = "syn_ack" /\ line.initiator = u))

(* The first message of whoever asked confirms the connection, with an     *)
(* event of the same time.                                                 *)
SendText(r) ==
    LET q == sending[r]
        confirms == line.state = "syn_ack"
    IN
    /\ q.step = "begun" /\ q.kind = "message"
    /\ LineIsFree
    /\ MaySend(q.by)
    /\ ~KeyIsUsed(q.by, q.key)
    /\ HasRoom(IF confirms THEN 2 ELSE 1)
    /\ line' = [line EXCEPT !.state = "active"]
    /\ history' = history \o (IF confirms THEN <<Row("event", q.by, Blank, q.at, Blank)>> ELSE <<>>)
                          \o <<Row("message", q.by, q.key, q.at, Blank)>>
    /\ sending' = [sending EXCEPT ![r] = NoSending]
    /\ UNCHANGED <<clock, policy, marking, walk>>

(* An interaction finds the conversation active and its key unused, and    *)
(* reads the first of the recipient's two settings.                        *)
TakeLine(r) ==
    LET q == sending[r] IN
    /\ q.step = "begun" /\ q.kind = "avatar_interaction"
    /\ LineIsFree
    /\ ~IsBarred /\ line.state = "active"
    /\ ~KeyIsUsed(q.by, q.key)
    /\ sending' = [sending EXCEPT ![r].step = "locked", ![r].policy = policy[Peer(q.by)].general]
    /\ UNCHANGED <<clock, line, history, policy, marking, walk>>

(* Bug: between then and now.                                              *)
CooledBetween(u, at) == \A i \in Interactions(u) : history[i].at \notin (at - Cooldown + 1)..at

(* Rows of a later time count as well: they were committed first.          *)
Cooled(u, at) == \A i \in Interactions(u) : history[i].at <= at - Cooldown
BelowLimit(u, at) == Cardinality({i \in Interactions(u) : history[i].at > at - WindowLength}) < WindowLimit

Effective(general, contact) == IF contact = "inherit" THEN general ELSE contact

SendInteraction(r) ==
    LET q == sending[r]
        dance == Effective(q.policy, policy[Peer(q.by)].contact)
    IN
    /\ q.step = "locked"
    /\ dance # "reject"
    /\ Cooled(q.by, q.at) /\ BelowLimit(q.by, q.at)
    /\ HasRoom(1)
    /\ history' = Append(history, Row("avatar_interaction", q.by, q.key, q.at, dance))
    /\ sending' = [sending EXCEPT ![r] = NoSending]
    /\ UNCHANGED <<clock, line, policy, marking, walk>>

(* Only the word on one contact may leave the general one as it is.        *)
MayState(field, value) == value = "inherit" => field = "contact"

(* Removing the override of a contact leaves what is stored for all.       *)
SetPolicy(u, field, value) ==
    /\ MayState(field, value)
    /\ policy[u][field] # value
    /\ policy' = [policy EXCEPT ![u][field] = value]
    /\ UNCHANGED <<clock, line, history, sending, marking, walk>>

------------------------------------------------------------------------------
(* Changing what was sent                                                  *)

Change(i, row) == history' = [history EXCEPT ![i] = row]

EditMessage(u, i) ==
    /\ LineIsFree
    /\ history[i].by = u /\ history[i].kind = "message"
    /\ line.state = "active"
    /\ clock - history[i].at <= EditLimit
    /\ Change(i, [history[i] EXCEPT !.edited = TRUE])
    /\ UNCHANGED <<clock, line, policy, sending, marking, walk>>

(* load_acknowledgement_target, for giving one and for taking it back.     *)
Acknowledgeable(u, i) ==
    /\ LineIsFree
    /\ SeenBy(u, i)
    /\ history[i].kind \in {"opening", "message"}
    /\ history[i].by = Peer(u)
    /\ ~IsBarred

SetAcknowledgement(u, i) ==
    /\ Acknowledgeable(u, i)
    /\ Change(i, [history[i] EXCEPT !.ack = @ \cup {u}])
    /\ UNCHANGED <<clock, line, policy, sending, marking, walk>>

DeleteAcknowledgement(u, i) ==
    /\ Acknowledgeable(u, i)
    /\ Change(i, [history[i] EXCEPT !.ack = @ \ {u}])
    /\ UNCHANGED <<clock, line, policy, sending, marking, walk>>

(* An interaction cannot be pinned; a block stops pins and reactions, but   *)
(* not their removal.                                                      *)
MayMark(i, what) ==
    /\ what \in {"pin", "unpin"} => history[i].kind # "avatar_interaction"
    /\ what \in {"pin", "react"} => ~IsBarred

BeginMark(u, i, what) ==
    /\ marking[u] = NoMark
    /\ history[i].kind # "event"
    /\ SeenBy(u, i)
    /\ MayMark(i, what)
    /\ marking' = [marking EXCEPT ![u] = [what |-> what, row |-> i]]
    /\ UNCHANGED <<clock, line, history, policy, sending, walk>>

(* Every mark is a row of its own under (message, user).  A report opens   *)
(* its case in the same transaction.                                       *)
Marked(row, u, what) ==
    CASE what = "react"   -> [row EXCEPT !.reacted = @ \cup {u}]
      [] what = "unreact" -> [row EXCEPT !.reacted = @ \ {u}]
      [] what = "pin"     -> [row EXCEPT !.pinned = @ \cup {u}]
      [] what = "unpin"   -> [row EXCEPT !.pinned = @ \ {u}]
      [] what = "hide"    -> [row EXCEPT !.hidden = @ \cup {u}]
      [] what = "report"  -> [row EXCEPT !.reported = @ \cup {u}]

FinishMark(u) ==
    LET m == marking[u] IN
    /\ m # NoMark
    /\ Change(m.row, Marked(history[m.row], u, m.what))
    /\ marking' = [marking EXCEPT ![u] = NoMark]
    /\ UNCHANGED <<clock, line, policy, sending, walk>>

------------------------------------------------------------------------------
(* Around it                                                               *)

Closed(l) == [l EXCEPT !.state = "closed"]
Ending(u) == history' = Append(history, Row("event", u, Blank, clock, Blank))

CloseLine(u) ==
    /\ LineIsFree
    /\ line.state # "closed" /\ HasRoom(1)
    /\ line' = Closed(line)
    /\ Ending(u)
    /\ UNCHANGED <<clock, policy, sending, marking, walk>>

(* A block waits for the row of a live conversation, to close it.          *)
BarPeer(u) ==
    /\ line.state # "closed" => LineIsFree /\ HasRoom(1)
    /\ line' = [Closed(line) EXCEPT !.barred = @ \cup {u}]
    /\ IF line.state # "closed" THEN Ending(u) ELSE UNCHANGED history
    /\ UNCHANGED <<clock, policy, sending, marking, walk>>

Unbar(u) ==
    /\ u \in line.barred
    /\ line' = [line EXCEPT !.barred = @ \ {u}]
    /\ UNCHANGED <<clock, history, policy, sending, marking, walk>>

SetArchived(u) ==
    /\ \/ line' = [line EXCEPT !.archived = @ \cup {u}]
       \/ line' = [line EXCEPT !.archived = @ \ {u}]
    /\ UNCHANGED <<clock, history, policy, sending, marking, walk>>

Tick ==
    /\ clock < MaxTime
    /\ clock' = clock + 1
    /\ UNCHANGED <<line, history, policy, sending, marking, walk>>

------------------------------------------------------------------------------
(* The relationship space, newest first                                    *)

(* ORDER BY occurred_at DESC, source_type DESC, source_id DESC.  Positions *)
(* in history stand for the ids, which grow within each of the two tables. *)
Source(i) == IF history[i].kind = "event" THEN 0 ELSE 1
Precedes(i, j) ==
    \/ history[i].at > history[j].at
    \/ history[i].at = history[j].at /\ Source(i) > Source(j)
    \/ history[i].at = history[j].at /\ Source(i) = Source(j) /\ i > j

(* Bug: a cursor that holds the time only.                                 *)
AfterTime(cursor, i) == cursor = 0 \/ history[i].at < history[cursor].at

AfterCursor(cursor, i) == cursor = 0 \/ Precedes(cursor, i)

Shown(u) == {i \in Rows : SeenBy(u, i)}

StartWalk(u) ==
    /\ walk.step # "reading"
    /\ walk' = [step |-> "reading", by |-> u, cursor |-> 0, shown |-> <<>>, owed |-> Shown(u)]
    /\ UNCHANGED <<clock, line, history, policy, sending, marking>>

(* LIMIT, and the last row within it.  One row more is asked for, to know  *)
(* whether there is another page.                                          *)
Before(S, i) == {j \in S : Precedes(j, i)}
FirstOf(S) == {i \in S : Cardinality(Before(S, i)) < PageSize}
LastOf(S) == CHOOSE i \in S : \A j \in S \ {i} : Precedes(j, i)

(* Nobody sees the space of a conversation that he has archived.           *)
ReadPage ==
    LET rest == {i \in Shown(walk.by) : AfterCursor(walk.cursor, i)}
        hasMore == Cardinality(rest) > PageSize
        page == IF hasMore THEN FirstOf(rest) ELSE rest
    IN
    /\ walk.step = "reading"
    /\ walk' = IF walk.by \in line.archived THEN NoWalk
               ELSE [walk EXCEPT !.step = IF hasMore THEN "reading" ELSE "done",
                                 !.cursor = IF hasMore THEN LastOf(page) ELSE 0,
                                 !.shown = Append(@, page)]
    /\ UNCHANGED <<clock, line, history, policy, sending, marking>>

------------------------------------------------------------------------------
Exchange ==
    \/ \E r \in Sendings :
          \/ \E u \in Talkers, k \in LineKeys : Begin(r, u, k, "message") \/ Begin(r, u, k, "avatar_interaction")
          \/ SendText(r) \/ TakeLine(r) \/ SendInteraction(r) \/ GiveUp(r)
    \/ Tick

PolicyNext ==
    \E u \in Talkers, field \in {"general", "contact"}, value \in Policies \cup {"inherit"} :
        SetPolicy(u, field, value)

Ends == \E u \in Talkers : CloseLine(u) \/ BarPeer(u) \/ Unbar(u)

MarkNext ==
    \E u \in Talkers :
        \/ \E i \in Rows : \/ EditMessage(u, i)
                           \/ SetAcknowledgement(u, i) \/ DeleteAcknowledgement(u, i)
                           \/ \E what \in Marks : BeginMark(u, i, what)
        \/ FinishMark(u)

Hiding == \E u \in Talkers : (\E i \in Rows : BeginMark(u, i, "hide")) \/ FinishMark(u)
WalkNext == (\E u \in Talkers : StartWalk(u) \/ SetArchived(u)) \/ ReadPage

LineNext == Exchange \/ PolicyNext \/ Ends \/ MarkNext \/ WalkNext

LineSpec == LineInit /\ [][LineNext]_lineVars
------------------------------------------------------------------------------
(* Properties                                                              *)

(* Whoever starts two interactions at once, or waits long for the lock, is *)
(* held to the cooldown and to the number in any window all the same       *)
(* (enforce_avatar_interaction_rate_limit, chat_conversation.rs:3503).     *)
InteractionsAreSpaced ==
    \A u \in Talkers : \A i \in Interactions(u) :
        /\ \A j \in Interactions(u) : i < j => history[j].at - history[i].at >= Cooldown
        /\ Cardinality({j \in Interactions(u) :
                history[j].at \in (history[i].at - WindowLength + 1)..history[i].at}) <= WindowLimit

(* A reader who follows next_cursor to the end has seen whatever was there *)
(* when he began and is not hidden since, and nothing twice or out of      *)
(* order - with rows of equal times, and with others that are committed    *)
(* or hidden between two pages (get_relationship_space,                    *)
(* chat_conversation.rs:1545).                                             *)
PagesAreComplete ==
    /\ walk.step = "done" =>
          \A i \in walk.owed : SeenBy(walk.by, i) => \E n \in DOMAIN walk.shown : i \in walk.shown[n]
    /\ \A m, n \in DOMAIN walk.shown : m < n =>
          \A i \in walk.shown[m], j \in walk.shown[n] : Precedes(i, j)

(* "The message is hidden from the current user's list"                    *)
(* (docs/api-reference.md:686).  The last message that the lists of        *)
(* conversations and threads show is picked among all of them.             *)
LastMessage == CHOOSE i \in Rows : Source(i) = 1 /\ \A j \in Rows \ {i} : Source(j) = 1 => Precedes(i, j)
HiddenIsNotPreviewed == \A u \in Talkers : SeenBy(u, LastMessage)

(* An acknowledgement outlives an edit of what it acknowledges.            *)
AcknowledgedStands == \A i \in Rows : history[i].ack # {} => ~history[i].edited
===============================================================================
