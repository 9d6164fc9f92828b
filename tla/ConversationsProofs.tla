------------------------ MODULE ConversationsProofs -------------------------
(***************************************************************************)
(* Proofs about direct conversations (Conversations): the pair's lock, the *)
(* keys of first messages and the blocks, what each side is offered, and   *)
(* that every step is one of the handshake.  At the end, what the proofs   *)
(* of all the dealings come to together.                                   *)
(***************************************************************************)
EXTENDS DealingsProofs

-----------------------------------------------------------------------------
(* The inductive invariant.                                                *)

ChatRow == [mode : {"none", "realtime", "mail"}, state : States,
        initiator : Members \cup {NULL}, recipient : Members \cup {NULL},
        key : ChatKeys \cup {NULL}, established : BOOLEAN, due : BOOLEAN]
Attempt == [step : {"idle", "checked", "admitted"}, initiator : Members \cup {NULL},
            recipient : Members \cup {NULL}, key : ChatKeys \cup {NULL},
            mode : {"none", "realtime", "mail"}]

\* What a row in use, and a request on its way, say of the two people.
Paired(r)  == /\ r.initiator \in Members /\ r.recipient \in Members
              /\ r.initiator # r.recipient /\ r.key \in ChatKeys
              /\ r.mode \in {"realtime", "mail"}

\* A block of the two has every live conversation of theirs that was there
\* before it among its rows.
BlockTransaction == [by : Members, whom : Members, rows : SUBSET Convs, inserts : BOOLEAN]
Captures(b) == /\ b.rows \subseteq LiveBetween(b.by, b.whom)
               /\ LiveBetween(b.by, b.whom) \subseteq b.rows \cup crossed

Holding(r) == creation[r].step = "admitted" /\ creation[r].mode = "realtime"
PairOf(q)  == {q.initiator, q.recipient}

ChatInv ==
    /\ ChatTypeOK
    /\ \A c \in Used : Paired(conv[c])
    /\ \A c \in Used : conv[c].mode = "mail" <=> conv[c].state = "open"
    /\ \A c \in Used : conv[c].state = "syn_sent" => consent[c] = {conv[c].initiator}
    /\ \A r \in Creators : creation[r].step # "idle" => Paired(creation[r])
    /\ \A r, s \in Creators :
          Holding(r) /\ Holding(s) /\ PairOf(creation[r]) = PairOf(creation[s]) => r = s
    /\ \A b \in blocking : Captures(b)
    /\ \A b, d \in blocking : b # d => b.rows \cap d.rows = {}
    /\ KeyMeansOneConversation
    /\ AnsweredIsNotBlocked
    /\ LockSparesIndex

LEMMA TypesAreRows ==
    ChatTypeOK <=> /\ conv \in [Convs -> ChatRow]
                   /\ message \in [Members -> [ChatKeys -> Convs \cup {NULL}]]
                   /\ blocked \in SUBSET (Members \X Members)
                   /\ creation \in [Creators -> Attempt]
                   /\ blocking \in SUBSET BlockTransaction
                   /\ consent \in [Convs -> SUBSET Members]
                   /\ crossed \in SUBSET Convs
BY DEF ChatTypeOK, ChatRow, Attempt, BlockTransaction

\* Rows go through their states, deadlines come and go, messages are stored
\* under keys that were free, requests end and blocks are set: as long as
\* nothing comes alive, no row is answered across a block, and no row goes
\* back to the beginning, the invariant stands.
SameOnes(c) ==
    /\ conv'[c].mode = conv[c].mode /\ conv'[c].key = conv[c].key
    /\ conv'[c].initiator = conv[c].initiator /\ conv'[c].recipient = conv[c].recipient

LEMMA RowsMove ==
    ASSUME ChatInv, ChatTypeOK', \A c \in Convs : SameOnes(c),
           \A c \in Used : Live(c)' => Live(c),
           \A c \in Used : conv'[c].mode = "mail" <=> conv'[c].state = "open",
           \A c \in Used : conv'[c].state = "syn_sent" =>
                              conv[c].state = "syn_sent" /\ consent'[c] = consent[c],
           \A c \in Used \ crossed : conv'[c].state = "syn_ack" => ~IsBlocked(c)',
           \A b \in blocking' : b \in blocking /\ \A c \in b.rows : Live(c)',
           crossed' = crossed,
           \A u \in Members, k \in ChatKeys :
              message[u][k] # NULL => message'[u][k] = message[u][k],
           \A r \in Creators : creation'[r] \in {creation[r], NoCreation}
    PROVE  ChatInv'
<1>1. Used' = Used
  BY DEF Used, SameOnes
<1>2. \A c \in Used : c \in Convs
  BY DEF Used
<1>3. \A c \in Used : Paired(conv[c])'
  BY <1>2 DEF ChatInv, Paired, SameOnes
<1>4. \A c \in Used : (conv[c].state = "syn_sent" => consent[c] = {conv[c].initiator})'
  BY <1>2 DEF ChatInv, SameOnes
<1>5. \A r \in Creators : creation'[r].step # "idle" => creation'[r] = creation[r]
  BY DEF NoCreation
<1>6. \A r \in Creators : (creation[r].step # "idle" => Paired(creation[r]))'
  BY <1>5 DEF ChatInv, Paired
<1>7. \A r \in Creators : Holding(r)' => Holding(r) /\ creation'[r] = creation[r]
  BY <1>5 DEF Holding
<1>8. \A r, s \in Creators :
         (Holding(r) /\ Holding(s) /\ PairOf(creation[r]) = PairOf(creation[s]))' => r = s
  <2> SUFFICES ASSUME NEW r \in Creators, NEW s \in Creators, Holding(r)', Holding(s)',
                      PairOf(creation'[r]) = PairOf(creation'[s])
               PROVE  r = s
    OBVIOUS
  <2>1. Holding(r) /\ Holding(s) /\ PairOf(creation[r]) = PairOf(creation[s])
    BY <1>7
  <2> QED
    BY <2>1 DEF ChatInv
<1>9. KeyMeansOneConversation'
  <2> SUFFICES ASSUME NEW c \in Used PROVE message'[conv'[c].initiator][conv'[c].key] = c
    BY <1>1 DEF KeyMeansOneConversation
  <2>1. conv[c].initiator \in Members /\ conv[c].key \in ChatKeys /\ c # NULL
    BY <1>2, NullIsNoId DEF ChatInv, Paired
  <2> QED
    BY <1>2, <2>1 DEF ChatInv, KeyMeansOneConversation, SameOnes
<1>10. AnsweredIsNotBlocked'
  BY <1>1 DEF AnsweredIsNotBlocked
<1>11. LockSparesIndex'
  <2> SUFFICES ASSUME NEW r \in Creators, Holding(r)'
               PROVE  LiveBetween(creation[r].initiator, creation[r].recipient)' = {}
    BY DEF LockSparesIndex, Holding
  <2>1. LiveBetween(creation[r].initiator, creation[r].recipient) = {} /\ creation'[r] = creation[r]
    BY <1>7 DEF ChatInv, LockSparesIndex, Holding
  <2> QED
    BY <1>1, <1>2, <2>1 DEF LiveBetween, Participants, SameOnes
<1>12. \A b \in blocking' : Captures(b)'
  <2> SUFFICES ASSUME NEW b \in blocking' PROVE Captures(b)'
    OBVIOUS
  <2>1. Captures(b) /\ \A c \in b.rows : Live(c)'
    BY DEF ChatInv
  <2>2. LiveBetween(b.by, b.whom)' \subseteq LiveBetween(b.by, b.whom)
    BY <1>1, <1>2 DEF LiveBetween, Participants, SameOnes
  <2>3. b.rows \subseteq LiveBetween(b.by, b.whom)'
    BY <1>1, <1>2, <2>1 DEF Captures, LiveBetween, Participants, SameOnes
  <2> QED
    BY <2>1, <2>2, <2>3 DEF Captures
<1>13. \A b, d \in blocking' : b # d => b.rows \cap d.rows = {}
  BY DEF ChatInv
<1> QED
  BY <1>1, <1>3, <1>4, <1>6, <1>8, <1>9, <1>10, <1>11, <1>12, <1>13 DEF ChatInv

LEMMA BlocksStay ==
    ASSUME NEW c \in Convs, conv'[c].initiator = conv[c].initiator,
           conv'[c].recipient = conv[c].recipient, blocked' = blocked
    PROVE  IsBlocked(c)' <=> IsBlocked(c)
BY DEF IsBlocked, PairIsBlocked

\* The row that a step makes of another, in state s.
Kept(row, new, s) ==
    /\ new \in ChatRow /\ new.state = s /\ new.mode = row.mode /\ new.key = row.key
    /\ new.initiator = row.initiator /\ new.recipient = row.recipient

LEMMA StatesChange ==
    ASSUME NEW row \in ChatRow, NEW s \in States PROVE Kept(row, [row EXCEPT !.state = s], s)
BY DEF Kept, ChatRow

LEMMA StatesEnd ==
    ASSUME NEW row \in ChatRow, NEW s \in States
    PROVE  Kept(row, [row EXCEPT !.state = s, !.due = FALSE], s)
BY DEF Kept, ChatRow

LEMMA DeadlinesChange ==
    ASSUME NEW row \in ChatRow, NEW b \in BOOLEAN
    PROVE  Kept(row, [row EXCEPT !.due = b], row.state)
BY DEF Kept, ChatRow

LEMMA ActivatedRow == ASSUME NEW row \in ChatRow PROVE Kept(row, Activated(row), "active")
BY DEF Kept, ChatRow, Activated, States

\* The same for one row, while the blocks are as they were.
LEMMA OneRowMoves ==
    ASSUME ChatInv, NEW c \in Used, NEW new, NEW s, Kept(conv[c], new, s),
           conv' = [conv EXCEPT ![c] = new],
           Realtime(c) /\ s \in LiveStates => Live(c),
           conv[c].mode = "mail" <=> s = "open",
           s = "syn_sent" => conv[c].state = "syn_sent" /\ consent'[c] = consent[c],
           s = "syn_ack" => conv[c].state = "syn_ack" \/ ~IsBlocked(c),
           Free(c) \/ (Realtime(c) /\ s \in LiveStates), UNCHANGED <<blocking, crossed>>,
           consent' \in [Convs -> SUBSET Members],
           \A d \in Convs \ {c} : consent'[d] = consent[d],
           message' \in [Members -> [ChatKeys -> Convs \cup {NULL}]],
           \A u \in Members, k \in ChatKeys :
              message[u][k] # NULL => message'[u][k] = message[u][k],
           creation' \in [Creators -> Attempt],
           \A r \in Creators : creation'[r] \in {creation[r], NoCreation},
           blocked' = blocked
    PROVE  ChatInv'
<1>1. /\ conv \in [Convs -> ChatRow] /\ c \in Convs /\ blocked \in SUBSET (Members \X Members)
      /\ blocking \in SUBSET BlockTransaction /\ crossed \in SUBSET Convs
  BY TypesAreRows DEF ChatInv, Used
<1>10. /\ new \in ChatRow /\ new.state = s /\ new.mode = conv[c].mode /\ new.key = conv[c].key
       /\ new.initiator = conv[c].initiator /\ new.recipient = conv[c].recipient
  BY DEF Kept
<1>2. conv' \in [Convs -> ChatRow] /\ conv'[c] = new /\ \A d \in Convs \ {c} : conv'[d] = conv[d]
  BY <1>1, <1>10
<1>3. ChatTypeOK'
  BY <1>1, <1>2 DEF ChatTypeOK, ChatRow, Attempt, BlockTransaction
<1>4. \A d \in Convs : SameOnes(d)
  BY <1>2, <1>10 DEF SameOnes
<1>5. \A d \in Used : d \in Convs
  BY DEF Used
<1>6. \A d \in Used : Live(d)' => Live(d)
  BY <1>2, <1>5, <1>10 DEF Live, Realtime
<1>7. \A d \in Used : conv'[d].mode = "mail" <=> conv'[d].state = "open"
  BY <1>2, <1>5, <1>10 DEF ChatInv
<1>8. \A d \in Used : conv'[d].state = "syn_sent" =>
                              conv[d].state = "syn_sent" /\ consent'[d] = consent[d]
  BY <1>2, <1>5, <1>10
<1>9. \A d \in Used \ crossed : conv'[d].state = "syn_ack" => ~IsBlocked(d)'
  <2>1. \A d \in Used : IsBlocked(d)' <=> IsBlocked(d)
    <3> SUFFICES ASSUME NEW d \in Used PROVE IsBlocked(d)' <=> IsBlocked(d)
      OBVIOUS
    <3>1. conv'[d].initiator = conv[d].initiator /\ conv'[d].recipient = conv[d].recipient
      BY <1>4, <1>5 DEF SameOnes
    <3> QED
      BY <1>5, <3>1, BlocksStay
  <2>2. \A d \in Used \ crossed : conv[d].state = "syn_ack" => ~IsBlocked(d)
    BY DEF ChatInv, AnsweredIsNotBlocked
  <2> QED
    BY <1>2, <1>5, <1>10, <2>1, <2>2
<1>11. \A b \in blocking' : b \in blocking /\ \A d \in b.rows : Live(d)'
  <2> SUFFICES ASSUME NEW b \in blocking, NEW d \in b.rows PROVE Live(d)'
    OBVIOUS
  <2>1. d \in Used /\ d \in Convs /\ Live(d)
    BY DEF ChatInv, Captures, LiveBetween, Used
  <2>2. CASE d # c
    BY <1>2, <2>1, <2>2 DEF Live, Realtime
  <2>3. CASE d = c
    <3>1. Realtime(c) /\ s \in LiveStates
      BY <2>3 DEF Free
    <3> QED
      BY <1>2, <1>10, <2>3, <3>1 DEF Live, Realtime
  <2> QED
    BY <2>2, <2>3
<1> QED
  BY <1>3, <1>4, <1>6, <1>7, <1>8, <1>9, <1>11, RowsMove

\* A step of the blocks only: nobody sees what has not been committed.
LEMMA BlocksBegin ==
    ASSUME ChatInv, ChatTypeOK', \A b \in blocking' : Captures(b),
           \A b, d \in blocking' : b # d => b.rows \cap d.rows = {},
           UNCHANGED <<conv, message, blocked, creation, consent, crossed>>
    PROVE  ChatInv'
<1>1. \A b \in blocking' : Captures(b)'
  BY DEF Captures, LiveBetween, Live, Realtime, Participants, Used
<1>2. Used' = Used
  BY DEF Used
<1>3. /\ \A c \in Used' : Paired(conv'[c])
      /\ \A c \in Used' : conv'[c].mode = "mail" <=> conv'[c].state = "open"
      /\ \A c \in Used' : conv'[c].state = "syn_sent" => consent'[c] = {conv'[c].initiator}
      /\ \A r \in Creators : creation'[r].step # "idle" => Paired(creation'[r])
  BY <1>2 DEF ChatInv
<1>4. \A r, s \in Creators :
          Holding(r)' /\ Holding(s)' /\ PairOf(creation'[r]) = PairOf(creation'[s]) => r = s
  BY DEF ChatInv, Holding
<1>5. KeyMeansOneConversation' /\ AnsweredIsNotBlocked'
  BY <1>2 DEF ChatInv, KeyMeansOneConversation, AnsweredIsNotBlocked, IsBlocked, PairIsBlocked
<1>6. LockSparesIndex'
  BY DEF ChatInv, LockSparesIndex, LiveBetween, Live, Realtime, Participants, Used
<1> QED
  BY <1>1, <1>3, <1>4, <1>5, <1>6 DEF ChatInv

LEMMA BlockedRows ==
    ASSUME ChatInv, NEW b \in blocking
    PROVE  b.rows \in SUBSET Used /\ \A c \in b.rows : Live(c)
BY DEF ChatInv, Captures, LiveBetween

LEMMA UsedRows ==
    ASSUME ChatInv, NEW c \in Used
    PROVE  /\ c \in Convs /\ conv[c] \in ChatRow /\ Paired(conv[c])
           /\ conv[c].mode = "mail" <=> conv[c].state = "open"
BY TypesAreRows DEF ChatInv, Used

LEMMA AnswerIsSafe ==
    ASSUME ChatInv, NEW u \in Members, NEW c \in Convs, NEW decision, AnswerRequest(u, c, decision)
    PROVE  ChatInv'
<1> DEFINE s == IF decision = "accept" THEN "syn_ack" ELSE "declined"
           new == [conv[c] EXCEPT !.state = s]
<1>1. c \in Used /\ Realtime(c) /\ conv[c].state = "syn_sent" /\ ~IsBlocked(c) /\ Free(c)
  BY DEF AnswerRequest, MayAnswer, MayWorkOn
<1>2. s \in States /\ s \in {"syn_ack", "declined"}
  BY DEF States
<1>3. conv' = [conv EXCEPT ![c] = new]
      /\ UNCHANGED <<message, blocked, creation, blocking, crossed>>
      /\ consent' \in [Convs -> SUBSET Members]
      /\ \A d \in Convs \ {c} : consent'[d] = consent[d]
  BY TypesAreRows DEF AnswerRequest, ChatInv
<1> HIDE DEF s
<1>4. Kept(conv[c], new, s)
  BY <1>1, <1>2, UsedRows, StatesChange
<1> HIDE DEF new
<1> QED
  BY <1>1, <1>2, <1>3, <1>4, OneRowMoves, UsedRows, TypesAreRows
  DEF ChatInv, Live, LiveStates, Realtime

LEMMA AcknowledgeIsSafe ==
    ASSUME ChatInv, NEW u \in Members, NEW c \in Convs, Acknowledge(u, c)
    PROVE  ChatInv'
<1>1. c \in Used /\ Realtime(c) /\ conv[c].state = "syn_ack" /\ Free(c)
  BY DEF Acknowledge, MayAcknowledge, MayWorkOn
<1> DEFINE new == Activated(conv[c])
<1>2. conv' = [conv EXCEPT ![c] = new] /\ UNCHANGED <<message, blocked, creation, blocking, consent, crossed>>
  BY DEF Acknowledge
<1>3. Kept(conv[c], new, "active")
  BY <1>1, UsedRows, ActivatedRow
<1> HIDE DEF new
<1> QED
  BY <1>1, <1>2, <1>3, OneRowMoves, UsedRows, TypesAreRows
  DEF ChatInv, Live, LiveStates, Realtime

LEMMA CloseIsSafe ==
    ASSUME ChatInv, NEW u \in Members, NEW c \in Convs, Close(u, c)
    PROVE  ChatInv'
<1>1. c \in Used /\ Live(c) /\ Free(c)
  BY DEF Close, MayClose, MayWorkOn
<1> DEFINE s == IF conv[c].state = "syn_sent" THEN "cancelled" ELSE "closed"
           new == [conv[c] EXCEPT !.state = s]
<1>2. s \in States /\ s \in {"cancelled", "closed"}
  BY DEF States
<1>3. conv' = [conv EXCEPT ![c] = new] /\ UNCHANGED <<message, blocked, creation, blocking, consent, crossed>>
  BY DEF Close
<1> HIDE DEF s
<1>4. Kept(conv[c], new, s)
  BY <1>1, <1>2, UsedRows, StatesChange
<1> HIDE DEF new
<1> QED
  BY <1>1, <1>2, <1>3, <1>4, OneRowMoves, UsedRows, TypesAreRows
  DEF ChatInv, Live, LiveStates, Realtime

LEMMA DeadlineIsSafe ==
    ASSUME ChatInv, NEW c \in Convs, DeadlinePasses(c)
    PROVE  ChatInv'
<1>1. c \in Used /\ Live(c)
  BY DEF DeadlinePasses
<1> DEFINE new == [conv[c] EXCEPT !.due = TRUE]
<1>2. conv' = [conv EXCEPT ![c] = new] /\ UNCHANGED <<message, blocked, creation, blocking, consent, crossed>>
  BY DEF DeadlinePasses
<1>3. Kept(conv[c], new, conv[c].state)
  BY <1>1, UsedRows, DeadlinesChange
<1> HIDE DEF new
<1>4. Realtime(c) /\ conv[c].state \in LiveStates
  BY <1>1 DEF Live
<1> QED
  BY <1>1, <1>2, <1>3, <1>4, OneRowMoves, UsedRows, TypesAreRows DEF ChatInv

\* A message takes a key that was free; it may be all that was missing.
LEMMA StoringKeys ==
    ASSUME ChatInv, NEW u \in Members, NEW k \in ChatKeys, NEW c \in Convs,
           message' \in {message, [message EXCEPT ![u][k] = c]},
           message' # message => message[u][k] = NULL
    PROVE  /\ message' \in [Members -> [ChatKeys -> Convs \cup {NULL}]]
           /\ \A v \in Members, j \in ChatKeys :
                 message[v][j] # NULL => message'[v][j] = message[v][j]
<1>1. message \in [Members -> [ChatKeys -> Convs \cup {NULL}]]
  BY TypesAreRows DEF ChatInv
<1>2. CASE message' = message
  BY <1>1, <1>2
<1>3. CASE message' = [message EXCEPT ![u][k] = c] /\ message[u][k] = NULL
  BY <1>1, <1>3
<1> QED
  BY <1>2, <1>3

LEMMA SendIsSafe ==
    ASSUME ChatInv, NEW u \in Members, NEW c \in Convs, NEW k \in ChatKeys, SendMessage(u, c, k)
    PROVE  ChatInv'
<1>1. c \in Used /\ Free(c)
  BY DEF SendMessage, MayWrite, MayWorkOn
<1>2. message \in [Members -> [ChatKeys -> Convs \cup {NULL}]]
  BY TypesAreRows DEF ChatInv
<1>3. /\ message' \in {message, [message EXCEPT ![u][k] = c]}
      /\ message' # message => message[u][k] = NULL
      /\ UNCHANGED <<blocked, creation, blocking, consent, crossed>>
  BY <1>2 DEF SendMessage
<1>4. /\ message' \in [Members -> [ChatKeys -> Convs \cup {NULL}]]
      /\ \A v \in Members, j \in ChatKeys :
            message[v][j] # NULL => message'[v][j] = message[v][j]
  BY <1>3, StoringKeys
<1>5. CASE Realtime(c)
  <2> DEFINE new == Activated(conv[c])
  <2>1. conv' = [conv EXCEPT ![c] = new]
    BY <1>5 DEF SendMessage
  <2>2. conv[c].state \in {"active", "syn_ack"}
    BY <1>1, <1>5, UsedRows DEF SendMessage, MayWrite, Realtime
  <2>3. Kept(conv[c], new, "active")
    BY <1>1, UsedRows, ActivatedRow
  <2> HIDE DEF new
  <2> QED
    BY <1>1, <1>3, <1>4, <1>5, <2>1, <2>2, <2>3, OneRowMoves, UsedRows, TypesAreRows
    DEF ChatInv, Live, LiveStates, Realtime
<1>6. CASE ~Realtime(c)
  <2>1. conv' = [conv EXCEPT ![c] = conv[c]]
    BY <1>6 DEF SendMessage
  <2>2. Kept(conv[c], conv[c], conv[c].state)
    BY <1>1, UsedRows DEF Kept
  <2> QED
    BY <1>1, <1>3, <1>4, <1>6, <2>1, <2>2, OneRowMoves, UsedRows, TypesAreRows
    DEF ChatInv
<1> QED
  BY <1>5, <1>6

LEMMA InteractionIsSafe ==
    ASSUME ChatInv, NEW u \in Members, NEW c \in Convs, NEW k \in ChatKeys,
           SendAvatarInteraction(u, c, k)
    PROVE  ChatInv'
<1>1. c \in Used /\ conv[c].state = "active" /\ Free(c)
  BY DEF SendAvatarInteraction, MayWorkOn
<1>2. /\ message' \in {message, [message EXCEPT ![u][k] = c]}
      /\ message' # message => message[u][k] = NULL
      /\ UNCHANGED <<blocked, creation, blocking, consent, crossed>>
  BY DEF SendAvatarInteraction
<1>3. /\ message' \in [Members -> [ChatKeys -> Convs \cup {NULL}]]
      /\ \A v \in Members, j \in ChatKeys :
            message[v][j] # NULL => message'[v][j] = message[v][j]
  BY <1>2, StoringKeys
<1> DEFINE new == [conv[c] EXCEPT !.due = FALSE]
<1>4. conv' = [conv EXCEPT ![c] = new]
  BY DEF SendAvatarInteraction
<1>5. Kept(conv[c], new, conv[c].state)
  BY <1>1, UsedRows, DeadlinesChange
<1> HIDE DEF new
<1>6. Realtime(c) => Live(c)
  BY <1>1 DEF Live, LiveStates
<1> QED
  BY <1>1, <1>2, <1>3, <1>4, <1>5, <1>6, OneRowMoves, UsedRows, TypesAreRows
  DEF ChatInv

\* Several rows end at once: those of a pair that is blocked, or all that are
\* overdue.  No block that goes on has any of them.
LEMMA EndingIsSafe ==
    ASSUME ChatInv, NEW ended \in SUBSET Used, \A c \in ended : Live(c),
           NEW s \in {"closed", "expired"},
           conv' = [c \in Convs |-> IF c \in ended THEN [conv[c] EXCEPT !.state = s, !.due = FALSE]
                                    ELSE conv[c]],
           UNCHANGED <<message, creation, consent, crossed>>,
           blocked' \in SUBSET (Members \X Members), blocking' \in SUBSET blocking,
           \A b \in blocking' : b.rows \cap ended = {},
           \A c \in Used \ (ended \cup crossed) : conv[c].state = "syn_ack" => ~IsBlocked(c)'
    PROVE  ChatInv'
<1> DEFINE new(c) == [conv[c] EXCEPT !.state = s, !.due = FALSE]
<1>1. \A c \in ended : Kept(conv[c], new(c), s)
  BY UsedRows, StatesEnd DEF States
<1>2. conv' = [c \in Convs |-> IF c \in ended THEN new(c) ELSE conv[c]]
  OBVIOUS
<1> HIDE DEF new
<1>3. conv \in [Convs -> ChatRow] /\ \A c \in Used : c \in Convs
  BY TypesAreRows DEF ChatInv, Used
<1>4. conv' \in [Convs -> ChatRow]
  BY <1>1, <1>2, <1>3 DEF Kept
<1>5. ChatTypeOK'
  <2>1. /\ message \in [Members -> [ChatKeys -> Convs \cup {NULL}]]
        /\ creation \in [Creators -> Attempt] /\ blocking \in SUBSET BlockTransaction
        /\ consent \in [Convs -> SUBSET Members] /\ crossed \in SUBSET Convs
    BY TypesAreRows DEF ChatInv
  <2> QED
    BY <1>4, <2>1 DEF ChatTypeOK, ChatRow, Attempt, BlockTransaction
<1>6. \A c \in Convs \ ended : conv'[c] = conv[c]
  BY <1>2
<1>7. \A c \in ended : conv'[c] = new(c) /\ conv'[c].state = s /\ conv'[c].mode = conv[c].mode
  BY <1>1, <1>2, <1>3 DEF Kept
<1>8. \A c \in Convs : SameOnes(c)
  BY <1>1, <1>6, <1>7 DEF SameOnes, Kept
<1>9. \A c \in Used : Live(c)' => Live(c)
  BY <1>3, <1>6, <1>7 DEF Live, Realtime, LiveStates
<1>10. \A c \in Used : conv'[c].mode = "mail" <=> conv'[c].state = "open"
  <2>1. \A c \in ended : conv[c].mode = "realtime"
    BY DEF Live, Realtime
  <2> QED
    BY <1>3, <1>6, <1>7, <2>1, UsedRows
<1>11. \A c \in Used : conv'[c].state = "syn_sent" =>
                              conv[c].state = "syn_sent" /\ consent'[c] = consent[c]
  BY <1>3, <1>6, <1>7
<1>12. \A c \in Used \ crossed : conv'[c].state = "syn_ack" => ~IsBlocked(c)'
  BY <1>3, <1>6, <1>7
<1>13. \A b \in blocking' : b \in blocking /\ \A c \in b.rows : Live(c)'
  <2> SUFFICES ASSUME NEW b \in blocking', NEW c \in b.rows PROVE Live(c)'
    OBVIOUS
  <2>1. c \in Convs \ ended /\ Live(c)
    BY DEF ChatInv, Captures, LiveBetween, Used
  <2> QED
    BY <1>6, <2>1 DEF Live, Realtime
<1> QED
  BY <1>5, <1>8, <1>9, <1>10, <1>11, <1>12, <1>13, RowsMove

LEMMA ExpireIsSafe == ASSUME ChatInv, ExpireStale PROVE ChatInv'
<1>1. Overdue \in SUBSET Used /\ \A c \in Overdue : Live(c)
  BY DEF Overdue
<1>2. /\ conv' = [c \in Convs |-> IF c \in Overdue
                                THEN [conv[c] EXCEPT !.state = "expired", !.due = FALSE]
                                ELSE conv[c]]
      /\ UNCHANGED <<message, blocked, creation, blocking, consent, crossed>>
  BY DEF ExpireStale
<1>3. conv' \in [Convs -> ChatRow] /\ \A c \in Used : c \in Convs /\ SameOnes(c)
  <2>1. \A c \in Overdue : Kept(conv[c], [conv[c] EXCEPT !.state = "expired", !.due = FALSE], "expired")
    BY <1>1, UsedRows, StatesEnd DEF States
  <2>2. conv \in [Convs -> ChatRow]
    BY TypesAreRows DEF ChatInv
  <2>3. conv' \in [Convs -> ChatRow]
    BY <1>2, <2>1, <2>2 DEF Kept
  <2>4. \A c \in Used : c \in Convs
    BY DEF Used
  <2>5. \A c \in Convs : SameOnes(c)
    BY <1>2, <2>1 DEF Kept, SameOnes
  <2> QED
    BY <2>3, <2>4, <2>5
<1>4. \A c \in Used : IsBlocked(c)' <=> IsBlocked(c)
  BY <1>2, <1>3, BlocksStay DEF SameOnes
<1>5. \A c \in Used \ (Overdue \cup crossed) : conv[c].state = "syn_ack" => ~IsBlocked(c)'
  BY <1>4 DEF ChatInv, AnsweredIsNotBlocked
<1>6. blocked \in SUBSET (Members \X Members)
  BY DEF ChatInv, ChatTypeOK
<1>7. \A b \in blocking : b.rows \cap Overdue = {}
  BY DEF ExpireStale, Free
<1> QED
  BY <1>1, <1>2, <1>5, <1>6, <1>7, EndingIsSafe

\* A block that looks for conversations finds all there are.
LEMMA BeginBlockIsSafe ==
    ASSUME ChatInv, NEW u \in Members, NEW v \in Members, BeginBlock(u, v) PROVE ChatInv'
<1> DEFINE b == [by |-> u, whom |-> v, rows |-> LiveBetween(u, v), inserts |-> <<u, v>> \notin blocked]
<1>1. blocking' = blocking \cup {b} /\ UNCHANGED <<conv, message, blocked, creation, consent, crossed>>
  BY DEF BeginBlock
<1>2. b \in BlockTransaction
  BY DEF BlockTransaction, LiveBetween, Used
<1>3. Captures(b)
  BY DEF Captures
<1>4. \A d \in blocking : d.rows \cap b.rows = {}
  BY DEF BeginBlock, Free
<1> HIDE DEF b
<1>5. ChatTypeOK'
  BY <1>1, <1>2, TypesAreRows DEF ChatInv, ChatTypeOK, BlockTransaction
<1>6. \A d \in blocking' : Captures(d)
  BY <1>1, <1>3 DEF ChatInv
<1>7. \A d, e \in blocking' : d # e => d.rows \cap e.rows = {}
  BY <1>1, <1>4 DEF ChatInv
<1> QED
  BY <1>1, <1>5, <1>6, <1>7, BlocksBegin

\* What it does not end when it commits was inserted meanwhile.
LEMMA EndBlockIsSafe == ASSUME ChatInv, NEW b \in blocking, EndBlock(b) PROVE ChatInv'
<1>1. /\ b \in BlockTransaction /\ Captures(b) /\ blocked \in SUBSET (Members \X Members)
  BY TypesAreRows DEF ChatInv
<1> DEFINE u == b.by
           v == b.whom
           ended == b.rows
<1>2. ended \in SUBSET Used /\ \A c \in ended : Live(c)
  BY <1>1 DEF Captures, LiveBetween
<1>3. /\ conv' = [c \in Convs |-> IF c \in ended
                                THEN [conv[c] EXCEPT !.state = "closed", !.due = FALSE]
                                ELSE conv[c]]
      /\ UNCHANGED <<message, creation, consent, crossed>> /\ blocking' = blocking \ {b}
      /\ blocked' \in {blocked, blocked \cup {<<u, v>>}}
  BY DEF EndBlock
<1>4. ASSUME NEW c \in Used \ (ended \cup crossed), conv[c].state = "syn_ack" PROVE ~IsBlocked(c)'
  <2>1. c \in Convs /\ conv'[c] = conv[c] /\ ~IsBlocked(c)
    BY <1>3, <1>4 DEF ChatInv, AnsweredIsNotBlocked, Used
  <2>2. Live(c)
    BY <1>4, UsedRows DEF Live, LiveStates, Realtime, Paired
  <2>3. Participants(c) # {u, v}
    BY <1>1, <1>4, <2>2 DEF LiveBetween, Captures
  <2> DEFINE x == conv[c].initiator
             y == conv[c].recipient
  <2>4. {x, y} # {u, v} /\ <<x, y>> \notin blocked /\ <<y, x>> \notin blocked
    BY <2>1, <2>3 DEF IsBlocked, PairIsBlocked, Participants
  <2>5. IsBlocked(c)' <=> <<x, y>> \in blocked' \/ <<y, x>> \in blocked'
    BY <2>1 DEF IsBlocked, PairIsBlocked
  <2> HIDE DEF x, y
  <2>6. <<x, y>> # <<u, v>> /\ <<y, x>> # <<u, v>>
    BY <2>4
  <2> QED
    BY <1>3, <2>4, <2>5, <2>6
<1>5. blocked' \in SUBSET (Members \X Members)
  <2>1. <<u, v>> \in Members \X Members
    BY <1>1 DEF BlockTransaction
  <2> QED
    BY <1>1, <1>3, <2>1
<1>6. \A d \in blocking' : d.rows \cap ended = {}
  BY <1>3 DEF ChatInv
<1> HIDE DEF ended
<1> QED
  BY <1>2, <1>3, <1>4, <1>5, <1>6, EndingIsSafe

LEMMA AbortBlockIsSafe == ASSUME ChatInv, NEW b \in blocking, AbortBlock(b) PROVE ChatInv'
<1>1. blocking' \subseteq blocking /\ UNCHANGED <<conv, message, blocked, creation, consent, crossed>>
  BY DEF AbortBlock
<1>2. ChatTypeOK'
  BY <1>1 DEF ChatInv, ChatTypeOK
<1> QED
  BY <1>1, <1>2, BlocksBegin DEF ChatInv

LEMMA UnblockIsSafe ==
    ASSUME ChatInv, NEW u \in Members, NEW v \in Members, Unblock(u, v) PROVE ChatInv'
<1>1. /\ UNCHANGED <<conv, message, creation, blocking, consent, crossed>>
      /\ blocked' \subseteq blocked /\ blocked' \in SUBSET (Members \X Members)
  BY DEF Unblock, ChatInv, ChatTypeOK
<1>2. \A c \in Used : IsBlocked(c)' => IsBlocked(c)
  <2> SUFFICES ASSUME NEW c \in Used, IsBlocked(c)' PROVE IsBlocked(c)
    OBVIOUS
  <2>1. conv'[c] = conv[c]
    BY <1>1
  <2> QED
    BY <1>1, <2>1 DEF IsBlocked, PairIsBlocked
<1>3. ChatTypeOK' /\ \A c \in Convs : SameOnes(c)
  BY <1>1 DEF ChatInv, ChatTypeOK, SameOnes
<1>4. \A c \in Used \ crossed : conv'[c].state = "syn_ack" => ~IsBlocked(c)'
  BY <1>1, <1>2 DEF ChatInv, AnsweredIsNotBlocked
<1>5. \A b \in blocking : \A c \in b.rows : Live(c)'
  BY <1>1, BlockedRows DEF Live, Realtime
<1> QED
  BY <1>1, <1>3, <1>4, <1>5, UsedRows, RowsMove DEF Live, Realtime

\* Requests that end leave everything else as it was.
LEMMA DoneClears ==
    ASSUME ChatInv, NEW r \in Creators, Done(r)
    PROVE  /\ creation' \in [Creators -> Attempt]
           /\ \A s \in Creators : creation'[s] \in {creation[s], NoCreation}
           /\ creation'[r] = NoCreation /\ \A s \in Creators \ {r} : creation'[s] = creation[s]
<1>1. creation \in [Creators -> Attempt] /\ NoCreation \in Attempt
  BY TypesAreRows DEF ChatInv, Attempt, NoCreation
<1> QED
  BY <1>1 DEF Done

\* A request gets on its way, or further; of those that hold the lock of a
\* pair there is never another, and none has found a live conversation.
LEMMA RequestsMove ==
    ASSUME ChatInv, NEW r \in Creators, NEW new \in Attempt,
           creation' = [creation EXCEPT ![r] = new],
           new.step # "idle" => Paired(new),
           new.step = "admitted" /\ new.mode = "realtime" =>
              /\ ~PairIsLocked(new.initiator, new.recipient)
              /\ LiveBetween(new.initiator, new.recipient) = {},
           UNCHANGED <<conv, message, blocked, blocking, consent, crossed>>
    PROVE  ChatInv'
<1>1. creation \in [Creators -> Attempt]
  BY TypesAreRows DEF ChatInv
<1>2. /\ creation' \in [Creators -> Attempt] /\ creation'[r] = new
      /\ \A s \in Creators \ {r} : creation'[s] = creation[s]
  BY <1>1
<1>3. ChatTypeOK'
  BY <1>2 DEF ChatInv, ChatTypeOK, Attempt
<1>4. \A s \in Creators : creation'[s].step # "idle" => Paired(creation'[s])
  BY <1>2 DEF ChatInv
<1>5. ASSUME NEW s \in Creators, NEW t \in Creators, Holding(s)', Holding(t)',
             PairOf(creation'[s]) = PairOf(creation'[t])
      PROVE  s = t
  <2>1. ASSUME NEW x \in Creators \ {r}, Holding(r)', Holding(x)',
               PairOf(creation'[r]) = PairOf(creation'[x])
        PROVE  FALSE
    <3>1. HoldsPair(x, new.initiator, new.recipient)
      BY <1>2, <2>1 DEF Holding, HoldsPair, PairOf
    <3> QED
      BY <1>2, <2>1, <3>1 DEF Holding, PairIsLocked
  <2>2. CASE s # r /\ t # r
    BY <1>2, <1>5, <2>2 DEF ChatInv, Holding
  <2> QED
    BY <1>5, <2>1, <2>2
<1>6. ASSUME NEW s \in Creators, Holding(s)'
      PROVE  LiveBetween(creation[s].initiator, creation[s].recipient)' = {}
  <2>1. LiveBetween(creation'[s].initiator, creation'[s].recipient) = {}
    BY <1>2, <1>6 DEF ChatInv, LockSparesIndex, Holding
  <2> QED
    BY <2>1 DEF LiveBetween, Live, Realtime, Participants, Used
<1>7. /\ \A c \in Used' : Paired(conv'[c])
      /\ \A c \in Used' : conv'[c].mode = "mail" <=> conv'[c].state = "open"
      /\ \A c \in Used' : conv'[c].state = "syn_sent" => consent'[c] = {conv'[c].initiator}
  BY DEF ChatInv, Used
<1>8. KeyMeansOneConversation'
  BY DEF ChatInv, KeyMeansOneConversation, Used
<1>9. AnsweredIsNotBlocked'
  <2>1. Used' = Used /\ \A c \in Used : conv'[c] = conv[c] /\ c \in Convs
    BY DEF Used
  <2>2. \A c \in Used : IsBlocked(c)' <=> IsBlocked(c)
    BY <2>1, BlocksStay
  <2> QED
    BY <2>1, <2>2 DEF ChatInv, AnsweredIsNotBlocked
<1>10. /\ \A b \in blocking' : Captures(b)'
       /\ \A b, d \in blocking' : b # d => b.rows \cap d.rows = {}
  BY DEF ChatInv, Captures, LiveBetween, Live, Realtime, Participants, Used
<1> QED
  BY <1>3, <1>4, <1>5, <1>6, <1>7, <1>8, <1>9, <1>10 DEF ChatInv, LockSparesIndex, Holding

LEMMA BeginIsSafe ==
    ASSUME ChatInv, NEW r \in Creators, NEW u \in Members, NEW v \in Members, NEW k \in ChatKeys,
           NEW mode \in {"realtime", "mail"}, BeginCreate(r, u, v, k, mode)
    PROVE  ChatInv'
<1> DEFINE new == [step |-> "checked", initiator |-> u, recipient |-> v, key |-> k, mode |-> mode]
<1>1. new \in Attempt /\ new.step = "checked" /\ Paired(new)
  BY DEF Attempt, BeginCreate, Paired
<1>2. creation' = [creation EXCEPT ![r] = new] /\ UNCHANGED <<conv, message, blocked, blocking, consent, crossed>>
  BY DEF BeginCreate
<1> HIDE DEF new
<1> QED
  BY <1>1, <1>2, RequestsMove

LEMMA AdmitIsSafe ==
    ASSUME ChatInv, NEW r \in Creators, NEW settings, Admit(r, settings)
    PROVE  ChatInv'
<1> DEFINE new == [creation[r] EXCEPT !.step = "admitted"]
<1>1. creation[r] \in Attempt /\ Paired(creation[r])
  BY TypesAreRows DEF ChatInv, Admit
<1>2. /\ new \in Attempt /\ new.step = "admitted" /\ new.mode = creation[r].mode
      /\ new.key = creation[r].key
      /\ new.initiator = creation[r].initiator /\ new.recipient = creation[r].recipient
  BY <1>1 DEF Attempt
<1>3. creation' = [creation EXCEPT ![r] = new] /\ UNCHANGED <<conv, message, blocked, blocking, consent, crossed>>
  BY DEF Admit
<1> HIDE DEF new
<1>4. Paired(new)
  BY <1>1, <1>2 DEF Paired
<1>5. new.mode = "realtime" => /\ ~PairIsLocked(new.initiator, new.recipient)
                               /\ LiveBetween(new.initiator, new.recipient) = {}
  BY <1>2 DEF Admit
<1> QED
  BY <1>2, <1>3, <1>4, <1>5, RequestsMove

LEMMA AbortIsSafe == ASSUME ChatInv, NEW r \in Creators, AbortCreate(r) PROVE ChatInv'
<1>1. NoCreation \in Attempt /\ NoCreation.step = "idle"
  BY DEF Attempt, NoCreation
<1>2. creation' = [creation EXCEPT ![r] = NoCreation] /\ UNCHANGED <<conv, message, blocked, blocking, consent, crossed>>
  BY DEF AbortCreate, Done
<1> QED
  BY <1>1, <1>2, RequestsMove

LEMMA MeetIsSafe ==
    ASSUME ChatInv, NEW r \in Creators, NEW c \in Convs, MeetExisting(r, c)
    PROVE  ChatInv'
<1>1. /\ c \in Used /\ Live(c) /\ Free(c) /\ Done(r) /\ UNCHANGED <<blocked, blocking, crossed>>
      /\ creation[r].initiator \in Members /\ creation[r].key \in ChatKeys
  BY DEF MeetExisting, LiveBetween, ChatInv, Paired
<1> DEFINE meets == conv[c].state = "syn_sent" /\ conv[c].recipient = creation[r].initiator
<1>2. CASE meets
  <2> DEFINE new == Activated(conv[c])
  <2>1. /\ conv' = [conv EXCEPT ![c] = new]
        /\ message[creation[r].initiator][creation[r].key] = NULL
        /\ message' = [message EXCEPT ![creation[r].initiator][creation[r].key] = c]
        /\ consent' = [consent EXCEPT ![c] = @ \cup {creation[r].initiator}]
    BY <1>2 DEF MeetExisting
  <2>2. Kept(conv[c], new, "active")
    BY <1>1, UsedRows, ActivatedRow
  <2> HIDE DEF new
  <2>3. /\ message' \in [Members -> [ChatKeys -> Convs \cup {NULL}]]
        /\ \A v \in Members, j \in ChatKeys :
              message[v][j] # NULL => message'[v][j] = message[v][j]
    BY <1>1, <2>1, StoringKeys
  <2>4. consent' \in [Convs -> SUBSET Members] /\ \A d \in Convs \ {c} : consent'[d] = consent[d]
    BY <1>1, <2>1, TypesAreRows DEF ChatInv
  <2>5. conv[c].mode # "mail"
    BY <1>1 DEF Live, Realtime
  <2> QED
    BY <1>1, <2>1, <2>2, <2>3, <2>4, <2>5, DoneClears, OneRowMoves
<1>3. CASE ~meets
  <2>1. UNCHANGED <<message, conv, consent>>
    BY <1>3 DEF MeetExisting
  <2>2. creation' = [creation EXCEPT ![r] = NoCreation]
    BY <1>1 DEF Done
  <2>3. NoCreation \in Attempt /\ NoCreation.step = "idle"
    BY DEF Attempt, NoCreation
  <2> QED
    BY <1>1, <2>1, <2>2, <2>3, RequestsMove
<1> QED
  BY <1>2, <1>3

\* A new conversation: the lock of its pair goes with it, and its key was free
\* in both tables.
LEMMA FreshIsUnused == ASSUME ChatInv, Used # Convs PROVE Fresh \in Convs \ Used
<1>1. \E c \in Convs : conv[c].mode = "none"
  BY DEF Used
<1> QED
  BY <1>1 DEF Fresh, Used

LEMMA InsertIsSafe == ASSUME ChatInv, NEW r \in Creators, InsertConversation(r) PROVE ChatInv'
<1> DEFINE q == creation[r]
           new == Opened(q)
<1>1. PICK c \in Convs \ Used : c = Fresh /\ conv[c].mode = "none"
  BY FreshIsUnused DEF InsertConversation, Used
<1>2. q \in Attempt /\ q.step = "admitted" /\ Paired(q)
  BY TypesAreRows DEF ChatInv, InsertConversation
<1>3. /\ new.mode = q.mode /\ new.initiator = q.initiator /\ new.recipient = q.recipient
      /\ new.key = q.key /\ new.state = IF q.mode = "realtime" THEN "syn_sent" ELSE "open"
      /\ new \in ChatRow
  BY <1>2 DEF Opened, ChatRow, States, Paired, Attempt
<1>4. /\ conv' = [conv EXCEPT ![c] = new]
      /\ message' = [message EXCEPT ![q.initiator][q.key] = c]
      /\ consent' = [consent EXCEPT ![c] = IF q.mode = "realtime" THEN {q.initiator} ELSE {}]
      /\ Done(r) /\ UNCHANGED <<blocked, blocking>> /\ FitsIndexes(q)
      /\ crossed' = IF BlockUnderWay(q) THEN crossed \cup {c} ELSE crossed
  BY <1>1 DEF InsertConversation
<1>5. /\ conv \in [Convs -> ChatRow] /\ consent \in [Convs -> SUBSET Members]
      /\ message \in [Members -> [ChatKeys -> Convs \cup {NULL}]]
      /\ blocked \in SUBSET (Members \X Members) /\ crossed \in SUBSET Convs
      /\ blocking \in SUBSET BlockTransaction
  BY TypesAreRows DEF ChatInv
<1> HIDE DEF new
<1>6. /\ conv' \in [Convs -> ChatRow] /\ conv'[c] = new /\ \A d \in Convs \ {c} : conv'[d] = conv[d]
  BY <1>1, <1>3, <1>4, <1>5
<1>7. Used' = Used \cup {c} /\ \A d \in Used : conv'[d] = conv[d] /\ d # c
  BY <1>1, <1>2, <1>3, <1>6 DEF Used, Paired
<1>8. /\ consent' \in [Convs -> SUBSET Members]
      /\ consent'[c] = IF q.mode = "realtime" THEN {q.initiator} ELSE {}
      /\ \A d \in Convs \ {c} : consent'[d] = consent[d]
  BY <1>1, <1>2, <1>4, <1>5 DEF Paired
<1>9. /\ message' \in [Members -> [ChatKeys -> Convs \cup {NULL}]]
      /\ message'[q.initiator][q.key] = c
      /\ \A u \in Members, k \in ChatKeys : message[u][k] # NULL => message'[u][k] = message[u][k]
  <2>1. message[q.initiator][q.key] = NULL /\ q.initiator \in Members /\ q.key \in ChatKeys
    BY <1>2, <1>4 DEF FitsIndexes, Paired
  <2> QED
    BY <1>1, <1>4, <1>5, <2>1, StoringKeys
<1>10. /\ creation' \in [Creators -> Attempt] /\ creation'[r] = NoCreation
       /\ \A s \in Creators \ {r} : creation'[s] = creation[s]
  BY <1>4, DoneClears
<1>11. ChatTypeOK'
  <2>1. crossed' \in SUBSET Convs
    BY <1>1, <1>4, <1>5
  <2> QED
    BY <1>4, <1>5, <1>6, <1>8, <1>9, <1>10, <2>1 DEF ChatTypeOK, ChatRow, Attempt, BlockTransaction
<1>12. \A d \in Used' : Paired(conv'[d])
  BY <1>2, <1>3, <1>6, <1>7, UsedRows DEF Paired
<1>13. \A d \in Used' : conv'[d].mode = "mail" <=> conv'[d].state = "open"
  BY <1>2, <1>3, <1>6, <1>7, UsedRows DEF Paired
<1>14. \A d \in Used' : conv'[d].state = "syn_sent" => consent'[d] = {conv'[d].initiator}
  <2>1. \A d \in Used : d \in Convs \ {c}
    BY <1>7 DEF Used
  <2>2. \A d \in Used : conv'[d].state = "syn_sent" => consent'[d] = {conv'[d].initiator}
    BY <1>7, <1>8, <2>1 DEF ChatInv
  <2>3. conv'[c].state = "syn_sent" => consent'[c] = {conv'[c].initiator}
    BY <1>3, <1>6, <1>8
  <2> QED
    BY <1>7, <2>2, <2>3
<1>15. \A s \in Creators : creation'[s].step # "idle" => s # r /\ creation'[s] = creation[s]
  BY <1>10 DEF NoCreation
<1>16. \A s \in Creators : creation'[s].step # "idle" => Paired(creation'[s])
  BY <1>15 DEF ChatInv
<1>17. \A s, t \in Creators :
          Holding(s)' /\ Holding(t)' /\ PairOf(creation'[s]) = PairOf(creation'[t]) => s = t
  <2> SUFFICES ASSUME NEW s \in Creators, NEW t \in Creators, Holding(s)', Holding(t)',
                      PairOf(creation'[s]) = PairOf(creation'[t])
               PROVE  s = t
    OBVIOUS
  <2>1. Holding(s) /\ Holding(t) /\ PairOf(creation[s]) = PairOf(creation[t])
    BY <1>15 DEF Holding
  <2> QED
    BY <2>1 DEF ChatInv
<1>18. KeyMeansOneConversation'
  <2>1. \A d \in Used : message[conv[d].initiator][conv[d].key] = d /\ d # NULL
                        /\ conv[d].initiator \in Members /\ conv[d].key \in ChatKeys
    BY NullIsNoId, UsedRows DEF ChatInv, KeyMeansOneConversation, Paired, Used
  <2>2. \A d \in Used : message'[conv'[d].initiator][conv'[d].key] = d
    BY <1>7, <1>9, <2>1
  <2>3. message'[conv'[c].initiator][conv'[c].key] = c
    BY <1>3, <1>6, <1>9
  <2> QED
    BY <1>7, <2>2, <2>3 DEF KeyMeansOneConversation
<1>19. AnsweredIsNotBlocked'
  <2>1. \A d \in Used \ crossed : conv'[d].state = "syn_ack" => ~IsBlocked(d)'
    <3> SUFFICES ASSUME NEW d \in Used \ crossed, conv'[d].state = "syn_ack" PROVE ~IsBlocked(d)'
      OBVIOUS
    <3>1. d \in Convs /\ conv'[d] = conv[d] /\ ~IsBlocked(d)
      BY <1>7 DEF Used, ChatInv, AnsweredIsNotBlocked
    <3> QED
      BY <1>4, <3>1, BlocksStay
  <2>2. conv'[c].state # "syn_ack"
    BY <1>3, <1>6
  <2>3. crossed \subseteq crossed'
    BY <1>4
  <2> QED
    BY <1>7, <2>1, <2>2, <2>3 DEF AnsweredIsNotBlocked
<1>20. LockSparesIndex'
  <2> SUFFICES ASSUME NEW s \in Creators, Holding(s)'
               PROVE  LiveBetween(creation[s].initiator, creation[s].recipient)' = {}
    BY DEF LockSparesIndex, Holding
  <2>1. s # r /\ creation'[s] = creation[s] /\ Holding(s)
    BY <1>15 DEF Holding
  <2>2. LiveBetween(creation[s].initiator, creation[s].recipient) = {}
    BY <2>1 DEF ChatInv, LockSparesIndex, Holding
  <2>3. ASSUME NEW d \in Used, Live(d)', Participants(d)' = PairOf(creation[s]) PROVE FALSE
    <3>1. conv'[d] = conv[d]
      BY <1>7
    <3>2. Live(d) /\ Participants(d) = {creation[s].initiator, creation[s].recipient}
      BY <2>3, <3>1 DEF Live, Realtime, Participants, PairOf
    <3> QED
      BY <2>2, <3>2 DEF LiveBetween
  <2>4. ASSUME Live(c)', Participants(c)' = PairOf(creation[s]) PROVE FALSE
    <3>1. q.mode = "realtime" /\ PairOf(q) = PairOf(creation[s])
      BY <1>3, <1>6, <2>4 DEF Live, Realtime, Participants, PairOf
    <3>2. Holding(r)
      BY <1>2, <3>1 DEF Holding
    <3> QED
      BY <2>1, <3>1, <3>2 DEF ChatInv
  <2> QED
    <3> SUFFICES ASSUME NEW d \in Used', Live(d)',
                        Participants(d)' = {creation'[s].initiator, creation'[s].recipient}
                 PROVE  FALSE
      BY DEF LiveBetween
    <3>1. Participants(d)' = PairOf(creation[s])
      BY <2>1 DEF PairOf
    <3>2. d \in Used \/ d = c
      BY <1>7
    <3> QED
      BY <2>3, <2>4, <3>1, <3>2
<1>21. ASSUME NEW b \in blocking PROVE Captures(b)'
  <2>1. Captures(b)
    BY DEF ChatInv
  <2>2. b.rows \subseteq LiveBetween(b.by, b.whom)'
    <3> SUFFICES ASSUME NEW d \in b.rows PROVE d \in LiveBetween(b.by, b.whom)'
      OBVIOUS
    <3>1. d \in Used /\ Live(d) /\ Participants(d) = {b.by, b.whom} /\ d \in Used' /\ conv'[d] = conv[d]
      BY <1>7, <2>1 DEF Captures, LiveBetween
    <3> QED
      BY <3>1 DEF LiveBetween, Live, Realtime, Participants
  <2>3. ASSUME NEW d \in LiveBetween(b.by, b.whom)' PROVE d \in b.rows \cup crossed'
    <3>1. CASE d = c
      <4>1. PairOf(q) = {b.by, b.whom}
        BY <1>3, <1>6, <2>3, <3>1 DEF LiveBetween, Participants, PairOf
      <4> QED
        BY <1>4, <3>1, <4>1 DEF BlockUnderWay, PairOf
    <3>2. CASE d # c
      <4>1. d \in Used /\ conv'[d] = conv[d]
        BY <1>7, <2>3, <3>2 DEF LiveBetween
      <4>2. d \in LiveBetween(b.by, b.whom)
        BY <2>3, <4>1 DEF LiveBetween, Live, Realtime, Participants
      <4> QED
        BY <1>4, <2>1, <4>2 DEF Captures
    <3> QED
      BY <3>1, <3>2
  <2> QED
    BY <2>2, <2>3 DEF Captures
<1>22. /\ \A b \in blocking' : Captures(b)'
       /\ \A b, d \in blocking' : b # d => b.rows \cap d.rows = {}
  BY <1>4, <1>21 DEF ChatInv
<1> QED
  BY <1>11, <1>12, <1>13, <1>14, <1>16, <1>17, <1>18, <1>19, <1>20, <1>22 DEF ChatInv

LEMMA ChatStep == ASSUME ChatInv, [ChatNext]_chatVars PROVE ChatInv'
<1>1. ASSUME UNCHANGED chatVars PROVE ChatInv'
  <2>1. ChatTypeOK' /\ \A c \in Convs : SameOnes(c)
    BY <1>1 DEF ChatInv, ChatTypeOK, SameOnes, chatVars
  <2> QED
    BY <1>1, <2>1, BlocksBegin DEF ChatInv, chatVars
<1>2. ASSUME NEW r \in Creators, Create(r) PROVE ChatInv'
  BY <1>2, BeginIsSafe, MeetIsSafe, AdmitIsSafe, InsertIsSafe, AbortIsSafe DEF Create
<1> QED
  BY <1>1, <1>2, AnswerIsSafe, AcknowledgeIsSafe, CloseIsSafe, SendIsSafe, InteractionIsSafe,
     BeginBlockIsSafe, EndBlockIsSafe, AbortBlockIsSafe, UnblockIsSafe, DeadlineIsSafe, ExpireIsSafe
  DEF ChatNext

LEMMA ChatInitially == ChatInit => ChatInv
<1> SUFFICES ASSUME ChatInit PROVE ChatInv
  OBVIOUS
<1>1. Unused \in ChatRow /\ NoCreation \in Attempt
  BY DEF Unused, NoCreation, ChatRow, Attempt, States
<1>2. ChatTypeOK
  BY <1>1, TypesAreRows DEF ChatInit
<1>3. blocking = {} /\ Used = {} /\ \A r \in Creators : creation[r].step = "idle"
  BY DEF ChatInit, Used, Unused, NoCreation
<1> QED
  BY <1>2, <1>3
  DEF ChatInv, KeyMeansOneConversation, AnsweredIsNotBlocked, LockSparesIndex, Holding

LEMMA OffersFollow == ChatInv => OffersAreAccurate
<1> SUFFICES ASSUME ChatInv, NEW c \in Used, ~conv[c].due, NEW u \in Participants(c)
             PROVE  /\ CanRespond(u, c) <=> MayAnswer(u, c)
                    /\ CanAck(u, c) => MayAcknowledge(u, c)
                    /\ MayAcknowledge(u, c) => CanAck(u, c) \/ c \in crossed
                    /\ CanSend(u, c) <=> MayWrite(u, c)
  BY DEF OffersAreAccurate
<1>1. /\ u \in {conv[c].initiator, conv[c].recipient} /\ conv[c].initiator # conv[c].recipient
      /\ conv[c].mode = "mail" <=> conv[c].state = "open"
      /\ conv[c].mode \in {"realtime", "mail"}
      /\ MayWorkOn(u, c)
  BY UsedRows DEF Participants, Paired, MayWorkOn
<1>2. CanRespond(u, c) <=> MayAnswer(u, c)
  BY <1>1 DEF CanRespond, MayAnswer
<1>3. /\ CanAck(u, c) => MayAcknowledge(u, c)
      /\ MayAcknowledge(u, c) => CanAck(u, c) \/ c \in crossed
  BY <1>1 DEF CanAck, MayAcknowledge, ChatInv, AnsweredIsNotBlocked
<1>4. CanSend(u, c) <=> MayWrite(u, c)
  BY <1>1 DEF CanSend, MayWrite, Realtime
<1> QED
  BY <1>2, <1>3, <1>4

\* However requests, answers, blocks and deadlines of any number of people
\* interleave, an answered request belongs to a pair that is not blocked unless
\* it was made while a block was on its way, who holds the lock of a pair meets
\* no live conversation, and each is offered what the handlers will let him do
\* (chat_conversation.rs).
THEOREM PairStaysGuarded == ChatSpec => []PairIsGuarded
<1>1. ChatInv => PairIsGuarded
  BY OffersFollow DEF ChatInv, PairIsGuarded
<1> QED
  BY <1>1, ChatInitially, ChatStep, PTL DEF ChatSpec

-----------------------------------------------------------------------------
(* Every step is one of the handshake, or none.                            *)

Phase == [c \in Convs |-> PhaseOf(c)]

LEMMA PhaseIsIn == \A c \in Convs : Phase[c] = PhaseIn(conv[c].mode, conv[c].state)
BY DEF Phase, PhaseOf

LEMMA RealtimePhases ==
    ASSUME NEW state
    PROVE  /\ state = "syn_sent" => PhaseIn("realtime", state) = "offered"
           /\ state = "syn_ack" => PhaseIn("realtime", state) = "answered"
           /\ state = "active" => PhaseIn("realtime", state) = "connected"
           /\ state \notin LiveStates => PhaseIn("realtime", state) = "ended"
           /\ PhaseIn("none", state) = "none" /\ PhaseIn("mail", state) = "mail"
BY DEF PhaseIn, LiveStates

LEMMA OnePhase ==
    ASSUME NEW c \in Convs, NEW new, conv' = [conv EXCEPT ![c] = new], ChatInv,
           NEW from, from = PhaseIn(conv[c].mode, conv[c].state),
           NEW to, to = PhaseIn(new.mode, new.state)
    PROVE  Phase[c] = from /\ Phase' = [Phase EXCEPT ![c] = to]
<1>1. conv'[c] = new /\ \A d \in Convs \ {c} : conv'[d] = conv[d]
  BY TypesAreRows DEF ChatInv
<1>2. \A d \in Convs : Phase'[d] = PhaseIn(conv'[d].mode, conv'[d].state)
  BY DEF Phase, PhaseOf
<1>3. Phase' = [d \in Convs |-> Phase'[d]] /\ Phase = [d \in Convs |-> Phase[d]]
  BY DEF Phase
<1>4. \A d \in Convs \ {c} : Phase'[d] = Phase[d]
  BY <1>1, <1>2, PhaseIsIn
<1>5. Phase'[c] = to
  BY <1>1, <1>2
<1> QED
  BY <1>3, <1>4, <1>5, PhaseIsIn

LEMMA QuietPhases ==
    ASSUME \A c \in Convs : conv'[c].mode = conv[c].mode /\ conv'[c].state = conv[c].state
    PROVE  Phase' = Phase
<1>1. \A c \in Convs : Phase'[c] = Phase[c]
  BY DEF Phase, PhaseOf
<1> QED
  BY <1>1 DEF Phase

\* What becomes of one conversation, in the words of Handshake.
LEMMA Moves ==
    ASSUME NEW c \in Convs, NEW from, NEW to, NEW agreed,
           Phase[c] = from, Phase' = [Phase EXCEPT ![c] = to],
           consent' = [consent EXCEPT ![c] = agreed]
    PROVE  H!Move(c, from, to, agreed)
BY DEF H!Move, Phase

LEMMA EndsSome ==
    ASSUME ChatInv, NEW ended \in SUBSET Used, ended # {}, \A c \in ended : Live(c),
           \A c \in ended : conv'[c].mode = conv[c].mode /\ conv'[c].state \notin LiveStates,
           \A c \in Convs \ ended : conv'[c] = conv[c], UNCHANGED consent
    PROVE  \E gone \in SUBSET Convs : H!End(gone)
<1>1. ended \in SUBSET Convs
  BY DEF Used
<1>2. \A c \in ended : Phase[c] \in {"offered", "answered", "connected"}
  BY <1>1, PhaseIsIn, RealtimePhases DEF Live, Realtime, LiveStates
<1>3. \A c \in Convs : Phase'[c] = PhaseIn(conv'[c].mode, conv'[c].state)
  BY DEF Phase, PhaseOf
<1>4. \A c \in ended : Phase'[c] = "ended"
  BY <1>1, <1>3, RealtimePhases DEF Live, Realtime
<1>5. \A c \in Convs \ ended : Phase'[c] = Phase[c]
  BY <1>3, PhaseIsIn
<1>6. Phase' = [c \in Convs |-> IF c \in ended THEN "ended" ELSE Phase[c]]
  BY <1>4, <1>5 DEF Phase
<1>7. H!End(ended)
  BY <1>2, <1>6, <1>1 DEF H!End, Phase
<1> QED
  BY <1>1, <1>7

LEMMA CreateMaps ==
    ASSUME ChatInv, NEW r \in Creators, Create(r)
    PROVE  [H!Next]_(H!vars)
<1>1. ASSUME UNCHANGED <<conv, consent>> PROVE [H!Next]_(H!vars)
  <2>1. Phase' = Phase
    BY <1>1, QuietPhases
  <2> QED
    BY <1>1, <2>1 DEF H!vars, Phase
<1>2. ASSUME NEW c \in Convs, MeetExisting(r, c) PROVE [H!Next]_(H!vars)
  <2> DEFINE u == creation[r].initiator
  <2>1. CASE conv[c].state = "syn_sent" /\ conv[c].recipient = u
    <3>1. c \in Used /\ Live(c) /\ u \in Members
      BY <1>2 DEF MeetExisting, LiveBetween, ChatInv, Paired
    <3>2. consent[c] = {conv[c].initiator} /\ u # conv[c].initiator
      BY <2>1, <3>1, UsedRows DEF ChatInv, Paired
    <3>3. conv' = [conv EXCEPT ![c] = Activated(conv[c])]
          /\ consent' = [consent EXCEPT ![c] = consent[c] \cup {u}]
      BY <1>2, <2>1 DEF MeetExisting
    <3>4. Kept(conv[c], Activated(conv[c]), "active")
      BY <3>1, UsedRows, ActivatedRow
    <3>5. Phase[c] = "offered" /\ Phase' = [Phase EXCEPT ![c] = "connected"]
      <4> DEFINE new == Activated(conv[c])
      <4>1. conv[c].mode = "realtime" /\ new.mode = "realtime" /\ new.state = "active"
        BY <3>1, <3>4 DEF Kept, Live, Realtime
      <4>2. /\ PhaseIn(conv[c].mode, conv[c].state) = "offered"
            /\ PhaseIn(new.mode, new.state) = "connected"
        BY <2>1, <4>1, RealtimePhases
      <4>3. conv' = [conv EXCEPT ![c] = new]
        BY <3>3
      <4> HIDE DEF new
      <4> QED
        BY <4>2, <4>3, OnePhase
    <3>6. H!Meet(c, u)
      BY <3>2, <3>3, <3>5, Moves DEF H!Meet
    <3> QED
      BY <3>1, <3>6 DEF H!Next
  <2>2. CASE ~(conv[c].state = "syn_sent" /\ conv[c].recipient = u)
    BY <1>1, <1>2, <2>2 DEF MeetExisting
  <2> QED
    BY <2>1, <2>2
<1>3. ASSUME InsertConversation(r) PROVE [H!Next]_(H!vars)
  <2> DEFINE q == creation[r]
             new == Opened(q)
  <2>1. PICK c \in Convs \ Used : c = Fresh /\ conv[c].mode = "none"
    BY <1>3, FreshIsUnused DEF InsertConversation, Used
  <2>2. Paired(q)
    BY <1>3 DEF ChatInv, InsertConversation
  <2>3. /\ new.mode = q.mode
        /\ new.state = IF q.mode = "realtime" THEN "syn_sent" ELSE "open"
    BY DEF Opened
  <2>4. /\ conv' = [conv EXCEPT ![c] = new]
        /\ consent' = [consent EXCEPT ![c] = IF q.mode = "realtime" THEN {q.initiator} ELSE {}]
    BY <1>3, <2>1 DEF InsertConversation
  <2> HIDE DEF new
  <2>5. PhaseIn(conv[c].mode, conv[c].state) = "none"
    BY <2>1, RealtimePhases
  <2>6. CASE q.mode = "realtime"
    <3>0. PhaseIn(new.mode, new.state) = "offered"
      BY <2>3, <2>6, RealtimePhases
    <3>1. Phase[c] = "none" /\ Phase' = [Phase EXCEPT ![c] = "offered"]
      BY <2>4, <2>5, <3>0, OnePhase
    <3>2. consent' = [consent EXCEPT ![c] = {q.initiator}]
      BY <2>4, <2>6
    <3>3. H!Offer(c, q.initiator)
      BY <3>1, <3>2, Moves DEF H!Offer
    <3> QED
      BY <2>2, <3>3 DEF H!Next, Paired
  <2>7. CASE q.mode = "mail"
    <3>0. PhaseIn(new.mode, new.state) = "mail"
      BY <2>3, <2>7, RealtimePhases
    <3>1. Phase[c] = "none" /\ Phase' = [Phase EXCEPT ![c] = "mail"]
      BY <2>4, <2>5, <3>0, OnePhase
    <3>2. consent' = [consent EXCEPT ![c] = {}]
      BY <2>4, <2>7
    <3>3. H!Leave(c)
      BY <3>1, <3>2, Moves DEF H!Leave
    <3> QED
      BY <3>3 DEF H!Next
  <2> QED
    BY <2>2, <2>6, <2>7 DEF Paired
<1>4. CASE UNCHANGED <<conv, consent>>
  BY <1>1, <1>4
<1> QED
  BY <1>2, <1>3, <1>4 DEF Create, BeginCreate, Admit, AbortCreate

LEMMA AnswerMaps ==
    ASSUME ChatInv, NEW u \in Members, NEW c \in Convs, NEW d, AnswerRequest(u, c, d)
    PROVE  [H!Next]_(H!vars)
<1>1. /\ c \in Used /\ Realtime(c) /\ conv[c].state = "syn_sent" /\ conv[c].recipient = u
      /\ conv \in [Convs -> ChatRow]
  BY TypesAreRows DEF AnswerRequest, MayAnswer, MayWorkOn, ChatInv
<1>2. consent[c] = {conv[c].initiator} /\ u # conv[c].initiator
  BY <1>1, UsedRows DEF ChatInv, Paired
<1> DEFINE s == IF d = "accept" THEN "syn_ack" ELSE "declined"
           new == [conv[c] EXCEPT !.state = s]
<1>3. conv' = [conv EXCEPT ![c] = new]
  BY DEF AnswerRequest
<1>4. s \in States
  BY DEF States
<1>5. CASE d = "accept"
  <2>1. consent' = [consent EXCEPT ![c] = consent[c] \cup {u}] /\ s = "syn_ack"
    BY <1>5 DEF AnswerRequest
  <2> HIDE DEF s
  <2>2. Kept(conv[c], new, s)
    BY <1>1, <1>4, StatesChange
  <2> HIDE DEF new
  <2>3. Phase[c] = "offered" /\ Phase' = [Phase EXCEPT ![c] = "answered"]
    <3>1. /\ PhaseIn(conv[c].mode, conv[c].state) = "offered"
          /\ PhaseIn(new.mode, new.state) = "answered"
      BY <1>1, <2>1, <2>2, RealtimePhases DEF Kept, Realtime
    <3> QED
      BY <1>3, <3>1, OnePhase
  <2>4. H!Answer(c, u)
    BY <1>2, <2>1, <2>3, Moves DEF H!Answer, Phase
  <2> QED
    BY <2>4 DEF H!Next
<1>6. CASE d # "accept"
  <2>1. consent' = consent /\ s = "declined"
    BY <1>6, TypesAreRows DEF AnswerRequest, ChatInv
  <2> HIDE DEF s
  <2>2. Kept(conv[c], new, s)
    BY <1>1, <1>4, StatesChange
  <2> HIDE DEF new
  <2>3. /\ conv'[c].mode = conv[c].mode /\ conv'[c].state \notin LiveStates
        /\ \A e \in Convs \ {c} : conv'[e] = conv[e]
    BY <1>1, <1>3, <2>1, <2>2 DEF Kept, LiveStates
  <2>4. {c} \in SUBSET Used /\ {c} # {} /\ Live(c)
    BY <1>1 DEF Live, LiveStates
  <2>5. \E gone \in SUBSET Convs : H!End(gone)
    BY <2>1, <2>3, <2>4, EndsSome
  <2> QED
    BY <2>5 DEF H!Next
<1> QED
  BY <1>5, <1>6

\* Whoever asked is still there: he says so, or writes.
LEMMA ConfirmingMaps ==
    ASSUME ChatInv, NEW c \in Used, conv[c].state \in {"syn_ack", "active"}, Realtime(c),
           NEW new, Kept(conv[c], new, "active"), conv' = [conv EXCEPT ![c] = new], UNCHANGED consent
    PROVE  [H!Next]_(H!vars)
<1>1. c \in Convs
  BY UsedRows
<1>2. PhaseIn(new.mode, new.state) = "connected"
  BY RealtimePhases DEF Kept, Realtime
<1>3. CASE conv[c].state = "syn_ack"
  <2>1. PhaseIn(conv[c].mode, conv[c].state) = "answered"
    BY <1>3, RealtimePhases DEF Realtime
  <2>2. Phase[c] = "answered" /\ Phase' = [Phase EXCEPT ![c] = "connected"]
    BY <1>1, <1>2, <2>1, OnePhase
  <2>3. consent' = [consent EXCEPT ![c] = consent[c]]
    BY <1>1, TypesAreRows DEF ChatInv
  <2>4. H!Confirm(c)
    BY <1>1, <2>2, <2>3, Moves DEF H!Confirm
  <2> QED
    BY <1>1, <2>4 DEF H!Next
<1>4. CASE conv[c].state = "active"
  <2>1. PhaseIn(conv[c].mode, conv[c].state) = "connected"
    BY <1>4, RealtimePhases DEF Realtime
  <2>2. Phase[c] = "connected" /\ Phase' = [Phase EXCEPT ![c] = "connected"]
    BY <1>1, <1>2, <2>1, OnePhase
  <2>3. Phase' = Phase
    BY <2>2 DEF Phase
  <2> QED
    BY <2>3 DEF H!vars, Phase
<1> QED
  BY <1>3, <1>4

LEMMA ConfirmMaps ==
    ASSUME ChatInv, NEW c \in Used, conv[c].state \in {"syn_ack", "active"}, Realtime(c),
           conv' = [conv EXCEPT ![c] = Activated(conv[c])], UNCHANGED consent
    PROVE  [H!Next]_(H!vars)
<1>1. Kept(conv[c], Activated(conv[c]), "active")
  BY UsedRows, ActivatedRow
<1> QED
  BY <1>1, ConfirmingMaps

LEMMA CloseMaps ==
    ASSUME ChatInv, NEW u \in Members, NEW c \in Convs, Close(u, c)
    PROVE  [H!Next]_(H!vars)
<1> DEFINE s == IF conv[c].state = "syn_sent" THEN "cancelled" ELSE "closed"
           new == [conv[c] EXCEPT !.state = s]
<1>1. c \in Used /\ Live(c) /\ conv \in [Convs -> ChatRow]
  BY TypesAreRows DEF Close, MayClose, MayWorkOn, ChatInv
<1>2. conv' = [conv EXCEPT ![c] = new] /\ UNCHANGED consent
  BY DEF Close
<1>3. s \in States /\ s \notin LiveStates
  BY DEF States, LiveStates
<1> HIDE DEF s
<1>4. Kept(conv[c], new, s)
  BY <1>1, <1>3, UsedRows, StatesChange
<1> HIDE DEF new
<1>5. /\ conv'[c].mode = conv[c].mode /\ conv'[c].state \notin LiveStates
      /\ \A e \in Convs \ {c} : conv'[e] = conv[e]
  BY <1>1, <1>2, <1>3, <1>4 DEF Kept
<1>6. \E gone \in SUBSET Convs : H!End(gone)
  <2>1. {c} \in SUBSET Used /\ {c} # {}
    BY <1>1
  <2> QED
    BY <1>1, <1>2, <1>5, <2>1, EndsSome
<1> QED
  BY <1>6 DEF H!Next

LEMMA EndingMaps ==
    ASSUME ChatInv, NEW ended \in SUBSET Used, \A c \in ended : Live(c),
           NEW s \in {"closed", "expired"},
           conv' = [c \in Convs |-> IF c \in ended THEN [conv[c] EXCEPT !.state = s, !.due = FALSE]
                                    ELSE conv[c]],
           UNCHANGED consent
    PROVE  [H!Next]_(H!vars)
<1>1. CASE ended = {}
  <2>1. \A c \in Convs : conv'[c] = conv[c]
    BY <1>1
  <2>2. Phase' = Phase
    BY <2>1, QuietPhases
  <2> QED
    BY <2>2 DEF H!vars, Phase
<1>2. CASE ended # {}
  <2>1. \A c \in ended : Kept(conv[c], [conv[c] EXCEPT !.state = s, !.due = FALSE], s)
    BY UsedRows, StatesEnd DEF States
  <2>2. \A c \in ended : conv'[c].mode = conv[c].mode /\ conv'[c].state \notin LiveStates
    BY <2>1 DEF Kept, LiveStates, Used
  <2>3. \A c \in Convs \ ended : conv'[c] = conv[c]
    OBVIOUS
  <2>4. \E gone \in SUBSET Convs : H!End(gone)
    BY <1>2, <2>2, <2>3, EndsSome
  <2> QED
    BY <2>4 DEF H!Next
<1> QED
  BY <1>1, <1>2

LEMMA ChatMaps == ASSUME ChatInv, [ChatNext]_chatVars PROVE [H!Next]_(H!vars)
<1>1. ASSUME \A c \in Convs : conv'[c].mode = conv[c].mode /\ conv'[c].state = conv[c].state,
             UNCHANGED consent
      PROVE  [H!Next]_(H!vars)
  <2>1. Phase' = Phase
    BY <1>1, QuietPhases
  <2> QED
    BY <1>1, <2>1 DEF H!vars, Phase
<1>2. ASSUME NEW u \in Members, NEW c \in Convs, Acknowledge(u, c) PROVE [H!Next]_(H!vars)
  BY <1>2, ConfirmMaps DEF Acknowledge, MayAcknowledge, MayWorkOn
<1>3. ASSUME NEW u \in Members, NEW c \in Convs, NEW k \in ChatKeys, SendMessage(u, c, k)
      PROVE  [H!Next]_(H!vars)
  <2>1. c \in Used /\ UNCHANGED consent
    BY <1>3 DEF SendMessage, MayWrite, MayWorkOn
  <2>2. CASE Realtime(c)
    <3>1. conv[c].state \in {"syn_ack", "active"}
      BY <1>3, <2>1, <2>2, UsedRows DEF SendMessage, MayWrite, Realtime
    <3>2. conv' = [conv EXCEPT ![c] = Activated(conv[c])]
      BY <1>3, <2>2 DEF SendMessage
    <3> QED
      BY <2>1, <2>2, <3>1, <3>2, ConfirmMaps
  <2>3. CASE ~Realtime(c)
    <3>1. conv' = [conv EXCEPT ![c] = conv[c]]
      BY <1>3, <2>3 DEF SendMessage
    <3>2. \A d \in Convs : conv'[d] = conv[d]
      BY <3>1, TypesAreRows DEF ChatInv
    <3> QED
      BY <1>1, <2>1, <3>2
  <2> QED
    BY <2>2, <2>3
<1>4. ASSUME NEW c \in Used, NEW b \in BOOLEAN, conv' = [conv EXCEPT ![c].due = b], UNCHANGED consent
      PROVE  [H!Next]_(H!vars)
  <2> DEFINE new == [conv[c] EXCEPT !.due = b]
  <2>1. Kept(conv[c], new, conv[c].state) /\ c \in Convs /\ conv \in [Convs -> ChatRow]
    BY UsedRows, DeadlinesChange, TypesAreRows DEF ChatInv
  <2>2. conv' = [conv EXCEPT ![c] = new]
    BY <1>4
  <2> HIDE DEF new
  <2>3. \A d \in Convs : conv'[d].mode = conv[d].mode /\ conv'[d].state = conv[d].state
    BY <2>1, <2>2 DEF Kept
  <2> QED
    BY <1>1, <1>4, <2>3
<1>5. ASSUME NEW u \in Members, NEW c \in Convs, NEW k \in ChatKeys, SendAvatarInteraction(u, c, k)
      PROVE  [H!Next]_(H!vars)
  BY <1>4, <1>5 DEF SendAvatarInteraction, MayWorkOn
<1>6. ASSUME NEW c \in Convs, DeadlinePasses(c) PROVE [H!Next]_(H!vars)
  BY <1>4, <1>6 DEF DeadlinePasses
<1>7. ASSUME ExpireStale PROVE [H!Next]_(H!vars)
  <2>1. Overdue \in SUBSET Used /\ \A c \in Overdue : Live(c)
    BY DEF Overdue
  <2> QED
    BY <1>7, <2>1, EndingMaps DEF ExpireStale
<1>8. ASSUME NEW b \in blocking, EndBlock(b) \/ AbortBlock(b) PROVE [H!Next]_(H!vars)
  <2>1. CASE EndBlock(b)
    BY <2>1, BlockedRows, EndingMaps DEF EndBlock
  <2>2. CASE AbortBlock(b)
    BY <1>1, <2>2 DEF AbortBlock
  <2> QED
    BY <1>8, <2>1, <2>2
<1>9. ASSUME NEW u \in Members, NEW v \in Members, BeginBlock(u, v) \/ Unblock(u, v)
      PROVE  [H!Next]_(H!vars)
  BY <1>1, <1>9 DEF BeginBlock, Unblock
<1>10. CASE UNCHANGED chatVars
  BY <1>1, <1>10 DEF chatVars
<1> QED
  BY <1>2, <1>3, <1>5, <1>6, <1>7, <1>8, <1>9, <1>10, CreateMaps, AnswerMaps, CloseMaps DEF ChatNext

\* Rows, keys, locks, blocks and deadlines are one way to shake hands: nobody
\* is connected unless both have said yes, each by an act of his own, and what
\* has ended does not come back.
THEOREM ChatShakesHands == ChatSpec => ImplementsHandshake
<1>1. ChatInit => H!Init
  <2> SUFFICES ASSUME ChatInit PROVE H!Init
    OBVIOUS
  <2>1. \A c \in Convs : PhaseOf(c) = "none"
    BY DEF ChatInit, PhaseOf, PhaseIn, Unused
  <2> QED
    BY <2>1 DEF ChatInit, H!Init
<1> QED
  BY <1>1, ChatInitially, ChatStep, ChatMaps, PTL DEF ChatSpec, H!Spec, ImplementsHandshake

-----------------------------------------------------------------------------
(* Together.                                                               *)

\* What is sent again under its key finds what it made the first time, for
\* posts, first messages, and lines of a group, whichever requests run at once.
THEOREM KeysStayHonoured == PostSpec /\ ChatSpec /\ GroupSpec /\ CallSpec => []KeysAreHonoured
<1>1. PostInv /\ ChatInv /\ SpacesAreOrderly => KeysAreHonoured
  BY KeysFindPosts DEF ChatInv, KeysAreHonoured
<1> QED
  BY <1>1, PostInitially, PostStep, ChatInitially, ChatStep, SpacesStayOrderly, PTL
  DEF PostSpec, ChatSpec

\* A step of the composition is one of each component, or none.
LEMMA EachGoesOn ==
    ASSUME [DealingsNext]_dealingsVars
    PROVE  /\ [PostNext]_postVars /\ [ChatNext]_chatVars /\ [GroupNext]_groupVars
           /\ [CallNext]_callVars /\ [DealingNext]_dealingVars /\ [WishNext]_wishVars
           /\ [LineNext]_lineVars
<1>1. /\ [PostNext]_postVars /\ [ChatNext]_chatVars /\ [GroupNext]_groupVars
      /\ [CallNext]_callVars /\ [DealingNext]_dealingVars /\ [WishNext]_wishVars
  BY DEF DealingsNext, dealingsVars, Follow, Rests, Talking, DealingNext, dealingVars, cardVars, discoveryVars
<1>2. Hiding => MarkNext
  BY DEF Hiding, MarkNext, Marks
<1>3. \A talk \in Talking : ~(talk \in {"posts", "chat", "groups", "calls", "card", "price", "wishes"})
  BY DEF Talking
<1>4. [LineNext]_lineVars
  BY <1>2, <1>3 DEF DealingsNext, dealingsVars, Follow, LineNext
<1> QED
  BY <1>1, <1>4

LEMMA EachIsItself ==
    DealingsSpec => PostSpec /\ ChatSpec /\ GroupSpec /\ CallSpec /\ DealingSpec
                    /\ WishInit /\ [][WishNext]_wishVars /\ LineSpec
<1>1. DealingsInit => PostInit /\ ChatInit /\ GroupInit /\ CallInit /\ DealingInit /\ WishInit /\ LineInit
  BY DEF DealingsInit
<1>2. [DealingsNext]_dealingsVars =>
          /\ [PostNext]_postVars /\ [ChatNext]_chatVars /\ [GroupNext]_groupVars
          /\ [CallNext]_callVars /\ [DealingNext]_dealingVars /\ [WishNext]_wishVars
          /\ [LineNext]_lineVars
  BY EachGoesOn
<1> QED
  BY <1>1, <1>2, PTL
  DEF DealingsSpec, PostSpec, ChatSpec, GroupSpec, CallSpec, DealingSpec, LineSpec

\* The composition that the run dealings explores keeps what the components
\* promise one by one, for any number of people, requests and keys.
THEOREM DealingsKeepTheirWord ==
    DealingsSpec => [](/\ KeysAreHonoured /\ PairIsGuarded /\ TimesAreReliable
                       /\ TermsAreHonoured /\ WishesAreRespected)
<1>1. WishInv => WishesAreRespected
  BY MatchesLeaveRoom, ConsentComesFirst DEF WishesAreRespected
<1> QED
  BY <1>1, EachIsItself, KeysStayHonoured, PairStaysGuarded, TimesStayReliable, TermsStayHonoured,
     WishInitially, WishStep, PTL
=============================================================================
